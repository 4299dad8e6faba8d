----------------------------- MODULE CdclProofs -----------------------------
(***************************************************************************)
(* Proofs about Cdcl. First the trail and the memory: what a step may do   *)
(* to the trail, the types, the clauses in memory and the watch lists; the *)
(* order of the trail, the heap and where conflict analysis stands; marks  *)
(* and reasons. Every step is one of six on the memory (MemorySteps) and   *)
(* one of seven on the trail (TrailSteps); the lemmas that follow are      *)
(* stated for those instead of for the actions of Next. Then the two       *)
(* watched literals: Blockers and Guarded join the invariant. Last what    *)
(* clauses mean: learnt clauses, minimised ones too, follow from the given *)
(* ones; the clauses that are kept lose nothing; and the answers are those *)
(* of IncrementalSat.                                                      *)
(***************************************************************************)
EXTENDS CdclInvariant, TLAPS, WellFoundedInduction, FiniteSetTheorems

(* The memory and the watch lists. *)

(* A nonempty set of naturals has a least element: what stands first on the
   trail. *)
LEMMA LeastNatural ==
  ASSUME NEW S \in SUBSET Nat, S # {}
  PROVE  \E n \in S : \A k \in S : n <= k
<1> DEFINE R == OpToRel(<, Nat)
<1>1. \E n \in S : \A k \in S : ~(<<k, n>> \in R)
  <2>1. IsWellFoundedOn(R, Nat)
    BY NatLessThanWellFounded
  <2> QED
    BY <2>1, WFMin
<1>2. \A k, n \in Nat : k < n => <<k, n>> \in R
  BY DEF OpToRel
<1> HIDE DEF R
<1>3. PICK n \in S : \A k \in S : ~(<<k, n>> \in R)
  BY <1>1
<1>4. ASSUME NEW k \in S PROVE n <= k
  <2>1. ~(k < n)
    BY <1>2, <1>3
  <2> QED
    BY <2>1
<1> QED
  BY <1>4

(* A bounded one has a greatest: what stands last. *)
LEMMA GreatestNatural ==
  ASSUME NEW S \in SUBSET Nat, S # {}, NEW b \in Nat, \A k \in S : k <= b
  PROVE  \E n \in S : \A k \in S : k <= n
<1> DEFINE B == {u \in Nat : \A k \in S : k <= u}
<1>1. PICK u \in B : \A w \in B : u <= w
  BY LeastNatural, B \in SUBSET Nat, B # {}
<1>2. u \in S
  <2>1. SUFFICES ASSUME u \notin S PROVE FALSE
    OBVIOUS
  <2>2. \A k \in S : k <= u - 1
    BY <2>1
  <2>3. PICK s \in S : TRUE
    OBVIOUS
  <2>4. u - 1 \in Nat
    <3>1. s <= u - 1 /\ s \in Nat /\ u \in Nat
      BY <2>2
    <3> QED
      BY <3>1
  <2>5. u - 1 \in B
    BY <2>2, <2>4
  <2> QED
    BY <2>5, <1>1
<1> QED
  BY <1>1, <1>2

(* Negation keeps the variable of a literal and is undone by negation. *)
LEMMA LitFacts ==
  ASSUME NEW p \in Lits
  PROVE  /\ p \in Nat
         /\ Neg(p) \in Lits
         /\ Neg(p) # p
         /\ Neg(Neg(p)) = p
         /\ Var(p) \in Vars
         /\ Var(p) \in Nat
         /\ Var(Neg(p)) = Var(p)
BY NVarsAssumption, SMTT(30) DEF Lits, Vars, Neg, Var, sign

(* A variable has two literals. *)
LEMMA SameVar ==
  ASSUME NEW p \in Lits, NEW q \in Lits, Var(p) = Var(q)
  PROVE  p = q \/ p = Neg(q)
BY NVarsAssumption, SMTT(30) DEF Lits, Vars, Neg, Var, sign

-----------------------------------------------------------------------------
(* Sequences: what is pushed comes last and moves nothing. *)
LEMMA Appended ==
  ASSUME NEW T, NEW s \in Seq(T), NEW e \in T
  PROVE  /\ Append(s, e) \in Seq(T)
         /\ Len(Append(s, e)) = Len(s) + 1
         /\ DOMAIN Append(s, e) = 1 .. Len(s) + 1
         /\ DOMAIN s = 1 .. Len(s)
         /\ \A i \in 1 .. Len(s) : Append(s, e)[i] = s[i]
         /\ Append(s, e)[Len(s) + 1] = e
OBVIOUS

(* What shrink leaves of a sequence is its beginning. *)
LEMMA Shortened ==
  ASSUME NEW T, NEW s \in Seq(T), NEW n \in 0 .. Len(s)
  PROVE  /\ SubSeq(s, 1, n) \in Seq(T)
         /\ Len(SubSeq(s, 1, n)) = n
         /\ DOMAIN SubSeq(s, 1, n) = 1 .. n
         /\ DOMAIN s = 1 .. Len(s)
         /\ \A i \in 1 .. n : SubSeq(s, 1, n)[i] = s[i] /\ i \in DOMAIN s
OBVIOUS

-----------------------------------------------------------------------------
(* uncheckedEnqueue of an unassigned variable at the present level keeps the
   trail in order. *)
LEMMA PushOrdered ==
  ASSUME NEW tr \in Seq(Lits), NEW lim \in Seq(Nat), NEW data, NEW data2, NEW p \in Lits,
         OrderedIn(tr, lim, data),
         \A k \in DOMAIN tr : Var(tr[k]) # Var(p) /\ data2[Var(tr[k])] = data[Var(tr[k])],
         data2[Var(p)].level = Len(lim)
  PROVE  OrderedIn(Append(tr, p), lim, data2)
<1> DEFINE tr2 == Append(tr, p)
<1>1. /\ Len(tr2) = Len(tr) + 1 /\ DOMAIN tr2 = 1 .. Len(tr) + 1 /\ DOMAIN tr = 1 .. Len(tr)
      /\ \A i \in 1 .. Len(tr) : tr2[i] = tr[i]
      /\ tr2[Len(tr) + 1] = p
      /\ Len(tr) \in Nat /\ Len(lim) \in Nat /\ DOMAIN lim = 1 .. Len(lim)
      /\ \A i \in DOMAIN lim : lim[i] \in Nat
  BY Appended
<1> HIDE DEF tr2
<1>2. ASSUME NEW i \in DOMAIN tr2, NEW k \in DOMAIN tr2, Var(tr2[i]) = Var(tr2[k])
      PROVE  i = k
  BY <1>1, <1>2 DEF OrderedIn
<1>3. \A i \in DOMAIN lim : lim[i] <= Len(tr2)
  BY <1>1 DEF OrderedIn
<1>4. ASSUME NEW k \in DOMAIN tr2
      PROVE  /\ data2[Var(tr2[k])].level \in 0 .. Len(lim)
             /\ \A i \in DOMAIN lim : i <= data2[Var(tr2[k])].level <=> lim[i] < k
  <2>1. CASE k = Len(tr) + 1
    BY <2>1, <1>1 DEF OrderedIn
  <2>2. CASE k # Len(tr) + 1
    <3>1. k \in DOMAIN tr /\ tr2[k] = tr[k]
      BY <2>2, <1>1
    <3> QED
      BY <3>1 DEF OrderedIn
  <2> QED
    BY <2>1, <2>2
<1>5. \A i, j \in DOMAIN lim : i <= j => lim[i] <= lim[j]
  BY DEF OrderedIn
<1> QED
  BY <1>2, <1>3, <1>4, <1>5 DEF OrderedIn, tr2

(* So does newDecisionLevel. *)
LEMMA LevelOrdered ==
  ASSUME NEW tr \in Seq(Lits), NEW lim \in Seq(Nat), NEW data,
         OrderedIn(tr, lim, data)
  PROVE  OrderedIn(tr, Append(lim, Len(tr)), data)
<1> DEFINE lim2 == Append(lim, Len(tr))
<1>1. /\ Len(lim2) = Len(lim) + 1 /\ DOMAIN lim2 = 1 .. Len(lim) + 1
      /\ DOMAIN lim = 1 .. Len(lim)
      /\ \A i \in 1 .. Len(lim) : lim2[i] = lim[i] /\ lim[i] \in Nat
      /\ lim2[Len(lim) + 1] = Len(tr)
      /\ Len(tr) \in Nat /\ Len(lim) \in Nat /\ DOMAIN tr = 1 .. Len(tr)
  BY Appended
<1> HIDE DEF lim2
<1>2. \A i \in DOMAIN lim2 : lim2[i] <= Len(tr)
  BY <1>1 DEF OrderedIn
<1>3. ASSUME NEW i \in DOMAIN lim2, NEW j \in DOMAIN lim2, i <= j
      PROVE  lim2[i] <= lim2[j]
  BY <1>1, <1>3 DEF OrderedIn
<1>4. ASSUME NEW k \in DOMAIN tr
      PROVE  /\ data[Var(tr[k])].level \in 0 .. Len(lim2)
             /\ \A i \in DOMAIN lim2 : i <= data[Var(tr[k])].level <=> lim2[i] < k
  <2>1. data[Var(tr[k])].level \in 0 .. Len(lim)
    BY DEF OrderedIn
  <2>2. ASSUME NEW i \in DOMAIN lim2
        PROVE  i <= data[Var(tr[k])].level <=> lim2[i] < k
    <3>1. CASE i \in DOMAIN lim
      BY <3>1, <1>1 DEF OrderedIn
    <3>2. CASE i = Len(lim) + 1
      BY <3>2, <1>1, <2>1
    <3> QED
      BY <1>1, <3>1, <3>2
  <2> QED
    BY <1>1, <2>1, <2>2
<1>5. \A i, k \in DOMAIN tr : Var(tr[i]) = Var(tr[k]) => i = k
  BY DEF OrderedIn
<1> QED
  BY <1>2, <1>3, <1>4, <1>5 DEF OrderedIn, lim2

(* How many literals are kept when the levels above lev are taken back. *)
LEMMA CutOrdered ==
  ASSUME NEW tr \in Seq(Lits), NEW lim \in Seq(Nat), NEW data, NEW data2,
         OrderedIn(tr, lim, data), NEW lev \in 0 .. Len(lim), NEW n,
         n = IF Len(lim) > lev THEN lim[lev + 1] ELSE Len(tr),
         \A k \in 1 .. n : data2[Var(tr[k])] = data[Var(tr[k])]
  PROVE  /\ n \in 0 .. Len(tr)
         /\ \A k \in DOMAIN tr : k <= n <=> data[Var(tr[k])].level <= lev
         /\ OrderedIn(SubSeq(tr, 1, n), SubSeq(lim, 1, lev), data2)
<1>1. /\ Len(tr) \in Nat /\ Len(lim) \in Nat /\ DOMAIN tr = 1 .. Len(tr)
      /\ DOMAIN lim = 1 .. Len(lim) /\ \A i \in DOMAIN lim : lim[i] \in Nat
  OBVIOUS
<1>2. n \in 0 .. Len(tr)
  BY <1>1 DEF OrderedIn
<1>3. ASSUME NEW k \in DOMAIN tr
      PROVE  k <= n <=> data[Var(tr[k])].level <= lev
  <2>1. /\ data[Var(tr[k])].level \in 0 .. Len(lim)
        /\ \A i \in DOMAIN lim : i <= data[Var(tr[k])].level <=> lim[i] < k
    BY DEF OrderedIn
  <2>2. CASE Len(lim) > lev
    <3>1. lev + 1 \in DOMAIN lim /\ n = lim[lev + 1] /\ n \in Nat /\ k \in Nat
      BY <2>2, <1>1
    <3>2. lev + 1 <= data[Var(tr[k])].level <=> n < k
      BY <3>1, <2>1
    <3> QED
      BY <3>1, <3>2, <2>1, <1>1
  <2>3. CASE ~(Len(lim) > lev)
    BY <2>3, <2>1, <1>1
  <2> QED
    BY <2>2, <2>3
<1> DEFINE tr2 == SubSeq(tr, 1, n)
           lim2 == SubSeq(lim, 1, lev)
<1>4. /\ Len(tr2) = n /\ DOMAIN tr2 = 1 .. n /\ \A k \in 1 .. n : tr2[k] = tr[k] /\ k \in DOMAIN tr
  BY <1>2, Shortened
<1>5. /\ Len(lim2) = lev /\ DOMAIN lim2 = 1 .. lev
      /\ \A i \in 1 .. lev : lim2[i] = lim[i] /\ i \in DOMAIN lim
  BY Shortened
<1> HIDE DEF tr2, lim2
<1>6. \A i, k \in DOMAIN tr2 : Var(tr2[i]) = Var(tr2[k]) => i = k
  BY <1>4 DEF OrderedIn
<1>7. \A i \in DOMAIN lim2 : lim2[i] <= Len(tr2)
  <2>1. CASE Len(lim) > lev
    BY <2>1, <1>1, <1>4, <1>5 DEF OrderedIn
  <2>2. CASE ~(Len(lim) > lev)
    BY <2>2, <1>1, <1>4, <1>5 DEF OrderedIn
  <2> QED
    BY <2>1, <2>2
<1>8. \A i, j \in DOMAIN lim2 : i <= j => lim2[i] <= lim2[j]
  BY <1>5 DEF OrderedIn
<1>9. ASSUME NEW k \in DOMAIN tr2
      PROVE  /\ data2[Var(tr2[k])].level \in 0 .. Len(lim2)
             /\ \A i \in DOMAIN lim2 : i <= data2[Var(tr2[k])].level <=> lim2[i] < k
  <2>1. tr2[k] = tr[k] /\ k \in DOMAIN tr /\ data2[Var(tr[k])] = data[Var(tr[k])]
    BY <1>4
  <2>2. data[Var(tr[k])].level \in 0 .. lev
    BY <2>1, <1>3, <1>4, <1>1 DEF OrderedIn
  <2> QED
    BY <2>1, <2>2, <1>5 DEF OrderedIn
<1> QED
  BY <1>2, <1>3, <1>6, <1>7, <1>8, <1>9 DEF OrderedIn, tr2, lim2

(* uncheckedEnqueue with a reason whose other literals are false keeps
   reasons before what they imply. *)
LEMMA PushReasons ==
  ASSUME NEW tr \in Seq(Lits), NEW data, NEW data2, NEW mem, NEW live, NEW p \in Lits,
         ReasonsIn(tr, data, mem, live), NEW from,
         \A k \in DOMAIN tr : data2[Var(tr[k])] = data[Var(tr[k])],
         data2[Var(p)].reason = from,
         from # CRef_Undef =>
           /\ from \in live
           /\ mem[from].w0 = p
           /\ \A q \in LitsOf(mem[from]) \ {p} : \E i \in DOMAIN tr : tr[i] = Neg(q)
  PROVE  ReasonsIn(Append(tr, p), data2, mem, live)
<1> DEFINE tr2 == Append(tr, p)
<1>1. /\ DOMAIN tr2 = 1 .. Len(tr) + 1 /\ DOMAIN tr = 1 .. Len(tr) /\ Len(tr) \in Nat
      /\ \A i \in 1 .. Len(tr) : tr2[i] = tr[i]
      /\ tr2[Len(tr) + 1] = p
  BY Appended
<1> HIDE DEF tr2
<1> SUFFICES ASSUME NEW k \in DOMAIN tr2, NEW cr, cr = data2[Var(tr2[k])].reason, cr # CRef_Undef
             PROVE  /\ cr \in live
                    /\ mem[cr].w0 = tr2[k]
                    /\ \A q \in LitsOf(mem[cr]) \ {tr2[k]} : \E i \in 1 .. k - 1 : tr2[i] = Neg(q)
  BY DEF ReasonsIn, tr2
<1>2. CASE k = Len(tr) + 1
  <2>1. cr = from /\ tr2[k] = p
    BY <1>1, <1>2
  <2>2. ASSUME NEW q \in LitsOf(mem[cr]) \ {tr2[k]}
        PROVE  \E i \in 1 .. k - 1 : tr2[i] = Neg(q)
    <3>1. PICK i \in DOMAIN tr : tr[i] = Neg(q)
      BY <2>1
    <3>2. i \in 1 .. k - 1 /\ tr2[i] = Neg(q)
      BY <3>1, <1>1, <1>2
    <3> QED
      BY <3>2
  <2> QED
    BY <2>1, <2>2
<1>3. CASE k # Len(tr) + 1
  <2>1. k \in DOMAIN tr /\ tr2[k] = tr[k] /\ k \in 1 .. Len(tr) /\ cr = data[Var(tr[k])].reason
    BY <1>1, <1>3
  <2>2. /\ cr \in live /\ mem[cr].w0 = tr[k]
        /\ \A q \in LitsOf(mem[cr]) \ {tr[k]} : \E i \in 1 .. k - 1 : tr[i] = Neg(q)
    BY <2>1 DEF ReasonsIn
  <2>3. \A i \in 1 .. k - 1 : tr2[i] = tr[i]
    BY <1>1, <2>1
  <2> QED
    BY <2>1, <2>2, <2>3
<1> QED
  BY <1>2, <1>3

(* So does taking back the end of the trail. *)
LEMMA CutReasons ==
  ASSUME NEW tr \in Seq(Lits), NEW data, NEW data2, NEW mem, NEW live,
         ReasonsIn(tr, data, mem, live), NEW n \in 0 .. Len(tr),
         \A k \in 1 .. n : data2[Var(tr[k])] = data[Var(tr[k])]
  PROVE  ReasonsIn(SubSeq(tr, 1, n), data2, mem, live)
<1> DEFINE tr2 == SubSeq(tr, 1, n)
<1>1. /\ DOMAIN tr2 = 1 .. n /\ DOMAIN tr = 1 .. Len(tr) /\ Len(tr) \in Nat
      /\ \A i \in 1 .. n : tr2[i] = tr[i] /\ i \in DOMAIN tr
  BY Shortened
<1> HIDE DEF tr2
<1> SUFFICES ASSUME NEW k \in DOMAIN tr2, NEW cr, cr = data2[Var(tr2[k])].reason, cr # CRef_Undef
             PROVE  /\ cr \in live
                    /\ mem[cr].w0 = tr2[k]
                    /\ \A q \in LitsOf(mem[cr]) \ {tr2[k]} : \E i \in 1 .. k - 1 : tr2[i] = Neg(q)
  BY DEF ReasonsIn, tr2
<1>2. k \in DOMAIN tr /\ tr2[k] = tr[k] /\ cr = data[Var(tr[k])].reason
  BY <1>1
<1>3. \A i \in 1 .. k - 1 : tr2[i] = tr[i]
  BY <1>1
<1> QED
  BY <1>2, <1>3 DEF ReasonsIn

(* Reasons may be forgotten, and clauses may lose literals behind the first. *)
LEMMA KeptReasons ==
  ASSUME NEW tr \in Seq(Lits), NEW data, NEW data2, NEW mem, NEW mem2, NEW live, NEW live2,
         ReasonsIn(tr, data, mem, live),
         \A k \in DOMAIN tr :
           LET cr == data2[Var(tr[k])].reason IN
             cr # CRef_Undef =>
               /\ cr = data[Var(tr[k])].reason
               /\ cr \in live2
               /\ mem[cr].w0 = tr[k] => mem2[cr].w0 = tr[k]
               /\ mem[cr].w0 = tr[k] => LitsOf(mem2[cr]) \subseteq LitsOf(mem[cr])
  PROVE  ReasonsIn(tr, data2, mem2, live2)
BY DEF ReasonsIn

-----------------------------------------------------------------------------
(* A literal pushed without a reason above level 0 must be the first of its
   level. *)
LEMMA PushOpened ==
  ASSUME NEW tr \in Seq(Lits), NEW lim \in Seq(Nat), NEW data, NEW data2, NEW as,
         NEW p \in Lits, OpenedIn(tr, lim, data, as),
         \A k \in DOMAIN tr : data2[Var(tr[k])] = data[Var(tr[k])],
         data2[Var(p)].level > 0 =>
           /\ data2[Var(p)].reason = CRef_Undef <=> \E i \in DOMAIN lim : lim[i] = Len(tr)
           /\ data2[Var(p)].reason = CRef_Undef /\ data2[Var(p)].level <= Len(as) =>
                \E j \in DOMAIN as : as[j] = p
  PROVE  OpenedIn(Append(tr, p), lim, data2, as)
<1> DEFINE tr2 == Append(tr, p)
<1>1. /\ DOMAIN tr2 = 1 .. Len(tr) + 1 /\ DOMAIN tr = 1 .. Len(tr) /\ Len(tr) \in Nat
      /\ \A i \in 1 .. Len(tr) : tr2[i] = tr[i]
      /\ tr2[Len(tr) + 1] = p
  BY Appended
<1> HIDE DEF tr2
<1> SUFFICES ASSUME NEW k \in DOMAIN tr2, data2[Var(tr2[k])].level > 0
             PROVE  /\ data2[Var(tr2[k])].reason = CRef_Undef <=> \E i \in DOMAIN lim : lim[i] = k - 1
                    /\ data2[Var(tr2[k])].reason = CRef_Undef /\ data2[Var(tr2[k])].level <= Len(as) =>
                         \E j \in DOMAIN as : as[j] = tr2[k]
  BY DEF OpenedIn, tr2
<1>2. CASE k = Len(tr) + 1
  <2>1. tr2[k] = p /\ k - 1 = Len(tr)
    BY <1>1, <1>2
  <2> QED
    BY <2>1
<1>3. CASE k # Len(tr) + 1
  <2>1. k \in DOMAIN tr /\ tr2[k] = tr[k] /\ data2[Var(tr[k])] = data[Var(tr[k])]
    BY <1>1, <1>3
  <2> QED
    BY <2>1 DEF OpenedIn
<1> QED
  BY <1>2, <1>3

(* A level that is opened has no literal yet. *)
LEMMA LevelOpened ==
  ASSUME NEW tr \in Seq(Lits), NEW lim \in Seq(Nat), NEW data, NEW as,
         OpenedIn(tr, lim, data, as)
  PROVE  OpenedIn(tr, Append(lim, Len(tr)), data, as)
<1> DEFINE lim2 == Append(lim, Len(tr))
<1>1. /\ DOMAIN lim2 = 1 .. Len(lim) + 1 /\ DOMAIN lim = 1 .. Len(lim)
      /\ \A i \in 1 .. Len(lim) : lim2[i] = lim[i]
      /\ lim2[Len(lim) + 1] = Len(tr)
      /\ Len(tr) \in Nat /\ Len(lim) \in Nat /\ DOMAIN tr = 1 .. Len(tr)
  BY Appended
<1> HIDE DEF lim2
<1>2. ASSUME NEW k \in DOMAIN tr
      PROVE  (\E i \in DOMAIN lim : lim[i] = k - 1) <=> (\E i \in DOMAIN lim2 : lim2[i] = k - 1)
  <2>1. ASSUME NEW i \in DOMAIN lim2, lim2[i] = k - 1
        PROVE  i \in DOMAIN lim
    BY <2>1, <1>1
  <2> QED
    BY <1>1, <2>1
<1> QED
  BY <1>2 DEF OpenedIn, lim2

(* The levels that are kept begin as before. *)
LEMMA CutOpened ==
  ASSUME NEW tr \in Seq(Lits), NEW lim \in Seq(Nat), NEW data, NEW data2, NEW as,
         OrderedIn(tr, lim, data), OpenedIn(tr, lim, data, as),
         NEW lev \in 0 .. Len(lim), NEW n,
         n = IF Len(lim) > lev THEN lim[lev + 1] ELSE Len(tr),
         \A k \in 1 .. n : data2[Var(tr[k])] = data[Var(tr[k])]
  PROVE  OpenedIn(SubSeq(tr, 1, n), SubSeq(lim, 1, lev), data2, as)
<1> DEFINE tr2 == SubSeq(tr, 1, n)
           lim2 == SubSeq(lim, 1, lev)
<1>1. n \in 0 .. Len(tr)
  BY CutOrdered
<1>2. /\ DOMAIN tr2 = 1 .. n /\ \A k \in 1 .. n : tr2[k] = tr[k] /\ k \in DOMAIN tr
  BY <1>1, Shortened
<1>3. /\ DOMAIN lim2 = 1 .. lev /\ \A i \in 1 .. lev : lim2[i] = lim[i] /\ i \in DOMAIN lim
  BY Shortened
<1>4. Len(lim) \in Nat /\ DOMAIN lim = 1 .. Len(lim) /\ \A i \in DOMAIN lim : lim[i] \in Nat
  OBVIOUS
<1> HIDE DEF tr2, lim2
<1>5. ASSUME NEW k \in 1 .. n
      PROVE  (\E i \in DOMAIN lim : lim[i] = k - 1) <=> (\E i \in DOMAIN lim2 : lim2[i] = k - 1)
  <2>1. ASSUME NEW i \in DOMAIN lim, lim[i] = k - 1
        PROVE  i <= lev
    <3>1. SUFFICES ASSUME i > lev PROVE FALSE
      BY <1>4
    <3>2. Len(lim) > lev /\ lev + 1 \in DOMAIN lim /\ lev + 1 <= i
      BY <3>1, <1>4
    <3>3. lim[lev + 1] <= lim[i] /\ n = lim[lev + 1]
      BY <3>2 DEF OrderedIn
    <3> QED
      BY <3>3, <2>1, <1>1
  <2>2. ASSUME NEW i \in DOMAIN lim, lim[i] = k - 1
        PROVE  \E j \in DOMAIN lim2 : lim2[j] = k - 1
    <3>1. i \in DOMAIN lim2
      BY <2>1, <2>2, <1>3, <1>4
    <3> QED
      BY <3>1, <2>2, <1>3
  <2> QED
    BY <2>2, <1>3
<1>6. ASSUME NEW k \in DOMAIN tr2, data2[Var(tr2[k])].level > 0
      PROVE  /\ data2[Var(tr2[k])].reason = CRef_Undef <=> \E i \in DOMAIN lim2 : lim2[i] = k - 1
             /\ data2[Var(tr2[k])].reason = CRef_Undef /\ data2[Var(tr2[k])].level <= Len(as) =>
                  \E j \in DOMAIN as : as[j] = tr2[k]
  <2>1. tr2[k] = tr[k] /\ k \in DOMAIN tr /\ data2[Var(tr[k])] = data[Var(tr[k])] /\ k \in 1 .. n
    BY <1>2
  <2> QED
    BY <2>1, <1>5, <1>6 DEF OpenedIn
<1> QED
  BY <1>6 DEF OpenedIn, tr2, lim2

(* Facts of level 0 may lose their reasons. *)
LEMMA KeptOpened ==
  ASSUME NEW tr \in Seq(Lits), NEW lim, NEW data, NEW data2, NEW as,
         OpenedIn(tr, lim, data, as),
         \A k \in DOMAIN tr : data2[Var(tr[k])].level > 0 => data2[Var(tr[k])] = data[Var(tr[k])]
  PROVE  OpenedIn(tr, lim, data2, as)
BY DEF OpenedIn

-----------------------------------------------------------------------------
(* simplify takes no literal off the trail when none is released, *)
LEMMA PickedNone ==
  ASSUME NEW seq PROVE Picked(seq, {}) = <<>>
<1>1. Cardinality({}) = 0
  BY FS_EmptySet
<1> QED
  BY <1>1 DEF Picked

(* and leaves the trail as it is. *)
LEMMA PickedAll ==
  ASSUME NEW T, NEW seq \in Seq(T) PROVE Picked(seq, DOMAIN seq) = seq
<1> DEFINE n == Len(seq)
           Rank(k) == Cardinality({j \in 1 .. n : j <= k})
<1>1. n \in Nat /\ DOMAIN seq = 1 .. n
  OBVIOUS
<1>2. Cardinality(1 .. n) = n
  BY <1>1, FS_Interval
<1>3. ASSUME NEW k \in 1 .. n PROVE Rank(k) = k
  <2>1. {j \in 1 .. n : j <= k} = 1 .. k
    BY <1>1
  <2>2. Cardinality(1 .. k) = k
    BY FS_Interval
  <2> QED
    BY <2>1, <2>2
<1> HIDE DEF Rank
<1>4. ASSUME NEW i \in 1 .. n
      PROVE  (CHOOSE k \in 1 .. n : Rank(k) = i) = i
  <2>1. \E k \in 1 .. n : Rank(k) = i
    BY <1>3
  <2> DEFINE c == CHOOSE k \in 1 .. n : Rank(k) = i
  <2>2. c \in 1 .. n /\ Rank(c) = i
    BY <2>1
  <2> QED
    BY <2>2, <1>3
<1>5. Picked(seq, DOMAIN seq) = [i \in 1 .. n |-> seq[CHOOSE k \in 1 .. n : Rank(k) = i]]
  BY <1>1, <1>2 DEF Picked, Rank
<1>6. Picked(seq, DOMAIN seq) = [i \in 1 .. n |-> seq[i]]
  BY <1>4, <1>5
<1>7. seq = [i \in 1 .. n |-> seq[i]]
  BY <1>1
<1> QED
  BY <1>6, <1>7

(* ca.alloc gives out a reference that is not in use. *)
LEMMA FreshFacts ==
  ASSUME DatabaseTyped
  PROVE  Fresh \in CRefs /\ Fresh \notin DOMAIN ca
<1> DEFINE n == Cardinality(DOMAIN ca)
           S == {cr \in 1 .. n + 1 : cr \notin DOMAIN ca}
<1>1. n \in Nat
  BY FS_CardinalityType DEF DatabaseTyped
<1>2. S # {}
  <2>1. SUFFICES ASSUME 1 .. n + 1 \subseteq DOMAIN ca PROVE FALSE
    OBVIOUS
  <2>2. Cardinality(1 .. n + 1) <= n
    BY <2>1, FS_Subset DEF DatabaseTyped
  <2>3. Cardinality(1 .. n + 1) = n + 1
    BY <1>1, FS_Interval
  <2> QED
    BY <1>1, <2>2, <2>3
<1>3. PICK c \in S : \A k \in S : c <= k
  BY <1>2, LeastNatural, S \in SUBSET Nat
<1>4. \A s \in 1 .. c - 1 : s \in DOMAIN ca
  BY <1>1, <1>3
<1>5. \E cr \in 1 .. Cardinality(DOMAIN ca) + 1 :
        cr \notin DOMAIN ca /\ \A s \in 1 .. cr - 1 : s \in DOMAIN ca
  BY <1>3, <1>4
<1>6. Fresh \in 1 .. Cardinality(DOMAIN ca) + 1 /\ Fresh \notin DOMAIN ca
  BY <1>5 DEF Fresh
<1> QED
  BY <1>1, <1>6 DEF CRefs, CRef_Undef

(* When no variable was released, the literals that are true are those of
   the trail. *)
LEMMA TrueFacts ==
  ASSUME Unreleased, TrailTyped
  PROVE  /\ TrueLits = {trail[k] : k \in DOMAIN trail}
         /\ Assigned = {Var(trail[k]) : k \in DOMAIN trail}
         /\ TrueLits \subseteq Lits
         /\ Assigned \subseteq Vars
<1>1. TrueLits = {trail[k] : k \in DOMAIN trail}
  BY DEF TrueLits, Unreleased
<1>2. Assigned = {Var(trail[k]) : k \in DOMAIN trail}
  BY <1>1 DEF Assigned
<1>3. \A k \in DOMAIN trail : trail[k] \in Lits /\ Var(trail[k]) \in Vars
  BY LitFacts DEF TrailTyped
<1> QED
  BY <1>1, <1>2, <1>3

(* The same after a step. *)
LEMMA NextTrueFacts ==
  ASSUME Unreleased', trail' \in Seq(Lits)
  PROVE  /\ TrueLits' = {trail'[k] : k \in DOMAIN trail'}
         /\ Assigned' = {Var(trail'[k]) : k \in DOMAIN trail'}
         /\ TrueLits' \subseteq Lits
         /\ Assigned' \subseteq Vars
<1>1. TrueLits' = {trail'[k] : k \in DOMAIN trail'}
  BY DEF TrueLits, Unreleased
<1>2. Assigned' = {Var(trail'[k]) : k \in DOMAIN trail'}
  BY <1>1 DEF Assigned
<1>3. \A k \in DOMAIN trail' : trail'[k] \in Lits /\ Var(trail'[k]) \in Vars
  BY LitFacts
<1> QED
  BY <1>1, <1>2, <1>3

(* Every step that the solver takes, when nothing is released. *)
LEMMA NoRelease ==
  ASSUME Unreleased, TrailTyped, UserTyped
  PROVE  /\ ~releaseVar /\ ~ReuseVar
         /\ Simplified => /\ trail' = trail /\ free_vars' = <<>> /\ released_vars' = {}
                          /\ qhead' = Len(trail)
<1>1. ~releaseVar
  BY DEF releaseVar, Called, Unreleased, UserTyped
<1>2. ~ReuseVar
  BY DEF ReuseVar, Unreleased
<1>3. ASSUME Simplified
      PROVE  /\ trail' = trail /\ free_vars' = <<>> /\ released_vars' = {} /\ qhead' = Len(trail)
  <2>1. Released = {}
    BY DEF Released, Unreleased
  <2>2. Picked(trail, Released) = <<>>
    BY <2>1, PickedNone
  <2>3. Picked(trail, DOMAIN trail \ Released) = trail
    BY <2>1, PickedAll DEF TrailTyped
  <2>4. trail' = Picked(trail, DOMAIN trail \ Released) /\ qhead' = Len(trail')
        /\ free_vars' = free_vars \o Picked(trail, Released) /\ released_vars' = {}
    BY <1>3 DEF Simplified
  <2>5. free_vars' = <<>> \o <<>>
    BY <2>2, <2>4 DEF Unreleased
  <2> QED
    BY <2>3, <2>4, <2>5
<1> QED
  BY <1>1, <1>2, <1>3

-----------------------------------------------------------------------------
(* What a step may do to the clauses and their watchers. *)
Attached(c) ==
  /\ c \in Clause /\ Distinct(c) /\ ~c.mark /\ Known(LitsOf(c))
  /\ Attach(c)
  /\ \/ clauses' = clauses \cup {Fresh} /\ UNCHANGED learnts
     \/ learnts' = learnts \cup {Fresh} /\ UNCHANGED clauses

(* lookup cleans the list of p. *)
LookedUp(p) ==
  /\ watches' = [watches EXCEPT ![p] = Cleaned(p)]
  /\ dirty' = dirty \ {p}
  /\ UNCHANGED <<ca, dbVars>>

(* The watcher w is visited; its clause is in memory and watches false_lit. *)
Visited(w) ==
  /\ todo # {} /\ w \in watches[Propagating] /\ Propagating \in Lits
  /\ w.cref \in Live /\ false_lit \in Watched(w.cref)

(* The watched literals of the clause are exchanged, and its watcher gets a
   new blocker. *)
Rewritten(w) ==
  /\ Visited(w)
  /\ ca' = [ca EXCEPT ![w.cref] = Swapped(ca[w.cref])]
  /\ watches' = [watches EXCEPT ![Propagating] = Replaced(w)]
  /\ UNCHANGED <<dbVars, dirty>>

(* The clause watches q from now on. *)
Moved(w, q) ==
  /\ Visited(w)
  /\ q \in ca[w.cref].rest /\ ~IsFalse(q)
  /\ ca' = [ca EXCEPT ![w.cref] =
              [ca[w.cref] EXCEPT !.w0 = First(ca[w.cref]), !.w1 = q,
                                 !.rest = (@ \ {q}) \cup {false_lit}]]
  /\ watches' = [watches EXCEPT
                   ![Propagating] = @ \ {w},
                   ![Neg(q)] = @ \cup {Watcher(w.cref, First(ca[w.cref]))}]
  /\ UNCHANGED <<dbVars, dirty>>

(* The clauses of gone are removed, and those of short lose literals that
   are false. *)
Removed(gone, short) ==
  /\ gone \subseteq Live /\ short \subseteq Live \ gone
  /\ checkGarbage([cr \in DOMAIN ca |->
                     IF cr \in gone THEN [ca[cr] EXCEPT !.mark = TRUE]
                     ELSE IF cr \in short THEN Trimmed(ca[cr]) ELSE ca[cr]],
                  dirty \cup Smudged(gone))
  /\ clauses' = clauses \ gone /\ learnts' = learnts \ gone
  /\ vardata' = Unlocked(gone)
  /\ UNCHANGED <<trail, trail_lim>>
  /\ short # {} => decisionLevel = 0

(* One of the six. *)
MemoryStep ==
  \/ UNCHANGED <<ca, dbVars, watches, dirty>>
  \/ \E c \in Clause : Attached(c)
  \/ \E p \in Lits : LookedUp(p)
  \/ \E w \in todo : Rewritten(w)
  \/ \E w \in todo : \E q \in Lits : Moved(w, q)
  \/ \E gone, short \in SUBSET Live : Removed(gone, short)

-----------------------------------------------------------------------------
(* The next call of a script, and what is left of the script. *)
LEMMA CallTyped ==
  ASSUME UserTyped, script # <<>>
  PROVE  /\ Head(script) \in Calls
         /\ Tail(script) \in Seq(Calls)
         /\ \A k \in DOMAIN Tail(script) : k + 1 \in DOMAIN script /\ Tail(script)[k] = script[k + 1]
         /\ 1 \in DOMAIN script /\ Head(script) = script[1]
BY DEF UserTyped

(* Its arguments. *)
LEMMA CallFields ==
  ASSUME NEW c \in Calls
  PROVE  /\ c.call = "addClause" => c.lits \in SUBSET Lits
         /\ c.call = "solve" => c.assumps \in Seq(Lits)
<1>1. CASE c \in [call : {"newVar", "simplify"}]
  BY <1>1
<1>2. CASE c \in [call : {"addClause"}, lits : SUBSET Lits]
  BY <1>2
<1>3. CASE c \in [call : {"releaseVar"}, lit : Lits]
  BY <1>3
<1>4. CASE c \in [call : {"solve"}, assumps : Seq(Lits)]
  BY <1>4
<1> QED
  BY <1>1, <1>2, <1>3, <1>4 DEF Calls

(* What is known of a watcher that is visited. *)
VFacts(w) ==
  /\ Visited(w)
  /\ qhead \in DOMAIN trail /\ Propagating = trail[qhead]
  /\ false_lit \in Lits /\ Neg(false_lit) = Propagating /\ IsFalse(false_lit)
  /\ w \in [cref : CRefs, blocker : Lits]
  /\ ca[w.cref] \in Clause /\ w.cref \in DOMAIN ca /\ Distinct(ca[w.cref])
  /\ First(ca[w.cref]) \in Lits
  /\ LitsOf(ca[w.cref]) = {First(ca[w.cref]), false_lit} \cup ca[w.cref].rest
  /\ First(ca[w.cref]) # false_lit
  /\ First(ca[w.cref]) \notin ca[w.cref].rest /\ false_lit \notin ca[w.cref].rest

(* What propagate knows of a watcher it visits: a clause in memory that
   watches the literal that became false. *)
LEMMA VisitFacts ==
  ASSUME IInv, pc = "propagate", NEW w \in todo
  PROVE  VFacts(w)
<1> USE DEF IInv
<1>1. qhead \in DOMAIN trail /\ Propagating = trail[qhead] /\ Propagating \in Lits
  BY DEF Visiting, TrailTyped, Propagating
<1>2. /\ false_lit \in Lits /\ Neg(false_lit) = Propagating /\ IsFalse(false_lit)
  BY <1>1, LitFacts, TrueFacts DEF false_lit, IsFalse
<1>3. w \in watches[Propagating] /\ Propagating \notin dirty
  BY DEF Visiting
<1>4. w \in [cref : CRefs, blocker : Lits]
  BY <1>1, <1>3 DEF DatabaseTyped
<1>5. w.cref \in Live /\ false_lit \in Watched(w.cref)
  BY <1>1, <1>3 DEF Listed, false_lit
<1>6. ca[w.cref] \in Clause /\ w.cref \in DOMAIN ca /\ Distinct(ca[w.cref])
  BY <1>5 DEF Live, DatabaseTyped, Stored
<1>7. ca[w.cref].w0 \in Lits /\ ca[w.cref].w1 \in Lits
  BY <1>6 DEF Clause
<1> QED
  BY <1>1, <1>2, <1>3, <1>4, <1>5, <1>6, <1>7 DEF VFacts, Visited, Watched, First, LitsOf, Distinct

(* What analyze has when one literal of the present level is left: literals
   of earlier levels that are all false. *)
LEMMA LearntFacts ==
  ASSUME IInv, pc = "learn"
  PROVE  /\ index \in DOMAIN trail /\ trail[index] \in Lits /\ decisionLevel > 0
         /\ level(Var(trail[index])) = decisionLevel
         /\ Neg(trail[index]) \in Lits
         /\ \A q \in out_learnt :
              q \in Lits /\ IsFalse(q) /\ Var(q) \in seen /\ level(Var(q)) < decisionLevel
              /\ level(Var(q)) \in Nat /\ level(Var(q)) > 0
         /\ Neg(trail[index]) \notin out_learnt
         /\ decisionLevel \in Nat
<1> USE DEF IInv
<1>1. /\ index \in DOMAIN trail /\ decisionLevel > 0
      /\ level(Var(trail[index])) = decisionLevel
  BY DEF Analysed, Analysing, AtPresent
<1>2. trail[index] \in Lits /\ Neg(trail[index]) \in Lits /\ Var(Neg(trail[index])) = Var(trail[index])
  BY <1>1, LitFacts DEF TrailTyped
<1>3. ASSUME NEW q \in out_learnt
      PROVE  /\ q \in Lits /\ IsFalse(q) /\ Var(q) \in seen /\ level(Var(q)) < decisionLevel
             /\ Var(q) \in Assigned /\ level(Var(q)) > 0
  BY DEF LoopTyped, Analysed, Analysing
<1>4. \A x \in Assigned : level(x) \in Nat
  BY DEF TrailTyped, level
<1>5. decisionLevel \in Nat
  BY DEF decisionLevel, TrailTyped
<1>6. Neg(trail[index]) \notin out_learnt
  BY <1>1, <1>2, <1>3, <1>5
<1> QED
  BY <1>1, <1>2, <1>3, <1>4, <1>5, <1>6

(* addClause_ attaches a clause with two different watched literals. *)
LEMMA AddLongAttaches ==
  ASSUME IInv, AddLong
  PROVE  \E c \in Clause : Attached(c)
<1> USE DEF IInv
<1>1. script # <<>> /\ Head(script).call = "addClause" /\ Input = Head(script).lits
  BY DEF AddLong, AddCall, Called, Input
<1>2. Input \subseteq Lits
  BY <1>1, CallTyped, CallFields
<1>3. \A p \in Input : Var(p) < next_var
  BY DEF AddLong, AddCall, Usable
<1>4. Remaining \subseteq Input
  BY DEF Remaining
<1>5. PICK p \in Remaining, q \in Remaining :
        /\ p < q
        /\ Attach([w0 |-> p, w1 |-> q, rest |-> Remaining \ {p, q},
                   learnt |-> FALSE, mark |-> FALSE])
  BY DEF AddLong
<1> DEFINE c == [w0 |-> p, w1 |-> q, rest |-> Remaining \ {p, q},
                 learnt |-> FALSE, mark |-> FALSE]
<1>6. p \in Lits /\ q \in Lits /\ p # q
  BY <1>2, <1>4, <1>5, LitFacts
<1>7. c \in Clause
  BY <1>2, <1>4, <1>6 DEF Clause
<1>8. Distinct(c) /\ ~c.mark /\ LitsOf(c) \subseteq Input
  BY <1>4, <1>6 DEF Distinct, LitsOf
<1>9. Known(LitsOf(c))
  BY <1>3, <1>8 DEF Known
<1>10. clauses' = clauses \cup {Fresh} /\ UNCHANGED learnts
  BY DEF AddLong
<1> QED
  BY <1>5, <1>7, <1>8, <1>9, <1>10 DEF Attached

(* So does search when it records a learnt clause. *)
LEMMA LearnAttaches ==
  ASSUME IInv, pc = "learn", NEW p, p = Neg(trail[index]),
         NEW kept \in SUBSET out_learnt, NEW q \in kept
  PROVE  LET c == [w0 |-> p, w1 |-> q, rest |-> kept \ {q}, learnt |-> TRUE, mark |-> FALSE]
         IN  c \in Clause /\ Distinct(c) /\ ~c.mark /\ Known(LitsOf(c))
<1> USE DEF IInv
<1> DEFINE c == [w0 |-> p, w1 |-> q, rest |-> kept \ {q}, learnt |-> TRUE, mark |-> FALSE]
<1>1. kept \subseteq Lits /\ p \in Lits /\ p \notin kept
  BY LearntFacts
<1>2. c \in Clause /\ Distinct(c) /\ ~c.mark
  BY <1>1 DEF Clause, Distinct
<1>3. \A x \in Assigned : x < next_var
  BY TrueFacts DEF Created
<1>4. ASSUME NEW r \in LitsOf(c) PROVE Var(r) < next_var
  <2>1. CASE r = p
    <3>1. Var(p) = Var(trail[index]) /\ Var(trail[index]) \in Assigned
      BY LearntFacts, LitFacts, TrueFacts
    <3> QED
      BY <2>1, <3>1, <1>3
  <2>2. CASE r \in kept
    <3>1. r \in Lits /\ Neg(r) \in TrueLits
      BY <2>2, LearntFacts DEF IsFalse
    <3>2. Var(r) = Var(Neg(r)) /\ Var(r) \in Assigned
      BY <3>1, LitFacts DEF Assigned
    <3> QED
      BY <3>2, <1>3
  <2> QED
    BY <2>1, <2>2 DEF LitsOf
<1> QED
  BY <1>2, <1>4 DEF Known

(* removeSatisfied removes clauses and trims others, at level 0. *)
LEMMA SimplifyRemoves ==
  ASSUME IInv, Simplified, decisionLevel = 0
  PROVE  \E gone, short \in SUBSET Live : Removed(gone, short)
<1> USE DEF IInv
<1> DEFINE gone == {cr \in Live : satisfied(ca[cr])}
           short == Live \ gone
<1>1. checkGarbage([cr \in DOMAIN ca |->
                     IF cr \in gone THEN [ca[cr] EXCEPT !.mark = TRUE]
                     ELSE IF cr \in Live THEN Trimmed(ca[cr]) ELSE ca[cr]],
                   dirty \cup Smudged(gone))
      /\ vardata' = Unlocked(gone) /\ clauses' = clauses \ gone /\ learnts' = learnts \ gone
      /\ UNCHANGED trail_lim
  BY DEF Simplified
<1>2. trail' = trail
  BY NoRelease
<1> HIDE DEF gone
<1>3. [cr \in DOMAIN ca |->
         IF cr \in gone THEN [ca[cr] EXCEPT !.mark = TRUE]
         ELSE IF cr \in Live THEN Trimmed(ca[cr]) ELSE ca[cr]]
      = [cr \in DOMAIN ca |->
         IF cr \in gone THEN [ca[cr] EXCEPT !.mark = TRUE]
         ELSE IF cr \in short THEN Trimmed(ca[cr]) ELSE ca[cr]]
  OBVIOUS
<1>4. gone \subseteq Live /\ short \subseteq Live \ gone
  BY DEF gone
<1>5. Removed(gone, short)
  BY <1>1, <1>2, <1>3, <1>4 DEF Removed
<1> QED
  BY <1>4, <1>5

(* reduceDB removes clauses and trims none. *)
LEMMA ReduceRemoves ==
  ASSUME IInv, reduceDB
  PROVE  \E gone, short \in SUBSET Live : Removed(gone, short)
<1> USE DEF IInv
<1>1. PICK gone \in SUBSET Removable :
        /\ checkGarbage([cr \in DOMAIN ca |->
                          IF cr \in gone THEN [ca[cr] EXCEPT !.mark = TRUE] ELSE ca[cr]],
                        dirty \cup Smudged(gone))
        /\ vardata' = Unlocked(gone)
        /\ learnts' = learnts \ gone
  BY DEF reduceDB
<1>2. gone \subseteq Live /\ gone \subseteq learnts
  BY DEF Removable, Live
<1>3. UNCHANGED <<clauses, trail, trail_lim>>
  BY DEF reduceDB
<1>4. clauses \cap gone = {} /\ clauses' = clauses \ gone
  BY <1>2, <1>3 DEF Stored
<1>5. [cr \in DOMAIN ca |-> IF cr \in gone THEN [ca[cr] EXCEPT !.mark = TRUE] ELSE ca[cr]]
      = [cr \in DOMAIN ca |->
           IF cr \in gone THEN [ca[cr] EXCEPT !.mark = TRUE]
           ELSE IF cr \in {} THEN Trimmed(ca[cr]) ELSE ca[cr]]
  OBVIOUS
<1>6. Removed(gone, {})
  BY <1>1, <1>2, <1>3, <1>4, <1>5 DEF Removed
<1> QED
  BY <1>2, <1>6

(* Three iterations of propagate only exchange the two watched literals. *)
LEMMA RewriteSteps ==
  ASSUME IInv, FirstTrue \/ Imply \/ Clash
  PROVE  \E w \in todo : Rewritten(w)
<1>1. CASE FirstTrue
  <2>1. PICK w \in todo : /\ ca' = [ca EXCEPT ![w.cref] = Swapped(@)]
                          /\ watches' = [watches EXCEPT ![Propagating] = Replaced(w)]
                          /\ Visit(w)
    BY <1>1 DEF FirstTrue
  <2>2. Visited(w)
    BY <1>1, VisitFacts DEF VFacts, FirstTrue
  <2> QED
    BY <2>1, <2>2 DEF Rewritten, Visit
<1>2. CASE Imply
  <2>1. PICK w \in todo : /\ ca' = [ca EXCEPT ![w.cref] = Swapped(ca[w.cref])]
                          /\ watches' = [watches EXCEPT ![Propagating] = Replaced(w)]
                          /\ Visit(w)
    BY <1>2 DEF Imply
  <2>2. Visited(w)
    BY <1>2, VisitFacts DEF VFacts, Imply
  <2> QED
    BY <2>1, <2>2 DEF Rewritten, Visit
<1>3. CASE Clash
  <2>1. PICK w \in todo : /\ ca' = [ca EXCEPT ![w.cref] = Swapped(ca[w.cref])]
                          /\ watches' = [watches EXCEPT ![Propagating] = Replaced(w)]
    BY <1>3 DEF Clash
  <2>2. Visited(w)
    BY <1>3, VisitFacts DEF VFacts, Clash
  <2>3. UNCHANGED <<dbVars, dirty>>
    BY <1>3 DEF Clash
  <2> QED
    BY <2>1, <2>2, <2>3 DEF Rewritten
<1> QED
  BY <1>1, <1>2, <1>3

(* One watches another literal that is not false. *)
LEMMA MoveSteps ==
  ASSUME IInv, MoveWatch
  PROVE  \E w \in todo : \E q \in Lits : Moved(w, q)
<1>0. PICK w \in todo : \E q \in NewWatches(ca[w.cref]) :
        /\ ca' = [ca EXCEPT ![w.cref] =
                        [ca[w.cref] EXCEPT !.w0 = First(ca[w.cref]), !.w1 = q,
                                  !.rest = (@ \ {q}) \cup {false_lit}]]
        /\ watches' = [watches EXCEPT
                         ![Propagating] = @ \ {w},
                         ![ListFor(q)] = @ \cup {Watcher(w.cref, First(ca[w.cref]))}]
        /\ Visit(w)
  BY DEF MoveWatch
<1>1. PICK q \in NewWatches(ca[w.cref]) :
        /\ ca' = [ca EXCEPT ![w.cref] =
                        [ca[w.cref] EXCEPT !.w0 = First(ca[w.cref]), !.w1 = q,
                                  !.rest = (@ \ {q}) \cup {false_lit}]]
        /\ watches' = [watches EXCEPT
                         ![Propagating] = @ \ {w},
                         ![ListFor(q)] = @ \cup {Watcher(w.cref, First(ca[w.cref]))}]
        /\ Visit(w)
  BY <1>0
<1>2. Visited(w) /\ ca[w.cref] \in Clause
  BY VisitFacts DEF VFacts, MoveWatch
<1>3. q \in ca[w.cref].rest /\ ~IsFalse(q)
  BY DEF NewWatches
<1>4. q \in Lits
  BY <1>2, <1>3 DEF Clause
<1>5. Moved(w, q)
  BY <1>1, <1>2, <1>3 DEF Moved, Visit, ListFor
<1> QED
  BY <1>4, <1>5

(* Learning attaches one clause, or none when a single literal is learnt. *)
LEMMA LearnSteps ==
  ASSUME IInv, Learn
  PROVE  MemoryStep
<1> DEFINE p == Neg(trail[index])
           kept == {l \in out_learnt : ~Redundant(l)}
<1>1. CASE kept = {}
  BY <1>1 DEF Learn, LearnUnit, MemoryStep, memVars, dbVars
<1>2. CASE kept # {}
  <2>1. LearnClause(p, kept)
    BY <1>2 DEF Learn
  <2>2. PICK q \in SecondWatch(kept) :
          Attach([w0 |-> p, w1 |-> q, rest |-> kept \ {q}, learnt |-> TRUE, mark |-> FALSE])
    BY <2>1 DEF LearnClause
  <2> DEFINE c == [w0 |-> p, w1 |-> q, rest |-> kept \ {q}, learnt |-> TRUE, mark |-> FALSE]
  <2>3. q \in kept
    BY DEF SecondWatch
  <2>4. c \in Clause /\ Distinct(c) /\ ~c.mark /\ Known(LitsOf(c))
    BY <2>3, LearnAttaches DEF Learn
  <2>5. learnts' = learnts \cup {Fresh} /\ UNCHANGED clauses
    BY <2>1 DEF LearnClause, Learn
  <2>6. Attached(c)
    BY <2>2, <2>4, <2>5 DEF Attached
  <2> QED
    BY <2>4, <2>6 DEF MemoryStep
<1> QED
  BY <1>1, <1>2

(* Every step does one of six things to the clauses and the watch lists. *)
LEMMA MemorySteps ==
  ASSUME IInv, Next
  PROVE  MemoryStep
<1> USE DEF MemoryStep
<1>1. CASE \/ newVar \/ AddNothing \/ AddEmpty \/ AddUnit \/ SimplifySkipped \/ Solve
           \/ SolveDead \/ Blocked \/ Propagated
           \/ RootConflict \/ Resolve
           \/ Restart \/ Interrupted \/ NotSimplified \/ NotReduced
           \/ DummyLevel \/ Assume \/ AssumptionFalse \/ FinalStep \/ FinalDone
           \/ Branch \/ ModelFound
  <2>1. UNCHANGED <<ca, dbVars, watches, dirty>>
    BY <1>1 DEF newVar, AddNothing, AddEmpty, AddUnit, AddCall, SimplifySkipped, Solve, SolveDead, Blocked,
         Visit, Propagated, RootConflict, Resolve, Restart, Interrupted, NotSimplified, NotReduced,
         DummyLevel, Assume, AssumptionFalse, FinalStep, FinalDone, Branch, ModelFound, Return,
         dbVars, memVars
  <2> QED
    BY <2>1
<1>2. CASE AddLong
  BY <1>2, AddLongAttaches
<1>3. CASE NextFact
  <2>1. qhead + 1 \in DOMAIN trail /\ trail[qhead + 1] \in Lits
    BY <1>3 DEF NextFact, IInv, TrailTyped
  <2>2. LookedUp(trail[qhead + 1])
    BY <1>3 DEF NextFact, LookedUp
  <2> QED
    BY <2>1, <2>2
<1>4. CASE FirstTrue \/ Imply \/ Clash
  BY <1>4, RewriteSteps
<1>5. CASE MoveWatch
  BY <1>5, MoveSteps
<1>6. CASE Learn
  BY <1>6, LearnSteps
<1>7. CASE simplify
  BY <1>7, SimplifyRemoves DEF simplify
<1>8. CASE SimplifyCall
  <2>1. decisionLevel = 0
    BY <1>8 DEF SimplifyCall, Called, IInv, Control, Idle
  <2> QED
    BY <1>8, <2>1, SimplifyRemoves DEF SimplifyCall
<1>9. CASE reduceDB
  BY <1>9, ReduceRemoves
<1>10. ~releaseVar /\ ~ReuseVar
  BY NoRelease DEF IInv
<1> QED
  BY <1>1, <1>2, <1>3, <1>4, <1>5, <1>6, <1>7, <1>8, <1>9, <1>10
     DEF Next, user, solver, propagate, analyze, search

-----------------------------------------------------------------------------
(* What a step may do to the assignment. *)
Assignable(p) == p \in Lits /\ Var(p) < next_var /\ Unset(p)

(* uncheckedEnqueue(p, from) by itself. *)
Pushed(p, from) ==
  /\ Assignable(p) /\ from \in Nat
  /\ uncheckedEnqueue(p, from)
  /\ UNCHANGED trail_lim

(* A new level with p as its first literal. *)
DecidedOn(p) == Assignable(p) /\ Decide(p)

(* cancelUntil(lev) by itself. *)
CutBack(lev) ==
  /\ lev \in 0 .. decisionLevel
  /\ trail' = SubSeq(trail, 1, Cut(lev))
  /\ trail_lim' = SubSeq(trail_lim, 1, lev)
  /\ vardata' = KeptData(lev)

(* cancelUntil(bt), and then the learnt literal with its clause as the
   reason. *)
Asserted(bt, p, from) ==
  /\ pc = "learn" /\ bt \in 0 .. decisionLevel - 1 /\ p = Neg(trail[index]) /\ from \in Nat
  /\ trail' = Append(SubSeq(trail, 1, Cut(bt)), p)
  /\ trail_lim' = SubSeq(trail_lim, 1, bt)
  /\ vardata' = Extended(Var(p), from, bt, KeptData(bt))

(* One of the seven. *)
TrailStep ==
  \/ UNCHANGED <<trail, trail_lim, vardata>>
  \/ \E p \in Lits, from \in Nat : Pushed(p, from)
  \/ \E p \in Lits : DecidedOn(p)
  \/ newDecisionLevel /\ UNCHANGED <<trail, vardata>>
  \/ CutBack(0)
  \/ \E bt \in Nat, p \in Lits, from \in Nat : Asserted(bt, p, from)
  \/ \E gone, short \in SUBSET Live : Removed(gone, short)

(* After a conflict the trail is cut back and one literal is asserted. *)
LEMMA LearnAsserts ==
  ASSUME IInv, Learn
  PROVE  \E bt \in Nat, p \in Lits, from \in Nat : Asserted(bt, p, from)
<1> DEFINE p == Neg(trail[index])
           kept == {l \in out_learnt : ~Redundant(l)}
<1>1. pc = "learn" /\ p \in Lits /\ decisionLevel \in Nat /\ decisionLevel > 0
  BY LearntFacts DEF Learn
<1>2. CASE kept = {}
  <2>1. AfterConflict(0, p, CRef_Undef)
    BY <1>2 DEF Learn, LearnUnit
  <2>2. Asserted(0, p, CRef_Undef)
    BY <1>1, <2>1 DEF Asserted, AfterConflict, CRef_Undef
  <2> QED
    BY <1>1, <2>2 DEF CRef_Undef
<1>3. CASE kept # {}
  <2>1. LearnClause(p, kept)
    BY <1>3 DEF Learn
  <2>2. PICK q \in SecondWatch(kept) : AfterConflict(level(Var(q)), p, Fresh)
    BY <2>1 DEF LearnClause
  <2>3. q \in out_learnt
    BY DEF SecondWatch
  <2>4. level(Var(q)) \in 0 .. decisionLevel - 1
    BY <1>1, <2>3, LearntFacts
  <2>5. Fresh \in Nat
    BY FreshFacts DEF IInv, CRefs
  <2>6. Asserted(level(Var(q)), p, Fresh)
    BY <1>1, <2>2, <2>4, <2>5 DEF Asserted, AfterConflict
  <2> QED
    BY <1>1, <2>4, <2>5, <2>6
<1> QED
  BY <1>2, <1>3

(* addClause_ pushes the literal that is left of a clause. *)
LEMMA AddUnitPushes ==
  ASSUME IInv, AddUnit
  PROVE  \E p \in Lits, from \in Nat : Pushed(p, from)
<1>1. PICK p \in Lits : Remaining = {p} /\ uncheckedEnqueue(p, CRef_Undef)
  BY DEF AddUnit
<1>2. p \in Input /\ ~IsFalse(p) /\ ~IsTrue(p) /\ Var(p) < next_var
  BY <1>1 DEF Remaining, AddUnit, Storable, AddCall, Usable
<1>3. UNCHANGED trail_lim
  BY DEF AddUnit, AddCall
<1>4. Pushed(p, CRef_Undef)
  BY <1>1, <1>2, <1>3 DEF Pushed, Assignable, Unset, CRef_Undef
<1> QED
  BY <1>4 DEF CRef_Undef

(* propagate pushes the literal that a clause implies. *)
LEMMA ImplyPushes ==
  ASSUME IInv, Imply
  PROVE  \E w \in todo :
           /\ Rewritten(w) /\ NewWatches(ca[w.cref]) = {}
           /\ Pushed(First(ca[w.cref]), w.cref)
           /\ todo' = todo \ {w}
<1>1. PICK w \in todo :
        /\ NewWatches(ca[w.cref]) = {}
        /\ Unset(First(ca[w.cref]))
        /\ ca' = [ca EXCEPT ![w.cref] = Swapped(ca[w.cref])]
        /\ watches' = [watches EXCEPT ![Propagating] = Replaced(w)]
        /\ uncheckedEnqueue(First(ca[w.cref]), w.cref)
        /\ Visit(w)
  BY DEF Imply
<1>2. /\ Visited(w) /\ First(ca[w.cref]) \in Lits /\ w.cref \in CRefs
      /\ First(ca[w.cref]) \in LitsOf(ca[w.cref])
  BY VisitFacts DEF VFacts, Imply
<1>3. Rewritten(w)
  BY <1>1, <1>2 DEF Rewritten, Visit
<1>4. Var(First(ca[w.cref])) < next_var /\ w.cref \in Nat
  BY <1>2 DEF IInv, Created, Known, Visited, CRefs
<1>5. Pushed(First(ca[w.cref]), w.cref)
  BY <1>1, <1>2, <1>4 DEF Pushed, Assignable, Visit
<1> QED
  BY <1>1, <1>3, <1>5 DEF Visit

(* search decides the next assumption. *)
LEMMA AssumeDecides ==
  ASSUME IInv, Assume
  PROVE  /\ DecidedOn(NextAssumption) /\ decisionLevel + 1 \in DOMAIN assumptions
         /\ NextAssumption \in Lits
<1> USE DEF IInv
<1>1. decisionLevel + 1 \in DOMAIN assumptions /\ NextAssumption = assumptions[decisionLevel + 1]
  BY DEF Assume, Pending, NextAssumption, decisionLevel, UserTyped, TrailTyped
<1>2. NextAssumption \in Lits /\ Var(NextAssumption) < next_var
  BY <1>1 DEF UserTyped, Created
<1> QED
  BY <1>1, <1>2 DEF DecidedOn, Assignable, Assume

(* What the heap gives is a variable of the user. *)
LEMMA HeapLits ==
  ASSUME IInv, NEW x \in order_heap, NEW s \in {0, 1}
  PROVE  mkLit(x, s) \in Lits /\ Var(mkLit(x, s)) = x /\ x < next_var
<1>1. x \in 0 .. next_var - 1 /\ next_var \in 0 .. NVars
  BY DEF IInv, TrailTyped, UserTyped
<1> QED
  BY <1>1, NVarsAssumption, SMTT(30) DEF mkLit, Lits, Var

(* Neither literal of an unassigned variable has a value. *)
LEMMA FreeUnset ==
  ASSUME IInv, NEW p \in Lits, Var(p) \notin Assigned
  PROVE  Unset(p)
BY LitFacts DEF Unset, IsTrue, IsFalse, Assigned

(* search decides a variable that is not assigned, which leaves the heap. *)
LEMMA BranchDecides ==
  ASSUME IInv, Branch
  PROVE  \E p \in Lits, x \in Free : x = Var(p) /\ DecidedOn(p) /\ order_heap \subseteq order_heap' \cup {x} \cup Assigned
<1>1. PICK x \in Free, s \in {0, 1}, gone \in SUBSET (order_heap \cap Assigned) :
        /\ Decide(mkLit(x, s))
        /\ order_heap' = order_heap \ (gone \cup {x})
  BY DEF Branch
<1>2. x \in order_heap /\ x \notin Assigned
  BY DEF Free
<1>3. mkLit(x, s) \in Lits /\ Var(mkLit(x, s)) = x /\ x < next_var
  BY <1>2, HeapLits
<1>4. DecidedOn(mkLit(x, s))
  BY <1>1, <1>2, <1>3, FreeUnset DEF DecidedOn, Assignable
<1> QED
  BY <1>1, <1>3, <1>4

(* Every step does one of seven things to the trail. *)
LEMMA TrailSteps ==
  ASSUME IInv, Next
  PROVE  TrailStep
<1> USE DEF TrailStep
<1>1. CASE \/ newVar \/ AddNothing \/ AddEmpty \/ AddLong \/ SimplifySkipped \/ Solve
           \/ NextFact \/ Blocked \/ FirstTrue \/ MoveWatch \/ Clash \/ Propagated
           \/ Resolve \/ NotSimplified \/ NotReduced \/ AssumptionFalse \/ FinalStep
  <2>1. UNCHANGED <<trail, trail_lim, vardata>>
    BY <1>1 DEF newVar, AddNothing, AddEmpty, AddLong, AddCall, SimplifySkipped, Solve, NextFact,
         Blocked, FirstTrue, MoveWatch, Clash, Visit, Propagated, Resolve, NotSimplified, NotReduced,
         AssumptionFalse, FinalStep, trailVars
  <2> QED
    BY <2>1
<1>2. CASE AddUnit
  BY <1>2, AddUnitPushes
<1>3. CASE Imply
  BY <1>3, ImplyPushes, VisitFacts DEF VFacts, Pushed, Assignable
<1>4. CASE Assume
  BY <1>4, AssumeDecides
<1>5. CASE Branch
  BY <1>5, BranchDecides
<1>6. CASE DummyLevel
  BY <1>6 DEF DummyLevel
<1>7. CASE SolveDead \/ RootConflict \/ Restart \/ Interrupted \/ FinalDone \/ ModelFound
  <2>1. \E heap : cancelUntil(0, heap)
    BY <1>7 DEF SolveDead, RootConflict, Restart, Interrupted, FinalDone, ModelFound, Return
  <2>2. 0 \in 0 .. decisionLevel
    BY DEF decisionLevel, IInv, TrailTyped
  <2>3. CutBack(0)
    BY <2>1, <2>2 DEF CutBack, cancelUntil
  <2> QED
    BY <2>3
<1>8. CASE Learn
  BY <1>8, LearnAsserts
<1>9. CASE simplify
  BY <1>9, SimplifyRemoves DEF simplify
<1>10. CASE SimplifyCall
  <2>1. decisionLevel = 0
    BY <1>10 DEF SimplifyCall, Called, IInv, Control, Idle
  <2> QED
    BY <1>10, <2>1, SimplifyRemoves DEF SimplifyCall
<1>11. CASE reduceDB
  BY <1>11, ReduceRemoves
<1>12. ~releaseVar /\ ~ReuseVar
  BY NoRelease DEF IInv
<1> QED
  BY <1>1, <1>2, <1>3, <1>4, <1>5, <1>6, <1>7, <1>8, <1>9, <1>10, <1>11, <1>12
     DEF Next, user, solver, propagate, analyze, search

-----------------------------------------------------------------------------
(* A user who never releases a variable goes on that way. *)
LEMMA UnreleasedStep ==
  ASSUME IInv, Next PROVE Unreleased'
<1> USE DEF IInv
<1>1. UNCHANGED <<free_vars, released_vars>>
  <2>1. CASE simplify \/ SimplifyCall
    BY <2>1, NoRelease, SMTT(30) DEF simplify, SimplifyCall, Unreleased
  <2>2. CASE ~(simplify \/ SimplifyCall)
    BY <2>2, NoRelease, ZenonT(60) DEF Next, user, solver, propagate, analyze, search,
       newVar, AddNothing, AddEmpty, AddUnit, AddLong, AddCall, SimplifySkipped, Solve,
       SolveDead, NextFact, Blocked, FirstTrue, MoveWatch, Imply, Clash, Visit, Propagated,
       RootConflict, Resolve, Learn, Restart, Interrupted, NotSimplified, reduceDB, NotReduced,
       DummyLevel, Assume, AssumptionFalse, FinalStep, FinalDone, Branch, ModelFound, Return, userVars
  <2> QED
    BY <2>1, <2>2
<1>2. script' = script \/ (script # <<>> /\ script' = Tail(script))
  BY NoRelease DEF Next, user, solver, propagate, analyze, search,
       newVar, AddNothing, AddEmpty, AddUnit, AddLong, AddCall, SimplifySkipped, Solve,
       simplify, SimplifyCall, Called,
       SolveDead, NextFact, Blocked, FirstTrue, MoveWatch, Imply, Clash, Visit, Propagated,
       RootConflict, Resolve, Learn, Restart, Interrupted, NotSimplified, reduceDB, NotReduced,
       DummyLevel, Assume, AssumptionFalse, FinalStep, FinalDone, Branch, ModelFound, Return, userVars
<1>3. \A k \in DOMAIN script' : script'[k].call # "releaseVar"
  BY <1>2, CallTyped DEF Unreleased
<1> QED
  BY <1>1, <1>3 DEF Unreleased

(* Types of what the user passes and gets. *)
LEMMA UserTypedStep ==
  ASSUME IInv, Next PROVE UserTyped'
<1> USE DEF IInv
<1>1. CASE newVar
  <2>1. script' \in Seq(Calls)
    BY <1>1, CallTyped DEF newVar, Called
  <2>2. next_var' \in 0 .. NVars
    BY <1>1, NVarsAssumption DEF newVar, UserTyped
  <2> QED
    BY <1>1, <2>1, <2>2 DEF newVar, UserTyped, limitVars, resultVars
<1>2. CASE AddNothing \/ AddEmpty \/ AddUnit \/ AddLong
  <2>1. AddCall
    BY <1>2 DEF AddNothing, AddEmpty, AddUnit, AddLong
  <2>2. script # <<>> /\ Head(script).call = "addClause" /\ script' = Tail(script)
        /\ Input = Head(script).lits
    BY <2>1 DEF AddCall, Called, Input
  <2>3. Input \in SUBSET Lits /\ script' \in Seq(Calls)
    BY <2>2, CallTyped, CallFields
  <2>4. given' \in SUBSET SUBSET Lits
    BY <2>1, <2>3 DEF AddCall, UserTyped
  <2> QED
    BY <2>1, <2>3, <2>4 DEF AddCall, UserTyped, limitVars, resultVars
<1>3. CASE SimplifyCall
  BY <1>3, CallTyped DEF SimplifyCall, Simplified, Called, UserTyped, limitVars, resultVars
<1>4. CASE SimplifySkipped
  BY <1>4, CallTyped DEF SimplifySkipped, Called, UserTyped, limitVars, resultVars
<1>5. CASE Solve
  <2>1. script # <<>> /\ Head(script).call = "solve" /\ script' = Tail(script)
    BY <1>5 DEF Solve, Called
  <2>2. script' \in Seq(Calls) /\ Head(script).assumps \in Seq(Lits)
    BY <2>1, CallTyped, CallFields
  <2>3. Cardinality(clauses) \in Nat
    BY FS_Subset, FS_CardinalityType DEF DatabaseTyped
  <2>4. options.learntsize_factor * Cardinality(clauses) \in Nat
    BY <2>3 DEF UserTyped, Options
  <2>5. /\ UNCHANGED <<given, next_var, options>>
        /\ assumptions' = Head(script).assumps
        /\ model' = {} /\ conflict' = {} /\ answer' = "none"
        /\ max_learnts' = options.learntsize_factor * Cardinality(clauses)
        /\ conflictC' = 0 /\ curr_restarts' = 0
    BY <1>5 DEF Solve
  <2> QED
    BY <2>2, <2>4, <2>5 DEF UserTyped
<1>6. CASE SolveDead \/ RootConflict \/ Interrupted \/ FinalDone \/ ModelFound
  BY <1>6, TrueFacts, SMTT(30) DEF SolveDead, RootConflict, Interrupted, FinalDone, ModelFound, Return,
     UserTyped, userVars, limitVars
<1>7. CASE propagate
  BY <1>7 DEF propagate, NextFact, Blocked, FirstTrue, MoveWatch, Imply, Clash, Visit, Propagated,
     UserTyped, userVars, limitVars, resultVars
<1>8. CASE Resolve \/ Learn
  BY <1>8 DEF Resolve, Learn, UserTyped, userVars, limitVars, resultVars
<1>9. CASE Restart \/ NotSimplified \/ reduceDB \/ NotReduced \/ DummyLevel \/ Assume \/ Branch
  BY <1>9 DEF Restart, NotSimplified, reduceDB, NotReduced, DummyLevel, Assume, Branch,
     UserTyped, userVars, limitVars, resultVars
<1>10. CASE simplify
  BY <1>10 DEF simplify, Simplified, UserTyped, limitVars, resultVars
<1>11. CASE AssumptionFalse
  <2>1. Neg(NextAssumption) \in Lits
    BY <1>11, LitFacts DEF AssumptionFalse, Pending, NextAssumption, decisionLevel, UserTyped, TrailTyped
  <2> QED
    BY <1>11, <2>1 DEF AssumptionFalse, UserTyped, userVars, limitVars
<1>12. CASE FinalStep
  <2>1. PICK k \in ToVisit : conflict' = IF reason(Var(trail[k])) = CRef_Undef THEN conflict \cup {Neg(trail[k])} ELSE conflict
    BY <1>12 DEF FinalStep
  <2>2. trail[k] \in Lits
    <3>1. k \in 1 .. Len(trail)
      <4>1. Decided \in Nat
        BY DEF Decided, decisionLevel, TrailTyped
      <4>2. index <= Len(trail) + 1
        BY <1>12 DEF FinalStep, Finalised
      <4> QED
        BY <4>1, <4>2 DEF ToVisit, LoopTyped, TrailTyped
    <3> QED
      BY <3>1 DEF TrailTyped
  <2> QED
    BY <1>12, <2>1, <2>2, LitFacts DEF FinalStep, UserTyped, userVars, limitVars
<1> QED
  BY <1>1, <1>2, <1>3, <1>4, <1>5, <1>6, <1>7, <1>8, <1>9, <1>10, <1>11, <1>12, NoRelease
     DEF Next, user, solver, analyze, search

-----------------------------------------------------------------------------
(* checkGarbage keeps the clauses that are not marked, and adds nothing to a
   list. *)
LEMMA GarbageTyped ==
  ASSUME DatabaseTyped, NEW mem \in [DOMAIN ca -> Clause], NEW lists \in SUBSET Lits,
         NEW left \in SUBSET DOMAIN ca, \A cr \in left : ~mem[cr].mark,
         checkGarbage(mem, lists)
  PROVE  /\ DOMAIN ca' \subseteq DOMAIN ca /\ left \subseteq DOMAIN ca'
         /\ ca' \in [DOMAIN ca' -> Clause]
         /\ \A cr \in DOMAIN ca' : ca'[cr] = mem[cr]
         /\ watches' \in [Lits -> SUBSET [cref : CRefs, blocker : Lits]]
         /\ \A p \in Lits : watches'[p] \subseteq watches[p]
         /\ dirty' \in SUBSET Lits
<1>1. CASE ca' = mem /\ dirty' = lists /\ UNCHANGED watches
  BY <1>1 DEF DatabaseTyped
<1>2. CASE /\ ca' = Reclaimed(mem) /\ dirty' = {}
           /\ watches' = [p \in Lits |->
                      IF p \in lists THEN {w \in watches[p] : ~mem[w.cref].mark}
                      ELSE watches[p]]
  <2>1. /\ DOMAIN ca' \subseteq DOMAIN ca /\ left \subseteq DOMAIN ca'
        /\ ca' \in [DOMAIN ca' -> Clause]
        /\ \A cr \in DOMAIN ca' : ca'[cr] = mem[cr]
    BY <1>2 DEF Reclaimed
  <2>2. \A p \in Lits : watches[p] \in SUBSET [cref : CRefs, blocker : Lits]
    BY DEF DatabaseTyped
  <2>3. \A p \in Lits : watches'[p] \subseteq watches[p]
    BY <1>2
  <2>4. watches' \in [Lits -> SUBSET [cref : CRefs, blocker : Lits]]
    BY <1>2, <2>2
  <2>5. dirty' \in SUBSET Lits
    BY <1>2
  <2> QED
    BY ONLY <2>1, <2>3, <2>4, <2>5, Zenon
<1> QED
  BY <1>1, <1>2 DEF checkGarbage

(* The clauses after a removal. *)
Shrunk(gone, short) ==
  [cr \in DOMAIN ca |->
     IF cr \in gone THEN [ca[cr] EXCEPT !.mark = TRUE]
     ELSE IF cr \in short THEN Trimmed(ca[cr]) ELSE ca[cr]]

(* Removing marks a clause, trimming takes false literals behind the watched
   ones. *)
LEMMA ShrunkFacts ==
  ASSUME IInv, NEW gone \in SUBSET Live, NEW short \in SUBSET (Live \ gone)
  PROVE  /\ Shrunk(gone, short) \in [DOMAIN ca -> Clause]
         /\ \A cr \in DOMAIN ca :
              /\ Shrunk(gone, short)[cr].w0 = ca[cr].w0 /\ Shrunk(gone, short)[cr].w1 = ca[cr].w1
              /\ Shrunk(gone, short)[cr].learnt = ca[cr].learnt
              /\ Shrunk(gone, short)[cr].rest \subseteq ca[cr].rest
              /\ \A q \in ca[cr].rest : q \notin Shrunk(gone, short)[cr].rest => cr \in short /\ IsFalse(q)
              /\ Shrunk(gone, short)[cr].mark <=> (cr \in gone \/ ca[cr].mark)
<1> USE DEF IInv
<1>1. ASSUME NEW cr \in DOMAIN ca
      PROVE  /\ Shrunk(gone, short)[cr] \in Clause
             /\ Shrunk(gone, short)[cr].w0 = ca[cr].w0 /\ Shrunk(gone, short)[cr].w1 = ca[cr].w1
             /\ Shrunk(gone, short)[cr].learnt = ca[cr].learnt
             /\ Shrunk(gone, short)[cr].rest \subseteq ca[cr].rest
             /\ \A q \in ca[cr].rest : q \notin Shrunk(gone, short)[cr].rest => cr \in short /\ IsFalse(q)
             /\ Shrunk(gone, short)[cr].mark <=> (cr \in gone \/ ca[cr].mark)
  <2>1. ca[cr] \in Clause
    BY DEF DatabaseTyped
  <2>2. CASE cr \in gone
    <3>1. Shrunk(gone, short)[cr] = [ca[cr] EXCEPT !.mark = TRUE]
      BY <2>2 DEF Shrunk
    <3> QED
      BY <2>1, <2>2, <3>1 DEF Clause
  <2>3. CASE cr \in short /\ cr \notin gone
    <3>1. Shrunk(gone, short)[cr] = Trimmed(ca[cr])
      BY <2>3 DEF Shrunk
    <3> QED
      BY <2>1, <2>3, <3>1 DEF Clause, Trimmed
  <2>4. CASE cr \notin gone /\ cr \notin short
    <3>1. Shrunk(gone, short)[cr] = ca[cr]
      BY <2>4 DEF Shrunk
    <3> QED
      BY <2>1, <2>4, <3>1 DEF Clause
  <2> QED
    BY <2>2, <2>3, <2>4
<1> QED
  BY <1>1 DEF Shrunk

(* What a removal leaves. *)
LEMMA RemovedFacts ==
  ASSUME IInv, NEW gone \in SUBSET Live, NEW short \in SUBSET Live, Removed(gone, short)
  PROVE  /\ short \subseteq Live \ gone
         /\ Live' = Live \ gone /\ Live' \subseteq DOMAIN ca' /\ DOMAIN ca' \subseteq DOMAIN ca
         /\ ca' \in [DOMAIN ca' -> Clause]
         /\ \A cr \in DOMAIN ca' :
              /\ ca'[cr].w0 = ca[cr].w0 /\ ca'[cr].w1 = ca[cr].w1
              /\ ca'[cr].rest \subseteq ca[cr].rest
              /\ \A q \in ca[cr].rest : q \notin ca'[cr].rest => cr \in short /\ IsFalse(q)
              /\ ca'[cr].mark <=> (cr \in gone \/ ca[cr].mark)
         /\ watches' \in [Lits -> SUBSET [cref : CRefs, blocker : Lits]]
         /\ \A p \in Lits : watches'[p] \subseteq watches[p]
         /\ dirty' \in SUBSET Lits
<1> USE DEF IInv
<1>1. short \in SUBSET (Live \ gone) /\ clauses' = clauses \ gone /\ learnts' = learnts \ gone
      /\ checkGarbage(Shrunk(gone, short), dirty \cup Smudged(gone))
  BY DEF Removed, Shrunk
<1> DEFINE mem == Shrunk(gone, short)
           left == Live \ gone
<1>2. /\ mem \in [DOMAIN ca -> Clause]
      /\ \A cr \in DOMAIN ca :
              /\ mem[cr].w0 = ca[cr].w0 /\ mem[cr].w1 = ca[cr].w1
              /\ mem[cr].rest \subseteq ca[cr].rest
              /\ \A q \in ca[cr].rest : q \notin mem[cr].rest => cr \in short /\ IsFalse(q)
              /\ mem[cr].mark <=> (cr \in gone \/ ca[cr].mark)
  <2> HIDE DEF IInv
  <2> QED
    BY <1>1, ShrunkFacts
<1>3. Live' = left /\ Live \subseteq DOMAIN ca
  BY <1>1 DEF Live, DatabaseTyped
<1>4. left \in SUBSET DOMAIN ca /\ \A cr \in left : ~mem[cr].mark
  BY <1>2, <1>3 DEF Stored
<1>5. dirty \cup Smudged(gone) \in SUBSET Lits
  <2>1. \A cr \in gone : ca[cr] \in Clause
    BY <1>3 DEF DatabaseTyped
  <2> QED
    BY <2>1, LitFacts DEF Smudged, Clause, DatabaseTyped
<1> HIDE DEF mem, left
<1>6. /\ DOMAIN ca' \subseteq DOMAIN ca /\ left \subseteq DOMAIN ca'
      /\ ca' \in [DOMAIN ca' -> Clause]
      /\ \A cr \in DOMAIN ca' : ca'[cr] = mem[cr]
      /\ watches' \in [Lits -> SUBSET [cref : CRefs, blocker : Lits]]
      /\ \A p \in Lits : watches'[p] \subseteq watches[p]
      /\ dirty' \in SUBSET Lits
  BY <1>1, <1>2, <1>4, <1>5, GarbageTyped DEF mem
<1> QED
  BY <1>1, <1>2, <1>3, <1>6 DEF left

-----------------------------------------------------------------------------
(* attachClause changes the two lists of the literals that are watched. *)
LEMMA AttachedFacts ==
  ASSUME IInv, NEW c \in Clause, Attached(c)
  PROVE  /\ Fresh \in CRefs /\ Fresh \notin DOMAIN ca /\ Fresh \notin Live
         /\ DOMAIN ca' = DOMAIN ca \cup {Fresh}
         /\ ca'[Fresh] = c /\ \A cr \in DOMAIN ca : ca'[cr] = ca[cr]
         /\ Live' = Live \cup {Fresh} /\ Live \subseteq DOMAIN ca
         /\ Neg(c.w0) \in Lits /\ Neg(c.w1) \in Lits /\ Neg(c.w0) # Neg(c.w1)
         /\ c.w0 \in Lits /\ c.w1 \in Lits /\ c.w0 # c.w1
         /\ DOMAIN watches' = Lits
         /\ watches'[Neg(c.w0)] = watches[Neg(c.w0)] \cup {Watcher(Fresh, c.w1)}
         /\ watches'[Neg(c.w1)] = watches[Neg(c.w1)] \cup {Watcher(Fresh, c.w0)}
         /\ \A p \in Lits \ {Neg(c.w0), Neg(c.w1)} : watches'[p] = watches[p]
         /\ UNCHANGED dirty
<1>1. Fresh \in CRefs /\ Fresh \notin DOMAIN ca
  BY FreshFacts DEF IInv
<1>2. Live \subseteq DOMAIN ca /\ DOMAIN watches = Lits
  BY DEF Live, IInv, DatabaseTyped
<1>3. c.w0 \in Lits /\ c.w1 \in Lits /\ c.w0 # c.w1
  BY DEF Attached, Distinct, Clause
<1>4. Neg(c.w0) \in Lits /\ Neg(c.w1) \in Lits /\ Neg(c.w0) # Neg(c.w1)
  BY <1>3, LitFacts
<1>5. /\ ca' = [cr \in DOMAIN ca \cup {Fresh} |-> IF cr = Fresh THEN c ELSE ca[cr]]
      /\ watches' = [watches EXCEPT ![Neg(c.w0)] = @ \cup {Watcher(Fresh, c.w1)},
                                    ![Neg(c.w1)] = @ \cup {Watcher(Fresh, c.w0)}]
      /\ UNCHANGED dirty
  BY DEF Attached, Attach
<1>6. Live' = Live \cup {Fresh}
  BY DEF Attached, Live
<1>7. DOMAIN ca' = DOMAIN ca \cup {Fresh} /\ ca'[Fresh] = c
  BY <1>5
<1>8. \A cr \in DOMAIN ca : ca'[cr] = ca[cr]
  BY <1>1, <1>5
<1>9. /\ DOMAIN watches' = Lits
      /\ watches'[Neg(c.w0)] = watches[Neg(c.w0)] \cup {Watcher(Fresh, c.w1)}
      /\ watches'[Neg(c.w1)] = watches[Neg(c.w1)] \cup {Watcher(Fresh, c.w0)}
      /\ \A p \in Lits \ {Neg(c.w0), Neg(c.w1)} : watches'[p] = watches[p]
  BY <1>2, <1>4, <1>5
<1> QED
  BY <1>1, <1>2, <1>3, <1>4, <1>5, <1>6, <1>7, <1>8, <1>9

(* A visited clause keeps its literals. *)
LEMMA RewrittenFacts ==
  ASSUME IInv, pc = "propagate", NEW w \in todo, Rewritten(w)
  PROVE  /\ DOMAIN ca' = DOMAIN ca /\ \A cr \in DOMAIN ca : cr # w.cref => ca'[cr] = ca[cr]
         /\ ca'[w.cref] \in Clause /\ w.cref \in DOMAIN ca
         /\ ca'[w.cref].w0 = First(ca[w.cref]) /\ ca'[w.cref].w1 = false_lit
         /\ ca'[w.cref].rest = ca[w.cref].rest
         /\ ca'[w.cref].mark = ca[w.cref].mark
         /\ {ca'[w.cref].w0, ca'[w.cref].w1} = Watched(w.cref)
         /\ LitsOf(ca'[w.cref]) = LitsOf(ca[w.cref])
         /\ Distinct(ca'[w.cref])
         /\ Live' = Live
         /\ DOMAIN watches' = Lits
         /\ watches'[Propagating] = Replaced(w)
         /\ \A p \in Lits \ {Propagating} : watches'[p] = watches[p]
<1>1. VFacts(w)
  BY VisitFacts DEF VFacts
<1> DEFINE c == ca[w.cref]
<1>2. c \in Clause /\ w.cref \in DOMAIN ca /\ Distinct(c) /\ First(c) \in Lits /\ false_lit \in Lits
      /\ First(c) # false_lit /\ {First(c), false_lit} = {c.w0, c.w1}
      /\ First(c) \notin c.rest /\ false_lit \notin c.rest
  BY <1>1 DEF VFacts, Watched, First, Visited
<1>3. /\ Swapped(c) \in Clause /\ Swapped(c).w0 = First(c) /\ Swapped(c).w1 = false_lit
      /\ Swapped(c).rest = c.rest /\ Swapped(c).mark = c.mark
  BY <1>2 DEF Swapped, Clause
<1>4. ca' = [ca EXCEPT ![w.cref] = Swapped(c)] /\ UNCHANGED dbVars
      /\ watches' = [watches EXCEPT ![Propagating] = Replaced(w)]
  BY DEF Rewritten
<1>5. DOMAIN ca' = DOMAIN ca /\ ca'[w.cref] = Swapped(c)
      /\ \A cr \in DOMAIN ca : cr # w.cref => ca'[cr] = ca[cr]
  BY <1>2, <1>4
<1>6. Live' = Live
  BY <1>4 DEF Live, dbVars
<1>7. Propagating \in Lits /\ DOMAIN watches = Lits
  BY DEF Rewritten, Visited, IInv, DatabaseTyped
<1>8. DOMAIN watches' = Lits /\ watches'[Propagating] = Replaced(w)
      /\ \A p \in Lits \ {Propagating} : watches'[p] = watches[p]
  BY <1>4, <1>7
<1>9. LitsOf(Swapped(c)) = LitsOf(c) /\ Distinct(Swapped(c))
      /\ {Swapped(c).w0, Swapped(c).w1} = Watched(w.cref)
  BY <1>2, <1>3 DEF LitsOf, Distinct, Watched
<1> QED
  BY <1>2, <1>3, <1>5, <1>6, <1>8, <1>9

(* A clause that is given another watch keeps its literals and changes two
   lists. *)
LEMMA MovedFacts ==
  ASSUME IInv, pc = "propagate", NEW w \in todo, NEW q \in Lits, Moved(w, q)
  PROVE  /\ DOMAIN ca' = DOMAIN ca /\ \A cr \in DOMAIN ca : cr # w.cref => ca'[cr] = ca[cr]
         /\ ca'[w.cref] \in Clause /\ w.cref \in DOMAIN ca
         /\ ca'[w.cref].w0 = First(ca[w.cref]) /\ ca'[w.cref].w1 = q
         /\ q \in ca[w.cref].rest /\ q # false_lit /\ q # First(ca[w.cref])
         /\ ca'[w.cref].mark = ca[w.cref].mark
         /\ LitsOf(ca'[w.cref]) = LitsOf(ca[w.cref])
         /\ Distinct(ca'[w.cref])
         /\ Live' = Live
         /\ DOMAIN watches' = Lits /\ Neg(q) \in Lits /\ Neg(q) # Propagating
         /\ watches'[Propagating] = watches[Propagating] \ {w}
         /\ watches'[Neg(q)] = watches[Neg(q)] \cup {Watcher(w.cref, First(ca[w.cref]))}
         /\ \A p \in Lits \ {Propagating, Neg(q)} : watches'[p] = watches[p]
<1>1. VFacts(w)
  BY VisitFacts DEF VFacts
<1> DEFINE c == ca[w.cref]
           d == [c EXCEPT !.w0 = First(c), !.w1 = q, !.rest = (@ \ {q}) \cup {false_lit}]
<1>2. c \in Clause /\ w.cref \in DOMAIN ca /\ Distinct(c) /\ First(c) \in Lits /\ false_lit \in Lits
      /\ First(c) # false_lit /\ LitsOf(c) = {First(c), false_lit} \cup c.rest
      /\ First(c) \notin c.rest /\ false_lit \notin c.rest
  BY <1>1 DEF VFacts
<1>3. q \in c.rest /\ q # false_lit /\ q # First(c)
  BY <1>2 DEF Moved
<1>4. /\ d \in Clause /\ d.w0 = First(c) /\ d.w1 = q
      /\ d.rest = (c.rest \ {q}) \cup {false_lit} /\ d.mark = c.mark
  BY <1>2, <1>3 DEF Clause
<1>5. LitsOf(d) = LitsOf(c) /\ Distinct(d)
  BY <1>2, <1>3, <1>4 DEF LitsOf, Distinct
<1>6. ca' = [ca EXCEPT ![w.cref] = d] /\ UNCHANGED dbVars
      /\ watches' = [watches EXCEPT
                   ![Propagating] = @ \ {w},
                   ![Neg(q)] = @ \cup {Watcher(w.cref, First(c))}]
  BY DEF Moved
<1>7. DOMAIN ca' = DOMAIN ca /\ ca'[w.cref] = d
      /\ \A cr \in DOMAIN ca : cr # w.cref => ca'[cr] = ca[cr]
  BY <1>2, <1>6
<1>8. Live' = Live
  BY <1>6 DEF Live, dbVars
<1>9. Propagating \in Lits /\ DOMAIN watches = Lits /\ Neg(q) \in Lits /\ Neg(q) # Propagating
  <2>1. Neg(false_lit) = Propagating /\ Propagating \in Lits
    BY <1>1 DEF VFacts, Visited
  <2>2. Neg(Neg(q)) = q /\ Neg(Propagating) = false_lit /\ Neg(q) \in Lits
    BY LitFacts DEF false_lit
  <2> QED
    BY <1>3, <2>1, <2>2 DEF IInv, DatabaseTyped
<1>10. /\ DOMAIN watches' = Lits /\ watches'[Propagating] = watches[Propagating] \ {w}
       /\ watches'[Neg(q)] = watches[Neg(q)] \cup {Watcher(w.cref, First(c))}
       /\ \A p \in Lits \ {Propagating, Neg(q)} : watches'[p] = watches[p]
  BY <1>6, <1>9
<1> QED
  BY <1>2, <1>3, <1>4, <1>5, <1>7, <1>8, <1>9, <1>10

(* lookup cleans one list. *)
LEMMA LookedUpFacts ==
  ASSUME IInv, NEW p \in Lits, LookedUp(p)
  PROVE  /\ Live' = Live /\ ca' = ca
         /\ DOMAIN watches' = Lits
         /\ watches'[p] = Cleaned(p) /\ Cleaned(p) \subseteq watches[p]
         /\ \A q \in Lits \ {p} : watches'[q] = watches[q]
         /\ dirty' = dirty \ {p}
<1>1. watches' = [watches EXCEPT ![p] = Cleaned(p)] /\ dirty' = dirty \ {p} /\ UNCHANGED <<ca, dbVars>>
  BY DEF LookedUp
<1>2. Cleaned(p) \subseteq watches[p]
  BY DEF Cleaned
<1>3. DOMAIN watches = Lits
  BY DEF IInv, DatabaseTyped
<1> QED
  BY <1>1, <1>2, <1>3 DEF Live, dbVars

-----------------------------------------------------------------------------
(* Watchers, and *)
LEMMA WatcherTyped ==
  ASSUME NEW cr \in CRefs, NEW p \in Lits
  PROVE  Watcher(cr, p) \in [cref : CRefs, blocker : Lits]
         /\ Watcher(cr, p).cref = cr /\ Watcher(cr, p).blocker = p
BY DEF Watcher

(* Lists whose elements are watchers. *)
LEMMA ListsTyped ==
  ASSUME NEW ws, ws = [p \in Lits |-> ws[p]],
         \A p \in Lits : ws[p] \subseteq [cref : CRefs, blocker : Lits]
  PROVE  ws \in [Lits -> SUBSET [cref : CRefs, blocker : Lits]]
<1> DEFINE W == [cref : CRefs, blocker : Lits]
<1> HIDE DEF W
<1>1. \A p \in Lits : ws[p] \subseteq W
  BY DEF W
<1>2. ws \in [Lits -> SUBSET W]
  BY <1>1
<1> QED
  BY <1>2 DEF W

(* Types of the clauses, their lists and the marks of the lists. *)
LEMMA DatabaseTypedStep ==
  ASSUME IInv, Next PROVE DatabaseTyped'
<1> DEFINE W == [cref : CRefs, blocker : Lits]
<1>1. /\ DOMAIN ca \subseteq CRefs /\ IsFiniteSet(DOMAIN ca) /\ ca \in [DOMAIN ca -> Clause]
      /\ clauses \subseteq DOMAIN ca /\ learnts \subseteq DOMAIN ca
      /\ watches \in [Lits -> SUBSET W]
      /\ dirty \in SUBSET Lits
  BY DEF IInv, DatabaseTyped
<1>0. DOMAIN watches = Lits /\ \A p \in Lits : watches[p] \subseteq W
  BY <1>1
<1> HIDE DEF W
<1>2. CASE UNCHANGED <<ca, dbVars, watches, dirty>>
  BY <1>1, <1>2 DEF DatabaseTyped, dbVars, W
<1>3. ASSUME NEW c \in Clause, Attached(c) PROVE DatabaseTyped'
  <2>1. /\ Fresh \in CRefs /\ Fresh \notin DOMAIN ca
        /\ DOMAIN ca' = DOMAIN ca \cup {Fresh}
        /\ ca'[Fresh] = c /\ \A cr \in DOMAIN ca : ca'[cr] = ca[cr]
        /\ c.w0 \in Lits /\ c.w1 \in Lits
        /\ DOMAIN watches' = Lits
        /\ watches'[Neg(c.w0)] = watches[Neg(c.w0)] \cup {Watcher(Fresh, c.w1)}
        /\ watches'[Neg(c.w1)] = watches[Neg(c.w1)] \cup {Watcher(Fresh, c.w0)}
        /\ \A p \in Lits \ {Neg(c.w0), Neg(c.w1)} : watches'[p] = watches[p]
        /\ UNCHANGED dirty
    BY <1>3, AttachedFacts
  <2>2. DOMAIN ca' \subseteq CRefs /\ IsFiniteSet(DOMAIN ca')
    BY <1>1, <2>1, FS_AddElement
  <2>3. ca' = [cr \in DOMAIN ca' |-> ca'[cr]]
    BY <1>3 DEF Attached, Attach
  <2>4. ca' \in [DOMAIN ca' -> Clause]
    BY <1>1, <2>1, <2>3
  <2>5. clauses' \subseteq DOMAIN ca' /\ learnts' \subseteq DOMAIN ca'
    BY <1>1, <1>3, <2>1 DEF Attached
  <2>6. Watcher(Fresh, c.w1) \in W /\ Watcher(Fresh, c.w0) \in W
    BY <2>1, WatcherTyped DEF W
  <2>7. \A p \in Lits : watches'[p] \subseteq W
    BY <1>0, <2>1, <2>6
  <2>8. watches' = [p \in Lits |-> watches'[p]]
    BY <1>1, <1>3 DEF Attached, Attach
  <2>9. watches' \in [Lits -> SUBSET [cref : CRefs, blocker : Lits]]
    BY <2>7, <2>8, ListsTyped DEF W
  <2> QED
    BY <1>1, <2>1, <2>2, <2>4, <2>5, <2>9 DEF DatabaseTyped
<1>4. ASSUME NEW p \in Lits, LookedUp(p) PROVE DatabaseTyped'
  <2>1. /\ ca' = ca /\ UNCHANGED dbVars
        /\ DOMAIN watches' = Lits
        /\ watches'[p] = Cleaned(p) /\ Cleaned(p) \subseteq watches[p]
        /\ \A q \in Lits \ {p} : watches'[q] = watches[q]
        /\ dirty' = dirty \ {p}
    BY <1>4, LookedUpFacts DEF LookedUp
  <2>2. \A q \in Lits : watches'[q] \subseteq W
    BY <1>0, <2>1
  <2>3. watches' = [q \in Lits |-> watches'[q]]
    BY <1>1, <1>4 DEF LookedUp
  <2>4. watches' \in [Lits -> SUBSET [cref : CRefs, blocker : Lits]]
    BY <2>2, <2>3, ListsTyped DEF W
  <2> QED
    BY <1>1, <2>1, <2>4 DEF DatabaseTyped, dbVars
<1>5. ASSUME NEW w \in todo, Rewritten(w), pc = "propagate" PROVE DatabaseTyped'
  <2>1. /\ DOMAIN ca' = DOMAIN ca /\ \A cr \in DOMAIN ca : cr # w.cref => ca'[cr] = ca[cr]
        /\ ca'[w.cref] \in Clause
        /\ DOMAIN watches' = Lits
        /\ watches'[Propagating] = Replaced(w)
        /\ \A p \in Lits \ {Propagating} : watches'[p] = watches[p]
    BY <1>5, RewrittenFacts
  <2>2. VFacts(w)
    BY <1>5, VisitFacts
  <2>3. Watcher(w.cref, First(ca[w.cref])) \in W
    BY <1>1, <2>2, WatcherTyped DEF W, VFacts
  <2>4. \A p \in Lits : watches'[p] \subseteq W
    BY <1>0, <2>1, <2>2, <2>3 DEF Replaced, VFacts, Visited
  <2>5. watches' = [p \in Lits |-> watches'[p]] /\ ca' = [cr \in DOMAIN ca |-> ca'[cr]]
        /\ UNCHANGED <<dbVars, dirty>>
    BY <1>1, <1>5 DEF Rewritten
  <2>6. watches' \in [Lits -> SUBSET [cref : CRefs, blocker : Lits]]
    BY <2>4, <2>5, ListsTyped DEF W
  <2>7. ca' \in [DOMAIN ca' -> Clause]
    BY <1>1, <2>1, <2>5
  <2> QED
    BY <1>1, <2>1, <2>5, <2>6, <2>7 DEF DatabaseTyped, dbVars
<1>6. ASSUME NEW w \in todo, NEW q \in Lits, Moved(w, q), pc = "propagate" PROVE DatabaseTyped'
  <2>1. /\ DOMAIN ca' = DOMAIN ca /\ \A cr \in DOMAIN ca : cr # w.cref => ca'[cr] = ca[cr]
        /\ ca'[w.cref] \in Clause
        /\ DOMAIN watches' = Lits /\ Neg(q) \in Lits
        /\ watches'[Propagating] = watches[Propagating] \ {w}
        /\ watches'[Neg(q)] = watches[Neg(q)] \cup {Watcher(w.cref, First(ca[w.cref]))}
        /\ \A p \in Lits \ {Propagating, Neg(q)} : watches'[p] = watches[p]
    BY <1>6, MovedFacts
  <2>2. VFacts(w)
    BY <1>6, VisitFacts
  <2>3. Watcher(w.cref, First(ca[w.cref])) \in W
    BY <1>1, <2>2, WatcherTyped DEF W, VFacts
  <2>4. \A p \in Lits : watches'[p] \subseteq W
    BY <1>0, <2>1, <2>2, <2>3 DEF VFacts, Visited
  <2>5. watches' = [p \in Lits |-> watches'[p]] /\ ca' = [cr \in DOMAIN ca |-> ca'[cr]]
        /\ UNCHANGED <<dbVars, dirty>>
    BY <1>1, <1>6 DEF Moved
  <2>6. watches' \in [Lits -> SUBSET [cref : CRefs, blocker : Lits]]
    BY <2>4, <2>5, ListsTyped DEF W
  <2>7. ca' \in [DOMAIN ca' -> Clause]
    BY <1>1, <2>1, <2>5
  <2> QED
    BY <1>1, <2>1, <2>5, <2>6, <2>7 DEF DatabaseTyped, dbVars
<1>7. ASSUME NEW gone \in SUBSET Live, NEW short \in SUBSET Live, Removed(gone, short)
      PROVE  DatabaseTyped'
  <2>1. /\ Live' \subseteq DOMAIN ca' /\ DOMAIN ca' \subseteq DOMAIN ca
        /\ ca' \in [DOMAIN ca' -> Clause]
        /\ watches' \in [Lits -> SUBSET [cref : CRefs, blocker : Lits]]
        /\ dirty' \in SUBSET Lits
    BY <1>7, RemovedFacts
  <2>2. IsFiniteSet(DOMAIN ca') /\ DOMAIN ca' \subseteq CRefs
    BY <1>1, <2>1, FS_Subset
  <2>3. clauses' \subseteq DOMAIN ca' /\ learnts' \subseteq DOMAIN ca'
    BY <2>1 DEF Live
  <2> QED
    BY <2>1, <2>2, <2>3 DEF DatabaseTyped
<1>8. todo # {} => pc = "propagate"
  BY DEF IInv, Visiting
<1> QED
  BY <1>2, <1>3, <1>4, <1>5, <1>6, <1>7, <1>8, MemorySteps DEF MemoryStep

-----------------------------------------------------------------------------
(* A clause never holds a literal twice, is not marked while it is in use,
   and is not both given and learnt. *)
LEMMA StoredStep ==
  ASSUME IInv, Next PROVE Stored'
<1> USE DEF Stored
<1>0. (\A cr \in DOMAIN ca : Distinct(ca[cr])) /\ (\A cr \in Live : ~ca[cr].mark)
      /\ clauses \cap learnts = {} /\ Live \subseteq DOMAIN ca
      /\ clauses \subseteq DOMAIN ca /\ learnts \subseteq DOMAIN ca
  BY DEF IInv, Live, DatabaseTyped
<1>2. CASE UNCHANGED <<ca, dbVars, watches, dirty>>
  BY <1>0, <1>2 DEF dbVars, Live
<1>3. ASSUME NEW c \in Clause, Attached(c) PROVE Stored'
  <2>1. /\ Fresh \notin DOMAIN ca
        /\ DOMAIN ca' = DOMAIN ca \cup {Fresh}
        /\ ca'[Fresh] = c /\ \A cr \in DOMAIN ca : ca'[cr] = ca[cr]
        /\ Live' = Live \cup {Fresh}
    BY <1>3, AttachedFacts
  <2>2. Distinct(c) /\ ~c.mark
    BY <1>3 DEF Attached
  <2>3. clauses' \cap learnts' = {}
    BY <1>0, <1>3, <2>1 DEF Attached
  <2> QED
    BY <1>0, <2>1, <2>2, <2>3
<1>4. ASSUME NEW p \in Lits, LookedUp(p) PROVE Stored'
  BY <1>0, <1>4 DEF LookedUp, dbVars, Live
<1>5. ASSUME NEW w \in todo, Rewritten(w), pc = "propagate" PROVE Stored'
  <2>1. /\ DOMAIN ca' = DOMAIN ca /\ \A cr \in DOMAIN ca : cr # w.cref => ca'[cr] = ca[cr]
        /\ ca'[w.cref].mark = ca[w.cref].mark /\ w.cref \in DOMAIN ca
        /\ Distinct(ca'[w.cref])
        /\ Live' = Live
    BY <1>5, RewrittenFacts
  <2>2. UNCHANGED dbVars
    BY <1>5 DEF Rewritten
  <2> QED
    BY <1>0, <2>1, <2>2 DEF dbVars
<1>6. ASSUME NEW w \in todo, NEW q \in Lits, Moved(w, q), pc = "propagate" PROVE Stored'
  <2>1. /\ DOMAIN ca' = DOMAIN ca /\ \A cr \in DOMAIN ca : cr # w.cref => ca'[cr] = ca[cr]
        /\ ca'[w.cref].mark = ca[w.cref].mark /\ w.cref \in DOMAIN ca
        /\ Distinct(ca'[w.cref])
        /\ Live' = Live
    BY <1>6, MovedFacts
  <2>2. UNCHANGED dbVars
    BY <1>6 DEF Moved
  <2> QED
    BY <1>0, <2>1, <2>2 DEF dbVars
<1>7. ASSUME NEW gone \in SUBSET Live, NEW short \in SUBSET Live, Removed(gone, short)
      PROVE  Stored'
  <2>1. /\ Live' = Live \ gone /\ Live' \subseteq DOMAIN ca' /\ DOMAIN ca' \subseteq DOMAIN ca
        /\ \A cr \in DOMAIN ca' :
             /\ ca'[cr].w0 = ca[cr].w0 /\ ca'[cr].w1 = ca[cr].w1
             /\ ca'[cr].rest \subseteq ca[cr].rest
             /\ ca'[cr].mark <=> (cr \in gone \/ ca[cr].mark)
    BY <1>7, RemovedFacts
  <2>2. \A cr \in DOMAIN ca' : Distinct(ca'[cr])
    BY <1>0, <2>1 DEF Distinct
  <2>3. \A cr \in Live' : ~ca'[cr].mark
    BY <1>0, <2>1
  <2>4. clauses' \cap learnts' = {}
    BY <1>0, <1>7 DEF Removed
  <2> QED
    BY <2>2, <2>3, <2>4
<1>8. todo # {} => pc = "propagate"
  BY DEF IInv, Visiting
<1> QED
  BY <1>2, <1>3, <1>4, <1>5, <1>6, <1>7, <1>8, MemorySteps DEF MemoryStep

-----------------------------------------------------------------------------
(* Watch lists, clause by clause. *)
Justified(p, w, mem, live, lists) ==
  \/ w.cref \in live /\ Neg(p) \in {mem[w.cref].w0, mem[w.cref].w1}
  \/ p \in lists /\ w.cref \in DOMAIN mem /\ mem[w.cref].mark

(* Listed, of a memory mem with clauses live in use and of lists ws. *)
ListedIn(mem, live, ws, lists) ==
  /\ \A p \in Lits : \A w \in ws[p] : Justified(p, w, mem, live, lists)
  /\ \A p \in Lits : \A w, v \in ws[p] : w.cref = v.cref => w = v
  /\ \A cr \in live : \A q \in {mem[cr].w0, mem[cr].w1} : \E w \in ws[Neg(q)] : w.cref = cr

(* The part of the invariant about watch lists, in terms of the memory, *)
LEMMA ListedNow == IInv => ListedIn(ca, Live, watches, dirty)
BY DEF IInv, Listed, ListedIn, Justified, Watched

(* and after a step. *)
LEMMA ListedNext == ListedIn(ca', Live', watches', dirty') => Listed'
BY DEF Listed, ListedIn, Justified, Watched

(* A new clause is found from both literals it watches. *)
LEMMA AttachListed ==
  ASSUME IInv, NEW c \in Clause, Attached(c)
  PROVE  ListedIn(ca', Live', watches', dirty')
<1>1. /\ Fresh \in CRefs /\ Fresh \notin DOMAIN ca /\ Fresh \notin Live
      /\ DOMAIN ca' = DOMAIN ca \cup {Fresh}
      /\ ca'[Fresh] = c /\ \A cr \in DOMAIN ca : ca'[cr] = ca[cr]
      /\ Live' = Live \cup {Fresh} /\ Live \subseteq DOMAIN ca
      /\ Neg(c.w0) \in Lits /\ Neg(c.w1) \in Lits /\ Neg(c.w0) # Neg(c.w1)
      /\ c.w0 \in Lits /\ c.w1 \in Lits /\ c.w0 # c.w1
      /\ watches'[Neg(c.w0)] = watches[Neg(c.w0)] \cup {Watcher(Fresh, c.w1)}
      /\ watches'[Neg(c.w1)] = watches[Neg(c.w1)] \cup {Watcher(Fresh, c.w0)}
      /\ \A p \in Lits \ {Neg(c.w0), Neg(c.w1)} : watches'[p] = watches[p]
      /\ dirty' = dirty
  BY AttachedFacts
<1>2. ListedIn(ca, Live, watches, dirty)
  BY ListedNow
<1>3. \A p \in Lits : \A w \in watches[p] : w.cref \in DOMAIN ca
  BY <1>1, <1>2 DEF ListedIn, Justified
<1>4. Watcher(Fresh, c.w1).cref = Fresh /\ Watcher(Fresh, c.w0).cref = Fresh
  BY DEF Watcher
<1>5. Neg(Neg(c.w0)) = c.w0 /\ Neg(Neg(c.w1)) = c.w1
  BY <1>1, LitFacts
<1>6. ASSUME NEW p \in Lits, NEW w \in watches'[p]
      PROVE  Justified(p, w, ca', Live', dirty')
  <2>1. CASE w \in watches[p]
    <3>1. Justified(p, w, ca, Live, dirty)
      BY <1>2, <2>1 DEF ListedIn
    <3>2. ca'[w.cref] = ca[w.cref] /\ w.cref \in DOMAIN ca'
      BY <1>1, <1>3, <2>1
    <3> QED
      BY <1>1, <3>1, <3>2 DEF Justified
  <2>2. CASE w \notin watches[p]
    <3>1. w.cref = Fresh /\ p \in {Neg(c.w0), Neg(c.w1)}
      BY <1>1, <1>4, <2>2
    <3> QED
      BY <1>1, <1>5, <3>1 DEF Justified
  <2> QED
    BY <2>1, <2>2
<1>7. ASSUME NEW p \in Lits, NEW w \in watches'[p], NEW v \in watches'[p], w.cref = v.cref
      PROVE  w = v
  <2>1. CASE p \notin {Neg(c.w0), Neg(c.w1)}
    BY <1>1, <1>2, <1>7, <2>1 DEF ListedIn
  <2>2. CASE p \in {Neg(c.w0), Neg(c.w1)}
    <3>1. PICK x : watches'[p] = watches[p] \cup {x} /\ x.cref = Fresh
      BY <1>1, <1>4, <2>2
    <3> QED
      BY <1>1, <1>2, <1>3, <1>7, <3>1 DEF ListedIn
  <2> QED
    BY <2>1, <2>2
<1>8. ASSUME NEW cr \in Live', NEW q \in {ca'[cr].w0, ca'[cr].w1}
      PROVE  \E w \in watches'[Neg(q)] : w.cref = cr
  <2>1. CASE cr = Fresh
    BY <1>1, <1>4, <2>1
  <2>2. CASE cr # Fresh
    <3>1. cr \in Live /\ ca'[cr] = ca[cr]
      BY <1>1, <2>2
    <3>2. \E w \in watches[Neg(q)] : w.cref = cr
      BY <1>2, <3>1 DEF ListedIn
    <3>3. Neg(q) \in Lits
      <4>1. ca[cr] \in Clause
        BY <1>1, <3>1 DEF IInv, DatabaseTyped
      <4>2. q \in Lits
        BY <3>1, <4>1 DEF Clause
      <4> QED
        BY <4>2, LitFacts
    <3>4. watches[Neg(q)] \subseteq watches'[Neg(q)]
      BY <1>1, <3>3
    <3> QED
      BY <3>2, <3>4
  <2> QED
    BY <2>1, <2>2
<1> QED
  BY <1>6, <1>7, <1>8 DEF ListedIn

(* Cleaning a list drops removed clauses only. *)
LEMMA LookupListed ==
  ASSUME IInv, NEW p \in Lits, LookedUp(p)
  PROVE  ListedIn(ca', Live', watches', dirty')
<1>1. /\ Live' = Live /\ ca' = ca
      /\ watches'[p] = Cleaned(p) /\ Cleaned(p) \subseteq watches[p]
      /\ \A q \in Lits \ {p} : watches'[q] = watches[q]
      /\ dirty' = dirty \ {p}
  BY LookedUpFacts
<1>2. ListedIn(ca, Live, watches, dirty)
  BY ListedNow
<1>3. \A cr \in Live : ~ca[cr].mark
  BY DEF IInv, Stored
<1>4. ASSUME NEW q \in Lits, NEW w \in watches'[q]
      PROVE  Justified(q, w, ca', Live', dirty')
  <2>1. Justified(q, w, ca, Live, dirty)
    BY <1>1, <1>2 DEF ListedIn
  <2>2. CASE q # p
    BY <1>1, <2>1, <2>2 DEF Justified
  <2>3. CASE q = p
    <3>1. ~(p \in dirty /\ ca[w.cref].mark)
      BY <1>1, <2>3 DEF Cleaned
    <3> QED
      BY <1>1, <2>1, <2>3, <3>1 DEF Justified
  <2> QED
    BY <2>2, <2>3
<1>5. \A q \in Lits : \A w, v \in watches'[q] : w.cref = v.cref => w = v
  BY <1>1, <1>2 DEF ListedIn
<1>6. ASSUME NEW cr \in Live', NEW q \in {ca'[cr].w0, ca'[cr].w1}
      PROVE  \E w \in watches'[Neg(q)] : w.cref = cr
  <2>1. PICK w \in watches[Neg(q)] : w.cref = cr
    BY <1>1, <1>2 DEF ListedIn
  <2>2. Neg(q) \in Lits
    <3>1. ca[cr] \in Clause
      BY <1>1 DEF IInv, DatabaseTyped, Live
    <3>2. q \in Lits
      BY <1>1, <3>1 DEF Clause
    <3> QED
      BY <3>2, LitFacts
  <2>3. w \in watches'[Neg(q)]
    BY <1>1, <1>3, <2>1, <2>2 DEF Cleaned
  <2> QED
    BY <2>1, <2>3
<1> QED
  BY <1>4, <1>5, <1>6 DEF ListedIn

(* Literals of a clause in memory. *)
LEMMA ClauseLits ==
  ASSUME IInv, NEW cr \in DOMAIN ca
  PROVE  /\ ca[cr] \in Clause /\ ca[cr].w0 \in Lits /\ ca[cr].w1 \in Lits
         /\ Neg(ca[cr].w0) \in Lits /\ Neg(ca[cr].w1) \in Lits
         /\ LitsOf(ca[cr]) \subseteq Lits
         /\ cr \in CRefs
<1>1. ca[cr] \in Clause /\ cr \in CRefs
  BY DEF IInv, DatabaseTyped
<1>2. ca[cr].w0 \in Lits /\ ca[cr].w1 \in Lits /\ ca[cr].rest \subseteq Lits
  BY <1>1 DEF Clause
<1> QED
  BY <1>1, <1>2, LitFacts DEF LitsOf

(* Exchanging the watched literals of a clause keeps it in both lists, with
   a new blocker in one of them. *)
LEMMA RewriteListed ==
  ASSUME IInv, pc = "propagate", NEW w \in todo, Rewritten(w)
  PROVE  ListedIn(ca', Live', watches', dirty')
<1>1. /\ DOMAIN ca' = DOMAIN ca /\ \A cr \in DOMAIN ca : cr # w.cref => ca'[cr] = ca[cr]
      /\ {ca'[w.cref].w0, ca'[w.cref].w1} = {ca[w.cref].w0, ca[w.cref].w1}
      /\ ca'[w.cref].mark = ca[w.cref].mark
      /\ Live' = Live
      /\ watches'[Propagating] = Replaced(w)
      /\ \A p \in Lits \ {Propagating} : watches'[p] = watches[p]
  BY RewrittenFacts DEF Watched
<1>2. ListedIn(ca, Live, watches, dirty)
  BY ListedNow
<1>3. w \in watches[Propagating] /\ Propagating \in Lits /\ w.cref \in Live /\ w.cref \in DOMAIN ca
      /\ Neg(Propagating) \in {ca[w.cref].w0, ca[w.cref].w1}
  BY VisitFacts DEF VFacts, Visited, Watched, false_lit
<1>4. dirty' = dirty
  BY DEF Rewritten
<1> DEFINE v0 == Watcher(w.cref, First(ca[w.cref]))
<1>5. v0.cref = w.cref /\ watches'[Propagating] = (watches[Propagating] \ {w}) \cup {v0}
  BY <1>1 DEF Replaced, Watcher
<1> HIDE DEF v0
<1>6. \A cr \in DOMAIN ca : {ca'[cr].w0, ca'[cr].w1} = {ca[cr].w0, ca[cr].w1}
                            /\ ca'[cr].mark = ca[cr].mark
  BY <1>1
<1>7. Live \subseteq DOMAIN ca
  BY DEF IInv, Live, DatabaseTyped
<1>8. ASSUME NEW q \in Lits, NEW v \in watches'[q]
      PROVE  Justified(q, v, ca', Live', dirty')
  <2>1. CASE v \in watches[q]
    <3>1. Justified(q, v, ca, Live, dirty)
      BY <1>2, <2>1 DEF ListedIn
    <3> QED
      BY <1>1, <1>4, <1>6, <1>7, <3>1 DEF Justified
  <2>2. CASE v \notin watches[q]
    <3>1. q = Propagating /\ v.cref = w.cref
      BY <1>1, <1>5, <2>2
    <3> QED
      BY <1>1, <1>3, <3>1 DEF Justified
  <2> QED
    BY <2>1, <2>2
<1>9. ASSUME NEW q \in Lits, NEW v \in watches'[q], NEW u \in watches'[q], v.cref = u.cref
      PROVE  v = u
  <2>1. CASE q # Propagating
    BY <1>1, <1>2, <1>9, <2>1 DEF ListedIn
  <2>2. CASE q = Propagating
    <3>1. \A x \in watches[Propagating] \ {w} : x.cref # v0.cref
      BY <1>2, <1>3, <1>5 DEF ListedIn
    <3>2. \A x, y \in watches[Propagating] : x.cref = y.cref => x = y
      BY <1>2, <1>3 DEF ListedIn
    <3> QED
      BY <1>5, <1>9, <2>2, <3>1, <3>2
  <2> QED
    BY <2>1, <2>2
<1>10. ASSUME NEW cr \in Live', NEW q \in {ca'[cr].w0, ca'[cr].w1}
       PROVE  \E v \in watches'[Neg(q)] : v.cref = cr
  <2>1. q \in {ca[cr].w0, ca[cr].w1} /\ cr \in Live
    BY <1>1, <1>6, <1>7
  <2>2. PICK v \in watches[Neg(q)] : v.cref = cr
    BY <1>2, <2>1 DEF ListedIn
  <2>3. Neg(q) \in Lits
    BY <1>7, <2>1, ClauseLits
  <2>4. CASE v = w /\ Neg(q) = Propagating
    BY <1>5, <2>2, <2>4
  <2>5. CASE ~(v = w /\ Neg(q) = Propagating)
    BY <1>1, <1>5, <2>2, <2>3, <2>5
  <2> QED
    BY <2>4, <2>5
<1> QED
  BY <1>8, <1>9, <1>10 DEF ListedIn

(* A clause that is given another watch moves from one list to another. *)
LEMMA MoveListed ==
  ASSUME IInv, pc = "propagate", NEW w \in todo, NEW q \in Lits, Moved(w, q)
  PROVE  ListedIn(ca', Live', watches', dirty')
<1> DEFINE f == First(ca[w.cref])
           v0 == Watcher(w.cref, f)
<1>1. /\ DOMAIN ca' = DOMAIN ca /\ \A cr \in DOMAIN ca : cr # w.cref => ca'[cr] = ca[cr]
      /\ w.cref \in DOMAIN ca
      /\ ca'[w.cref].w0 = f /\ ca'[w.cref].w1 = q
      /\ q \in ca[w.cref].rest /\ q # false_lit /\ q # f
      /\ ca'[w.cref].mark = ca[w.cref].mark
      /\ Live' = Live
      /\ Neg(q) \in Lits /\ Neg(q) # Propagating
      /\ watches'[Propagating] = watches[Propagating] \ {w}
      /\ watches'[Neg(q)] = watches[Neg(q)] \cup {v0}
      /\ \A p \in Lits \ {Propagating, Neg(q)} : watches'[p] = watches[p]
  BY MovedFacts
<1>2. ListedIn(ca, Live, watches, dirty)
  BY ListedNow
<1>3. /\ w \in watches[Propagating] /\ Propagating \in Lits /\ w.cref \in Live
      /\ f \in Lits /\ false_lit \in Lits /\ Propagating = Neg(false_lit)
      /\ {ca[w.cref].w0, ca[w.cref].w1} = {f, false_lit}
      /\ f \notin ca[w.cref].rest /\ f # false_lit
  BY VisitFacts DEF VFacts, Visited, Watched, First
<1>4. dirty' = dirty
  BY DEF Moved
<1>5. v0.cref = w.cref
  BY DEF Watcher
<1> HIDE DEF v0, f
<1>6. \A cr \in DOMAIN ca : ca'[cr].mark = ca[cr].mark
  BY <1>1
<1>7. Live \subseteq DOMAIN ca /\ \A cr \in Live : ~ca[cr].mark
  BY DEF IInv, Live, DatabaseTyped, Stored
<1>8. \A p \in Lits : Neg(Neg(p)) = p /\ Neg(p) \in Lits
  BY LitFacts
(* The clause is watched by nobody else than its two literals. *)
<1>9. \A p \in Lits : \A v \in watches[p] : v.cref = w.cref => Neg(p) \in {f, false_lit}
  BY <1>2, <1>3, <1>7 DEF ListedIn, Justified
<1>10. \A v \in watches[Neg(q)] : v.cref # w.cref
  BY <1>1, <1>8, <1>9
<1>11. ASSUME NEW p \in Lits, NEW v \in watches'[p]
       PROVE  Justified(p, v, ca', Live', dirty')
  <2>1. CASE v \in watches[p] /\ v.cref # w.cref
    <3>1. Justified(p, v, ca, Live, dirty)
      BY <1>2, <2>1 DEF ListedIn
    <3> QED
      BY <1>1, <1>4, <1>7, <2>1, <3>1 DEF Justified
  <2>2. CASE v \in watches[p] /\ v.cref = w.cref
    <3>1. p # Propagating
      BY <1>1, <1>2, <1>3, <2>2 DEF ListedIn
    <3>2. Neg(p) = f
      BY <1>3, <1>8, <1>9, <2>2, <3>1
    <3> QED
      BY <1>1, <1>3, <2>2, <3>2 DEF Justified
  <2>3. CASE v \notin watches[p]
    <3>1. p = Neg(q) /\ v.cref = w.cref
      BY <1>1, <1>5, <2>3
    <3> QED
      BY <1>1, <1>3, <1>8, <3>1 DEF Justified
  <2> QED
    BY <2>1, <2>2, <2>3
<1>12. ASSUME NEW p \in Lits, NEW v \in watches'[p], NEW u \in watches'[p], v.cref = u.cref
       PROVE  v = u
  <2>1. CASE p # Neg(q)
    <3>1. watches'[p] \subseteq watches[p]
      BY <1>1, <2>1
    <3> QED
      BY <1>2, <1>12, <3>1 DEF ListedIn
  <2>2. CASE p = Neg(q)
    BY <1>1, <1>2, <1>5, <1>10, <1>12, <2>2 DEF ListedIn
  <2> QED
    BY <2>1, <2>2
<1>13. ASSUME NEW cr \in Live', NEW r \in {ca'[cr].w0, ca'[cr].w1}
       PROVE  \E v \in watches'[Neg(r)] : v.cref = cr
  <2>1. CASE cr = w.cref /\ r = q
    BY <1>1, <1>5, <2>1
  <2>2. CASE ~(cr = w.cref /\ r = q)
    <3>1. r \in {ca[cr].w0, ca[cr].w1} /\ cr \in Live /\ (cr = w.cref => r = f)
      BY <1>1, <1>3, <1>7, <2>2
    <3>2. PICK v \in watches[Neg(r)] : v.cref = cr
      BY <1>2, <3>1 DEF ListedIn
    <3>3. Neg(r) \in Lits
      BY <1>7, <3>1, ClauseLits
    <3>4. cr = w.cref => Neg(r) # Propagating
      BY <1>3, <1>8, <3>1
    <3>5. v \in watches'[Neg(r)]
      BY <1>1, <3>2, <3>3, <3>4
    <3> QED
      BY <3>2, <3>5
  <2> QED
    BY <2>1, <2>2
<1> QED
  BY <1>11, <1>12, <1>13 DEF ListedIn

(* Removing clauses takes no other clause from a list, and what stays of the
   removed ones is in lists marked as dirty. *)
LEMMA RemovedLists ==
  ASSUME IInv, NEW gone \in SUBSET Live, NEW short \in SUBSET Live, Removed(gone, short)
  PROVE  /\ \A p \in Lits : \A w \in watches[p] :
              w.cref \in Live \ gone => w \in watches'[p]
         /\ \A p \in Lits : \A w \in watches'[p] :
              p \in dirty \cup Smudged(gone) /\ w.cref \in DOMAIN ca
                /\ (w.cref \in gone \/ ca[w.cref].mark)
              => p \in dirty' /\ w.cref \in DOMAIN ca'
<1>1. short \in SUBSET (Live \ gone)
  BY DEF Removed
<1> DEFINE mem == Shrunk(gone, short)
           lists == dirty \cup Smudged(gone)
<1>2. \A cr \in DOMAIN ca : mem[cr].mark <=> (cr \in gone \/ ca[cr].mark)
  BY <1>1, ShrunkFacts
<1>3. DOMAIN mem = DOMAIN ca
  BY DEF Shrunk
<1>4. checkGarbage(mem, lists)
  BY DEF Removed, Shrunk
<1>5. Live \subseteq DOMAIN ca /\ \A cr \in Live : ~ca[cr].mark
  BY DEF IInv, Live, DatabaseTyped, Stored
<1> HIDE DEF mem, lists
<1>6. CASE ca' = mem /\ dirty' = lists /\ UNCHANGED watches
  BY <1>2, <1>3, <1>5, <1>6 DEF lists
<1>7. CASE /\ ca' = Reclaimed(mem) /\ dirty' = {}
           /\ watches' = [p \in Lits |->
                      IF p \in lists THEN {w \in watches[p] : ~mem[w.cref].mark}
                      ELSE watches[p]]
  <2>1. \A p \in Lits : \A w \in watches[p] :
              w.cref \in Live \ gone => w \in watches'[p]
    BY <1>2, <1>5, <1>7
  <2>2. ASSUME NEW p \in Lits, NEW w \in watches'[p], p \in lists, w.cref \in DOMAIN ca,
               w.cref \in gone \/ ca[w.cref].mark
        PROVE  FALSE
    BY <1>2, <1>7, <2>2
  <2> QED
    BY <2>1, <2>2 DEF lists
<1> QED
  BY <1>4, <1>6, <1>7 DEF checkGarbage

(* So a clause that stays is still found from its two literals. *)
LEMMA RemoveListed ==
  ASSUME IInv, NEW gone \in SUBSET Live, NEW short \in SUBSET Live, Removed(gone, short)
  PROVE  ListedIn(ca', Live', watches', dirty')
<1>1. /\ Live' = Live \ gone /\ Live' \subseteq DOMAIN ca' /\ DOMAIN ca' \subseteq DOMAIN ca
      /\ \A cr \in DOMAIN ca' :
           /\ ca'[cr].w0 = ca[cr].w0 /\ ca'[cr].w1 = ca[cr].w1
           /\ ca'[cr].mark <=> (cr \in gone \/ ca[cr].mark)
      /\ \A p \in Lits : watches'[p] \subseteq watches[p]
  BY RemovedFacts
<1>2. ListedIn(ca, Live, watches, dirty)
  BY ListedNow
<1>3. /\ \A p \in Lits : \A w \in watches[p] :
              w.cref \in Live \ gone => w \in watches'[p]
      /\ \A p \in Lits : \A w \in watches'[p] :
              p \in dirty \cup Smudged(gone) /\ w.cref \in DOMAIN ca
                /\ (w.cref \in gone \/ ca[w.cref].mark)
              => p \in dirty' /\ w.cref \in DOMAIN ca'
  BY RemovedLists
<1>4. Live \subseteq DOMAIN ca
  BY DEF IInv, Live, DatabaseTyped
<1>5. ASSUME NEW p \in Lits, NEW w \in watches'[p]
      PROVE  Justified(p, w, ca', Live', dirty')
  <2>1. Justified(p, w, ca, Live, dirty)
    BY <1>1, <1>2 DEF ListedIn
  <2>2. CASE w.cref \in Live \ gone /\ Neg(p) \in {ca[w.cref].w0, ca[w.cref].w1}
    BY <1>1, <2>2 DEF Justified
  <2>3. CASE w.cref \in gone /\ Neg(p) \in {ca[w.cref].w0, ca[w.cref].w1}
    <3>1. p = Neg(Neg(p))
      BY LitFacts
    <3>2. p \in Smudged(gone)
      BY <2>3, <3>1 DEF Smudged
    <3> QED
      BY <1>1, <1>3, <1>4, <2>3, <3>2 DEF Justified
  <2>4. CASE p \in dirty /\ w.cref \in DOMAIN ca /\ ca[w.cref].mark
    BY <1>1, <1>3, <2>4 DEF Justified
  <2> QED
    BY <2>1, <2>2, <2>3, <2>4 DEF Justified
<1>6. \A p \in Lits : \A w, v \in watches'[p] : w.cref = v.cref => w = v
  BY <1>1, <1>2 DEF ListedIn
<1>7. ASSUME NEW cr \in Live', NEW q \in {ca'[cr].w0, ca'[cr].w1}
      PROVE  \E w \in watches'[Neg(q)] : w.cref = cr
  <2>1. cr \in Live \ gone /\ q \in {ca[cr].w0, ca[cr].w1}
    BY <1>1
  <2>2. PICK w \in watches[Neg(q)] : w.cref = cr
    BY <1>2, <2>1 DEF ListedIn
  <2>3. Neg(q) \in Lits
    BY <1>4, <2>1, ClauseLits
  <2> QED
    BY <1>3, <2>1, <2>2, <2>3
<1> QED
  BY <1>5, <1>6, <1>7 DEF ListedIn

(* Every clause is found, once, from each of its two watched literals. *)
LEMMA ListedStep ==
  ASSUME IInv, Next PROVE Listed'
<1>1. CASE UNCHANGED <<ca, dbVars, watches, dirty>>
  BY <1>1, ListedNow, ListedNext DEF dbVars, Live
<1>2. todo # {} => pc = "propagate"
  BY DEF IInv, Visiting
<1> QED
  BY <1>1, <1>2, MemorySteps, AttachListed, LookupListed, RewriteListed, MoveListed, RemoveListed,
     ListedNext DEF MemoryStep

-----------------------------------------------------------------------------
(* The trail and the point that control has reached. *)

(* The literals that are true, and where they stand on the trail. *)
LEMMA TrailFacts ==
  ASSUME IInv
  PROVE  /\ trail \in Seq(Lits) /\ trail_lim \in Seq(Nat) /\ Len(trail) \in Nat
         /\ decisionLevel = Len(trail_lim) /\ decisionLevel \in Nat
         /\ DOMAIN trail = 1 .. Len(trail)
         /\ \A k \in DOMAIN trail :
              /\ trail[k] \in Lits /\ Var(trail[k]) \in Assigned /\ IsTrue(trail[k])
              /\ vardata[Var(trail[k])] \in [reason : Nat, level : Nat]
         /\ \A x \in Assigned : \E k \in DOMAIN trail : x = Var(trail[k])
         /\ \A p \in Lits : IsTrue(p) => \E k \in DOMAIN trail : p = trail[k]
<1> USE DEF IInv
<1>1. TrueLits = {trail[k] : k \in DOMAIN trail} /\ Assigned = {Var(trail[k]) : k \in DOMAIN trail}
  BY TrueFacts
<1>2. trail \in Seq(Lits) /\ trail_lim \in Seq(Nat) /\ vardata \in [Assigned -> [reason : Nat, level : Nat]]
  BY DEF TrailTyped
<1> QED
  BY <1>1, <1>2 DEF decisionLevel, IsTrue

(* What cancelUntil(lev) keeps. *)
KFacts(lev) ==
  /\ Cut(lev) \in 0 .. Len(trail)
  /\ Assigned \ Undone(lev) = {Var(trail[k]) : k \in 1 .. Cut(lev)}
  /\ Undone(lev) \subseteq Assigned
  /\ KeptData(lev) \in [Assigned \ Undone(lev) -> [reason : Nat, level : Nat]]
  /\ \A k \in 1 .. Cut(lev) : KeptData(lev)[Var(trail[k])] = vardata[Var(trail[k])]
  /\ \A k \in DOMAIN trail : k <= Cut(lev) <=> level(Var(trail[k])) <= lev
  /\ SubSeq(trail, 1, Cut(lev)) \in Seq(Lits)

(* cancelUntil keeps exactly the literals of the levels up to lev. *)
LEMMA KeptFacts ==
  ASSUME IInv, NEW lev \in 0 .. decisionLevel
  PROVE  KFacts(lev)
<1>1. trail \in Seq(Lits) /\ trail_lim \in Seq(Nat) /\ decisionLevel = Len(trail_lim)
      /\ DOMAIN trail = 1 .. Len(trail) /\ Len(trail) \in Nat
  BY TrailFacts
<1>2. OrderedIn(trail, trail_lim, vardata)
  BY DEF IInv, Ordered
<1>3. /\ Cut(lev) \in 0 .. Len(trail)
      /\ \A k \in DOMAIN trail : k <= Cut(lev) <=> vardata[Var(trail[k])].level <= lev
  <2> DEFINE n == IF Len(trail_lim) > lev THEN trail_lim[lev + 1] ELSE Len(trail)
  <2>1. lev \in 0 .. Len(trail_lim)
    BY <1>1
  <2>2. Cut(lev) = n
    BY <1>1 DEF Cut
  <2> HIDE DEF n
  <2>4. n = IF Len(trail_lim) > lev THEN trail_lim[lev + 1] ELSE Len(trail)
    BY DEF n
  <2>5. \A k \in 1 .. n : vardata[Var(trail[k])] = vardata[Var(trail[k])]
    OBVIOUS
  <2>3. /\ n \in 0 .. Len(trail)
        /\ \A k \in DOMAIN trail : k <= n <=> vardata[Var(trail[k])].level <= lev
        /\ OrderedIn(SubSeq(trail, 1, n), SubSeq(trail_lim, 1, lev), vardata)
    BY <1>1, <1>2, <2>1, <2>4, <2>5, CutOrdered
  <2> QED
    BY <2>2, <2>3
<1>4. Assigned = {Var(trail[k]) : k \in DOMAIN trail}
  BY TrueFacts DEF IInv
<1>5. Undone(lev) = {Var(trail[k]) : k \in Cut(lev) + 1 .. Len(trail)}
  BY DEF Undone
<1>6. Undone(lev) \subseteq Assigned
  <2>1. \A k \in Cut(lev) + 1 .. Len(trail) : k \in DOMAIN trail
    BY <1>1, <1>3
  <2> QED
    BY <1>4, <1>5, <2>1
<1>7. \A i, k \in DOMAIN trail : Var(trail[i]) = Var(trail[k]) => i = k
  BY <1>2 DEF OrderedIn
<1>8. ASSUME NEW k \in 1 .. Cut(lev)
      PROVE  k \in DOMAIN trail /\ Var(trail[k]) \in Assigned \ Undone(lev)
  <2>1. k \in DOMAIN trail
    BY <1>1, <1>3
  <2>2. Var(trail[k]) \notin Undone(lev)
    BY <1>1, <1>3, <1>5, <1>7, <2>1
  <2> QED
    BY <1>4, <2>1, <2>2
<1>9. Assigned \ Undone(lev) \subseteq {Var(trail[k]) : k \in 1 .. Cut(lev)}
  <2>1. ASSUME NEW x \in Assigned \ Undone(lev) PROVE \E k \in 1 .. Cut(lev) : x = Var(trail[k])
    <3>1. PICK k \in DOMAIN trail : x = Var(trail[k])
      BY <1>4
    <3>2. ~(k \in Cut(lev) + 1 .. Len(trail))
      BY <1>5, <3>1
    <3>3. k \in 1 .. Cut(lev)
      BY <1>1, <1>3, <3>2
    <3> QED
      BY <3>1, <3>3
  <2> QED
    BY <2>1
<1>10. vardata \in [Assigned -> [reason : Nat, level : Nat]]
  BY DEF IInv, TrailTyped
<1>11. SubSeq(trail, 1, Cut(lev)) \in Seq(Lits)
  BY <1>1, <1>3, Shortened
<1>12. Assigned \ Undone(lev) = {Var(trail[k]) : k \in 1 .. Cut(lev)}
  BY <1>8, <1>9
<1>13. KeptData(lev) \in [Assigned \ Undone(lev) -> [reason : Nat, level : Nat]]
  BY <1>10 DEF KeptData
<1>14. \A k \in 1 .. Cut(lev) : KeptData(lev)[Var(trail[k])] = vardata[Var(trail[k])]
  BY <1>8 DEF KeptData
<1> QED
  BY <1>3, <1>6, <1>11, <1>12, <1>13, <1>14 DEF level, KFacts

(* What a step makes of the assignment. *)
Grown(p, from, lev) ==
  /\ p \in Lits /\ Var(p) < next_var /\ Var(p) \notin Assigned /\ from \in Nat /\ lev \in Nat
  /\ trail' = Append(trail, p)
  /\ vardata' = Extended(Var(p), from, lev, vardata)

(* An unset literal has an unassigned variable. *)
LEMMA AssignableFree ==
  ASSUME IInv, NEW p, Assignable(p)
  PROVE  Var(p) \notin Assigned /\ p \in Lits
<1>1. SUFFICES ASSUME Var(p) \in Assigned PROVE FALSE
  BY DEF Assignable
<1>2. PICK k \in DOMAIN trail : Var(p) = Var(trail[k]) /\ IsTrue(trail[k]) /\ trail[k] \in Lits
  BY <1>1, TrailFacts
<1>3. p \in Lits /\ ~IsTrue(p) /\ ~IsFalse(p)
  BY DEF Assignable, Unset
<1>4. trail[k] = p \/ trail[k] = Neg(p)
  BY <1>2, <1>3, SameVar, LitFacts
<1> QED
  BY <1>2, <1>3, <1>4 DEF IsTrue, IsFalse

(* uncheckedEnqueue appends one literal at the present level. *)
LEMMA PushGrows ==
  ASSUME IInv, NEW p, NEW from, Pushed(p, from)
  PROVE  Grown(p, from, decisionLevel) /\ UNCHANGED trail_lim
BY AssignableFree, TrailFacts DEF Pushed, Assignable, Grown, uncheckedEnqueue

(* A decision appends one at a new level. *)
LEMMA DecideGrows ==
  ASSUME IInv, NEW p, DecidedOn(p)
  PROVE  Grown(p, CRef_Undef, decisionLevel + 1) /\ newDecisionLevel
BY AssignableFree, TrailFacts DEF DecidedOn, Assignable, Grown, Decide, CRef_Undef

(* What a pushed literal makes of the trail. *)
GFacts(p, from, lev) ==
  /\ trail' \in Seq(Lits) /\ Len(trail') = Len(trail) + 1
  /\ {Var(trail'[k]) : k \in DOMAIN trail'} = Assigned \cup {Var(p)}
  /\ vardata' \in [Assigned \cup {Var(p)} -> [reason : Nat, level : Nat]]
  /\ \A x \in Assigned : vardata'[x] = vardata[x]
  /\ vardata'[Var(p)] = [reason |-> from, level |-> lev]
  /\ \A k \in DOMAIN trail : trail'[k] = trail[k] /\ k \in DOMAIN trail'
                             /\ Var(trail[k]) # Var(p)

(* What the trail is after a literal is appended. *)
LEMMA GrownFacts ==
  ASSUME IInv, NEW p, NEW from, NEW lev, Grown(p, from, lev)
  PROVE  GFacts(p, from, lev)
<1>1. vardata \in [Assigned -> [reason : Nat, level : Nat]]
  BY DEF IInv, TrailTyped
<1>2. /\ vardata' \in [Assigned \cup {Var(p)} -> [reason : Nat, level : Nat]]
      /\ \A x \in Assigned : vardata'[x] = vardata[x]
      /\ vardata'[Var(p)] = [reason |-> from, level |-> lev]
  <2>1. /\ Var(p) \notin Assigned /\ from \in Nat /\ lev \in Nat
        /\ vardata' = Extended(Var(p), from, lev, vardata)
    BY DEF Grown
  <2> DEFINE x == Var(p)
  <2> HIDE DEF x
  <2>2. x = Var(p)
    BY DEF x
  <2> QED
    BY <1>1, <2>1, <2>2 DEF Extended
<1>3. /\ trail' \in Seq(Lits) /\ Len(trail') = Len(trail) + 1
      /\ DOMAIN trail' = 1 .. Len(trail) + 1 /\ DOMAIN trail = 1 .. Len(trail)
      /\ \A k \in 1 .. Len(trail) : trail'[k] = trail[k]
      /\ trail'[Len(trail) + 1] = p
      /\ Len(trail) \in Nat
  BY TrailFacts, Appended DEF Grown
<1>4. Assigned = {Var(trail[k]) : k \in DOMAIN trail}
  BY TrueFacts DEF IInv
<1>5. {Var(trail'[k]) : k \in DOMAIN trail'} = Assigned \cup {Var(p)}
  <2>1. ASSUME NEW k \in DOMAIN trail' PROVE Var(trail'[k]) \in Assigned \cup {Var(p)}
    <3>1. k \in DOMAIN trail \/ k = Len(trail) + 1
      BY <1>3
    <3> QED
      BY <1>3, <1>4, <3>1
  <2>2. ASSUME NEW x \in Assigned \cup {Var(p)} PROVE \E k \in DOMAIN trail' : x = Var(trail'[k])
    <3>1. CASE x = Var(p)
      BY <1>3, <3>1
    <3>2. CASE x \in Assigned
      BY <1>3, <1>4, <3>2
    <3> QED
      BY <3>1, <3>2
  <2> QED
    BY <2>1, <2>2
<1>6. \A k \in DOMAIN trail : Var(trail[k]) # Var(p)
  BY <1>4 DEF Grown
<1> QED
  BY <1>2, <1>3, <1>5, <1>6 DEF GFacts

(* What the trail is after cancelUntil(lev). *)
CFacts(lev) ==
  /\ trail' \in Seq(Lits) /\ Len(trail') = Cut(lev) /\ trail_lim' \in Seq(Nat)
  /\ Len(trail_lim') = lev
  /\ DOMAIN trail' = 1 .. Cut(lev)
  /\ {Var(trail'[k]) : k \in DOMAIN trail'} = Assigned \ Undone(lev)
  /\ vardata' \in [Assigned \ Undone(lev) -> [reason : Nat, level : Nat]]
  /\ \A k \in DOMAIN trail' : /\ trail'[k] = trail[k] /\ k \in DOMAIN trail
                              /\ vardata'[Var(trail[k])] = vardata[Var(trail[k])]

(* What it is after cancelUntil. *)
LEMMA CutFacts ==
  ASSUME IInv, NEW lev, CutBack(lev)
  PROVE  CFacts(lev)
<1>1. /\ trail \in Seq(Lits) /\ trail_lim \in Seq(Nat) /\ decisionLevel = Len(trail_lim)
      /\ decisionLevel \in Nat /\ DOMAIN trail = 1 .. Len(trail) /\ Len(trail) \in Nat
  BY TrailFacts
<1>2. /\ lev \in 0 .. decisionLevel /\ trail' = SubSeq(trail, 1, Cut(lev))
      /\ trail_lim' = SubSeq(trail_lim, 1, lev) /\ vardata' = KeptData(lev)
  BY DEF CutBack
<1>3. /\ Cut(lev) \in 0 .. Len(trail)
      /\ Assigned \ Undone(lev) = {Var(trail[k]) : k \in 1 .. Cut(lev)}
      /\ KeptData(lev) \in [Assigned \ Undone(lev) -> [reason : Nat, level : Nat]]
      /\ \A k \in 1 .. Cut(lev) : KeptData(lev)[Var(trail[k])] = vardata[Var(trail[k])]
  BY <1>2, KeptFacts DEF KFacts
<1>4. /\ trail' \in Seq(Lits) /\ Len(trail') = Cut(lev) /\ DOMAIN trail' = 1 .. Cut(lev)
      /\ \A k \in 1 .. Cut(lev) : trail'[k] = trail[k] /\ k \in DOMAIN trail
  BY <1>1, <1>2, <1>3, Shortened
<1>5. trail_lim' \in Seq(Nat) /\ Len(trail_lim') = lev
  BY <1>1, <1>2, Shortened
<1>6. {Var(trail'[k]) : k \in DOMAIN trail'} = {Var(trail[k]) : k \in 1 .. Cut(lev)}
  BY <1>4
<1> QED
  BY <1>2, <1>3, <1>4, <1>5, <1>6 DEF CFacts

(* The asserting literal is the negation of one that is undone. *)
AFacts(bt, p, from) ==
  /\ p \in Lits /\ from \in Nat /\ bt \in 0 .. decisionLevel - 1
  /\ Cut(bt) \in 0 .. Len(trail)
  /\ trail' \in Seq(Lits) /\ Len(trail') = Cut(bt) + 1 /\ DOMAIN trail' = 1 .. Cut(bt) + 1
  /\ trail_lim' \in Seq(Nat) /\ Len(trail_lim') = bt
  /\ trail'[Cut(bt) + 1] = p
  /\ Var(p) \in Undone(bt) /\ Var(p) = Var(trail[index]) /\ p = Neg(trail[index])
  /\ index \in DOMAIN trail
  /\ {Var(trail'[k]) : k \in DOMAIN trail'} = (Assigned \ Undone(bt)) \cup {Var(p)}
  /\ vardata' \in [(Assigned \ Undone(bt)) \cup {Var(p)} -> [reason : Nat, level : Nat]]
  /\ vardata'[Var(p)] = [reason |-> from, level |-> bt]
  /\ \A k \in 1 .. Cut(bt) :
       /\ trail'[k] = trail[k] /\ k \in DOMAIN trail /\ Var(trail[k]) # Var(p)
       /\ vardata'[Var(trail[k])] = vardata[Var(trail[k])]

(* What it is after cancelUntil and the assertion of the learnt literal,
   whose variable was taken back. *)
LEMMA AssertFacts ==
  ASSUME IInv, NEW bt, NEW p, NEW from, Asserted(bt, p, from)
  PROVE  AFacts(bt, p, from)
<1>1. /\ trail \in Seq(Lits) /\ trail_lim \in Seq(Nat) /\ decisionLevel = Len(trail_lim)
      /\ decisionLevel \in Nat /\ DOMAIN trail = 1 .. Len(trail) /\ Len(trail) \in Nat
  BY TrailFacts
<1>2. /\ pc = "learn" /\ bt \in 0 .. decisionLevel - 1 /\ p = Neg(trail[index]) /\ from \in Nat
      /\ trail' = Append(SubSeq(trail, 1, Cut(bt)), p)
      /\ trail_lim' = SubSeq(trail_lim, 1, bt)
      /\ vardata' = Extended(Var(p), from, bt, KeptData(bt))
  BY DEF Asserted
<1>3. bt \in 0 .. decisionLevel /\ bt \in Nat
  BY <1>1, <1>2
<1>4. /\ Cut(bt) \in 0 .. Len(trail)
      /\ Assigned \ Undone(bt) = {Var(trail[k]) : k \in 1 .. Cut(bt)}
      /\ KeptData(bt) \in [Assigned \ Undone(bt) -> [reason : Nat, level : Nat]]
      /\ \A k \in 1 .. Cut(bt) : KeptData(bt)[Var(trail[k])] = vardata[Var(trail[k])]
      /\ \A k \in DOMAIN trail : k <= Cut(bt) <=> level(Var(trail[k])) <= bt
      /\ SubSeq(trail, 1, Cut(bt)) \in Seq(Lits)
  BY <1>3, KeptFacts DEF KFacts
<1>5. /\ index \in DOMAIN trail /\ trail[index] \in Lits
      /\ level(Var(trail[index])) = decisionLevel
      /\ p \in Lits /\ Var(p) = Var(trail[index])
  BY <1>2, LearntFacts, LitFacts
<1>6. index \in Cut(bt) + 1 .. Len(trail)
  BY <1>1, <1>2, <1>4, <1>5
<1>7. Var(p) \in Undone(bt)
  BY <1>5, <1>6 DEF Undone
<1>8. /\ Len(SubSeq(trail, 1, Cut(bt))) = Cut(bt)
      /\ \A k \in 1 .. Cut(bt) : SubSeq(trail, 1, Cut(bt))[k] = trail[k] /\ k \in DOMAIN trail
  BY <1>1, <1>4, Shortened
<1>9. /\ trail' \in Seq(Lits) /\ Len(trail') = Cut(bt) + 1 /\ DOMAIN trail' = 1 .. Cut(bt) + 1
      /\ \A k \in 1 .. Cut(bt) : trail'[k] = trail[k] /\ k \in DOMAIN trail
      /\ trail'[Cut(bt) + 1] = p
  BY <1>2, <1>4, <1>5, <1>8, Appended
<1>10. trail_lim' \in Seq(Nat) /\ Len(trail_lim') = bt
  BY <1>1, <1>2, <1>3, Shortened
<1>11. {Var(trail'[k]) : k \in DOMAIN trail'} = (Assigned \ Undone(bt)) \cup {Var(p)}
  <2>1. ASSUME NEW k \in DOMAIN trail' PROVE Var(trail'[k]) \in (Assigned \ Undone(bt)) \cup {Var(p)}
    <3>1. k \in 1 .. Cut(bt) \/ k = Cut(bt) + 1
      BY <1>4, <1>9
    <3> QED
      BY <1>4, <1>9, <3>1
  <2>2. ASSUME NEW x \in (Assigned \ Undone(bt)) \cup {Var(p)}
        PROVE  \E k \in DOMAIN trail' : x = Var(trail'[k])
    <3>1. Cut(bt) + 1 \in DOMAIN trail' /\ \A k \in 1 .. Cut(bt) : k \in DOMAIN trail'
      BY <1>4, <1>9
    <3>2. CASE x = Var(p)
      BY <1>9, <3>1, <3>2
    <3>3. CASE x \in Assigned \ Undone(bt)
      BY <1>4, <1>9, <3>1, <3>3
    <3> QED
      BY <3>2, <3>3
  <2> QED
    BY <2>1, <2>2
<1>12. /\ vardata' \in [(Assigned \ Undone(bt)) \cup {Var(p)} -> [reason : Nat, level : Nat]]
       /\ vardata'[Var(p)] = [reason |-> from, level |-> bt]
       /\ \A y \in Assigned \ Undone(bt) : vardata'[y] = KeptData(bt)[y]
  <2> DEFINE X == Assigned \ Undone(bt)
             x == Var(p)
             old == KeptData(bt)
  <2>1. x \notin X /\ old \in [X -> [reason : Nat, level : Nat]]
        /\ vardata' = Extended(x, from, bt, old) /\ from \in Nat /\ bt \in Nat
    BY <1>2, <1>3, <1>4, <1>7
  <2> HIDE DEF X, x, old
  <2>2. /\ vardata' \in [X \cup {x} -> [reason : Nat, level : Nat]]
        /\ vardata'[x] = [reason |-> from, level |-> bt]
        /\ \A y \in X : vardata'[y] = old[y]
    BY <2>1 DEF Extended
  <2> QED
    BY <2>2 DEF X, x, old
<1>13. \A k \in 1 .. Cut(bt) : Var(trail[k]) \in Assigned \ Undone(bt)
  BY <1>4
<1>14. \A k \in 1 .. Cut(bt) :
         Var(trail[k]) # Var(p) /\ vardata'[Var(trail[k])] = vardata[Var(trail[k])]
  BY <1>4, <1>7, <1>12, <1>13
<1> QED
  BY <1>2, <1>4, <1>5, <1>7, <1>9, <1>10, <1>11, <1>12, <1>14 DEF AFacts

(* What the removal of the clauses gone leaves of the assignment. *)
UFacts(gone) ==
  /\ trail' = trail /\ trail_lim' = trail_lim
  /\ vardata' \in [Assigned -> [reason : Nat, level : Nat]]
  /\ \A x \in Assigned :
       /\ vardata'[x].level = vardata[x].level
       /\ \/ vardata'[x] = vardata[x]
          \/ /\ vardata'[x].reason = CRef_Undef
             /\ \E cr \in gone : locked(cr) /\ Var(ca[cr].w0) = x
       /\ (\E cr \in gone : locked(cr) /\ Var(ca[cr].w0) = x) =>
             vardata'[x].reason = CRef_Undef

(* removeClause forgets the reasons that point to removed clauses, and no
   level. *)
LEMMA UnlockedFacts ==
  ASSUME IInv, NEW gone, NEW short, Removed(gone, short)
  PROVE  UFacts(gone)
<1>1. vardata \in [Assigned -> [reason : Nat, level : Nat]]
  BY DEF IInv, TrailTyped
<1>2. vardata' = Unlocked(gone) /\ trail' = trail /\ trail_lim' = trail_lim
  BY DEF Removed
<1> DEFINE Lost(x) == \E cr \in gone : locked(cr) /\ Var(ca[cr].w0) = x
<1>3. vardata' = [x \in Assigned |->
                    IF Lost(x) THEN [vardata[x] EXCEPT !.reason = CRef_Undef] ELSE vardata[x]]
  BY <1>1, <1>2 DEF Unlocked
<1> HIDE DEF Lost
<1>4. ASSUME NEW x \in Assigned
      PROVE  /\ vardata'[x] \in [reason : Nat, level : Nat]
             /\ vardata'[x].level = vardata[x].level
             /\ vardata'[x] = vardata[x] \/ (vardata'[x].reason = CRef_Undef /\ Lost(x))
             /\ Lost(x) => vardata'[x].reason = CRef_Undef
  <2>1. vardata[x] \in [reason : Nat, level : Nat]
    BY <1>1
  <2> QED
    BY <1>3, <2>1 DEF CRef_Undef
<1>5. vardata' \in [Assigned -> [reason : Nat, level : Nat]]
  BY <1>3, <1>4
<1> QED
  BY <1>2, <1>4, <1>5 DEF Lost, UFacts

-----------------------------------------------------------------------------
(* No variable is assigned twice, and levels follow the trail. *)
LEMMA OrderedStep ==
  ASSUME IInv, Next
  PROVE  Ordered'
<1>0. /\ trail \in Seq(Lits) /\ trail_lim \in Seq(Nat) /\ decisionLevel = Len(trail_lim)
      /\ decisionLevel \in Nat /\ DOMAIN trail = 1 .. Len(trail) /\ Len(trail) \in Nat
      /\ OrderedIn(trail, trail_lim, vardata)
      /\ \A k \in DOMAIN trail : Var(trail[k]) \in Assigned
  BY TrailFacts DEF IInv, Ordered
<1>g. SUFFICES OrderedIn(trail', trail_lim', vardata')
  BY DEF Ordered
<1>1. CASE UNCHANGED <<trail, trail_lim, vardata>>
  BY <1>0, <1>1
<1>2. ASSUME NEW p, NEW from, Pushed(p, from)
      PROVE  OrderedIn(trail', trail_lim', vardata')
  <2>1. Grown(p, from, decisionLevel) /\ trail_lim' = trail_lim
    BY <1>2, PushGrows
  <2>2. /\ \A k \in DOMAIN trail : Var(trail[k]) # Var(p) /\ vardata'[Var(trail[k])] = vardata[Var(trail[k])]
        /\ vardata'[Var(p)].level = Len(trail_lim)
    <3>1. /\ \A x \in Assigned : vardata'[x] = vardata[x]
          /\ vardata'[Var(p)] = [reason |-> from, level |-> decisionLevel]
          /\ \A k \in DOMAIN trail : Var(trail[k]) # Var(p)
      <4>f. GFacts(p, from, decisionLevel)
        BY <2>1, GrownFacts
      <4> QED
        BY <2>1, <4>f DEF GFacts
    <3> QED
      BY <1>0, <3>1
  <2>3. p \in Lits /\ trail' = Append(trail, p)
    BY <2>1 DEF Grown
  <2>4. OrderedIn(Append(trail, p), trail_lim, vardata')
    BY <1>0, <2>2, <2>3, PushOrdered
  <2> QED
    BY <2>1, <2>3, <2>4
<1>3. ASSUME NEW p, DecidedOn(p)
      PROVE  OrderedIn(trail', trail_lim', vardata')
  <2>1. Grown(p, CRef_Undef, decisionLevel + 1) /\ trail_lim' = Append(trail_lim, Len(trail))
    BY <1>3, DecideGrows DEF newDecisionLevel
  <2>2. /\ \A k \in DOMAIN trail : Var(trail[k]) # Var(p) /\ vardata'[Var(trail[k])] = vardata[Var(trail[k])]
        /\ vardata'[Var(p)].level = decisionLevel + 1
    <3>1. /\ \A x \in Assigned : vardata'[x] = vardata[x]
          /\ vardata'[Var(p)] = [reason |-> CRef_Undef, level |-> decisionLevel + 1]
          /\ \A k \in DOMAIN trail : Var(trail[k]) # Var(p)
      <4>f. GFacts(p, CRef_Undef, decisionLevel + 1)
        BY <2>1, GrownFacts
      <4> QED
        BY <2>1, <4>f DEF GFacts
    <3> QED
      BY <1>0, <3>1
  <2>3. p \in Lits /\ trail' = Append(trail, p)
    BY <2>1 DEF Grown
  <2>4. /\ OrderedIn(trail, trail_lim', vardata) /\ trail_lim' \in Seq(Nat)
        /\ Len(trail_lim') = decisionLevel + 1
    BY <1>0, <2>1, LevelOrdered, Appended
  <2>5. OrderedIn(Append(trail, p), trail_lim', vardata')
    BY <1>0, <2>2, <2>3, <2>4, PushOrdered
  <2> QED
    BY <2>3, <2>5
<1>4. CASE newDecisionLevel /\ UNCHANGED <<trail, vardata>>
  BY <1>0, <1>4, LevelOrdered DEF newDecisionLevel
<1>5. ASSUME NEW lev, CutBack(lev)
      PROVE  OrderedIn(trail', trail_lim', vardata')
  <2>1. \A k \in 1 .. Cut(lev) : vardata'[Var(trail[k])] = vardata[Var(trail[k])]
    <3>f. CFacts(lev)
      BY <1>5, CutFacts
    <3> QED
      BY <1>5, <3>f DEF CFacts
  <2>2. lev \in 0 .. Len(trail_lim) /\ trail' = SubSeq(trail, 1, Cut(lev))
        /\ trail_lim' = SubSeq(trail_lim, 1, lev)
    BY <1>0, <1>5 DEF CutBack
  <2>3. Cut(lev) = IF Len(trail_lim) > lev THEN trail_lim[lev + 1] ELSE Len(trail)
    BY <1>0 DEF Cut
  <2> DEFINE n == Cut(lev)
  <2> HIDE DEF n
  <2>5. n = IF Len(trail_lim) > lev THEN trail_lim[lev + 1] ELSE Len(trail)
    BY <2>3 DEF n
  <2>7. n = Cut(lev)
    BY DEF n
  <2>4. OrderedIn(SubSeq(trail, 1, n), SubSeq(trail_lim, 1, lev), vardata')
    <3> DEFINE data == vardata
               data2 == vardata'
    <3>1. /\ lev \in 0 .. Len(trail_lim) /\ trail \in Seq(Lits) /\ trail_lim \in Seq(Nat)
          /\ OrderedIn(trail, trail_lim, data)
      BY <1>0, <2>2
    <3>2. n = IF Len(trail_lim) > lev THEN trail_lim[lev + 1] ELSE Len(trail)
      BY <2>3, <2>7
    <3>3. \A k \in 1 .. n : data2[Var(trail[k])] = data[Var(trail[k])]
      BY <2>1, <2>7
    <3> HIDE DEF data, data2
    <3>5. n \in 0 .. Len(trail)
      <4>1. KFacts(lev)
        BY <1>5, KeptFacts DEF CutBack
      <4> QED
        BY <4>1, <2>7 DEF KFacts
    <3>4. OrderedIn(SubSeq(trail, 1, n), SubSeq(trail_lim, 1, lev), data2)
      BY <3>1, <3>2, <3>3, <3>5, CutOrdered
    <3> QED
      BY <3>4 DEF data2
  <2> QED
    BY <2>2, <2>4 DEF n
<1>6. ASSUME NEW bt, NEW p, NEW from, Asserted(bt, p, from)
      PROVE  OrderedIn(trail', trail_lim', vardata')
  <2>1. /\ p \in Lits /\ bt \in 0 .. decisionLevel - 1
        /\ Cut(bt) \in 0 .. Len(trail)
        /\ vardata'[Var(p)] = [reason |-> from, level |-> bt]
        /\ \A k \in 1 .. Cut(bt) :
              /\ Var(trail[k]) # Var(p)
              /\ vardata'[Var(trail[k])] = vardata[Var(trail[k])]
    <3>f. AFacts(bt, p, from)
      BY <1>6, AssertFacts
    <3> QED
      BY <1>6, <3>f DEF AFacts
  <2>2. bt \in 0 .. Len(trail_lim)
    BY <1>0, <2>1
  <2>3. Cut(bt) = IF Len(trail_lim) > bt THEN trail_lim[bt + 1] ELSE Len(trail)
    BY <1>0 DEF Cut
  <2> DEFINE n == Cut(bt)
             tr == SubSeq(trail, 1, n)
             lim == SubSeq(trail_lim, 1, bt)
  <2>4. trail' = Append(tr, p) /\ trail_lim' = lim
    BY <1>6 DEF Asserted
  <2>5. n = Cut(bt) /\ tr = SubSeq(trail, 1, n) /\ lim = SubSeq(trail_lim, 1, bt)
    OBVIOUS
  <2> HIDE DEF n, tr, lim
  <2>6. OrderedIn(SubSeq(trail, 1, n), SubSeq(trail_lim, 1, bt), vardata')
    BY <1>0, <2>1, <2>2, <2>3, <2>5, CutOrdered
  <2>7. OrderedIn(tr, lim, vardata')
    BY <2>5, <2>6
  <2>8. /\ tr \in Seq(Lits) /\ lim \in Seq(Nat) /\ Len(lim) = bt /\ DOMAIN tr = 1 .. n
        /\ \A k \in 1 .. n : tr[k] = trail[k]
    <3>1. n \in 0 .. Len(trail)
      BY <2>1, <2>5
    <3>2. tr \in Seq(Lits) /\ DOMAIN tr = 1 .. n /\ \A k \in 1 .. n : tr[k] = trail[k]
      BY <1>0, <2>5, <3>1, Shortened
    <3>3. lim \in Seq(Nat) /\ Len(lim) = bt
      BY <1>0, <2>2, <2>5, Shortened
    <3> QED
      BY <3>2, <3>3
  <2>9. /\ \A k \in DOMAIN tr : Var(tr[k]) # Var(p) /\ vardata'[Var(tr[k])] = vardata'[Var(tr[k])]
        /\ vardata'[Var(p)].level = Len(lim)
    BY <2>1, <2>5, <2>8
  <2>10. OrderedIn(Append(tr, p), lim, vardata')
    BY <2>1, <2>7, <2>8, <2>9, PushOrdered
  <2> QED
    BY <2>4, <2>10
<1>7. ASSUME NEW gone, NEW short, Removed(gone, short)
      PROVE  OrderedIn(trail', trail_lim', vardata')
  <2>1. /\ trail' = trail /\ trail_lim' = trail_lim
        /\ \A x \in Assigned : vardata'[x].level = vardata[x].level
    <3>f. UFacts(gone)
      BY <1>7, UnlockedFacts
    <3> QED
      BY <1>7, <3>f DEF UFacts
  <2> QED
    BY <1>0, <2>1 DEF OrderedIn
<1> QED
  BY <1>1, <1>2, <1>3, <1>4, <1>5, <1>6, <1>7, TrailSteps DEF TrailStep

(* The trail after a step has its types. *)
Typed ==
  /\ trail' \in Seq(Lits) /\ trail_lim' \in Seq(Nat)
  /\ vardata' \in [{Var(trail'[k]) : k \in DOMAIN trail'} -> [reason : Nat, level : Nat]]

(* Types of the trail after a step. *)
LEMMA DataTyped ==
  ASSUME IInv, Next
  PROVE  Typed
<1>0. /\ trail \in Seq(Lits) /\ trail_lim \in Seq(Nat) /\ Len(trail) \in Nat
      /\ vardata \in [Assigned -> [reason : Nat, level : Nat]]
      /\ Assigned = {Var(trail[k]) : k \in DOMAIN trail}
  BY TrailFacts, TrueFacts DEF IInv, TrailTyped
<1> USE DEF Typed
<1>1. CASE UNCHANGED <<trail, trail_lim, vardata>>
  BY <1>0, <1>1
<1>2. ASSUME NEW p, NEW from, Pushed(p, from) PROVE Typed
  <2>1. Grown(p, from, decisionLevel) /\ trail_lim' = trail_lim
    BY <1>2, PushGrows
  <2>2. /\ trail' \in Seq(Lits)
        /\ {Var(trail'[k]) : k \in DOMAIN trail'} = Assigned \cup {Var(p)}
        /\ vardata' \in [Assigned \cup {Var(p)} -> [reason : Nat, level : Nat]]
    <3>f. GFacts(p, from, decisionLevel)
      BY <2>1, GrownFacts
    <3> QED
      BY <2>1, <3>f DEF GFacts
  <2> QED
    BY <1>0, <2>1, <2>2
<1>3. ASSUME NEW p, DecidedOn(p) PROVE Typed
  <2>1. Grown(p, CRef_Undef, decisionLevel + 1) /\ trail_lim' = Append(trail_lim, Len(trail))
    BY <1>3, DecideGrows DEF newDecisionLevel
  <2>2. trail_lim' \in Seq(Nat)
    BY <1>0, <2>1, Appended
  <2> QED
    <3>f. GFacts(p, CRef_Undef, decisionLevel + 1)
      BY <1>0, <2>1, <2>2, GrownFacts
    <3> QED
      BY <1>0, <2>1, <2>2, <3>f DEF GFacts
<1>4. CASE newDecisionLevel /\ UNCHANGED <<trail, vardata>>
  <2>1. trail_lim' \in Seq(Nat)
    BY <1>0, <1>4, Appended DEF newDecisionLevel
  <2> QED
    BY <1>0, <1>4, <2>1
<1>5. ASSUME NEW lev, CutBack(lev) PROVE Typed
  <2>f. CFacts(lev)
    BY <1>5, CutFacts
  <2> QED
    BY <1>5, <2>f DEF CFacts
<1>6. ASSUME NEW bt, NEW p, NEW from, Asserted(bt, p, from) PROVE Typed
  <2>f. AFacts(bt, p, from)
    BY <1>6, AssertFacts
  <2> QED
    BY <1>6, <2>f DEF AFacts
<1>7. ASSUME NEW gone, NEW short, Removed(gone, short) PROVE Typed
  <2>f. UFacts(gone)
    BY <1>0, <1>7, UnlockedFacts
  <2> QED
    BY <1>0, <1>7, <2>f DEF UFacts
<1> QED
  BY <1>1, <1>2, <1>3, <1>4, <1>5, <1>6, <1>7, TrailSteps DEF TrailStep

(* The variables that have a value after the step. *)
LEMMA NextAssigned ==
  ASSUME IInv, Next
  PROVE  /\ TrueLits' = {trail'[k] : k \in DOMAIN trail'}
         /\ Assigned' = {Var(trail'[k]) : k \in DOMAIN trail'}
         /\ TrueLits' \subseteq Lits /\ Assigned' \subseteq Vars
BY NextTrueFacts, UnreleasedStep, DataTyped DEF Typed

(* What cancelUntil and Learn leave: the variables they free go to the heap. *)
HeapKept ==
  /\ order_heap' \subseteq 0 .. next_var' - 1
  /\ \A x \in 0 .. next_var' - 1 : x \in order_heap' \cup Assigned'
  /\ \A k \in DOMAIN trail' : Var(trail'[k]) < next_var'

(* A variable of the user that is not on the heap is assigned. *)
LEMMA HeapFacts ==
  ASSUME IInv
  PROVE  /\ order_heap \subseteq 0 .. next_var - 1 /\ next_var \in Nat
         /\ \A x \in 0 .. next_var - 1 : x \in order_heap \cup Assigned
         /\ Assigned \subseteq 0 .. next_var - 1
<1>1. order_heap \subseteq 0 .. next_var - 1 /\ next_var \in Nat
      /\ \A x \in 0 .. next_var - 1 : x \in order_heap \cup Assigned
  BY NVarsAssumption DEF IInv, TrailTyped, UserTyped, Created
<1>2. ASSUME NEW x \in Assigned PROVE x \in 0 .. next_var - 1
  <2>1. PICK k \in DOMAIN trail : x = Var(trail[k]) /\ trail[k] \in Lits
    BY TrailFacts
  <2>2. Var(trail[k]) < next_var /\ Var(trail[k]) \in Nat
    BY <2>1, LitFacts DEF IInv, Created
  <2> QED
    BY <1>1, <2>1, <2>2
<1> QED
  BY <1>1, <1>2

(* Every variable below bound is on the heap or has a value. *)
HeapSplit(heap, bound, values) ==
  /\ heap \subseteq 0 .. bound - 1 /\ values \subseteq 0 .. bound - 1
  /\ \A x \in 0 .. bound - 1 : x \in heap \cup values

(* How the next three lemmas state it of the next state. *)
LEMMA HeapSuffices ==
  ASSUME IInv, Next, HeapSplit(order_heap', next_var', Assigned'), next_var' \in Nat
  PROVE  HeapKept
<1>1. \A k \in DOMAIN trail' : Var(trail'[k]) \in 0 .. next_var' - 1
  BY NextAssigned DEF HeapSplit
<1>2. \A k \in DOMAIN trail' : Var(trail'[k]) < next_var'
  BY <1>1
<1> QED
  BY <1>2 DEF HeapKept, HeapSplit

(* cancelUntil(0) puts the variables it frees back on the heap. *)
LEMMA CutHeap ==
  ASSUME IInv, Next, NEW heap \in SUBSET order_heap, cancelUntil(0, heap), UNCHANGED next_var,
         \A x \in order_heap : x \in heap \cup Assigned
  PROVE  HeapKept
<1>1. CutBack(0)
  BY TrailFacts DEF CutBack, cancelUntil
<1>2. Assigned' = Assigned \ Undone(0) /\ Undone(0) \subseteq Assigned
  BY <1>1, NextAssigned, CutFacts, KeptFacts DEF CutBack, CFacts, KFacts
<1>3. order_heap' = heap \cup Undone(0)
  BY DEF cancelUntil, HeapAfter
<1>4. \A k \in DOMAIN trail' : trail'[k] = trail[k] /\ k \in DOMAIN trail
  <2>f. CFacts(0)
    BY <1>1, CutFacts
  <2> QED
    BY <1>1, <2>f DEF CFacts
<1> QED
  BY <1>2, <1>3, <1>4, HeapFacts DEF HeapKept, IInv, Created

(* Learning sets the queue and the heap along with the trail. *)
LEMMA LearnCuts ==
  ASSUME IInv, Learn
  PROVE  \E bt, p, from : AfterConflict(bt, p, from) /\ Asserted(bt, p, from)
<1> DEFINE p == Neg(trail[index])
           kept == {l \in out_learnt : ~Redundant(l)}
<1>1. pc = "learn" /\ p \in Lits /\ decisionLevel \in Nat /\ decisionLevel > 0
  BY LearntFacts DEF Learn
<1>2. CASE kept = {}
  <2>1. AfterConflict(0, p, CRef_Undef)
    BY <1>2 DEF Learn, LearnUnit
  <2>2. Asserted(0, p, CRef_Undef)
    BY <1>1, <2>1 DEF Asserted, AfterConflict, CRef_Undef
  <2> HIDE DEF p, kept
  <2> QED
    BY <2>1, <2>2
<1>3. CASE kept # {}
  <2>1. LearnClause(p, kept)
    BY <1>3 DEF Learn
  <2>2. PICK q \in SecondWatch(kept) : AfterConflict(level(Var(q)), p, Fresh)
    BY <2>1 DEF LearnClause
  <2>3. q \in out_learnt
    BY DEF SecondWatch
  <2>4. level(Var(q)) \in 0 .. decisionLevel - 1
    BY <1>1, <2>3, LearntFacts
  <2>5. Fresh \in Nat
    BY FreshFacts DEF IInv, CRefs
  <2>6. Asserted(level(Var(q)), p, Fresh)
    BY <1>1, <2>2, <2>4, <2>5 DEF Asserted, AfterConflict
  <2> HIDE DEF p, kept
  <2> QED
    BY <2>2, <2>6
<1> QED
  BY <1>2, <1>3

(* So does cancelUntil after a conflict. *)
LEMMA LearnHeap ==
  ASSUME IInv, Next, Learn
  PROVE  HeapKept
<1>6. PICK bt, p, from : AfterConflict(bt, p, from) /\ Asserted(bt, p, from)
  BY LearnCuts
<1>2. /\ Assigned' = (Assigned \ Undone(bt)) \cup {Var(p)} /\ Undone(bt) \subseteq Assigned
      /\ Var(p) \in Undone(bt)
  <2>1. bt \in 0 .. decisionLevel
    <3>1. bt \in 0 .. decisionLevel - 1
      BY <1>6 DEF Asserted
    <3> QED
      BY <3>1, TrailFacts
  <2>2. Undone(bt) \subseteq Assigned
    <3>f. KFacts(bt)
      BY <2>1, KeptFacts
    <3> QED
      BY <2>1, <3>f DEF KFacts
  <2>3. /\ {Var(trail'[k]) : k \in DOMAIN trail'} = (Assigned \ Undone(bt)) \cup {Var(p)}
        /\ Var(p) \in Undone(bt)
    <3>f. AFacts(bt, p, from)
      BY <1>6, AssertFacts
    <3> QED
      BY <1>6, <3>f DEF AFacts
  <2> QED
    BY <2>2, <2>3, NextAssigned
<1>3. order_heap' = order_heap \cup Undone(bt) /\ next_var' = next_var
  BY <1>6 DEF AfterConflict, HeapAfter, Learn, userVars
<1>4. Assigned' \subseteq Assigned
  BY <1>2
<1>5. \A k \in DOMAIN trail' : Var(trail'[k]) \in Assigned'
  BY NextAssigned
<1> QED
  BY <1>2, <1>3, <1>4, <1>5, HeapFacts DEF HeapKept

(* No unassigned variable is ever lost to pickBranchLit. *)
LEMMA HeapStep ==
  ASSUME IInv, Next
  PROVE  HeapKept
<1>0. /\ order_heap \subseteq 0 .. next_var - 1 /\ next_var \in Nat
      /\ \A x \in 0 .. next_var - 1 : x \in order_heap \cup Assigned
      /\ Assigned \subseteq 0 .. next_var - 1
      /\ \A k \in DOMAIN trail' : Var(trail'[k]) \in Assigned'
  BY HeapFacts, NextAssigned
<1>1. CASE UNCHANGED <<trail, order_heap, next_var>>
  <2>1. Assigned' = Assigned
    BY <1>1, NextAssigned, TrueFacts DEF IInv
  <2> QED
    <3>h. HeapSplit(order_heap', next_var', Assigned') /\ next_var' \in Nat
      BY <1>0, <1>1, <2>1 DEF HeapSplit
    <3> QED
      BY <3>h, HeapSuffices
<1>2. CASE newVar
  <2>1. Assigned' = Assigned
    BY <1>2, NextAssigned, TrueFacts DEF IInv, newVar, trailVars
  <2>2. next_var' = next_var + 1 /\ order_heap' = order_heap \cup {next_var}
    BY <1>2 DEF newVar
  <2> QED
    <3>h. HeapSplit(order_heap', next_var', Assigned') /\ next_var' \in Nat
      BY <1>0, <2>1, <2>2 DEF HeapSplit
    <3> QED
      BY <3>h, HeapSuffices
<1>3. ASSUME NEW p, NEW from, Pushed(p, from), UNCHANGED <<order_heap, next_var>>
      PROVE  HeapKept
  <2>1. Grown(p, from, decisionLevel)
    BY <1>3, PushGrows
  <2>2. Assigned' = Assigned \cup {Var(p)} /\ Var(p) < next_var /\ Var(p) \in Nat
    <3>1. GFacts(p, from, decisionLevel)
      BY <2>1, GrownFacts
    <3>2. Var(p) < next_var /\ p \in Lits /\ Var(p) \in Nat
      BY <2>1, LitFacts DEF Grown
    <3> QED
      BY <3>1, <3>2, NextAssigned DEF GFacts
  <2> QED
    <3> DEFINE x == Var(p)
    <3>1. x \in 0 .. next_var - 1
      BY <1>0, <2>2
    <3> HIDE DEF x
    <3>2. HeapSplit(order_heap, next_var, Assigned \cup {x})
      BY <1>0, <3>1 DEF HeapSplit
    <3>h. HeapSplit(order_heap', next_var', Assigned') /\ next_var' \in Nat
      BY <1>0, <1>3, <2>2, <3>2 DEF x
    <3> QED
      BY <3>h, HeapSuffices
<1>4. ASSUME NEW p, DecidedOn(p), order_heap' \subseteq order_heap,
             order_heap \subseteq order_heap' \cup {Var(p)} \cup Assigned, UNCHANGED next_var
      PROVE  HeapKept
  <2>1. Grown(p, CRef_Undef, decisionLevel + 1)
    BY <1>4, DecideGrows
  <2>2. Assigned' = Assigned \cup {Var(p)} /\ Var(p) < next_var /\ Var(p) \in Nat
    <3>1. GFacts(p, CRef_Undef, decisionLevel + 1)
      BY <2>1, GrownFacts
    <3>2. Var(p) < next_var /\ p \in Lits /\ Var(p) \in Nat
      BY <2>1, LitFacts DEF Grown
    <3> QED
      BY <3>1, <3>2, NextAssigned DEF GFacts
  <2> QED
    <3> DEFINE heap == order_heap'
               x == Var(p)
    <3>1. heap \subseteq order_heap /\ order_heap \subseteq heap \cup {x} \cup Assigned
          /\ x \in 0 .. next_var - 1
      BY <1>0, <1>4, <2>2
    <3> HIDE DEF heap, x
    <3>2. HeapSplit(heap, next_var, Assigned \cup {x})
      BY <1>0, <3>1 DEF HeapSplit
    <3>h. HeapSplit(order_heap', next_var', Assigned') /\ next_var' \in Nat
      BY <1>0, <1>4, <2>2, <3>2 DEF heap, x
    <3> QED
      BY <3>h, HeapSuffices
<1>5. CASE SolveDead \/ RootConflict \/ Interrupted \/ FinalDone \/ Restart
  <2>1. cancelUntil(0, order_heap) /\ UNCHANGED next_var
    BY <1>5 DEF SolveDead, RootConflict, Interrupted, FinalDone, Restart, Return, userVars
  <2> QED
    BY <2>1, CutHeap
<1>6. CASE ModelFound
  <2>1. cancelUntil(0, {}) /\ UNCHANGED next_var /\ Free = {}
    BY <1>6 DEF ModelFound, Return, userVars
  <2>2. \A x \in order_heap : x \in {} \cup Assigned
    BY <2>1 DEF Free
  <2> QED
    BY <2>1, <2>2, CutHeap
<1>7. CASE Learn
  BY <1>7, LearnHeap
<1>8. CASE simplify \/ SimplifyCall
  <2>1. Simplified
    BY <1>8 DEF simplify, SimplifyCall
  <2>2. order_heap' = 0 .. next_var - 1 \ Assigned /\ next_var' = next_var
    BY <2>1 DEF Simplified
  <2>3. trail' = trail
    BY <2>1, NoRelease DEF IInv
  <2>4. Assigned' = Assigned
    BY <2>3, NextAssigned, TrueFacts DEF IInv
  <2> QED
    <3>1. next_var' \in Nat /\ next_var' = next_var
      BY <1>0, <2>2
    <3>2. HeapSplit(0 .. next_var - 1 \ Assigned, next_var, Assigned)
      BY <1>0 DEF HeapSplit
    <3>h. HeapSplit(order_heap', next_var', Assigned') /\ next_var' \in Nat
      BY <2>2, <2>4, <3>1, <3>2
    <3> QED
      BY <3>h, HeapSuffices
<1>9. CASE AddUnit
  <2>1. UNCHANGED <<order_heap, next_var>>
    BY <1>9 DEF AddUnit, AddCall
  <2> QED
    BY <1>3, <1>9, <2>1, AddUnitPushes
<1>10. CASE Imply
  <2>1. UNCHANGED <<order_heap, next_var>>
    BY <1>10 DEF Imply, Visit, userVars
  <2> QED
    BY <1>3, <1>10, <2>1, ImplyPushes
<1>11. CASE Assume
  <2>1. UNCHANGED <<order_heap, next_var>>
    BY <1>11 DEF Assume, userVars
  <2> QED
    BY <1>4, <1>11, <2>1, AssumeDecides
<1>12. CASE Branch
  <2>1. UNCHANGED next_var /\ order_heap' \subseteq order_heap
    BY <1>12 DEF Branch, userVars
  <2> QED
    BY <1>4, <1>12, <2>1, BranchDecides
<1>13. CASE \/ AddNothing \/ AddEmpty \/ AddLong \/ SimplifySkipped \/ Solve
            \/ NextFact \/ Blocked \/ FirstTrue \/ MoveWatch \/ Clash \/ Propagated
            \/ Resolve \/ NotSimplified \/ reduceDB \/ NotReduced \/ DummyLevel
            \/ AssumptionFalse \/ FinalStep
  <2>1. UNCHANGED <<trail, order_heap, next_var>>
    BY <1>13 DEF AddNothing, AddEmpty, AddLong, AddCall, SimplifySkipped, Solve, NextFact,
         Blocked, FirstTrue, MoveWatch, Clash, Visit, Propagated, Resolve, NotSimplified, reduceDB,
         NotReduced, DummyLevel, AssumptionFalse, FinalStep, trailVars, userVars
  <2> QED
    BY <1>1, <2>1
<1>14. ~releaseVar /\ ~ReuseVar
  BY NoRelease DEF IInv
<1> QED
  BY <1>2, <1>5, <1>6, <1>7, <1>8, <1>9, <1>10, <1>11, <1>12, <1>13, <1>14
     DEF Next, user, solver, propagate, analyze, search

-----------------------------------------------------------------------------
(* Levels grow along the trail, and trail_lim separates them. *)
LevelsFacts ==
  /\ \A i, k \in DOMAIN trail : i <= k => level(Var(trail[i])) <= level(Var(trail[k]))
  /\ \A i, k \in DOMAIN trail : Var(trail[i]) = Var(trail[k]) => i = k
  /\ \A k \in DOMAIN trail : level(Var(trail[k])) \in 0 .. decisionLevel
  /\ \A k \in DOMAIN trail : \A i \in DOMAIN trail_lim :
       i <= level(Var(trail[k])) <=> trail_lim[i] < k
  /\ \A x \in Assigned : level(x) \in 0 .. decisionLevel
  /\ \A i \in DOMAIN trail_lim : trail_lim[i] \in Nat /\ trail_lim[i] <= Len(trail)
  /\ \A i, j \in DOMAIN trail_lim : i <= j => trail_lim[i] <= trail_lim[j]
  /\ DOMAIN trail = 1 .. Len(trail) /\ Len(trail) \in Nat
  /\ DOMAIN trail_lim = 1 .. decisionLevel /\ decisionLevel \in Nat

(* The order of the trail, as the walks along it use it. *)
LEMMA Levels == IInv => LevelsFacts
<1> SUFFICES ASSUME IInv PROVE LevelsFacts
  OBVIOUS
<1>1. /\ \A i, k \in DOMAIN trail : Var(trail[i]) = Var(trail[k]) => i = k
      /\ \A i \in DOMAIN trail_lim : trail_lim[i] <= Len(trail)
      /\ \A i, j \in DOMAIN trail_lim : i <= j => trail_lim[i] <= trail_lim[j]
      /\ \A k \in DOMAIN trail :
           /\ level(Var(trail[k])) \in 0 .. Len(trail_lim)
           /\ \A i \in DOMAIN trail_lim : i <= level(Var(trail[k])) <=> trail_lim[i] < k
  BY DEF IInv, Ordered, OrderedIn, level
<1>2. /\ DOMAIN trail = 1 .. Len(trail) /\ Len(trail) \in Nat
      /\ DOMAIN trail_lim = 1 .. decisionLevel /\ decisionLevel \in Nat
      /\ decisionLevel = Len(trail_lim)
      /\ \A i \in DOMAIN trail_lim : trail_lim[i] \in Nat
  <2>1. trail \in Seq(Lits) /\ trail_lim \in Seq(Nat)
    BY DEF IInv, TrailTyped
  <2> QED
    BY <2>1 DEF decisionLevel
<1>3. \A x \in Assigned : level(x) \in 0 .. decisionLevel
  BY <1>1, <1>2, TrailFacts
<1>4. ASSUME NEW i \in DOMAIN trail, NEW k \in DOMAIN trail, i <= k
      PROVE  level(Var(trail[i])) <= level(Var(trail[k]))
  <2> DEFINE li == level(Var(trail[i]))
             lk == level(Var(trail[k]))
  <2>1. li \in 0 .. decisionLevel /\ lk \in 0 .. decisionLevel
    BY <1>1, <1>2
  <2>2. SUFFICES ASSUME lk < li PROVE FALSE
    BY <2>1
  <2>3. li \in DOMAIN trail_lim
    BY <1>2, <2>1, <2>2
  <2>4. trail_lim[li] < i
    BY <1>1, <2>1, <2>3
  <2>5. ~(trail_lim[li] < k)
    BY <1>1, <2>1, <2>2, <2>3
  <2> QED
    BY <1>2, <1>4, <2>3, <2>4, <2>5
<1> QED
  BY <1>1, <1>2, <1>3, <1>4 DEF LevelsFacts

-----------------------------------------------------------------------------
(* The literals of the clause that analyze resolves with, *)
Looked == IF index > Len(trail) THEN LitsOf(ca[confl]) ELSE Parents(confl)
(* those of them that it marks, *)
New == {q \in Looked : Var(q) \notin seen /\ level(Var(q)) > 0}
(* and all marks then. *)
Marked == seen \cup {Var(q) : q \in New}
(* k is the place of the last marked literal before index. *)
LastMarked(k) ==
  /\ k \in 1 .. index - 1
  /\ Var(trail[k]) \in Marked
  /\ \A i \in k + 1 .. index - 1 : Var(trail[i]) \notin Marked

(* What analyze looks at: literals that are false, set before the position
   it has reached, and one of the present level among those that it marks. *)
ConflictFacts ==
  /\ index \in 1 .. Len(trail) + 1
  /\ confl \in Live /\ confl \in DOMAIN ca
  /\ \A q \in Looked : /\ q \in Lits /\ IsFalse(q)
                       /\ \E i \in 1 .. index - 1 : i \in DOMAIN trail /\ trail[i] = Neg(q)
  /\ Marked \subseteq Assigned /\ \A x \in Marked : level(x) > 0
  /\ \A x \in Marked : \E i \in 1 .. index - 1 : i \in DOMAIN trail /\ Var(trail[i]) = x
  /\ \E x \in Marked : level(x) = decisionLevel

(* All literals analyze looks at are false and stand before index, and one
   variable of the present level is marked. *)
LEMMA Conflicts ==
  ASSUME IInv, pc = "conflict", decisionLevel > 0
  PROVE  ConflictFacts
<1>0. LevelsFacts
  BY Levels
<1>a. Analysed /\ Analysing
  BY DEF IInv, Analysing
<1>1. /\ \A x \in seen : x \in Assigned /\ level(x) > 0
      /\ \A k \in DOMAIN trail : Var(trail[k]) \in seen => k < index
  BY <1>a DEF Analysed
<1>2. \A q \in Lits : IsFalse(q) => /\ \E i \in DOMAIN trail : trail[i] = Neg(q)
                                    /\ Var(q) \in Assigned /\ Var(Neg(q)) = Var(q)
  <2>1. SUFFICES ASSUME NEW q \in Lits, IsFalse(q)
                 PROVE  /\ \E i \in DOMAIN trail : trail[i] = Neg(q)
                        /\ Var(q) \in Assigned /\ Var(Neg(q)) = Var(q)
    OBVIOUS
  <2>2. Neg(q) \in Lits /\ IsTrue(Neg(q)) /\ Var(Neg(q)) = Var(q)
    BY <2>1, LitFacts DEF IsTrue, IsFalse
  <2> QED
    BY <2>2, TrailFacts
<1>3. /\ index \in 1 .. Len(trail) + 1 /\ confl \in Live
      /\ \A q \in Looked : /\ q \in Lits /\ IsFalse(q)
                           /\ \E i \in 1 .. index - 1 : i \in DOMAIN trail /\ trail[i] = Neg(q)
      /\ \E x \in Marked : level(x) = decisionLevel
  <2>1. CASE /\ index = Len(trail) + 1 /\ seen = {} /\ confl \in Live
             /\ \A q \in LitsOf(ca[confl]) : IsFalse(q)
             /\ \E q \in LitsOf(ca[confl]) : level(Var(q)) = decisionLevel
    <3>1. Looked = LitsOf(ca[confl]) /\ Looked \subseteq Lits
      <4>1. index > Len(trail)
        BY <1>0, <2>1 DEF LevelsFacts
      <4>2. confl \in DOMAIN ca
        BY <2>1 DEF IInv, DatabaseTyped, Live
      <4> QED
        BY <4>1, <4>2, ClauseLits DEF Looked
    <3>2. \A q \in Looked : \E i \in 1 .. index - 1 : i \in DOMAIN trail /\ trail[i] = Neg(q)
      <4>1. \A i \in DOMAIN trail : i \in 1 .. index - 1
        BY <1>0, <2>1 DEF LevelsFacts
      <4> QED
        BY <1>2, <2>1, <3>1, <4>1
    <3>3. \E x \in Marked : level(x) = decisionLevel
      BY <2>1, <3>1 DEF Marked, New
    <3>4. index \in 1 .. Len(trail) + 1
      BY <1>0, <2>1 DEF LevelsFacts
    <3> QED
      BY <2>1, <3>1, <3>2, <3>3, <3>4
  <2>2. CASE /\ index \in DOMAIN trail
             /\ Present(seen) # {}
             /\ confl = reason(Var(trail[index])) /\ confl # CRef_Undef
    <3>1. /\ confl \in Live /\ ca[confl].w0 = trail[index]
          /\ \A q \in LitsOf(ca[confl]) \ {trail[index]} : \E i \in 1 .. index - 1 : trail[i] = Neg(q)
      BY <2>2 DEF IInv, Reasoned, ReasonsIn, reason
    <3>2. Looked = LitsOf(ca[confl]) \ {trail[index]}
      BY <1>0, <2>2, <3>1 DEF Looked, Parents, LevelsFacts
    <3>3. \A i \in 1 .. index - 1 : i \in DOMAIN trail
      BY <1>0, <2>2 DEF LevelsFacts
    <3>4. Looked \subseteq Lits
      <4>2. confl \in DOMAIN ca
        BY <3>1 DEF IInv, DatabaseTyped, Live
      <4> QED
        BY <3>2, <4>2, ClauseLits
    <3>5. \A q \in Looked : /\ IsFalse(q)
                            /\ \E i \in 1 .. index - 1 : i \in DOMAIN trail /\ trail[i] = Neg(q)
      BY <3>1, <3>2, <3>3, TrailFacts DEF IsTrue, IsFalse
    <3>6. \E x \in Marked : level(x) = decisionLevel
      BY <2>2 DEF Marked, Present
    <3>7. index \in 1 .. Len(trail) + 1
      BY <1>0, <2>2 DEF LevelsFacts
    <3> QED
      BY <3>1, <3>4, <3>5, <3>6, <3>7
  <2> QED
    BY <1>a, <2>1, <2>2 DEF Analysed
<1>4. confl \in DOMAIN ca
  BY <1>3 DEF IInv, DatabaseTyped, Live
<1>5. ASSUME NEW x \in Marked
      PROVE  /\ x \in Assigned /\ level(x) > 0
             /\ \E i \in 1 .. index - 1 : i \in DOMAIN trail /\ Var(trail[i]) = x
  <2>1. CASE x \in seen
    <3>1. x \in Assigned /\ level(x) > 0
      BY <1>1, <2>1
    <3>2. PICK k \in DOMAIN trail : x = Var(trail[k])
      BY <3>1, TrailFacts
    <3>3. k \in 1 .. index - 1
      BY <1>0, <1>1, <1>3, <2>1, <3>2 DEF LevelsFacts
    <3> QED
      BY <3>1, <3>2, <3>3
  <2>2. ASSUME NEW q \in New, x = Var(q)
        PROVE  /\ x \in Assigned /\ level(x) > 0
               /\ \E i \in 1 .. index - 1 : i \in DOMAIN trail /\ Var(trail[i]) = x
    <3>1. q \in Looked /\ level(x) > 0
      BY <2>2 DEF New
    <3>2. q \in Lits /\ IsFalse(q)
      BY <1>3, <3>1
    <3>3. Var(Neg(q)) = x /\ x \in Assigned
      BY <1>2, <2>2, <3>2
    <3>4. PICK i \in 1 .. index - 1 : i \in DOMAIN trail /\ trail[i] = Neg(q)
      BY <1>3, <3>1
    <3> QED
      BY <3>1, <3>3, <3>4
  <2> QED
    BY <2>1, <2>2 DEF Marked
<1> QED
  BY <1>3, <1>4, <1>5 DEF ConflictFacts

(* What the step of analyze that goes on to k does. *)
ResolvedTo(k) ==
  /\ LastMarked(k)
  /\ k \in DOMAIN trail /\ AtPresent(k) /\ k < index
  /\ \A i \in DOMAIN trail : Var(trail[i]) \in Marked => i <= k
  /\ out_learnt' = out_learnt \cup {q \in New : level(Var(q)) < decisionLevel}
  /\ index' = k
  /\ confl' = reason(Var(trail[k]))
  /\ seen' = Marked \ {Var(trail[k])}
  /\ pc' = IF Present(Marked) = {Var(trail[k])} THEN "learn" ELSE "conflict"

(* The next literal that analyze resolves is the last marked one of the
   trail, which is of the present level. *)
LEMMA Resolves ==
  ASSUME IInv, Resolve
  PROVE  ConflictFacts /\ \E k \in Nat : ResolvedTo(k)
<1>0. LevelsFacts /\ ConflictFacts
  BY Levels, Conflicts DEF Resolve
<1>1. \A x \in Marked : \E i \in 1 .. index - 1 : i \in DOMAIN trail /\ Var(trail[i]) = x
  BY <1>0 DEF ConflictFacts
<1>2. index \in 1 .. Len(trail) + 1
  BY <1>0 DEF ConflictFacts
<1> DEFINE S == {k \in 1 .. index - 1 : Var(trail[k]) \in Marked}
<1>3. PICK x \in Marked : level(x) = decisionLevel
  BY <1>0 DEF ConflictFacts
<1>4. PICK j \in 1 .. index - 1 : j \in DOMAIN trail /\ Var(trail[j]) = x
  BY <1>1, <1>3
<1>5. S \in SUBSET Nat /\ S # {} /\ \A k \in S : k <= index
  BY <1>2, <1>3, <1>4
<1>6. PICK m \in S : \A k \in S : k <= m
  <2>1. index \in Nat
    BY <1>0, <1>2 DEF LevelsFacts
  <2> QED
    BY <1>5, <2>1, GreatestNatural
<1>7. LastMarked(m)
  <2>1. ASSUME NEW i \in m + 1 .. index - 1, Var(trail[i]) \in Marked PROVE FALSE
    <3>1. i \in S
      BY <1>5, <2>1
    <3> QED
      BY <1>5, <1>6, <2>1, <3>1
  <2> QED
    BY <2>1 DEF LastMarked
<1> DEFINE next == CHOOSE k \in 1 .. index - 1 :
                     /\ Var(trail[k]) \in Marked
                     /\ \A i \in k + 1 .. index - 1 : Var(trail[i]) \notin Marked
<1>8. LastMarked(next)
  <2>1. \E k \in 1 .. index - 1 :
          /\ Var(trail[k]) \in Marked
          /\ \A i \in k + 1 .. index - 1 : Var(trail[i]) \notin Marked
    BY <1>7 DEF LastMarked
  <2>2. /\ next \in 1 .. index - 1
        /\ Var(trail[next]) \in Marked
        /\ \A i \in next + 1 .. index - 1 : Var(trail[i]) \notin Marked
    BY <2>1
  <2> HIDE DEF next
  <2> QED
    BY <2>2 DEF LastMarked
<1>9. /\ out_learnt' = out_learnt \cup {q \in New : level(Var(q)) < decisionLevel}
      /\ index' = next
      /\ confl' = reason(Var(trail[next]))
      /\ seen' = Marked \ {Var(trail[next])}
      /\ pc' = IF Present(Marked) = {Var(trail[next])} THEN "learn" ELSE "conflict"
  BY DEF Resolve, Looked, New, Marked
<1> HIDE DEF next, S
<1>10. next \in DOMAIN trail /\ next < index /\ next \in Nat
  BY <1>0, <1>2, <1>8 DEF LastMarked, LevelsFacts
<1>11. ASSUME NEW i \in DOMAIN trail, Var(trail[i]) \in Marked PROVE i <= next
  <2>1. PICK k \in 1 .. index - 1 : k \in DOMAIN trail /\ Var(trail[k]) = Var(trail[i])
    BY <1>1, <1>11
  <2>2. i = k
    BY <1>0, <2>1 DEF LevelsFacts
  <2>3. SUFFICES ASSUME next < i PROVE FALSE
    BY <1>0, <1>10 DEF LevelsFacts
  <2>4. i \in next + 1 .. index - 1
    BY <1>2, <1>10, <2>1, <2>2, <2>3
  <2> QED
    BY <1>8, <1>11, <2>4 DEF LastMarked
<1>12. AtPresent(next)
  <2>1. j <= next
    BY <1>3, <1>4, <1>11
  <2>2. level(Var(trail[j])) <= level(Var(trail[next])) /\ level(Var(trail[next])) \in 0 .. decisionLevel
    BY <1>0, <1>4, <1>10, <2>1 DEF LevelsFacts
  <2>3. decisionLevel \in Nat
    BY <1>0 DEF LevelsFacts
  <2> QED
    BY <1>3, <1>4, <2>2, <2>3 DEF AtPresent
<1>13. ResolvedTo(next)
  BY <1>8, <1>9, <1>10, <1>11, <1>12 DEF ResolvedTo
<1> QED
  BY <1>0, <1>10, <1>13

-----------------------------------------------------------------------------
(* What a return from search to its caller leaves behind. *)
Returned ==
  /\ CutBack(0) /\ Len(trail_lim') = 0 /\ Len(trail') = Cut(0) /\ Len(trail') \in Nat
  /\ qhead' \in 0 .. Len(trail')
  /\ qhead = Len(trail) => qhead' = Len(trail')

(* cancelUntil(0) leaves the literals of level 0, and nothing to propagate
   if nothing was. *)
LEMMA ReturnFacts ==
  ASSUME IInv, NEW heap, cancelUntil(0, heap)
  PROVE  Returned
<1>1. CutBack(0)
  BY TrailFacts DEF CutBack, cancelUntil
<1>2. CFacts(0) /\ KFacts(0)
  BY <1>1, CutFacts, KeptFacts DEF CutBack
<1>3. qhead \in 0 .. Len(trail) /\ Len(trail) \in Nat /\ decisionLevel \in Nat
  BY TrailFacts DEF IInv, TrailTyped
<1>4. qhead' = IF decisionLevel > 0 THEN Cut(0) ELSE qhead
  BY DEF cancelUntil, QheadAfter
<1>5. ~(decisionLevel > 0) => Cut(0) = Len(trail)
  BY DEF Cut
<1>6. Len(trail_lim') = 0 /\ Len(trail') = Cut(0) /\ Cut(0) \in 0 .. Len(trail)
  BY <1>2 DEF CFacts, KFacts
<1> QED
  BY <1>1, <1>3, <1>4, <1>5, <1>6 DEF Returned

(* The queue stays within the trail. *)
LEMMA QheadStep ==
  ASSUME IInv, Next
  PROVE  qhead' \in 0 .. Len(trail')
<1>0. qhead \in 0 .. Len(trail) /\ Len(trail) \in Nat /\ decisionLevel \in Nat
  BY TrailFacts DEF IInv, TrailTyped
<1>1. CASE UNCHANGED <<trail, qhead>>
  BY <1>0, <1>1
<1>2. ASSUME NEW p, NEW from, NEW lev, Grown(p, from, lev), UNCHANGED qhead
      PROVE  qhead' \in 0 .. Len(trail')
  <2>1. GFacts(p, from, lev)
    BY <1>2, GrownFacts
  <2> QED
    BY <1>0, <1>2, <2>1 DEF GFacts
<1>3. CASE SolveDead \/ RootConflict \/ Interrupted \/ FinalDone \/ Restart \/ ModelFound
  <2>1. \E heap : cancelUntil(0, heap)
    BY <1>3 DEF SolveDead, RootConflict, Interrupted, FinalDone, Restart, Return, ModelFound
  <2>2. Returned
    BY <2>1, ReturnFacts
  <2> QED
    BY <2>2 DEF Returned
<1>4. CASE Learn
  <2>1. PICK bt, p, from : AfterConflict(bt, p, from) /\ Asserted(bt, p, from)
    BY <1>4, LearnCuts
  <2>2. AFacts(bt, p, from)
    BY <2>1, AssertFacts
  <2>3. qhead' = Cut(bt)
    BY <1>0, <2>1, <2>2 DEF AfterConflict, QheadAfter, AFacts
  <2> QED
    BY <1>0, <2>2, <2>3 DEF AFacts
<1>5. CASE simplify \/ SimplifyCall
  BY <1>0, <1>5, NoRelease DEF simplify, SimplifyCall, IInv
<1>6. CASE NextFact
  BY <1>0, <1>6 DEF NextFact
<1>7. CASE Clash
  BY <1>0, <1>7 DEF Clash
<1>8. CASE AddUnit
  BY <1>2, <1>8, AddUnitPushes, PushGrows DEF AddUnit, AddCall
<1>9. CASE Imply
  BY <1>2, <1>9, ImplyPushes, PushGrows DEF Imply
<1>10. CASE Assume
  BY <1>2, <1>10, AssumeDecides, DecideGrows DEF Assume
<1>11. CASE Branch
  BY <1>2, <1>11, BranchDecides, DecideGrows DEF Branch
<1>12. CASE \/ newVar \/ AddNothing \/ AddEmpty \/ AddLong \/ SimplifySkipped \/ Solve
            \/ Blocked \/ FirstTrue \/ MoveWatch \/ Propagated
            \/ Resolve \/ NotSimplified \/ reduceDB \/ NotReduced \/ DummyLevel
            \/ AssumptionFalse \/ FinalStep
  <2>1. UNCHANGED <<trail, qhead>>
    BY <1>12 DEF newVar, AddNothing, AddEmpty, AddLong, AddCall, SimplifySkipped, Solve,
         Blocked, FirstTrue, MoveWatch, Visit, Propagated, Resolve, NotSimplified, reduceDB,
         NotReduced, DummyLevel, AssumptionFalse, FinalStep, trailVars
  <2> QED
    BY <1>1, <2>1
<1>13. ~releaseVar /\ ~ReuseVar
  BY NoRelease DEF IInv
<1> QED
  BY <1>3, <1>4, <1>5, <1>6, <1>7, <1>8, <1>9, <1>10, <1>11, <1>12, <1>13
     DEF Next, user, solver, propagate, analyze, search

(* Types of the trail, levels, reasons and the heap. *)
LEMMA TrailTypedStep ==
  ASSUME IInv, Next PROVE TrailTyped'
<1>1. Typed /\ HeapKept /\ qhead' \in 0 .. Len(trail')
  BY DataTyped, HeapStep, QheadStep
<1>2. Assigned' = {Var(trail'[k]) : k \in DOMAIN trail'}
  BY NextAssigned
<1>3. vardata' \in [Assigned' -> [reason : Nat, level : Nat]]
  BY <1>1, <1>2 DEF Typed
<1>4. trail' \in Seq(Lits) /\ trail_lim' \in Seq(Nat)
  BY <1>1 DEF Typed
<1>5. order_heap' \in SUBSET (0 .. next_var' - 1)
  BY <1>1 DEF HeapKept
<1> QED
  BY <1>1, <1>3, <1>4, <1>5 DEF TrailTyped

-----------------------------------------------------------------------------
(* analyzeFinal marks variables above level 0 that stand before the literal
   it visits. *)
LEMMA MarkedFacts ==
  ASSUME IInv, NEW k \in DOMAIN trail
  PROVE  /\ MarkedBy(reason(Var(trail[k]))) \subseteq Assigned
         /\ \A x \in MarkedBy(reason(Var(trail[k]))) :
              /\ level(x) > 0
              /\ \E i \in 1 .. k - 1 : i \in DOMAIN trail /\ Var(trail[i]) = x
<1> DEFINE cr == reason(Var(trail[k]))
<1>1. CASE cr = CRef_Undef
  BY <1>1 DEF MarkedBy
<1>2. CASE cr # CRef_Undef
  <2>1. /\ cr \in Live /\ ca[cr].w0 = trail[k]
        /\ \A q \in LitsOf(ca[cr]) \ {trail[k]} : \E i \in 1 .. k - 1 : trail[i] = Neg(q)
    BY <1>2 DEF IInv, Reasoned, ReasonsIn, reason
  <2>2. LitsOf(ca[cr]) \subseteq Lits
    BY <2>1, ClauseLits DEF IInv, DatabaseTyped, Live
  <2>3. \A i \in 1 .. k - 1 : i \in DOMAIN trail
    BY TrailFacts
  <2>4. ASSUME NEW x \in MarkedBy(cr)
        PROVE  /\ x \in Assigned /\ level(x) > 0
               /\ \E i \in 1 .. k - 1 : i \in DOMAIN trail /\ Var(trail[i]) = x
    <3>1. PICK q \in Parents(cr) : x = Var(q) /\ level(Var(q)) > 0
      BY <1>2 DEF MarkedBy
    <3>2. q \in LitsOf(ca[cr]) \ {trail[k]}
      BY <2>1, <3>1 DEF Parents
    <3>3. PICK i \in 1 .. k - 1 : trail[i] = Neg(q)
      BY <2>1, <3>2
    <3>4. Var(Neg(q)) = x
      BY <2>2, <3>1, <3>2, LitFacts
    <3> QED
      BY <2>3, <3>1, <3>3, <3>4, TrailFacts
  <2> QED
    BY <2>4
<1> QED
  BY <1>1, <1>2

(* The literals analyzeFinal still has to visit are marked and stand before
   index. *)
LEMMA FinalFacts ==
  ASSUME IInv, pc = "final", NEW k \in ToVisit
  PROVE  k \in DOMAIN trail /\ k \in Nat /\ k < index /\ Var(trail[k]) \in seen
<1>1. LevelsFacts
  BY Levels
<1>2. index <= Len(trail) + 1 /\ index \in Nat
  BY DEF IInv, Finalised, LoopTyped
<1>3. Decided \in Nat
  BY <1>1 DEF Decided, LevelsFacts
<1> QED
  BY <1>1, <1>2, <1>3 DEF ToVisit, LevelsFacts

-----------------------------------------------------------------------------
(* The parts about the loops, action by action. *)
LEMMA LoopTypedStep ==
  ASSUME IInv, Next PROVE LoopTyped'
<1>0. LoopTyped /\ Len(trail) \in Nat
  BY TrailFacts DEF IInv
<1>1. CASE Resolve
  <2>1. PICK k \in Nat : ResolvedTo(k)
    BY <1>1, Resolves
  <2>2. LevelsFacts /\ ConflictFacts
    BY <1>1, Levels, Conflicts DEF Resolve
  <2>3. seen' \in SUBSET Vars
    <3>1. Marked \subseteq Vars
      BY <2>2, TrueFacts DEF ConflictFacts, IInv
    <3> QED
      BY <2>1, <3>1 DEF ResolvedTo
  <2>4. out_learnt' \in SUBSET Lits
    BY <1>0, <2>1, <2>2 DEF ResolvedTo, ConflictFacts, New, LoopTyped
  <2>5. confl' \in Nat
    BY <2>1, TrailFacts DEF ResolvedTo, reason
  <2>6. index' \in Nat /\ pc' \in {"learn", "conflict"}
    BY <2>1 DEF ResolvedTo
  <2>7. ok' \in BOOLEAN /\ caller' \in {"user", "addClause", "search"}
    BY <1>0, <1>1 DEF Resolve, LoopTyped
  <2> QED
    BY <2>3, <2>4, <2>5, <2>6, <2>7 DEF LoopTyped
<1>2. CASE Clash
  <2>1. confl' \in Nat
    <3>1. PICK w \in todo : confl' = w.cref
      BY <1>2 DEF Clash
    <3>2. VFacts(w)
      BY <1>2, VisitFacts DEF Clash
    <3> QED
      BY <3>1, <3>2 DEF VFacts, CRefs
  <2>2. index' \in Nat
    BY <1>0, <1>2 DEF Clash
  <2> QED
    BY <1>0, <1>2, <2>1, <2>2 DEF Clash, LoopTyped
<1>3. CASE AssumptionFalse
  <2>1. Var(NextAssumption) \in Vars
    <3>1. decisionLevel + 1 \in DOMAIN assumptions
      BY <1>3, TrailFacts DEF AssumptionFalse, Pending, IInv, UserTyped
    <3>2. NextAssumption \in Lits
      BY <3>1 DEF NextAssumption, IInv, UserTyped
    <3> QED
      BY <3>2, LitFacts
  <2>2. seen' \in SUBSET Vars /\ index' \in Nat
    BY <1>0, <1>3, <2>1 DEF AssumptionFalse
  <2> QED
    BY <1>0, <1>3, <2>2 DEF AssumptionFalse, LoopTyped
<1>4. CASE FinalStep
  <2>1. PICK k \in ToVisit :
          /\ seen' = (seen \ {Var(trail[k])}) \cup MarkedBy(reason(Var(trail[k])))
          /\ index' = k
    BY <1>4 DEF FinalStep
  <2>2. k \in DOMAIN trail /\ k \in Nat
    BY <1>4, <2>1, FinalFacts DEF FinalStep
  <2>3. MarkedBy(reason(Var(trail[k]))) \subseteq Vars
    BY <2>2, MarkedFacts, TrueFacts DEF IInv
  <2> QED
    BY <1>0, <1>4, <2>1, <2>2, <2>3 DEF FinalStep, LoopTyped
<1>5. CASE Learn
  BY <1>0, <1>5 DEF Learn, LoopTyped, CRef_Undef
<1>6. CASE SolveDead \/ RootConflict \/ Interrupted \/ FinalDone \/ ModelFound
  <2>1. /\ ok' \in BOOLEAN /\ pc' = "idle" /\ caller' = caller
        /\ confl' = confl /\ (index' = index \/ index' = 0) /\ seen' \subseteq seen
        /\ out_learnt' = out_learnt
    BY <1>0, <1>6 DEF SolveDead, RootConflict, Interrupted, FinalDone, ModelFound, Return, LoopTyped,
       analyzeVars
  <2> QED
    BY <1>0, <2>1 DEF LoopTyped
<1>7. CASE propagate /\ ~Clash
  BY <1>0, <1>7 DEF propagate, NextFact, Blocked, FirstTrue, MoveWatch, Imply, Visit, Propagated,
     LoopTyped, analyzeVars
<1>8. CASE newVar \/ AddNothing \/ AddEmpty \/ AddUnit \/ AddLong \/ SimplifySkipped \/ Solve
  BY <1>0, <1>8 DEF newVar, AddNothing, AddEmpty, AddUnit, AddLong, AddCall, SimplifySkipped, Solve,
     LoopTyped, analyzeVars
<1>9. CASE \/ Restart \/ simplify \/ SimplifyCall \/ NotSimplified \/ reduceDB \/ NotReduced
           \/ DummyLevel \/ Assume \/ Branch
  BY <1>0, <1>9 DEF Restart, simplify, SimplifyCall, Simplified, NotSimplified, reduceDB, NotReduced,
     DummyLevel, Assume, Branch, LoopTyped, analyzeVars
<1>10. ~releaseVar /\ ~ReuseVar
  BY NoRelease DEF IInv
<1> QED
  BY <1>1, <1>2, <1>3, <1>4, <1>5, <1>6, <1>7, <1>8, <1>9, <1>10
     DEF Next, user, solver, propagate, analyze, search

-----------------------------------------------------------------------------
(* When analyzeFinal has no literal to visit, only the assumption it started
   from can be marked. *)
LEMMA FinalMarks ==
  ASSUME IInv, pc = "final", ToVisit = {}
  PROVE  seen \subseteq {Var(NextAssumption)}
<1>0. LevelsFacts
  BY Levels
<1>1. /\ \A x \in seen : x \in Assigned /\ (level(x) > 0 \/ x = Var(NextAssumption))
      /\ decisionLevel = 0 => seen = {}
      /\ \A k \in DOMAIN trail : Var(trail[k]) \in seen => k < index
      /\ index \in Nat
  BY DEF IInv, Finalised, LoopTyped
<1>2. SUFFICES ASSUME NEW x \in seen, level(x) > 0 PROVE FALSE
  BY <1>1
<1>3. decisionLevel > 0 /\ Decided = trail_lim[1] /\ 1 \in DOMAIN trail_lim
  BY <1>0, <1>1, <1>2 DEF Decided, LevelsFacts
<1>4. PICK k \in DOMAIN trail : x = Var(trail[k])
  BY <1>1, TrailFacts
<1>5. trail_lim[1] < k
  <2>1. 1 <= level(Var(trail[k]))
    BY <1>0, <1>1, <1>2, <1>4 DEF LevelsFacts
  <2> QED
    BY <1>0, <1>3, <1>4, <2>1 DEF LevelsFacts
<1>6. k \in Decided + 1 .. index - 1
  BY <1>0, <1>1, <1>3, <1>4, <1>5 DEF LevelsFacts
<1>7. k \in ToVisit
  BY <1>4, <1>6 DEF ToVisit
<1> QED
  BY <1>7

(* A conflict at level 0 finds no mark set. *)
LEMMA RootMarks ==
  ASSUME IInv, pc = "conflict", decisionLevel = 0
  PROVE  seen = {} /\ out_learnt = {}
<1>1. Analysed /\ Analysing /\ out_learnt \in SUBSET Lits
  BY DEF IInv, Analysing, LoopTyped
<1>2. seen = {}
  BY <1>1 DEF Analysed
<1>3. ASSUME NEW q \in out_learnt PROVE FALSE
  BY <1>1, <1>2, <1>3 DEF Analysed
<1> QED
  BY <1>2, <1>3

(* How the point that control has reached goes with the level, the queue and
   the marks. *)
LEMMA ControlStep ==
  ASSUME IInv, Next PROVE Control'
<1>0. Control /\ decisionLevel = Len(trail_lim) /\ decisionLevel \in Nat
  BY TrailFacts DEF IInv
<1>l. decisionLevel' = Len(trail_lim')
  BY DEF decisionLevel
<1>1. CASE newVar \/ AddNothing \/ AddEmpty \/ AddLong \/ SimplifySkipped \/ SimplifyCall
  <2>1. /\ pc = "idle" /\ pc' = "idle"
        /\ UNCHANGED <<todo, index, out_learnt, seen, caller, trail_lim>>
        /\ ok' => ok
    BY <1>1 DEF newVar, AddNothing, AddEmpty, AddLong, AddCall, SimplifySkipped, SimplifyCall, Simplified,
       Called, analyzeVars, trailVars
  <2>2. qhead' = Len(trail')
    <3>1. CASE SimplifyCall
      BY <3>1, NoRelease DEF SimplifyCall, IInv
    <3>2. CASE ~SimplifyCall
      BY <1>0, <1>1, <2>1, <3>2 DEF newVar, AddNothing, AddEmpty, AddLong, AddCall, SimplifySkipped, trailVars, Control
    <3> QED
      BY <3>1, <3>2
  <2> QED
    BY <1>0, <1>l, <2>1, <2>2 DEF Control, Idle, Analysing
<1>2. CASE AddUnit
  <2>1. /\ pc = "idle" /\ pc' = "propagate" /\ caller' = "addClause" /\ ok' /\ ok
        /\ UNCHANGED <<todo, index, out_learnt, seen, trail_lim>>
    BY <1>2 DEF AddUnit, AddCall, Called, Storable, analyzeVars
  <2> QED
    BY <1>0, <1>l, <2>1 DEF Control, Idle, Analysing
<1>3. CASE Solve
  <2>1. /\ pc = "idle" /\ caller' = "search" /\ ok' = ok
        /\ pc' = IF ok THEN "propagate" ELSE "dead"
        /\ UNCHANGED <<todo, index, out_learnt, seen, trail_lim, trail, qhead>>
    BY <1>3 DEF Solve, Called, analyzeVars, trailVars
  <2> QED
    BY <1>0, <1>l, <2>1 DEF Control, Idle, Analysing
<1>4. CASE NextFact \/ Blocked \/ FirstTrue \/ MoveWatch \/ Imply
  <2>1. /\ pc = "propagate" /\ pc' = "propagate"
        /\ UNCHANGED <<index, out_learnt, seen, trail_lim, ok, caller>>
    BY <1>4 DEF NextFact, Blocked, FirstTrue, MoveWatch, Imply, Visit, analyzeVars
  <2> QED
    BY <1>0, <1>l, <2>1 DEF Control, Idle, Analysing
<1>5. CASE Clash
  <2>1. /\ pc = "propagate" /\ todo' = {} /\ qhead' = Len(trail') /\ ok' = (caller # "addClause")
        /\ pc' = (IF caller = "addClause" THEN "idle" ELSE "conflict")
        /\ UNCHANGED <<out_learnt, seen, trail_lim, caller>>
    BY <1>5 DEF Clash
  <2> QED
    BY <1>0, <1>l, <2>1 DEF Control, Idle, Analysing
<1>6. CASE Propagated
  <2>1. /\ pc = "propagate" /\ todo = {} /\ qhead = Len(trail)
        /\ pc' = (IF caller = "addClause" THEN "idle" ELSE "decide")
        /\ UNCHANGED <<ok, todo, qhead, trail, out_learnt, seen, index, trail_lim, caller>>
    BY <1>6 DEF Propagated, trailVars, analyzeVars
  <2> QED
    BY <1>0, <1>l, <2>1 DEF Control, Idle, Analysing
<1>7. CASE SolveDead \/ RootConflict \/ Interrupted \/ FinalDone \/ ModelFound
  <2>1. /\ pc # "propagate" /\ pc' = "idle" /\ UNCHANGED <<todo, caller, out_learnt>>
        /\ \E heap : cancelUntil(0, heap)
        /\ ok' => ok /\ pc # "dead" /\ pc # "conflict"
        /\ pc # "learn"
    BY <1>0, <1>7 DEF SolveDead, RootConflict, Interrupted, FinalDone, ModelFound, Return, analyzeVars,
       Control, Idle
  <2>2. Returned
    BY <2>1, ReturnFacts
  <2>3. qhead' = Len(trail') /\ todo' = {} /\ Len(trail_lim') = 0
    BY <1>0, <2>1, <2>2 DEF Returned, Control
  <2>4. out_learnt' = {}
    <3>1. CASE RootConflict
      BY <2>1, <3>1, RootMarks DEF RootConflict
    <3>2. CASE SolveDead \/ Interrupted \/ FinalDone \/ ModelFound
      <4>1. pc # "conflict" /\ pc # "learn"
        BY <3>2 DEF SolveDead, Interrupted, FinalDone, ModelFound
      <4> QED
        BY <1>0, <2>1, <4>1 DEF Control, Analysing
    <3> QED
      BY <1>7, <3>1, <3>2
  <2>5. seen' = {} /\ (ok' => index' = 0)
    <3>1. CASE FinalDone
      <4>1. seen' = seen \ {Var(NextAssumption)} /\ index' = 0
        BY <3>1 DEF FinalDone
      <4>2. seen \subseteq {Var(NextAssumption)}
        BY <3>1, FinalMarks DEF FinalDone
      <4> QED
        BY <4>1, <4>2
    <3>2. CASE RootConflict
      BY <3>2, RootMarks DEF RootConflict, analyzeVars
    <3>3. CASE SolveDead \/ Interrupted \/ ModelFound
      BY <1>0, <2>1, <3>3 DEF SolveDead, Interrupted, ModelFound, analyzeVars, Control, Analysing
    <3> QED
      BY <1>7, <3>1, <3>2, <3>3
  <2> QED
    BY <1>l, <2>1, <2>3, <2>4, <2>5 DEF Control, Idle, Analysing
<1>8. CASE Restart
  <2>1. /\ pc = "decide" /\ pc' = "propagate" /\ UNCHANGED <<ok, todo, caller, seen, out_learnt, index>>
        /\ cancelUntil(0, order_heap)
    BY <1>8 DEF Restart, analyzeVars
  <2>2. Returned
    BY <2>1, ReturnFacts
  <2> QED
    BY <1>0, <1>l, <2>1, <2>2 DEF Control, Idle, Analysing, Returned
<1>9. CASE simplify \/ NotSimplified \/ reduceDB \/ NotReduced \/ DummyLevel
  <2>1. /\ pc \in {"decide", "reduce", "pick"} /\ pc' \in {"reduce", "pick"}
        /\ UNCHANGED <<ok, todo, caller, seen, out_learnt, index>>
    BY <1>9 DEF simplify, Simplified, NotSimplified, reduceDB, NotReduced, DummyLevel, Pending, analyzeVars
  <2>2. qhead' = Len(trail')
    <3>1. CASE simplify
      BY <3>1, NoRelease DEF simplify, IInv
    <3>2. CASE ~simplify
      BY <1>0, <1>9, <2>1, <3>2 DEF NotSimplified, reduceDB, NotReduced, DummyLevel, trailVars, Control
    <3> QED
      BY <3>1, <3>2
  <2> QED
    BY <1>0, <1>l, <2>1, <2>2 DEF Control, Idle, Analysing
<1>10. CASE Assume \/ Branch
  <2>1. /\ pc = "pick" /\ pc' = "propagate"
        /\ UNCHANGED <<ok, todo, caller, seen, out_learnt, index>>
    BY <1>10 DEF Assume, Branch, Pending, analyzeVars
  <2> QED
    BY <1>0, <1>l, <2>1 DEF Control, Idle, Analysing
<1>11. CASE AssumptionFalse \/ FinalStep
  <2>1. /\ pc \in {"pick", "final"} /\ pc' = "final"
        /\ UNCHANGED <<ok, todo, caller, out_learnt, trail, trail_lim, qhead, assumptions, free_vars>>
        /\ pc = "pick" => decisionLevel < Len(assumptions) /\ IsFalse(NextAssumption)
    BY <1>11 DEF AssumptionFalse, FinalStep, Pending, trailVars, userVars
  <2>2. decisionLevel < Len(assumptions) /\ IsFalse(NextAssumption)
    BY <1>0, <2>1 DEF Control
  <2>3. (decisionLevel < Len(assumptions) /\ IsFalse(NextAssumption))'
    BY <2>1, <2>2 DEF decisionLevel, IsFalse, TrueLits, NextAssumption
  <2> QED
    BY <1>0, <1>l, <2>1, <2>3 DEF Control, Idle, Analysing
<1>12. CASE Resolve
  <2>1. /\ pc = "conflict" /\ pc' \in {"learn", "conflict"}
        /\ UNCHANGED <<ok, todo, caller, trail, trail_lim, qhead>>
    BY <1>12 DEF Resolve, trailVars
  <2> QED
    BY <1>0, <1>l, <2>1 DEF Control, Idle, Analysing
<1>13. CASE Learn
  <2>1. /\ pc = "learn" /\ pc' = "propagate" /\ UNCHANGED <<ok, todo, caller>>
        /\ seen' = {} /\ out_learnt' = {} /\ index' = 0
    BY <1>13 DEF Learn
  <2> QED
    BY <1>0, <1>l, <2>1 DEF Control, Idle, Analysing
<1>14. ~releaseVar /\ ~ReuseVar
  BY NoRelease DEF IInv
<1> QED
  BY <1>1, <1>2, <1>3, <1>4, <1>5, <1>6, <1>7, <1>8, <1>9, <1>10, <1>11, <1>12, <1>13, <1>14
     DEF Next, user, solver, propagate, analyze, search

-----------------------------------------------------------------------------
(* The calls of the user, and what the solver does with them. *)
LEMMA UserSteps ==
  ASSUME IInv, Next
  PROVE  /\ next_var' \in {next_var, next_var + 1}
         /\ \A c \in given' : c \in given \/ Known(c)
         /\ \A k \in DOMAIN assumptions' : Var(assumptions'[k]) < next_var
<1>0. Created
  BY DEF IInv
<1>1. CASE AddNothing \/ AddEmpty \/ AddUnit \/ AddLong
  <2>1. AddCall
    BY <1>1 DEF AddNothing, AddEmpty, AddUnit, AddLong
  <2>2. given' = given \cup {Input} /\ Known(Input) /\ UNCHANGED <<next_var, assumptions>>
    BY <2>1 DEF AddCall, Usable, Known
  <2> QED
    BY <1>0, <2>2 DEF Created
<1>2. CASE Solve
  BY <1>2 DEF Solve, Usable
<1>3. CASE newVar
  BY <1>0, <1>3 DEF newVar, Created
<1>4. CASE ~(newVar \/ AddNothing \/ AddEmpty \/ AddUnit \/ AddLong \/ Solve)
  <2>1. UNCHANGED <<given, next_var, assumptions>>
    BY <1>4, NoRelease DEF IInv, Next, user, solver, propagate, analyze, search,
       SimplifySkipped, SimplifyCall, Simplified, simplify,
       SolveDead, NextFact, Blocked, FirstTrue, MoveWatch, Imply, Clash, Visit, Propagated,
       RootConflict, Resolve, Learn, Restart, Interrupted, NotSimplified, reduceDB, NotReduced,
       DummyLevel, Assume, AssumptionFalse, FinalStep, FinalDone, Branch, ModelFound, Return, userVars
  <2> QED
    BY <1>0, <2>1 DEF Created
<1> QED
  BY <1>1, <1>2, <1>3, <1>4

(* Clauses in memory are over variables of the user. *)
LEMMA KnownStep ==
  ASSUME IInv, Next
  PROVE  \A cr \in Live' : \A p \in LitsOf(ca'[cr]) : Var(p) < next_var
<1>0. /\ \A cr \in Live : Known(LitsOf(ca[cr]))
      /\ Live \subseteq DOMAIN ca
  BY DEF IInv, Created, DatabaseTyped, Live
<1> USE DEF Known
<1>2. CASE UNCHANGED <<ca, dbVars, watches, dirty>>
  BY <1>0, <1>2 DEF dbVars, Live
<1>3. ASSUME NEW c \in Clause, Attached(c)
      PROVE  \A cr \in Live' : \A p \in LitsOf(ca'[cr]) : Var(p) < next_var
  <2>1. /\ ca'[Fresh] = c /\ \A cr \in DOMAIN ca : ca'[cr] = ca[cr]
        /\ Live' = Live \cup {Fresh}
    BY <1>3, AttachedFacts
  <2>2. \A p \in LitsOf(c) : Var(p) < next_var
    BY <1>3 DEF Attached
  <2> QED
    BY <1>0, <2>1, <2>2
<1>4. ASSUME NEW p \in Lits, LookedUp(p)
      PROVE  \A cr \in Live' : \A q \in LitsOf(ca'[cr]) : Var(q) < next_var
  BY <1>0, <1>4 DEF LookedUp, dbVars, Live
<1>5. ASSUME NEW w \in todo, Rewritten(w), pc = "propagate"
      PROVE  \A cr \in Live' : \A p \in LitsOf(ca'[cr]) : Var(p) < next_var
  <2>1. /\ \A cr \in DOMAIN ca : cr # w.cref => ca'[cr] = ca[cr]
        /\ LitsOf(ca'[w.cref]) = LitsOf(ca[w.cref])
        /\ Live' = Live
    BY <1>5, RewrittenFacts
  <2> QED
    BY <1>0, <2>1
<1>6. ASSUME NEW w \in todo, NEW q \in Lits, Moved(w, q), pc = "propagate"
      PROVE  \A cr \in Live' : \A p \in LitsOf(ca'[cr]) : Var(p) < next_var
  <2>1. /\ \A cr \in DOMAIN ca : cr # w.cref => ca'[cr] = ca[cr]
        /\ LitsOf(ca'[w.cref]) = LitsOf(ca[w.cref])
        /\ Live' = Live
    BY <1>6, MovedFacts
  <2> QED
    BY <1>0, <2>1
<1>7. ASSUME NEW gone \in SUBSET Live, NEW short \in SUBSET Live, Removed(gone, short)
      PROVE  \A cr \in Live' : \A p \in LitsOf(ca'[cr]) : Var(p) < next_var
  <2>1. /\ Live' = Live \ gone /\ Live' \subseteq DOMAIN ca'
        /\ \A cr \in DOMAIN ca' :
             /\ ca'[cr].w0 = ca[cr].w0 /\ ca'[cr].w1 = ca[cr].w1
             /\ ca'[cr].rest \subseteq ca[cr].rest
    BY <1>7, RemovedFacts
  <2> QED
    BY <1>0, <2>1 DEF LitsOf
<1>8. todo # {} => pc = "propagate"
  BY DEF IInv, Visiting
<1> QED
  BY <1>2, <1>3, <1>4, <1>5, <1>6, <1>7, <1>8, MemorySteps DEF MemoryStep

(* And so is everything else. *)
LEMMA CreatedStep ==
  ASSUME IInv, Next PROVE Created'
<1>1. /\ next_var' \in {next_var, next_var + 1} /\ next_var \in Nat
      /\ \A c \in given' : c \in given \/ Known(c)
      /\ \A k \in DOMAIN assumptions' : Var(assumptions'[k]) < next_var
  BY UserSteps, HeapFacts
<1>2. HeapKept
  BY HeapStep
<1>3. \A x : x \in Nat /\ x < next_var => x < next_var'
  BY <1>1
<1>4. \A p \in Lits : Var(p) < next_var => Var(p) < next_var'
  BY <1>3, LitFacts
<1>5. DatabaseTyped' /\ UserTyped' /\ DatabaseTyped
  BY DatabaseTypedStep, UserTypedStep DEF IInv
<1>6. \A c \in given' : Known(c)'
  <2>1. given' \subseteq SUBSET Lits
    BY <1>5 DEF UserTyped
  <2>2. \A c \in given' : \A p \in c : Var(p) < next_var
    BY <1>1 DEF IInv, Created, Known
  <2> QED
    BY <1>4, <2>1, <2>2 DEF Known
<1>7. \A k \in DOMAIN assumptions' : Var(assumptions'[k]) < next_var'
  <2>1. assumptions' \in Seq(Lits)
    BY <1>5 DEF UserTyped
  <2> QED
    BY <1>1, <1>4, <2>1
<1>8. \A cr \in Live' : Known(LitsOf(ca[cr]))'
  <2>1. \A cr \in Live' : LitsOf(ca'[cr]) \subseteq Lits
    BY <1>5 DEF DatabaseTyped, Live, Clause, LitsOf
  <2>2. \A cr \in Live' : \A p \in LitsOf(ca'[cr]) : Var(p) < next_var
    BY KnownStep
  <2>3. \A cr \in Live' : \A p \in LitsOf(ca'[cr]) : Var(p) < next_var'
    BY <1>4, <2>1, <2>2
  <2> QED
    BY <2>3 DEF Known
<1> QED
  BY <1>2, <1>6, <1>7, <1>8 DEF HeapKept, Created

-----------------------------------------------------------------------------
(* Marks, reasons and the inductive invariant. *)

(* The watchers propagate has still to visit are in the list of the literal
   it propagates, whatever the visits before did to it. *)
LEMMA VisitingStep ==
  ASSUME IInv, Next PROVE Visiting'
<1>0. /\ Visiting /\ (pc # "propagate" => todo = {}) /\ LevelsFacts
      /\ qhead \in 0 .. Len(trail) /\ trail \in Seq(Lits)
  BY Levels DEF IInv, Control, TrailTyped
<1>1. CASE NextFact
  <2> DEFINE p == trail[qhead + 1]
  <2>1. /\ pc = "propagate" /\ qhead < Len(trail)
        /\ watches' = [watches EXCEPT ![p] = Cleaned(p)]
        /\ dirty' = dirty \ {p} /\ todo' = Cleaned(p) /\ qhead' = qhead + 1
        /\ UNCHANGED <<trail, pc>>
    BY <1>1 DEF NextFact
  <2>2. p \in Lits /\ qhead' > 0
    BY <1>0, <2>1
  <2>3. watches'[p] = Cleaned(p)
    BY <2>1, <2>2 DEF IInv, DatabaseTyped
  <2>4. Propagating' = p
    BY <2>1 DEF Propagating
  <2> HIDE DEF p
  <2> QED
    BY <2>1, <2>2, <2>3, <2>4 DEF Visiting
<1>2. ASSUME NEW w \in todo, pc = "propagate", todo' = todo \ {w}, UNCHANGED <<qhead, pc, dirty>>,
             trail'[qhead] = trail[qhead],
             \A v \in watches[Propagating] : v # w => v \in watches'[Propagating]
      PROVE  Visiting'
  <2>1. Propagating' = Propagating
    BY <1>2 DEF Propagating
  <2>2. todo' \subseteq watches'[Propagating']
    BY <1>0, <1>2, <2>1 DEF Visiting
  <2> QED
    BY <1>0, <1>2, <2>1, <2>2 DEF Visiting
<1>3. CASE Blocked
  BY <1>2, <1>3 DEF Blocked, Visit
<1>4. CASE FirstTrue \/ Imply
  <2>1. PICK w \in todo : /\ watches' = [watches EXCEPT ![Propagating] = Replaced(w)]
                          /\ todo' = todo \ {w}
    BY <1>4 DEF FirstTrue, Imply, Visit
  <2>2. VFacts(w) /\ pc = "propagate" /\ UNCHANGED <<qhead, pc, dirty>>
    BY <1>4, VisitFacts DEF FirstTrue, Imply, Visit
  <2>3. watches'[Propagating] = Replaced(w)
    BY <2>1, <2>2 DEF IInv, DatabaseTyped, VFacts, Visited
  <2>4. trail'[qhead] = trail[qhead]
    <3>1. CASE FirstTrue
      BY <3>1 DEF FirstTrue
    <3>2. CASE Imply
      <4>1. PICK p, from : Pushed(p, from)
        BY <3>2, ImplyPushes
      <4>2. GFacts(p, from, decisionLevel)
        BY <4>1, PushGrows, GrownFacts
      <4> QED
        BY <2>2, <4>2 DEF GFacts, VFacts
    <3> QED
      BY <1>4, <3>1, <3>2
  <2>5. \A v \in watches[Propagating] : v # w => v \in watches'[Propagating]
    BY <2>3 DEF Replaced
  <2> QED
    BY <1>2, <2>1, <2>2, <2>4, <2>5
<1>5. CASE MoveWatch
  <2>1. PICK w \in todo : \E q \in NewWatches(ca[w.cref]) :
          /\ watches' = [watches EXCEPT
                             ![Propagating] = @ \ {w},
                             ![ListFor(q)] = @ \cup {Watcher(w.cref, First(ca[w.cref]))}]
          /\ todo' = todo \ {w}
    BY <1>5 DEF MoveWatch, Visit
  <2>2. PICK q \in NewWatches(ca[w.cref]) :
          watches' = [watches EXCEPT
                             ![Propagating] = @ \ {w},
                             ![ListFor(q)] = @ \cup {Watcher(w.cref, First(ca[w.cref]))}]
    BY <2>1
  <2>3. VFacts(w) /\ pc = "propagate" /\ UNCHANGED <<qhead, pc, dirty, trail>>
    BY <1>5, VisitFacts DEF MoveWatch, Visit
  <2>4. watches[Propagating] \ {w} \subseteq watches'[Propagating]
    BY <2>2, <2>3 DEF IInv, DatabaseTyped, VFacts, Visited
  <2>5. todo' = todo \ {w}
    BY <2>1
  <2> QED
    BY <1>2, <2>3, <2>4, <2>5
<1>6. CASE ~(NextFact \/ Blocked \/ FirstTrue \/ Imply \/ MoveWatch)
  <2>1. todo' = {}
    <3>1. CASE Clash
      BY <3>1 DEF Clash
    <3>2. CASE Propagated
      BY <3>2 DEF Propagated
    <3>3. CASE user
      <4>1. todo' = todo /\ pc = "idle"
        BY <3>3, NoRelease DEF IInv, user, newVar, AddNothing, AddEmpty, AddUnit, AddLong, AddCall,
           SimplifySkipped, SimplifyCall, Simplified, Solve, Called
      <4> QED
        BY <1>0, <4>1
    <3>4. CASE SolveDead \/ analyze \/ search
      <4>1. todo' = todo /\ pc # "propagate"
        BY <3>4 DEF analyze, search, SolveDead,
           RootConflict, Resolve, Learn, Restart, Interrupted, NotSimplified, reduceDB, NotReduced,
           simplify, Simplified, Pending,
           DummyLevel, Assume, AssumptionFalse, FinalStep, FinalDone, Branch, ModelFound, Return
      <4> QED
        BY <1>0, <4>1
    <3> QED
      BY <1>6, <3>1, <3>2, <3>3, <3>4 DEF Next, solver, propagate
  <2> QED
    BY <2>1 DEF Visiting
<1> QED
  BY <1>1, <1>3, <1>4, <1>5, <1>6

-----------------------------------------------------------------------------
(* A visited watcher belongs to a fact of the present level. *)
LEMMA PresentFact ==
  ASSUME IInv, pc = "propagate", NEW w \in todo
  PROVE  level(Var(false_lit)) = decisionLevel
<1>0. LevelsFacts /\ VFacts(w)
  BY Levels, VisitFacts
<1>1. Var(false_lit) = Var(trail[qhead]) /\ qhead \in DOMAIN trail
  <2>1. Var(Neg(false_lit)) = Var(false_lit)
    BY <1>0, LitFacts DEF VFacts
  <2> QED
    BY <1>0, <2>1 DEF VFacts
<1>2. \A i \in DOMAIN trail_lim : trail_lim[i] < qhead
  BY DEF IInv, Queued
<1>3. \A i \in DOMAIN trail_lim : i <= level(Var(trail[qhead]))
  BY <1>0, <1>1, <1>2 DEF LevelsFacts
<1>4. decisionLevel <= level(Var(trail[qhead]))
  <2>1. CASE decisionLevel = 0
    BY <1>0, <1>1, <2>1 DEF LevelsFacts
  <2>2. CASE decisionLevel # 0
    <3>1. decisionLevel \in DOMAIN trail_lim
      BY <1>0, <2>2 DEF LevelsFacts
    <3> QED
      BY <1>3, <3>1
  <2> QED
    BY <2>1, <2>2
<1>5. level(Var(trail[qhead])) \in 0 .. decisionLevel /\ decisionLevel \in Nat
  BY <1>0, <1>1 DEF LevelsFacts
<1> QED
  BY <1>1, <1>4, <1>5

(* A conflict has all literals false, one of them at the present level. *)
LEMMA ClashFacts ==
  ASSUME IInv, Clash
  PROVE  /\ seen = {} /\ out_learnt = {} /\ confl' \in Live'
         /\ \A q \in LitsOf(ca'[confl']) : IsFalse(q)
         /\ \E q \in LitsOf(ca'[confl']) : level(Var(q)) = decisionLevel
<1>1. PICK w \in todo : /\ NewWatches(ca[w.cref]) = {} /\ IsFalse(First(ca[w.cref]))
                        /\ ca' = [ca EXCEPT ![w.cref] = Swapped(ca[w.cref])]
                        /\ watches' = [watches EXCEPT ![Propagating] = Replaced(w)]
                        /\ confl' = w.cref
  BY DEF Clash
<1>2. VFacts(w) /\ pc = "propagate"
  BY VisitFacts DEF Clash
<1>3. Rewritten(w)
  BY <1>1, <1>2 DEF Rewritten, VFacts, Clash
<1>4. LitsOf(ca'[w.cref]) = LitsOf(ca[w.cref]) /\ Live' = Live
  BY <1>2, <1>3, RewrittenFacts
<1>5. w.cref \in Live /\ IsFalse(false_lit)
      /\ LitsOf(ca[w.cref]) = {First(ca[w.cref]), false_lit} \cup ca[w.cref].rest
  BY <1>2 DEF VFacts, Visited
<1>6. \A q \in LitsOf(ca[w.cref]) : IsFalse(q)
  BY <1>1, <1>5 DEF NewWatches
<1>7. level(Var(false_lit)) = decisionLevel
  BY <1>2, PresentFact
<1>8. seen = {} /\ out_learnt = {}
  BY <1>2 DEF IInv, Control, Analysing
<1> QED
  BY <1>1, <1>4, <1>5, <1>6, <1>7, <1>8

(* Which steps lead to an analysis or go on with one. *)
LEMMA AnalysingSteps ==
  ASSUME IInv, Next, pc' \in {"conflict", "learn"} PROVE Clash \/ Resolve
BY NoRelease DEF IInv, Control, Idle, Next, user, solver, propagate, analyze, search,
   newVar, AddNothing, AddEmpty, AddUnit, AddLong, AddCall, SimplifySkipped, SimplifyCall, Solve, Called,
   SolveDead, NextFact, Blocked, FirstTrue, MoveWatch, Imply, Propagated,
   RootConflict, Learn, Restart, Interrupted, NotSimplified, reduceDB, NotReduced, simplify,
   DummyLevel, Assume, AssumptionFalse, FinalStep, FinalDone, Branch, ModelFound, Return, Pending

(* Which steps lead to analyzeFinal or go on with it. *)
LEMMA FinalSteps ==
  ASSUME IInv, Next, pc' = "final" PROVE AssumptionFalse \/ FinalStep
BY NoRelease DEF IInv, Control, Idle, Next, user, solver, propagate, analyze, search,
   newVar, AddNothing, AddEmpty, AddUnit, AddLong, AddCall, SimplifySkipped, SimplifyCall, Solve, Called,
   SolveDead, NextFact, Blocked, FirstTrue, MoveWatch, Imply, Propagated, Clash,
   RootConflict, Resolve, Learn, Restart, Interrupted, NotSimplified, reduceDB, NotReduced, simplify,
   DummyLevel, Assume, FinalDone, Branch, ModelFound, Return, Pending

-----------------------------------------------------------------------------
(* Two literals of a variable are not both false. *)
LEMMA FalseOnce ==
  ASSUME IInv, NEW q \in Lits, NEW r \in Lits, Var(q) = Var(r), IsFalse(q), IsFalse(r)
  PROVE  q = r
<1>1. Neg(q) \in Lits /\ Neg(r) \in Lits /\ Var(Neg(q)) = Var(Neg(r))
      /\ Neg(Neg(q)) = q /\ Neg(Neg(r)) = r
  BY LitFacts
<1>2. PICK i \in DOMAIN trail : Neg(q) = trail[i]
  BY <1>1, TrailFacts DEF IsTrue, IsFalse
<1>3. PICK k \in DOMAIN trail : Neg(r) = trail[k]
  BY <1>1, TrailFacts DEF IsTrue, IsFalse
<1>4. i = k
  BY <1>1, <1>2, <1>3, Levels DEF LevelsFacts
<1> QED
  BY <1>1, <1>2, <1>3, <1>4

(* A literal that is not the first of its level has a reason. *)
LEMMA OldReason ==
  ASSUME IInv, NEW k \in DOMAIN trail, NEW j \in DOMAIN trail, j < k,
         level(Var(trail[j])) = level(Var(trail[k])), level(Var(trail[k])) > 0
  PROVE  reason(Var(trail[k])) # CRef_Undef
<1>0. LevelsFacts
  BY Levels
<1> DEFINE d == level(Var(trail[k]))
<1>1. ASSUME NEW i \in DOMAIN trail_lim, trail_lim[i] = k - 1 PROVE FALSE
  <2>1. trail_lim[i] \in Nat /\ j \in Nat /\ k \in Nat /\ ~(trail_lim[i] < j) /\ trail_lim[i] < k
    BY <1>0, <1>1 DEF LevelsFacts
  <2>2. i <= level(Var(trail[k]))
    BY <1>0, <2>1 DEF LevelsFacts
  <2>3. ~(i <= level(Var(trail[j])))
    BY <1>0, <2>1 DEF LevelsFacts
  <2> QED
    BY <2>2, <2>3
<1>2. level(Var(trail[k])) = vardata[Var(trail[k])].level /\ reason(Var(trail[k])) = vardata[Var(trail[k])].reason
  BY DEF level, reason
<1> QED
  BY <1>1, <1>2 DEF IInv, Opened, OpenedIn

(* The marks of analyze: above level 0, before index, in out_learnt exactly
   when of an earlier level, and at least one of the present level until it
   stops. *)
LEMMA AnalysedStep ==
  ASSUME IInv, Next PROVE Analysed'
<1>g. SUFFICES ASSUME pc' \in {"conflict", "learn"} PROVE Analysed'
  BY DEF Analysed, Analysing
<1>0. LevelsFacts /\ (Clash \/ Resolve)
  BY <1>g, Levels, AnalysingSteps
<1>1. UNCHANGED <<trail, trail_lim, vardata, free_vars>>
  BY <1>0 DEF Clash, Resolve, trailVars, userVars
<1>2. /\ Assigned' = Assigned /\ decisionLevel' = decisionLevel
      /\ \A x : level(x)' = level(x) /\ reason(x)' = reason(x)
      /\ \A q : IsFalse(q)' <=> IsFalse(q)
      /\ DOMAIN trail' = DOMAIN trail
      /\ \A k : AtPresent(k)' <=> AtPresent(k)
  BY <1>1 DEF Assigned, TrueLits, decisionLevel, level, reason, IsFalse, AtPresent
<1>3. CASE Clash
  <2>1. /\ seen = {} /\ out_learnt = {} /\ confl' \in Live'
        /\ \A q \in LitsOf(ca'[confl']) : IsFalse(q)
        /\ \E q \in LitsOf(ca'[confl']) : level(Var(q)) = decisionLevel
    BY <1>3, ClashFacts
  <2>2. pc' = "conflict" /\ index' = Len(trail') + 1 /\ seen' = {} /\ out_learnt' = {}
    BY <1>3, <1>g, <2>1 DEF Clash
  <2> QED
    BY <1>2, <2>1, <2>2 DEF Analysed
<1>4. CASE Resolve
  <2>1. PICK k \in Nat : ResolvedTo(k)
    BY <1>4, Resolves
  <2>2. ConflictFacts /\ decisionLevel > 0
    BY <1>4, Resolves DEF Resolve
  <2> DEFINE x == Var(trail[k])
  <2>3. /\ k \in DOMAIN trail /\ k < index /\ x \in Marked /\ level(x) = decisionLevel
        /\ \A i \in DOMAIN trail : Var(trail[i]) \in Marked => i <= k
        /\ out_learnt' = out_learnt \cup {q \in New : level(Var(q)) < decisionLevel}
        /\ index' = k /\ confl' = reason(x) /\ seen' = Marked \ {x}
        /\ pc' = IF Present(Marked) = {x} THEN "learn" ELSE "conflict"
    BY <2>1 DEF ResolvedTo, LastMarked, AtPresent
  <2>4. Marked \subseteq Assigned /\ \A y \in Marked : level(y) > 0
    BY <2>2 DEF ConflictFacts
  <2>5. \A y \in seen' : y \in Assigned' /\ level(y)' > 0
    BY <1>2, <2>3, <2>4
  <2>6. \A i \in DOMAIN trail' : Var(trail'[i]) \in seen' => i < index'
    <3>1. ASSUME NEW i \in DOMAIN trail, Var(trail[i]) \in seen' PROVE i < k
      BY <1>0, <2>3, <3>1 DEF LevelsFacts
    <3> QED
      BY <1>1, <2>3, <3>1
  <2>7. ASSUME NEW q \in Lits
        PROVE  q \in out_learnt' <=>
                 IsFalse(q) /\ Var(q) \in seen' /\ level(Var(q)) < decisionLevel
    <3>1. q \in out_learnt <=> IsFalse(q) /\ Var(q) \in seen /\ level(Var(q)) < decisionLevel
      BY <1>4 DEF IInv, Analysed, Analysing, Resolve
    <3>2. \A r \in Looked : r \in Lits /\ IsFalse(r)
      BY <2>2 DEF ConflictFacts
    <3>3. q \in New => IsFalse(q) /\ Var(q) \in Marked
      BY <3>2 DEF New, Marked
    <3>4. \A r \in New : Var(r) = Var(q) /\ IsFalse(q) => q \in New
      <4>1. ASSUME NEW r \in New, Var(r) = Var(q), IsFalse(q) PROVE q = r
        <5>1. r \in Lits /\ IsFalse(r)
          BY <3>2 DEF New
        <5> QED
          BY <4>1, <5>1, FalseOnce
      <4> QED
        BY <4>1
    <3>5. Var(q) \in Marked => Var(q) \in seen \/ \E r \in New : Var(r) = Var(q)
      BY DEF Marked
    <3>6. level(Var(q)) < decisionLevel => Var(q) # x
      <4>1. decisionLevel \in Nat /\ level(x) = decisionLevel
        BY <1>0, <2>3 DEF LevelsFacts
      <4> HIDE DEF x
      <4> QED
        BY <4>1
    <3>7. seen \subseteq Marked
      BY DEF Marked
    <3> HIDE DEF x
    <3> QED
      BY <2>3, <3>1, <3>3, <3>4, <3>5, <3>6, <3>7
  <2>8. pc' = "conflict" => Present(seen') # {} /\ reason(x) # CRef_Undef
    <3>1. SUFFICES ASSUME pc' = "conflict" PROVE Present(seen') # {} /\ reason(x) # CRef_Undef
      OBVIOUS
    <3>2. x \in Present(Marked) /\ Present(Marked) # {x}
      BY <2>3, <3>1 DEF Present
    <3>3. PICK y \in Present(Marked) : y # x
      BY <3>2
    <3>4. y \in Marked /\ level(y) = decisionLevel
      BY <3>3 DEF Present
    <3>5. Present(seen') # {}
      BY <2>3, <3>3, <3>4 DEF Present
    <3>6. PICK j \in DOMAIN trail : y = Var(trail[j])
      BY <2>4, <3>4, TrailFacts
    <3>7. j < k
      BY <1>0, <2>3, <3>3, <3>4, <3>6 DEF LevelsFacts
    <3>8. reason(Var(trail[k])) # CRef_Undef
      BY <2>2, <2>3, <3>4, <3>6, <3>7, OldReason
    <3> QED
      BY <3>5, <3>8
  <2>9. pc' = "learn" => Present(seen') = {}
    BY <2>3 DEF Present
  <2>10. \A q \in Lits : q \in out_learnt' <=>
           IsFalse(q)' /\ Var(q) \in seen' /\ level(Var(q))' < decisionLevel'
    BY <1>2, <2>7
  <2>11. Present(seen)' = Present(seen')
    BY <1>2 DEF Present
  <2>12. index' \in DOMAIN trail' /\ AtPresent(index)' /\ decisionLevel' > 0
    <3>1. level(Var(trail[k])) = decisionLevel /\ k \in DOMAIN trail /\ index' = k
      BY <2>3
    <3>2. AtPresent(index)'
      BY <1>1, <3>1 DEF AtPresent, level, decisionLevel
    <3> QED
      BY <1>2, <2>2, <3>1, <3>2
  <2>13. pc' = "conflict" =>
           /\ Present(seen)' # {}
           /\ confl' = reason(Var(trail[index]))' /\ confl' # CRef_Undef
    <3>1. index' = k /\ confl' = reason(Var(trail[k]))
          /\ (pc' = "conflict" => Present(seen') # {} /\ reason(Var(trail[k])) # CRef_Undef)
      BY <2>3, <2>8
    <3>2. reason(Var(trail[index]))' = reason(Var(trail[k]))
      BY <1>1, <3>1 DEF reason
    <3> QED
      BY <2>11, <3>1, <3>2
  <2>14. pc' = "learn" => Present(seen)' = {}
    BY <2>9, <2>11
  <2>15. \A y \in seen' : y \in Assigned' /\ (level(y) > 0)'
    BY <2>5
  <2>16. \A q \in Lits : q \in out_learnt' <=>
           IsFalse(q)' /\ Var(q) \in seen' /\ (level(Var(q)) < decisionLevel)'
    BY <2>10
  <2> QED
    BY ONLY <1>g, <2>6, <2>12, <2>13, <2>14, <2>15, <2>16 DEF Analysed
<1> QED
  BY <1>0, <1>3, <1>4

-----------------------------------------------------------------------------
(* The next assumption is a literal. *)
NextFacts ==
  /\ decisionLevel + 1 \in DOMAIN assumptions
  /\ NextAssumption = assumptions[decisionLevel + 1] /\ NextAssumption \in Lits
  /\ Neg(NextAssumption) \in Lits /\ Neg(Neg(NextAssumption)) = NextAssumption
  /\ Var(Neg(NextAssumption)) = Var(NextAssumption)

(* The assumption that search looks at next. *)
LEMMA NextAssumptions ==
  ASSUME IInv, decisionLevel < Len(assumptions) PROVE NextFacts
<1>1. decisionLevel + 1 \in DOMAIN assumptions
  BY TrailFacts DEF IInv, UserTyped
<1>2. NextAssumption = assumptions[decisionLevel + 1] /\ NextAssumption \in Lits
  BY <1>1 DEF NextAssumption, IInv, UserTyped
<1> QED
  BY <1>1, <1>2, LitFacts DEF NextFacts

(* The marks of analyzeFinal, and a conflict made of negated assumptions. *)
LEMMA FinalisedStep ==
  ASSUME IInv, Next PROVE Finalised'
<1>g. SUFFICES ASSUME pc' = "final" PROVE Finalised'
  BY DEF Finalised
<1>0. LevelsFacts /\ (AssumptionFalse \/ FinalStep)
  BY <1>g, Levels, FinalSteps
<1>1. UNCHANGED <<trail, trail_lim, vardata, free_vars, assumptions>>
  BY <1>0 DEF AssumptionFalse, FinalStep, trailVars, userVars
<1>2. /\ Assigned' = Assigned /\ decisionLevel' = decisionLevel
      /\ \A x : level(x)' = level(x)
      /\ NextAssumption' = NextAssumption
  BY <1>1 DEF Assigned, TrueLits, decisionLevel, level, NextAssumption
<1>3. NextFacts /\ IsFalse(NextAssumption)
  BY <1>0, NextAssumptions DEF AssumptionFalse, Pending, FinalStep, IInv, Control
<1>4. CASE AssumptionFalse
  <2>1. /\ conflict' = {Neg(NextAssumption)}
        /\ seen' = (IF decisionLevel = 0 THEN {} ELSE {Var(NextAssumption)})
        /\ index' = Len(trail) + 1
    BY <1>4 DEF AssumptionFalse
  <2>2. Var(NextAssumption) \in Assigned
    <3>1. Neg(NextAssumption) \in TrueLits
      BY <1>3 DEF IsFalse
    <3> QED
      BY <1>3, <3>1 DEF Assigned, NextFacts
  <2>3. \A p \in conflict' : \E j \in DOMAIN assumptions : assumptions[j] = Neg(p)
    BY <1>3, <2>1 DEF NextFacts
  <2>4. \A k \in DOMAIN trail : k < index'
    BY <1>0, <2>1 DEF LevelsFacts
  <2>5. index' <= Len(trail) + 1
    BY <1>0, <2>1 DEF LevelsFacts
  <2> QED
    BY <1>1, <1>2, <2>1, <2>2, <2>3, <2>4, <2>5 DEF Finalised
<1>5. CASE FinalStep
  <2>1. PICK k \in ToVisit :
          /\ \A i \in ToVisit : i <= k
          /\ conflict' = (IF reason(Var(trail[k])) = CRef_Undef THEN conflict \cup {Neg(trail[k])} ELSE conflict)
          /\ seen' = (seen \ {Var(trail[k])}) \cup MarkedBy(reason(Var(trail[k])))
          /\ index' = k
    BY <1>5 DEF FinalStep
  <2>2. Finalised /\ pc = "final"
    BY <1>5 DEF FinalStep, IInv
  <2>3. k \in DOMAIN trail /\ k \in Nat /\ k < index /\ Var(trail[k]) \in seen
    BY <2>2, FinalFacts
  <2>4. index <= Len(trail) + 1 /\ index \in Nat
    BY <2>2 DEF Finalised, IInv, LoopTyped
  <2>5. /\ decisionLevel > 0 /\ Decided = trail_lim[1] /\ 1 \in DOMAIN trail_lim /\ Decided < k
        /\ Decided \in Nat
    <3>1. decisionLevel # 0
      BY <2>2, <2>3 DEF Finalised
    <3>2. 1 \in DOMAIN trail_lim /\ Decided = trail_lim[1]
      BY <1>0, <3>1 DEF LevelsFacts, Decided
    <3>3. Decided \in Nat
      BY <1>0, <3>2 DEF LevelsFacts
    <3> QED
      BY <1>0, <2>3, <2>4, <3>1, <3>2, <3>3 DEF ToVisit, LevelsFacts
  <2>6. level(Var(trail[k])) > 0
    BY <1>0, <2>3, <2>5 DEF LevelsFacts
  <2>7. /\ MarkedBy(reason(Var(trail[k]))) \subseteq Assigned
        /\ \A x \in MarkedBy(reason(Var(trail[k]))) :
              /\ level(x) > 0
              /\ \E i \in 1 .. k - 1 : i \in DOMAIN trail /\ Var(trail[i]) = x
    BY <2>3, MarkedFacts
  <2>8. \A x \in seen' : x \in Assigned /\ (level(x) > 0 \/ x = Var(NextAssumption))
    BY <2>1, <2>2, <2>7 DEF Finalised
  <2>9. ASSUME NEW i \in DOMAIN trail, Var(trail[i]) \in seen' PROVE i < k
    <3>1. CASE Var(trail[i]) \in seen \ {Var(trail[k])}
      <4>1. i # k /\ i < index /\ i \in Nat
        BY <1>0, <2>2, <3>1 DEF Finalised, LevelsFacts
      <4>2. SUFFICES ASSUME k < i PROVE FALSE
        BY <2>3, <4>1
      <4>3. i \in ToVisit
        BY <2>4, <2>5, <2>3, <3>1, <4>1, <4>2 DEF ToVisit
      <4> QED
        BY <2>1, <2>3, <4>1, <4>2, <4>3
    <3>2. CASE Var(trail[i]) \in MarkedBy(reason(Var(trail[k])))
      <4>1. PICK j \in 1 .. k - 1 : j \in DOMAIN trail /\ Var(trail[j]) = Var(trail[i])
        BY <2>7, <3>2
      <4>2. i = j
        BY <1>0, <4>1 DEF LevelsFacts
      <4> QED
        BY <2>3, <4>1, <4>2
    <3> QED
      BY <2>1, <2>9, <3>1, <3>2
  <2>10. ASSUME NEW p \in conflict' PROVE \E j \in DOMAIN assumptions : assumptions[j] = Neg(p)
    <3>1. CASE p \in conflict
      BY <2>2, <3>1 DEF Finalised
    <3>2. CASE p = Neg(trail[k]) /\ reason(Var(trail[k])) = CRef_Undef
      <4>1. Neg(p) = trail[k]
        BY <2>3, <3>2, LitFacts, TrailFacts
      <4>2. level(Var(trail[k])) <= Len(assumptions)
        <5>1. decisionLevel < Len(assumptions) /\ Len(assumptions) \in Nat
          BY <2>2 DEF IInv, Control, UserTyped
        <5>2. level(Var(trail[k])) \in 0 .. decisionLevel /\ decisionLevel \in Nat
          BY <1>0, <2>3 DEF LevelsFacts
        <5> QED
          BY <5>1, <5>2
      <4>3. OpenedIn(trail, trail_lim, vardata, assumptions)
        BY DEF IInv, Opened
      <4>4. \E j \in DOMAIN assumptions : assumptions[j] = trail[k]
        BY <2>3, <2>6, <3>2, <4>2, <4>3 DEF OpenedIn, level, reason
      <4> QED
        BY <4>1, <4>4
    <3> QED
      BY <2>1, <2>10, <3>1, <3>2
  <2>11. Neg(NextAssumption) \in conflict'
    BY <2>1, <2>2 DEF Finalised
  <2>12. index' <= Len(trail) + 1
    BY <2>1, <2>3, <2>4
  <2>13. \A i \in DOMAIN trail : Var(trail[i]) \in seen' => i < index'
    BY <2>1, <2>9
  <2>14. ~(decisionLevel' = 0)
    BY <1>2, <2>5
  <2> QED
    BY <1>1, <1>2, <2>8, <2>10, <2>11, <2>12, <2>13, <2>14 DEF Finalised
<1> QED
  BY <1>0, <1>4, <1>5

-----------------------------------------------------------------------------
(* What Learn does to the clauses and to the trail. *)
LearntUnit(p) == Asserted(0, p, CRef_Undef) /\ UNCHANGED <<ca, dbVars, watches, dirty>>
(* A clause of kept and p, which watches p and q. *)
LearntClause(p, q, kept) ==
  /\ kept \subseteq out_learnt /\ q \in kept
  /\ \A r \in kept : level(Var(r)) <= level(Var(q))
  /\ kept = {l \in out_learnt : ~Redundant(l)}
  /\ Asserted(level(Var(q)), p, Fresh)
  /\ Attached([w0 |-> p, w1 |-> q, rest |-> kept \ {q}, learnt |-> TRUE, mark |-> FALSE])
  /\ learnts' = learnts \cup {Fresh}
  /\ [w0 |-> p, w1 |-> q, rest |-> kept \ {q}, learnt |-> TRUE, mark |-> FALSE] \in Clause
(* The literal that the learnt clause asserts. *)
Asserting == Neg(trail[index])

(* search records a single literal, or a clause whose second literal is of
   the greatest level. *)
LEMMA LearnCases ==
  ASSUME IInv, Learn
  PROVE  \/ LearntUnit(Asserting) /\ {l \in out_learnt : ~Redundant(l)} = {}
         \/ \E q, kept : LearntClause(Asserting, q, kept)
<1> DEFINE p == Neg(trail[index])
           kept == {l \in out_learnt : ~Redundant(l)}
<1>1. pc = "learn" /\ p \in Lits /\ decisionLevel \in Nat /\ decisionLevel > 0
  BY LearntFacts DEF Learn
<1>2. CASE kept = {}
  <2>1. LearnUnit(p) /\ UNCHANGED clauses
    BY <1>2 DEF Learn
  <2>2. Asserted(0, p, CRef_Undef)
    BY <1>1, <2>1 DEF Asserted, AfterConflict, CRef_Undef, LearnUnit
  <2>3. UNCHANGED <<ca, dbVars, watches, dirty>>
    BY <2>1 DEF LearnUnit, memVars, dbVars
  <2> QED
    BY <1>2, <2>2, <2>3 DEF LearntUnit, Asserting
<1>3. CASE kept # {}
  <2>1. LearnClause(p, kept) /\ UNCHANGED clauses
    BY <1>3 DEF Learn
  <2>2. PICK q \in SecondWatch(kept) :
          /\ Attach([w0 |-> p, w1 |-> q, rest |-> kept \ {q}, learnt |-> TRUE, mark |-> FALSE])
          /\ AfterConflict(level(Var(q)), p, Fresh)
    BY <2>1 DEF LearnClause
  <2>3. q \in kept /\ q \in out_learnt /\ \A r \in kept : level(Var(r)) <= level(Var(q))
    BY DEF SecondWatch
  <2>4. level(Var(q)) \in 0 .. decisionLevel - 1
    BY <1>1, <2>3, LearntFacts
  <2>5. Fresh \in Nat
    BY FreshFacts DEF IInv, CRefs
  <2>6. Asserted(level(Var(q)), p, Fresh)
    BY <1>1, <2>2, <2>4, <2>5 DEF Asserted, AfterConflict
  <2> DEFINE c == [w0 |-> p, w1 |-> q, rest |-> kept \ {q}, learnt |-> TRUE, mark |-> FALSE]
  <2>7. c \in Clause /\ Distinct(c) /\ ~c.mark /\ Known(LitsOf(c))
    BY <1>1, <2>3, LearnAttaches
  <2>8. learnts' = learnts \cup {Fresh}
    BY <2>1 DEF LearnClause
  <2>9. Attached(c)
    BY <2>1, <2>2, <2>7, <2>8 DEF Attached
  <2>10. kept \subseteq out_learnt /\ kept = {l \in out_learnt : ~Redundant(l)}
    OBVIOUS
  <2> HIDE DEF p, kept
  <2>11. LearntClause(p, q, kept)
    BY <2>3, <2>6, <2>7, <2>8, <2>9, <2>10 DEF LearntClause
  <2> QED
    BY <2>11 DEF Asserting, p
<1> QED
  BY <1>2, <1>3

-----------------------------------------------------------------------------
(* Where the literals of a learnt clause stand on the trail. *)
LEMMA LearntPlaces ==
  ASSUME IInv, NEW p, NEW q, NEW kept, LearntClause(p, q, kept)
  PROVE  /\ level(Var(q)) \in 1 .. decisionLevel - 1 /\ q \in Lits /\ pc = "learn"
         /\ \A r \in kept : \E i \in 1 .. Cut(level(Var(q))) :
              i \in DOMAIN trail /\ trail[i] = Neg(r) /\ level(Var(trail[i])) = level(Var(r))
<1>1. /\ kept \subseteq out_learnt /\ q \in kept /\ pc = "learn"
      /\ \A r \in kept : level(Var(r)) <= level(Var(q))
  BY DEF LearntClause, Asserted
<1>2. \A r \in kept : /\ r \in Lits /\ IsFalse(r) /\ level(Var(r)) < decisionLevel
                      /\ level(Var(r)) \in Nat /\ level(Var(r)) > 0
  BY <1>1, LearntFacts
<1>3. LevelsFacts
  BY Levels
<1>4. level(Var(q)) \in 1 .. decisionLevel - 1
  BY <1>1, <1>2, <1>3 DEF LevelsFacts
<1>5. KFacts(level(Var(q)))
  <2>1. level(Var(q)) \in 0 .. decisionLevel
    BY <1>3, <1>4 DEF LevelsFacts
  <2> QED
    BY <2>1, KeptFacts
<1>6. ASSUME NEW r \in kept
      PROVE  \E i \in 1 .. Cut(level(Var(q))) :
               i \in DOMAIN trail /\ trail[i] = Neg(r) /\ level(Var(trail[i])) = level(Var(r))
  <2>1. Neg(r) \in Lits /\ IsTrue(Neg(r)) /\ Var(Neg(r)) = Var(r)
    BY <1>2, LitFacts DEF IsFalse, IsTrue
  <2>2. PICK i \in DOMAIN trail : trail[i] = Neg(r)
    BY <2>1, TrailFacts
  <2>3. level(Var(trail[i])) <= level(Var(q))
    BY <1>1, <2>1, <2>2
  <2>4. i <= Cut(level(Var(q))) /\ i \in 1 .. Len(trail) /\ Cut(level(Var(q))) \in 0 .. Len(trail)
    BY <1>3, <1>5, <2>2, <2>3 DEF KFacts, LevelsFacts
  <2>5. i \in 1 .. Cut(level(Var(q)))
    BY <1>3, <2>4 DEF LevelsFacts
  <2> QED
    BY <2>1, <2>2, <2>5
<1> QED
  BY <1>1, <1>2, <1>4, <1>6

(* Where cancelUntil cuts, in terms of trail_lim. *)
LEMMA LastCut ==
  ASSUME IInv, NEW bt \in 0 .. decisionLevel - 1
  PROVE  /\ bt + 1 \in DOMAIN trail_lim /\ Cut(bt) = trail_lim[bt + 1]
         /\ DOMAIN SubSeq(trail_lim, 1, bt) = 1 .. bt
         /\ \A i \in 1 .. bt : SubSeq(trail_lim, 1, bt)[i] = trail_lim[i] /\ i \in DOMAIN trail_lim
                               /\ trail_lim[i] <= Cut(bt)
<1>1. LevelsFacts /\ trail_lim \in Seq(Nat) /\ decisionLevel = Len(trail_lim)
  BY Levels, TrailFacts
<1>2. bt + 1 \in DOMAIN trail_lim /\ Cut(bt) = trail_lim[bt + 1] /\ bt \in 0 .. Len(trail_lim)
  BY <1>1 DEF LevelsFacts, Cut
<1>3. DOMAIN SubSeq(trail_lim, 1, bt) = 1 .. bt
      /\ \A i \in 1 .. bt : SubSeq(trail_lim, 1, bt)[i] = trail_lim[i] /\ i \in DOMAIN trail_lim
  BY <1>1, <1>2, Shortened
<1>4. \A i \in 1 .. bt : trail_lim[i] <= Cut(bt)
  <2>1. ASSUME NEW i \in 1 .. bt PROVE trail_lim[i] <= trail_lim[bt + 1]
    <3>1. i <= bt + 1 /\ i \in DOMAIN trail_lim
      BY <1>3
    <3> QED
      BY <1>1, <1>2, <3>1 DEF LevelsFacts
  <2> QED
    BY <1>2, <2>1
<1> QED
  BY <1>2, <1>3, <1>4

(* While literals are propagated the present level has one, and those that
   wait are its own. *)
LEMMA QueuedStep ==
  ASSUME IInv, Next PROVE Queued'
<1>g. SUFFICES ASSUME pc' = "propagate" PROVE Queued'
  BY DEF Queued
<1>0. /\ LevelsFacts /\ Control /\ Queued /\ qhead \in 0 .. Len(trail)
      /\ trail_lim \in Seq(Nat) /\ decisionLevel = Len(trail_lim)
  BY Levels, TrailFacts DEF IInv, TrailTyped
<1>1. CASE Solve \/ AddUnit
  <2>1. decisionLevel = 0 /\ trail_lim' = trail_lim
    BY <1>0, <1>1 DEF Solve, AddUnit, AddCall, Called, trailVars, Control, Idle
  <2>2. DOMAIN trail_lim' = {}
    BY <1>0, <2>1 DEF LevelsFacts
  <2> QED
    BY <2>2 DEF Queued
<1>2. CASE Restart
  <2>1. Returned
    BY <1>2, ReturnFacts DEF Restart
  <2>2. trail_lim' \in Seq(Nat) /\ Len(trail_lim') = 0
    <3>1. CFacts(0)
      BY <2>1, CutFacts DEF Returned
    <3> QED
      BY <3>1 DEF CFacts
  <2> QED
    BY <2>2 DEF Queued
<1>3. CASE NextFact
  <2>1. /\ pc = "propagate" /\ qhead < Len(trail) /\ qhead' = qhead + 1
        /\ UNCHANGED <<trail, trail_lim>>
    BY <1>3 DEF NextFact
  <2>2. \A i \in DOMAIN trail_lim : trail_lim[i] < Len(trail) /\ trail_lim[i] <= qhead /\ trail_lim[i] \in Nat
    BY <1>0, <2>1 DEF Queued, LevelsFacts
  <2>3. \A i \in DOMAIN trail_lim : trail_lim[i] < qhead + 1
    BY <1>0, <2>2 DEF LevelsFacts
  <2> QED
    BY <1>0, <2>1, <2>2, <2>3 DEF Queued
<1>4. CASE Blocked \/ FirstTrue \/ MoveWatch \/ Imply
  <2>1. /\ pc = "propagate" /\ UNCHANGED <<qhead, trail_lim>> /\ (todo' # {} => todo # {})
    BY <1>4 DEF Blocked, FirstTrue, MoveWatch, Imply, Visit
  <2>2. \A i \in DOMAIN trail_lim : /\ trail_lim[i] < Len(trail) /\ trail_lim[i] <= qhead /\ trail_lim[i] \in Nat
                                    /\ todo # {} => trail_lim[i] < qhead
    BY <1>0, <2>1 DEF Queued, LevelsFacts
  <2>3. Len(trail') >= Len(trail) /\ Len(trail') \in Nat
    <3>1. CASE Imply
      <4>1. PICK p, from : Pushed(p, from)
        BY <3>1, ImplyPushes
      <4>2. GFacts(p, from, decisionLevel)
        BY <4>1, PushGrows, GrownFacts
      <4> QED
        BY <1>0, <4>2 DEF GFacts, LevelsFacts
    <3>2. CASE ~Imply
      <4>1. trail' = trail
        BY <1>4, <3>2 DEF Blocked, FirstTrue, MoveWatch
      <4> QED
        BY <1>0, <4>1 DEF LevelsFacts
    <3> QED
      BY <3>1, <3>2
  <2> QED
    BY <1>0, <2>1, <2>2, <2>3 DEF Queued, LevelsFacts
<1>5. CASE Learn
  <2>1. PICK bt, p, from : AfterConflict(bt, p, from) /\ Asserted(bt, p, from)
    BY <1>5, LearnCuts
  <2>2. AFacts(bt, p, from)
    BY <2>1, AssertFacts
  <2>3. /\ bt \in 0 .. decisionLevel - 1 /\ Len(trail') = Cut(bt) + 1 /\ Cut(bt) \in 0 .. Len(trail)
    BY <2>2 DEF AFacts
  <2>4. qhead' = Cut(bt)
    BY <1>0, <2>1, <2>3 DEF AfterConflict, QheadAfter, LevelsFacts
  <2>5. trail_lim' = SubSeq(trail_lim, 1, bt)
    BY <2>1 DEF Asserted
  <2>6. DOMAIN trail_lim' = 1 .. bt /\ \A i \in 1 .. bt : trail_lim'[i] <= Cut(bt) /\ trail_lim'[i] \in Nat
    BY <1>0, <2>3, <2>5, LastCut DEF LevelsFacts
  <2>7. todo' = {}
    BY <1>0, <1>5 DEF Learn, Control
  <2> QED
    BY <1>0, <2>3, <2>4, <2>6, <2>7 DEF Queued, LevelsFacts
<1>6. CASE Assume \/ Branch
  <2>1. pc = "pick" /\ todo' = todo /\ qhead' = qhead
    BY <1>6 DEF Assume, Branch, Pending
  <2>2. todo' = {} /\ qhead' = Len(trail)
    BY <1>0, <2>1 DEF Control
  <2>3. PICK p : DecidedOn(p)
    BY <1>6, AssumeDecides, BranchDecides
  <2>4. GFacts(p, CRef_Undef, decisionLevel + 1) /\ trail_lim' = Append(trail_lim, Len(trail))
    BY <2>3, DecideGrows, GrownFacts DEF newDecisionLevel
  <2>5. Len(trail') = Len(trail) + 1
    BY <2>4 DEF GFacts
  <2>6. /\ DOMAIN trail_lim' = 1 .. Len(trail_lim) + 1
        /\ \A i \in 1 .. Len(trail_lim) : trail_lim'[i] = trail_lim[i]
        /\ trail_lim'[Len(trail_lim) + 1] = Len(trail)
    BY <1>0, <2>4, Appended DEF LevelsFacts
  <2>7. \A i \in DOMAIN trail_lim' : trail_lim'[i] <= Len(trail) /\ trail_lim'[i] \in Nat
    BY <1>0, <2>6 DEF LevelsFacts
  <2> QED
    BY <1>0, <2>2, <2>5, <2>7 DEF Queued, LevelsFacts
<1>7. Solve \/ AddUnit \/ Restart \/ NextFact \/ Blocked \/ FirstTrue \/ MoveWatch \/ Imply \/ Learn
      \/ Assume \/ Branch
  BY <1>g, NoRelease DEF IInv, Control, Idle, Next, user, solver, propagate, analyze, search,
   newVar, AddNothing, AddEmpty, AddUnit, AddLong, AddCall, SimplifySkipped, SimplifyCall, Called,
   SolveDead, Propagated, Clash,
   RootConflict, Resolve, Interrupted, NotSimplified, reduceDB, NotReduced, simplify,
   DummyLevel, AssumptionFalse, FinalStep, FinalDone, ModelFound, Return, Pending
<1> QED
  BY <1>1, <1>2, <1>3, <1>4, <1>5, <1>6, <1>7

-----------------------------------------------------------------------------
(* At level 0 nothing is asked of literals without a reason. *)
LEMMA RootOpened ==
  ASSUME NEW tr, NEW lim, NEW data, NEW as, \A k \in DOMAIN tr : ~(data[Var(tr[k])].level > 0)
  PROVE  OpenedIn(tr, lim, data, as)
BY DEF OpenedIn

(* A step that removes clauses keeps the reasons of every level but the first. *)
LEMMA RemovedReasons ==
  ASSUME IInv, NEW gone \in SUBSET Live, NEW short \in SUBSET Live, Removed(gone, short),
         decisionLevel = 0 \/ gone \subseteq Removable
  PROVE  \A k \in DOMAIN trail : vardata'[Var(trail[k])].level > 0 =>
           vardata'[Var(trail[k])] = vardata[Var(trail[k])]
<1>0. LevelsFacts
  BY Levels
<1>1. UFacts(gone)
  BY UnlockedFacts
<1>2. SUFFICES ASSUME NEW k \in DOMAIN trail, vardata'[Var(trail[k])].level > 0
               PROVE  vardata'[Var(trail[k])] = vardata[Var(trail[k])]
  OBVIOUS
<1>3. Var(trail[k]) \in Assigned /\ vardata'[Var(trail[k])].level = level(Var(trail[k]))
  BY <1>1, TrailFacts DEF UFacts, level
<1>4. level(Var(trail[k])) \in 0 .. decisionLevel
  BY <1>0 DEF LevelsFacts
<1>5. gone \subseteq Removable
  BY <1>2, <1>3, <1>4
<1>6. ~\E cr \in gone : locked(cr) /\ Var(ca[cr].w0) = Var(trail[k])
  BY <1>5 DEF Removable
<1> QED
  BY <1>1, <1>3, <1>6 DEF UFacts

(* Clauses are removed at level 0, or they are no reasons. *)
LEMMA RemovingSteps ==
  ASSUME IInv, simplify \/ SimplifyCall \/ reduceDB
  PROVE  \E gone, short \in SUBSET Live : Removed(gone, short) /\ (decisionLevel = 0 \/ gone \subseteq Removable)
<1>1. CASE simplify
  BY <1>1, SimplifyRemoves DEF simplify
<1>2. CASE SimplifyCall
  <2>1. decisionLevel = 0
    BY <1>2 DEF SimplifyCall, Called, IInv, Control, Idle
  <2> QED
    BY <1>2, <2>1, SimplifyRemoves DEF SimplifyCall
<1>3. CASE reduceDB
  <2>1. PICK gone \in SUBSET Removable :
          /\ checkGarbage([cr \in DOMAIN ca |->
                            IF cr \in gone THEN [ca[cr] EXCEPT !.mark = TRUE] ELSE ca[cr]],
                          dirty \cup Smudged(gone))
          /\ vardata' = Unlocked(gone)
          /\ learnts' = learnts \ gone
    BY <1>3 DEF reduceDB
  <2>2. gone \subseteq Live /\ gone \subseteq learnts
    BY DEF Removable, Live
  <2>3. UNCHANGED <<clauses, trail, trail_lim>>
    BY <1>3 DEF reduceDB
  <2>4. clauses \cap gone = {} /\ clauses' = clauses \ gone
    BY <2>2, <2>3 DEF IInv, Stored
  <2>5. [cr \in DOMAIN ca |-> IF cr \in gone THEN [ca[cr] EXCEPT !.mark = TRUE] ELSE ca[cr]]
        = [cr \in DOMAIN ca |->
             IF cr \in gone THEN [ca[cr] EXCEPT !.mark = TRUE]
             ELSE IF cr \in {} THEN Trimmed(ca[cr]) ELSE ca[cr]]
    OBVIOUS
  <2>6. Removed(gone, {})
    BY <2>1, <2>2, <2>3, <2>4, <2>5 DEF Removed
  <2> QED
    BY <2>2, <2>6
<1> QED
  BY <1>1, <1>2, <1>3

(* Cutting the trail back, with what is known of the levels that are kept. *)
LEMMA CutOpenedNow ==
  ASSUME IInv, NEW lev \in 0 .. decisionLevel, NEW data2,
         \A k \in 1 .. Cut(lev) : data2[Var(trail[k])] = vardata[Var(trail[k])]
  PROVE  OpenedIn(SubSeq(trail, 1, Cut(lev)), SubSeq(trail_lim, 1, lev), data2, assumptions)
<1>0. /\ OpenedIn(trail, trail_lim, vardata, assumptions)
      /\ OrderedIn(trail, trail_lim, vardata)
      /\ trail_lim \in Seq(Nat) /\ decisionLevel = Len(trail_lim) /\ trail \in Seq(Lits)
  BY TrailFacts DEF IInv, Opened, Ordered
<1> DEFINE n == Cut(lev)
<1>1. n = IF Len(trail_lim) > lev THEN trail_lim[lev + 1] ELSE Len(trail)
  BY <1>0 DEF Cut
<1>2. lev \in 0 .. Len(trail_lim)
  BY <1>0
<1>3. n \in 0 .. Len(trail)
  BY KeptFacts DEF KFacts
<1>4. \A k \in 1 .. n : data2[Var(trail[k])] = vardata[Var(trail[k])]
  OBVIOUS
<1> HIDE DEF n
<1>5. OpenedIn(SubSeq(trail, 1, n), SubSeq(trail_lim, 1, lev), data2, assumptions)
  BY <1>0, <1>1, <1>2, <1>3, <1>4, CutOpened
<1> QED
  BY <1>5 DEF n

(* cancelUntil(0) by itself. *)
LEMMA CutBackOpened ==
  ASSUME IInv, NEW lev, CutBack(lev)
  PROVE  OpenedIn(trail', trail_lim', vardata', assumptions)
<1>1. CFacts(lev) /\ lev \in 0 .. decisionLevel
      /\ trail' = SubSeq(trail, 1, Cut(lev)) /\ trail_lim' = SubSeq(trail_lim, 1, lev)
  BY CutFacts DEF CutBack
<1>2. \A k \in 1 .. Cut(lev) : vardata'[Var(trail[k])] = vardata[Var(trail[k])]
  BY <1>1 DEF CFacts
<1> QED
  BY <1>1, <1>2, CutOpenedNow

(* The literal asserted after a conflict has a reason unless it is of level
   0. *)
LEMMA LearnOpened ==
  ASSUME IInv, Learn
  PROVE  OpenedIn(trail', trail_lim', vardata', assumptions)
<1>1. ASSUME NEW bt, NEW p, NEW from, Asserted(bt, p, from),
             bt > 0 => /\ from # CRef_Undef
                       /\ \E i \in 1 .. Cut(bt) : i \in DOMAIN trail /\ level(Var(trail[i])) = bt
      PROVE  OpenedIn(trail', trail_lim', vardata', assumptions)
  <2>1. AFacts(bt, p, from)
    BY <1>1, AssertFacts
  <2>2. LevelsFacts /\ trail \in Seq(Lits) /\ trail_lim \in Seq(Nat) /\ decisionLevel = Len(trail_lim)
    BY Levels, TrailFacts
  <2>3. bt \in 0 .. decisionLevel - 1 /\ p \in Lits /\ Cut(bt) \in 0 .. Len(trail)
    BY <2>1 DEF AFacts
  <2>4. bt \in 0 .. decisionLevel
    BY <2>2, <2>3 DEF LevelsFacts
  <2>5. \A k \in 1 .. Cut(bt) : vardata'[Var(trail[k])] = vardata[Var(trail[k])]
    BY <2>1 DEF AFacts
  <2> DEFINE tr == SubSeq(trail, 1, Cut(bt))
             lim == SubSeq(trail_lim, 1, bt)
             data2 == vardata'
  <2>6. OpenedIn(tr, lim, data2, assumptions)
    BY <2>4, <2>5, CutOpenedNow
  <2>7. trail' = Append(tr, p) /\ trail_lim' = lim
    BY <1>1 DEF Asserted
  <2>8. tr \in Seq(Lits) /\ Len(tr) = Cut(bt)
    BY <2>2, <2>3, Shortened
  <2>9. lim \in Seq(Nat)
    BY <2>2, <2>4, Shortened
  <2>10. data2[Var(p)] = [reason |-> from, level |-> bt]
    BY <2>1 DEF AFacts
  <2>11. bt > 0 => ~\E i \in DOMAIN lim : lim[i] = Cut(bt)
    <3>1. SUFFICES ASSUME bt > 0, NEW i \in DOMAIN lim, lim[i] = Cut(bt) PROVE FALSE
      OBVIOUS
    <3>2. PICK k \in 1 .. Cut(bt) : k \in DOMAIN trail /\ level(Var(trail[k])) = bt
      BY <1>1, <3>1
    <3>3. i \in 1 .. bt /\ i \in DOMAIN trail_lim /\ lim[i] = trail_lim[i]
      BY <2>3, LastCut
    <3>a. i <= level(Var(trail[k])) /\ k \in DOMAIN trail
      BY <3>2, <3>3
    <3>4. trail_lim[i] < k
      BY <2>2, <3>a, <3>3 DEF LevelsFacts
    <3> QED
      BY <2>2, <2>3, <3>1, <3>2, <3>3, <3>4 DEF LevelsFacts
  <2> HIDE DEF tr, lim, data2
  <2>12. /\ \A k \in DOMAIN tr : data2[Var(tr[k])] = data2[Var(tr[k])]
         /\ data2[Var(p)].level > 0 =>
               /\ data2[Var(p)].reason = CRef_Undef <=> \E i \in DOMAIN lim : lim[i] = Len(tr)
               /\ data2[Var(p)].reason = CRef_Undef /\ data2[Var(p)].level <= Len(assumptions) =>
                    \E j \in DOMAIN assumptions : assumptions[j] = p
    BY <1>1, <2>8, <2>10, <2>11
  <2>13. OpenedIn(Append(tr, p), lim, data2, assumptions)
    BY <2>3, <2>6, <2>8, <2>9, <2>12, PushOpened
  <2> QED
    BY <2>7, <2>13 DEF data2
<1>2. CASE LearntUnit(Asserting)
  BY <1>1, <1>2 DEF LearntUnit
<1>3. ASSUME NEW q, NEW kept, LearntClause(Asserting, q, kept)
      PROVE  OpenedIn(trail', trail_lim', vardata', assumptions)
  <2>1. Asserted(level(Var(q)), Asserting, Fresh) /\ q \in kept
    BY <1>3 DEF LearntClause
  <2>2. Fresh # CRef_Undef
    BY FreshFacts DEF IInv, CRefs
  <2>3. \E i \in 1 .. Cut(level(Var(q))) : i \in DOMAIN trail /\ level(Var(trail[i])) = level(Var(q))
    BY <1>3, <2>1, LearntPlaces
  <2> QED
    BY <1>1, <2>1, <2>2, <2>3
<1> QED
  BY <1>2, <1>3, LearnCases

(* Above level 0 literals without a reason open a level, and the first
   levels open with assumptions. *)
LEMMA OpenedStep ==
  ASSUME IInv, Next PROVE Opened'
<1>g. SUFFICES OpenedIn(trail', trail_lim', vardata', assumptions')
  BY DEF Opened
<1>0. /\ LevelsFacts /\ Control /\ OpenedIn(trail, trail_lim, vardata, assumptions)
      /\ OrderedIn(trail, trail_lim, vardata)
      /\ trail_lim \in Seq(Nat) /\ decisionLevel = Len(trail_lim) /\ trail \in Seq(Lits)
  BY Levels, TrailFacts DEF IInv, Opened, Ordered
<1>1. CASE Solve
  <2>1. decisionLevel = 0 /\ UNCHANGED <<trail, vardata>>
    BY <1>0, <1>1 DEF Solve, Called, Control, Idle, trailVars
  <2>2. \A k \in DOMAIN trail : ~(vardata[Var(trail[k])].level > 0)
    BY <1>0, <2>1 DEF LevelsFacts, level
  <2> QED
    BY <2>1, <2>2, RootOpened
<1>2. CASE ~Solve
  <2>0. assumptions' = assumptions
    BY <1>2, NoRelease DEF IInv, Next, user, solver, propagate, analyze, search,
       newVar, AddNothing, AddEmpty, AddUnit, AddLong, AddCall, SimplifySkipped,
       SimplifyCall, Simplified, simplify,
       SolveDead, NextFact, Blocked, FirstTrue, MoveWatch, Imply, Clash, Visit, Propagated,
       RootConflict, Resolve, Learn, Restart, Interrupted, NotSimplified, reduceDB, NotReduced,
       DummyLevel, Assume, AssumptionFalse, FinalStep, FinalDone, Branch, ModelFound, Return, userVars
  <2>1. CASE UNCHANGED <<trail, trail_lim, vardata>>
    BY <1>0, <2>0, <2>1
  <2>2. ASSUME NEW p, NEW from, Pushed(p, from),
               decisionLevel > 0 => from # CRef_Undef /\ pc = "propagate"
        PROVE  OpenedIn(trail', trail_lim', vardata', assumptions')
    <3>1. Grown(p, from, decisionLevel) /\ trail_lim' = trail_lim
      BY <2>2, PushGrows
    <3>2. GFacts(p, from, decisionLevel)
      BY <3>1, GrownFacts
    <3>3. /\ \A k \in DOMAIN trail : vardata'[Var(trail[k])] = vardata[Var(trail[k])]
          /\ vardata'[Var(p)].level = decisionLevel /\ vardata'[Var(p)].reason = from
      BY <3>2, TrailFacts DEF GFacts
    <3>4. decisionLevel > 0 => ~\E i \in DOMAIN trail_lim : trail_lim[i] = Len(trail)
      BY <1>0, <2>2 DEF IInv, Queued, LevelsFacts
    <3>5. p \in Lits /\ trail' = Append(trail, p)
      BY <3>1 DEF Grown
    <3> DEFINE data2 == vardata'
    <3>6. /\ \A k \in DOMAIN trail : data2[Var(trail[k])] = vardata[Var(trail[k])]
          /\ data2[Var(p)].level > 0 =>
               /\ data2[Var(p)].reason = CRef_Undef <=> \E i \in DOMAIN trail_lim : trail_lim[i] = Len(trail)
               /\ data2[Var(p)].reason = CRef_Undef /\ data2[Var(p)].level <= Len(assumptions) =>
                    \E j \in DOMAIN assumptions : assumptions[j] = p
      BY <2>2, <3>3, <3>4
    <3> HIDE DEF data2
    <3>7. OpenedIn(Append(trail, p), trail_lim, data2, assumptions)
      BY <1>0, <3>5, <3>6, PushOpened
    <3> QED
      BY <2>0, <3>1, <3>5, <3>7 DEF data2
  <2>3. ASSUME NEW p, DecidedOn(p),
               decisionLevel + 1 <= Len(assumptions) => \E j \in DOMAIN assumptions : assumptions[j] = p
        PROVE  OpenedIn(trail', trail_lim', vardata', assumptions')
    <3>1. Grown(p, CRef_Undef, decisionLevel + 1) /\ trail_lim' = Append(trail_lim, Len(trail))
      BY <2>3, DecideGrows DEF newDecisionLevel
    <3>2. GFacts(p, CRef_Undef, decisionLevel + 1)
      BY <3>1, GrownFacts
    <3>3. /\ \A k \in DOMAIN trail : vardata'[Var(trail[k])] = vardata[Var(trail[k])]
          /\ vardata'[Var(p)].level = decisionLevel + 1 /\ vardata'[Var(p)].reason = CRef_Undef
      BY <3>2, TrailFacts DEF GFacts
    <3> DEFINE lim2 == Append(trail_lim, Len(trail))
               data2 == vardata'
    <3>4. /\ lim2 \in Seq(Nat) /\ DOMAIN lim2 = 1 .. Len(trail_lim) + 1
          /\ lim2[Len(trail_lim) + 1] = Len(trail)
      BY <1>0, Appended DEF LevelsFacts
    <3>5. \E i \in DOMAIN lim2 : lim2[i] = Len(trail)
      BY <1>0, <3>4 DEF LevelsFacts
    <3>6. OpenedIn(trail, lim2, vardata, assumptions)
      BY <1>0, LevelOpened
    <3>7. p \in Lits /\ trail' = Append(trail, p)
      BY <3>1 DEF Grown
    <3> HIDE DEF lim2
    <3>8. /\ \A k \in DOMAIN trail : data2[Var(trail[k])] = vardata[Var(trail[k])]
          /\ data2[Var(p)].level > 0 =>
               /\ data2[Var(p)].reason = CRef_Undef <=> \E i \in DOMAIN lim2 : lim2[i] = Len(trail)
               /\ data2[Var(p)].reason = CRef_Undef /\ data2[Var(p)].level <= Len(assumptions) =>
                    \E j \in DOMAIN assumptions : assumptions[j] = p
      BY <2>3, <3>3, <3>5
    <3> HIDE DEF data2
    <3>9. OpenedIn(Append(trail, p), lim2, data2, assumptions)
      BY <1>0, <3>4, <3>6, <3>7, <3>8, PushOpened
    <3> QED
      BY <2>0, <3>1, <3>7, <3>9 DEF data2, lim2
  <2>4. CASE newDecisionLevel /\ UNCHANGED <<trail, vardata>>
    BY <1>0, <2>0, <2>4, LevelOpened DEF newDecisionLevel
  <2>5. ASSUME NEW lev, CutBack(lev)
        PROVE  OpenedIn(trail', trail_lim', vardata', assumptions')
    BY <1>0, <2>0, <2>5, CutBackOpened
  <2>6. ASSUME Learn PROVE OpenedIn(trail', trail_lim', vardata', assumptions')
    BY <2>0, <2>6, LearnOpened
  <2>7. ASSUME NEW gone \in SUBSET Live, NEW short \in SUBSET Live, Removed(gone, short),
               decisionLevel = 0 \/ gone \subseteq Removable
        PROVE  OpenedIn(trail', trail_lim', vardata', assumptions')
    <3>1. \A k \in DOMAIN trail : vardata'[Var(trail[k])].level > 0 =>
             vardata'[Var(trail[k])] = vardata[Var(trail[k])]
      BY <2>7, RemovedReasons
    <3>2. trail' = trail /\ trail_lim' = trail_lim
      BY <2>7 DEF Removed
    <3>3. OpenedIn(trail, trail_lim, vardata', assumptions)
      BY <1>0, <3>1, KeptOpened
    <3> QED
      BY <2>0, <3>2, <3>3
  <2>8. CASE AddUnit
    <3>1. decisionLevel = 0
      BY <1>0, <2>8 DEF AddUnit, AddCall, Called, Control, Idle
    <3> QED
      BY <1>0, <2>2, <2>8, <3>1, AddUnitPushes
  <2>9. CASE Imply
    <3>1. PICK w \in todo : Rewritten(w) /\ Pushed(First(ca[w.cref]), w.cref)
      BY <2>9, ImplyPushes
    <3>2. VFacts(w) /\ pc = "propagate"
      BY <2>9, VisitFacts DEF Imply
    <3>3. w.cref # CRef_Undef
      BY <3>2 DEF VFacts, CRefs
    <3> QED
      BY <2>2, <3>1, <3>2, <3>3
  <2>10. CASE Assume
    <3>1. DecidedOn(NextAssumption) /\ decisionLevel + 1 \in DOMAIN assumptions
      BY <2>10, AssumeDecides
    <3> QED
      BY <2>3, <3>1 DEF NextAssumption
  <2>11. CASE Branch
    <3>1. decisionLevel >= Len(assumptions) /\ \E p : DecidedOn(p)
      BY <2>11, BranchDecides DEF Branch
    <3>2. ~(decisionLevel + 1 <= Len(assumptions))
      <4>1. Len(assumptions) \in Nat /\ decisionLevel \in Nat
        BY <1>0 DEF IInv, UserTyped, LevelsFacts
      <4> QED
        BY <3>1, <4>1
    <3> QED
      BY <2>3, <3>1, <3>2
  <2>12. CASE SolveDead \/ RootConflict \/ Restart \/ Interrupted \/ FinalDone \/ ModelFound
    <3>1. \E heap : cancelUntil(0, heap)
      BY <2>12 DEF SolveDead, RootConflict, Restart, Interrupted, FinalDone, ModelFound, Return
    <3>2. CutBack(0)
      BY <3>1, ReturnFacts DEF Returned
    <3> QED
      BY <2>5, <3>2
  <2>13. CASE simplify \/ SimplifyCall \/ reduceDB
    BY <2>7, <2>13, RemovingSteps
  <2>14. CASE DummyLevel
    BY <2>4, <2>14 DEF DummyLevel
  <2>15. CASE \/ newVar \/ AddNothing \/ AddEmpty \/ AddLong \/ SimplifySkipped
             \/ NextFact \/ Blocked \/ FirstTrue \/ MoveWatch \/ Clash \/ Propagated
             \/ Resolve \/ NotSimplified \/ NotReduced \/ AssumptionFalse \/ FinalStep
    <3>1. UNCHANGED <<trail, trail_lim, vardata>>
      BY <2>15 DEF newVar, AddNothing, AddEmpty, AddLong, AddCall, SimplifySkipped, NextFact,
         Blocked, FirstTrue, MoveWatch, Clash, Visit, Propagated, Resolve, NotSimplified, NotReduced,
         AssumptionFalse, FinalStep, trailVars
    <3> QED
      BY <2>1, <3>1
  <2> QED
    BY <1>2, <2>6, <2>8, <2>9, <2>10, <2>11, <2>12, <2>13, <2>14, <2>15, NoRelease
       DEF IInv, Next, user, solver, propagate, analyze, search
<1> QED
  BY <1>1, <1>2

-----------------------------------------------------------------------------
(* A true literal is not the false one that is being replaced. *)
LEMMA TrueNotFalse ==
  ASSUME IInv, pc = "propagate", NEW w \in todo, NEW k \in DOMAIN trail, ca[w.cref].w0 = trail[k]
  PROVE  First(ca[w.cref]) = trail[k]
<1>1. Neg(false_lit) = trail[qhead] /\ qhead \in DOMAIN trail /\ false_lit \in Lits
  BY VisitFacts DEF VFacts
<1>2. SUFFICES ASSUME trail[k] = false_lit PROVE FALSE
  BY DEF First
<1>3. Var(trail[k]) = Var(trail[qhead])
  BY <1>1, <1>2, LitFacts
<1>4. k = qhead
  BY <1>1, <1>3 DEF IInv, Ordered, OrderedIn
<1>5. trail[k] = Neg(trail[k]) /\ trail[k] \in Lits
  BY <1>1, <1>2, <1>4, TrailFacts
<1> QED
  BY <1>5, LitFacts

(* Reasons are clauses in use whose first literal is the one they implied. *)
LEMMA ReasonsNow ==
  ASSUME IInv
  PROVE  /\ ReasonsIn(trail, vardata, ca, Live)
         /\ \A k \in DOMAIN trail :
              LET cr == vardata[Var(trail[k])].reason IN
                cr # CRef_Undef => cr \in Live /\ ca[cr].w0 = trail[k] /\ cr \in DOMAIN ca
<1>1. ReasonsIn(trail, vardata, ca, Live)
  BY DEF IInv, Reasoned
<1>2. Live \subseteq DOMAIN ca
  BY DEF IInv, DatabaseTyped, Live
<1> QED
  BY <1>1, <1>2 DEF ReasonsIn

(* A new clause changes no reason. *)
LEMMA AttachReasons ==
  ASSUME IInv, NEW c \in Clause, Attached(c)
  PROVE  ReasonsIn(trail, vardata, ca', Live')
<1> DEFINE mem2 == ca'
           live2 == Live'
<1>1. \A cr \in Live : mem2[cr] = ca[cr] /\ cr \in live2
  BY AttachedFacts
<1> HIDE DEF mem2, live2
<1>2. \A k \in DOMAIN trail :
           LET cr == vardata[Var(trail[k])].reason IN
             cr # CRef_Undef =>
               /\ cr = vardata[Var(trail[k])].reason
               /\ cr \in live2
               /\ ca[cr].w0 = trail[k] => mem2[cr].w0 = trail[k]
               /\ ca[cr].w0 = trail[k] => LitsOf(mem2[cr]) \subseteq LitsOf(ca[cr])
  BY <1>1, ReasonsNow
<1>3. ReasonsIn(trail, vardata, mem2, live2)
  BY <1>2, ReasonsNow, TrailFacts, KeptReasons
<1> QED
  BY <1>3 DEF mem2, live2

(* A reason that propagate visits keeps its first literal first, *)
LEMMA RewriteReasons ==
  ASSUME IInv, pc = "propagate", NEW w \in todo, Rewritten(w)
  PROVE  ReasonsIn(trail, vardata, ca', Live')
<1> DEFINE mem2 == ca'
           live2 == Live'
<1>1. /\ \A cr \in DOMAIN ca : cr # w.cref => mem2[cr] = ca[cr]
      /\ mem2[w.cref].w0 = First(ca[w.cref])
      /\ LitsOf(mem2[w.cref]) = LitsOf(ca[w.cref])
      /\ live2 = Live
  BY RewrittenFacts
<1> HIDE DEF mem2, live2
<1>2. ASSUME NEW k \in DOMAIN trail, NEW cr, cr = vardata[Var(trail[k])].reason, cr # CRef_Undef
      PROVE  /\ cr \in live2
             /\ mem2[cr].w0 = trail[k]
             /\ LitsOf(mem2[cr]) \subseteq LitsOf(ca[cr])
  <2>1. cr \in Live /\ ca[cr].w0 = trail[k] /\ cr \in DOMAIN ca
    BY <1>2, ReasonsNow
  <2>2. CASE cr = w.cref
    BY <1>1, <2>1, <2>2, TrueNotFalse
  <2>3. CASE cr # w.cref
    BY <1>1, <2>1, <2>3
  <2> QED
    BY <2>2, <2>3
<1>4. \A k \in DOMAIN trail :
           LET cr == vardata[Var(trail[k])].reason IN
             cr # CRef_Undef =>
               /\ cr = vardata[Var(trail[k])].reason
               /\ cr \in live2
               /\ ca[cr].w0 = trail[k] => mem2[cr].w0 = trail[k]
               /\ ca[cr].w0 = trail[k] => LitsOf(mem2[cr]) \subseteq LitsOf(ca[cr])
  BY <1>2
<1>3. ReasonsIn(trail, vardata, mem2, live2)
  BY <1>4, ReasonsNow, TrailFacts, KeptReasons
<1> QED
  BY <1>3 DEF mem2, live2

(* and so does one that is given another watch. *)
LEMMA MoveReasons ==
  ASSUME IInv, pc = "propagate", NEW w \in todo, NEW q \in Lits, Moved(w, q)
  PROVE  ReasonsIn(trail, vardata, ca', Live')
<1> DEFINE mem2 == ca'
           live2 == Live'
<1>1. /\ \A cr \in DOMAIN ca : cr # w.cref => mem2[cr] = ca[cr]
      /\ mem2[w.cref].w0 = First(ca[w.cref])
      /\ LitsOf(mem2[w.cref]) = LitsOf(ca[w.cref])
      /\ live2 = Live
  BY MovedFacts
<1> HIDE DEF mem2, live2
<1>2. ASSUME NEW k \in DOMAIN trail, NEW cr, cr = vardata[Var(trail[k])].reason, cr # CRef_Undef
      PROVE  /\ cr \in live2
             /\ mem2[cr].w0 = trail[k]
             /\ LitsOf(mem2[cr]) \subseteq LitsOf(ca[cr])
  <2>1. cr \in Live /\ ca[cr].w0 = trail[k] /\ cr \in DOMAIN ca
    BY <1>2, ReasonsNow
  <2>2. CASE cr = w.cref
    BY <1>1, <2>1, <2>2, TrueNotFalse
  <2>3. CASE cr # w.cref
    BY <1>1, <2>1, <2>3
  <2> QED
    BY <2>2, <2>3
<1>4. \A k \in DOMAIN trail :
           LET cr == vardata[Var(trail[k])].reason IN
             cr # CRef_Undef =>
               /\ cr = vardata[Var(trail[k])].reason
               /\ cr \in live2
               /\ ca[cr].w0 = trail[k] => mem2[cr].w0 = trail[k]
               /\ ca[cr].w0 = trail[k] => LitsOf(mem2[cr]) \subseteq LitsOf(ca[cr])
  BY <1>2
<1>3. ReasonsIn(trail, vardata, mem2, live2)
  BY <1>4, ReasonsNow, TrailFacts, KeptReasons
<1> QED
  BY <1>3 DEF mem2, live2

(* A clause that is removed is the reason of nothing afterwards. *)
LEMMA RemoveReasons ==
  ASSUME IInv, NEW gone \in SUBSET Live, NEW short \in SUBSET Live, Removed(gone, short)
  PROVE  ReasonsIn(trail, vardata', ca', Live')
<1> DEFINE mem2 == ca'
           live2 == Live'
           data2 == vardata'
<1>1. /\ live2 = Live \ gone /\ live2 \subseteq DOMAIN mem2
      /\ \A cr \in DOMAIN mem2 :
           mem2[cr].w0 = ca[cr].w0 /\ mem2[cr].w1 = ca[cr].w1 /\ mem2[cr].rest \subseteq ca[cr].rest
  BY RemovedFacts
<1>2. \A x \in Assigned :
       /\ \/ data2[x] = vardata[x]
          \/ data2[x].reason = CRef_Undef
       /\ (\E cr \in gone : locked(cr) /\ Var(ca[cr].w0) = x) =>
             data2[x].reason = CRef_Undef
  BY UnlockedFacts DEF UFacts
<1> HIDE DEF mem2, live2, data2
<1>3. ASSUME NEW k \in DOMAIN trail, NEW cr, cr = data2[Var(trail[k])].reason, cr # CRef_Undef
      PROVE  /\ cr = vardata[Var(trail[k])].reason
             /\ cr \in live2
             /\ mem2[cr].w0 = trail[k]
             /\ LitsOf(mem2[cr]) \subseteq LitsOf(ca[cr])
  <2>0. Var(trail[k]) \in Assigned /\ IsTrue(trail[k])
    BY TrailFacts
  <2>1. cr = vardata[Var(trail[k])].reason
    BY <1>2, <1>3, <2>0
  <2>2. cr \in Live /\ ca[cr].w0 = trail[k]
    BY <1>3, <2>1, ReasonsNow
  <2>3. locked(cr) /\ Var(ca[cr].w0) = Var(trail[k])
    BY <2>0, <2>1, <2>2 DEF locked, reason
  <2>4. cr \notin gone
    BY <1>2, <1>3, <2>0, <2>3
  <2>5. cr \in live2 /\ mem2[cr].w0 = ca[cr].w0 /\ mem2[cr].w1 = ca[cr].w1 /\ mem2[cr].rest \subseteq ca[cr].rest
    BY <1>1, <2>2, <2>4
  <2> QED
    BY <2>1, <2>2, <2>5 DEF LitsOf
<1>5. \A k \in DOMAIN trail :
           LET cr == data2[Var(trail[k])].reason IN
             cr # CRef_Undef =>
               /\ cr = vardata[Var(trail[k])].reason
               /\ cr \in live2
               /\ ca[cr].w0 = trail[k] => mem2[cr].w0 = trail[k]
               /\ ca[cr].w0 = trail[k] => LitsOf(mem2[cr]) \subseteq LitsOf(ca[cr])
  BY <1>3
<1>6. trail \in Seq(Lits) /\ ReasonsIn(trail, vardata, ca, Live)
  BY TrailFacts, ReasonsNow
<1>4. ReasonsIn(trail, data2, mem2, live2)
  BY <1>5, <1>6, KeptReasons
<1> QED
  BY <1>4 DEF mem2, live2, data2

-----------------------------------------------------------------------------
(* An implied literal: the others of its clause were false before. *)
LEMMA ImplyReasons ==
  ASSUME IInv, Imply
  PROVE  ReasonsIn(trail', vardata', ca', Live')
<1>1. PICK w \in todo : Rewritten(w) /\ NewWatches(ca[w.cref]) = {} /\ Pushed(First(ca[w.cref]), w.cref)
  BY ImplyPushes
<1>2. VFacts(w) /\ pc = "propagate"
  BY VisitFacts DEF Imply
<1> DEFINE p == First(ca[w.cref])
           mem2 == ca'
           live2 == Live'
           data2 == vardata'
<1>3. ReasonsIn(trail, vardata, mem2, live2)
  BY <1>1, <1>2, RewriteReasons
<1>4. Grown(p, w.cref, decisionLevel)
  BY <1>1, PushGrows
<1>5. GFacts(p, w.cref, decisionLevel)
  BY <1>4, GrownFacts
<1>6. /\ \A k \in DOMAIN trail : data2[Var(trail[k])] = vardata[Var(trail[k])]
      /\ data2[Var(p)].reason = w.cref
  BY <1>5, TrailFacts DEF GFacts
<1>7. /\ w.cref \in live2 /\ mem2[w.cref].w0 = p
      /\ LitsOf(mem2[w.cref]) = {p, false_lit} \cup ca[w.cref].rest
  BY <1>1, <1>2, RewrittenFacts DEF VFacts, Visited
<1>8. \A q \in {false_lit} \cup ca[w.cref].rest : q \in Lits /\ IsFalse(q)
  BY <1>1, <1>2 DEF VFacts, NewWatches, Clause
<1>9. \A q \in LitsOf(mem2[w.cref]) \ {p} : \E i \in DOMAIN trail : trail[i] = Neg(q)
  <2>1. ASSUME NEW q, IsFalse(q) PROVE \E i \in DOMAIN trail : trail[i] = Neg(q)
    BY <2>1, TrueFacts DEF IInv, IsFalse
  <2> QED
    BY <1>7, <1>8, <2>1
<1>10. p \in Lits /\ trail' = Append(trail, p)
  BY <1>4 DEF Grown
<1> HIDE DEF p, mem2, live2, data2
<1>12. w.cref # CRef_Undef =>
           /\ w.cref \in live2
           /\ mem2[w.cref].w0 = p
           /\ \A q \in LitsOf(mem2[w.cref]) \ {p} : \E i \in DOMAIN trail : trail[i] = Neg(q)
  BY <1>7, <1>9
<1>13. trail \in Seq(Lits)
  BY TrailFacts
<1>14. ReasonsIn(trail, vardata, mem2, live2)
  BY <1>3
<1>11. ReasonsIn(Append(trail, p), data2, mem2, live2)
  BY <1>14, <1>6, <1>12, <1>10, <1>13, PushReasons
<1> QED
  BY <1>10, <1>11 DEF mem2, live2, data2

(* A literal pushed without a reason changes none. *)
LEMMA GrownReasons ==
  ASSUME IInv, NEW p, NEW lev, Grown(p, CRef_Undef, lev), UNCHANGED <<ca, dbVars>>
  PROVE  ReasonsIn(trail', vardata', ca', Live')
<1> DEFINE data2 == vardata'
<1>1. GFacts(p, CRef_Undef, lev)
  BY GrownFacts
<1>2. /\ \A k \in DOMAIN trail : data2[Var(trail[k])] = vardata[Var(trail[k])]
      /\ data2[Var(p)].reason = CRef_Undef
  BY <1>1, TrailFacts DEF GFacts
<1>3. p \in Lits /\ trail' = Append(trail, p)
  BY DEF Grown
<1> HIDE DEF data2
<1>4. ReasonsIn(Append(trail, p), data2, ca, Live)
  BY <1>2, <1>3, TrailFacts, ReasonsNow, PushReasons
<1>5. ca' = ca /\ Live' = Live
  BY DEF Live, dbVars
<1> QED
  BY <1>3, <1>4, <1>5 DEF data2

(* Neither does cancelUntil. *)
LEMMA CutBackReasons ==
  ASSUME IInv, NEW lev, CutBack(lev), UNCHANGED <<ca, dbVars>>
  PROVE  ReasonsIn(trail', vardata', ca', Live')
<1> DEFINE data2 == vardata'
           n == Cut(lev)
<1>1. CFacts(lev) /\ lev \in 0 .. decisionLevel /\ trail' = SubSeq(trail, 1, n)
  BY CutFacts DEF CutBack
<1>2. \A k \in 1 .. n : data2[Var(trail[k])] = vardata[Var(trail[k])]
  BY <1>1 DEF CFacts
<1>3. n \in 0 .. Len(trail)
  BY <1>1, KeptFacts DEF KFacts
<1> HIDE DEF data2, n
<1>4. ReasonsIn(SubSeq(trail, 1, n), data2, ca, Live)
  BY <1>2, <1>3, TrailFacts, ReasonsNow, CutReasons
<1>5. ca' = ca /\ Live' = Live
  BY DEF Live, dbVars
<1> QED
  BY <1>1, <1>4, <1>5 DEF data2

(* A learnt clause is the reason of its first literal; the literals behind
   it were false on the levels that are kept. *)
LEMMA LearnReasons ==
  ASSUME IInv, Learn
  PROVE  ReasonsIn(trail', vardata', ca', Live')
<1> DEFINE data2 == vardata'
           mem2 == ca'
           live2 == Live'
<1>1. ASSUME NEW bt, NEW p, NEW from, Asserted(bt, p, from),
             ReasonsIn(trail, vardata, mem2, live2),
             from # CRef_Undef =>
               /\ from \in live2 /\ mem2[from].w0 = p
               /\ \A q \in LitsOf(mem2[from]) \ {p} :
                    \E i \in 1 .. Cut(bt) : i \in DOMAIN trail /\ trail[i] = Neg(q)
      PROVE  ReasonsIn(trail', data2, mem2, live2)
  <2>1. AFacts(bt, p, from)
    BY <1>1, AssertFacts
  <2> DEFINE n == Cut(bt)
             tr == SubSeq(trail, 1, n)
  <2>2. n \in 0 .. Len(trail) /\ p \in Lits
    BY <2>1 DEF AFacts
  <2>3. /\ \A k \in 1 .. n : data2[Var(trail[k])] = vardata[Var(trail[k])]
        /\ data2[Var(p)].reason = from
    BY <2>1 DEF AFacts
  <2>4. trail' = Append(tr, p)
    BY <1>1 DEF Asserted
  <2>5. /\ tr \in Seq(Lits) /\ DOMAIN tr = 1 .. n
        /\ \A i \in 1 .. n : tr[i] = trail[i]
    BY <2>2, TrailFacts, Shortened
  <2>6. from # CRef_Undef =>
               /\ from \in live2 /\ mem2[from].w0 = p
               /\ \A q \in LitsOf(mem2[from]) \ {p} : \E i \in DOMAIN tr : tr[i] = Neg(q)
    BY <1>1, <2>5
  <2> HIDE DEF n, tr, data2, mem2, live2
  <2>7. ReasonsIn(SubSeq(trail, 1, n), data2, mem2, live2)
    BY <1>1, <2>2, <2>3, TrailFacts, CutReasons
  <2>8. ReasonsIn(tr, data2, mem2, live2)
    BY <2>7 DEF tr
  <2>9. ReasonsIn(Append(tr, p), data2, mem2, live2)
    BY <2>2, <2>3, <2>5, <2>6, <2>8, PushReasons
  <2> QED
    BY <2>4, <2>9
<1>2. CASE LearntUnit(Asserting)
  <2>1. mem2 = ca /\ live2 = Live
    BY <1>2 DEF LearntUnit, Live, dbVars
  <2>2. Asserted(0, Asserting, CRef_Undef)
    BY <1>2 DEF LearntUnit
  <2>3. ReasonsIn(trail, vardata, mem2, live2)
    BY <2>1, ReasonsNow
  <2> HIDE DEF data2, mem2, live2
  <2>4. ReasonsIn(trail', data2, mem2, live2)
    BY <1>1, <2>2, <2>3
  <2> QED
    BY <2>4 DEF data2, mem2, live2
<1>3. ASSUME NEW q, NEW kept, LearntClause(Asserting, q, kept)
      PROVE  ReasonsIn(trail', vardata', ca', Live')
  <2> DEFINE p == Asserting
             c == [w0 |-> p, w1 |-> q, rest |-> kept \ {q}, learnt |-> TRUE, mark |-> FALSE]
  <2>1. Asserted(level(Var(q)), p, Fresh) /\ q \in kept /\ c \in Clause /\ Attached(c)
    BY <1>3 DEF LearntClause
  <2>2. ReasonsIn(trail, vardata, mem2, live2)
    BY <2>1, AttachReasons
  <2>3. mem2[Fresh] = c /\ Fresh \in live2
    BY <2>1, AttachedFacts
  <2>4. LitsOf(c) = {p} \cup kept
    BY <2>1 DEF LitsOf
  <2>8. LitsOf(mem2[Fresh]) \ {p} \subseteq kept
    BY <2>3, <2>4
  <2>9. \A r \in kept : \E i \in 1 .. Cut(level(Var(q))) : i \in DOMAIN trail /\ trail[i] = Neg(r)
    BY <1>3, LearntPlaces
  <2>5. \A r \in LitsOf(mem2[Fresh]) \ {p} :
          \E i \in 1 .. Cut(level(Var(q))) : i \in DOMAIN trail /\ trail[i] = Neg(r)
    BY <2>8, <2>9
  <2>6. mem2[Fresh].w0 = p
    BY <2>3
  <2> HIDE DEF p, c, data2, mem2, live2
  <2>7. ReasonsIn(trail', data2, mem2, live2)
    BY <1>1, <2>1, <2>2, <2>3, <2>5, <2>6
  <2> QED
    BY <2>7 DEF data2, mem2, live2
<1> QED
  BY <1>2, <1>3, LearnCases DEF data2, mem2, live2

(* Reasons stay in memory, with the literal they implied in front and all
   others false before it. *)
LEMMA ReasonedStep ==
  ASSUME IInv, Next PROVE Reasoned'
<1>g. SUFFICES ReasonsIn(trail', vardata', ca', Live')
  BY DEF Reasoned
<1>1. CASE UNCHANGED <<trail, vardata, ca, dbVars>>
  <2>1. ca' = ca /\ Live' = Live /\ trail' = trail /\ vardata' = vardata
    BY <1>1 DEF Live, dbVars
  <2> QED
    BY <2>1, ReasonsNow
<1>2. CASE AddLong
  <2>1. PICK c \in Clause : Attached(c)
    BY <1>2, AddLongAttaches
  <2>2. trail' = trail /\ vardata' = vardata
    BY <1>2 DEF AddLong, AddCall
  <2> QED
    BY <2>1, <2>2, AttachReasons
<1>3. CASE FirstTrue \/ Clash
  <2>1. PICK w \in todo : Rewritten(w)
    BY <1>3, RewriteSteps
  <2>2. trail' = trail /\ vardata' = vardata /\ pc = "propagate"
    BY <1>3 DEF FirstTrue, Clash
  <2> QED
    BY <2>1, <2>2, RewriteReasons
<1>4. CASE MoveWatch
  <2>1. PICK w \in todo, q \in Lits : Moved(w, q)
    BY <1>4, MoveSteps
  <2>2. trail' = trail /\ vardata' = vardata /\ pc = "propagate"
    BY <1>4 DEF MoveWatch
  <2> QED
    BY <2>1, <2>2, MoveReasons
<1>5. CASE AddUnit
  <2>1. PICK p \in Lits : uncheckedEnqueue(p, CRef_Undef) /\ Pushed(p, CRef_Undef)
    <3>1. PICK p \in Lits, from \in Nat : Pushed(p, from)
      BY <1>5, AddUnitPushes
    <3>2. PICK q \in Lits : Remaining = {q} /\ uncheckedEnqueue(q, CRef_Undef)
      BY <1>5 DEF AddUnit
    <3>3. q \in Input /\ ~IsFalse(q) /\ ~IsTrue(q) /\ Var(q) < next_var
      BY <1>5, <3>2 DEF Remaining, AddUnit, Storable, AddCall, Usable
    <3>4. UNCHANGED trail_lim
      BY <1>5 DEF AddUnit, AddCall
    <3> QED
      BY <3>2, <3>3, <3>4 DEF Pushed, Assignable, Unset, CRef_Undef
  <2>2. UNCHANGED <<ca, dbVars>>
    BY <1>5 DEF AddUnit, memVars
  <2> QED
    BY <2>1, <2>2, PushGrows, GrownReasons
<1>6. CASE Assume \/ Branch
  <2>1. PICK p : DecidedOn(p)
    BY <1>6, AssumeDecides, BranchDecides
  <2>2. UNCHANGED <<ca, dbVars>>
    BY <1>6 DEF Assume, Branch, memVars
  <2> QED
    BY <2>1, <2>2, DecideGrows, GrownReasons
<1>7. CASE SolveDead \/ RootConflict \/ Restart \/ Interrupted \/ FinalDone \/ ModelFound
  <2>1. \E heap : cancelUntil(0, heap)
    BY <1>7 DEF SolveDead, RootConflict, Restart, Interrupted, FinalDone, ModelFound, Return
  <2>2. CutBack(0)
    BY <2>1, ReturnFacts DEF Returned
  <2>3. UNCHANGED <<ca, dbVars>>
    BY <1>7 DEF SolveDead, RootConflict, Restart, Interrupted, FinalDone, ModelFound, Return, memVars
  <2> QED
    BY <2>2, <2>3, CutBackReasons
<1>8. CASE simplify \/ SimplifyCall \/ reduceDB
  <2>1. PICK gone \in SUBSET Live, short \in SUBSET Live : Removed(gone, short)
    BY <1>8, RemovingSteps
  <2>2. trail' = trail
    BY <2>1 DEF Removed
  <2> QED
    BY <2>1, <2>2, RemoveReasons
<1>9. CASE \/ newVar \/ AddNothing \/ AddEmpty \/ SimplifySkipped \/ Solve
             \/ NextFact \/ Blocked \/ Propagated \/ Resolve \/ NotSimplified \/ NotReduced
             \/ AssumptionFalse \/ FinalStep \/ DummyLevel
  <2>1. UNCHANGED <<trail, vardata, ca, dbVars>>
    BY <1>9 DEF newVar, AddNothing, AddEmpty, AddCall, SimplifySkipped, NextFact, Solve, DummyLevel,
         Blocked, Visit, Propagated, Resolve, NotSimplified, NotReduced,
         AssumptionFalse, FinalStep, trailVars, memVars
  <2> QED
    BY <1>1, <2>1
<1> QED
  BY <1>2, <1>3, <1>4, <1>5, <1>6, <1>7, <1>8, <1>9, ImplyReasons, LearnReasons, NoRelease
     DEF IInv, Next, user, solver, propagate, analyze, search

-----------------------------------------------------------------------------
(* A solver that was just constructed. *)
LEMMA InitIInv ==
  ASSUME NeverReleases, Init PROVE IInv
<1> USE DEF Init
<1>1. PICK s \in Scripts : script = s.calls /\ options = s.options
  OBVIOUS
<1>2. script \in Seq(Calls) /\ options \in Options /\ \A k \in DOMAIN script : script[k].call # "releaseVar"
  BY <1>1, ScriptsAssumption DEF NeverReleases
<1>3. trail = <<>> /\ trail_lim = <<>> /\ DOMAIN trail = {} /\ DOMAIN trail_lim = {} /\ DOMAIN free_vars = {}
      /\ Len(trail) = 0 /\ decisionLevel = 0
  BY DEF decisionLevel
<1>4. TrueLits = {} /\ Assigned = {}
  BY <1>3 DEF TrueLits, Assigned
<1>5. DOMAIN ca = {} /\ ca = [cr \in {} |-> cr] /\ Live = {}
  BY DEF Live
<1>6. Unreleased
  BY <1>2 DEF Unreleased
<1>7. UserTyped
  BY <1>2, NVarsAssumption DEF UserTyped
<1>8. DatabaseTyped
  <2>1. IsFiniteSet({})
    BY FS_EmptySet
  <2>2. watches \in [Lits -> SUBSET [cref : CRefs, blocker : Lits]]
    OBVIOUS
  <2>3. ca \in [DOMAIN ca -> Clause]
    BY <1>5
  <2> QED
    BY <1>5, <2>1, <2>2, <2>3 DEF DatabaseTyped
<1>9. TrailTyped
  <2>1. vardata = [x \in {} |-> x]
    OBVIOUS
  <2>2. vardata \in [Assigned -> [reason : Nat, level : Nat]]
    BY <1>4, <2>1
  <2> QED
    BY <1>3, <2>2 DEF TrailTyped
<1>10. LoopTyped
  BY DEF LoopTyped, CRef_Undef
<1>11. Control
  BY <1>3 DEF Control, Idle, Analysing
<1>12. Created
  BY <1>3, <1>5 DEF Created
<1>13. Stored /\ Listed
  BY <1>5 DEF Stored, Listed
<1>14. Visiting /\ Queued /\ Analysed /\ Finalised
  BY DEF Visiting, Queued, Analysed, Analysing, Finalised
<1>15. Ordered /\ Reasoned /\ Opened
  BY <1>3 DEF Ordered, OrderedIn, Reasoned, ReasonsIn, Opened, OpenedIn
<1> QED
  BY <1>6, <1>7, <1>8, <1>9, <1>10, <1>11, <1>12, <1>13, <1>14, <1>15 DEF IInv

(* A step that changes nothing. *)
LEMMA SameState ==
  ASSUME UNCHANGED vars
  PROVE  /\ UNCHANGED <<script, given, next_var, released_vars, free_vars, assumptions, ok, clauses,
                        learnts, ca, watches, dirty, trail, trail_lim, vardata, qhead, order_heap,
                        pc, caller, todo, confl, seen, out_learnt, index, options, conflictC,
                        curr_restarts, max_learnts, answer, model, conflict>>
BY DEF vars, userVars, dbVars, memVars, trailVars, analyzeVars, limitVars, resultVars

(* It keeps the invariant. *)
LEMMA StutterIInv ==
  ASSUME IInv, UNCHANGED vars PROVE IInv'
<1> USE SameState DEF IInv
<1>1. /\ Live' = Live /\ TrueLits' = TrueLits /\ Assigned' = Assigned /\ decisionLevel' = decisionLevel
  BY DEF Live, TrueLits, Assigned, decisionLevel
<1>2. Unreleased' /\ UserTyped' /\ DatabaseTyped'
  BY DEF Unreleased, UserTyped, DatabaseTyped
<1>3. TrailTyped' /\ LoopTyped'
  BY <1>1 DEF TrailTyped, LoopTyped
<1>4. Control'
  BY <1>1 DEF Control, Idle, Analysing, NextAssumption, IsFalse
<1>5. Created' /\ Stored'
  BY <1>1 DEF Created, Stored, Known
<1>6. Listed' /\ Visiting'
  BY <1>1 DEF Listed, Visiting, Watched, Propagating
<1>7. Ordered' /\ Reasoned' /\ Opened' /\ Queued'
  BY <1>1 DEF Ordered, Reasoned, Opened, Queued
<1>8. Analysed'
  BY <1>1 DEF Analysed, Analysing, level, reason, IsFalse, AtPresent, Present
<1>9. Finalised'
  BY <1>1 DEF Finalised, level, NextAssumption
<1> QED
  BY <1>2, <1>3, <1>4, <1>5, <1>6, <1>7, <1>8, <1>9

(* Every step of the solver and its user keeps the invariant. *)
LEMMA StepIInv ==
  ASSUME IInv, Next PROVE IInv'
<1>1. /\ Unreleased' /\ UserTyped' /\ DatabaseTyped' /\ TrailTyped' /\ LoopTyped' /\ Control' /\ Created'
      /\ Stored' /\ Listed' /\ Visiting'
  BY UnreleasedStep, UserTypedStep, DatabaseTypedStep, TrailTypedStep, LoopTypedStep, ControlStep,
     CreatedStep, StoredStep, ListedStep, VisitingStep
<1>2. Ordered' /\ Reasoned' /\ Opened' /\ Queued' /\ Analysed' /\ Finalised'
  BY OrderedStep, ReasonedStep, OpenedStep, QueuedStep, AnalysedStep, FinalisedStep
<1> QED
  BY <1>1, <1>2 DEF IInv

(* The invariant holds of every solver whose user releases no variable, for
   any number of variables and any calls. *)
THEOREM Inductive ==
  ASSUME NeverReleases PROVE Spec => []IInv
<1>1. Init => IInv
  BY InitIInv
<1>2. IInv /\ [Next]_vars => IInv'
  BY StepIInv, StutterIInv
<1> QED
  BY <1>1, <1>2, PTL DEF Spec

-----------------------------------------------------------------------------

(* The position analyze walks from stays within the trail, even when
   addClause gives up on a conflict. *)
LEMMA BoundedStep ==
  ASSUME IInv, Bounded, Next PROVE Bounded'
<1>g. SUFFICES ASSUME ~ok' PROVE index' <= Len(trail') + 1
  BY DEF Bounded
<1>0. /\ Control /\ LevelsFacts /\ Len(trail) \in Nat /\ trail \in Seq(Lits)
      /\ decisionLevel \in Nat
  BY Levels, TrailFacts DEF IInv, LevelsFacts
<1>1. CASE ~ok
  <2>1. index <= Len(trail) + 1 /\ Idle /\ decisionLevel = 0
    BY <1>0, <1>1 DEF Bounded, Control
  <2>2. index' = index
    BY <1>1, <2>1, NoRelease DEF Idle, IInv, Next, user, solver, propagate, analyze, search,
       newVar, AddNothing, AddEmpty, AddUnit, AddLong, AddCall, Storable, SimplifySkipped, SimplifyCall,
       Simplified, simplify, Solve,
       SolveDead, NextFact, Blocked, FirstTrue, MoveWatch, Imply, Clash, Propagated, RootConflict, Resolve,
       Learn, Restart, Interrupted, NotSimplified, reduceDB, NotReduced, Pending, DummyLevel, Assume,
       AssumptionFalse, FinalStep, FinalDone, Branch, ModelFound, analyzeVars
  <2>3. trail' = trail
    <3>1. CASE SolveDead
      <4>1. trail' = SubSeq(trail, 1, Cut(0)) /\ Cut(0) = Len(trail)
        BY <2>1, <3>1 DEF SolveDead, Return, cancelUntil, Cut
      <4> QED
        BY <1>0, <4>1
    <3>2. CASE ~SolveDead
      BY <1>1, <2>1, <3>2, NoRelease DEF Idle, IInv, Next, user, solver, propagate, analyze, search,
         newVar, AddNothing, AddEmpty, AddUnit, AddLong, AddCall, Storable, SimplifySkipped, SimplifyCall,
         simplify, Solve,
         NextFact, Blocked, FirstTrue, MoveWatch, Imply, Clash, Propagated, RootConflict, Resolve,
         Learn, Restart, Interrupted, NotSimplified, reduceDB, NotReduced, Pending, DummyLevel, Assume,
         AssumptionFalse, FinalStep, FinalDone, Branch, ModelFound, trailVars
    <3> QED
      BY <3>1, <3>2
  <2> QED
    BY <2>1, <2>2, <2>3
<1>2. CASE ok
  <2>1. AddEmpty \/ Clash \/ RootConflict
    BY <1>g, <1>2, NoRelease DEF IInv, Next, user, solver, propagate, analyze, search,
       newVar, AddNothing, AddUnit, AddLong, AddCall, SimplifySkipped, SimplifyCall,
       Simplified, simplify, Solve,
       SolveDead, NextFact, Blocked, FirstTrue, MoveWatch, Imply, Propagated, Resolve,
       Learn, Restart, Interrupted, NotSimplified, reduceDB, NotReduced, DummyLevel, Assume,
       AssumptionFalse, FinalStep, FinalDone, Branch, ModelFound
  <2>2. CASE AddEmpty
    <3>1. trail' = trail /\ index' = index /\ pc = "idle"
      BY <2>2 DEF AddEmpty, AddCall, Called, analyzeVars
    <3>2. index = 0
      BY <1>0, <1>2, <3>1 DEF Control, Analysing
    <3> QED
      BY <1>0, <3>1, <3>2
  <2>3. CASE Clash
    BY <1>0, <2>3 DEF Clash
  <2>4. CASE RootConflict
    <3>1. trail' = SubSeq(trail, 1, Cut(0)) /\ Cut(0) = Len(trail) /\ index' = index /\ pc = "conflict"
          /\ decisionLevel = 0
      BY <2>4 DEF RootConflict, Return, cancelUntil, Cut, analyzeVars
    <3>2. trail' = trail
      BY <1>0, <3>1
    <3>3. index = Len(trail) + 1
      BY <3>1 DEF IInv, Analysed, Analysing
    <3> QED
      BY <1>0, <3>1, <3>2, <3>3
  <2> QED
    BY <2>1, <2>2, <2>3, <2>4
<1> QED
  BY <1>1, <1>2, <1>0 DEF IInv, LoopTyped

(* The invariant and that bound give the types. *)
LEMMA Types ==
  ASSUME IInv, Bounded PROVE TypeOK
<1> USE DEF IInv
<1>1. index \in 0 .. Len(trail) + 1
  <2>1. index \in Nat /\ Len(trail) \in Nat
    BY TrailFacts DEF LoopTyped
  <2>2. CASE Analysing
    BY <2>1, <2>2, TrailFacts DEF Analysed
  <2>3. CASE pc = "final"
    BY <2>1, <2>3 DEF Finalised
  <2>4. CASE ok /\ ~Analysing /\ pc # "final"
    BY <2>1, <2>4 DEF Control
  <2>5. CASE ~ok
    BY <2>1, <2>5 DEF Bounded
  <2> QED
    BY <2>2, <2>3, <2>4, <2>5 DEF LoopTyped
<1>2. seen \subseteq Assigned /\ out_learnt \in SUBSET Lits
  <2>1. CASE Analysing
    BY <2>1 DEF Analysed, LoopTyped
  <2>2. CASE pc = "final"
    BY <2>2 DEF Finalised, LoopTyped
  <2>3. CASE ~Analysing /\ pc # "final"
    BY <2>3 DEF Control, LoopTyped
  <2> QED
    BY <2>1, <2>2, <2>3
<1>3. \A p \in Lits : watches[p] \subseteq [cref : DOMAIN ca, blocker : Lits]
  <2>1. ASSUME NEW p \in Lits, NEW w \in watches[p]
        PROVE  w \in [cref : DOMAIN ca, blocker : Lits]
    <3>1. w.cref \in DOMAIN ca
      BY <2>1 DEF Listed, Live, DatabaseTyped
    <3>2. w \in [cref : CRefs, blocker : Lits]
      BY <2>1 DEF DatabaseTyped
    <3> QED
      BY <3>1, <3>2
  <2> QED
    BY <2>1
<1>4. \A x \in Assigned : vardata[x] \in [reason : DOMAIN ca \cup {CRef_Undef}, level : Nat]
  <2>1. ASSUME NEW x \in Assigned
        PROVE  vardata[x] \in [reason : DOMAIN ca \cup {CRef_Undef}, level : Nat]
    <3>1. PICK k \in DOMAIN trail : x = Var(trail[k])
      BY TrailFacts
    <3>2. vardata[x] \in [reason : Nat, level : Nat]
      BY <3>1, TrailFacts
    <3>3. vardata[x].reason # CRef_Undef => vardata[x].reason \in DOMAIN ca
      BY <3>1, ReasonsNow
    <3> QED
      BY <3>2, <3>3
  <2> QED
    BY <2>1
<1>5. pc = "propagate" => todo \subseteq UNION {watches[p] : p \in Lits}
  <2>1. SUFFICES ASSUME pc = "propagate", NEW w \in todo
                 PROVE  w \in UNION {watches[p] : p \in Lits}
    OBVIOUS
  <2>2. w \in watches[Propagating] /\ Propagating \in Lits
    BY <2>1, VisitFacts DEF VFacts, Visited
  <2> QED
    BY <2>2
<1>6. \A cr \in DOMAIN ca : ca[cr] \in Clause
  BY DEF DatabaseTyped
<1>7. released_vars \in SUBSET Lits /\ free_vars \in Seq(Lits)
  BY DEF Unreleased
<1>8. DOMAIN vardata = Assigned
  BY DEF TrailTyped
<1> QED
  BY <1>1, <1>2, <1>3, <1>4, <1>5, <1>6, <1>7, <1>8
     DEF TypeOK, UserTyped, DatabaseTyped, TrailTyped, LoopTyped

(* They give the order of the trail, *)
LEMMA Order ==
  ASSUME IInv PROVE TrailOrdered
<1>0. /\ OrderedIn(trail, trail_lim, vardata) /\ OpenedIn(trail, trail_lim, vardata, assumptions)
      /\ LevelsFacts
  BY Levels DEF IInv, Ordered, Opened
<1>1. \A i, k \in DOMAIN trail : Var(trail[i]) = Var(trail[k]) => i = k
  BY <1>0 DEF OrderedIn
<1>2. ASSUME NEW k \in DOMAIN trail
      PROVE  level(Var(trail[k])) = Cardinality({i \in DOMAIN trail_lim : trail_lim[i] < k})
  <2> DEFINE n == level(Var(trail[k]))
  <2>1. n \in 0 .. Len(trail_lim) /\ \A i \in DOMAIN trail_lim : i <= n <=> trail_lim[i] < k
    BY <1>0 DEF OrderedIn, level
  <2>2. DOMAIN trail_lim = 1 .. Len(trail_lim) /\ Len(trail_lim) \in Nat
    BY TrailFacts
  <2> HIDE DEF n
  <2>3. {i \in DOMAIN trail_lim : trail_lim[i] < k} = 1 .. n
    BY <2>1, <2>2
  <2>4. n \in Nat /\ Cardinality(1 .. n) = n
    <3>1. n \in Nat
      BY <2>1, <2>2
    <3>2. Cardinality(1 .. n) = IF 1 > n THEN 0 ELSE n - 1 + 1
      BY <3>1, FS_Interval
    <3> QED
      BY <3>1, <3>2
  <2> QED
    BY <2>3, <2>4 DEF n
<1>3. \A k \in DOMAIN trail :
        level(Var(trail[k])) > 0 => (reason(Var(trail[k])) = CRef_Undef <=> Opens(k))
  BY <1>0 DEF OpenedIn, level, reason, Opens
<1> QED
  BY <1>1, <1>2, <1>3 DEF TrailOrdered

(* the reasons, *)
LEMMA Reasons ==
  ASSUME IInv PROVE ReasonsLive
BY DEF IInv, Reasoned, ReasonsIn, ReasonsLive, Parents, Earlier, reason

(* and clear marks. *)
LEMMA Clean ==
  ASSUME IInv PROVE SeenClean
BY DEF IInv, Control, Analysing, SeenClean

(* The variables of the solver keep their types. *)
THEOREM TypeCorrect ==
  ASSUME NeverReleases PROVE Spec => []TypeOK
<1>1. Init => Bounded
  BY DEF Init, Bounded
<1>2. IInv /\ Bounded /\ [Next]_vars => Bounded'
  <2>1. ASSUME Bounded, UNCHANGED vars PROVE Bounded'
    BY <2>1, SameState DEF Bounded
  <2> QED
    BY <2>1, BoundedStep
<1>3. IInv /\ Bounded => TypeOK
  BY Types
<1> QED
  BY <1>1, <1>2, <1>3, Inductive, PTL DEF Spec

(* No variable is assigned twice, levels follow the trail, and above level 0
   only the literals that open a level have no reason. *)
THEOREM Trail ==
  ASSUME NeverReleases PROVE Spec => []TrailOrdered
<1>1. IInv => TrailOrdered
  BY Order
<1> QED
  BY <1>1, Inductive, PTL

(* Reasons are clauses in memory that imply what they are reasons of,
   whatever reduceDB, simplify and garbageCollect removed or moved. *)
THEOREM ReasonsKept ==
  ASSUME NeverReleases PROVE Spec => []ReasonsLive
<1>1. IInv => ReasonsLive
  BY Reasons
<1> QED
  BY <1>1, Inductive, PTL

(* analyze, litRedundant and analyzeFinal leave seen clear for each other. *)
THEOREM MarksCleared ==
  ASSUME NeverReleases PROVE Spec => []SeenClean
<1>1. IInv => SeenClean
  BY Clean
<1> QED
  BY <1>1, Inductive, PTL

-----------------------------------------------------------------------------
(* The watched literals. *)

(* The literals of the levels up to lev stay where they are. *)
Keeps(lev) ==
  \A k \in DOMAIN trail :
    level(Var(trail[k])) <= lev =>
      k \in DOMAIN trail' /\ trail'[k] = trail[k]
      /\ vardata'[Var(trail[k])].level = level(Var(trail[k]))

(* Steps that keep the literals of some levels where they are: those that
   leave the trail alone, *)
LEMMA SameKeeps ==
  ASSUME UNCHANGED <<trail, vardata>>, NEW lev PROVE Keeps(lev)
BY DEF Keeps, level

(* those that push a literal, *)
LEMMA GrownKeeps ==
  ASSUME IInv, NEW p, NEW from, NEW l, Grown(p, from, l), NEW lev PROVE Keeps(lev)
<1>1. GFacts(p, from, l)
  BY GrownFacts
<1> QED
  BY <1>1, TrailFacts DEF GFacts, Keeps, level

(* cancelUntil, *)
LEMMA CutKeeps ==
  ASSUME IInv, NEW lev, CutBack(lev) PROVE Keeps(lev)
<1>1. CFacts(lev) /\ lev \in 0 .. decisionLevel
  BY CutFacts DEF CutBack
<1>2. KFacts(lev)
  BY <1>1, KeptFacts
<1>3. ASSUME NEW k \in DOMAIN trail, level(Var(trail[k])) <= lev
      PROVE  k \in 1 .. Cut(lev)
  BY <1>2, <1>3, TrailFacts DEF KFacts
<1> QED
  BY <1>1, <1>3 DEF CFacts, Keeps, level

(* cancelUntil with the assertion of the learnt literal, *)
LEMMA AssertKeeps ==
  ASSUME IInv, NEW bt, NEW p, NEW from, Asserted(bt, p, from) PROVE Keeps(bt)
<1>1. AFacts(bt, p, from)
  BY AssertFacts
<1>2. bt \in 0 .. decisionLevel
  BY <1>1, TrailFacts DEF AFacts
<1>3. KFacts(bt)
  BY <1>2, KeptFacts
<1>4. ASSUME NEW k \in DOMAIN trail, level(Var(trail[k])) <= bt
      PROVE  k \in 1 .. Cut(bt) /\ k \in DOMAIN trail'
  BY <1>1, <1>3, <1>4, TrailFacts DEF KFacts, AFacts
<1> QED
  BY <1>1, <1>4 DEF AFacts, Keeps, level

(* and the removal of clauses. *)
LEMMA RemovedKeeps ==
  ASSUME IInv, NEW gone, NEW short, Removed(gone, short), NEW lev PROVE Keeps(lev)
<1>1. UFacts(gone)
  BY UnlockedFacts
<1> QED
  BY <1>1, TrailFacts DEF UFacts, Keeps, level

(* What keeps more levels keeps fewer. *)
LEMMA LessKeeps ==
  ASSUME IInv, NEW lev \in Nat, NEW lev2 \in Nat, lev2 <= lev, Keeps(lev) PROVE Keeps(lev2)
<1>1. \A k \in DOMAIN trail : level(Var(trail[k])) \in Nat
  BY TrailFacts DEF level
<1> QED
  BY <1>1 DEF Keeps

(* Nothing ever takes back a literal of level 0. *)
LEMMA RootKeeps ==
  ASSUME IInv, Next PROVE Keeps(0)
<1>1. ASSUME NEW p, NEW from, Pushed(p, from) PROVE Keeps(0)
  BY <1>1, PushGrows, GrownKeeps
<1>2. ASSUME NEW p, DecidedOn(p) PROVE Keeps(0)
  BY <1>2, DecideGrows, GrownKeeps
<1>3. ASSUME NEW bt, NEW p, NEW from, Asserted(bt, p, from) PROVE Keeps(0)
  <2>0. bt \in 0 .. decisionLevel - 1
    BY <1>3 DEF Asserted
  <2>1. bt \in Nat /\ 0 <= bt
    BY <2>0, TrailFacts
  <2> QED
    BY <1>3, <2>1, AssertKeeps, LessKeeps
<1> QED
  BY <1>1, <1>2, <1>3, TrailSteps, SameKeeps, CutKeeps, RemovedKeeps DEF TrailStep

(* A true literal of the levels that are kept stays true. *)
LEMMA TrueKept ==
  ASSUME IInv, Next, NEW lev, Keeps(lev), NEW q \in Lits, IsTrue(q), level(Var(q)) <= lev
  PROVE  q \in TrueLits' /\ vardata'[Var(q)].level = level(Var(q))
<1>1. PICK k \in DOMAIN trail : trail[k] = q
  BY TrailFacts
<1>2. k \in DOMAIN trail' /\ trail'[k] = q /\ vardata'[Var(q)].level = level(Var(q))
  BY <1>1 DEF Keeps
<1>3. TrueLits' = {trail'[i] : i \in DOMAIN trail'}
  BY NextAssigned
<1> QED
  BY <1>2, <1>3

(* A literal that is false at level 0, now *)
RootFalse(q) == IsFalse(q) /\ level(Var(q)) = 0
(* and after the step. *)
RootFalseNext(q) == Neg(q) \in TrueLits' /\ vardata'[Var(q)].level = 0

(* A literal that is false at level 0 stays so. *)
LEMMA RootFalseKept ==
  ASSUME IInv, Next, NEW q \in Lits, RootFalse(q) PROVE RootFalseNext(q)
<1>1. Neg(q) \in Lits /\ Var(Neg(q)) = Var(q) /\ IsTrue(Neg(q)) /\ level(Var(Neg(q))) <= 0
  BY LitFacts DEF RootFalse, IsFalse, IsTrue
<1>2. Keeps(0)
  BY RootKeeps
<1>3. Neg(q) \in TrueLits' /\ vardata'[Var(Neg(q))].level = level(Var(Neg(q)))
  BY <1>1, <1>2, TrueKept
<1> QED
  BY <1>1, <1>3 DEF RootFalse, RootFalseNext

-----------------------------------------------------------------------------
(* A blocker is a literal of its clause, or was trimmed from it, *)
LEMMA BlockersNow ==
  ASSUME IInv, Blockers, NEW p \in Lits, NEW w \in watches[p], w.cref \in Live
  PROVE  /\ w.blocker \in Lits
         /\ w.blocker \in LitsOf(ca[w.cref]) \/ RootFalse(w.blocker)
BY DEF Blockers, RootFalse, IInv, DatabaseTyped

(* and after a step. *)
LEMMA BlockersNext ==
  ASSUME \A p \in Lits : \A w \in watches'[p] :
           w.cref \in Live' => w.blocker \in LitsOf(ca'[w.cref]) \/ RootFalseNext(w.blocker)
  PROVE  Blockers'
BY DEF Blockers, RootFalseNext, IsFalse, level

(* Blockers stay that way: propagate changes them, and simplify trims
   clauses without looking at watchers. *)
LEMMA BlockersStep ==
  ASSUME IInv, Blockers, Next PROVE Blockers'
<1> SUFFICES ASSUME NEW p \in Lits, NEW v \in watches'[p], v.cref \in Live'
             PROVE  v.blocker \in LitsOf(ca'[v.cref]) \/ RootFalseNext(v.blocker)
  BY BlockersNext
<1>1. ASSUME v \in watches[p], v.cref \in Live, LitsOf(ca[v.cref]) \subseteq LitsOf(ca'[v.cref])
      PROVE  v.blocker \in LitsOf(ca'[v.cref]) \/ RootFalseNext(v.blocker)
  BY <1>1, BlockersNow, RootFalseKept
<1>2. CASE UNCHANGED <<ca, dbVars, watches, dirty>>
  <2>1. Live' = Live /\ watches' = watches /\ ca' = ca
    BY <1>2 DEF Live, dbVars
  <2>2. v \in watches[p] /\ v.cref \in Live
    BY <2>1
  <2> QED
    BY <1>1, <2>1, <2>2
<1>3. ASSUME NEW c \in Clause, Attached(c)
      PROVE  v.blocker \in LitsOf(ca'[v.cref]) \/ RootFalseNext(v.blocker)
  <2>1. /\ Fresh \notin Live /\ Live' = Live \cup {Fresh} /\ Live \subseteq DOMAIN ca
        /\ ca'[Fresh] = c /\ \A cr \in DOMAIN ca : ca'[cr] = ca[cr]
        /\ watches'[Neg(c.w0)] = watches[Neg(c.w0)] \cup {Watcher(Fresh, c.w1)}
        /\ watches'[Neg(c.w1)] = watches[Neg(c.w1)] \cup {Watcher(Fresh, c.w0)}
        /\ \A q \in Lits \ {Neg(c.w0), Neg(c.w1)} : watches'[q] = watches[q]
    BY <1>3, AttachedFacts
  <2>2. v \in watches[p] \/ v = Watcher(Fresh, c.w1) \/ v = Watcher(Fresh, c.w0)
    BY <2>1
  <2>3. CASE v \in watches[p] /\ v.cref \in Live
    <3>1. LitsOf(ca[v.cref]) \subseteq LitsOf(ca'[v.cref])
      BY <2>1, <2>3
    <3> QED
      BY <1>1, <2>3, <3>1
  <2>4. CASE v.cref = Fresh /\ v \in watches[p]
    <3>1. Fresh \notin DOMAIN ca
      BY FreshFacts DEF IInv
    <3>2. v.cref \in Live \/ v.cref \in DOMAIN ca
      BY <2>4 DEF IInv, Listed
    <3> QED
      BY <2>1, <2>4, <3>1, <3>2
  <2>5. CASE v = Watcher(Fresh, c.w1) \/ v = Watcher(Fresh, c.w0)
    BY <2>1, <2>5 DEF Watcher, LitsOf
  <2> QED
    BY <2>1, <2>2, <2>3, <2>4, <2>5
<1>4. ASSUME NEW q \in Lits, LookedUp(q)
      PROVE  v.blocker \in LitsOf(ca'[v.cref]) \/ RootFalseNext(v.blocker)
  <2>1. Live' = Live /\ ca' = ca /\ watches'[q] \subseteq watches[q]
        /\ \A r \in Lits \ {q} : watches'[r] = watches[r]
    BY <1>4, LookedUpFacts
  <2>2. v \in watches[p] /\ v.cref \in Live
    BY <2>1
  <2> QED
    BY <1>1, <2>1, <2>2
<1>5. ASSUME NEW w \in todo, Rewritten(w)
      PROVE  v.blocker \in LitsOf(ca'[v.cref]) \/ RootFalseNext(v.blocker)
  <2>0. pc = "propagate"
    BY <1>5 DEF IInv, Visiting, Rewritten, Visited
  <2>1. /\ \A cr \in DOMAIN ca : cr # w.cref => ca'[cr] = ca[cr]
        /\ LitsOf(ca'[w.cref]) = LitsOf(ca[w.cref]) /\ Live' = Live
        /\ watches'[Propagating] = Replaced(w)
        /\ \A r \in Lits \ {Propagating} : watches'[r] = watches[r]
        /\ ca'[w.cref].w0 = First(ca[w.cref])
    BY <1>5, <2>0, RewrittenFacts
  <2>2. v \in watches[p] \/ v = Watcher(w.cref, First(ca[w.cref]))
    BY <2>1 DEF Replaced
  <2>3. Live \subseteq DOMAIN ca
    BY DEF IInv, DatabaseTyped, Live
  <2>4. CASE v \in watches[p]
    <3>1. v.cref \in Live
      BY <2>1
    <3>2. LitsOf(ca[v.cref]) \subseteq LitsOf(ca'[v.cref])
      BY <2>1, <2>3, <3>1
    <3> QED
      BY <1>1, <2>4, <3>1, <3>2
  <2>5. CASE v = Watcher(w.cref, First(ca[w.cref]))
    BY <2>1, <2>5 DEF Watcher, LitsOf
  <2> QED
    BY <2>2, <2>4, <2>5
<1>6. ASSUME NEW w \in todo, NEW q \in Lits, Moved(w, q)
      PROVE  v.blocker \in LitsOf(ca'[v.cref]) \/ RootFalseNext(v.blocker)
  <2>0. pc = "propagate"
    BY <1>6 DEF IInv, Visiting, Moved, Visited
  <2>1. /\ \A cr \in DOMAIN ca : cr # w.cref => ca'[cr] = ca[cr]
        /\ LitsOf(ca'[w.cref]) = LitsOf(ca[w.cref]) /\ Live' = Live
        /\ watches'[Propagating] = watches[Propagating] \ {w}
        /\ watches'[Neg(q)] = watches[Neg(q)] \cup {Watcher(w.cref, First(ca[w.cref]))}
        /\ \A r \in Lits \ {Propagating, Neg(q)} : watches'[r] = watches[r]
        /\ ca'[w.cref].w0 = First(ca[w.cref])
    BY <1>6, <2>0, MovedFacts
  <2>2. v \in watches[p] \/ v = Watcher(w.cref, First(ca[w.cref]))
    BY <2>1
  <2>3. Live \subseteq DOMAIN ca
    BY DEF IInv, DatabaseTyped, Live
  <2>4. CASE v \in watches[p]
    <3>1. v.cref \in Live
      BY <2>1
    <3>2. LitsOf(ca[v.cref]) \subseteq LitsOf(ca'[v.cref])
      BY <2>1, <2>3, <3>1
    <3> QED
      BY <1>1, <2>4, <3>1, <3>2
  <2>5. CASE v = Watcher(w.cref, First(ca[w.cref]))
    BY <2>1, <2>5 DEF Watcher, LitsOf
  <2> QED
    BY <2>2, <2>4, <2>5
<1>7. ASSUME NEW gone \in SUBSET Live, NEW short \in SUBSET Live, Removed(gone, short)
      PROVE  v.blocker \in LitsOf(ca'[v.cref]) \/ RootFalseNext(v.blocker)
  <2>1. /\ Live' = Live \ gone /\ Live' \subseteq DOMAIN ca'
        /\ \A cr \in DOMAIN ca' :
              /\ ca'[cr].w0 = ca[cr].w0 /\ ca'[cr].w1 = ca[cr].w1
              /\ \A q \in ca[cr].rest : q \notin ca'[cr].rest => cr \in short /\ IsFalse(q)
        /\ \A r \in Lits : watches'[r] \subseteq watches[r]
    BY <1>7, RemovedFacts
  <2>2. v \in watches[p] /\ v.cref \in Live
    BY <2>1, watches'[p] \subseteq watches[p]
  <2>3. v.blocker \in Lits /\ (v.blocker \in LitsOf(ca[v.cref]) \/ RootFalse(v.blocker))
    BY <2>2, BlockersNow
  <2>4. CASE v.blocker \in LitsOf(ca[v.cref]) /\ v.blocker \notin LitsOf(ca'[v.cref])
    <3>1. v.cref \in short /\ IsFalse(v.blocker)
      <4>1. v.cref \in DOMAIN ca'
        BY <2>1
      <4>2. v.blocker \in ca[v.cref].rest /\ v.blocker \notin ca'[v.cref].rest
        BY <2>1, <2>4, <4>1 DEF LitsOf
      <4> QED
        BY <2>1, <4>1, <4>2
    <3>2. decisionLevel = 0
      BY <1>7, <3>1 DEF Removed
    <3>3. Neg(v.blocker) \in Lits /\ Var(Neg(v.blocker)) = Var(v.blocker)
      BY <2>3, LitFacts
    <3>4. Var(v.blocker) \in Assigned
      BY <3>1, <3>3 DEF IsFalse, Assigned
    <3>5. level(Var(v.blocker)) = 0
      BY <3>2, <3>4, Levels DEF LevelsFacts
    <3> QED
      BY <2>3, <3>1, <3>5, RootFalseKept DEF RootFalse
  <2> QED
    BY <2>3, <2>4, RootFalseKept
<1> QED
  BY <1>2, <1>3, <1>4, <1>5, <1>6, <1>7, MemorySteps DEF MemoryStep

-----------------------------------------------------------------------------
(* A fact, a watcher of its list, and what the guard of it asks for. *)
Asked(k, w) ==
  /\ k \in 1 .. qhead /\ w \in watches[trail[k]] /\ w.cref \in Live
  /\ Done(k, w) /\ (Analysing => ~AtPresent(k))
(* Held, after the step. *)
HeldNext(k, w) ==
  /\ w.blocker \in TrueLits'
  /\ vardata'[Var(w.blocker)].level <= vardata'[Var(trail'[k])].level

(* propagate visits watchers of literals of the present level only, and no
   true literal is of a later one. *)
LEMMA VisitLevel ==
  ASSUME IInv, pc = "propagate", NEW w \in todo
  PROVE  /\ qhead \in DOMAIN trail /\ level(Var(trail[qhead])) = decisionLevel
         /\ \A q \in Lits : IsTrue(q) => level(Var(q)) <= decisionLevel
         /\ \A k \in DOMAIN trail : k <= qhead => level(Var(trail[k])) <= decisionLevel
<1>1. qhead \in DOMAIN trail
  BY VisitFacts DEF VFacts
<1>2. LevelsFacts
  BY Levels
<1>3. \A i \in DOMAIN trail_lim : trail_lim[i] < qhead
  BY DEF IInv, Queued
<1>4. level(Var(trail[qhead])) \in 0 .. decisionLevel
  BY <1>1, <1>2 DEF LevelsFacts
<1>5. decisionLevel > 0 => decisionLevel \in DOMAIN trail_lim
  BY <1>2 DEF LevelsFacts
<1>6. decisionLevel > 0 => decisionLevel <= level(Var(trail[qhead]))
  BY <1>1, <1>2, <1>3, <1>5 DEF LevelsFacts
<1>7. level(Var(trail[qhead])) = decisionLevel
  BY <1>2, <1>4, <1>6 DEF LevelsFacts
<1>8. ASSUME NEW q \in Lits, IsTrue(q) PROVE level(Var(q)) <= decisionLevel
  <2>1. PICK k \in DOMAIN trail : q = trail[k]
    BY <1>8, TrailFacts
  <2> QED
    BY <1>2, <2>1 DEF LevelsFacts
<1> QED
  BY <1>1, <1>2, <1>7, <1>8 DEF LevelsFacts

(* Elements of a watch list. *)
LEMMA ListMember ==
  ASSUME IInv, NEW p \in Lits, NEW w \in watches[p]
  PROVE  w \in [cref : CRefs, blocker : Lits] /\ w.blocker \in Lits /\ w.cref \in CRefs
BY DEF IInv, DatabaseTyped

(* The guard of a fact that a step leaves where it is. *)
LEMMA Inherit ==
  ASSUME IInv, Guarded, Next, ok, NEW lev, Keeps(lev), NEW k, NEW w, Asked(k, w),
         level(Var(trail[k])) <= lev, lev \in Nat
  PROVE  HeldNext(k, w)
<1>1. Held(k, w)
  BY DEF Guarded, Asked
<1>2. k \in DOMAIN trail /\ trail[k] \in Lits /\ IsTrue(trail[k])
  BY TrailFacts DEF Asked, IInv, TrailTyped
<1>3. w.blocker \in Lits
  BY <1>2, ListMember DEF Asked
<1>4. level(Var(w.blocker)) \in Nat /\ level(Var(trail[k])) \in Nat
  <2>1. PICK i \in DOMAIN trail : trail[i] = w.blocker
    BY <1>1, <1>3, TrailFacts DEF Held
  <2> QED
    BY <1>2, <2>1, TrailFacts DEF level
<1>5. IsTrue(w.blocker) /\ level(Var(w.blocker)) <= level(Var(trail[k])) /\ level(Var(w.blocker)) <= lev
  BY <1>1, <1>4 DEF Held
<1>6. w.blocker \in TrueLits' /\ vardata'[Var(w.blocker)].level = level(Var(w.blocker))
  BY <1>3, <1>5, TrueKept
<1>7. trail'[k] = trail[k] /\ vardata'[Var(trail[k])].level = level(Var(trail[k]))
  BY <1>2 DEF Keeps
<1> QED
  BY <1>5, <1>6, <1>7 DEF HeldNext

(* A watcher whose blocker is true holds of a fact of the present level. *)
LEMMA HeldAtPresent ==
  ASSUME IInv, Next, pc = "propagate", NEW x \in todo, Keeps(decisionLevel),
         NEW w, w.blocker \in Lits, IsTrue(w.blocker)
  PROVE  HeldNext(qhead, w)
<1>1. /\ qhead \in DOMAIN trail /\ level(Var(trail[qhead])) = decisionLevel
      /\ level(Var(w.blocker)) <= decisionLevel /\ decisionLevel \in Nat
  BY VisitLevel, TrailFacts
<1>2. w.blocker \in TrueLits' /\ vardata'[Var(w.blocker)].level = level(Var(w.blocker))
  BY <1>1, TrueKept
<1>3. trail'[qhead] = trail[qhead] /\ vardata'[Var(trail[qhead])].level = level(Var(trail[qhead]))
  BY <1>1 DEF Keeps
<1> QED
  BY <1>1, <1>2, <1>3 DEF HeldNext

(* The same question about the next state. *)
AskedNext(k, w) ==
  /\ k \in 1 .. qhead' /\ w \in watches'[trail'[k]] /\ w.cref \in Live'
  /\ k < qhead' \/ (k = qhead' /\ w \notin todo')
  /\ pc' \in {"conflict", "learn"} =>
       ~(vardata'[Var(trail'[k])].level = Len(trail_lim'))

(* What is to be shown of a fact and a watcher after a step. *)
LEMMA GuardedNext ==
  ASSUME ok' => \A k, w : AskedNext(k, w) => HeldNext(k, w)
  PROVE  Guarded'
<1> SUFFICES ASSUME ok', NEW k \in 1 .. qhead', NEW w \in watches'[trail'[k]],
                    w.cref \in Live', Done(k, w)', Analysing' => ~AtPresent(k)'
             PROVE  Held(k, w)'
  BY DEF Guarded
<1>1. AskedNext(k, w)
  BY DEF AskedNext, Done, Analysing, AtPresent, level, decisionLevel
<1>2. HeldNext(k, w)
  BY <1>1
<1> QED
  BY <1>2 DEF HeldNext, Held, IsTrue, level

(* A step that leaves the facts propagated so far and their lists alone. *)
LEMMA QuietGuarded ==
  ASSUME IInv, Guarded, Next, ok, Keeps(decisionLevel), qhead' = qhead,
         \A k \in 1 .. qhead : \A w \in watches'[trail[k]] : w.cref \in Live' =>
            w \in watches[trail[k]] /\ w.cref \in Live,
         todo \subseteq todo',
         Analysing => pc' \in {"conflict", "learn"} /\ decisionLevel = Len(trail_lim')
  PROVE  Guarded'
<1>0. LevelsFacts /\ qhead \in 0 .. Len(trail)
  BY Levels DEF IInv, TrailTyped
<1>1. SUFFICES ASSUME NEW k, NEW w, AskedNext(k, w) PROVE HeldNext(k, w)
  BY GuardedNext
<1>2. k \in 1 .. qhead /\ k \in DOMAIN trail
  BY <1>0, <1>1 DEF AskedNext, LevelsFacts
<1>3. level(Var(trail[k])) <= decisionLevel /\ decisionLevel \in Nat
  BY <1>0, <1>2 DEF LevelsFacts
<1>4. trail'[k] = trail[k] /\ vardata'[Var(trail[k])].level = level(Var(trail[k]))
  BY <1>2, <1>3 DEF Keeps
<1>5. w \in watches[trail[k]] /\ w.cref \in Live
  BY <1>1, <1>2, <1>4 DEF AskedNext
<1>6. Done(k, w)
  BY <1>1 DEF AskedNext, Done
<1>7. Analysing => ~AtPresent(k)
  BY <1>1, <1>4 DEF AskedNext, AtPresent
<1>8. Asked(k, w)
  BY <1>2, <1>5, <1>6, <1>7 DEF Asked
<1> QED
  BY <1>3, <1>8, Inherit

(* A step that takes back all levels but the first. *)
LEMMA CutGuarded ==
  ASSUME IInv, Guarded, Next, ok, NEW heap, cancelUntil(0, heap), UNCHANGED <<watches, dbVars>>,
         pc \notin {"propagate", "conflict", "learn"}
  PROVE  Guarded'
<1>0. LevelsFacts /\ Len(trail) = qhead /\ Len(trail) \in Nat /\ todo = {} /\ ~Analysing /\ Live' = Live
  BY Levels, TrailFacts DEF IInv, Control, Analysing, Live, dbVars
<1>1. SUFFICES ASSUME NEW k, NEW w, AskedNext(k, w) PROVE HeldNext(k, w)
  BY GuardedNext
<1>2. CutBack(0) /\ Len(trail') = Cut(0) /\ qhead' \in 0 .. Len(trail')
  BY ReturnFacts DEF Returned
<1>3. CFacts(0)
  BY <1>2, CutFacts
<1>4. k \in DOMAIN trail' /\ k \in DOMAIN trail /\ trail'[k] = trail[k] /\ k \in 1 .. Cut(0)
  <2>1. k \in 1 .. Cut(0)
    BY <1>1, <1>2 DEF AskedNext
  <2> QED
    BY <1>3, <2>1 DEF CFacts
<1>5. level(Var(trail[k])) <= 0
  <2>1. KFacts(0)
    BY <1>2, KeptFacts DEF CutBack
  <2> QED
    BY <1>4, <2>1 DEF KFacts
<1>6. k \in 1 .. qhead
  BY <1>0, <1>4 DEF LevelsFacts
<1>7. Asked(k, w)
  BY <1>0, <1>1, <1>4, <1>6 DEF AskedNext, Asked, Done
<1> QED
  BY <1>2, <1>5, <1>7, CutKeeps, Inherit

-----------------------------------------------------------------------------
(* A visit touches the guards of the fact that is visited only. *)
LEMMA VisitGuarded ==
  ASSUME IInv, Guarded, Next, ok, pc = "propagate", NEW x \in todo, Keeps(decisionLevel),
         qhead' = qhead, todo' = todo \ {x}, Live' = Live,
         \A k \in 1 .. qhead - 1 : watches'[trail[k]] \subseteq watches[trail[k]],
         \A w \in watches'[trail[qhead]] :
            (w \in watches[trail[qhead]] /\ w # x) \/ HeldNext(qhead, w)
  PROVE  Guarded'
<1>0. LevelsFacts /\ qhead \in 0 .. Len(trail) /\ decisionLevel \in Nat
  BY Levels, TrailFacts DEF IInv, TrailTyped
<1>1. SUFFICES ASSUME NEW k, NEW w, AskedNext(k, w), ~HeldNext(k, w) PROVE FALSE
  BY GuardedNext
<1>2. k \in 1 .. qhead /\ k \in DOMAIN trail /\ qhead \in DOMAIN trail
  BY <1>0, <1>1 DEF AskedNext, LevelsFacts
<1>3. level(Var(trail[k])) <= decisionLevel
  BY <1>0, <1>2 DEF LevelsFacts
<1>4. trail'[k] = trail[k]
  BY <1>2, <1>3 DEF Keeps
<1>5. w \in watches'[trail[k]] /\ w.cref \in Live
  BY <1>1, <1>4 DEF AskedNext
<1>6. w \in watches[trail[k]] /\ Done(k, w)
  <2>1. CASE k = qhead
    <3>1. w \in watches[trail[qhead]] /\ w # x
      BY <1>1, <1>5, <2>1
    <3>2. w \notin todo'
      BY <1>0, <1>1, <2>1 DEF AskedNext
    <3> QED
      BY <2>1, <3>1, <3>2 DEF Done
  <2>2. CASE k # qhead
    <3>1. k \in 1 .. qhead - 1 /\ k < qhead
      BY <1>0, <1>2, <2>2
    <3> QED
      BY <1>5, <3>1 DEF Done
  <2> QED
    BY <2>1, <2>2
<1>7. Asked(k, w)
  BY <1>2, <1>5, <1>6 DEF Asked, Analysing
<1>8. HeldNext(k, w)
  BY <1>0, <1>3, <1>7, Inherit
<1> QED
  BY <1>1, <1>8

(* A list of another literal may gain the moved watcher and nothing else. *)
LEMMA OtherLists ==
  ASSUME IInv, qhead \in DOMAIN trail, NEW k \in DOMAIN trail, k # qhead
  PROVE  trail[k] \in Lits \ {Propagating}
BY Levels, TrailFacts DEF LevelsFacts, Propagating

(* The blocker is true, *)
LEMMA BlockedGuarded ==
  ASSUME IInv, Guarded, Next, ok, Blocked PROVE Guarded'
<1>1. PICK x \in todo : IsTrue(x.blocker) /\ todo' = todo \ {x}
  BY DEF Blocked, Skipped, Visit
<1>2. pc = "propagate" /\ UNCHANGED <<watches, trail, vardata, qhead>> /\ Live' = Live
  BY DEF Blocked, Visit, Live, dbVars
<1>3. Keeps(decisionLevel)
  BY <1>2, SameKeeps
<1>4. VFacts(x)
  BY <1>2, VisitFacts
<1>5. x.blocker \in Lits
  BY <1>4 DEF VFacts
<1>6. HeldNext(qhead, x)
  BY <1>1, <1>2, <1>3, <1>5, HeldAtPresent
<1> QED
  BY <1>1, <1>2, <1>3, <1>6, VisitGuarded

(* (the list after two watched literals were exchanged) *)
LEMMA RewriteLists ==
  ASSUME IInv, pc = "propagate", NEW x \in todo, Rewritten(x)
  PROVE  /\ Live' = Live
         /\ \A k \in 1 .. qhead - 1 : watches'[trail[k]] = watches[trail[k]]
         /\ \A w \in watches'[trail[qhead]] :
              (w \in watches[trail[qhead]] /\ w # x) \/ w = Watcher(x.cref, First(ca[x.cref]))
         /\ First(ca[x.cref]) \in Lits /\ qhead \in DOMAIN trail
<1>1. qhead \in DOMAIN trail /\ Propagating = trail[qhead] /\ First(ca[x.cref]) \in Lits
  BY VisitFacts DEF VFacts
<1>2. /\ watches'[Propagating] = Replaced(x) /\ Live' = Live
      /\ \A r \in Lits \ {Propagating} : watches'[r] = watches[r]
  BY RewrittenFacts
<1>3. \A k \in 1 .. qhead - 1 : trail[k] \in Lits \ {Propagating}
  BY <1>1, OtherLists, TrailFacts
<1> QED
  BY <1>1, <1>2, <1>3 DEF Replaced

(* or the other watched literal is, and becomes the blocker, *)
LEMMA FirstTrueGuarded ==
  ASSUME IInv, Guarded, Next, ok, FirstTrue PROVE Guarded'
<1>1. PICK x \in todo :
         /\ IsTrue(First(ca[x.cref]))
         /\ ca' = [ca EXCEPT ![x.cref] = Swapped(@)]
         /\ watches' = [watches EXCEPT ![Propagating] = Replaced(x)]
         /\ Visit(x)
  BY DEF FirstTrue
<1>2. pc = "propagate" /\ UNCHANGED <<trail, vardata, qhead>> /\ todo' = todo \ {x}
  BY <1>1 DEF FirstTrue, Visit
<1>3. Rewritten(x)
  <2>1. Visited(x)
    BY <1>2, VisitFacts DEF VFacts
  <2> QED
    BY <1>1, <2>1 DEF Rewritten, Visit
<1>4. Keeps(decisionLevel)
  BY <1>2, SameKeeps
<1> DEFINE v == Watcher(x.cref, First(ca[x.cref]))
<1>5. /\ Live' = Live
      /\ \A k \in 1 .. qhead - 1 : watches'[trail[k]] = watches[trail[k]]
      /\ \A w \in watches'[trail[qhead]] : (w \in watches[trail[qhead]] /\ w # x) \/ w = v
      /\ First(ca[x.cref]) \in Lits
  BY <1>2, <1>3, RewriteLists
<1>6. v.blocker = First(ca[x.cref])
  BY DEF Watcher
<1>7. HeldNext(qhead, v)
  BY <1>1, <1>2, <1>4, <1>5, <1>6, HeldAtPresent
<1> HIDE DEF v
<1> QED
  BY <1>2, <1>4, <1>5, <1>7, VisitGuarded

(* or it is made true, *)
LEMMA ImplyGuarded ==
  ASSUME IInv, Guarded, Next, ok, Imply PROVE Guarded'
<1>1. PICK x \in todo : Rewritten(x) /\ Pushed(First(ca[x.cref]), x.cref) /\ todo' = todo \ {x}
  BY ImplyPushes
<1>2. pc = "propagate" /\ qhead' = qhead
  BY DEF Imply
<1> DEFINE p == First(ca[x.cref])
           v == Watcher(x.cref, p)
<1>3. Grown(p, x.cref, decisionLevel)
  BY <1>1, PushGrows
<1>4. Keeps(decisionLevel) /\ GFacts(p, x.cref, decisionLevel)
  BY <1>3, GrownKeeps, GrownFacts
<1>5. /\ Live' = Live
      /\ \A k \in 1 .. qhead - 1 : watches'[trail[k]] = watches[trail[k]]
      /\ \A w \in watches'[trail[qhead]] : (w \in watches[trail[qhead]] /\ w # x) \/ w = v
      /\ qhead \in DOMAIN trail
  BY <1>1, <1>2, RewriteLists
<1>6. v.blocker = p
  BY DEF Watcher
<1> HIDE DEF v, p
<1>7. p \in TrueLits'
  <2>1. trail' = Append(trail, p) /\ p \in Lits
    BY <1>3 DEF Grown
  <2>2. trail'[Len(trail) + 1] = p /\ Len(trail) + 1 \in DOMAIN trail'
    BY <2>1, TrailFacts, Appended
  <2> QED
    BY <2>2, NextAssigned
<1>8. vardata'[Var(p)].level = decisionLevel
  BY <1>4 DEF GFacts
<1>9. trail'[qhead] = trail[qhead] /\ vardata'[Var(trail[qhead])].level = decisionLevel
  <2>1. level(Var(trail[qhead])) = decisionLevel
    BY <1>2, <1>1, VisitLevel
  <2> QED
    BY <1>4, <1>5, <2>1, TrailFacts DEF Keeps
<1>10. HeldNext(qhead, v)
  BY <1>6, <1>7, <1>8, <1>9, TrailFacts DEF HeldNext
<1> QED
  BY <1>1, <1>2, <1>4, <1>5, <1>10, VisitGuarded

(* or the clause leaves the list for that of a literal that was not false,
   whose negation was not propagated. *)
LEMMA MoveGuarded ==
  ASSUME IInv, Guarded, Next, ok, MoveWatch PROVE Guarded'
<1>1. PICK x \in todo : \E q \in NewWatches(ca[x.cref]) :
        /\ ca' = [ca EXCEPT ![x.cref] =
                        [ca[x.cref] EXCEPT !.w0 = First(ca[x.cref]), !.w1 = q,
                                  !.rest = (@ \ {q}) \cup {false_lit}]]
        /\ watches' = [watches EXCEPT
                         ![Propagating] = @ \ {x},
                         ![ListFor(q)] = @ \cup {Watcher(x.cref, First(ca[x.cref]))}]
        /\ Visit(x)
  BY DEF MoveWatch
<1>2. PICK q \in NewWatches(ca[x.cref]) :
        /\ ca' = [ca EXCEPT ![x.cref] =
                        [ca[x.cref] EXCEPT !.w0 = First(ca[x.cref]), !.w1 = q,
                                  !.rest = (@ \ {q}) \cup {false_lit}]]
        /\ watches' = [watches EXCEPT
                         ![Propagating] = @ \ {x},
                         ![ListFor(q)] = @ \cup {Watcher(x.cref, First(ca[x.cref]))}]
        /\ Visit(x)
  BY <1>1
<1>3. pc = "propagate" /\ UNCHANGED <<trail, vardata, qhead>> /\ todo' = todo \ {x}
  BY <1>2 DEF MoveWatch, Visit
<1>4. Visited(x) /\ ca[x.cref] \in Clause /\ qhead \in DOMAIN trail /\ Propagating = trail[qhead]
  BY <1>3, VisitFacts DEF VFacts
<1>5. q \in ca[x.cref].rest /\ ~IsFalse(q) /\ q \in Lits
  BY <1>4 DEF NewWatches, Clause
<1>6. Moved(x, q)
  BY <1>2, <1>4, <1>5 DEF Moved, Visit, ListFor
<1>7. /\ Live' = Live /\ Neg(q) # Propagating
      /\ watches'[Propagating] = watches[Propagating] \ {x}
      /\ \A r \in Lits \ {Propagating, Neg(q)} : watches'[r] = watches[r]
  BY <1>3, <1>5, <1>6, MovedFacts
<1>8. \A k \in DOMAIN trail : trail[k] # Neg(q)
  BY <1>5, TrailFacts DEF IsFalse, IsTrue
<1>9. \A k \in 1 .. qhead - 1 : trail[k] \in Lits \ {Propagating} /\ k \in DOMAIN trail
  <2>1. \A k \in 1 .. qhead - 1 : k \in DOMAIN trail /\ k # qhead
    BY <1>4, TrailFacts
  <2> QED
    BY <1>4, <2>1, OtherLists
<1>10. Keeps(decisionLevel)
  BY <1>3, SameKeeps
<1>11. \A k \in 1 .. qhead - 1 : watches'[trail[k]] \subseteq watches[trail[k]]
  BY <1>7, <1>8, <1>9
<1>12. \A w \in watches'[trail[qhead]] : w \in watches[trail[qhead]] /\ w # x
  BY <1>4, <1>7
<1> QED
  BY <1>3, <1>7, <1>10, <1>11, <1>12, VisitGuarded

(* A fact that propagate begins with has all its watchers to be visited. *)
LEMMA NextFactGuarded ==
  ASSUME IInv, Guarded, Next, ok, NextFact PROVE Guarded'
<1>0. LevelsFacts /\ qhead \in 0 .. Len(trail) /\ decisionLevel \in Nat
  BY Levels, TrailFacts DEF IInv, TrailTyped
<1>1. /\ pc = "propagate" /\ todo = {} /\ qhead < Len(trail) /\ qhead' = qhead + 1
      /\ UNCHANGED <<trail, vardata>> /\ todo' = Cleaned(trail[qhead + 1]) /\ Live' = Live
  BY DEF NextFact, Live, dbVars
<1> DEFINE p == trail[qhead + 1]
<1>2. qhead + 1 \in DOMAIN trail /\ p \in Lits
  BY <1>0, <1>1, TrailFacts DEF LevelsFacts
<1>3. LookedUp(p)
  BY DEF NextFact, LookedUp
<1>4. watches'[p] = Cleaned(p) /\ \A r \in Lits \ {p} : watches'[r] = watches[r]
  BY <1>2, <1>3, LookedUpFacts
<1>5. SUFFICES ASSUME NEW k, NEW w, AskedNext(k, w) PROVE HeldNext(k, w)
  BY GuardedNext
<1>6. k \in 1 .. qhead + 1 /\ w \in watches'[trail[k]] /\ w.cref \in Live
      /\ (k < qhead + 1 \/ (k = qhead + 1 /\ w \notin todo'))
  BY <1>1, <1>5 DEF AskedNext
<1>7. k # qhead + 1
  <2>1. SUFFICES ASSUME k = qhead + 1 PROVE FALSE
    OBVIOUS
  <2> QED
    BY <1>0, <1>1, <1>4, <1>6, <2>1
<1>8. k \in 1 .. qhead /\ k \in DOMAIN trail
  BY <1>0, <1>6, <1>7 DEF LevelsFacts
<1>9. trail[k] \in Lits \ {p}
  BY <1>0, <1>2, <1>7, <1>8, TrailFacts DEF LevelsFacts
<1>10. w \in watches[trail[k]]
  BY <1>4, <1>6, <1>9
<1>11. Asked(k, w)
  BY <1>0, <1>1, <1>6, <1>8, <1>10 DEF Asked, Done, Analysing
<1>12. Keeps(decisionLevel) /\ level(Var(trail[k])) <= decisionLevel
  BY <1>0, <1>1, <1>8, SameKeeps DEF LevelsFacts
<1> QED
  BY <1>0, <1>11, <1>12, Inherit

(* A conflict leaves watchers of the present level unvisited, and drops the
   queue. *)
LEMMA ClashGuarded ==
  ASSUME IInv, Guarded, Next, ok, Clash PROVE Guarded'
<1>0. LevelsFacts /\ qhead \in 0 .. Len(trail) /\ decisionLevel \in Nat /\ decisionLevel = Len(trail_lim)
  BY Levels, TrailFacts DEF IInv, TrailTyped
<1>1. PICK x \in todo :
         /\ ca' = [ca EXCEPT ![x.cref] = Swapped(ca[x.cref])]
         /\ watches' = [watches EXCEPT ![Propagating] = Replaced(x)]
  BY DEF Clash
<1>2. pc = "propagate" /\ UNCHANGED <<trail, trail_lim, vardata>> /\ qhead' = Len(trail)
      /\ (ok' => pc' = "conflict")
  BY DEF Clash
<1>3. Rewritten(x)
  <2>1. Visited(x)
    BY <1>2, VisitFacts DEF VFacts
  <2> QED
    BY <1>1, <2>1 DEF Rewritten, Clash
<1>4. /\ Live' = Live /\ qhead \in DOMAIN trail
      /\ \A k \in 1 .. qhead - 1 : watches'[trail[k]] = watches[trail[k]]
  BY <1>2, <1>3, RewriteLists
<1>5. level(Var(trail[qhead])) = decisionLevel
  BY <1>2, VisitLevel
<1>6. SUFFICES ASSUME ok', NEW k, NEW w, AskedNext(k, w) PROVE HeldNext(k, w)
  BY GuardedNext
<1>7. /\ k \in 1 .. Len(trail) /\ k \in DOMAIN trail /\ w \in watches'[trail[k]] /\ w.cref \in Live
      /\ level(Var(trail[k])) # decisionLevel
  BY <1>0, <1>2, <1>4, <1>6 DEF AskedNext, LevelsFacts, level
<1>8. level(Var(trail[k])) \in 0 .. decisionLevel
  BY <1>0, <1>7 DEF LevelsFacts
<1>9. k < qhead
  <2>1. SUFFICES ASSUME qhead <= k PROVE FALSE
    BY <1>0, <1>7
  <2>2. decisionLevel <= level(Var(trail[k]))
    BY <1>0, <1>4, <1>5, <1>7, <2>1 DEF LevelsFacts
  <2> QED
    BY <1>0, <1>7, <1>8, <2>2
<1>10. k \in 1 .. qhead - 1
  BY <1>0, <1>7, <1>9
<1>11. Asked(k, w)
  BY <1>0, <1>2, <1>4, <1>7, <1>9, <1>10 DEF Asked, Done, Analysing
<1>12. Keeps(decisionLevel)
  BY <1>2, SameKeeps
<1> QED
  BY <1>0, <1>8, <1>11, <1>12, Inherit

(* A clause that is added has no false literal. *)
LEMMA AddLongGuarded ==
  ASSUME IInv, Guarded, Next, ok, AddLong PROVE Guarded'
<1>1. PICK p \in Remaining, q \in Remaining :
        /\ p < q
        /\ Attach([w0 |-> p, w1 |-> q, rest |-> Remaining \ {p, q},
                   learnt |-> FALSE, mark |-> FALSE])
  BY DEF AddLong
<1> DEFINE c == [w0 |-> p, w1 |-> q, rest |-> Remaining \ {p, q},
                 learnt |-> FALSE, mark |-> FALSE]
<1>2. script # <<>> /\ Head(script).call = "addClause" /\ Input = Head(script).lits
  BY DEF AddLong, AddCall, Called, Input
<1>3. Remaining \subseteq Lits /\ p \in Lits /\ q \in Lits /\ p # q
  <2>1. Input \subseteq Lits
    BY <1>2, CallTyped, CallFields DEF IInv
  <2>2. Remaining \subseteq Lits
    BY <2>1 DEF Remaining
  <2> QED
    BY <1>1, <2>2, LitFacts
<1>4. Neg(p) \notin TrueLits /\ Neg(q) \notin TrueLits
  BY DEF Remaining, IsFalse
<1>5. watches' = [watches EXCEPT ![Neg(p)] = @ \cup {Watcher(Fresh, q)},
                                 ![Neg(q)] = @ \cup {Watcher(Fresh, p)}]
  BY <1>1 DEF Attach
<1>6. DOMAIN watches = Lits
  BY DEF IInv, DatabaseTyped
<1>7. \A r \in Lits : r # Neg(p) /\ r # Neg(q) => watches'[r] = watches[r]
  BY <1>5, <1>6
<1>8. \A k \in 1 .. qhead : k \in DOMAIN trail /\ trail[k] \in Lits /\ trail[k] \in TrueLits
  BY TrailFacts DEF IInv, TrailTyped, IsTrue
<1>9. \A k \in 1 .. qhead : watches'[trail[k]] = watches[trail[k]]
  BY <1>4, <1>7, <1>8
<1>10. UNCHANGED <<trail, vardata, qhead, todo, pc, trail_lim>> /\ Live' = Live \cup {Fresh} /\ pc = "idle"
  BY DEF AddLong, AddCall, Called, Live
<1>11. Keeps(decisionLevel)
  BY <1>10, SameKeeps
<1>12. \A k \in 1 .. qhead : \A w \in watches[trail[k]] : w.cref # Fresh
  <2>1. \A k \in 1 .. qhead : \A w \in watches[trail[k]] : w.cref \in Live \/ w.cref \in DOMAIN ca
    BY <1>8 DEF IInv, Listed
  <2>2. Fresh \notin DOMAIN ca /\ Live \subseteq DOMAIN ca
    BY FreshFacts DEF IInv, DatabaseTyped, Live
  <2> QED
    BY <2>1, <2>2
<1>13. \A k \in 1 .. qhead : \A w \in watches'[trail[k]] : w.cref \in Live' =>
            w \in watches[trail[k]] /\ w.cref \in Live
  BY <1>9, <1>10, <1>12
<1>14. ~Analysing
  BY <1>10 DEF Analysing
<1> QED
  BY <1>10, <1>11, <1>13, <1>14, QuietGuarded

(* Removing clauses only takes watchers away. *)
LEMMA RemoveGuarded ==
  ASSUME IInv, Guarded, Next, ok, simplify \/ SimplifyCall \/ reduceDB PROVE Guarded'
<1>1. PICK gone \in SUBSET Live, short \in SUBSET Live : Removed(gone, short)
  BY RemovingSteps
<1>2. /\ Live' = Live \ gone
      /\ \A r \in Lits : watches'[r] \subseteq watches[r]
  BY <1>1, RemovedFacts
<1>3. pc \in {"idle", "decide", "reduce"} /\ todo' = todo /\ trail' = trail
  BY <1>1 DEF simplify, SimplifyCall, Called, reduceDB, Simplified, Removed
<1>4. qhead = Len(trail)
  BY <1>3 DEF IInv, Control
<1>5. qhead' = qhead
  BY <1>3, <1>4 DEF simplify, SimplifyCall, Simplified, reduceDB
<1>6. Keeps(decisionLevel)
  BY <1>1, RemovedKeeps
<1>7. \A k \in 1 .. qhead : trail[k] \in Lits
  BY <1>4, TrailFacts
<1>8. \A k \in 1 .. qhead : \A w \in watches'[trail[k]] : w.cref \in Live' =>
            w \in watches[trail[k]] /\ w.cref \in Live
  BY <1>2, <1>7
<1>9. ~Analysing
  BY <1>3 DEF Analysing
<1> QED
  BY <1>3, <1>5, <1>6, <1>8, <1>9, QuietGuarded

(* A learnt clause is filed under two facts that are taken back or that its
   asserted literal is no younger than. *)
LEMMA LearnGuarded ==
  ASSUME IInv, Guarded, Next, ok, Learn PROVE Guarded'
<1>0. LevelsFacts /\ qhead = Len(trail) /\ todo = {} /\ todo' = todo
  BY Levels DEF IInv, Control, Learn
<1>1. PICK bt0, p0, from0 : AfterConflict(bt0, p0, from0) /\ Asserted(bt0, p0, from0)
  BY LearnCuts
<1>2. SUFFICES ASSUME NEW k, NEW w, AskedNext(k, w) PROVE HeldNext(k, w)
  BY GuardedNext
<1>3. ASSUME NEW bt, NEW p, NEW from, Asserted(bt, p, from), qhead' = Cut(bt)
      PROVE  /\ k \in 1 .. Cut(bt) /\ k \in DOMAIN trail /\ trail'[k] = trail[k]
             /\ level(Var(trail[k])) <= bt /\ bt < decisionLevel /\ bt \in Nat /\ Keeps(bt)
             /\ (w \in watches[trail[k]] /\ w.cref \in Live => HeldNext(k, w))
             /\ p \in TrueLits' /\ vardata'[Var(p)].level = bt
             /\ w \in watches'[trail[k]]
  <2>1. AFacts(bt, p, from)
    BY <1>3, AssertFacts
  <2>2. bt \in 0 .. decisionLevel /\ bt < decisionLevel /\ bt \in Nat
    BY <1>0, <2>1 DEF AFacts, LevelsFacts
  <2>3. KFacts(bt)
    BY <2>2, KeptFacts
  <2>4. k \in 1 .. Cut(bt) /\ w \in watches'[trail'[k]]
    BY <1>2, <1>3 DEF AskedNext
  <2>5. k \in DOMAIN trail /\ trail'[k] = trail[k]
    BY <2>1, <2>4 DEF AFacts
  <2>6. level(Var(trail[k])) <= bt
    BY <2>3, <2>4, <2>5 DEF KFacts
  <2>7. ~AtPresent(k)
    BY <2>2, <2>6, <2>5, <1>0 DEF AtPresent, LevelsFacts
  <2>8. k \in 1 .. qhead
    BY <1>0, <2>5 DEF LevelsFacts
  <2>9. Keeps(bt)
    BY <1>3, AssertKeeps
  <2>10. w \in watches[trail[k]] /\ w.cref \in Live => Asked(k, w)
    <3>1. Len(trail) \in Nat
      BY <1>0 DEF LevelsFacts
    <3>2. Done(k, w)
      BY <1>0, <2>8, <3>1 DEF Done
    <3> QED
      BY <2>7, <2>8, <3>2 DEF Asked
  <2>11. w \in watches[trail[k]] /\ w.cref \in Live => HeldNext(k, w)
    BY <2>2, <2>6, <2>9, <2>10, Inherit
  <2>12. p \in TrueLits' /\ vardata'[Var(p)].level = bt
    <3>1. trail'[Cut(bt) + 1] = p /\ Cut(bt) + 1 \in DOMAIN trail' /\ vardata'[Var(p)].level = bt
      BY <1>0, <2>1 DEF AFacts, LevelsFacts
    <3> QED
      BY <3>1, NextAssigned
  <2> QED
    BY <2>2, <2>4, <2>5, <2>6, <2>9, <2>11, <2>12
<1>4. ASSUME NEW bt, NEW p, NEW from, Asserted(bt, p, from)
      PROVE  qhead' = Cut(bt)
  <2>1. bt \in 0 .. decisionLevel - 1 /\ Len(trail_lim') = bt
    BY <1>4, AssertFacts DEF AFacts
  <2>2. bt0 \in 0 .. decisionLevel - 1 /\ Len(trail_lim') = bt0
    BY <1>1, AssertFacts DEF AFacts
  <2> QED
    BY <1>0, <1>1, <2>1, <2>2 DEF AfterConflict, QheadAfter, LevelsFacts
<1>5. CASE LearntUnit(Asserting)
  <2>1. Asserted(0, Asserting, CRef_Undef) /\ watches' = watches /\ Live' = Live
    BY <1>5 DEF LearntUnit, Live, dbVars
  <2>2. qhead' = Cut(0)
    BY <1>4, <2>1
  <2>3. w.cref \in Live
    BY <1>2, <2>1 DEF AskedNext
  <2> QED
    BY <1>3, <2>1, <2>2, <2>3
<1>6. ASSUME NEW q, NEW kept, LearntClause(Asserting, q, kept)
      PROVE  HeldNext(k, w)
  <2> DEFINE p == Asserting
             bt == level(Var(q))
             c == [w0 |-> p, w1 |-> q, rest |-> kept \ {q}, learnt |-> TRUE, mark |-> FALSE]
  <2>1. Asserted(bt, p, Fresh) /\ c \in Clause /\ Attached(c)
    BY <1>6 DEF LearntClause
  <2>2. qhead' = Cut(bt)
    BY <1>4, <2>1
  <2>3. /\ k \in DOMAIN trail /\ trail'[k] = trail[k]
        /\ level(Var(trail[k])) <= bt /\ bt < decisionLevel /\ bt \in Nat /\ Keeps(bt)
        /\ (w \in watches[trail[k]] /\ w.cref \in Live => HeldNext(k, w))
        /\ p \in TrueLits' /\ vardata'[Var(p)].level = bt
        /\ w \in watches'[trail[k]]
    BY <1>3, <2>1, <2>2
  <2>4. q \in Lits /\ pc = "learn"
    BY <1>6, LearntPlaces
  <2>5. /\ Fresh \notin DOMAIN ca /\ Live' = Live \cup {Fresh}
        /\ watches'[Neg(c.w0)] = watches[Neg(c.w0)] \cup {Watcher(Fresh, c.w1)}
        /\ watches'[Neg(c.w1)] = watches[Neg(c.w1)] \cup {Watcher(Fresh, c.w0)}
        /\ \A r \in Lits \ {Neg(c.w0), Neg(c.w1)} : watches'[r] = watches[r]
    BY <2>1, AttachedFacts
  <2>6. c.w0 = p /\ c.w1 = q
    OBVIOUS
  <2> HIDE DEF c
  <2>7. trail[k] # Neg(p)
    <3>1. index \in DOMAIN trail /\ level(Var(trail[index])) = decisionLevel /\ Neg(p) = trail[index]
      BY <2>4, LearntFacts, LitFacts DEF Asserting
    <3> QED
      BY <1>0, <2>3, <3>1 DEF LevelsFacts
  <2>8. trail[k] \in Lits
    BY <2>3, TrailFacts
  <2>9. CASE w \in watches[trail[k]]
    <3>1. w.cref # Fresh
      <4>1. w.cref \in Live \/ w.cref \in DOMAIN ca
        BY <2>8, <2>9 DEF IInv, Listed
      <4> QED
        BY <2>5, <4>1 DEF IInv, DatabaseTyped, Live
    <3>2. w.cref \in Live
      BY <1>2, <2>5, <3>1 DEF AskedNext
    <3> QED
      BY <2>3, <2>9, <3>2
  <2>10. CASE w \notin watches[trail[k]]
    <3>1. trail[k] = Neg(q) /\ w = Watcher(Fresh, p)
      BY <2>3, <2>5, <2>6, <2>7, <2>8, <2>10
    <3>2. Var(trail[k]) = Var(q)
      BY <2>4, <3>1, LitFacts
    <3>3. vardata'[Var(trail[k])].level = bt
      BY <2>3, <3>2 DEF Keeps
    <3>4. w.blocker = p
      BY <3>1 DEF Watcher
    <3> QED
      BY <2>3, <3>3, <3>4 DEF HeldNext
  <2> QED
    BY <2>9, <2>10
<1> QED
  BY <1>5, <1>6, LearnCases

(* What propagate is done with stays guarded: the blocker of every watcher
   of a propagated fact is true, no later than the fact. *)
LEMMA GuardedStep ==
  ASSUME IInv, Guarded, Next PROVE Guarded'
<1>1. CASE ~ok'
  BY <1>1 DEF Guarded
<1>2. CASE ok'
  <2>1. ok
    BY <1>2, NoRelease DEF IInv, Control, Idle, Next, user, solver, propagate, analyze, search,
       newVar, AddNothing, AddEmpty, AddUnit, AddLong, AddCall, SimplifySkipped, SimplifyCall, Called,
       Simplified, simplify, Solve,
       SolveDead, NextFact, Blocked, FirstTrue, MoveWatch, Imply, Clash, Visit, Propagated, RootConflict, Resolve,
       Learn, Restart, Interrupted, NotSimplified, reduceDB, NotReduced, DummyLevel, Assume, Pending,
       AssumptionFalse, FinalStep, FinalDone, Branch, ModelFound, LoopTyped
  <2>2. CASE Restart \/ Interrupted \/ FinalDone \/ ModelFound
    <3>1. (\E heap : cancelUntil(0, heap)) /\ UNCHANGED <<watches, dbVars>>
          /\ pc \notin {"propagate", "conflict", "learn"}
      BY <2>2 DEF Restart, Interrupted, FinalDone, ModelFound, Return, memVars
    <3> QED
      BY <2>1, <3>1, CutGuarded
  <2>3. CASE AddUnit \/ Assume \/ Branch
    <3>1. Keeps(decisionLevel)
      <4>1. ASSUME NEW p, NEW from, Pushed(p, from) PROVE Keeps(decisionLevel)
        BY <4>1, PushGrows, GrownKeeps
      <4>2. ASSUME NEW p, DecidedOn(p) PROVE Keeps(decisionLevel)
        BY <4>2, DecideGrows, GrownKeeps
      <4> QED
        BY <2>3, <4>1, <4>2, AddUnitPushes, AssumeDecides, BranchDecides
    <3>2. UNCHANGED <<watches, dbVars, qhead, todo>> /\ ~Analysing
      BY <2>3 DEF AddUnit, AddCall, Called, Assume, Branch, Pending, Analysing, memVars
    <3>3. Live' = Live
      BY <3>2 DEF Live, dbVars
    <3> QED
      BY <2>1, <3>1, <3>2, <3>3, QuietGuarded
  <2>4. CASE \/ newVar \/ AddNothing \/ AddEmpty \/ SimplifySkipped \/ Solve
             \/ Propagated \/ Resolve \/ NotSimplified \/ NotReduced
             \/ AssumptionFalse \/ FinalStep \/ DummyLevel
    <3>1. UNCHANGED <<trail, vardata, watches, dbVars, qhead, todo>>
      BY <2>4 DEF newVar, AddNothing, AddEmpty, AddCall, SimplifySkipped, Solve, DummyLevel,
         Propagated, Resolve, NotSimplified, NotReduced,
         AssumptionFalse, FinalStep, trailVars, memVars
    <3>2. Analysing => pc' \in {"conflict", "learn"} /\ UNCHANGED trail_lim
      BY <2>4 DEF newVar, AddNothing, AddEmpty, AddCall, Called, SimplifySkipped, Solve, DummyLevel,
         Pending, Propagated, Resolve, NotSimplified, NotReduced,
         AssumptionFalse, FinalStep, trailVars, Analysing
    <3>3. Live' = Live /\ Keeps(decisionLevel)
      BY <3>1, SameKeeps DEF Live, dbVars
    <3>4. Analysing => pc' \in {"conflict", "learn"} /\ decisionLevel = Len(trail_lim')
      BY <3>2, TrailFacts
    <3> QED
      BY <2>1, <3>1, <3>3, <3>4, QuietGuarded
  <2>5. CASE SolveDead \/ RootConflict
    BY <1>2, <2>1, <2>5 DEF SolveDead, RootConflict, IInv, Control
  <2> QED
    BY <2>1, <2>2, <2>3, <2>4, <2>5, BlockedGuarded, FirstTrueGuarded, ImplyGuarded, MoveGuarded,
       NextFactGuarded, ClashGuarded, AddLongGuarded, RemoveGuarded, LearnGuarded, NoRelease
       DEF IInv, Next, user, solver, propagate, analyze, search
<1> QED
  BY <1>1, <1>2

-----------------------------------------------------------------------------
(* No lists to begin with. *)
LEMMA InitWatches ==
  ASSUME Init PROVE Blockers /\ Guarded
<1>1. clauses = {} /\ learnts = {} /\ qhead = 0
  BY DEF Init
<1> QED
  BY <1>1 DEF Blockers, Guarded, Live

(* A step that changes nothing. *)
LEMMA StutterWatches ==
  ASSUME Blockers, Guarded, UNCHANGED vars PROVE Blockers' /\ Guarded'
<1> USE SameState
<1>1. Live' = Live /\ TrueLits' = TrueLits /\ decisionLevel' = decisionLevel
  BY DEF Live, TrueLits, decisionLevel
<1>2. Blockers'
  BY <1>1 DEF Blockers, IsFalse, level
<1>3. Guarded'
  BY <1>1 DEF Guarded, Done, Held, Analysing, AtPresent, IsTrue, level
<1> QED
  BY <1>2, <1>3

(* Blockers and guards, of every solver whose user releases no variable. *)
THEOREM Watching ==
  ASSUME NeverReleases PROVE Spec => [](Blockers /\ Guarded)
<1>1. Init => Blockers /\ Guarded
  BY InitWatches
<1>2. IInv /\ Blockers /\ Guarded /\ [Next]_vars => Blockers' /\ Guarded'
  BY BlockersStep, GuardedStep, StutterWatches
<1> QED
  BY <1>1, <1>2, Inductive, PTL DEF Spec

(* No literal is true and false. *)
LEMMA NotBoth ==
  ASSUME IInv, NEW p \in Lits, IsTrue(p), IsFalse(p) PROVE FALSE
<1>1. Neg(p) \in Lits /\ Neg(p) # p /\ Var(Neg(p)) = Var(p)
  BY LitFacts
<1>2. PICK i \in DOMAIN trail : trail[i] = p
  BY TrailFacts
<1>3. PICK k \in DOMAIN trail : trail[k] = Neg(p)
  BY <1>1, TrailFacts DEF IsTrue, IsFalse
<1> QED
  BY <1>1, <1>2, <1>3, Levels DEF LevelsFacts

(* Literals of a clause in use. *)
LEMMA LiveLits ==
  ASSUME IInv, NEW cr \in Live
  PROVE  cr \in DOMAIN ca /\ ca[cr].w0 \in Lits /\ ca[cr].w1 \in Lits /\ LitsOf(ca[cr]) \subseteq Lits
<1>1. cr \in DOMAIN ca
  BY DEF IInv, DatabaseTyped, Live
<1>2. ca[cr] \in Clause
  BY <1>1 DEF IInv, DatabaseTyped
<1> QED
  BY <1>1, <1>2 DEF Clause, LitsOf

(* What the invariant says of the lists is WatchersFound. *)
LEMMA Found ==
  ASSUME IInv, Blockers PROVE WatchersFound
<1>0. Listed
  BY DEF IInv
<1>1. ASSUME NEW cr \in Live, NEW q \in Watched(cr)
      PROVE  /\ Cardinality(WatchersOf(cr, Neg(q))) = 1
             /\ \A w \in WatchersOf(cr, Neg(q)) :
                  w.blocker \in LitsOf(ca[cr]) \/ (IsFalse(w.blocker) /\ level(Var(w.blocker)) = 0)
  <2>1. Neg(q) \in Lits
    BY LiveLits, LitFacts DEF Watched
  <2>2. PICK v \in watches[Neg(q)] : v.cref = cr
    BY <1>0 DEF Listed
  <2>3. \A w, u \in watches[Neg(q)] : w.cref = u.cref => w = u
    BY <1>0, <2>1 DEF Listed
  <2>4. WatchersOf(cr, Neg(q)) = {v}
    BY <2>2, <2>3 DEF WatchersOf
  <2>5. Cardinality({v}) = 1
    BY FS_Singleton
  <2>6. \A w \in WatchersOf(cr, Neg(q)) :
          w.blocker \in LitsOf(ca[cr]) \/ (IsFalse(w.blocker) /\ level(Var(w.blocker)) = 0)
    BY <2>1 DEF Blockers, WatchersOf
  <2> QED
    BY <2>4, <2>5, <2>6
<1>2. ASSUME NEW p \in Lits \ dirty, NEW w \in watches[p]
      PROVE  w.cref \in Live /\ Neg(p) \in {ca[w.cref].w0, ca[w.cref].w1}
  BY <1>0 DEF Listed, Watched
<1>3. ASSUME NEW cr \in Live, NEW p \in {Neg(ca[cr].w0), Neg(ca[cr].w1)}
      PROVE  /\ Cardinality(WatchersOf(cr, p)) = 1
             /\ \A w \in WatchersOf(cr, p) :
                  w.blocker \in LitsOf(ca[cr]) \/ (IsFalse(w.blocker) /\ level(Var(w.blocker)) = 0)
  <2>1. PICK q \in Watched(cr) : p = Neg(q)
    BY DEF Watched
  <2> QED
    BY <1>1, <2>1
<1> QED
  BY <1>2, <1>3 DEF WatchersFound

(* Outside of an analysis every guard holds. *)
LEMMA NotWaiting ==
  ASSUME Guarded PROVE WatchesHold
BY DEF Guarded, WatchesHold, Analysing, Held

(* When nothing is left to propagate, a clause with a false watch is
   satisfied. *)
LEMMA NoneFalse ==
  ASSUME IInv, Blockers, Guarded, ok, qhead = Len(trail), todo = {}, ~Analysing,
         NEW cr \in Live, NEW q \in Watched(cr), IsFalse(q)
  PROVE  satisfied(ca[cr])
<1>1. Neg(q) \in Lits
  BY LiveLits, LitFacts DEF Watched
<1>2. PICK k \in DOMAIN trail : trail[k] = Neg(q)
  BY <1>1, TrailFacts DEF IsTrue, IsFalse
<1>3. PICK w \in watches[Neg(q)] : w.cref = cr
  BY DEF IInv, Listed
<1>4. Len(trail) \in Nat /\ k \in 1 .. Len(trail)
  BY <1>2, TrailFacts
<1>5. Done(k, w)
  BY <1>4 DEF Done
<1>6. IsTrue(w.blocker)
  BY <1>2, <1>3, <1>4, <1>5 DEF Guarded, Held
<1>7. w.blocker \in Lits /\ (w.blocker \in LitsOf(ca[cr]) \/ RootFalse(w.blocker))
  BY <1>1, <1>3, BlockersNow
<1>8. ~IsFalse(w.blocker)
  BY <1>6, <1>7, NotBoth
<1> QED
  BY <1>6, <1>7, <1>8 DEF RootFalse, satisfied

(* Then no clause is falsified or unit. *)
LEMMA Implied ==
  ASSUME IInv, Blockers, Guarded PROVE NothingImplied
<1> SUFFICES ASSUME ok, pc \in {"idle", "decide", "reduce", "pick"}
             PROVE  /\ qhead = Len(trail)
                    /\ \A cr \in Live : satisfied(ca[cr]) \/ (Unset(ca[cr].w0) /\ Unset(ca[cr].w1))
  BY DEF NothingImplied
<1>1. qhead = Len(trail) /\ todo = {} /\ ~Analysing
  BY DEF IInv, Control, Analysing
<1>2. ASSUME NEW cr \in Live, ~satisfied(ca[cr])
      PROVE  Unset(ca[cr].w0) /\ Unset(ca[cr].w1)
  <2>1. ~IsTrue(ca[cr].w0) /\ ~IsTrue(ca[cr].w1)
    BY <1>2 DEF satisfied, LitsOf
  <2>2. ~IsFalse(ca[cr].w0) /\ ~IsFalse(ca[cr].w1)
    BY <1>1, <1>2, NoneFalse DEF Watched
  <2> QED
    BY <2>1, <2>2 DEF Unset
<1> QED
  BY <1>1, <1>2

(* Every clause is found, once, from each of the literals it watches, with a
   blocker that is one of its literals or was trimmed from it. *)
THEOREM AllFound ==
  ASSUME NeverReleases PROVE Spec => []WatchersFound
<1>1. IInv /\ Blockers => WatchersFound
  BY Found
<1> QED
  BY <1>1, Inductive, Watching, PTL

(* When propagate is done with a fact, the clauses that watch it have a true
   blocker, which cancelUntil does not take back before the fact. *)
THEOREM Watches ==
  ASSUME NeverReleases PROVE Spec => []WatchesHold
<1>1. Guarded => WatchesHold
  BY NotWaiting
<1> QED
  BY <1>1, Watching, PTL

(* When search decides and between calls, nothing is left to propagate: no
   clause in use is falsified or unit. *)
THEOREM NothingMissed ==
  ASSUME NeverReleases PROVE Spec => []NothingImplied
<1>1. IInv /\ Blockers /\ Guarded => NothingImplied
  BY Implied
<1> QED
  BY <1>1, Inductive, Watching, PTL

(* The assertion of removeSatisfied: a clause that simplify keeps has its
   first two literals unassigned. *)
THEOREM Trimming ==
  ASSUME NeverReleases PROVE Spec => TrimsOpenClauses
<1>1. ASSUME IInv, Blockers, Guarded, simplify \/ SimplifyCall
      PROVE  \A cr \in Live : satisfied(ca[cr]) \/ (Unset(ca[cr].w0) /\ Unset(ca[cr].w1))
  <2>1. ok /\ pc \in {"idle", "decide", "reduce", "pick"}
    BY <1>1 DEF simplify, SimplifyCall, Called, IInv, Control, Idle
  <2> QED
    BY <1>1, <2>1, Implied DEF NothingImplied
<1>2. IInv /\ Blockers /\ Guarded
        => (simplify \/ SimplifyCall =>
              \A cr \in Live : satisfied(ca[cr]) \/ (Unset(ca[cr].w0) /\ Unset(ca[cr].w1)))
  BY <1>1
<1>3. IInv /\ Blockers /\ Guarded
        => [simplify \/ SimplifyCall =>
              \A cr \in Live : satisfied(ca[cr]) \/ (Unset(ca[cr].w0) /\ Unset(ca[cr].w1))]_vars
  BY <1>2
<1> QED
  BY <1>3, Inductive, Watching, PTL DEF TrimsOpenClauses

-----------------------------------------------------------------------------
(* What clauses mean, and the answers. *)

(* A literal or its negation is made true. *)
LEMMA MakesNeg ==
  ASSUME NEW m \in Assignments, NEW p \in Lits
  PROVE  Makes(m, Neg(p)) <=> ~Makes(m, p)
<1>1. Var(Neg(p)) = Var(p) /\ Var(p) \in Vars
  BY LitFacts
<1>2. sign(p) \in {0, 1} /\ (sign(Neg(p)) = 1 <=> sign(p) # 1)
  BY NVarsAssumption, SMTT(30) DEF Lits, sign, Neg
<1>3. m[Var(p)] \in BOOLEAN
  BY <1>1 DEF Assignments
<1>4. CASE sign(p) = 1
  <2>1. Makes(m, p) <=> ~m[Var(p)]
    BY <1>4, Zenon DEF Makes
  <2>2. Makes(m, Neg(p)) <=> m[Var(Neg(p))]
    BY <1>2, <1>4, Zenon DEF Makes
  <2> QED
    BY <1>1, <2>1, <2>2, Zenon
<1>5. CASE sign(p) # 1
  <2>1. Makes(m, p) <=> m[Var(p)]
    BY <1>5, Zenon DEF Makes
  <2>2. Makes(m, Neg(p)) <=> ~m[Var(Neg(p))]
    BY <1>2, <1>5, Zenon DEF Makes
  <2> QED
    BY <1>1, <2>1, <2>2, Zenon
<1> QED
  BY <1>4, <1>5

(* The literal that is left of a clause whose others are false. *)
LEMMA LastLiteral ==
  ASSUME NEW m \in Assignments, NEW c \in SUBSET Lits, SatisfiesClause(m, c), NEW p,
         \A q \in c \ {p} : Makes(m, Neg(q))
  PROVE  p \in c /\ Makes(m, p)
<1>1. PICK q \in c : Makes(m, q)
  BY DEF SatisfiesClause
<1>2. ~Makes(m, Neg(q))
  BY <1>1, MakesNeg
<1> QED
  BY <1>1, <1>2

(* A clause all of whose literals are made false is not satisfied. *)
LEMMA FalseClause ==
  ASSUME NEW m \in Assignments, NEW c \in SUBSET Lits, \A q \in c : Makes(m, Neg(q))
  PROVE  ~SatisfiesClause(m, c)
BY MakesNeg DEF SatisfiesClause

-----------------------------------------------------------------------------
(* The clauses in use hold in m, now *)
ClausesHold(m) == \A cr \in Live : SatisfiesClause(m, LitsOf(ca[cr]))
(* and after the step. *)
ClausesNext(m) == \A cr \in Live' : SatisfiesClause(m, LitsOf(ca'[cr]))
(* The facts of level 0 hold in m after the step. *)
FactsNext(m) ==
  \A k \in DOMAIN trail' : vardata'[Var(trail'[k])].level = 0 => Makes(m, trail'[k])

(* Literals that are false at level 0 are false in every assignment that has
   the facts of level 0, *)
LEMMA FalseFact ==
  ASSUME IInv, NEW m \in Assignments, FactsHold(m), NEW q \in Lits, IsFalse(q), level(Var(q)) = 0
  PROVE  Makes(m, Neg(q))
<1>1. Neg(q) \in Lits /\ Var(Neg(q)) = Var(q)
  BY LitFacts
<1>2. PICK k \in DOMAIN trail : trail[k] = Neg(q)
  BY <1>1, TrailFacts DEF IsFalse, IsTrue
<1> QED
  BY <1>1, <1>2 DEF FactsHold

(* which at level 0 are all literals of the trail. *)
LEMMA RootFact ==
  ASSUME IInv, NEW m \in Assignments, FactsHold(m), decisionLevel = 0, NEW q \in Lits, IsFalse(q)
  PROVE  Makes(m, Neg(q)) /\ level(Var(q)) = 0
<1>1. Neg(q) \in Lits /\ Var(Neg(q)) = Var(q)
  BY LitFacts
<1>2. Var(q) \in Assigned
  BY <1>1 DEF IsFalse, Assigned
<1>3. level(Var(q)) = 0
  BY <1>2, Levels DEF LevelsFacts
<1> QED
  BY <1>3, FalseFact

(* Clauses are only added, so a model of what was given after a step is one
   before. *)
LEMMA ModelsKept ==
  ASSUME IInv, Next, NEW m \in Models(given') PROVE m \in Models(given) /\ m \in Assignments
<1>1. given \subseteq given'
  BY NoRelease DEF IInv, Next, user, solver, propagate, analyze, search,
     newVar, AddNothing, AddEmpty, AddUnit, AddLong, AddCall, SimplifySkipped, SimplifyCall, Simplified,
     Solve, Called, SolveDead, NextFact, Blocked, FirstTrue, MoveWatch, Imply, Clash, Visit, Propagated,
     RootConflict, Resolve, Learn, Restart, Interrupted, NotSimplified, reduceDB, NotReduced, simplify,
     DummyLevel, Assume, AssumptionFalse, FinalStep, FinalDone, Branch, ModelFound, Return, Pending, userVars
<1> QED
  BY <1>1 DEF Models, Satisfies

-----------------------------------------------------------------------------
(* Facts, after each kind of step of the trail. *)
LEMMA GrownHolds ==
  ASSUME IInv, NEW m, FactsHold(m), NEW p, NEW from, NEW lev, Grown(p, from, lev),
         lev = 0 => Makes(m, p)
  PROVE  FactsNext(m)
<1>1. GFacts(p, from, lev) /\ trail' = Append(trail, p) /\ p \in Lits
  BY GrownFacts DEF Grown
<1>2. trail \in Seq(Lits)
  BY TrailFacts
<1>3. /\ DOMAIN trail' = 1 .. Len(trail) + 1 /\ trail'[Len(trail) + 1] = p
      /\ \A i \in 1 .. Len(trail) : trail'[i] = trail[i]
      /\ DOMAIN trail = 1 .. Len(trail) /\ Len(trail) \in Nat
  BY <1>1, <1>2, Appended
<1>4. SUFFICES ASSUME NEW k \in DOMAIN trail', vardata'[Var(trail'[k])].level = 0
               PROVE  Makes(m, trail'[k])
  BY DEF FactsNext
<1>5. CASE k = Len(trail) + 1
  <2>1. trail'[k] = p /\ vardata'[Var(p)].level = lev
    BY <1>1, <1>3, <1>5 DEF GFacts
  <2> QED
    BY <1>4, <2>1
<1>6. CASE k \in DOMAIN trail
  <2>1. trail'[k] = trail[k] /\ vardata'[Var(trail[k])] = vardata[Var(trail[k])]
    BY <1>1, <1>6, TrailFacts DEF GFacts
  <2> QED
    BY <1>4, <1>6, <2>1 DEF FactsHold, level
<1> QED
  BY <1>3, <1>5, <1>6

(* cancelUntil keeps the facts of level 0. *)
LEMMA CutHolds ==
  ASSUME IInv, NEW m, FactsHold(m), NEW lev, CutBack(lev) PROVE FactsNext(m)
<1>1. CFacts(lev)
  BY CutFacts
<1> QED
  BY <1>1 DEF CFacts, FactsHold, FactsNext, level

(* A learnt literal is a new fact when it is asserted at level 0. *)
LEMMA AssertedHolds ==
  ASSUME IInv, NEW m, FactsHold(m), NEW bt, NEW p, NEW from, Asserted(bt, p, from),
         bt = 0 => Makes(m, p)
  PROVE  FactsNext(m)
<1>1. AFacts(bt, p, from)
  BY AssertFacts
<1>2. SUFFICES ASSUME NEW k \in DOMAIN trail', vardata'[Var(trail'[k])].level = 0
               PROVE  Makes(m, trail'[k])
  BY DEF FactsNext
<1>3. CASE k = Cut(bt) + 1
  BY <1>1, <1>2, <1>3 DEF AFacts
<1>4. CASE k \in 1 .. Cut(bt)
  <2>1. trail'[k] = trail[k] /\ k \in DOMAIN trail /\ vardata'[Var(trail[k])] = vardata[Var(trail[k])]
    BY <1>1, <1>4 DEF AFacts
  <2> QED
    BY <1>2, <2>1 DEF FactsHold, level
<1>5. Cut(bt) \in Nat /\ DOMAIN trail' = 1 .. Cut(bt) + 1
  BY <1>1, TrailFacts DEF AFacts
<1> QED
  BY <1>3, <1>4, <1>5

(* Removing clauses changes no level. *)
LEMMA RemovedHolds ==
  ASSUME IInv, NEW m, FactsHold(m), NEW gone, NEW short, Removed(gone, short) PROVE FactsNext(m)
<1>1. UFacts(gone)
  BY UnlockedFacts
<1> QED
  BY <1>1, TrailFacts DEF UFacts, FactsHold, FactsNext, level

-----------------------------------------------------------------------------
(* The literals a resolution looks at are false in every assignment that
   makes what is marked true. *)
LEMMA LookedFalse ==
  ASSUME IInv, pc = "conflict", decisionLevel > 0, NEW m \in Assignments, FactsHold(m),
         \A k \in DOMAIN trail : Var(trail[k]) \in Marked => Makes(m, trail[k]),
         NEW q \in Looked
  PROVE  Makes(m, Neg(q)) /\ q \in Lits
<1>1. ConflictFacts
  BY Conflicts
<1>2. q \in Lits /\ IsFalse(q)
  BY <1>1 DEF ConflictFacts
<1>3. PICK i \in DOMAIN trail : trail[i] = Neg(q)
  BY <1>1 DEF ConflictFacts
<1>4. Var(trail[i]) = Var(q)
  BY <1>2, <1>3, LitFacts
<1>5. CASE Var(q) \in Marked
  BY <1>2, <1>3, <1>4, <1>5
<1>6. CASE Var(q) \notin Marked
  <2>1. Var(q) \notin seen /\ ~(level(Var(q)) > 0)
    BY <1>6 DEF Marked, New
  <2>2. level(Var(q)) \in Nat
    BY <1>3, <1>4, TrailFacts DEF level
  <2>3. level(Var(q)) = 0
    BY <2>1, <2>2
  <2> QED
    BY <1>2, <2>3, FalseFact
<1> QED
  BY <1>5, <1>6

(* A resolution of analyze: if the marked literals could not hold together
   before, they cannot after. *)
LEMMA ResolveRefutes ==
  ASSUME IInv, Refuted, Resolve, NEW m \in Models(given), m \in Assignments, FactsHold(m), ClausesHold(m),
         NEW k, ResolvedTo(k),
         \A i \in DOMAIN trail : Var(trail[i]) \in Marked => Makes(m, trail[i])
  PROVE  FALSE
<1>1. pc = "conflict" /\ decisionLevel > 0 /\ Analysing
  BY DEF Resolve, Analysing
<1>2. confl \in Live /\ index \in 1 .. Len(trail) + 1
  BY <1>1, Conflicts DEF ConflictFacts
<1>3. SatisfiesClause(m, LitsOf(ca[confl])) /\ LitsOf(ca[confl]) \in SUBSET Lits
  BY <1>2, LiveLits DEF ClausesHold
<1>4. \A q \in Looked : Makes(m, Neg(q))
  BY <1>1, LookedFalse
<1>5. CASE index > Len(trail)
  <2>1. \A q \in LitsOf(ca[confl]) : Makes(m, Neg(q))
    BY <1>4, <1>5 DEF Looked
  <2> QED
    BY <1>3, <2>1, FalseClause
<1>6. CASE ~(index > Len(trail))
  <2>1. \A q \in LitsOf(ca[confl]) \ {ca[confl].w0} : Makes(m, Neg(q))
    BY <1>4, <1>6 DEF Looked, Parents
  <2>2. Makes(m, ca[confl].w0)
    BY <1>3, <2>1, LastLiteral
  <2>3. index \in DOMAIN trail
    BY <1>2, <1>6, TrailFacts
  <2>4. confl = reason(Var(trail[index])) /\ confl # CRef_Undef
    <3>1. Analysed
      BY DEF IInv
    <3>2. index # Len(trail) + 1
      BY <2>3, TrailFacts
    <3> QED
      BY <1>1, <3>1, <3>2 DEF Analysed
  <2>5. ca[confl].w0 = trail[index]
    BY <2>3, <2>4, ReasonsNow DEF reason
  <2>6. MarkedHold(m)
    BY DEF MarkedHold, Marked
  <2>7. ~Makes(m, trail[index])
    BY <1>1, <2>3, <2>6 DEF Refuted
  <2> QED
    BY <2>2, <2>5, <2>7
<1> QED
  BY <1>5, <1>6

-----------------------------------------------------------------------------
(* Minimisation. *)
CoveredBy(x, R) ==
  /\ reason(x) # CRef_Undef
  /\ \A q \in Parents(reason(x)) : level(Var(q)) = 0 \/ Var(q) \in seen \cup R

(* What litRedundant finds: variables whose reasons hold only literals of
   level 0, marked ones, and others of the same kind. *)
LEMMA RedundantFacts ==
  ASSUME IInv, NEW l, Redundant(l)
  PROVE  \E R \in SUBSET Assigned : CoveredBy(Var(l), R) /\ \A x \in R : CoveredBy(x, R)
<1>1. options.ccmin_mode \in 0 .. 2
  BY DEF IInv, UserTyped, Options
<1>2. CASE options.ccmin_mode = 0
  BY <1>2 DEF Redundant
<1>3. CASE options.ccmin_mode = 1
  <2>1. CoveredBy(Var(l), {})
    BY <1>3 DEF Redundant, CoveredBy
  <2> QED
    BY <2>1
<1>4. CASE options.ccmin_mode = 2
  <2>1. PICK R \in SUBSET Assigned : Var(l) \in R /\ \A x \in R : CoveredBy(x, R)
    BY <1>4 DEF Redundant, CoveredBy
  <2> QED
    BY <2>1
<1> QED
  BY <1>1, <1>2, <1>3, <1>4

(* Sets of variables whose reasons lead to marked variables or to each
   other. *)
Justifying == {R \in SUBSET Assigned : \A x \in R : CoveredBy(x, R)}
(* All variables that litRedundant may find to be implied by the marked
   ones. *)
Followed == seen \cup UNION Justifying

(* A literal that is marked or followed, and not kept, has such a reason. *)
LEMMA FollowedCovered ==
  ASSUME IInv, pc = "learn", NEW k \in DOMAIN trail, Var(trail[k]) \in Followed,
         ~(Neg(trail[k]) \in out_learnt /\ ~Redundant(Neg(trail[k])))
  PROVE  /\ reason(Var(trail[k])) # CRef_Undef
         /\ \A q \in Parents(reason(Var(trail[k]))) : level(Var(q)) = 0 \/ Var(q) \in Followed
<1>1. trail[k] \in Lits /\ Neg(trail[k]) \in Lits /\ Var(Neg(trail[k])) = Var(trail[k])
      /\ Neg(Neg(trail[k])) = trail[k] /\ IsTrue(trail[k])
  BY TrailFacts, LitFacts
<1>2. SUFFICES \E R \in Justifying : CoveredBy(Var(trail[k]), R)
  BY DEF CoveredBy, Followed
<1>3. CASE Var(trail[k]) \in UNION Justifying
  BY <1>3 DEF Justifying
<1>4. CASE Var(trail[k]) \in seen
  <2>1. level(Var(trail[k])) < decisionLevel
    <3>1. Present(seen) = {}
      BY DEF IInv, Analysed, Analysing
    <3>2. level(Var(trail[k])) # decisionLevel
      BY <1>4, <3>1 DEF Present
    <3> QED
      BY <3>2, Levels DEF LevelsFacts
  <2>2. Neg(trail[k]) \in out_learnt
    <3>1. IsFalse(Neg(trail[k]))
      BY <1>1 DEF IsFalse, IsTrue
    <3> QED
      BY <1>1, <1>4, <2>1, <3>1 DEF IInv, Analysed, Analysing
  <2>3. Redundant(Neg(trail[k]))
    BY <2>2
  <2>4. PICK R \in SUBSET Assigned :
          CoveredBy(Var(Neg(trail[k])), R) /\ \A x \in R : CoveredBy(x, R)
    BY <2>3, RedundantFacts
  <2> QED
    BY <1>1, <2>4 DEF Justifying
<1> QED
  BY <1>3, <1>4 DEF Followed

(* What is left of the learnt clause marks as much as all of it did. *)
LEMMA MinimisedMarks ==
  ASSUME IInv, pc = "learn", NEW m \in Assignments, FactsHold(m), ClausesHold(m),
         \A l \in out_learnt : ~Redundant(l) => Makes(m, Neg(l))
  PROVE  MarkedHold(m)
<1> DEFINE S == {k \in DOMAIN trail : Var(trail[k]) \in Followed /\ ~Makes(m, trail[k])}
<1>1. SUFFICES ASSUME S # {} PROVE FALSE
  BY DEF MarkedHold, Followed
<1>2. S \in SUBSET Nat
  BY TrailFacts
<1>3. PICK k \in S : \A i \in S : k <= i
  BY <1>1, <1>2, LeastNatural
<1>4. k \in DOMAIN trail /\ Var(trail[k]) \in Followed /\ ~Makes(m, trail[k])
      /\ trail[k] \in Lits /\ Neg(Neg(trail[k])) = trail[k] /\ k \in Nat
  BY TrailFacts, LitFacts
<1>5. ~(Neg(trail[k]) \in out_learnt /\ ~Redundant(Neg(trail[k])))
  BY <1>4
<1> DEFINE cr == reason(Var(trail[k]))
<1>6. /\ cr # CRef_Undef
      /\ \A q \in Parents(cr) : level(Var(q)) = 0 \/ Var(q) \in Followed
  BY <1>4, <1>5, FollowedCovered
<1>7. /\ cr \in Live /\ ca[cr].w0 = trail[k]
      /\ \A q \in LitsOf(ca[cr]) \ {trail[k]} : \E i \in 1 .. k - 1 : trail[i] = Neg(q)
  BY <1>4, <1>6 DEF IInv, Reasoned, ReasonsIn, reason
<1>8. SatisfiesClause(m, LitsOf(ca[cr])) /\ LitsOf(ca[cr]) \in SUBSET Lits
  BY <1>7, LiveLits DEF ClausesHold
<1>9. ASSUME NEW q \in LitsOf(ca[cr]) \ {trail[k]} PROVE Makes(m, Neg(q))
  <2>1. q \in Parents(cr) /\ q \in Lits /\ Var(Neg(q)) = Var(q)
    BY <1>7, <1>8, LitFacts DEF Parents
  <2>2. PICK i \in 1 .. k - 1 : trail[i] = Neg(q)
    BY <1>7
  <2>3. i \in DOMAIN trail /\ i < k /\ i \in Nat
    BY <1>4, TrailFacts
  <2>4. CASE level(Var(q)) = 0
    <3>1. IsFalse(q)
      BY <2>2, <2>3, TrailFacts DEF IsFalse, IsTrue
    <3> QED
      BY <2>1, <2>4, <3>1, FalseFact
  <2>5. CASE Var(q) \in Followed
    <3>1. i \notin S
      BY <1>3, <1>4, <2>3
    <3> QED
      BY <2>1, <2>2, <2>3, <2>5, <3>1
  <2> QED
    BY <1>6, <2>1, <2>4, <2>5
<1>10. Makes(m, trail[k])
  BY <1>8, <1>9, LastLiteral
<1> QED
  BY <1>4, <1>10

(* The learnt clause follows. *)
LEMMA LearntFollows ==
  ASSUME IInv, Refuted, pc = "learn", NEW m \in Models(given), m \in Assignments,
         FactsHold(m), ClausesHold(m)
  PROVE  Makes(m, Asserting) \/ \E l \in out_learnt : ~Redundant(l) /\ Makes(m, l)
<1>1. SUFFICES ASSUME ~Makes(m, Asserting), \A l \in out_learnt : ~Redundant(l) => ~Makes(m, l)
               PROVE  FALSE
  OBVIOUS
<1>2. /\ index \in DOMAIN trail /\ trail[index] \in Lits
      /\ \A l \in out_learnt : l \in Lits
  BY LearntFacts
<1>3. \A l \in out_learnt : ~Redundant(l) => Makes(m, Neg(l))
  BY <1>1, <1>2, MakesNeg
<1>4. MarkedHold(m)
  BY <1>3, MinimisedMarks
<1>5. ~Makes(m, trail[index])
  BY <1>2, <1>4 DEF Refuted, Analysing
<1>6. Makes(m, trail[index])
  BY <1>1, <1>2, MakesNeg DEF Asserting
<1> QED
  BY <1>5, <1>6

-----------------------------------------------------------------------------
(* No model of the given clauses makes all marked literals and the one at
   index true. *)
LEMMA RefutedStep ==
  ASSUME IInv, Sound, Refuted, Next PROVE Refuted'
<1> SUFFICES ASSUME Analysing', index' \in DOMAIN trail', NEW m \in Models(given'), MarkedHold(m)'
             PROVE  ~Makes(m, trail'[index'])
  BY DEF Refuted
<1>1. Clash \/ Resolve
  BY AnalysingSteps DEF Analysing
<1>2. CASE Clash
  <2>1. index' = Len(trail) + 1 /\ trail' = trail
    BY <1>2 DEF Clash
  <2> QED
    BY <2>1, TrailFacts
<1>3. CASE Resolve
  <2>1. PICK k \in Nat : ResolvedTo(k)
    BY <1>3, Resolves
  <2>2. trail' = trail /\ given' = given /\ index' = k /\ seen' = Marked \ {Var(trail[k])}
    BY <1>3, <2>1 DEF Resolve, ResolvedTo, trailVars, userVars
  <2>3. m \in Models(given) /\ m \in Assignments /\ FactsHold(m) /\ ClausesHold(m)
    BY <2>2 DEF Sound, ClausesHold, Models
  <2>4. SUFFICES ASSUME Makes(m, trail[k]) PROVE FALSE
    BY <2>2
  <2>5. ASSUME NEW i \in DOMAIN trail, Var(trail[i]) \in Marked PROVE Makes(m, trail[i])
    <3>1. CASE Var(trail[i]) = Var(trail[k])
      <4>1. i = k
        BY <2>1, <3>1, Levels DEF LevelsFacts, ResolvedTo
      <4> QED
        BY <2>4, <4>1
    <3>2. CASE Var(trail[i]) # Var(trail[k])
      BY <2>2, <2>5, <3>2 DEF MarkedHold
    <3> QED
      BY <3>1, <3>2
  <2> QED
    BY <1>3, <2>1, <2>3, <2>5, ResolveRefutes
<1> QED
  BY <1>1, <1>2, <1>3

-----------------------------------------------------------------------------
(* Only addClause_ and learning put clauses in memory. *)
LEMMA Attaching ==
  ASSUME IInv, Next, NEW c \in Clause, Attached(c) PROVE AddLong \/ Learn
<1>1. Fresh \notin Live /\ Live' = Live \cup {Fresh}
  BY AttachedFacts
<1>2. Live' \subseteq Live => FALSE
  BY <1>1
<1>3. (clauses' \subseteq clauses /\ learnts' \subseteq learnts) => FALSE
  BY <1>2 DEF Live
<1> QED
  BY <1>3, NoRelease DEF IInv, Next, user, solver, propagate, analyze, search,
     newVar, AddNothing, AddEmpty, AddUnit, AddCall, SimplifySkipped, SimplifyCall, Simplified,
     Solve, Called, SolveDead, NextFact, Blocked, FirstTrue, MoveWatch, Imply, Clash, Visit, Propagated,
     RootConflict, Resolve, Restart, Interrupted, NotSimplified, reduceDB, NotReduced, simplify,
     DummyLevel, Assume, AssumptionFalse, FinalStep, FinalDone, Branch, ModelFound, Return, Pending, dbVars

(* The clause that addClause_ is called with. *)
LEMMA InputFacts ==
  ASSUME IInv, AddCall
  PROVE  /\ Input \in SUBSET Lits /\ decisionLevel = 0 /\ Input \in given'
         /\ given' = given \cup {Input}
<1>1. script # <<>> /\ Head(script).call = "addClause" /\ Input = Head(script).lits /\ pc = "idle"
  BY DEF AddCall, Called, Input
<1>2. Input \subseteq Lits
  BY <1>1, CallTyped, CallFields DEF IInv
<1>3. decisionLevel = 0
  BY <1>1 DEF IInv, Control, Idle
<1> QED
  BY <1>2, <1>3 DEF AddCall

(* What is left of a clause the user adds follows. *)
LEMMA RemainingHolds ==
  ASSUME IInv, AddCall, NEW m \in Models(given'), m \in Assignments, FactsHold(m)
  PROVE  SatisfiesClause(m, Remaining)
<1>1. Input \in SUBSET Lits /\ decisionLevel = 0 /\ SatisfiesClause(m, Input)
  BY InputFacts DEF Models, Satisfies
<1>2. PICK p \in Input : Makes(m, p)
  BY <1>1 DEF SatisfiesClause
<1>3. ~IsFalse(p)
  BY <1>1, <1>2, RootFact, MakesNeg
<1> QED
  BY <1>2, <1>3 DEF Remaining, SatisfiesClause

(* What it stores follows from it and the facts of level 0. *)
LEMMA AddedHolds ==
  ASSUME IInv, AddLong, NEW c \in Clause, Attached(c), NEW m \in Models(given'), m \in Assignments,
         FactsHold(m)
  PROVE  SatisfiesClause(m, LitsOf(c)) /\ LitsOf(c) = Remaining /\ c.learnt = FALSE
<1>1. PICK p \in Remaining, q \in Remaining :
        Attach([w0 |-> p, w1 |-> q, rest |-> Remaining \ {p, q}, learnt |-> FALSE, mark |-> FALSE])
  BY DEF AddLong
<1>2. ca'[Fresh] = [w0 |-> p, w1 |-> q, rest |-> Remaining \ {p, q}, learnt |-> FALSE, mark |-> FALSE]
  BY <1>1 DEF Attach
<1>3. ca'[Fresh] = c
  BY AttachedFacts
<1>4. LitsOf(c) = Remaining /\ c.learnt = FALSE
  BY <1>2, <1>3 DEF LitsOf
<1>5. SatisfiesClause(m, Remaining)
  BY RemainingHolds DEF AddLong
<1> QED
  BY <1>4, <1>5

(* A learnt clause, minimised, follows from the given ones. *)
LEMMA LearntHolds ==
  ASSUME IInv, Refuted, Learn, NEW c \in Clause, Attached(c), NEW m \in Models(given), m \in Assignments,
         FactsHold(m), ClausesHold(m)
  PROVE  SatisfiesClause(m, LitsOf(c))
<1>0. pc = "learn"
  BY DEF Learn
<1>1. CASE LearntUnit(Asserting)
  <2>1. Live' = Live
    BY <1>1 DEF LearntUnit, Live, dbVars
  <2> QED
    BY <2>1, AttachedFacts
<1>2. CASE \E q, kept : LearntClause(Asserting, q, kept)
  <2>1. PICK q, kept : LearntClause(Asserting, q, kept)
    BY <1>2
  <2> DEFINE d == [w0 |-> Asserting, w1 |-> q, rest |-> kept \ {q}, learnt |-> TRUE, mark |-> FALSE]
  <2>2. d \in Clause /\ Attached(d) /\ kept = {l \in out_learnt : ~Redundant(l)} /\ q \in kept
    BY <2>1 DEF LearntClause
  <2> HIDE DEF d
  <2>3. c = d
    BY <2>2, AttachedFacts
  <2>4. LitsOf(d) = {Asserting} \cup kept
    BY <2>2 DEF d, LitsOf
  <2>5. Makes(m, Asserting) \/ \E l \in out_learnt : ~Redundant(l) /\ Makes(m, l)
    BY <1>0, LearntFollows
  <2> QED
    BY <2>2, <2>3, <2>4, <2>5 DEF SatisfiesClause
<1> QED
  BY <1>1, <1>2, LearnCases

(* No clause in memory stops being implied. *)
LEMMA ClausesStep ==
  ASSUME IInv, Refuted, Next, NEW m \in Models(given'), FactsHold(m), ClausesHold(m)
  PROVE  ClausesNext(m)
<1>0. m \in Models(given) /\ m \in Assignments
  BY ModelsKept
<1>d. Live \subseteq DOMAIN ca
  BY DEF IInv, DatabaseTyped, Live
<1>1. CASE UNCHANGED <<ca, dbVars, watches, dirty>>
  <2>1. ca' = ca /\ Live' = Live
    BY <1>1 DEF Live, dbVars
  <2> QED
    BY <2>1 DEF ClausesHold, ClausesNext
<1>2. ASSUME NEW c \in Clause, Attached(c) PROVE ClausesNext(m)
  <2>1. SatisfiesClause(m, LitsOf(c))
    BY <1>0, <1>2, Attaching, AddedHolds, LearntHolds
  <2>2. ca'[Fresh] = c /\ Live' = Live \cup {Fresh} /\ \A cr \in Live : ca'[cr] = ca[cr]
    BY <1>2, <1>d, AttachedFacts
  <2> QED
    BY <2>1, <2>2 DEF ClausesHold, ClausesNext
<1>3. ASSUME NEW p \in Lits, LookedUp(p) PROVE ClausesNext(m)
  <2>1. ca' = ca /\ Live' = Live
    BY <1>3, LookedUpFacts
  <2> QED
    BY <2>1 DEF ClausesHold, ClausesNext
<1>4. ASSUME NEW w \in todo, Rewritten(w) PROVE ClausesNext(m)
  <2>1. pc = "propagate"
    BY <1>4 DEF IInv, Visiting
  <2>2. Live' = Live /\ \A cr \in Live : LitsOf(ca'[cr]) = LitsOf(ca[cr])
    BY <1>4, <1>d, <2>1, RewrittenFacts
  <2> QED
    BY <2>2 DEF ClausesHold, ClausesNext
<1>5. ASSUME NEW w \in todo, NEW q \in Lits, Moved(w, q) PROVE ClausesNext(m)
  <2>1. pc = "propagate"
    BY <1>5 DEF IInv, Visiting
  <2>2. Live' = Live /\ \A cr \in Live : LitsOf(ca'[cr]) = LitsOf(ca[cr])
    BY <1>5, <1>d, <2>1, MovedFacts
  <2> QED
    BY <2>2 DEF ClausesHold, ClausesNext
<1>6. ASSUME NEW gone \in SUBSET Live, NEW short \in SUBSET Live, Removed(gone, short)
      PROVE  ClausesNext(m)
  <2>1. /\ Live' = Live \ gone /\ Live' \subseteq DOMAIN ca'
        /\ \A cr \in DOMAIN ca' :
              /\ ca'[cr].w0 = ca[cr].w0 /\ ca'[cr].w1 = ca[cr].w1
              /\ \A q \in ca[cr].rest : q \notin ca'[cr].rest => cr \in short /\ IsFalse(q)
    BY <1>6, RemovedFacts
  <2>2. SUFFICES ASSUME NEW cr \in Live' PROVE SatisfiesClause(m, LitsOf(ca'[cr]))
    BY DEF ClausesNext
  <2>3. cr \in Live /\ cr \in DOMAIN ca' /\ LitsOf(ca[cr]) \in SUBSET Lits
    BY <2>1, <2>2, LiveLits
  <2>4. PICK q \in LitsOf(ca[cr]) : Makes(m, q)
    BY <2>3 DEF ClausesHold, SatisfiesClause
  <2>5. CASE q \in LitsOf(ca'[cr])
    BY <2>4, <2>5 DEF SatisfiesClause
  <2>6. CASE q \notin LitsOf(ca'[cr])
    <3>1. q \in ca[cr].rest /\ q \notin ca'[cr].rest
      BY <2>1, <2>3, <2>4, <2>6 DEF LitsOf
    <3>2. cr \in short /\ IsFalse(q)
      BY <2>1, <2>3, <3>1
    <3>3. decisionLevel = 0 /\ q \in Lits
      BY <1>6, <2>3, <3>2 DEF Removed
    <3>4. Makes(m, Neg(q))
      BY <1>0, <3>2, <3>3, RootFact
    <3> QED
      BY <1>0, <2>4, <3>3, <3>4, MakesNeg
  <2> QED
    BY <2>5, <2>6
<1> QED
  BY <1>1, <1>2, <1>3, <1>4, <1>5, <1>6, MemorySteps DEF MemoryStep

-----------------------------------------------------------------------------
(* A clause all of whose literals are false at level 0 has no model. *)
LEMMA ImplyHolds ==
  ASSUME IInv, Imply, NEW m \in Assignments, FactsHold(m), ClausesHold(m)
  PROVE  FactsNext(m)
<1>1. PICK w \in todo :
        Rewritten(w) /\ NewWatches(ca[w.cref]) = {} /\ Pushed(First(ca[w.cref]), w.cref)
  BY ImplyPushes
<1>2. VFacts(w)
  BY <1>1, VisitFacts DEF Imply
<1>3. Grown(First(ca[w.cref]), w.cref, decisionLevel)
  BY <1>1, PushGrows
<1>4. ASSUME decisionLevel = 0 PROVE Makes(m, First(ca[w.cref]))
  <2>1. w.cref \in Live
    BY <1>1 DEF Rewritten, Visited
  <2>2. SatisfiesClause(m, LitsOf(ca[w.cref])) /\ LitsOf(ca[w.cref]) \in SUBSET Lits
    BY <2>1, LiveLits DEF ClausesHold
  <2>3. ASSUME NEW q \in LitsOf(ca[w.cref]) \ {First(ca[w.cref])} PROVE Makes(m, Neg(q))
    <3>1. q = false_lit \/ q \in ca[w.cref].rest
      BY <1>2 DEF VFacts
    <3>2. IsFalse(q)
      BY <1>1, <1>2, <3>1 DEF VFacts, NewWatches
    <3> QED
      BY <1>4, <2>2, <3>2, RootFact
  <2> QED
    BY <2>2, <2>3, LastLiteral
<1> QED
  BY <1>3, <1>4, GrownHolds

(* The literal that is left of a clause the user adds follows. *)
LEMMA AddUnitHolds ==
  ASSUME IInv, AddUnit, NEW m \in Models(given'), m \in Assignments, FactsHold(m)
  PROVE  FactsNext(m)
<1>1. PICK p \in Lits : Remaining = {p} /\ uncheckedEnqueue(p, CRef_Undef)
  BY DEF AddUnit
<1>2. PICK p1 \in Lits, from \in Nat : Pushed(p1, from)
  BY AddUnitPushes
<1>3. trail' = Append(trail, p) /\ trail' = Append(trail, p1)
  BY <1>1, <1>2 DEF uncheckedEnqueue, Pushed
<1>4. p1 = p
  <2>1. trail \in Seq(Lits)
    BY TrailFacts
  <2>2. Append(trail, p)[Len(trail) + 1] = p /\ Append(trail, p1)[Len(trail) + 1] = p1
    BY <2>1, Appended
  <2> QED
    BY <1>3, <2>2
<1>5. SatisfiesClause(m, {p})
  BY <1>1, RemainingHolds DEF AddUnit
<1>6. Makes(m, p)
  BY <1>5 DEF SatisfiesClause
<1>7. Grown(p, from, decisionLevel)
  BY <1>2, <1>4, PushGrows
<1> QED
  BY <1>6, <1>7, GrownHolds

(* A learnt literal follows. *)
LEMMA LearnHolds ==
  ASSUME IInv, Refuted, Learn, NEW m \in Models(given), m \in Assignments, FactsHold(m), ClausesHold(m)
  PROVE  FactsNext(m)
<1>0. pc = "learn"
  BY DEF Learn
<1>1. CASE LearntUnit(Asserting) /\ {l \in out_learnt : ~Redundant(l)} = {}
  <2>1. Makes(m, Asserting)
    BY <1>0, <1>1, LearntFollows
  <2> QED
    BY <1>1, <2>1, AssertedHolds DEF LearntUnit
<1>2. ASSUME NEW q, NEW kept, LearntClause(Asserting, q, kept) PROVE FactsNext(m)
  <2>1. level(Var(q)) \in 1 .. decisionLevel - 1
    BY <1>2, LearntPlaces
  <2>2. level(Var(q)) # 0
    BY <2>1
  <2>3. Asserted(level(Var(q)), Asserting, Fresh)
    BY <1>2 DEF LearntClause
  <2> QED
    BY <2>2, <2>3, AssertedHolds
<1> QED
  BY <1>1, <1>2, LearnCases

(* No fact of level 0 stops being implied. *)
LEMMA FactsStep ==
  ASSUME IInv, Refuted, Next, NEW m \in Models(given'), FactsHold(m), ClausesHold(m)
  PROVE  FactsNext(m)
<1>0. m \in Models(given) /\ m \in Assignments
  BY ModelsKept
<1>1. CASE UNCHANGED <<trail, vardata>>
  BY <1>1 DEF FactsHold, FactsNext, level
<1>2. CASE AddUnit \/ Imply \/ Learn
  BY <1>0, <1>2, AddUnitHolds, ImplyHolds, LearnHolds
<1>3. CASE Assume \/ Branch
  <2>1. PICK p : DecidedOn(p)
    BY <1>3, AssumeDecides, BranchDecides
  <2>2. Grown(p, CRef_Undef, decisionLevel + 1)
    BY <2>1, DecideGrows
  <2>3. decisionLevel + 1 # 0
    BY TrailFacts
  <2> QED
    BY <2>2, <2>3, GrownHolds
<1>4. CASE SolveDead \/ RootConflict \/ Restart \/ Interrupted \/ FinalDone \/ ModelFound
  <2>1. \E heap : cancelUntil(0, heap)
    BY <1>4 DEF SolveDead, RootConflict, Restart, Interrupted, FinalDone, ModelFound, Return
  <2>2. CutBack(0)
    BY <2>1, ReturnFacts DEF Returned
  <2> QED
    BY <2>2, CutHolds
<1>5. CASE simplify \/ SimplifyCall \/ reduceDB
  BY <1>5, RemovingSteps, RemovedHolds
<1>6. CASE \/ newVar \/ AddNothing \/ AddEmpty \/ AddLong \/ SimplifySkipped \/ Solve
             \/ NextFact \/ Blocked \/ FirstTrue \/ MoveWatch \/ Clash \/ Propagated
             \/ Resolve \/ NotSimplified \/ NotReduced \/ AssumptionFalse \/ FinalStep \/ DummyLevel
  <2>1. UNCHANGED <<trail, vardata>>
    BY <1>6 DEF newVar, AddNothing, AddEmpty, AddLong, AddCall, SimplifySkipped, NextFact, Solve, DummyLevel,
         Blocked, FirstTrue, MoveWatch, Clash, Visit, Propagated, Resolve, NotSimplified, NotReduced,
         AssumptionFalse, FinalStep, trailVars
  <2> QED
    BY <1>1, <2>1
<1> QED
  BY <1>2, <1>3, <1>4, <1>5, <1>6, NoRelease
     DEF IInv, Next, user, solver, propagate, analyze, search

-----------------------------------------------------------------------------
(* A solver that gives up is right. *)
LEMMA GivingUp ==
  ASSUME IInv, Next, ok, ~ok' PROVE AddEmpty \/ Clash \/ RootConflict
BY NoRelease DEF IInv, Next, user, solver, propagate, analyze, search,
   newVar, AddNothing, AddUnit, AddLong, AddCall, SimplifySkipped, SimplifyCall, Simplified,
   Solve, SolveDead, NextFact, Blocked, FirstTrue, MoveWatch, Imply, Visit, Propagated,
   Resolve, Learn, Restart, Interrupted, NotSimplified, reduceDB, NotReduced, simplify,
   DummyLevel, Assume, AssumptionFalse, FinalStep, FinalDone, Branch, ModelFound, Pending

(* While the given clauses have a model the solver stays ok. *)
LEMMA OkStep ==
  ASSUME IInv, Next, ok, NEW m \in Models(given'), FactsHold(m), ClausesHold(m)
  PROVE  ok'
<1>0. m \in Models(given) /\ m \in Assignments
  BY ModelsKept
<1>1. SUFFICES ASSUME ~ok' PROVE FALSE
  OBVIOUS
<1>2. ASSUME NEW cr \in Live, decisionLevel = 0, \A q \in LitsOf(ca[cr]) : IsFalse(q) PROVE FALSE
  <2>1. SatisfiesClause(m, LitsOf(ca[cr])) /\ LitsOf(ca[cr]) \in SUBSET Lits
    BY LiveLits DEF ClausesHold
  <2>2. \A q \in LitsOf(ca[cr]) : Makes(m, Neg(q))
    BY <1>0, <1>2, <2>1, RootFact
  <2> QED
    BY <1>0, <2>1, <2>2, FalseClause
<1>3. CASE AddEmpty
  <2>1. SatisfiesClause(m, Remaining) /\ Remaining = {}
    BY <1>0, <1>3, RemainingHolds DEF AddEmpty
  <2> QED
    BY <2>1 DEF SatisfiesClause
<1>4. CASE Clash
  <2>1. caller = "addClause" /\ pc = "propagate"
    BY <1>1, <1>4 DEF Clash
  <2>2. decisionLevel = 0
    BY <2>1 DEF IInv, Control
  <2>3. PICK w \in todo : Rewritten(w)
    BY <1>4, RewriteSteps
  <2>4. confl' \in Live' /\ \A q \in LitsOf(ca'[confl']) : IsFalse(q)
    BY <1>4, ClashFacts
  <2>5. Live' = Live /\ \A cr \in DOMAIN ca : LitsOf(ca'[cr]) = LitsOf(ca[cr])
    BY <2>1, <2>3, RewrittenFacts
  <2>6. confl' \in DOMAIN ca
    BY <2>4, <2>5, LiveLits
  <2> QED
    BY <1>2, <2>2, <2>4, <2>5, <2>6
<1>5. CASE RootConflict
  <2>1. pc = "conflict" /\ decisionLevel = 0
    BY <1>5 DEF RootConflict
  <2>2. confl \in Live /\ \A q \in LitsOf(ca[confl]) : IsFalse(q)
    BY <2>1 DEF IInv, Analysed, Analysing
  <2> QED
    BY <1>2, <2>1, <2>2
<1> QED
  BY <1>1, <1>3, <1>4, <1>5, GivingUp

(* What the solver derives follows from what it was given. *)
LEMMA SoundStep ==
  ASSUME IInv, Sound, Refuted, Next PROVE Sound'
<1> SUFFICES ASSUME NEW m \in Models(given')
             PROVE  ok' /\ ClausesNext(m) /\ FactsNext(m)
  BY DEF Sound, ClausesNext, FactsNext, FactsHold, level
<1>1. ok /\ ClausesHold(m) /\ FactsHold(m)
  BY ModelsKept DEF Sound, ClausesHold
<1> QED
  BY <1>1, OkStep, ClausesStep, FactsStep

-----------------------------------------------------------------------------
(* The user's clauses that are kept hold in m, now *)
OriginalsHold(m) == \A cr \in clauses : SatisfiesClause(m, LitsOf(ca[cr]))
(* and after the step. *)
OriginalsNext(m) == \A cr \in clauses' : SatisfiesClause(m, LitsOf(ca'[cr]))

(* Facts of level 0 are never taken back. *)
LEMMA FactsBefore ==
  ASSUME IInv, Next, NEW m, FactsNext(m) PROVE FactsHold(m)
<1>1. Keeps(0)
  BY RootKeeps
<1>2. SUFFICES ASSUME NEW k \in DOMAIN trail, level(Var(trail[k])) = 0 PROVE Makes(m, trail[k])
  BY DEF FactsHold
<1>3. level(Var(trail[k])) <= 0
  BY <1>2
<1>4. k \in DOMAIN trail' /\ trail'[k] = trail[k] /\ vardata'[Var(trail'[k])].level = 0
  BY <1>1, <1>2, <1>3 DEF Keeps
<1> QED
  BY <1>4 DEF FactsNext

(* At level 0 every literal of the trail is such a fact. *)
LEMMA TrueFact ==
  ASSUME IInv, NEW m, FactsHold(m), decisionLevel = 0, NEW q \in Lits, IsTrue(q)
  PROVE  Makes(m, q)
<1>1. PICK k \in DOMAIN trail : trail[k] = q
  BY TrailFacts
<1>2. level(Var(trail[k])) = 0
  BY <1>1, Levels DEF LevelsFacts
<1> QED
  BY <1>1, <1>2 DEF FactsHold

(* Only simplify removes clauses of the user, and only satisfied ones. *)
LEMMA OnlySatisfied ==
  ASSUME IInv, Next, NEW cr \in clauses, cr \notin clauses'
  PROVE  satisfied(ca[cr]) /\ decisionLevel = 0
<1>1. simplify \/ SimplifyCall
  BY NoRelease DEF IInv, Next, user, solver, propagate, analyze, search,
     newVar, AddNothing, AddEmpty, AddUnit, AddLong, AddCall, SimplifySkipped,
     Solve, Called, SolveDead, NextFact, Blocked, FirstTrue, MoveWatch, Imply, Clash, Visit, Propagated,
     RootConflict, Resolve, Learn, Restart, Interrupted, NotSimplified, reduceDB, NotReduced,
     DummyLevel, Assume, AssumptionFalse, FinalStep, FinalDone, Branch, ModelFound, Return, Pending, dbVars
<1>2. clauses' = clauses \ {c \in Live : satisfied(ca[c])}
  BY <1>1 DEF simplify, SimplifyCall, Simplified
<1>3. decisionLevel = 0
  BY <1>1 DEF simplify, SimplifyCall, Called, IInv, Control, Idle
<1> QED
  BY <1>2, <1>3

(* A clause in use never gains a literal. *)
LEMMA Narrowed ==
  ASSUME IInv, Next, NEW cr \in Live, cr \in Live'
  PROVE  LitsOf(ca'[cr]) \subseteq LitsOf(ca[cr])
<1>d. Live \subseteq DOMAIN ca
  BY DEF IInv, DatabaseTyped, Live
<1>1. CASE UNCHANGED <<ca, dbVars, watches, dirty>>
  BY <1>1
<1>2. ASSUME NEW c \in Clause, Attached(c) PROVE LitsOf(ca'[cr]) \subseteq LitsOf(ca[cr])
  BY <1>2, <1>d, AttachedFacts
<1>3. ASSUME NEW p \in Lits, LookedUp(p) PROVE LitsOf(ca'[cr]) \subseteq LitsOf(ca[cr])
  BY <1>3, LookedUpFacts
<1>4. ASSUME NEW w \in todo, Rewritten(w) PROVE LitsOf(ca'[cr]) \subseteq LitsOf(ca[cr])
  <2>1. pc = "propagate"
    BY <1>4 DEF IInv, Visiting
  <2> QED
    BY <1>4, <1>d, <2>1, RewrittenFacts
<1>5. ASSUME NEW w \in todo, NEW q \in Lits, Moved(w, q) PROVE LitsOf(ca'[cr]) \subseteq LitsOf(ca[cr])
  <2>1. pc = "propagate"
    BY <1>5 DEF IInv, Visiting
  <2> QED
    BY <1>5, <1>d, <2>1, MovedFacts
<1>6. ASSUME NEW gone \in SUBSET Live, NEW short \in SUBSET Live, Removed(gone, short)
      PROVE  LitsOf(ca'[cr]) \subseteq LitsOf(ca[cr])
  <2>1. /\ Live' \subseteq DOMAIN ca'
        /\ \A r \in DOMAIN ca' :
              ca'[r].w0 = ca[r].w0 /\ ca'[r].w1 = ca[r].w1 /\ ca'[r].rest \subseteq ca[r].rest
    BY <1>6, RemovedFacts
  <2>2. ca'[cr].w0 = ca[cr].w0 /\ ca'[cr].w1 = ca[cr].w1 /\ ca'[cr].rest \subseteq ca[cr].rest
    BY <2>1
  <2> QED
    BY <2>2 DEF LitsOf
<1> QED
  BY <1>1, <1>2, <1>3, <1>4, <1>5, <1>6, MemorySteps DEF MemoryStep

(* So what satisfies the clauses of the user after a step did so before. *)
LEMMA OriginalsBefore ==
  ASSUME IInv, Next, NEW m, FactsHold(m), OriginalsNext(m) PROVE OriginalsHold(m)
<1>1. SUFFICES ASSUME NEW cr \in clauses PROVE SatisfiesClause(m, LitsOf(ca[cr]))
  BY DEF OriginalsHold
<1>2. CASE cr \in clauses'
  <2>1. LitsOf(ca'[cr]) \subseteq LitsOf(ca[cr])
    BY <1>2, Narrowed DEF Live
  <2>2. SatisfiesClause(m, LitsOf(ca'[cr]))
    BY <1>2 DEF OriginalsNext
  <2> QED
    BY <2>1, <2>2 DEF SatisfiesClause
<1>3. CASE cr \notin clauses'
  <2>1. satisfied(ca[cr]) /\ decisionLevel = 0
    BY <1>3, OnlySatisfied
  <2>2. PICK q \in LitsOf(ca[cr]) : IsTrue(q)
    BY <2>1 DEF satisfied
  <2>3. q \in Lits
    BY <2>2, LiveLits DEF Live
  <2>4. Makes(m, q)
    BY <2>1, <2>2, <2>3, TrueFact
  <2> QED
    BY <2>4 DEF SatisfiesClause
<1> QED
  BY <1>2, <1>3

(* What a clause the user adds leaves behind says as much as the clause. *)
LEMMA InputKept ==
  ASSUME IInv, Next, ok, ok', AddCall, NEW m \in Assignments, FactsHold(m), FactsNext(m),
         OriginalsNext(m)
  PROVE  SatisfiesClause(m, Input)
<1>1. Input \in SUBSET Lits /\ decisionLevel = 0
  BY InputFacts
<1>2. Remaining \subseteq Input
  BY DEF Remaining
<1>3. CASE ~Storable
  <2>1. PICK p \in Input : IsTrue(p) \/ Neg(p) \in Input
    BY <1>3 DEF Storable
  <2>2. p \in Lits /\ Neg(p) \in Lits
    BY <1>1, LitFacts
  <2>3. CASE IsTrue(p)
    BY <1>1, <2>2, <2>3, TrueFact DEF SatisfiesClause
  <2>4. CASE Neg(p) \in Input
    <3>1. Makes(m, p) \/ Makes(m, Neg(p))
      BY <2>2, MakesNeg
    <3> QED
      BY <2>4, <3>1 DEF SatisfiesClause
  <2> QED
    BY <2>1, <2>3, <2>4
<1>4. CASE AddUnit
  <2>1. PICK p \in Lits : Remaining = {p} /\ uncheckedEnqueue(p, CRef_Undef)
    BY <1>4 DEF AddUnit
  <2>2. trail \in Seq(Lits) /\ decisionLevel = 0
    BY <1>1, TrailFacts
  <2>3. Len(trail) + 1 \in DOMAIN trail' /\ trail'[Len(trail) + 1] = p
    <3>1. trail' = Append(trail, p) /\ Len(trail) \in Nat
      BY <2>1, <2>2 DEF uncheckedEnqueue
    <3>2. DOMAIN trail' = 1 .. Len(trail) + 1 /\ trail'[Len(trail) + 1] = p
      BY <2>2, <3>1, Appended
    <3> QED
      BY <3>1, <3>2
  <2>4. vardata'[Var(p)].level = 0
    BY <2>1, <2>2 DEF uncheckedEnqueue, Extended
  <2>5. Makes(m, p)
    BY <2>3, <2>4 DEF FactsNext
  <2> QED
    BY <1>2, <2>1, <2>5 DEF SatisfiesClause
<1>5. CASE AddLong
  <2>1. PICK c \in Clause : Attached(c)
    BY <1>5, AddLongAttaches
  <2>2. ca'[Fresh] = c /\ Fresh \in clauses'
    BY <1>5, <2>1, AttachedFacts DEF AddLong
  <2>3. LitsOf(c) = Remaining
    <3>1. PICK p \in Remaining, q \in Remaining :
            Attach([w0 |-> p, w1 |-> q, rest |-> Remaining \ {p, q}, learnt |-> FALSE, mark |-> FALSE])
      BY <1>5 DEF AddLong
    <3>2. ca'[Fresh] = [w0 |-> p, w1 |-> q, rest |-> Remaining \ {p, q}, learnt |-> FALSE, mark |-> FALSE]
      BY <3>1 DEF Attach
    <3> QED
      BY <2>2, <3>2 DEF LitsOf
  <2>4. SatisfiesClause(m, Remaining)
    BY <2>2, <2>3 DEF OriginalsNext
  <2> QED
    BY <1>2, <2>4 DEF SatisfiesClause
<1>6. Storable => AddUnit \/ AddLong
  <2>1. pc = "idle" /\ script # <<>> /\ Head(script).call = "addClause"
    BY DEF AddCall, Called
  <2>2. AddNothing \/ AddEmpty \/ AddUnit \/ AddLong
    <3>1. script' = Tail(script) /\ UNCHANGED <<trail_lim, order_heap, answer>> /\ given' = given \cup {Input}
      BY DEF AddCall, Called, resultVars
    <3>2. ~newVar /\ ~SimplifyCall /\ ~SimplifySkipped /\ ~Solve
      BY <2>1 DEF newVar, SimplifyCall, SimplifySkipped, Solve, Called
    <3>3. ~solver
      BY <2>1 DEF solver, propagate, analyze, search, SolveDead, NextFact, Blocked, FirstTrue, MoveWatch, Imply, Clash,
         Propagated, RootConflict, Resolve, Learn, Restart, Interrupted, NotSimplified, reduceDB, NotReduced,
         simplify, DummyLevel, Assume, AssumptionFalse, FinalStep, FinalDone, Branch, ModelFound, Pending
    <3> QED
      BY <3>2, <3>3, NoRelease DEF IInv, Next, user
  <2> QED
    BY <2>2 DEF AddNothing, AddEmpty
<1> QED
  BY <1>3, <1>4, <1>5, <1>6

(* Only addClause_ changes what was given. *)
LEMMA GivenSteps ==
  ASSUME IInv, Next PROVE AddCall \/ given' = given
BY NoRelease DEF IInv, Next, user, solver, propagate, analyze, search,
   newVar, AddNothing, AddEmpty, AddUnit, AddLong, SimplifySkipped, SimplifyCall, Simplified,
   Solve, Called, SolveDead, NextFact, Blocked, FirstTrue, MoveWatch, Imply, Clash, Visit, Propagated,
   RootConflict, Resolve, Learn, Restart, Interrupted, NotSimplified, reduceDB, NotReduced, simplify,
   DummyLevel, Assume, AssumptionFalse, FinalStep, FinalDone, Branch, ModelFound, Return, Pending, userVars

(* A solver that gave up stays that way. *)
LEMMA OkBefore ==
  ASSUME IInv, Next, ok' PROVE ok
BY NoRelease DEF IInv, Next, user, solver, propagate, analyze, search, Control, Idle,
   newVar, AddNothing, AddEmpty, AddUnit, AddLong, AddCall, SimplifySkipped, SimplifyCall, Simplified,
   Solve, Called, SolveDead, NextFact, Blocked, FirstTrue, MoveWatch, Imply, Clash, Visit, Propagated,
   RootConflict, Resolve, Learn, Restart, Interrupted, NotSimplified, reduceDB, NotReduced, simplify,
   DummyLevel, Assume, AssumptionFalse, FinalStep, FinalDone, Branch, ModelFound, Return, Pending

(* The clauses of the user that are left and the facts of level 0 say all
   that was given. *)
LEMMA CompleteStep ==
  ASSUME IInv, Complete, Next PROVE Complete'
<1> SUFFICES ASSUME ok', NEW m \in Assignments, OriginalsNext(m), FactsNext(m)
             PROVE  Satisfies(m, given')
  BY DEF Complete, OriginalsNext, FactsHold, FactsNext, level
<1>1. ok /\ FactsHold(m)
  BY OkBefore, FactsBefore
<1>2. OriginalsHold(m)
  BY <1>1, OriginalsBefore
<1>3. Satisfies(m, given)
  BY <1>1, <1>2 DEF Complete, OriginalsHold
<1>4. CASE AddCall
  <2>1. SatisfiesClause(m, Input) /\ given' = given \cup {Input}
    BY <1>1, <1>4, InputKept, InputFacts
  <2> QED
    BY <1>3, <2>1 DEF Satisfies
<1>5. CASE given' = given
  BY <1>3, <1>5
<1> QED
  BY <1>4, <1>5, GivenSteps

-----------------------------------------------------------------------------

(* Assumed of the j-th assumption after the step. *)
AssumedNext(j) ==
  assumptions'[j] \in TrueLits' /\ vardata'[Var(assumptions'[j])].level <= j

(* Assumptions are literals. *)
LEMMA AssumptionLits ==
  ASSUME IInv, NEW j \in DOMAIN assumptions
  PROVE  assumptions[j] \in Lits /\ j \in Nat
BY DEF IInv, UserTyped

(* Those of the levels that are kept stay true. *)
LEMMA AssumedBelow ==
  ASSUME IInv, Assumed, Next, NEW lev \in Nat, Keeps(lev), lev <= decisionLevel,
         UNCHANGED assumptions, NEW j \in DOMAIN assumptions', j <= lev
  PROVE  AssumedNext(j)
<1>1. assumptions[j] \in Lits /\ j \in Nat /\ j \in DOMAIN assumptions
  BY AssumptionLits
<1>2. j <= decisionLevel /\ decisionLevel \in Nat
  BY <1>1, TrailFacts
<1>3. IsTrue(assumptions[j]) /\ level(Var(assumptions[j])) <= j
  BY <1>1, <1>2 DEF Assumed
<1>4. level(Var(assumptions[j])) \in Nat
  <2>1. PICK k \in DOMAIN trail : trail[k] = assumptions[j]
    BY <1>1, <1>3, TrailFacts
  <2> QED
    BY <2>1, TrailFacts DEF level
<1>5. level(Var(assumptions[j])) <= lev
  BY <1>1, <1>3, <1>4
<1> QED
  BY <1>1, <1>3, <1>5, TrueKept DEF AssumedNext

(* The assumptions of the levels search has opened are true, each at its
   level or before. *)
LEMMA AssumedStep ==
  ASSUME IInv, Assumed, Next PROVE Assumed'
<1>s. SUFFICES ASSUME NEW j \in DOMAIN assumptions', j <= Len(trail_lim') PROVE AssumedNext(j)
  BY DEF Assumed, AssumedNext, IsTrue, level, decisionLevel
<1>0. decisionLevel \in Nat /\ decisionLevel = Len(trail_lim) /\ trail_lim \in Seq(Nat) /\ Len(trail) \in Nat
  BY TrailFacts
<1>1. CASE Solve
  <2>1. decisionLevel = 0 /\ trail_lim' = trail_lim
    BY <1>1 DEF Solve, Called, IInv, Control, Idle, trailVars
  <2>2. script # <<>> /\ Head(script).call = "solve" /\ assumptions' = Head(script).assumps
    BY <1>1 DEF Solve, Called
  <2>3. assumptions' \in Seq(Lits)
    BY <2>2, CallTyped, CallFields DEF IInv
  <2>4. j >= 1 /\ j \in Nat
    BY <2>3
  <2>5. Len(trail_lim') = 0
    BY <1>0, <2>1
  <2> QED
    BY <1>s, <2>4, <2>5
<1>2. CASE ~Solve
  <2>1. UNCHANGED assumptions
    BY <1>2, NoRelease DEF IInv, Next, user, solver, propagate, analyze, search,
       newVar, AddNothing, AddEmpty, AddUnit, AddLong, AddCall, SimplifySkipped, SimplifyCall, Simplified,
       Called, SolveDead, NextFact, Blocked, FirstTrue, MoveWatch, Imply, Clash, Visit, Propagated,
       RootConflict, Resolve, Learn, Restart, Interrupted, NotSimplified, reduceDB, NotReduced, simplify,
       DummyLevel, Assume, AssumptionFalse, FinalStep, FinalDone, Branch, ModelFound, Return, Pending, userVars
  <2>2. assumptions[j] \in Lits /\ j \in Nat /\ j \in DOMAIN assumptions
    BY <2>1, AssumptionLits
  <2>3. CASE UNCHANGED <<trail, trail_lim, vardata>>
    <3>1. Keeps(decisionLevel) /\ trail_lim' = trail_lim
      BY <2>3, SameKeeps
    <3> QED
      BY <1>s, <1>0, <2>1, <3>1, AssumedBelow
  <2>4. ASSUME NEW p, NEW from, Pushed(p, from) PROVE AssumedNext(j)
    <3>1. Keeps(decisionLevel) /\ trail_lim' = trail_lim
      BY <2>4, PushGrows, GrownKeeps
    <3> QED
      BY <1>s, <1>0, <2>1, <3>1, AssumedBelow
  <2>5. CASE CutBack(0)
    <3>1. Len(trail_lim') = 0
      BY <2>5, CutFacts DEF CFacts
    <3> QED
      BY <1>s, <1>0, <2>1, <2>2, <2>5, <3>1, CutKeeps, AssumedBelow
  <2>6. ASSUME NEW bt, NEW p, NEW from, Asserted(bt, p, from) PROVE AssumedNext(j)
    <3>1. bt \in 0 .. decisionLevel - 1 /\ Len(trail_lim') = bt
      BY <2>6, AssertFacts DEF AFacts
    <3>2. bt \in Nat /\ bt <= decisionLevel /\ j <= bt
      BY <1>s, <1>0, <3>1
    <3> QED
      BY <2>1, <2>6, <3>2, AssertKeeps, AssumedBelow
  <2>7. ASSUME NEW gone, NEW short, Removed(gone, short) PROVE AssumedNext(j)
    <3>1. Keeps(decisionLevel) /\ trail_lim' = trail_lim
      BY <2>7, RemovedKeeps DEF Removed
    <3> QED
      BY <1>s, <1>0, <2>1, <3>1, AssumedBelow
  <2>8. CASE newDecisionLevel /\ UNCHANGED <<trail, vardata>> /\ DummyLevel
    <3>1. Len(trail_lim') = decisionLevel + 1
      BY <1>0, <2>8, Appended DEF newDecisionLevel
    <3>2. CASE j <= decisionLevel
      BY <1>0, <2>1, <2>8, <3>2, SameKeeps, AssumedBelow
    <3>3. CASE j = decisionLevel + 1
      <4>1. IsTrue(assumptions[j])
        BY <2>8, <3>3 DEF DummyLevel, NextAssumption
      <4>2. PICK k \in DOMAIN trail : trail[k] = assumptions[j]
        BY <2>2, <4>1, TrailFacts
      <4>3. level(Var(assumptions[j])) \in 0 .. decisionLevel
        BY <4>2, Levels DEF LevelsFacts
      <4>4. assumptions[j] \in TrueLits'
        <5>1. k \in DOMAIN trail' /\ trail'[k] = assumptions[j]
          BY <2>8, <4>2
        <5> QED
          BY <5>1, NextAssigned
      <4> QED
        BY <1>0, <2>1, <2>8, <3>3, <4>3, <4>4 DEF AssumedNext, level
    <3> QED
      BY <1>s, <1>0, <2>2, <3>1, <3>2, <3>3
  <2>9. ASSUME NEW p, DecidedOn(p), j <= decisionLevel \/ (j = decisionLevel + 1 /\ p = assumptions[j])
        PROVE  AssumedNext(j)
    <3>1. Keeps(decisionLevel) /\ Grown(p, CRef_Undef, decisionLevel + 1)
      BY <2>9, DecideGrows, GrownKeeps
    <3>2. CASE j <= decisionLevel
      BY <1>0, <2>1, <3>1, <3>2, AssumedBelow
    <3>3. CASE j = decisionLevel + 1 /\ p = assumptions[j]
      <4>1. vardata'[Var(p)].level = decisionLevel + 1
        <5>1. GFacts(p, CRef_Undef, decisionLevel + 1)
          BY <3>1, GrownFacts
        <5> QED
          BY <5>1 DEF GFacts
      <4>2. p \in TrueLits'
        <5>1. trail' = Append(trail, p) /\ trail \in Seq(Lits) /\ p \in Lits
          BY <3>1, TrailFacts DEF Grown
        <5>2. Len(trail) + 1 \in DOMAIN trail' /\ trail'[Len(trail) + 1] = p
          BY <1>0, <5>1, Appended
        <5> QED
          BY <5>2, NextAssigned
      <4> QED
        BY <1>0, <2>1, <3>3, <4>1, <4>2 DEF AssumedNext
    <3> QED
      BY <2>9, <3>2, <3>3
  <2>10. CASE Assume
    <3>1. DecidedOn(NextAssumption)
      BY <2>10, AssumeDecides
    <3>2. Len(trail_lim') = decisionLevel + 1
      BY <1>0, <3>1, Appended DEF DecidedOn, Decide, newDecisionLevel
    <3>3. j <= decisionLevel \/ (j = decisionLevel + 1 /\ NextAssumption = assumptions[j])
      BY <1>s, <1>0, <2>2, <3>2 DEF NextAssumption
    <3> QED
      BY <2>9, <3>1, <3>3
  <2>11. CASE Branch
    <3>1. PICK p : DecidedOn(p)
      BY <2>11, BranchDecides
    <3>2. decisionLevel >= Len(assumptions)
      BY <2>11 DEF Branch
    <3>3. j <= decisionLevel
      <4>1. assumptions \in Seq(Lits)
        BY DEF IInv, UserTyped
      <4>2. j <= Len(assumptions) /\ Len(assumptions) \in Nat
        BY <2>2, <4>1
      <4> QED
        BY <1>0, <2>2, <3>2, <4>2
    <3> QED
      BY <2>9, <3>1, <3>3
  <2>12. CASE SolveDead \/ RootConflict \/ Restart \/ Interrupted \/ FinalDone \/ ModelFound
    <3>1. \E heap : cancelUntil(0, heap)
      BY <2>12 DEF SolveDead, RootConflict, Restart, Interrupted, FinalDone, ModelFound, Return
    <3>2. CutBack(0)
      BY <3>1, ReturnFacts DEF Returned
    <3> QED
      BY <2>5, <3>2
  <2>13. CASE simplify \/ SimplifyCall \/ reduceDB
    BY <2>7, <2>13, RemovingSteps
  <2>14. CASE Imply \/ AddUnit
    BY <2>4, <2>14, ImplyPushes, AddUnitPushes
  <2>15. CASE Learn
    BY <2>6, <2>15, LearnAsserts
  <2>16. CASE \/ newVar \/ AddNothing \/ AddEmpty \/ AddLong \/ SimplifySkipped
               \/ NextFact \/ Blocked \/ FirstTrue \/ MoveWatch \/ Clash \/ Propagated
               \/ Resolve \/ NotSimplified \/ NotReduced \/ AssumptionFalse \/ FinalStep
    <3>1. UNCHANGED <<trail, trail_lim, vardata>>
      BY <2>16 DEF newVar, AddNothing, AddEmpty, AddLong, AddCall, SimplifySkipped, NextFact,
           Blocked, FirstTrue, MoveWatch, Clash, Visit, Propagated, Resolve, NotSimplified, NotReduced,
           AssumptionFalse, FinalStep, trailVars
    <3> QED
      BY <2>3, <3>1
  <2>17. CASE DummyLevel
    BY <2>8, <2>17 DEF DummyLevel
  <2> QED
    BY <1>2, <2>10, <2>11, <2>12, <2>13, <2>14, <2>15, <2>16, <2>17, NoRelease
       DEF IInv, Next, user, solver, propagate, analyze, search
<1> QED
  BY <1>1, <1>2

-----------------------------------------------------------------------------
(* The marks and the conflict after a step of analyzeFinal. *)
MarkedNext(m) == \A k \in DOMAIN trail' : Var(trail'[k]) \in seen' => Makes(m, trail'[k])

(* Where the assumption that is false stands on the trail. *)
LEMMA FalsePlace ==
  ASSUME IInv, decisionLevel < Len(assumptions), IsFalse(NextAssumption)
  PROVE  \E k \in DOMAIN trail : trail[k] = Neg(NextAssumption) /\ Var(trail[k]) = Var(NextAssumption)
<1>1. NextFacts
  BY NextAssumptions
<1> QED
  BY <1>1, TrailFacts DEF NextFacts, IsFalse, IsTrue

(* analyzeFinal starts from that assumption, *)
LEMMA FirstConclusion ==
  ASSUME IInv, AssumptionFalse, NEW m \in Assignments, FactsHold(m), MarkedNext(m)
  PROVE  SatisfiesClause(m, conflict')
<1>1. decisionLevel < Len(assumptions) /\ IsFalse(NextAssumption) /\ conflict' = {Neg(NextAssumption)}
      /\ seen' = (IF decisionLevel = 0 THEN {} ELSE {Var(NextAssumption)}) /\ trail' = trail
  BY DEF AssumptionFalse, Pending, trailVars
<1>2. PICK k \in DOMAIN trail : trail[k] = Neg(NextAssumption) /\ Var(trail[k]) = Var(NextAssumption)
  BY <1>1, FalsePlace
<1>3. CASE decisionLevel = 0
  <2>1. level(Var(trail[k])) = 0
    BY <1>3, Levels DEF LevelsFacts
  <2>2. Makes(m, trail[k])
    BY <2>1 DEF FactsHold
  <2> QED
    BY <1>1, <1>2, <2>2 DEF SatisfiesClause
<1>4. CASE decisionLevel # 0
  <2>1. Makes(m, trail[k])
    BY <1>1, <1>2, <1>4 DEF MarkedNext
  <2> QED
    BY <1>1, <1>2, <2>1 DEF SatisfiesClause
<1> QED
  BY <1>3, <1>4

(* and exchanges a literal for its reason or, if it has none, puts it in the
   conflict. *)
LEMMA NextConclusion ==
  ASSUME IInv, Concluded, FinalStep, NEW m \in Models(given), m \in Assignments, FactsHold(m),
         ClausesHold(m), MarkedNext(m)
  PROVE  SatisfiesClause(m, conflict')
<1>1. PICK k \in ToVisit :
        /\ conflict' = IF reason(Var(trail[k])) = CRef_Undef THEN conflict \cup {Neg(trail[k])} ELSE conflict
        /\ seen' = (seen \ {Var(trail[k])}) \cup MarkedBy(reason(Var(trail[k])))
  BY DEF FinalStep
<1>2. pc = "final" /\ trail' = trail
  BY DEF FinalStep, trailVars
<1>3. k \in DOMAIN trail
  BY <1>2, FinalFacts
<1>4. trail[k] \in Lits /\ Neg(trail[k]) \in Lits
  BY <1>3, TrailFacts, LitFacts
<1>5. ASSUME Makes(m, trail[k]) PROVE SatisfiesClause(m, conflict')
  <2>1. ASSUME NEW i \in DOMAIN trail, Var(trail[i]) \in seen PROVE Makes(m, trail[i])
    <3>1. CASE Var(trail[i]) = Var(trail[k])
      <4>1. i = k
        BY <1>3, <3>1, Levels DEF LevelsFacts
      <4> QED
        BY <1>5, <4>1
    <3>2. CASE Var(trail[i]) # Var(trail[k])
      BY <1>1, <1>2, <2>1, <3>2 DEF MarkedNext
    <3> QED
      BY <3>1, <3>2
  <2>2. SatisfiesClause(m, conflict)
    BY <1>2, <2>1 DEF Concluded, MarkedHold
  <2>3. conflict \subseteq conflict'
    BY <1>1
  <2> QED
    BY <2>2, <2>3 DEF SatisfiesClause
<1>6. CASE reason(Var(trail[k])) = CRef_Undef
  <2>1. CASE Makes(m, trail[k])
    BY <1>5, <2>1
  <2>2. CASE ~Makes(m, trail[k])
    <3>1. Makes(m, Neg(trail[k]))
      BY <1>4, <2>2, MakesNeg
    <3> QED
      BY <1>1, <1>6, <3>1 DEF SatisfiesClause
  <2> QED
    BY <2>1, <2>2
<1>7. CASE reason(Var(trail[k])) # CRef_Undef
  <2> DEFINE cr == reason(Var(trail[k]))
  <2>1. /\ cr \in Live /\ ca[cr].w0 = trail[k]
        /\ \A q \in LitsOf(ca[cr]) \ {trail[k]} : \E i \in 1 .. k - 1 : trail[i] = Neg(q)
    BY <1>3, <1>7 DEF IInv, Reasoned, ReasonsIn, reason
  <2>2. SatisfiesClause(m, LitsOf(ca[cr])) /\ LitsOf(ca[cr]) \in SUBSET Lits
    BY <2>1, LiveLits DEF ClausesHold
  <2>3. ASSUME NEW q \in LitsOf(ca[cr]) \ {trail[k]} PROVE Makes(m, Neg(q))
    <3>1. q \in Parents(cr) /\ q \in Lits /\ Var(Neg(q)) = Var(q)
      BY <2>1, <2>2, LitFacts DEF Parents
    <3>2. PICK i \in 1 .. k - 1 : trail[i] = Neg(q)
      BY <2>1
    <3>3. i \in DOMAIN trail
      BY <1>3, TrailFacts
    <3>4. level(Var(q)) \in Nat
      BY <3>1, <3>2, <3>3, TrailFacts DEF level
    <3>5. CASE level(Var(q)) = 0
      <4>1. IsFalse(q)
        BY <3>2, <3>3, TrailFacts DEF IsFalse, IsTrue
      <4> QED
        BY <3>1, <3>5, <4>1, FalseFact
    <3>6. CASE level(Var(q)) > 0
      <4>1. Var(q) \in MarkedBy(cr)
        BY <1>7, <3>1, <3>6 DEF MarkedBy
      <4>2. Var(trail[i]) \in seen'
        BY <1>1, <3>1, <3>2, <4>1
      <4> QED
        BY <1>2, <3>2, <3>3, <4>2 DEF MarkedNext
    <3> QED
      BY <3>4, <3>5, <3>6
  <2>4. Makes(m, trail[k])
    BY <2>2, <2>3, LastLiteral
  <2> QED
    BY <1>5, <2>4
<1> QED
  BY <1>6, <1>7

(* A model that makes what analyzeFinal has marked true satisfies the
   conflict. *)
LEMMA ConcludedStep ==
  ASSUME IInv, Sound, Concluded, Next PROVE Concluded'
<1> SUFFICES ASSUME pc' = "final", NEW m \in Models(given'), MarkedNext(m)
             PROVE  SatisfiesClause(m, conflict')
  BY DEF Concluded, MarkedHold, MarkedNext
<1>1. m \in Models(given) /\ m \in Assignments
  BY ModelsKept
<1>2. FactsHold(m) /\ ClausesHold(m)
  BY <1>1 DEF Sound, ClausesHold
<1> QED
  BY <1>1, <1>2, FinalSteps, FirstConclusion, NextConclusion

(* What analyzeFinal returns follows from the clauses. *)
LEMMA FinalConclusion ==
  ASSUME IInv, Sound, Concluded, FinalDone, NEW m \in Models(given)
  PROVE  SatisfiesClause(m, conflict)
<1>1. pc = "final" /\ ToVisit = {}
  BY DEF FinalDone
<1>2. seen \subseteq {Var(NextAssumption)}
  BY <1>1, FinalMarks
<1>3. FactsHold(m)
  BY DEF Sound
<1>4. ASSUME NEW k \in DOMAIN trail, Var(trail[k]) \in seen PROVE level(Var(trail[k])) = 0
  <2>0. Finalised /\ LevelsFacts
    BY Levels DEF IInv
  <2>1. k < index /\ decisionLevel # 0
    BY <1>1, <1>4, <2>0 DEF Finalised
  <2>2. k \notin ToVisit
    BY <1>1
  <2>3. 1 \in DOMAIN trail_lim /\ trail_lim[1] \in Nat /\ k \in Nat
    BY <2>0, <2>1 DEF LevelsFacts
  <2>4. index \in Nat
    BY DEF IInv, LoopTyped
  <2>5. ~(trail_lim[1] < k)
    <3>1. ASSUME trail_lim[1] < k PROVE FALSE
      <4>1. k \in trail_lim[1] + 1 .. index - 1
        BY <2>1, <2>3, <2>4, <3>1
      <4> QED
        BY <1>4, <2>1, <2>2, <4>1 DEF ToVisit, Decided
    <3> QED
      BY <3>1
  <2>6. ~(1 <= level(Var(trail[k])))
    BY <2>0, <2>3, <2>5 DEF LevelsFacts
  <2> QED
    BY <2>0, <2>6 DEF LevelsFacts
<1>5. MarkedHold(m)
  BY <1>3, <1>4 DEF FactsHold, MarkedHold
<1> QED
  BY <1>1, <1>5 DEF Concluded

-----------------------------------------------------------------------------

(* All parts together, to begin with, *)
LEMMA InitLayers ==
  ASSUME NeverReleases, Init PROVE Layers
<1>1. IInv /\ Blockers /\ Guarded
  BY InitIInv, InitWatches
<1>2. given = {} /\ clauses = {} /\ learnts = {} /\ trail = <<>> /\ ok = TRUE /\ pc = "idle"
      /\ assumptions = <<>> /\ DOMAIN trail = {} /\ DOMAIN assumptions = {}
  BY DEF Init
<1>3. Sound
  BY <1>2 DEF Sound, Live, FactsHold
<1>4. Refuted /\ Concluded /\ Assumed
  BY <1>2 DEF Refuted, Concluded, Assumed, Analysing
<1>5. Complete
  BY <1>2 DEF Complete, Satisfies
<1> QED
  BY <1>1, <1>3, <1>4, <1>5 DEF Layers

(* in every step, *)
LEMMA StepLayers ==
  ASSUME Layers, Next PROVE Layers'
BY StepIInv, BlockersStep, GuardedStep, SoundStep, RefutedStep, CompleteStep, ConcludedStep, AssumedStep
   DEF Layers

(* and in one that changes nothing. *)
LEMMA StutterLayers ==
  ASSUME Layers, UNCHANGED vars PROVE Layers'
<1> USE SameState DEF Layers
<1>1. IInv' /\ Blockers' /\ Guarded'
  BY StutterIInv, StutterWatches
<1>2. Live' = Live /\ TrueLits' = TrueLits /\ decisionLevel' = decisionLevel
  BY DEF Live, TrueLits, decisionLevel
<1>3. Sound' /\ Complete'
  BY <1>2 DEF Sound, Complete, FactsHold, level
<1>4. Refuted' /\ Concluded'
  BY <1>2 DEF Refuted, Concluded, MarkedHold, Analysing
<1>5. Assumed'
  BY <1>2 DEF Assumed, IsTrue, level
<1> QED
  BY <1>1, <1>3, <1>4, <1>5

(* All parts hold of every solver whose user releases no variable. *)
THEOREM Layered ==
  ASSUME NeverReleases PROVE Spec => []Layers
<1>1. Init => Layers
  BY InitLayers
<1>2. Layers /\ [Next]_vars => Layers'
  BY StepLayers, StutterLayers
<1> QED
  BY <1>1, <1>2, PTL DEF Spec

(* What the solver derives follows from the clauses it was given: every
   model of them satisfies the clauses it keeps, learnt and minimised ones
   included, and has the assignments of level 0; and a solver that is no
   longer ok has no model to miss. *)
THEOREM Soundness ==
  ASSUME NeverReleases PROVE Spec => []Entailed
<1>1. Layers => Entailed
  BY DEF Layers, Sound, Entailed, FactsHold
<1> QED
  BY <1>1, Layered, PTL

-----------------------------------------------------------------------------
(* Which steps answer. *)
LEMMA Answering ==
  ASSUME IInv, Next, answer = "none"
  PROVE  /\ answer' = "sat" => ModelFound
         /\ answer' = "unsat" => SolveDead \/ RootConflict \/ FinalDone
<1>1. CASE propagate \/ Resolve \/ Learn \/ Restart \/ simplify \/ NotSimplified \/ reduceDB \/ NotReduced
             \/ DummyLevel \/ Assume \/ AssumptionFalse \/ FinalStep \/ Branch
  <2>1. answer' = answer
    BY <1>1 DEF propagate, NextFact, Blocked, FirstTrue, MoveWatch, Imply, Clash, Visit, Propagated,
       Resolve, Learn, Restart, NotSimplified, reduceDB, NotReduced, simplify, Simplified,
       DummyLevel, Assume, AssumptionFalse, FinalStep, Branch, resultVars
  <2> QED
    BY <2>1
<1>2. CASE newVar \/ AddNothing \/ AddEmpty \/ AddUnit \/ AddLong \/ SimplifyCall \/ SimplifySkipped \/ Solve
  <2>1. answer' = answer \/ answer' = "none"
    BY <1>2 DEF newVar, AddNothing, AddEmpty, AddUnit, AddLong, AddCall, SimplifySkipped, SimplifyCall, Simplified,
       Solve, resultVars
  <2> QED
    BY <2>1
<1>3. CASE Interrupted
  BY <1>3 DEF Interrupted, Return
<1>4. CASE ModelFound
  BY <1>4 DEF ModelFound, Return
<1>5. CASE SolveDead \/ RootConflict \/ FinalDone
  <2>1. answer' = "unsat"
    BY <1>5 DEF SolveDead, RootConflict, FinalDone, Return
  <2> QED
    BY <1>5, <2>1
<1> QED
  BY <1>1, <1>2, <1>3, <1>4, <1>5, NoRelease DEF IInv, Next, user, solver, analyze, search

(* The assignment that a set of true literals stands for. *)
Read(lits) == [x \in Vars |-> mkLit(x, 0) \in lits]

(* The literals of a variable. *)
LEMMA LitOfVar ==
  ASSUME NEW x \in Vars
  PROVE  /\ mkLit(x, 0) \in Lits /\ mkLit(x, 1) \in Lits
         /\ Var(mkLit(x, 0)) = x /\ Var(mkLit(x, 1)) = x
         /\ Neg(mkLit(x, 0)) = mkLit(x, 1)
BY NVarsAssumption, SMTT(30) DEF mkLit, Lits, Vars, Neg, Var, sign

(* A literal is one of the two of its variable. *)
LEMMA LitSign ==
  ASSUME NEW p \in Lits
  PROVE  /\ sign(p) = 1 => Neg(p) = mkLit(Var(p), 0)
         /\ sign(p) # 1 => p = mkLit(Var(p), 0)
BY NVarsAssumption, SMTT(30) DEF mkLit, Lits, Neg, Var, sign

(* The model that is read off the trail makes its literals true. *)
LEMMA ReadMakes ==
  ASSUME IInv, NEW p \in Lits, IsTrue(p) PROVE Makes(Read(TrueLits), p)
<1> DEFINE m == Read(TrueLits)
<1>1. Var(p) \in Vars
  BY LitFacts
<1>2. m[Var(p)] <=> mkLit(Var(p), 0) \in TrueLits
  BY <1>1 DEF Read
<1> HIDE DEF m
<1>3. CASE sign(p) = 1
  <2>1. mkLit(Var(p), 0) \notin TrueLits
    BY <1>3, LitSign, NotBoth DEF IsFalse
  <2>2. Makes(m, p) <=> ~m[Var(p)]
    BY <1>3, Zenon DEF Makes
  <2>3. Makes(m, p)
    BY <1>2, <2>1, <2>2, Zenon
  <2> QED
    BY <2>3 DEF m
<1>4. CASE sign(p) # 1
  <2>1. mkLit(Var(p), 0) \in TrueLits
    BY <1>4, LitSign DEF IsTrue
  <2>2. Makes(m, p) <=> m[Var(p)]
    BY <1>4, Zenon DEF Makes
  <2>3. Makes(m, p)
    BY <1>2, <2>1, <2>2, Zenon
  <2> QED
    BY <2>3 DEF m
<1> QED
  BY <1>3, <1>4

(* When pickBranchLit finds nothing, every variable is assigned. *)
LEMMA AllAssigned ==
  ASSUME IInv, ModelFound, NEW x \in 0 .. next_var - 1 PROVE x \in Assigned /\ x \in Vars
<1>1. x \in order_heap \cup Assigned
  BY HeapFacts
<1>2. x \in Assigned
  BY <1>1 DEF ModelFound, Free
<1> QED
  BY <1>2, TrueFacts DEF IInv

(* The model has one value for each variable, satisfies what was given and
   makes the assumptions true. *)
LEMMA ModelRight ==
  ASSUME Layers, ModelFound
  PROVE  /\ \A x \in 0 .. next_var - 1 : mkLit(x, 0) \in TrueLits <=> mkLit(x, 1) \notin TrueLits
         /\ Satisfies(Read(TrueLits), given)
         /\ \A k \in DOMAIN assumptions : Makes(Read(TrueLits), assumptions[k])
<1> USE DEF Layers
<1>1. pc = "pick" /\ decisionLevel >= Len(assumptions) /\ ok
  BY DEF ModelFound, IInv, Control, Idle
<1>2. ASSUME NEW x \in 0 .. next_var - 1
      PROVE  mkLit(x, 0) \in TrueLits <=> mkLit(x, 1) \notin TrueLits
  <2>1. x \in Assigned /\ x \in Vars
    BY <1>2, AllAssigned
  <2>2. PICK p \in TrueLits : Var(p) = x
    BY <2>1 DEF Assigned
  <2>3. p \in Lits
    BY TrueFacts DEF IInv
  <2>4. mkLit(x, 0) \in Lits /\ mkLit(x, 1) \in Lits /\ Var(mkLit(x, 0)) = x
        /\ Neg(mkLit(x, 0)) = mkLit(x, 1)
    BY <2>1, LitOfVar
  <2>5. p = mkLit(x, 0) \/ p = mkLit(x, 1)
    BY <2>2, <2>3, <2>4, SameVar, LitFacts
  <2>6. ~(mkLit(x, 0) \in TrueLits /\ mkLit(x, 1) \in TrueLits)
    BY <2>4, NotBoth DEF IsTrue, IsFalse
  <2> QED
    BY <2>2, <2>5, <2>6
<1> DEFINE m == Read(TrueLits)
<1>3. m \in Assignments
  BY DEF Read, Assignments
<1>4. ASSUME NEW p \in Lits, IsTrue(p) PROVE Makes(m, p)
  BY <1>4, ReadMakes
<1> HIDE DEF m
<1>5. FactsHold(m)
  BY <1>4, TrailFacts DEF FactsHold
<1>6. ASSUME NEW cr \in clauses PROVE SatisfiesClause(m, LitsOf(ca[cr]))
  <2>1. cr \in Live /\ ca[cr].w0 \in Lits /\ LitsOf(ca[cr]) \subseteq Lits
    BY <1>6, LiveLits DEF Live
  <2>2. satisfied(ca[cr]) \/ Unset(ca[cr].w0)
    BY <1>1, <2>1, Implied DEF NothingImplied
  <2>3. ~Unset(ca[cr].w0)
    <3>1. Var(ca[cr].w0) \in 0 .. next_var - 1
      <4>1. Var(ca[cr].w0) < next_var
        BY <2>1 DEF IInv, Created, Known, LitsOf
      <4> QED
        BY <2>1, <4>1, LitFacts, HeapFacts
    <3>2. Var(ca[cr].w0) \in Assigned
      BY <3>1, AllAssigned
    <3>3. PICK k \in DOMAIN trail : Var(trail[k]) = Var(ca[cr].w0)
      BY <3>2, TrailFacts
    <3>4. trail[k] \in Lits /\ IsTrue(trail[k])
      BY TrailFacts
    <3>5. trail[k] = ca[cr].w0 \/ trail[k] = Neg(ca[cr].w0)
      BY <2>1, <3>3, <3>4, SameVar
    <3> QED
      BY <3>4, <3>5 DEF Unset, IsFalse, IsTrue
  <2>4. PICK q \in LitsOf(ca[cr]) : IsTrue(q)
    BY <2>2, <2>3 DEF satisfied
  <2>5. Makes(m, q)
    BY <1>4, <2>1, <2>4
  <2> QED
    BY <2>5 DEF SatisfiesClause
<1>7. Satisfies(m, given)
  BY <1>1, <1>3, <1>5, <1>6 DEF Complete
<1>8. ASSUME NEW k \in DOMAIN assumptions PROVE Makes(m, assumptions[k])
  <2>1. assumptions[k] \in Lits /\ k \in Nat /\ k <= Len(assumptions) /\ Len(assumptions) \in Nat
    BY DEF IInv, UserTyped
  <2>2. k <= decisionLevel
    BY <1>1, <2>1, TrailFacts
  <2> QED
    BY <1>4, <2>1, <2>2 DEF Assumed
<1> QED
  BY <1>2, <1>7, <1>8 DEF m

(* A conflict consists of negated assumptions, follows from what was given,
   and is empty exactly when the solver gave up. *)
LEMMA Refutations ==
  ASSUME Layers, Next, SolveDead \/ RootConflict \/ FinalDone
  PROVE  /\ Entails(given, conflict')
         /\ \A p \in conflict' : \E k \in DOMAIN assumptions : assumptions[k] = Neg(p)
         /\ conflict' = {} <=> ~ok'
<1> USE DEF Layers
<1>1. CASE SolveDead
  <2>1. pc = "dead" /\ conflict' = {} /\ ok' = ok
    BY <1>1 DEF SolveDead, Return
  <2>2. ~ok
    BY <2>1 DEF IInv, Control
  <2> QED
    BY <2>1, <2>2 DEF Sound, Entails
<1>2. CASE RootConflict
  <2>1. conflict' = {} /\ ok' = FALSE /\ given' = given
    BY <1>2 DEF RootConflict, Return, userVars
  <2>2. Sound'
    BY SoundStep
  <2>3. Models(given) = {}
    BY <2>1, <2>2 DEF Sound
  <2> QED
    BY <2>1, <2>3 DEF Entails
<1>3. CASE FinalDone
  <2>1. pc = "final" /\ conflict' = conflict /\ ok' = ok
    BY <1>3 DEF FinalDone, Return
  <2>2. ok
    BY <2>1 DEF IInv, Control, Idle
  <2>3. /\ Neg(NextAssumption) \in conflict
        /\ \A p \in conflict : \E j \in DOMAIN assumptions : assumptions[j] = Neg(p)
    BY <2>1 DEF IInv, Finalised
  <2>4. Entails(given, conflict)
    BY <1>3, FinalConclusion DEF Entails
  <2> QED
    BY <2>1, <2>2, <2>3, <2>4
<1> QED
  BY <1>1, <1>2, <1>3

(* Every answer is justified. *)
LEMMA AnswerStep ==
  ASSUME Layers, Next, answer = "none" PROVE AnswerJustified
<1>1. CASE answer' = "sat"
  <2>1. ModelFound
    BY <1>1, Answering DEF Layers
  <2>2. model' = TrueLits
    BY <2>1 DEF ModelFound, Return
  <2>3. /\ \A x \in 0 .. next_var - 1 : mkLit(x, 0) \in model' <=> mkLit(x, 1) \notin model'
        /\ Satisfies(Read(model'), given)
        /\ \A k \in DOMAIN assumptions : Makes(Read(model'), assumptions[k])
    BY <2>1, <2>2, ModelRight
  <2> QED
    BY <1>1, <2>3 DEF AnswerJustified, Read
<1>2. CASE answer' = "unsat"
  <2>1. SolveDead \/ RootConflict \/ FinalDone
    BY <1>2, Answering DEF Layers
  <2>2. /\ Entails(given, conflict')
        /\ \A p \in conflict' : \E k \in DOMAIN assumptions : assumptions[k] = Neg(p)
        /\ conflict' = {} <=> ~ok'
    BY <2>1, Refutations
  <2> QED
    BY <1>2, <2>2 DEF AnswerJustified
<1>3. CASE answer' # "sat" /\ answer' # "unsat"
  BY <1>3 DEF AnswerJustified
<1> QED
  BY <1>1, <1>2, <1>3

(* solve answers sat with a model of the clauses and the assumptions, and
   unsat with a final conflict that follows from the clauses alone. *)
THEOREM Answers ==
  ASSUME NeverReleases PROVE Spec => AnswersJustified
<1>1. ASSUME Layers, [Next]_vars PROVE [answer = "none" => AnswerJustified]_vars
  BY <1>1, AnswerStep
<1>2. Layers /\ [Next]_vars => [answer = "none" => AnswerJustified]_vars
  BY <1>1
<1> QED
  BY <1>2, Layered, PTL DEF Spec, AnswersJustified

-----------------------------------------------------------------------------

(* A call of solve stays without an answer exactly while search runs. *)
LEMMA AwaitingStep ==
  ASSUME IInv, Awaiting, Next PROVE Awaiting'
<1>0. /\ ~Idle /\ pc # "propagate" => caller = "search"
      /\ Idle \/ caller = "addClause" => decisionLevel = 0
      /\ ~Idle => caller \in {"addClause", "search"}
      /\ pc = "dead" => ~ok
      /\ ~Idle => ok
  BY DEF IInv, Control
<1>1. CASE newVar \/ AddNothing \/ AddEmpty \/ AddUnit \/ AddLong \/ SimplifyCall \/ SimplifySkipped
  <2>1. pc = "idle" /\ answer' = answer
    BY <1>1 DEF newVar, AddNothing, AddEmpty, AddUnit, AddLong, AddCall, SimplifySkipped, SimplifyCall, Simplified,
       Called, resultVars
  <2>2. (pc' = "idle" \/ caller' = "addClause") /\ pc' # "dead"
    BY <1>1, <2>1 DEF newVar, AddNothing, AddEmpty, AddUnit, AddLong, AddCall, SimplifySkipped, SimplifyCall, Simplified,
       Called
  <2> QED
    BY <2>1, <2>2 DEF Awaiting
<1>2. CASE Solve
  BY <1>2 DEF Solve, Awaiting
<1>3. CASE NextFact \/ Blocked \/ FirstTrue \/ MoveWatch \/ Imply
  <2>1. pc = "propagate" /\ pc' = pc /\ caller' = caller /\ answer' = answer
    BY <1>3 DEF NextFact, Blocked, FirstTrue, MoveWatch, Imply, Visit, resultVars
  <2> QED
    BY <2>1 DEF Awaiting
<1>4. CASE Clash \/ Propagated
  <2>1. pc = "propagate" /\ caller' = caller /\ answer' = answer
        /\ (pc' = "idle" <=> caller = "addClause") /\ pc' # "dead"
    BY <1>4 DEF Clash, Propagated, resultVars
  <2>2. caller \in {"addClause", "search"}
    BY <1>0, <2>1 DEF Idle
  <2> QED
    BY <2>1, <2>2 DEF Awaiting
<1>5. CASE SolveDead \/ RootConflict \/ Interrupted \/ FinalDone \/ ModelFound
  <2>1. pc' = "idle" /\ answer' # "none"
    BY <1>5 DEF SolveDead, RootConflict, Interrupted, FinalDone, ModelFound, Return
  <2> QED
    BY <2>1 DEF Awaiting
<1>6. CASE simplify \/ Resolve \/ Learn \/ Restart \/ NotSimplified \/ reduceDB \/ NotReduced
             \/ DummyLevel \/ Assume \/ AssumptionFalse \/ FinalStep \/ Branch
  <2>1. pc \notin {"idle", "dead", "propagate"} /\ pc' \notin {"idle", "dead"} /\ caller' = caller /\ answer' = answer
    BY <1>6 DEF simplify, Simplified, Resolve, Learn, Restart, NotSimplified, reduceDB, NotReduced,
       DummyLevel, Assume, AssumptionFalse, FinalStep, Branch, Pending, resultVars
  <2> QED
    BY <2>1 DEF Awaiting
<1> QED
  BY <1>1, <1>2, <1>3, <1>4, <1>5, <1>6, NoRelease DEF IInv, Next, user, solver, propagate, analyze, search

(* The assumptions as a set. *)
AssumedLits == {assumptions[k] : k \in DOMAIN assumptions}

(* The abstract specification has its own copy of SatLits. *)
LEMMA SameMeaning ==
  /\ Promise!Lits = Lits
  /\ \A cs, as : Promise!Satisfiable(cs, as) <=> Satisfiable(cs, as)
<1>1. Promise!Lits = Lits
  BY DEF Promise!Lits, Lits
<1>2. Promise!Assignments = Assignments
  BY DEF Promise!Assignments, Assignments, Promise!Vars, Vars
<1>3. \A m, p : Promise!Makes(m, p) <=> Makes(m, p)
  BY Zenon DEF Promise!Makes, Makes, Promise!sign, sign, Promise!Var, Var
<1>4. \A m, c : Promise!SatisfiesClause(m, c) <=> SatisfiesClause(m, c)
  BY <1>3 DEF Promise!SatisfiesClause, SatisfiesClause
<1>5. \A m, cs : Promise!Satisfies(m, cs) <=> Satisfies(m, cs)
  BY <1>4 DEF Promise!Satisfies, Satisfies
<1>6. \A cs : Promise!Models(cs) = Models(cs)
  BY <1>2, <1>5 DEF Promise!Models, Models
<1> QED
  BY <1>1, <1>3, <1>6 DEF Promise!Satisfiable, Satisfiable

(* sat is answered when the clauses have a model in which the assumptions
   are true, and unsat when they have none. *)
LEMMA ReplyStep ==
  ASSUME Layers, Next, answer = "none", answer' \in {"sat", "unsat"},
         given' = given, assumptions' = assumptions, options' = options
  PROVE  Promise!Reply
<1>0. /\ answer' = "sat" => ModelFound
      /\ answer' = "unsat" => SolveDead \/ RootConflict \/ FinalDone
  BY Answering DEF Layers
<1>1. ASSUME answer' = "sat" PROVE Satisfiable(given, AssumedLits)
  <2>1. /\ Satisfies(Read(TrueLits), given)
        /\ \A k \in DOMAIN assumptions : Makes(Read(TrueLits), assumptions[k])
    BY <1>0, <1>1, ModelRight
  <2>2. Read(TrueLits) \in Assignments
    BY DEF Read, Assignments
  <2> QED
    BY <2>1, <2>2 DEF Satisfiable, Models, AssumedLits
<1>2. ASSUME answer' = "unsat" PROVE ~Satisfiable(given, AssumedLits)
  <2>1. SUFFICES ASSUME NEW m \in Models(given), \A a \in AssumedLits : Makes(m, a) PROVE FALSE
    BY DEF Satisfiable
  <2>2. /\ Entails(given, conflict')
        /\ \A p \in conflict' : \E k \in DOMAIN assumptions : assumptions[k] = Neg(p)
    BY <1>0, <1>2, Refutations
  <2>3. PICK p \in conflict' : Makes(m, p)
    BY <2>2 DEF Entails, SatisfiesClause
  <2>4. p \in Lits
    <3>1. UserTyped'
      BY UserTypedStep DEF Layers
    <3> QED
      BY <3>1 DEF UserTyped
  <2>5. PICK k \in DOMAIN assumptions : assumptions[k] = Neg(p)
    BY <2>2
  <2>6. Makes(m, Neg(p))
    BY <2>1, <2>5 DEF AssumedLits
  <2>7. m \in Assignments
    BY DEF Models
  <2> QED
    BY <2>3, <2>4, <2>6, <2>7, MakesNeg
<1>3. answer' = IF Satisfiable(given, AssumedLits) THEN "sat" ELSE "unsat"
  BY <1>1, <1>2
<1> QED
  <2>1. Promise!Satisfiable(given, AssumedLits) <=> Satisfiable(given, AssumedLits)
    BY SameMeaning
  <2>2. answer' = IF Promise!Satisfiable(given, AssumedLits) THEN "sat" ELSE "unsat"
    BY <1>3, <2>1
  <2> QED
    BY <2>2 DEF Promise!Reply, AssumedLits

(* Every step of the solver is a step of what is promised, or changes
   nothing a user sees. *)
LEMMA PromiseStep ==
  ASSUME Layers, Awaiting, Next
  PROVE  Promise!Next \/ UNCHANGED Promise!vars
<1>1. CASE AddNothing \/ AddEmpty \/ AddUnit \/ AddLong
  <2>1. AddCall
    BY <1>1 DEF AddNothing, AddEmpty, AddUnit, AddLong
  <2>2. /\ pc = "idle" /\ given' = given \cup {Input} /\ Input \in SUBSET Lits
        /\ assumptions' = assumptions /\ answer' = answer /\ options' = options
    BY <2>1, InputFacts DEF AddCall, Called, resultVars, limitVars, Layers
  <2>3. answer # "none"
    BY <2>2 DEF Awaiting
  <2> QED
    BY <2>2, <2>3, SameMeaning DEF Promise!Next, Promise!AddClause
<1>2. CASE Solve
  <2>1. /\ pc = "idle" /\ answer' = "none" /\ given' = given /\ options' = options
        /\ script # <<>> /\ Head(script).call = "solve" /\ assumptions' = Head(script).assumps
    BY <1>2 DEF Solve, Called
  <2>2. assumptions' \in Seq(Lits)
    BY <2>1, CallTyped, CallFields DEF Layers, IInv
  <2>3. {assumptions'[k] : k \in DOMAIN assumptions'} \in SUBSET Lits
    BY <2>2
  <2>4. answer # "none"
    BY <2>1 DEF Awaiting
  <2> QED
    BY <2>1, <2>3, <2>4, SameMeaning DEF Promise!Next, Promise!Ask
<1>3. CASE SolveDead \/ RootConflict \/ FinalDone \/ ModelFound
  <2>1. /\ pc # "idle" /\ pc # "propagate" /\ answer' \in {"sat", "unsat"}
        /\ given' = given /\ assumptions' = assumptions /\ options' = options
    BY <1>3 DEF SolveDead, RootConflict, FinalDone, ModelFound, Return, userVars, limitVars
  <2>2. pc = "dead" => caller = "search"
    BY <2>1 DEF Awaiting
  <2> QED
    BY <2>1, <2>2, ReplyStep DEF Promise!Next, Layers, IInv, Control, Idle, Awaiting
<1>4. CASE Interrupted
  <2>1. /\ pc = "decide" /\ answer' = "undef" /\ options.interruptible
        /\ given' = given /\ assumptions' = assumptions /\ options' = options
    BY <1>4 DEF Interrupted, Return, userVars, limitVars
  <2>2. answer = "none"
    BY <2>1 DEF Awaiting, Layers, IInv, Control, Idle
  <2> QED
    BY <2>1, <2>2 DEF Promise!Next, Promise!GiveUp
<1>5. CASE \/ newVar \/ SimplifyCall \/ SimplifySkipped \/ NextFact \/ Blocked \/ FirstTrue \/ MoveWatch
           \/ Imply \/ Clash \/ Propagated \/ simplify \/ Resolve \/ Learn \/ Restart \/ NotSimplified
           \/ reduceDB \/ NotReduced \/ DummyLevel \/ Assume \/ AssumptionFalse \/ FinalStep \/ Branch
  <2>1. given' = given /\ assumptions' = assumptions /\ answer' = answer /\ options' = options
    BY <1>5 DEF newVar, SimplifyCall, SimplifySkipped, NextFact, Blocked, FirstTrue, MoveWatch, Visit,
       Imply, Clash, Propagated, simplify, Simplified, Resolve, Learn, Restart, NotSimplified,
       reduceDB, NotReduced, DummyLevel, Assume, AssumptionFalse, FinalStep, Branch,
       userVars, limitVars, resultVars
  <2> QED
    BY <2>1 DEF Promise!vars
<1> QED
  BY <1>1, <1>2, <1>3, <1>4, <1>5, NoRelease DEF Layers, IInv, Next, user, solver, propagate, analyze, search

(* The solver implements IncrementalSat: each call of solve answers whether
   the clauses added so far have a model in which its assumptions are true. *)
THEOREM PromiseKept ==
  ASSUME NeverReleases PROVE Spec => Promise!Init /\ [][Promise!Next]_(Promise!vars)
<1>1. ASSUME Init PROVE Promise!Init /\ Awaiting
  <2>1. PICK s \in Scripts : options = s.options
    BY <1>1 DEF Init
  <2>2. options.interruptible \in BOOLEAN
    BY <2>1, ScriptsAssumption DEF Options
  <2>3. given = {} /\ assumptions = <<>> /\ answer = "idle" /\ pc = "idle"
    BY <1>1 DEF Init
  <2> QED
    BY <2>2, <2>3 DEF Promise!Init, Awaiting
<1>2. ASSUME Layers, Awaiting, [Next]_vars PROVE Awaiting' /\ [Promise!Next]_(Promise!vars)
  <2>1. CASE Next
    BY <1>2, <2>1, AwaitingStep, PromiseStep DEF Layers
  <2>2. CASE UNCHANGED vars
    BY <2>2, <1>2, SameState DEF Awaiting, Promise!vars
  <2> QED
    BY <1>2, <2>1, <2>2
<1>3. Init => Promise!Init /\ Awaiting
  BY <1>1
<1>4. Layers /\ Awaiting /\ [Next]_vars => Awaiting' /\ [Promise!Next]_(Promise!vars)
  BY <1>2
<1> QED
  BY <1>3, <1>4, Layered, PTL DEF Spec
=============================================================================
