----------------------------- MODULE BmcProofs -----------------------------
(***************************************************************************)
(* Theorems about Bmc for every set of files, every bound and every        *)
(* solver: types, the layout of the unrolling, that the solver is only     *)
(* given variables it knows, and, for a solver that answers correctly, the *)
(* meaning of the program's answer.                                        *)
(*                                                                         *)
(* First the facts about graphs, their translation and their unrolling     *)
(* that hold for every graph the reader accepts: types, the arithmetic of  *)
(* the numbering, and where the clauses of a step lie.  Then what the      *)
(* clauses of an unrolling say: for a graph in the fragment the            *)
(* translation covers, an assignment satisfies them exactly when it        *)
(* describes a run of the graph, and the assumptions of a step exactly     *)
(* when the run ends there with the bad literals true.  Then the program.  *)
(***************************************************************************)
EXTENDS Bmc, SequenceTheorems, TLAPS

-----------------------------------------------------------------------------
(* Sequences and graphs. *)

(* A function on an initial segment of the naturals is a sequence. *)
LEMMA FunctionIsSeq ==
  ASSUME NEW S, NEW n \in Nat, NEW f \in [1 .. n -> S]
  PROVE  f \in Seq(S) /\ Len(f) = n /\ DOMAIN f = 1 .. n
<1>1. f \in Seq(S)
  BY SeqDef
<1>2. QED
  BY <1>1, LenProperties

(* A prefix has the type of the sequence, and its items are items of it. *)
LEMMA PrefixType ==
  ASSUME NEW S, NEW s \in Seq(S), NEW p \in Prefixes(s)
  PROVE  /\ p \in Seq(S)
         /\ DOMAIN p \subseteq DOMAIN s
         /\ \A k \in DOMAIN p : p[k] = s[k]
<1>1. PICK n \in 0 .. Len(s) : p = SubSeq(s, 1, n)
  BY DEF Prefixes
<1>2. Len(s) \in Nat /\ DOMAIN s = 1 .. Len(s) /\ n \in Int
  BY LenProperties
<1>3. \A k \in 1 .. n : s[k] \in S
  BY <1>2, ElementOfSeq
<1>4. /\ SubSeq(s, 1, n) \in Seq(S)
      /\ Len(SubSeq(s, 1, n)) = IF 1 <= n THEN n - 1 + 1 ELSE 0
      /\ \A k \in 1 .. n - 1 + 1 : SubSeq(s, 1, n)[k] = s[1 + k - 1]
  BY <1>2, <1>3, SubSeqProperties
<1>5. DOMAIN p = 1 .. n
  BY <1>1, <1>2, <1>4, LenProperties
<1>6. QED
  BY <1>1, <1>2, <1>4, <1>5

(* Losing the last reset value changes nothing else. *)
LEMMA ResetLostType ==
  ASSUME NEW s \in Seq(Latch)
  PROVE  /\ ResetLost(s) \in Seq(Latch)
         /\ DOMAIN ResetLost(s) = DOMAIN s
         /\ \A k \in DOMAIN s : /\ ResetLost(s)[k].lit = s[k].lit
                                /\ ResetLost(s)[k].next = s[k].next
<1>1. CASE s = <<>>
  BY <1>1 DEF ResetLost
<1>2. CASE s # <<>>
  <2>1. Len(s) \in 1 .. Len(s) /\ DOMAIN s = 1 .. Len(s)
    BY <1>2, EmptySeq, LenProperties
  <2> DEFINE last == [s[Len(s)] EXCEPT !.reset = 0]
  <2>2. s[Len(s)] \in Latch
    BY <2>1, ElementOfSeq
  <2>3. last \in Latch /\ last.lit = s[Len(s)].lit /\ last.next = s[Len(s)].next
    BY <2>2 DEF Latch
  <2>4. ResetLost(s) = [s EXCEPT ![Len(s)] = last]
    BY <1>2 DEF ResetLost
  <2> HIDE DEF last
  <2>5. QED
    BY <2>1, <2>3, <2>4, ExceptSeq, LenProperties
<1>3. QED
  BY <1>1, <1>2

(* What the reader leaves behind after an error is still a graph whose
   literals are in range. *)
LEMMA CutShortType ==
  ASSUME NEW g \in AigerType, LiteralsInRange(g), NEW h \in CutShort(g)
  PROVE  h \in AigerType /\ LiteralsInRange(h)
<1>0. /\ <<>> \in Seq(Nat) /\ <<>> \in Seq(Latch) /\ <<>> \in Seq(And)
      /\ DOMAIN <<>> = {}
  BY EmptySeq, LenProperties
<1>1. CASE h = EmptyAiger
  BY <1>0, <1>1 DEF EmptyAiger, Graph, AigerType, LiteralsInRange
<1>2. ASSUME NEW s \in Prefixes(g.inputs), h = Graph(g.maxvar, s, <<>>, <<>>, <<>>, <<>>)
      PROVE  h \in AigerType /\ LiteralsInRange(h)
  <2>1. g.inputs \in Seq(Nat)
    BY DEF AigerType
  <2>2. QED
    BY <1>0, <1>2, <2>1, PrefixType
    DEF Graph, AigerType, LiteralsInRange, Definable, InRange
<1>3. ASSUME NEW s \in CutLatches(g.latches),
             h = Graph(g.maxvar, g.inputs, s, <<>>, <<>>, <<>>)
      PROVE  h \in AigerType /\ LiteralsInRange(h)
  <2>1. g.latches \in Seq(Latch)
    BY DEF AigerType
  <2>2. /\ s \in Seq(Latch)
        /\ DOMAIN s \subseteq DOMAIN g.latches
        /\ \A k \in DOMAIN s : /\ s[k].lit = g.latches[k].lit
                               /\ s[k].next = g.latches[k].next
    BY <2>1, PrefixType, ResetLostType DEF CutLatches
  <2>3. QED
    BY <1>0, <1>3, <2>2 DEF Graph, AigerType, LiteralsInRange, Definable, InRange
<1>4. ASSUME NEW s \in Prefixes(g.outputs), h = Graph(g.maxvar, g.inputs, g.latches, s, <<>>, <<>>)
      PROVE  h \in AigerType /\ LiteralsInRange(h)
  <2>1. g.outputs \in Seq(Nat)
    BY DEF AigerType
  <2>2. QED
    BY <1>0, <1>4, <2>1, PrefixType
    DEF Graph, AigerType, LiteralsInRange, Definable, InRange
<1>5. ASSUME NEW s \in Prefixes(g.bad), h = Graph(g.maxvar, g.inputs, g.latches, g.outputs, s, <<>>)
      PROVE  h \in AigerType /\ LiteralsInRange(h)
  <2>1. g.bad \in Seq(Nat)
    BY DEF AigerType
  <2>2. QED
    BY <1>0, <1>5, <2>1, PrefixType
    DEF Graph, AigerType, LiteralsInRange, Definable, InRange
<1>6. ASSUME NEW s \in Prefixes(g.ands), h = Graph(g.maxvar, g.inputs, g.latches, g.outputs, g.bad, s)
      PROVE  h \in AigerType /\ LiteralsInRange(h)
  <2>1. g.ands \in Seq(And)
    BY DEF AigerType
  <2>2. QED
    BY <1>0, <1>6, <2>1, PrefixType
    DEF Graph, AigerType, LiteralsInRange, Definable, InRange
<1>7. QED
  BY <1>1, <1>2, <1>3, <1>4, <1>5, <1>6 DEF CutShort

-----------------------------------------------------------------------------
(* The translation of a graph. *)

(* The literals over the variables of time step 0. *)
CnfLits(g) == {x \in Int : LitVar(x) \in 1 .. g.maxvar + 1}

(* A literal the reader accepted becomes a literal of time step 0. *)
LEMMA LiteralTranslation ==
  ASSUME NEW g \in AigerType, NEW l \in Nat, InRange(g, l)
  PROVE  /\ UnsignedLit(l) \in CnfLits(g)
         /\ SignedLit(l) \in CnfLits(g)
         /\ UnsignedLit(l) > 0
<1>1. l \div 2 \in 0 .. g.maxvar /\ g.maxvar \in Nat
  BY DEF InRange, aiger_lit2var, AigerType
<1>2. QED
  BY <1>1 DEF UnsignedLit, SignedLit, CnfLits, LitVar

(* Negation stays within the literals of time step 0. *)
LEMMA NegationInRange ==
  ASSUME NEW g, g.maxvar \in Nat, NEW x \in CnfLits(g)
  PROVE  -x \in CnfLits(g) /\ x \in Int /\ x # 0
BY DEF CnfLits, LitVar

(* What aigtocnf returns is over the variables of time step 0, and has one
   entry per latch, input and bad literal. *)
LEMMA TranslationType ==
  ASSUME NEW g \in AigerType, LiteralsInRange(g)
  PROVE  /\ aigtocnf(g).inputs \in Seq(CnfLits(g))
         /\ aigtocnf(g).inits \in Seq(CnfLits(g))
         /\ aigtocnf(g).in_latch \in Seq(CnfLits(g))
         /\ aigtocnf(g).out_latch \in Seq(CnfLits(g))
         /\ aigtocnf(g).bads \in Seq(CnfLits(g))
         /\ aigtocnf(g).ands \in SUBSET (SUBSET CnfLits(g))
         /\ DOMAIN aigtocnf(g).out_latch = DOMAIN aigtocnf(g).in_latch
         /\ \A k \in DOMAIN aigtocnf(g).bads : aigtocnf(g).bads[k] > 0
<1>1. /\ g.inputs \in Seq(Nat) /\ g.latches \in Seq(Latch)
      /\ g.outputs \in Seq(Nat) /\ g.bad \in Seq(Nat) /\ g.ands \in Seq(And)
      /\ g.maxvar \in Nat
  BY DEF AigerType
<1>2. /\ Len(g.inputs) \in Nat /\ DOMAIN g.inputs = 1 .. Len(g.inputs)
      /\ Len(g.latches) \in Nat /\ DOMAIN g.latches = 1 .. Len(g.latches)
  BY <1>1, LenProperties
<1>3. aigtocnf(g).inputs \in Seq(CnfLits(g))
  <2>1. \A k \in 1 .. Len(g.inputs) : g.inputs[k] \in Nat /\ InRange(g, g.inputs[k])
    BY <1>1, <1>2, ElementOfSeq DEF LiteralsInRange, Definable
  <2>2. aigtocnf(g).inputs \in [1 .. Len(g.inputs) -> CnfLits(g)]
    BY <2>1, LiteralTranslation DEF aigtocnf
  <2>3. QED
    BY <1>2, <2>2, FunctionIsSeq
<1>4. \A k \in 1 .. Len(g.latches) :
        /\ g.latches[k].lit \in Nat /\ g.latches[k].next \in Nat
        /\ InRange(g, g.latches[k].lit) /\ InRange(g, g.latches[k].next)
  <2>1. \A k \in 1 .. Len(g.latches) : g.latches[k] \in Latch
    BY <1>1, <1>2, ElementOfSeq
  <2>2. QED
    BY <1>2, <2>1 DEF LiteralsInRange, Definable, Latch
<1>5. /\ aigtocnf(g).in_latch \in Seq(CnfLits(g))
      /\ aigtocnf(g).out_latch \in Seq(CnfLits(g))
      /\ DOMAIN aigtocnf(g).out_latch = DOMAIN aigtocnf(g).in_latch
  <2>1. /\ aigtocnf(g).in_latch \in [1 .. Len(g.latches) -> CnfLits(g)]
        /\ aigtocnf(g).out_latch \in [1 .. Len(g.latches) -> CnfLits(g)]
    BY <1>4, LiteralTranslation DEF aigtocnf
  <2>2. QED
    BY <1>2, <2>1, FunctionIsSeq
<1>6. aigtocnf(g).inits \in Seq(CnfLits(g))
  <2>1. \A k \in 1 .. Len(g.latches) : InitLiteral(g.latches[k]) \in CnfLits(g)
    BY <1>1, <1>4, LiteralTranslation, NegationInRange DEF InitLiteral
  <2>2. aigtocnf(g).inits \in [1 .. Len(g.latches) -> CnfLits(g)]
    BY <2>1 DEF aigtocnf
  <2>3. QED
    BY <1>2, <2>2, FunctionIsSeq
<1>7. /\ aigtocnf(g).bads \in Seq(CnfLits(g))
      /\ \A k \in DOMAIN aigtocnf(g).bads : aigtocnf(g).bads[k] > 0
  <2>1. /\ BadLiterals(g) \in Seq(Nat)
        /\ \A k \in DOMAIN BadLiterals(g) : InRange(g, BadLiterals(g)[k])
    BY <1>1 DEF BadLiterals, LiteralsInRange
  <2>2. /\ Len(BadLiterals(g)) \in Nat
        /\ DOMAIN BadLiterals(g) = 1 .. Len(BadLiterals(g))
    BY <2>1, LenProperties
  <2>3. \A k \in 1 .. Len(BadLiterals(g)) :
          /\ UnsignedLit(BadLiterals(g)[k]) \in CnfLits(g)
          /\ UnsignedLit(BadLiterals(g)[k]) > 0
    BY <2>1, <2>2, ElementOfSeq, LiteralTranslation
  <2>4. /\ aigtocnf(g).bads \in [1 .. Len(BadLiterals(g)) -> CnfLits(g)]
        /\ \A k \in 1 .. Len(BadLiterals(g)) : aigtocnf(g).bads[k] > 0
    BY <2>3 DEF aigtocnf, BadVars
  <2>5. QED
    BY <2>2, <2>4, FunctionIsSeq
<1>8. aigtocnf(g).ands \in SUBSET (SUBSET CnfLits(g))
  <2>1. ASSUME NEW k \in DOMAIN g.ands
        PROVE  equal_and2cnf(UnsignedLit(g.ands[k].lhs), SignedLit(g.ands[k].rhs0),
                             SignedLit(g.ands[k].rhs1))
                 \subseteq SUBSET CnfLits(g)
    <3>1. DOMAIN g.ands = 1 .. Len(g.ands)
      BY <1>1, LenProperties
    <3>2. g.ands[k] \in And
      BY <1>1, <3>1, ElementOfSeq
    <3>3. /\ g.ands[k].lhs \in Nat /\ InRange(g, g.ands[k].lhs)
          /\ g.ands[k].rhs0 \in Nat /\ InRange(g, g.ands[k].rhs0)
          /\ g.ands[k].rhs1 \in Nat /\ InRange(g, g.ands[k].rhs1)
      BY <3>2 DEF LiteralsInRange, Definable, And
    <3>4. /\ UnsignedLit(g.ands[k].lhs) \in CnfLits(g)
          /\ SignedLit(g.ands[k].rhs0) \in CnfLits(g)
          /\ SignedLit(g.ands[k].rhs1) \in CnfLits(g)
      BY <3>3, LiteralTranslation
    <3>5. QED
      BY <1>1, <3>4, NegationInRange DEF equal_and2cnf
  <2>2. GateClauses(g) \in SUBSET (SUBSET CnfLits(g))
    BY <2>1 DEF GateClauses
  <2>3. QED
    BY <2>2 DEF aigtocnf
<1>9. QED
  BY <1>3, <1>5, <1>6, <1>7, <1>8

(* The guarded bad literals and their activation literals are well typed. *)
LEMMA ActType ==
  ASSUME NEW bs \in Seq(Int), NEW first \in Nat
  PROVE  /\ ActClauses(bs, first) \in SUBSET (SUBSET Int)
         /\ ActLits(bs, first) \in SUBSET Nat
         /\ Len(bs) \in Nat
<1>1. Len(bs) \in Nat /\ DOMAIN bs = 1 .. Len(bs)
  BY LenProperties
<1>2. \A k \in 1 .. Len(bs) : bs[k] \in Int
  BY <1>1, ElementOfSeq
<1>3. QED
  BY <1>1, <1>2 DEF ActClauses, ActLits, Act

-----------------------------------------------------------------------------
(* The arithmetic of the numbering. *)

(* A step further is a stride further; time step 0 is not moved. *)
LEMMA OffsetFacts ==
  ASSUME NEW g \in AigerType, LiteralsInRange(g), NEW f \in Nat
  PROVE  /\ Stride(g) \in Nat \ {0}
         /\ Stride(g) = g.maxvar + 1 + Len(aigtocnf(g).bads)
         /\ g.maxvar \in Nat /\ Len(aigtocnf(g).bads) \in Nat
         /\ Offset(g, 0) = 0
         /\ Offset(g, f) \in Nat
         /\ Offset(g, f + 1) = Offset(g, f) + Stride(g)
<1>1. g.maxvar \in Nat
  BY DEF AigerType
<1>2. Len(aigtocnf(g).bads) \in Nat
  BY TranslationType, LenProperties
<1>3. Stride(g) \in Nat \ {0}
  BY <1>1, <1>2 DEF Stride
<1>4. f * Stride(g) \in Nat
  BY <1>3
<1>5. (f + 1) * Stride(g) = f * Stride(g) + Stride(g)
  BY <1>3
<1>6. 0 * Stride(g) = 0
  BY <1>3
<1>7. QED
  BY <1>1, <1>2, <1>3, <1>4, <1>5, <1>6 DEF Offset, Stride

(* Moving a literal moves its variable by the offset and keeps its sign. *)
LEMMA ShiftFacts ==
  ASSUME NEW g \in AigerType, LiteralsInRange(g), NEW f \in Nat,
         NEW x \in CnfLits(g)
  PROVE  /\ Shift(g, x, f) \in Int
         /\ LitVar(Shift(g, x, f)) = LitVar(x) + Offset(g, f)
         /\ LitVar(x) \in 1 .. g.maxvar + 1
         /\ Shift(g, x, f) > 0 <=> x > 0
         /\ Shift(g, x, f) # 0
         /\ Shift(g, x, 0) = x
<1>1. Offset(g, f) \in Nat /\ Offset(g, 0) = 0 /\ g.maxvar \in Nat
  BY OffsetFacts
<1>2. QED
  BY <1>1 DEF Shift, LitVar, CnfLits
(* A copy moved to step 0 is the copy itself. *)
LEMMA ShiftZero ==
  ASSUME NEW g \in AigerType, LiteralsInRange(g)
  PROVE  /\ \A s \in Seq(CnfLits(g)) : ShiftSeq(g, s, 0) = s
         /\ \A cs \in SUBSET (SUBSET CnfLits(g)) : ShiftClauses(g, cs, 0) = cs
<1>1. ASSUME NEW x \in CnfLits(g) PROVE Shift(g, x, 0) = x
  BY ShiftFacts
<1>2. ASSUME NEW s \in Seq(CnfLits(g)) PROVE ShiftSeq(g, s, 0) = s
  <2>1. Len(s) \in Nat /\ DOMAIN s = 1 .. Len(s) /\ s \in [1 .. Len(s) -> CnfLits(g)]
    BY LenProperties
  <2>2. QED
    BY <1>1, <2>1 DEF ShiftSeq
<1>3. ASSUME NEW cs \in SUBSET (SUBSET CnfLits(g)) PROVE ShiftClauses(g, cs, 0) = cs
  <2>1. ASSUME NEW c \in cs PROVE {Shift(g, x, 0) : x \in c} = c
    BY <1>1
  <2>2. \A d : d \in ShiftClauses(g, cs, 0) <=> d \in cs
    BY <2>1 DEF ShiftClauses
  <2>3. QED
    BY <2>2
<1>4. QED
  BY <1>2, <1>3

(* One more copy of the gates. *)
LEMMA UnrolledGates ==
  ASSUME NEW g, NEW n \in Nat, NEW m \in Nat, NEW k \in Nat, n > 0
  PROVE  Unrolled(g, n, m, k) = Unrolled(g, n - 1, m, k) \cup GatesAt(g, n)
<1>1. 0 .. n = (0 .. n - 1) \cup {n}
  OBVIOUS
<1>2. (UNION {GatesAt(g, f) : f \in 0 .. n})
        = (UNION {GatesAt(g, f) : f \in 0 .. n - 1}) \cup GatesAt(g, n)
  BY <1>1
<1>3. QED
  BY <1>2 DEF Unrolled

(* One more set of links. *)
LEMMA UnrolledLinks ==
  ASSUME NEW g, NEW n \in Nat, NEW m \in Nat, NEW k \in Nat, m > 0
  PROVE  Unrolled(g, n, m, k) = Unrolled(g, n, m - 1, k) \cup LinksAt(g, m)
<1>1. 1 .. m = (1 .. m - 1) \cup {m}
  OBVIOUS
<1>2. (UNION {LinksAt(g, f) : f \in 1 .. m})
        = (UNION {LinksAt(g, f) : f \in 1 .. m - 1}) \cup LinksAt(g, m)
  BY <1>1
<1>3. QED
  BY <1>2 DEF Unrolled

(* One more set of guarded bad literals. *)
LEMMA UnrolledActs ==
  ASSUME NEW g, NEW n \in Nat, NEW m \in Nat, NEW k \in Nat, k > 0
  PROVE  Unrolled(g, n, m, k) = Unrolled(g, n, m, k - 1) \cup ActsAt(g, k)
<1>1. 0 .. k = (0 .. k - 1) \cup {k}
  OBVIOUS
<1>2. (UNION {ActsAt(g, f) : f \in 0 .. k})
        = (UNION {ActsAt(g, f) : f \in 0 .. k - 1}) \cup ActsAt(g, k)
  BY <1>1
<1>3. QED
  BY <1>2 DEF Unrolled

(* The unrolling of time step 0 alone. *)
LEMMA UnrolledStart ==
  ASSUME NEW g
  PROVE  Unrolled(g, 0, 0, 0) = InitClauses(g) \cup GatesAt(g, 0) \cup ActsAt(g, 0)
<1>1. 0 .. 0 = {0} /\ 1 .. 0 = {}
  OBVIOUS
<1>2. /\ (UNION {GatesAt(g, f) : f \in 0 .. 0}) = GatesAt(g, 0)
      /\ (UNION {LinksAt(g, f) : f \in 1 .. 0}) = {}
      /\ (UNION {ActsAt(g, f) : f \in 0 .. 0}) = ActsAt(g, 0)
  BY <1>1
<1>3. QED
  BY <1>2 DEF Unrolled

(* Sequences over the same positions have the same length. *)
LEMMA SameDomain ==
  ASSUME NEW m \in Nat, NEW n \in Nat, 1 .. m = 1 .. n
  PROVE  m = n
<1>1. CASE m > n
  <2>1. m \in 1 .. m /\ m \notin 1 .. n
    BY <1>1
  <2>2. QED
    BY <2>1
<1>2. CASE n > m
  <2>1. n \in 1 .. n /\ n \notin 1 .. m
    BY <1>2
  <2>2. QED
    BY <2>1
<1>3. QED
  BY <1>1, <1>2
(* Later steps have larger variables, by at least a stride per step. *)
LEMMA OffsetMonotonic ==
  ASSUME NEW g \in AigerType, LiteralsInRange(g),
         NEW f \in Nat, NEW h \in Nat, f < h
  PROVE  Offset(g, f) + Stride(g) <= Offset(g, h)
<1> DEFINE s == Stride(g)
           d == h - (f + 1)
<1>1. s \in Nat /\ Offset(g, f) = f * s /\ Offset(g, h) = h * s
  BY OffsetFacts DEF Offset
<1>2. d \in Nat /\ h = (f + 1) + d
  OBVIOUS
<1> HIDE DEF s, d
<1>3. h * s = f * s + s + d * s
  BY <1>1, <1>2
<1>4. d * s \in Nat /\ f * s \in Nat
  BY <1>1, <1>2
<1>5. QED
  BY <1>1, <1>3, <1>4 DEF s

(* The block of a step: the graph's variables and then the activation
   variables, up to the block of the next step. *)
LEMMA BlockFacts ==
  ASSUME NEW g \in AigerType, LiteralsInRange(g), NEW f \in Nat
  PROVE  /\ Base(g, f) = Offset(g, f) + 1
         /\ FirstAct(g, f) = Base(g, f) + g.maxvar + 1
         /\ Base(g, f + 1) = FirstAct(g, f) + Len(aigtocnf(g).bads)
         /\ Base(g, f) \in Nat /\ FirstAct(g, f) \in Nat /\ Base(g, f + 1) \in Nat
         /\ Base(g, f) > 0 /\ FirstAct(g, f) > 0
<1>1. /\ Offset(g, f) \in Nat /\ g.maxvar \in Nat /\ Len(aigtocnf(g).bads) \in Nat
      /\ Stride(g) = g.maxvar + 1 + Len(aigtocnf(g).bads)
      /\ Offset(g, f + 1) = Offset(g, f) + Stride(g)
  BY OffsetFacts
<1>2. /\ Base(g, f) = 1 + Offset(g, f)
      /\ FirstAct(g, f) = 1 + Offset(g, f) + g.maxvar + 1
      /\ Base(g, f + 1) = 1 + (Offset(g, f) + Stride(g))
  BY <1>1, Zenon DEF Base, FirstAct
<1> DEFINE o == Offset(g, f)
           v == g.maxvar
           b == Len(aigtocnf(g).bads)
<1>3. o \in Nat /\ v \in Nat /\ b \in Nat /\ Stride(g) = v + 1 + b
  BY <1>1
<1>4. /\ Base(g, f) = 1 + o /\ FirstAct(g, f) = 1 + o + v + 1
      /\ Base(g, f + 1) = 1 + (o + Stride(g))
  BY <1>2
<1> HIDE DEF o, v, b
<1>5. /\ Base(g, f) = o + 1
      /\ FirstAct(g, f) = Base(g, f) + v + 1
      /\ Base(g, f + 1) = FirstAct(g, f) + b
      /\ Base(g, f) \in Nat /\ FirstAct(g, f) \in Nat /\ Base(g, f + 1) \in Nat
      /\ Base(g, f) > 0 /\ FirstAct(g, f) > 0
  BY <1>3, <1>4
<1>6. QED
  BY <1>5 DEF o, v, b

(* The variables of a copy lie in the block of its step. *)
LEMMA CopyRange ==
  ASSUME NEW g \in AigerType, LiteralsInRange(g), NEW f \in Nat
  PROVE  /\ \A c \in GatesAt(g, f) : \A x \in c :
              x \in Int /\ LitVar(x) \in Base(g, f) .. FirstAct(g, f) - 1
         /\ \A c \in ActsAt(g, f) : \A x \in c :
              x \in Int /\ LitVar(x) \in Base(g, f) .. Base(g, f + 1) - 1
         /\ ActLits(aigtocnf(g).bads, FirstAct(g, f))
              \subseteq FirstAct(g, f) .. Base(g, f + 1) - 1
<1> DEFINE badLits == aigtocnf(g).bads
           base == Base(g, f)
           first == FirstAct(g, f)
           next == Base(g, f + 1)
<1>1. /\ base \in Nat /\ first \in Nat /\ next \in Nat /\ base > 0
      /\ Len(badLits) \in Nat /\ next = first + Len(badLits) /\ base < first
  <2>1. first = base + g.maxvar + 1 /\ g.maxvar \in Nat
    BY BlockFacts, OffsetFacts
  <2>2. /\ base \in Nat /\ first \in Nat /\ next \in Nat /\ base > 0
        /\ Len(badLits) \in Nat /\ next = first + Len(badLits)
    BY BlockFacts, OffsetFacts
  <2> HIDE DEF base, first, next, badLits
  <2>3. QED
    BY <2>1, <2>2
<1>2. base = Offset(g, f) + 1 /\ first = base + g.maxvar + 1
  BY BlockFacts
<1> HIDE DEF badLits, base, first, next
<1>3. ASSUME NEW x \in CnfLits(g)
      PROVE  Shift(g, x, f) \in Int /\ LitVar(Shift(g, x, f)) \in base .. first - 1
  <2>1. /\ Shift(g, x, f) \in Int
        /\ LitVar(Shift(g, x, f)) = LitVar(x) + Offset(g, f)
        /\ LitVar(x) \in 1 .. g.maxvar + 1
        /\ g.maxvar \in Nat /\ Offset(g, f) \in Nat
    BY ShiftFacts, OffsetFacts
  <2>2. QED
    BY <1>2, <2>1
<1>4. ASSUME NEW c \in GatesAt(g, f), NEW x \in c
      PROVE  x \in Int /\ LitVar(x) \in base .. first - 1
  <2>1. PICK d \in aigtocnf(g).ands : c = {Shift(g, y, f) : y \in d}
    BY DEF GatesAt, ShiftClauses
  <2>2. d \subseteq CnfLits(g)
    BY TranslationType
  <2>3. PICK y \in d : x = Shift(g, y, f)
    BY <2>1
  <2>4. QED
    BY <1>3, <2>2, <2>3
<1>5. /\ DOMAIN badLits = 1 .. Len(badLits)
      /\ \A k \in DOMAIN badLits : badLits[k] \in CnfLits(g)
  BY TranslationType, LenProperties, ElementOfSeq DEF badLits
<1>6. \A k \in DOMAIN badLits : Act(first, k) \in first .. next - 1
  <2>1. ASSUME NEW k \in 1 .. Len(badLits) PROVE first + k - 1 \in first .. next - 1
    BY <1>1
  <2>2. QED
    BY <1>5, <2>1 DEF Act
<1>7. ASSUME NEW c \in ActsAt(g, f), NEW x \in c
      PROVE  x \in Int /\ LitVar(x) \in base .. next - 1
  <2>1. PICK k \in DOMAIN badLits : c = {Shift(g, badLits[k], f), -Act(first, k)}
    BY DEF ActsAt, ActClauses, ShiftSeq, badLits, first
  <2>2. CASE x = Shift(g, badLits[k], f)
    <3>1. x \in Int /\ LitVar(x) \in base .. first - 1
      BY <1>3, <1>5, <2>2
    <3>2. QED
      BY <1>1, <3>1
  <2>3. CASE x = -Act(first, k)
    <3> DEFINE a == Act(first, k)
    <3>1. a \in first .. next - 1
      BY <1>6
    <3> HIDE DEF a
    <3>2. -a \in Int /\ LitVar(-a) = a /\ a \in base .. next - 1
      BY <1>1, <3>1 DEF LitVar
    <3>3. QED
      BY <2>3, <3>2 DEF a
  <2>4. QED
    BY <2>1, <2>2, <2>3
<1>8. ActLits(badLits, first) \subseteq first .. next - 1
  BY <1>6 DEF ActLits
<1>9. QED
  BY <1>4, <1>7, <1>8 DEF badLits, base, first, next

(* A link mentions the block of its step and of the step before. *)
LEMMA LinkRange ==
  ASSUME NEW g \in AigerType, LiteralsInRange(g), NEW f \in Nat, f > 0
  PROVE  \A c \in LinksAt(g, f) : \A x \in c :
           x \in Int /\ LitVar(x) \in Base(g, f - 1) .. FirstAct(g, f) - 1
<1>1. /\ Offset(g, f) \in Nat /\ Offset(g, f - 1) \in Nat
      /\ Offset(g, f - 1) <= Offset(g, f) /\ g.maxvar \in Nat /\ f - 1 \in Nat
  BY OffsetFacts, OffsetMonotonic
<1> SUFFICES ASSUME NEW c \in LinksAt(g, f), NEW x \in c
             PROVE  x \in Int /\ LitVar(x) \in Base(g, f - 1) .. FirstAct(g, f) - 1
  OBVIOUS
<1> DEFINE new(k) == Shift(g, aigtocnf(g).in_latch[k], f)
           old(k) == Shift(g, aigtocnf(g).out_latch[k], f - 1)
<1>2. PICK k \in DOMAIN aigtocnf(g).in_latch :
        c \in {{-new(k), old(k)}, {new(k), -old(k)}}
  BY TranslationType DEF LinksAt, LinkClauses, ShiftSeq
<1>3. aigtocnf(g).in_latch[k] \in CnfLits(g) /\ aigtocnf(g).out_latch[k] \in CnfLits(g)
  BY <1>2, TranslationType, LenProperties, ElementOfSeq
<1>4. /\ new(k) \in Int /\ LitVar(new(k)) \in Base(g, f) .. FirstAct(g, f) - 1
      /\ old(k) \in Int /\ LitVar(old(k)) \in Base(g, f - 1) .. FirstAct(g, f - 1) - 1
  <2>1. /\ new(k) \in Int
        /\ LitVar(new(k)) = LitVar(aigtocnf(g).in_latch[k]) + Offset(g, f)
        /\ LitVar(aigtocnf(g).in_latch[k]) \in 1 .. g.maxvar + 1
    BY <1>3, ShiftFacts
  <2>2. /\ old(k) \in Int
        /\ LitVar(old(k)) = LitVar(aigtocnf(g).out_latch[k]) + Offset(g, f - 1)
        /\ LitVar(aigtocnf(g).out_latch[k]) \in 1 .. g.maxvar + 1
    BY <1>1, <1>3, ShiftFacts
  <2> HIDE DEF new, old
  <2>3. QED
    BY <1>1, <2>1, <2>2 DEF Base, FirstAct
<1> HIDE DEF new, old
<1>5. QED
  BY <1>1, <1>2, <1>4 DEF Base, FirstAct, LitVar

(* No clause of an unrolling mentions a variable at or above the bound. *)
LEMMA UnrolledRange ==
  ASSUME NEW g \in AigerType, LiteralsInRange(g),
         NEW n \in Nat, NEW m \in Nat, NEW k \in Nat, NEW bound \in Nat,
         FirstAct(g, n) <= bound, FirstAct(g, m) <= bound, Base(g, k + 1) <= bound
  PROVE  \A c \in Unrolled(g, n, m, k) : \A x \in c :
           x \in Int /\ LitVar(x) \in 1 .. bound - 1
<1> SUFFICES ASSUME NEW c \in Unrolled(g, n, m, k), NEW x \in c
             PROVE  x \in Int /\ LitVar(x) \in 1 .. bound - 1
  OBVIOUS
<1>1. \A f, h \in Nat : f <= h => Offset(g, f) <= Offset(g, h)
  <2> SUFFICES ASSUME NEW f \in Nat, NEW h \in Nat, f <= h
               PROVE  Offset(g, f) <= Offset(g, h)
    OBVIOUS
  <2>1. Offset(g, f) \in Nat /\ Offset(g, h) \in Nat /\ Stride(g) \in Nat
    BY OffsetFacts
  <2>2. CASE f = h
    BY <2>1, <2>2
  <2>3. CASE f < h
    BY <2>1, <2>3, OffsetMonotonic
  <2>4. QED
    BY <2>2, <2>3
<1>2. \A f \in Nat : Offset(g, f) \in Nat
  BY OffsetFacts
<1>3. g.maxvar \in Nat
  BY DEF AigerType
<1>4. CASE c \in InitClauses(g)
  <2>1. PICK j \in DOMAIN aigtocnf(g).inits : x = aigtocnf(g).inits[j]
    BY <1>4 DEF InitClauses
  <2>2. x \in CnfLits(g)
    BY <2>1, TranslationType, LenProperties, ElementOfSeq
  <2>3. x \in Int /\ LitVar(x) \in 1 .. g.maxvar + 1
    BY <2>2 DEF CnfLits
  <2>4. FirstAct(g, n) = 1 + Offset(g, n) + g.maxvar + 1
    BY DEF FirstAct, Base
  <2>5. QED
    BY <1>2, <1>3, <2>3, <2>4
<1>5. ASSUME NEW f \in 0 .. n, c \in GatesAt(g, f)
      PROVE  x \in Int /\ LitVar(x) \in 1 .. bound - 1
  <2>1. x \in Int /\ LitVar(x) \in Base(g, f) .. FirstAct(g, f) - 1
    BY <1>5, CopyRange
  <2>2. Offset(g, f) <= Offset(g, n) /\ Offset(g, f) \in Nat /\ Offset(g, n) \in Nat
    BY <1>1, <1>2
  <2>3. QED
    BY <1>3, <2>1, <2>2 DEF Base, FirstAct
<1>6. ASSUME NEW f \in 1 .. m, c \in LinksAt(g, f)
      PROVE  x \in Int /\ LitVar(x) \in 1 .. bound - 1
  <2>1. x \in Int /\ LitVar(x) \in Base(g, f - 1) .. FirstAct(g, f) - 1
    BY <1>6, LinkRange
  <2>2. /\ Offset(g, f) <= Offset(g, m) /\ Offset(g, f) \in Nat
        /\ Offset(g, m) \in Nat /\ Offset(g, f - 1) \in Nat
    BY <1>1, <1>2
  <2>3. QED
    BY <1>3, <2>1, <2>2 DEF Base, FirstAct
<1>7. ASSUME NEW f \in 0 .. k, c \in ActsAt(g, f)
      PROVE  x \in Int /\ LitVar(x) \in 1 .. bound - 1
  <2>1. x \in Int /\ LitVar(x) \in Base(g, f) .. Base(g, f + 1) - 1
    BY <1>7, CopyRange
  <2>2. /\ Offset(g, f + 1) <= Offset(g, k + 1) /\ Offset(g, f) \in Nat
        /\ Offset(g, f + 1) \in Nat /\ Offset(g, k + 1) \in Nat
    BY <1>1, <1>2
  <2>3. QED
    BY <2>1, <2>2 DEF Base
<1>8. QED
  BY <1>4, <1>5, <1>6, <1>7 DEF Unrolled

-----------------------------------------------------------------------------
(* Clauses and assignments. *)

Assignments == [Nat -> BOOLEAN]

(* Negating a literal negates its value. *)
LEMMA HoldsNegated ==
  ASSUME NEW m \in Assignments, NEW x \in Int, x # 0
  PROVE  /\ Holds(m, -x) <=> ~Holds(m, x)
         /\ Holds(m, x) \in BOOLEAN
<1>1. CASE x > 0
  <2>1. -x < 0 /\ -(-x) = x /\ ~(x < 0) /\ x \in Nat
    BY <1>1
  <2>2. QED
    BY <2>1 DEF Holds, Assignments
<1>2. CASE x < 0
  <2>1. ~(-x < 0) /\ -x \in Nat
    BY <1>2
  <2>2. QED
    BY <1>2, <2>1 DEF Holds, Assignments
<1>3. QED
  BY <1>1, <1>2

(* The three clauses of equal_and2cnf say that p is the conjunction of l
   and r. *)
LEMMA AndClauses ==
  ASSUME NEW m \in Assignments,
         NEW p \in Int, p # 0, NEW l \in Int, l # 0, NEW r \in Int, r # 0
  PROVE  Satisfies(m, equal_and2cnf(p, l, r))
           <=> (Holds(m, p) <=> Holds(m, l) /\ Holds(m, r))
<1>1. /\ Holds(m, -p) <=> ~Holds(m, p)
      /\ Holds(m, -l) <=> ~Holds(m, l)
      /\ Holds(m, -r) <=> ~Holds(m, r)
  BY HoldsNegated
<1>2. Satisfies(m, equal_and2cnf(p, l, r))
        <=> /\ Holds(m, -p) \/ Holds(m, l)
            /\ Holds(m, -p) \/ Holds(m, r)
            /\ Holds(m, p) \/ Holds(m, -l) \/ Holds(m, -r)
  <2>1. /\ SatisfiesClause(m, {-p, l}) <=> Holds(m, -p) \/ Holds(m, l)
        /\ SatisfiesClause(m, {-p, r}) <=> Holds(m, -p) \/ Holds(m, r)
        /\ SatisfiesClause(m, {p, -l, -r})
              <=> Holds(m, p) \/ Holds(m, -l) \/ Holds(m, -r)
    BY Zenon DEF SatisfiesClause
  <2>2. Satisfies(m, equal_and2cnf(p, l, r))
          <=> /\ SatisfiesClause(m, {-p, l})
              /\ SatisfiesClause(m, {-p, r})
              /\ SatisfiesClause(m, {p, -l, -r})
    BY Zenon DEF Satisfies, equal_and2cnf
  <2>3. QED
    BY <2>1, <2>2
<1>3. QED
  BY <1>1, <1>2

(* The two clauses of equal2cnf say that l and r are equal. *)
LEMMA EqualClauses ==
  ASSUME NEW m \in Assignments,
         NEW l \in Int, l # 0, NEW r \in Int, r # 0
  PROVE  Satisfies(m, equal2cnf(l, r)) <=> (Holds(m, l) <=> Holds(m, r))
<1>1. /\ Holds(m, -l) <=> ~Holds(m, l)
      /\ Holds(m, -r) <=> ~Holds(m, r)
  BY HoldsNegated
<1>2. /\ SatisfiesClause(m, {l, -r}) <=> Holds(m, l) \/ Holds(m, -r)
      /\ SatisfiesClause(m, {-l, r}) <=> Holds(m, -l) \/ Holds(m, r)
  BY Zenon DEF SatisfiesClause
<1>3. Satisfies(m, equal2cnf(l, r))
        <=> SatisfiesClause(m, {l, -r}) /\ SatisfiesClause(m, {-l, r})
  BY Zenon DEF Satisfies, equal2cnf
<1>4. QED
  BY <1>1, <1>2, <1>3

-----------------------------------------------------------------------------
(* Literals of a time step. *)

(* The assignment m gives the variables of step f the values w. *)
Agrees(g, m, w, f) == \A v \in 1 .. g.maxvar : w[v] <=> m[Base(g, f) + v]

(* A graph literal other than a constant has the value of its copy. *)
LEMMA LiteralMeaning ==
  ASSUME NEW g \in AigerType, LiteralsInRange(g), NEW f \in Nat,
         NEW m \in Assignments, NEW w \in [0 .. g.maxvar -> BOOLEAN],
         Agrees(g, m, w, f),
         NEW l \in Nat, l > 1, InRange(g, l)
  PROVE  /\ Holds(m, Shift(g, SignedLit(l), f)) <=> Value(w, l)
         /\ aiger_sign(l) = 0 => UnsignedLit(l) = SignedLit(l)
         /\ SignedLit(l) \in CnfLits(g)
<1> DEFINE v == l \div 2
<1>1. v \in 1 .. g.maxvar /\ g.maxvar \in Nat
  <2>1. v <= g.maxvar
    BY DEF InRange, aiger_lit2var
  <2>2. v \in Nat /\ v > 0
    OBVIOUS
  <2>3. g.maxvar \in Nat
    BY DEF AigerType
  <2> HIDE DEF v
  <2>4. QED
    BY <2>1, <2>2, <2>3
<1>2. Offset(g, f) \in Nat /\ Base(g, f) = Offset(g, f) + 1
  BY OffsetFacts, BlockFacts
<1>3. w[v] <=> m[Base(g, f) + v]
  BY <1>1 DEF Agrees
<1>4. w[v] \in BOOLEAN
  BY <1>1
<1>5. Value(w, l) <=> (IF l % 2 = 1 THEN ~w[v] ELSE w[v])
  BY DEF Value, aiger_sign, aiger_lit2var
<1>6. SignedLit(l) = IF l % 2 = 1 THEN -(v + 1) ELSE v + 1
  BY DEF SignedLit
<1>7. aiger_sign(l) = 0 => UnsignedLit(l) = SignedLit(l)
  BY DEF aiger_sign, UnsignedLit, SignedLit
<1>8. SignedLit(l) \in CnfLits(g)
  BY LiteralTranslation
<1> HIDE DEF v
<1>9. Shift(g, SignedLit(l), f)
        = IF l % 2 = 1 THEN -(Base(g, f) + v) ELSE Base(g, f) + v
  <2>1. CASE l % 2 = 1
    <3>1. SignedLit(l) = -(v + 1) /\ ~(SignedLit(l) > 0)
      BY <1>1, <1>6, <2>1
    <3>2. Shift(g, SignedLit(l), f) = -(v + 1) - Offset(g, f)
      BY <3>1 DEF Shift
    <3>3. QED
      BY <1>1, <1>2, <2>1, <3>2
  <2>2. CASE ~(l % 2 = 1)
    <3>1. SignedLit(l) = v + 1 /\ SignedLit(l) > 0
      BY <1>1, <1>6, <2>2
    <3>2. Shift(g, SignedLit(l), f) = v + 1 + Offset(g, f)
      BY <3>1 DEF Shift
    <3>3. QED
      BY <1>1, <1>2, <2>2, <3>2
  <2>3. QED
    BY <2>1, <2>2
<1>10. Holds(m, Shift(g, SignedLit(l), f)) <=> Value(w, l)
  <2> DEFINE y == Base(g, f) + v
  <2>1. y \in Nat /\ y > 0 /\ -y < 0 /\ -(-y) = y
    BY <1>1, <1>2
  <2>2. m[y] \in BOOLEAN /\ (w[v] <=> m[y])
    BY <1>3, <2>1 DEF Assignments
  <2>3. Shift(g, SignedLit(l), f) = IF l % 2 = 1 THEN -y ELSE y
    BY <1>9
  <2> HIDE DEF y
  <2>4. CASE l % 2 = 1
    BY <1>5, <2>1, <2>2, <2>3, <2>4 DEF Holds
  <2>5. CASE ~(l % 2 = 1)
    <3>1. Holds(m, Shift(g, SignedLit(l), f)) <=> m[y]
      BY <2>1, <2>3, <2>5 DEF Holds
    <3>2. QED
      BY <1>5, <2>2, <2>5, <3>1
  <2>6. QED
    BY <2>4, <2>5
<1>11. QED
  BY <1>7, <1>8, <1>10

(* The copy of a negated literal is the negation of the copy. *)
LEMMA ShiftNegated ==
  ASSUME NEW g \in AigerType, LiteralsInRange(g), NEW f \in Nat,
         NEW x \in CnfLits(g)
  PROVE  Shift(g, -x, f) = -Shift(g, x, f)
<1>1. x \in Int /\ x # 0 /\ Offset(g, f) \in Nat
  BY NegationInRange, OffsetFacts DEF AigerType
<1>2. QED
  BY <1>1 DEF Shift

-----------------------------------------------------------------------------
(* The parts of a time step. *)

(* Moving the clauses of a gate gives the clauses of the moved gate. *)
LEMMA ShiftedGate ==
  ASSUME NEW g \in AigerType, LiteralsInRange(g), NEW f \in Nat,
         NEW p \in CnfLits(g), NEW l \in CnfLits(g), NEW r \in CnfLits(g)
  PROVE  ShiftClauses(g, equal_and2cnf(p, l, r), f)
           = equal_and2cnf(Shift(g, p, f), Shift(g, l, f), Shift(g, r, f))
<1>1. /\ Shift(g, -p, f) = -Shift(g, p, f)
      /\ Shift(g, -l, f) = -Shift(g, l, f)
      /\ Shift(g, -r, f) = -Shift(g, r, f)
  BY ShiftNegated
<1>2. /\ {Shift(g, x, f) : x \in {-p, l}} = {-Shift(g, p, f), Shift(g, l, f)}
      /\ {Shift(g, x, f) : x \in {-p, r}} = {-Shift(g, p, f), Shift(g, r, f)}
      /\ {Shift(g, x, f) : x \in {p, -l, -r}}
           = {Shift(g, p, f), -Shift(g, l, f), -Shift(g, r, f)}
  BY <1>1
<1>3. ShiftClauses(g, equal_and2cnf(p, l, r), f)
        = {{Shift(g, x, f) : x \in {-p, l}}, {Shift(g, x, f) : x \in {-p, r}},
           {Shift(g, x, f) : x \in {p, -l, -r}}}
  BY DEF ShiftClauses, equal_and2cnf
<1>4. QED
  BY <1>2, <1>3 DEF equal_and2cnf

(* The gates of step f are satisfied exactly when the valuation of step f
   respects the gates. *)
LEMMA GateMeaning ==
  ASSUME NEW g \in AigerType, LiteralsInRange(g), NEW f \in Nat,
         NEW m \in Assignments, NEW w \in [0 .. g.maxvar -> BOOLEAN],
         Agrees(g, m, w, f), Supported(g)
  PROVE  Satisfies(m, GatesAt(g, f)) <=> GatesHold(g, w)
<1> DEFINE P(k) == UnsignedLit(g.ands[k].lhs)
           L(k) == SignedLit(g.ands[k].rhs0)
           R(k) == SignedLit(g.ands[k].rhs1)
           Copy(k) == ShiftClauses(g, equal_and2cnf(P(k), L(k), R(k)), f)
<1>1. ASSUME NEW k \in DOMAIN g.ands
      PROVE  Satisfies(m, Copy(k))
               <=> (Value(w, g.ands[k].lhs)
                      <=> Value(w, g.ands[k].rhs0) /\ Value(w, g.ands[k].rhs1))
  <2>1. g.ands \in Seq(And)
    BY DEF AigerType
  <2>2. g.ands[k] \in And
    BY <2>1, LenProperties, ElementOfSeq
  <2>3. /\ g.ands[k].lhs \in Nat /\ g.ands[k].lhs > 1
        /\ InRange(g, g.ands[k].lhs) /\ aiger_sign(g.ands[k].lhs) = 0
        /\ g.ands[k].rhs0 \in Nat /\ g.ands[k].rhs0 > 1 /\ InRange(g, g.ands[k].rhs0)
        /\ g.ands[k].rhs1 \in Nat /\ g.ands[k].rhs1 > 1 /\ InRange(g, g.ands[k].rhs1)
    BY <2>2 DEF And, LiteralsInRange, Definable, Supported
  <2>4. /\ Holds(m, Shift(g, P(k), f)) <=> Value(w, g.ands[k].lhs)
        /\ Holds(m, Shift(g, L(k), f)) <=> Value(w, g.ands[k].rhs0)
        /\ Holds(m, Shift(g, R(k), f)) <=> Value(w, g.ands[k].rhs1)
        /\ P(k) \in CnfLits(g) /\ L(k) \in CnfLits(g) /\ R(k) \in CnfLits(g)
    BY <2>3, LiteralMeaning
  <2>5. /\ Shift(g, P(k), f) \in Int /\ Shift(g, P(k), f) # 0
        /\ Shift(g, L(k), f) \in Int /\ Shift(g, L(k), f) # 0
        /\ Shift(g, R(k), f) \in Int /\ Shift(g, R(k), f) # 0
    BY <2>4, ShiftFacts
  <2> HIDE DEF P, L, R
  <2>6. Copy(k) = equal_and2cnf(Shift(g, P(k), f), Shift(g, L(k), f), Shift(g, R(k), f))
    BY <2>4, ShiftedGate
  <2> HIDE DEF Copy
  <2>7. Satisfies(m, Copy(k))
          <=> (Holds(m, Shift(g, P(k), f))
                 <=> Holds(m, Shift(g, L(k), f)) /\ Holds(m, Shift(g, R(k), f)))
    BY <2>5, <2>6, AndClauses
  <2>8. QED
    BY <2>4, <2>7
<1>2. GatesAt(g, f) = UNION {Copy(k) : k \in DOMAIN g.ands}
  <2>1. aigtocnf(g).ands = UNION {equal_and2cnf(P(k), L(k), R(k)) : k \in DOMAIN g.ands}
    BY DEF aigtocnf, GateClauses
  <2> HIDE DEF P, L, R
  <2>2. QED
    BY <2>1 DEF GatesAt, ShiftClauses
<1> HIDE DEF Copy
<1>3. Satisfies(m, GatesAt(g, f)) <=> \A k \in DOMAIN g.ands : Satisfies(m, Copy(k))
  BY <1>2 DEF Satisfies
<1>4. QED
  BY <1>1, <1>3 DEF GatesHold

(* The unit clauses of step 0 are satisfied exactly by initial valuations. *)
LEMMA InitMeaning ==
  ASSUME NEW g \in AigerType, LiteralsInRange(g),
         NEW m \in Assignments, NEW w \in [0 .. g.maxvar -> BOOLEAN],
         Agrees(g, m, w, 0), Supported(g)
  PROVE  Satisfies(m, InitClauses(g)) <=> StartsAt(g, w)
<1> DEFINE lit(k) == g.latches[k].lit
<1>1. g.latches \in Seq(Latch) /\ DOMAIN g.latches = 1 .. Len(g.latches)
  BY LenProperties DEF AigerType
<1>2. ASSUME NEW k \in DOMAIN g.latches
      PROVE  Holds(m, InitLiteral(g.latches[k]))
               <=> (Value(w, g.latches[k].lit) <=> g.latches[k].reset = 1)
  <2>1. g.latches[k] \in Latch
    BY <1>1, ElementOfSeq
  <2>2. /\ lit(k) \in Nat /\ lit(k) > 1 /\ InRange(g, lit(k))
        /\ aiger_sign(lit(k)) = 0 /\ g.latches[k].reset \in {0, 1}
    BY <2>1 DEF Latch, LiteralsInRange, Definable, Supported
  <2>3. /\ Holds(m, Shift(g, UnsignedLit(lit(k)), 0)) <=> Value(w, lit(k))
        /\ UnsignedLit(lit(k)) \in CnfLits(g)
    BY <2>2, LiteralMeaning
  <2>4. /\ Shift(g, UnsignedLit(lit(k)), 0) = UnsignedLit(lit(k))
        /\ UnsignedLit(lit(k)) \in Int /\ UnsignedLit(lit(k)) # 0
    BY <2>3, ShiftFacts, NegationInRange DEF AigerType
  <2>5. Holds(m, -UnsignedLit(lit(k))) <=> ~Holds(m, UnsignedLit(lit(k)))
    BY <2>4, HoldsNegated
  <2>6. QED
    BY <2>2, <2>3, <2>4, <2>5 DEF InitLiteral
<1>3. /\ DOMAIN aigtocnf(g).inits = DOMAIN g.latches
      /\ \A k \in DOMAIN g.latches : aigtocnf(g).inits[k] = InitLiteral(g.latches[k])
  BY <1>1 DEF aigtocnf
<1>4. Satisfies(m, InitClauses(g))
        <=> \A k \in DOMAIN g.latches : Holds(m, InitLiteral(g.latches[k]))
  <2>1. InitClauses(g) = {{InitLiteral(g.latches[k])} : k \in DOMAIN g.latches}
    BY <1>3 DEF InitClauses
  <2>2. \A x : SatisfiesClause(m, {x}) <=> Holds(m, x)
    BY Zenon DEF SatisfiesClause
  <2>3. Satisfies(m, InitClauses(g))
          <=> \A k \in DOMAIN g.latches : SatisfiesClause(m, {InitLiteral(g.latches[k])})
    BY <2>1, Zenon DEF Satisfies
  <2>4. QED
    BY <2>2, <2>3, Zenon
<1>5. \A k \in DOMAIN g.latches : g.latches[k].reset \in {0, 1}
  BY DEF Supported
<1>6. QED
  BY <1>2, <1>4, <1>5 DEF StartsAt

(* The links between two steps are satisfied exactly when the second
   valuation is a successor of the first. *)
LEMMA LinkMeaning ==
  ASSUME NEW g \in AigerType, LiteralsInRange(g), NEW f \in Nat, f > 0,
         NEW m \in Assignments,
         NEW v \in [0 .. g.maxvar -> BOOLEAN], Agrees(g, m, v, f - 1),
         NEW w \in [0 .. g.maxvar -> BOOLEAN], Agrees(g, m, w, f), Supported(g)
  PROVE  Satisfies(m, LinksAt(g, f)) <=> Steps(g, v, w)
<1> DEFINE new(k) == Shift(g, UnsignedLit(g.latches[k].lit), f)
           old(k) == Shift(g, SignedLit(g.latches[k].next), f - 1)
<1>1. g.latches \in Seq(Latch) /\ DOMAIN g.latches = 1 .. Len(g.latches)
  BY LenProperties DEF AigerType
<1>2. ASSUME NEW k \in DOMAIN g.latches
      PROVE  Satisfies(m, equal2cnf(new(k), old(k)))
               <=> (Value(w, g.latches[k].lit) <=> Value(v, g.latches[k].next))
  <2>1. g.latches[k] \in Latch
    BY <1>1, ElementOfSeq
  <2>2. /\ g.latches[k].lit \in Nat /\ g.latches[k].lit > 1
        /\ InRange(g, g.latches[k].lit) /\ aiger_sign(g.latches[k].lit) = 0
        /\ g.latches[k].next \in Nat /\ g.latches[k].next > 1
        /\ InRange(g, g.latches[k].next)
    BY <2>1 DEF Latch, LiteralsInRange, Definable, Supported
  <2>3. /\ Holds(m, new(k)) <=> Value(w, g.latches[k].lit)
        /\ UnsignedLit(g.latches[k].lit) \in CnfLits(g)
    BY <2>2, LiteralMeaning
  <2>4. f - 1 \in Nat
    OBVIOUS
  <2>5. /\ Holds(m, old(k)) <=> Value(v, g.latches[k].next)
        /\ SignedLit(g.latches[k].next) \in CnfLits(g)
    BY <2>2, <2>4, LiteralMeaning
  <2>6. new(k) \in Int /\ new(k) # 0 /\ old(k) \in Int /\ old(k) # 0
    BY <2>3, <2>4, <2>5, ShiftFacts
  <2> HIDE DEF new, old
  <2>7. QED
    BY <2>3, <2>5, <2>6, EqualClauses
<1>3. LinksAt(g, f) = UNION {equal2cnf(new(k), old(k)) : k \in DOMAIN g.latches}
  <2>1. /\ DOMAIN ShiftSeq(g, aigtocnf(g).in_latch, f) = DOMAIN g.latches
        /\ \A k \in DOMAIN g.latches :
             /\ ShiftSeq(g, aigtocnf(g).in_latch, f)[k] = new(k)
             /\ ShiftSeq(g, aigtocnf(g).out_latch, f - 1)[k] = old(k)
    BY <1>1 DEF aigtocnf, ShiftSeq
  <2> HIDE DEF new, old
  <2>2. \A k \in DOMAIN g.latches :
          {{-new(k), old(k)}, {new(k), -old(k)}} = equal2cnf(new(k), old(k))
    BY DEF equal2cnf
  <2>3. QED
    BY <2>1, <2>2 DEF LinksAt, LinkClauses
<1> HIDE DEF new, old
<1>4. Satisfies(m, LinksAt(g, f))
        <=> \A k \in DOMAIN g.latches : Satisfies(m, equal2cnf(new(k), old(k)))
  BY <1>3 DEF Satisfies
<1>5. QED
  BY <1>2, <1>4 DEF Steps

(* The bad literals of a supported graph. *)
LEMMA SupportedBads ==
  ASSUME NEW g \in AigerType, LiteralsInRange(g), Supported(g)
  PROVE  /\ DOMAIN BadLiterals(g) = {1}
         /\ DOMAIN aigtocnf(g).bads = {1}
         /\ aigtocnf(g).bads[1] = UnsignedLit(BadLiterals(g)[1])
         /\ BadLiterals(g)[1] \in Nat /\ BadLiterals(g)[1] > 1
         /\ InRange(g, BadLiterals(g)[1]) /\ aiger_sign(BadLiterals(g)[1]) = 0
<1>1. /\ BadLiterals(g) \in Seq(Nat)
      /\ \A k \in DOMAIN BadLiterals(g) : InRange(g, BadLiterals(g)[k])
  BY DEF BadLiterals, LiteralsInRange, AigerType
<1>2. /\ DOMAIN BadLiterals(g) = 1 .. Len(BadLiterals(g))
      /\ Len(BadLiterals(g)) = 1
      /\ BadLiterals(g)[1] > 1 /\ aiger_sign(BadLiterals(g)[1]) = 0
  BY <1>1, LenProperties, SMTT(30) DEF Supported
<1>3. 1 .. 1 = {1}
  OBVIOUS
<1>4. BadLiterals(g)[1] \in Nat
  <2>1. 1 \in DOMAIN BadLiterals(g)
    BY <1>2, <1>3
  <2>2. QED
    BY <1>1, <1>2, <2>1, ElementOfSeq, Zenon
<1>5. aigtocnf(g).bads = [k \in 1 .. 1 |-> UnsignedLit(BadLiterals(g)[k])]
  BY <1>2, SMTT(30) DEF aigtocnf, BadVars
<1>6. QED
  BY <1>1, <1>2, <1>3, <1>4, <1>5

(* Their guarded form at step f: one clause. *)
LEMMA SupportedActs ==
  ASSUME NEW g \in AigerType, LiteralsInRange(g), NEW f \in Nat, Supported(g)
  PROVE  /\ ActsAt(g, f)
              = {{Shift(g, UnsignedLit(BadLiterals(g)[1]), f), -FirstAct(g, f)}}
         /\ ActLits(aigtocnf(g).bads, FirstAct(g, f)) = {FirstAct(g, f)}
<1> DEFINE first == FirstAct(g, f)
           bs == ShiftSeq(g, aigtocnf(g).bads, f)
<1>1. DOMAIN bs = {1} /\ bs[1] = Shift(g, UnsignedLit(BadLiterals(g)[1]), f)
  BY SupportedBads DEF ShiftSeq
<1>2. Act(first, 1) = first
  <2>1. first \in Nat
    BY BlockFacts
  <2> HIDE DEF first
  <2>2. QED
    BY <2>1 DEF Act
<1>3. ActsAt(g, f) = {{bs[k], -Act(first, k)} : k \in DOMAIN bs}
  BY DEF ActsAt, ActClauses
<1>4. ActLits(aigtocnf(g).bads, first) = {Act(first, k) : k \in {1}}
  BY SupportedBads DEF ActLits
<1> HIDE DEF first, bs
<1>5. ActsAt(g, f) = {{bs[1], -first}} /\ ActLits(aigtocnf(g).bads, first) = {first}
  BY <1>1, <1>2, <1>3, <1>4
<1>6. QED
  BY <1>1, <1>5 DEF first

(* When the activation variable of step f is true, the guarded bad literal
   says that it holds. *)
LEMMA AssumedActs ==
  ASSUME NEW g \in AigerType, LiteralsInRange(g), NEW f \in Nat,
         NEW m \in Assignments, NEW w \in [0 .. g.maxvar -> BOOLEAN],
         Agrees(g, m, w, f), Supported(g), m[FirstAct(g, f)]
  PROVE  Satisfies(m, ActsAt(g, f)) <=> AllBad(g, w)
<1> DEFINE b == BadLiterals(g)[1]
           first == FirstAct(g, f)
<1>1. /\ Holds(m, Shift(g, UnsignedLit(b), f)) <=> Value(w, b)
      /\ AllBad(g, w) <=> Value(w, b)
  BY SupportedBads, LiteralMeaning DEF AllBad
<1>2. ActsAt(g, f) = {{Shift(g, UnsignedLit(b), f), -first}}
  BY SupportedActs
<1>3. first \in Nat /\ first > 0 /\ m[first]
  BY BlockFacts
<1> HIDE DEF b, first
<1>4. ~Holds(m, -first)
  <2>1. first \in Int /\ first # 0 /\ ~(first < 0)
    BY <1>3
  <2>2. QED
    BY <1>3, <2>1, HoldsNegated DEF Holds
<1>5. Satisfies(m, ActsAt(g, f))
        <=> Holds(m, Shift(g, UnsignedLit(b), f)) \/ Holds(m, -first)
  BY <1>2, ZenonT(60) DEF Satisfies, SatisfiesClause
<1>6. QED
  BY <1>1, <1>4, <1>5, SMTT(30)

(* When it is false the guarded bad literal says nothing. *)
LEMMA IdleActs ==
  ASSUME NEW g \in AigerType, LiteralsInRange(g), NEW f \in Nat,
         NEW m \in Assignments, Supported(g), ~m[FirstAct(g, f)]
  PROVE  Satisfies(m, ActsAt(g, f))
<1> DEFINE x == Shift(g, UnsignedLit(BadLiterals(g)[1]), f)
           first == FirstAct(g, f)
<1>1. ActsAt(g, f) = {{x, -first}}
  BY SupportedActs
<1>2. first \in Nat /\ first > 0 /\ ~m[first]
  BY BlockFacts
<1> HIDE DEF x, first
<1>3. Holds(m, -first)
  <2>1. first \in Int /\ first # 0 /\ ~(first < 0)
    BY <1>2
  <2>2. QED
    BY <1>2, <2>1, HoldsNegated DEF Holds
<1>4. QED
  BY <1>1, <1>3, Zenon DEF Satisfies, SatisfiesClause

-----------------------------------------------------------------------------
(* Whole unrollings. *)

LEMMA UnrolledParts ==
  ASSUME NEW g, NEW m, NEW n \in Nat
  PROVE  Satisfies(m, Unrolled(g, n, n, n))
           <=> /\ Satisfies(m, InitClauses(g))
               /\ \A f \in 0 .. n : Satisfies(m, GatesAt(g, f))
               /\ \A f \in 1 .. n : Satisfies(m, LinksAt(g, f))
               /\ \A f \in 0 .. n : Satisfies(m, ActsAt(g, f))
BY Zenon DEF Unrolled, Satisfies

(* Different steps own different variables. *)
LEMMA BlocksDisjoint ==
  ASSUME NEW g \in AigerType, LiteralsInRange(g),
         NEW f \in Nat, NEW h \in Nat, NEW x \in Nat,
         x >= Base(g, f), x < Base(g, f + 1), x >= Base(g, h), x < Base(g, h + 1)
  PROVE  f = h
<1>1. ASSUME NEW p \in Nat, NEW q \in Nat, p < q
      PROVE  /\ Base(g, p + 1) <= Base(g, q)
             /\ Base(g, p + 1) \in Nat /\ Base(g, q) \in Nat
  <2>1. Offset(g, p) + Stride(g) <= Offset(g, q)
    BY <1>1, OffsetMonotonic
  <2>2. /\ Offset(g, p + 1) = Offset(g, p) + Stride(g)
        /\ Offset(g, p) \in Nat /\ Offset(g, q) \in Nat /\ Stride(g) \in Nat
    BY OffsetFacts
  <2>3. Base(g, p + 1) = 1 + Offset(g, p + 1) /\ Base(g, q) = 1 + Offset(g, q)
    BY DEF Base
  <2>4. QED
    BY <2>1, <2>2, <2>3
<1>2. CASE f < h
  <2>1. /\ Base(g, f + 1) <= Base(g, h)
        /\ Base(g, f + 1) \in Nat /\ Base(g, h) \in Nat
    BY <1>1, <1>2
  <2>2. QED
    BY <2>1
<1>3. CASE h < f
  <2>1. /\ Base(g, h + 1) <= Base(g, f)
        /\ Base(g, h + 1) \in Nat /\ Base(g, f) \in Nat
    BY <1>1, <1>3
  <2>2. QED
    BY <2>1
<1>4. QED
  BY <1>2, <1>3

(* The valuations an assignment gives to the steps 0 .. n. *)
RunOf(g, m, n) ==
  [f \in 0 .. n |-> [v \in 0 .. g.maxvar |-> v > 0 /\ m[Base(g, f) + v]]]

(* The assignment that describes a run and enables only the bad literal of
   its last step. *)
AssignmentOf(g, run, n) ==
  [x \in Nat |->
     \/ x = FirstAct(g, n)
     \/ \E f \in 0 .. n, v \in 1 .. g.maxvar : x = Base(g, f) + v /\ run[f][v]]

LEMMA RunAgrees ==
  ASSUME NEW g \in AigerType, LiteralsInRange(g), NEW n \in Nat,
         NEW m \in Assignments, NEW f \in 0 .. n
  PROVE  /\ RunOf(g, m, n)[f] \in [0 .. g.maxvar -> BOOLEAN]
         /\ ~RunOf(g, m, n)[f][0]
         /\ Agrees(g, m, RunOf(g, m, n)[f], f)
<1>1. g.maxvar \in Nat /\ Base(g, f) \in Nat
  BY OffsetFacts, BlockFacts
<1>2. \A v \in 0 .. g.maxvar : m[Base(g, f) + v] \in BOOLEAN
  BY <1>1 DEF Assignments
<1>3. RunOf(g, m, n)[f] = [v \in 0 .. g.maxvar |-> v > 0 /\ m[Base(g, f) + v]]
  BY DEF RunOf
<1> DEFINE w == RunOf(g, m, n)[f]
<1> HIDE DEF w
<1>4. w \in [0 .. g.maxvar -> BOOLEAN] /\ \A v \in 0 .. g.maxvar : w[v] = (v > 0 /\ m[Base(g, f) + v])
  BY <1>2, <1>3 DEF w
<1>5. 0 \in 0 .. g.maxvar /\ \A v \in 1 .. g.maxvar : v \in 0 .. g.maxvar /\ v > 0
  BY <1>1
<1>6. ~w[0]
  BY <1>4, <1>5
<1>7. \A v \in 1 .. g.maxvar : w[v] <=> m[Base(g, f) + v]
  BY <1>4, <1>5
<1>8. QED
  BY <1>4, <1>6, <1>7, Zenon DEF Agrees, w

LEMMA AssignmentAgrees ==
  ASSUME NEW g \in AigerType, LiteralsInRange(g), Supported(g), NEW n \in Nat,
         NEW run \in [0 .. n -> [0 .. g.maxvar -> BOOLEAN]], NEW f \in 0 .. n
  PROVE  /\ AssignmentOf(g, run, n) \in Assignments
         /\ Agrees(g, AssignmentOf(g, run, n), run[f], f)
         /\ AssignmentOf(g, run, n)[FirstAct(g, f)] <=> f = n
<1> DEFINE m == AssignmentOf(g, run, n)
<1>1. m \in Assignments
  BY DEF AssignmentOf, Assignments
<1>2. g.maxvar \in Nat /\ f \in Nat
  BY OffsetFacts
<1>3. ASSUME NEW h \in 0 .. n
      PROVE  /\ Base(g, h) \in Nat /\ FirstAct(g, h) = Base(g, h) + g.maxvar + 1
             /\ Base(g, h + 1) = FirstAct(g, h) + 1
             /\ Base(g, h + 1) \in Nat /\ FirstAct(g, h) \in Nat
  <2>1. Len(aigtocnf(g).bads) = 1
    <3>1. /\ DOMAIN aigtocnf(g).bads = {1}
          /\ DOMAIN aigtocnf(g).bads = 1 .. Len(aigtocnf(g).bads)
          /\ Len(aigtocnf(g).bads) \in Nat
      BY SupportedBads, TranslationType, LenProperties
    <3>2. 1 .. 1 = {1} /\ 1 \in Nat
      OBVIOUS
    <3>3. QED
      BY <3>1, <3>2, SameDomain
  <2>2. h \in Nat /\ h + 1 \in Nat
    OBVIOUS
  <2>3. /\ FirstAct(g, h) = Base(g, h) + g.maxvar + 1
        /\ Base(g, h + 1) = FirstAct(g, h) + Len(aigtocnf(g).bads)
        /\ Base(g, h) \in Nat /\ FirstAct(g, h) \in Nat /\ Base(g, h + 1) \in Nat
    BY <2>2, BlockFacts
  <2>4. QED
    BY <2>1, <2>3
<1>4. ASSUME NEW h \in 0 .. n, NEW v \in 1 .. g.maxvar + 1,
             NEW k \in 0 .. n, NEW u \in 1 .. g.maxvar + 1,
             Base(g, h) + v = Base(g, k) + u
      PROVE  h = k /\ v = u
  <2> DEFINE x == Base(g, h) + v
  <2>1. /\ Base(g, h) \in Nat /\ Base(g, k) \in Nat
        /\ Base(g, h + 1) = Base(g, h) + g.maxvar + 1 + 1
        /\ Base(g, k + 1) = Base(g, k) + g.maxvar + 1 + 1
    BY <1>3
  <2>2. x \in Nat /\ x = Base(g, k) + u
    <3>1. x = Base(g, k) + u
      BY <1>4, Zenon
    <3>2. x \in Nat
      <4> DEFINE b == Base(g, h)
      <4>1. b \in Nat
        BY <2>1
      <4> HIDE DEF b
      <4>2. b + v \in Nat
        BY <1>2, <4>1
      <4>3. QED
        BY <4>2 DEF b
    <3>3. QED
      BY <3>1, <3>2
  <2>3. x >= Base(g, h) /\ x < Base(g, h + 1)
    <3> DEFINE b == Base(g, h)
               c == Base(g, h + 1)
    <3>1. b \in Nat /\ c = b + g.maxvar + 1 + 1
      BY <2>1
    <3> HIDE DEF b, c
    <3>2. b + v >= b /\ b + v < c
      BY <1>2, <3>1
    <3>3. QED
      BY <3>2 DEF b, c
  <2> HIDE DEF x
  <2>4. x >= Base(g, k) /\ x < Base(g, k + 1)
    <3> DEFINE b == Base(g, k)
               c == Base(g, k + 1)
    <3>1. b \in Nat /\ c = b + g.maxvar + 1 + 1 /\ x = b + u
      BY <2>1, <2>2
    <3> HIDE DEF b, c
    <3>2. x >= b /\ x < c
      BY <1>2, <3>1
    <3>3. QED
      BY <3>2 DEF b, c
  <2>5. h = k
    BY <2>2, <2>3, <2>4, BlocksDisjoint
  <2>6. QED
    BY <1>4, <2>1, <2>5
<1>5. ASSUME NEW v \in 1 .. g.maxvar
      PROVE  run[f][v] <=> m[Base(g, f) + v]
  <2>1. Base(g, f) + v \in Nat /\ v \in 1 .. g.maxvar + 1 /\ g.maxvar + 1 \in 1 .. g.maxvar + 1
    <3>1. Base(g, f) \in Nat
      BY <1>3
    <3>2. QED
      BY <1>2, <3>1
  <2>2. Base(g, f) + v # FirstAct(g, n)
    <3>1. FirstAct(g, n) = Base(g, n) + (g.maxvar + 1) /\ n \in 0 .. n
      BY <1>2, <1>3
    <3>2. v # g.maxvar + 1
      BY <1>2
    <3>3. QED
      BY <1>4, <2>1, <3>1, <3>2
  <2>3. m[Base(g, f) + v]
          <=> \E h \in 0 .. n, u \in 1 .. g.maxvar :
                Base(g, f) + v = Base(g, h) + u /\ run[h][u]
    BY <2>1, <2>2 DEF AssignmentOf
  <2>4. \A u \in 1 .. g.maxvar : u \in 1 .. g.maxvar + 1
    BY <1>2
  <2>5. \A h \in 0 .. n, u \in 1 .. g.maxvar :
          Base(g, f) + v = Base(g, h) + u => h = f /\ u = v
    BY <1>4, <2>1, <2>4
  <2> HIDE DEF m
  <2>6. QED
    BY <2>3, <2>5
<1>6. m[FirstAct(g, f)] <=> f = n
  <2>1. /\ FirstAct(g, f) = Base(g, f) + (g.maxvar + 1) /\ FirstAct(g, f) \in Nat
        /\ FirstAct(g, n) = Base(g, n) + (g.maxvar + 1)
        /\ n \in 0 .. n /\ g.maxvar + 1 \in 1 .. g.maxvar + 1
    <3>1. n \in 0 .. n /\ g.maxvar + 1 \in 1 .. g.maxvar + 1
      BY <1>2
    <3>2. ASSUME NEW h \in 0 .. n
          PROVE  FirstAct(g, h) = Base(g, h) + (g.maxvar + 1) /\ FirstAct(g, h) \in Nat
      <4>1. /\ Base(g, h) \in Nat /\ FirstAct(g, h) = Base(g, h) + g.maxvar + 1
            /\ FirstAct(g, h) \in Nat
        BY <1>3
      <4>2. QED
        BY <1>2, <4>1
    <3>3. QED
      BY <3>1, <3>2
  <2>2. m[FirstAct(g, f)]
          <=> \/ FirstAct(g, f) = FirstAct(g, n)
              \/ \E h \in 0 .. n, u \in 1 .. g.maxvar :
                   FirstAct(g, f) = Base(g, h) + u /\ run[h][u]
    BY <2>1 DEF AssignmentOf
  <2>3. \A u \in 1 .. g.maxvar : u \in 1 .. g.maxvar + 1 /\ u # g.maxvar + 1
    BY <1>2
  <2>4. \A h \in 0 .. n, u \in 1 .. g.maxvar : FirstAct(g, f) # Base(g, h) + u
    BY <1>4, <2>1, <2>3
  <2>5. FirstAct(g, f) = FirstAct(g, n) => f = n
    BY <1>4, <2>1
  <2> HIDE DEF m
  <2>6. QED
    BY <2>2, <2>4, <2>5
<1>7. QED
  BY <1>1, <1>5, <1>6 DEF Agrees

(* An assignment that agrees with a sequence of valuations and enables the
   bad literal of the last step only satisfies the unrolling exactly when
   the valuations form a run that ends with the bad literal true. *)
LEMMA AgreeingAssignment ==
  ASSUME NEW g \in AigerType, LiteralsInRange(g), Supported(g), NEW n \in Nat,
         NEW m \in Assignments,
         NEW run \in [0 .. n -> [0 .. g.maxvar -> BOOLEAN]],
         \A f \in 0 .. n : Agrees(g, m, run[f], f),
         m[FirstAct(g, n)]
  PROVE  Satisfies(m, Unrolled(g, n, n, n))
           <=> /\ \A f \in 0 .. n : GatesHold(g, run[f])
               /\ IsRun(g, run, n)
               /\ AllBad(g, run[n])
               /\ \A f \in 0 .. n : f # n => Satisfies(m, ActsAt(g, f))
<1>1. 0 \in 0 .. n /\ n \in 0 .. n /\ \A f \in 0 .. n : f \in Nat
  OBVIOUS
<1>2. Satisfies(m, InitClauses(g)) <=> StartsAt(g, run[0])
  BY <1>1, InitMeaning
<1>3. ASSUME NEW f \in 0 .. n
      PROVE  Satisfies(m, GatesAt(g, f)) <=> GatesHold(g, run[f])
  BY <1>1, GateMeaning
<1>4. ASSUME NEW f \in 1 .. n
      PROVE  Satisfies(m, LinksAt(g, f)) <=> Steps(g, run[f - 1], run[f])
  <2>1. f \in Nat /\ f > 0 /\ f \in 0 .. n /\ f - 1 \in 0 .. n
    OBVIOUS
  <2>2. /\ run[f - 1] \in [0 .. g.maxvar -> BOOLEAN] /\ Agrees(g, m, run[f - 1], f - 1)
        /\ run[f] \in [0 .. g.maxvar -> BOOLEAN] /\ Agrees(g, m, run[f], f)
    BY <2>1
  <2>3. QED
    BY <2>1, <2>2, LinkMeaning
<1>5. Satisfies(m, ActsAt(g, n)) <=> AllBad(g, run[n])
  BY <1>1, AssumedActs
<1>6. Satisfies(m, Unrolled(g, n, n, n))
        <=> /\ Satisfies(m, InitClauses(g))
            /\ \A f \in 0 .. n : Satisfies(m, GatesAt(g, f))
            /\ \A f \in 1 .. n : Satisfies(m, LinksAt(g, f))
            /\ \A f \in 0 .. n : Satisfies(m, ActsAt(g, f))
  BY UnrolledParts
<1>7. (\A f \in 0 .. n : Satisfies(m, ActsAt(g, f)))
        <=> /\ Satisfies(m, ActsAt(g, n))
            /\ \A f \in 0 .. n : f # n => Satisfies(m, ActsAt(g, f))
  BY <1>1, Zenon
<1>8. /\ (\A f \in 0 .. n : Satisfies(m, GatesAt(g, f)))
           <=> (\A f \in 0 .. n : GatesHold(g, run[f]))
      /\ (\A f \in 1 .. n : Satisfies(m, LinksAt(g, f)))
           <=> (\A f \in 1 .. n : Steps(g, run[f - 1], run[f]))
  BY <1>3, <1>4, Zenon
<1>9. QED
  BY <1>2, <1>5, <1>6, <1>7, <1>8, Zenon DEF IsRun

(* THEOREM: for every graph of the supported fragment and every depth, the
   clauses bmc.cpp has built at time step n have a model under the
   assumptions of that step exactly when the graph has a run whose state at
   step n makes the bad literal true. *)
THEOREM UnrollingExact ==
  ASSUME NEW g \in AigerType, LiteralsInRange(g), Supported(g), NEW n \in Nat
  PROVE  Satisfiable(Unrolled(g, n, n, n), ActLits(aigtocnf(g).bads, FirstAct(g, n)))
           <=> ReachesBad(g, n)
<1>1. ActLits(aigtocnf(g).bads, FirstAct(g, n)) = {FirstAct(g, n)}
  BY SupportedActs
<1>2. 0 \in 0 .. g.maxvar
  BY OffsetFacts
<1>3. ASSUME NEW m \in Assignments,
             Satisfies(m, Unrolled(g, n, n, n)), m[FirstAct(g, n)]
      PROVE  ReachesBad(g, n)
  <2> DEFINE run == RunOf(g, m, n)
  <2>1. \A f \in 0 .. n : /\ run[f] \in [0 .. g.maxvar -> BOOLEAN]
                          /\ ~run[f][0]
                          /\ Agrees(g, m, run[f], f)
    BY RunAgrees
  <2>2. DOMAIN run = 0 .. n /\ run = [f \in 0 .. n |-> run[f]]
    BY DEF RunOf
  <2> HIDE DEF run
  <2>3. run \in [0 .. n -> [0 .. g.maxvar -> BOOLEAN]]
    BY <2>1, <2>2
  <2>4. /\ \A f \in 0 .. n : GatesHold(g, run[f])
        /\ IsRun(g, run, n) /\ AllBad(g, run[n])
    BY <1>3, <2>1, <2>3, AgreeingAssignment
  <2>5. \A f \in 0 .. n : run[f] \in Valuations(g)
    BY <2>1, <2>4 DEF Valuations
  <2>6. run \in [0 .. n -> Valuations(g)]
    BY <2>2, <2>5
  <2>7. QED
    BY <2>4, <2>6 DEF ReachesBad
<1>4. ASSUME NEW run \in [0 .. n -> Valuations(g)],
             IsRun(g, run, n), AllBad(g, run[n])
      PROVE  \E m \in Assignments :
               Satisfies(m, Unrolled(g, n, n, n)) /\ m[FirstAct(g, n)]
  <2> DEFINE m == AssignmentOf(g, run, n)
  <2>1. /\ run \in [0 .. n -> [0 .. g.maxvar -> BOOLEAN]]
        /\ \A f \in 0 .. n : GatesHold(g, run[f])
    BY DEF Valuations
  <2>2. /\ n \in 0 .. n /\ \A f \in 0 .. n : f \in Nat
    OBVIOUS
  <2>3. /\ m \in Assignments
        /\ \A f \in 0 .. n : Agrees(g, m, run[f], f)
        /\ \A f \in 0 .. n : m[FirstAct(g, f)] <=> f = n
    BY <2>1, <2>2, AssignmentAgrees
  <2> HIDE DEF m
  <2>4. m[FirstAct(g, n)]
    BY <2>2, <2>3
  <2>5. \A f \in 0 .. n : f # n => Satisfies(m, ActsAt(g, f))
    BY <2>2, <2>3, IdleActs
  <2>6. Satisfies(m, Unrolled(g, n, n, n))
    BY <1>4, <2>1, <2>3, <2>4, <2>5, AgreeingAssignment
  <2>7. QED
    BY <2>3, <2>4, <2>6
<1>5. QED
  BY <1>1, <1>3, <1>4 DEF Satisfiable, ReachesBad, Assignments

-----------------------------------------------------------------------------
(* Type correctness. *)

(* Renaming gives integers, whatever the map holds. *)
LEMMA RenamedType ==
  ASSUME TypeOK
  PROVE  /\ \A x \in Int : Renamed(x) \in Int
         /\ \A s \in Seq(Int) : /\ RenamedSeq(s) \in Seq(Int)
                                /\ DOMAIN RenamedSeq(s) = DOMAIN s
                                /\ Len(RenamedSeq(s)) = Len(s)
<1>1. \A x \in Int : Renamed(x) \in Int
  BY DEF TypeOK, Renamed, Lookup, LitVar
<1>2. ASSUME NEW s \in Seq(Int)
      PROVE  /\ RenamedSeq(s) \in Seq(Int)
             /\ DOMAIN RenamedSeq(s) = DOMAIN s
             /\ Len(RenamedSeq(s)) = Len(s)
  <2>1. Len(s) \in Nat /\ DOMAIN s = 1 .. Len(s)
    BY LenProperties
  <2>2. \A k \in 1 .. Len(s) : s[k] \in Int
    BY <2>1, ElementOfSeq
  <2>3. RenamedSeq(s) \in [1 .. Len(s) -> Int]
    BY <1>1, <2>1, <2>2 DEF RenamedSeq
  <2>4. QED
    BY <2>1, <2>3, FunctionIsSeq
<1>3. QED
  BY <1>1, <1>2

(* THEOREM: every variable of the program keeps its type: the graph it
   works on stays within the header's maxvar even after a failed read, and
   all literals and clauses are sequences and sets of integers. *)
THEOREM TypeCorrect == Spec => []TypeOK
<1>1. Init => TypeOK
  <2> SUFFICES ASSUME Init PROVE TypeOK
    OBVIOUS
  <2>1. <<>> \in Seq(Int) /\ <<>> \in Seq(Nat) /\ <<>> \in Seq(Latch)
        /\ <<>> \in Seq(And) /\ DOMAIN <<>> = {}
    BY EmptySeq, LenProperties
  <2>2. EmptyAiger \in AigerType /\ LiteralsInRange(EmptyAiger)
    BY <2>1 DEF EmptyAiger, Graph, AigerType, LiteralsInRange
  <2>3. QED
    BY <2>1, <2>2 DEF Init, TypeOK, PCs
<1>2. TypeOK /\ [Next]_vars => TypeOK'
  <2> SUFFICES ASSUME TypeOK, [Next]_vars PROVE TypeOK'
    OBVIOUS
  <2> USE DEF graphVars, indexVars, circuitVars, PCs
  <2>1. CASE Read
    <3>1. aig' \in AigerType /\ LiteralsInRange(aig')
      BY <2>1, FilesAssumption, CutShortType DEF Read, ReadWhole, ReadPart, TypeOK
    <3>2. error' \in BOOLEAN
      BY <2>1 DEF Read, ReadWhole, ReadPart, aiger_check
    <3>3. QED
      BY <2>1, <3>1, <3>2 DEF Read, TypeOK
  <2>2. CASE Translate
    <3>1. /\ aigtocnf(aig).inputs \in Seq(Int)
          /\ aigtocnf(aig).inits \in Seq(Int)
          /\ aigtocnf(aig).in_latch \in Seq(Int)
          /\ aigtocnf(aig).out_latch \in Seq(Int)
          /\ aigtocnf(aig).bads \in Seq(Int)
          /\ aigtocnf(aig).ands \in SUBSET (SUBSET Int)
          /\ DOMAIN aigtocnf(aig).out_latch = DOMAIN aigtocnf(aig).in_latch
      <4>1. CnfLits(aig) \subseteq Int
        BY DEF CnfLits
      <4>2. QED
        BY <4>1, TranslationType, SeqMonotonic DEF TypeOK
    <3>2. aig.maxvar \in Nat
      BY DEF TypeOK, AigerType
    <3>3. QED
      BY <2>2, <3>1, <3>2, SMTT(30) DEF Translate, TypeOK
  <2>3. CASE Encode
    <3>1. /\ ActClauses(bads, cur_idx) \in SUBSET (SUBSET Int)
          /\ ActLits(bads, cur_idx) \in SUBSET Nat
          /\ Len(bads) \in Nat
      BY ActType DEF TypeOK
    <3>2. {{inits[k]} : k \in DOMAIN inits} \in SUBSET (SUBSET Int)
      <4>1. \A k \in DOMAIN inits : inits[k] \in Int
        BY LenProperties, ElementOfSeq DEF TypeOK
      <4>2. QED
        BY <4>1
    <3>3. clauses' \in SUBSET (SUBSET Int)
      BY <2>3, <3>1, <3>2 DEF Encode, TypeOK
    <3>4. cur_idx' \in Nat /\ nVars' \in Nat
      BY <2>3, <3>1 DEF Encode, TypeOK, GrownTo
    <3>5. QED
      BY <2>3, <3>1, <3>3, <3>4 DEF Encode, TypeOK
  <2>4. CASE Found \/ NextStep \/ CantFind
    <3>1. CASE Found
      BY <3>1, SMTT(30) DEF Found, TypeOK
    <3>2. CASE NextStep
      BY <3>2, SMTT(30) DEF NextStep, TypeOK
    <3>3. CASE CantFind
      BY <3>3, SMTT(30) DEF CantFind, TypeOK
    <3>4. QED
      BY <2>4, <3>1, <3>2, <3>3
  <2>5. CASE Renumber
    <3>1. \A v \in DOMAIN cur2nxt' : cur2nxt'[v] \in Nat
      BY <2>5 DEF Renumber, NewNumbers, TypeOK
    <3>2. cur_idx' \in Nat /\ start_idx' \in Nat /\ nVars' \in Nat
      BY <2>5, SMTT(30) DEF Renumber, TypeOK, GrownTo
    <3>3. QED
      BY <2>5, <3>1, <3>2 DEF Renumber, TypeOK
  <2>6. CASE LinkLatches
    <3>1. /\ in_latch' \in Seq(Int) /\ out_latch' \in Seq(Int)
          /\ DOMAIN out_latch' = DOMAIN in_latch'
      BY <2>6, RenamedType DEF LinkLatches, TypeOK
    <3>2. LinkClauses(RenamedSeq(in_latch), out_latch) \in SUBSET (SUBSET Int)
      <4>1. \A k \in DOMAIN RenamedSeq(in_latch) :
              RenamedSeq(in_latch)[k] \in Int /\ out_latch[k] \in Int
        BY RenamedType, LenProperties, ElementOfSeq DEF TypeOK
      <4>2. QED
        BY <4>1 DEF LinkClauses
    <3>3. QED
      BY <2>6, <3>1, <3>2 DEF LinkLatches, TypeOK
  <2>7. CASE CopyGates
    <3>1. RenamedClauses(ands) \in SUBSET (SUBSET Int)
      BY RenamedType DEF RenamedClauses, TypeOK
    <3>2. QED
      BY <2>7, <3>1 DEF CopyGates, TypeOK
  <2>8. CASE CopyBads
    <3>1. bads' \in Seq(Int) /\ inputs' \in Seq(Int) /\ Len(bads) \in Nat
      BY <2>8, RenamedType, LenProperties DEF CopyBads, TypeOK
    <3>2. /\ ActClauses(bads', cur_idx) \in SUBSET (SUBSET Int)
          /\ ActLits(bads', cur_idx) \in SUBSET Nat
      BY <3>1, ActType DEF TypeOK
    <3>3. clauses' \in SUBSET (SUBSET Int) /\ v_act' \in SUBSET Nat
      BY <2>8, <3>2 DEF CopyBads, TypeOK
    <3>4. cur_idx' \in Nat /\ nVars' \in Nat
      BY <2>8, <3>1 DEF CopyBads, TypeOK
    <3>5. pc' \in PCs /\ UNCHANGED <<file, aig, error, inits, vars_nums, start_idx,
                                    cur2nxt, in_latch, out_latch, ands, i, result>>
      BY <2>8 DEF CopyBads
    <3>6. QED
      BY <3>1, <3>3, <3>4, <3>5 DEF TypeOK
  <2>9. CASE UNCHANGED vars
    BY <2>9 DEF vars, TypeOK
  <2>10. QED
    BY <2>1, <2>2, <2>3, <2>4, <2>5, <2>6, <2>7, <2>8, <2>9 DEF Next
<1>3. QED
  BY <1>1, <1>2, PTL DEF Spec

-----------------------------------------------------------------------------
(* The inductive invariant.  The clause set is determined by the graph and
   the step only because the renamed copies kept in the program's variables
   are themselves the step-0 copies moved by a whole number of strides, and
   because cur2nxt moves exactly the variables of one step by one stride. *)

Fresh ==
  pc \in {"read", "translate", "encode"} =>
    clauses = {} /\ nVars = 0 /\ i = 0 /\ v_act = {} /\ input_at_time_t = <<>>

Moved ==
  pc \in {"encode"} \cup InFrame =>
    /\ vars_nums = aig.maxvar
    /\ inits = aigtocnf(aig).inits
    /\ in_latch = ShiftSeq(aig, aigtocnf(aig).in_latch, Linked)
    /\ out_latch = ShiftSeq(aig, aigtocnf(aig).out_latch, Linked)
    /\ ands = ShiftClauses(aig, aigtocnf(aig).ands, Gated)
    /\ bads = ShiftSeq(aig, aigtocnf(aig).bads, Guarded)
    /\ inputs = ShiftSeq(aig, aigtocnf(aig).inputs, Guarded)

Indexed ==
  /\ pc = "encode" => start_idx = 1 /\ cur_idx = aig.maxvar + 2
  /\ pc \in InFrame =>
       /\ start_idx = Base(aig, Numbered)
       /\ cur_idx = IF pc \in {"link", "gates", "bads"}
                    THEN FirstAct(aig, i) ELSE Base(aig, Numbered + 1)
       /\ nVars = cur_idx + 1

Mapped ==
  /\ pc \in {"renumber", "link", "gates", "bads"} => i > 0
  /\ pc \in {"link", "gates", "bads"} =>
       /\ DOMAIN cur2nxt = Base(aig, i - 1) .. Base(aig, i - 1) + aig.maxvar
       /\ \A v \in DOMAIN cur2nxt : cur2nxt[v] = v + Stride(aig)

IInv ==
  TypeOK /\ Fresh /\ Moved /\ Indexed /\ Mapped
    /\ ClausesLaidOut /\ OnlyThisStepAssumed /\ InputHistory

-----------------------------------------------------------------------------
(* With cur2nxt as the invariant has it, renaming moves a copy of step
   i - 1 to step i. *)
LEMMA RenamingMoves ==
  ASSUME TypeOK, Mapped, pc \in {"link", "gates", "bads"}
  PROVE  /\ \A x \in CnfLits(aig) :
              Renamed(Shift(aig, x, i - 1)) = Shift(aig, x, i)
         /\ \A s \in Seq(CnfLits(aig)) :
              RenamedSeq(ShiftSeq(aig, s, i - 1)) = ShiftSeq(aig, s, i)
         /\ \A cs \in SUBSET (SUBSET CnfLits(aig)) :
              RenamedClauses(ShiftClauses(aig, cs, i - 1)) = ShiftClauses(aig, cs, i)
<1>1. /\ aig \in AigerType /\ LiteralsInRange(aig)
      /\ i \in Nat /\ i > 0 /\ i - 1 \in Nat
  BY DEF TypeOK, Mapped
<1>2. Offset(aig, i) = Offset(aig, i - 1) + Stride(aig)
  <2>1. Offset(aig, (i - 1) + 1) = Offset(aig, i - 1) + Stride(aig)
    BY <1>1, OffsetFacts
  <2>2. (i - 1) + 1 = i
    BY <1>1
  <2>3. QED
    BY <2>1, <2>2
<1>3. ASSUME NEW x \in CnfLits(aig)
      PROVE  Renamed(Shift(aig, x, i - 1)) = Shift(aig, x, i)
  <2> DEFINE y == Shift(aig, x, i - 1)
             z == Shift(aig, x, i)
  <2>1. /\ y \in Int /\ z \in Int /\ (y > 0 <=> x > 0) /\ (z > 0 <=> x > 0)
        /\ y # 0 /\ z # 0
        /\ LitVar(y) = LitVar(x) + Offset(aig, i - 1)
        /\ LitVar(z) = LitVar(x) + Offset(aig, i)
        /\ LitVar(x) \in 1 .. aig.maxvar + 1
    BY <1>1, ShiftFacts
  <2>2. /\ Offset(aig, i - 1) \in Nat /\ Stride(aig) \in Nat /\ aig.maxvar \in Nat
    BY <1>1, OffsetFacts
  <2>3. LitVar(y) \in Base(aig, i - 1) .. Base(aig, i - 1) + aig.maxvar
    BY <2>1, <2>2 DEF Base
  <2>4. Lookup(y) = LitVar(y) + Stride(aig)
    BY <2>3 DEF Lookup, Mapped
  <2>5. Lookup(y) = LitVar(z)
    BY <1>2, <2>1, <2>2, <2>4
  <2> HIDE DEF y, z
  <2>6. Renamed(y) = z
    BY <2>1, <2>5 DEF Renamed, LitVar
  <2>7. QED
    BY <2>6 DEF y, z
<1>4. ASSUME NEW s \in Seq(CnfLits(aig))
      PROVE  RenamedSeq(ShiftSeq(aig, s, i - 1)) = ShiftSeq(aig, s, i)
  <2>1. \A k \in DOMAIN s : s[k] \in CnfLits(aig)
    BY LenProperties, ElementOfSeq
  <2>2. QED
    BY <1>3, <2>1 DEF RenamedSeq, ShiftSeq
<1>5. ASSUME NEW cs \in SUBSET (SUBSET CnfLits(aig))
      PROVE  RenamedClauses(ShiftClauses(aig, cs, i - 1)) = ShiftClauses(aig, cs, i)
  <2>1. ASSUME NEW c \in cs
        PROVE  {Renamed(y) : y \in {Shift(aig, x, i - 1) : x \in c}}
                 = {Shift(aig, x, i) : x \in c}
    BY <1>3
  <2>2. QED
    BY <2>1 DEF RenamedClauses, ShiftClauses
<1>6. QED
  BY <1>3, <1>4, <1>5
-----------------------------------------------------------------------------
(* Every step preserves the invariant. *)

LEMMA InitIInv == Init => IInv
<1> SUFFICES ASSUME Init PROVE IInv
  OBVIOUS
<1>1. TypeOK
  <2>1. <<>> \in Seq(Int) /\ <<>> \in Seq(Nat) /\ <<>> \in Seq(Latch)
        /\ <<>> \in Seq(And) /\ DOMAIN <<>> = {}
    BY EmptySeq, LenProperties
  <2>2. EmptyAiger \in AigerType /\ LiteralsInRange(EmptyAiger)
    BY <2>1 DEF EmptyAiger, Graph, AigerType, LiteralsInRange
  <2>3. QED
    BY <2>1, <2>2 DEF Init, TypeOK, PCs
<1>2. QED
  BY <1>1 DEF Init, IInv, Fresh, Moved, Indexed, Mapped, ClausesLaidOut,
              OnlyThisStepAssumed, InputHistory, InFrame

(* Before the first clause: the graph is read and translated. *)
LEMMA PreparationIInv ==
  ASSUME IInv, TypeOK', Read \/ Translate
  PROVE  IInv'
<1> USE DEF IInv, InFrame, graphVars, indexVars, circuitVars
<1>1. CASE Read
  BY <1>1 DEF Read, Fresh, Moved, Indexed, Mapped, ClausesLaidOut,
              OnlyThisStepAssumed, InputHistory
<1>2. CASE Translate
  <2>1. /\ aig \in AigerType /\ LiteralsInRange(aig) /\ aig' = aig
        /\ pc' = "encode" /\ i' = i /\ i = 0
    BY <1>2 DEF Translate, TypeOK, Fresh
  <2>2. Linked' = 0 /\ Gated' = 0 /\ Guarded' = 0
    BY <2>1 DEF Linked, Gated, Guarded, StepOf
  <2>3. Moved'
    BY <1>2, <2>1, <2>2, ShiftZero, TranslationType DEF Translate, Moved
  <2>4. Fresh'
    BY <1>2, <2>1 DEF Translate, Fresh
  <2>5. Indexed'
    <3>1. aig.maxvar + 1 + 1 = aig.maxvar + 2
      BY <2>1 DEF AigerType
    <3>2. QED
      BY <1>2, <2>1, <3>1 DEF Translate, Indexed
  <2>6. Mapped'
    BY <2>1 DEF Mapped
  <2>7. ClausesLaidOut' /\ OnlyThisStepAssumed' /\ InputHistory'
    BY <2>1, <2>4 DEF ClausesLaidOut, OnlyThisStepAssumed, InputHistory, Fresh
  <2>8. QED
    BY <2>3, <2>4, <2>5, <2>6, <2>7
<1>3. QED
  BY <1>1, <1>2

(* Time step 0. *)
LEMMA EncodeIInv ==
  ASSUME IInv, TypeOK', Encode
  PROVE  IInv'
<1> USE DEF InFrame, graphVars, indexVars, circuitVars
<1>1. /\ aig \in AigerType /\ LiteralsInRange(aig) /\ aig' = aig
      /\ pc = "encode" /\ pc' = "check" /\ i' = i /\ i = 0
      /\ clauses = {} /\ nVars = 0
  BY DEF Encode, IInv, TypeOK, Fresh
<1>2. Linked = 0 /\ Gated = 0 /\ Guarded = 0
  BY <1>1 DEF Linked, Gated, Guarded, StepOf
<1>3. Linked' = 0 /\ Gated' = 0 /\ Guarded' = 0 /\ Numbered' = 0
  BY <1>1 DEF Linked, Gated, Guarded, Numbered, StepOf
<1>4. /\ Offset(aig, 0) = 0 /\ Offset(aig, 1) = Stride(aig)
      /\ Stride(aig) = aig.maxvar + 1 + Len(aigtocnf(aig).bads)
      /\ aig.maxvar \in Nat /\ Len(aigtocnf(aig).bads) \in Nat
  <2>1. /\ Offset(aig, 0 + 1) = Offset(aig, 0) + Stride(aig)
        /\ Offset(aig, 0) = 0
        /\ Stride(aig) = aig.maxvar + 1 + Len(aigtocnf(aig).bads)
        /\ aig.maxvar \in Nat /\ Len(aigtocnf(aig).bads) \in Nat
    BY <1>1, OffsetFacts
  <2>2. 0 + 1 = 1
    OBVIOUS
  <2>3. Offset(aig, 1) = Offset(aig, 0) + Stride(aig)
    BY <2>1, <2>2, Zenon
  <2>4. QED
    BY <2>1, <2>3
<1>5. /\ inits = aigtocnf(aig).inits
      /\ ands = GatesAt(aig, 0)
      /\ bads = ShiftSeq(aig, aigtocnf(aig).bads, 0)
      /\ bads = aigtocnf(aig).bads
      /\ cur_idx = FirstAct(aig, 0)
  BY <1>1, <1>2, <1>4, ShiftZero, TranslationType
  DEF IInv, Moved, Indexed, GatesAt, FirstAct, Base
<1>6. clauses' = Unrolled(aig, 0, 0, 0)
  BY <1>1, <1>5, UnrolledStart DEF Encode, InitClauses, ActsAt
<1>7. v_act' = ActLits(aigtocnf(aig).bads, FirstAct(aig, 0))
  BY <1>5 DEF Encode
<1>8. Moved'
  BY <1>1, <1>2, <1>3 DEF Encode, IInv, Moved
<1>9. Indexed'
  <2>1. cur_idx' = Base(aig, 1) /\ nVars' = cur_idx' + 1
    BY <1>1, <1>4, <1>5 DEF Encode, FirstAct, Base, GrownTo
  <2>2. start_idx' = Base(aig, 0)
    BY <1>1, <1>4 DEF Encode, IInv, Indexed, Base
  <2>3. QED
    BY <1>1, <1>3, <2>1, <2>2 DEF Indexed
<1>10. InputHistory'
  BY <1>1, <1>3 DEF Encode, IInv, Fresh, InputHistory
<1>11. QED
  BY <1>1, <1>3, <1>6, <1>7, <1>8, <1>9, <1>10
  DEF IInv, Fresh, Mapped, ClausesLaidOut, OnlyThisStepAssumed
(* The solver's answer: nothing moves but the step counter. *)
LEMMA AnswerIInv ==
  ASSUME IInv, TypeOK', Found \/ NextStep \/ CantFind
  PROVE  IInv'
<1> USE DEF InFrame, graphVars, indexVars, circuitVars
<1>1. /\ aig' = aig /\ pc = "check" /\ pc' \in {"renumber", "done"}
      /\ i \in Nat /\ i' = (IF pc' = "renumber" THEN i + 1 ELSE i)
      /\ UNCHANGED <<graphVars, indexVars, circuitVars, clauses>>
      /\ v_act' = {}
  BY DEF IInv, TypeOK, Found, NextStep, CantFind
<1>2. Linked = i /\ Gated = i /\ Guarded = i /\ Numbered = i
  BY <1>1 DEF Linked, Gated, Guarded, Numbered, StepOf
<1>3. Linked' = i /\ Gated' = i /\ Guarded' = i /\ Numbered' = i
  BY <1>1 DEF Linked, Gated, Guarded, Numbered, StepOf
<1>4. Moved' /\ ClausesLaidOut' /\ InputHistory'
  BY <1>1, <1>2, <1>3 DEF IInv, Moved, ClausesLaidOut, InputHistory
<1>5. Indexed' /\ Mapped' /\ Fresh' /\ OnlyThisStepAssumed'
  BY <1>1, <1>2, <1>3
  DEF IInv, Indexed, Mapped, Fresh, OnlyThisStepAssumed
<1>6. QED
  BY <1>4, <1>5 DEF IInv

(* update_cur2nxt. *)
LEMMA RenumberIInv ==
  ASSUME IInv, TypeOK', Renumber
  PROVE  IInv'
<1> USE DEF InFrame, graphVars, indexVars, circuitVars
<1>1. /\ aig \in AigerType /\ LiteralsInRange(aig) /\ aig' = aig
      /\ pc = "renumber" /\ pc' = "link" /\ i \in Nat /\ i > 0 /\ i' = i
      /\ i - 1 \in Nat /\ (i - 1) + 1 = i
  BY DEF IInv, TypeOK, Mapped, Renumber
<1>2. Linked = i - 1 /\ Gated = i - 1 /\ Guarded = i - 1 /\ Numbered = i - 1
  BY <1>1 DEF Linked, Gated, Guarded, Numbered, StepOf
<1>3. Linked' = i - 1 /\ Gated' = i - 1 /\ Guarded' = i - 1 /\ Numbered' = i
  BY <1>1 DEF Linked, Gated, Guarded, Numbered, StepOf
<1>4. /\ Offset(aig, (i - 1) + 1) = Offset(aig, i - 1) + Stride(aig)
      /\ Offset(aig, i - 1) \in Nat /\ Stride(aig) \in Nat /\ aig.maxvar \in Nat
  BY <1>1, OffsetFacts
<1>5. Offset(aig, i) = Offset(aig, i - 1) + Stride(aig)
  BY <1>1, <1>4, Zenon
<1>6. /\ start_idx = Base(aig, i - 1) /\ vars_nums = aig.maxvar
      /\ cur_idx = Base(aig, i) /\ nVars = cur_idx + 1
  BY <1>1, <1>2 DEF IInv, Indexed, Moved
<1>7. Indexed'
  <2>1. start_idx' = Base(aig, i) /\ cur_idx' = FirstAct(aig, i) /\ nVars' = cur_idx' + 1
    BY <1>4, <1>5, <1>6 DEF Renumber, FirstAct, Base, GrownTo
  <2>2. QED
    BY <1>1, <1>3, <2>1 DEF Indexed
<1>8. Mapped'
  <2>1. DOMAIN cur2nxt' = Base(aig, i - 1) .. Base(aig, i - 1) + aig.maxvar
    BY <1>6 DEF Renumber, NewNumbers
  <2>2. \A v \in DOMAIN cur2nxt' : cur2nxt'[v] = v + Stride(aig)
    BY <1>4, <1>5, <1>6, <2>1, SMTT(30) DEF Renumber, NewNumbers, Base
  <2>3. QED
    BY <1>1, <2>1, <2>2 DEF Mapped
<1>9. Moved' /\ ClausesLaidOut' /\ InputHistory'
  BY <1>1, <1>2, <1>3 DEF IInv, Renumber, Moved, ClausesLaidOut, InputHistory
<1>10. Fresh' /\ OnlyThisStepAssumed'
  BY <1>1 DEF IInv, Renumber, Fresh, OnlyThisStepAssumed
<1>11. QED
  BY <1>7, <1>8, <1>9, <1>10 DEF IInv

(* The links between step i - 1 and step i. *)
LEMMA LinkIInv ==
  ASSUME IInv, TypeOK', LinkLatches
  PROVE  IInv'
<1> USE DEF InFrame, graphVars, indexVars, circuitVars
<1>1. /\ aig \in AigerType /\ LiteralsInRange(aig) /\ aig' = aig
      /\ pc = "link" /\ pc' = "gates" /\ i \in Nat /\ i > 0 /\ i' = i
      /\ i - 1 \in Nat /\ (i - 1) + 1 = i
  BY DEF IInv, TypeOK, Mapped, LinkLatches
<1>2. Linked = i - 1 /\ Gated = i - 1 /\ Guarded = i - 1 /\ Numbered = i
  BY <1>1 DEF Linked, Gated, Guarded, Numbered, StepOf
<1>3. Linked' = i /\ Gated' = i - 1 /\ Guarded' = i - 1 /\ Numbered' = i
  BY <1>1 DEF Linked, Gated, Guarded, Numbered, StepOf
<1>4. /\ in_latch = ShiftSeq(aig, aigtocnf(aig).in_latch, i - 1)
      /\ out_latch = ShiftSeq(aig, aigtocnf(aig).out_latch, i - 1)
  BY <1>1, <1>2 DEF IInv, Moved
<1>5. /\ RenamedSeq(in_latch) = ShiftSeq(aig, aigtocnf(aig).in_latch, i)
      /\ RenamedSeq(out_latch) = ShiftSeq(aig, aigtocnf(aig).out_latch, i)
  BY <1>1, <1>4, RenamingMoves, TranslationType DEF IInv
<1>6. clauses' = Unrolled(aig, i - 1, i, i - 1)
  <2>1. clauses = Unrolled(aig, i - 1, i - 1, i - 1)
    BY <1>1, <1>2 DEF IInv, ClausesLaidOut
  <2>3. Unrolled(aig, i - 1, i, i - 1)
          = Unrolled(aig, i - 1, i - 1, i - 1) \cup LinksAt(aig, i)
    <3>1. i - 1 \in Nat /\ i \in Nat /\ i > 0
      BY <1>1
    <3>2. QED
      BY <3>1, UnrolledLinks
  <2>4. clauses' = clauses \cup LinksAt(aig, i)
    BY <1>4, <1>5 DEF LinkLatches, LinksAt
  <2>5. QED
    BY <2>1, <2>3, <2>4
<1>7. Moved'
  BY <1>1, <1>2, <1>3, <1>5 DEF IInv, Moved, LinkLatches
<1>8. Indexed' /\ Mapped'
  BY <1>1, <1>2, <1>3 DEF IInv, Indexed, Mapped, LinkLatches
<1>9. ClausesLaidOut' /\ InputHistory' /\ Fresh' /\ OnlyThisStepAssumed'
  BY <1>1, <1>2, <1>3, <1>6
  DEF IInv, ClausesLaidOut, InputHistory, Fresh, OnlyThisStepAssumed, LinkLatches
<1>10. QED
  BY <1>7, <1>8, <1>9 DEF IInv

(* The gates of step i. *)
LEMMA GatesIInv ==
  ASSUME IInv, TypeOK', CopyGates
  PROVE  IInv'
<1> USE DEF InFrame, graphVars, indexVars, circuitVars
<1>1. /\ aig \in AigerType /\ LiteralsInRange(aig) /\ aig' = aig
      /\ pc = "gates" /\ pc' = "bads" /\ i \in Nat /\ i > 0 /\ i' = i
      /\ i - 1 \in Nat /\ (i - 1) + 1 = i
  BY DEF IInv, TypeOK, Mapped, CopyGates
<1>2. Linked = i /\ Gated = i - 1 /\ Guarded = i - 1 /\ Numbered = i
  BY <1>1 DEF Linked, Gated, Guarded, Numbered, StepOf
<1>3. Linked' = i /\ Gated' = i /\ Guarded' = i - 1 /\ Numbered' = i
  BY <1>1 DEF Linked, Gated, Guarded, Numbered, StepOf
<1>4. RenamedClauses(ands) = GatesAt(aig, i)
  BY <1>1, <1>2, RenamingMoves, TranslationType DEF IInv, Moved, GatesAt
<1>5. clauses' = Unrolled(aig, i, i, i - 1)
  <2>1. clauses = Unrolled(aig, i - 1, i, i - 1)
    BY <1>1, <1>2 DEF IInv, ClausesLaidOut
  <2>3. Unrolled(aig, i, i, i - 1) = Unrolled(aig, i - 1, i, i - 1) \cup GatesAt(aig, i)
    BY <1>1, UnrolledGates
  <2>4. QED
    BY <1>4, <2>1, <2>3 DEF CopyGates
<1>6. Moved'
  BY <1>1, <1>2, <1>3, <1>4 DEF IInv, Moved, CopyGates, GatesAt
<1>7. Indexed' /\ Mapped'
  BY <1>1, <1>2, <1>3 DEF IInv, Indexed, Mapped, CopyGates
<1>8. ClausesLaidOut' /\ InputHistory' /\ Fresh' /\ OnlyThisStepAssumed'
  BY <1>1, <1>2, <1>3, <1>5
  DEF IInv, ClausesLaidOut, InputHistory, Fresh, OnlyThisStepAssumed, CopyGates
<1>9. QED
  BY <1>6, <1>7, <1>8 DEF IInv

(* Appending the inputs of one more step. *)
LEMMA HistoryGrows ==
  ASSUME NEW g, NEW s, NEW n \in Nat, NEW h,
         h = [t \in 1 .. n |-> ShiftSeq(g, s, t - 1)]
  PROVE  Append(h, ShiftSeq(g, s, n)) = [t \in 1 .. n + 1 |-> ShiftSeq(g, s, t - 1)]
<1> DEFINE S == {ShiftSeq(g, s, t - 1) : t \in 1 .. n + 1}
           l == [t \in 1 .. n + 1 |-> ShiftSeq(g, s, t - 1)]
<1>1. h \in [1 .. n -> S] /\ l \in [1 .. n + 1 -> S] /\ n + 1 \in Nat
  OBVIOUS
<1>2. /\ h \in Seq(S) /\ Len(h) = n
      /\ l \in Seq(S) /\ Len(l) = n + 1
  BY <1>1, FunctionIsSeq
<1>3. ShiftSeq(g, s, n) = l[n + 1] /\ ShiftSeq(g, s, n) \in S
  <2>1. n + 1 \in 1 .. n + 1 /\ (n + 1) - 1 = n
    OBVIOUS
  <2>2. QED
    BY <2>1
<1>4. /\ Append(h, ShiftSeq(g, s, n)) \in Seq(S)
      /\ Len(Append(h, ShiftSeq(g, s, n))) = n + 1
      /\ \A t \in 1 .. n : Append(h, ShiftSeq(g, s, n))[t] = h[t]
      /\ Append(h, ShiftSeq(g, s, n))[n + 1] = ShiftSeq(g, s, n)
  BY <1>2, <1>3, AppendProperties
<1>5. \A t \in 1 .. n + 1 : Append(h, ShiftSeq(g, s, n))[t] = l[t]
  <2>1. \A t \in 1 .. n : h[t] = l[t]
    OBVIOUS
  <2>2. QED
    BY <1>3, <1>4, <2>1
<1>6. QED
  BY <1>2, <1>4, <1>5, SeqEqual

(* The guarded bad literals of step i, and the inputs. *)
LEMMA BadsIInv ==
  ASSUME IInv, TypeOK', CopyBads
  PROVE  IInv'
<1> USE DEF InFrame, graphVars, indexVars, circuitVars
<1>1. /\ aig \in AigerType /\ LiteralsInRange(aig) /\ aig' = aig
      /\ pc = "bads" /\ pc' = "check" /\ i \in Nat /\ i > 0 /\ i' = i
      /\ i - 1 \in Nat /\ (i - 1) + 1 = i
  BY DEF IInv, TypeOK, Mapped, CopyBads
<1>2. Linked = i /\ Gated = i /\ Guarded = i - 1 /\ Numbered = i
  BY <1>1 DEF Linked, Gated, Guarded, Numbered, StepOf
<1>3. Linked' = i /\ Gated' = i /\ Guarded' = i /\ Numbered' = i
  BY <1>1 DEF Linked, Gated, Guarded, Numbered, StepOf
<1>4. /\ RenamedSeq(bads) = ShiftSeq(aig, aigtocnf(aig).bads, i)
      /\ RenamedSeq(inputs) = ShiftSeq(aig, aigtocnf(aig).inputs, i)
      /\ cur_idx = FirstAct(aig, i) /\ nVars = cur_idx + 1
  BY <1>1, <1>2, RenamingMoves, TranslationType DEF IInv, Moved, Indexed
<1>5. clauses' = Unrolled(aig, i, i, i)
  <2>1. clauses = Unrolled(aig, i, i, i - 1)
    BY <1>1, <1>2 DEF IInv, ClausesLaidOut
  <2>3. Unrolled(aig, i, i, i) = Unrolled(aig, i, i, i - 1) \cup ActsAt(aig, i)
    <3>1. i - 1 \in Nat /\ i \in Nat /\ i > 0
      BY <1>1
    <3>2. QED
      BY <3>1, UnrolledActs
  <2>4. QED
    BY <1>4, <2>1, <2>3 DEF CopyBads, ActsAt
<1>6. v_act' = ActLits(aigtocnf(aig).bads, FirstAct(aig, i))
  BY <1>4 DEF CopyBads, ActLits, ShiftSeq
<1>7. Indexed'
  <2>1. /\ Offset(aig, i + 1) = Offset(aig, i) + Stride(aig)
        /\ Offset(aig, i) \in Nat /\ aig.maxvar \in Nat
        /\ Stride(aig) = aig.maxvar + 1 + Len(aigtocnf(aig).bads)
        /\ Len(aigtocnf(aig).bads) \in Nat
    BY <1>1, OffsetFacts
  <2>2. Len(bads) = Len(aigtocnf(aig).bads)
    <3>1. /\ DOMAIN bads = DOMAIN aigtocnf(aig).bads
      BY <1>1, <1>2 DEF IInv, Moved, ShiftSeq
    <3>2. /\ DOMAIN bads = 1 .. Len(bads) /\ Len(bads) \in Nat
          /\ DOMAIN aigtocnf(aig).bads = 1 .. Len(aigtocnf(aig).bads)
      BY <1>1, LenProperties, TranslationType DEF IInv, TypeOK
    <3>3. QED
      BY <2>1, <3>1, <3>2, SameDomain
  <2>3. cur_idx' = Base(aig, i + 1) /\ nVars' = cur_idx' + 1
    <3>1. /\ cur_idx' = FirstAct(aig, i) + Len(aigtocnf(aig).bads)
          /\ nVars' = FirstAct(aig, i) + 1 + Len(aigtocnf(aig).bads)
      BY <1>4, <2>2 DEF CopyBads
    <3>2. FirstAct(aig, i) + Len(aigtocnf(aig).bads) = Base(aig, i + 1)
      BY <2>1, SMTT(30) DEF FirstAct, Base
    <3>3. FirstAct(aig, i) \in Nat
      BY <2>1, SMTT(30) DEF FirstAct, Base
    <3>4. QED
      BY <2>1, <3>1, <3>2, <3>3
  <2>4. start_idx' = Base(aig, i)
    BY <1>1, <1>2 DEF IInv, Indexed, CopyBads
  <2>5. QED
    BY <1>1, <1>3, <2>3, <2>4 DEF Indexed
<1>8. Moved'
  BY <1>1, <1>2, <1>3, <1>4 DEF IInv, Moved, CopyBads
<1>9. InputHistory'
  <2>1. /\ input_at_time_t = [t \in 1 .. i - 1 |->
                                ShiftSeq(aig, aigtocnf(aig).inputs, t - 1)]
        /\ inputs = ShiftSeq(aig, aigtocnf(aig).inputs, i - 1)
    BY <1>1, <1>2 DEF IInv, InputHistory, Moved
  <2>2. Append(input_at_time_t, inputs)
          = [t \in 1 .. (i - 1) + 1 |-> ShiftSeq(aig, aigtocnf(aig).inputs, t - 1)]
    BY <1>1, <2>1, HistoryGrows
  <2>3. Append(input_at_time_t, inputs)
          = [t \in 1 .. i |-> ShiftSeq(aig, aigtocnf(aig).inputs, t - 1)]
    BY <1>1, <2>2
  <2>4. QED
    BY <1>1, <1>3, <2>3 DEF InputHistory, CopyBads
<1>10. ClausesLaidOut' /\ OnlyThisStepAssumed' /\ Fresh' /\ Mapped'
  BY <1>1, <1>3, <1>5, <1>6 DEF ClausesLaidOut, OnlyThisStepAssumed, Fresh, Mapped
<1>11. QED
  BY <1>7, <1>8, <1>9, <1>10 DEF IInv

(* THEOREM: the invariant holds of every behaviour of the program. *)
THEOREM InductiveInvariant == Spec => []IInv
<1>1. Init => IInv
  BY InitIInv
<1>2. IInv /\ TypeOK' /\ [Next]_vars => IInv'
  <2> SUFFICES ASSUME IInv, TypeOK', [Next]_vars PROVE IInv'
    OBVIOUS
  <2>1. CASE Next
    BY <2>1, PreparationIInv, EncodeIInv, AnswerIInv, RenumberIInv, LinkIInv,
       GatesIInv, BadsIInv DEF Next
  <2>2. CASE UNCHANGED vars
    <3>1. UNCHANGED <<pc, aig, inits, vars_nums, start_idx, cur_idx, cur2nxt, nVars,
                      inputs, in_latch, out_latch, ands, bads, input_at_time_t,
                      clauses, v_act, i>>
      BY <2>2 DEF vars, graphVars, indexVars, circuitVars
    <3>2. Linked' = Linked /\ Gated' = Gated /\ Guarded' = Guarded /\ Numbered' = Numbered
      BY <3>1 DEF Linked, Gated, Guarded, Numbered, StepOf
    <3>3. QED
      BY <3>1, <3>2 DEF IInv, Fresh, Moved, Indexed, Mapped, ClausesLaidOut,
                        OnlyThisStepAssumed, InputHistory
  <2>3. QED
    BY <2>1, <2>2
<1>3. QED
  BY <1>1, <1>2, TypeCorrect, PTL DEF Spec

(* THEOREM: at every point the clauses handed to the solver are exactly the
   unrolling of the graph in memory. *)
THEOREM LayoutCorrect == Spec => []ClausesLaidOut
<1>1. IInv => ClausesLaidOut
  BY DEF IInv
<1>2. QED
  BY <1>1, InductiveInvariant, PTL

(* THEOREM: the solver is asked about the activation literals of the present
   step and no others, and none is left when it has answered. *)
THEOREM AssumptionsCorrect == Spec => []OnlyThisStepAssumed
<1>1. IInv => OnlyThisStepAssumed
  BY DEF IInv
<1>2. QED
  BY <1>1, InductiveInvariant, PTL

(* THEOREM: the inputs kept for the trace are those of the steps before the
   present one, in order. *)
THEOREM TraceCorrect == Spec => []InputHistory
<1>1. IInv => InputHistory
  BY DEF IInv
<1>2. QED
  BY <1>1, InductiveInvariant, PTL

-----------------------------------------------------------------------------
(* Allocation of solver variables. *)

(* No clause mentions a variable at or above cur_idx. *)
LEMMA ClausesBelow ==
  ASSUME IInv, pc \in InFrame
  PROVE  /\ cur_idx \in Nat /\ nVars = cur_idx + 1
         /\ \A c \in clauses : \A x \in c : LitVar(x) \in 1 .. cur_idx - 1
<1>1. /\ aig \in AigerType /\ LiteralsInRange(aig) /\ i \in Nat
      /\ cur_idx \in Nat /\ nVars = cur_idx + 1
      /\ clauses = Unrolled(aig, Gated, Linked, Guarded)
  BY DEF IInv, TypeOK, Indexed, ClausesLaidOut
<1>2. ASSUME NEW f \in Nat
      PROVE  FirstAct(aig, f) <= Base(aig, f + 1) /\ Base(aig, f) <= FirstAct(aig, f)
  <2>1. /\ FirstAct(aig, f) = Base(aig, f) + aig.maxvar + 1
        /\ Base(aig, f + 1) = FirstAct(aig, f) + Len(aigtocnf(aig).bads)
        /\ Base(aig, f) \in Nat /\ FirstAct(aig, f) \in Nat
    BY <1>1, BlockFacts
  <2>2. aig.maxvar \in Nat /\ Len(aigtocnf(aig).bads) \in Nat
    BY <1>1, OffsetFacts
  <2>3. QED
    BY <2>1, <2>2
<1>3. ASSUME NEW n \in Nat, NEW m \in Nat, NEW k \in Nat,
             Gated = n, Linked = m, Guarded = k,
             FirstAct(aig, n) <= cur_idx, FirstAct(aig, m) <= cur_idx,
             Base(aig, k + 1) <= cur_idx
      PROVE  \A c \in clauses : \A x \in c : LitVar(x) \in 1 .. cur_idx - 1
  BY <1>1, <1>3, UnrolledRange
<1>4. CASE pc \in {"check", "done"}
  <2>1. Gated = i /\ Linked = i /\ Guarded = i /\ cur_idx = Base(aig, i + 1)
    BY <1>4 DEF Gated, Linked, Guarded, Numbered, StepOf, IInv, Indexed, InFrame
  <2>2. Base(aig, i + 1) <= cur_idx
    BY <1>1, <2>1
  <2>3. QED
    BY <1>1, <1>2, <1>3, <2>1, <2>2
<1>5. CASE pc \in {"renumber", "link", "gates", "bads"}
  <2>1. i - 1 \in Nat /\ (i - 1) + 1 = i
    BY <1>1, <1>5 DEF IInv, Mapped
  <2> DEFINE h == i - 1
  <2>2. h \in Nat /\ h + 1 = i
    BY <2>1
  <2>3. Gated \in {h, i} /\ Linked \in {h, i} /\ Guarded = h
    BY <1>5 DEF Gated, Linked, Guarded, StepOf
  <2>4. /\ pc = "renumber" => Gated = h /\ Linked = h /\ cur_idx = Base(aig, h + 1)
        /\ pc # "renumber" => cur_idx = FirstAct(aig, i)
    BY <1>5, <2>2 DEF Gated, Linked, Numbered, StepOf, IInv, Indexed, InFrame
  <2> HIDE DEF h
  <2>5. /\ FirstAct(aig, h) <= Base(aig, i) /\ Base(aig, i) <= FirstAct(aig, i)
        /\ FirstAct(aig, h) \in Nat /\ Base(aig, i) \in Nat /\ FirstAct(aig, i) \in Nat
    BY <1>1, <1>2, <2>2, BlockFacts
  <2>6. Base(aig, h + 1) = Base(aig, i)
    BY <2>2
  <2>7. Base(aig, h + 1) <= cur_idx /\ FirstAct(aig, h) <= cur_idx
    BY <1>1, <2>4, <2>5, <2>6
  <2>8. pc # "renumber" => FirstAct(aig, i) <= cur_idx
    BY <1>1, <2>4
  <2>9. QED
    BY <1>1, <1>3, <2>2, <2>3, <2>4, <2>7, <2>8
<1>6. QED
  BY <1>1, <1>4, <1>5 DEF InFrame

(* THEOREM: every literal handed to the solver, as part of a clause or as
   an assumption, is over a variable the solver has already created, and
   none is over variable 0, which a missing key of cur2nxt would produce. *)
THEOREM AllocationCorrect == Spec => []VarsAllocated
<1>1. IInv => VarsAllocated
  <2> SUFFICES ASSUME IInv PROVE VarsAllocated
    OBVIOUS
  <2>1. CASE pc \in {"read", "translate", "encode"}
    BY <2>1 DEF IInv, Fresh, VarsAllocated
  <2>2. CASE pc \in InFrame
    <3>1. /\ cur_idx \in Nat /\ nVars = cur_idx + 1
          /\ \A c \in clauses : \A x \in c : LitVar(x) \in 1 .. cur_idx - 1
      BY <2>2, ClausesBelow
    <3>2. \A n \in 1 .. cur_idx - 1 : n \in 1 .. nVars - 1
      BY <3>1
    <3>3. v_act \subseteq 1 .. cur_idx - 1
      <4>1. CASE pc = "check"
        <5>1. /\ aig \in AigerType /\ LiteralsInRange(aig) /\ i \in Nat
              /\ v_act = ActLits(aigtocnf(aig).bads, FirstAct(aig, i))
          BY <4>1 DEF IInv, TypeOK, OnlyThisStepAssumed
        <5>2. cur_idx = Base(aig, i + 1)
          BY <4>1 DEF IInv, Indexed, Numbered, StepOf, InFrame
        <5>3. v_act \subseteq FirstAct(aig, i) .. cur_idx - 1
          BY <5>1, <5>2, CopyRange
        <5>4. FirstAct(aig, i) = Base(aig, i) + aig.maxvar + 1
              /\ Base(aig, i) \in Nat /\ Base(aig, i) > 0
              /\ FirstAct(aig, i) \in Nat
          BY <5>1, BlockFacts
        <5>5. aig.maxvar \in Nat
          BY <5>1, OffsetFacts
        <5>6. FirstAct(aig, i) > 0
          BY <5>4, <5>5
        <5>7. QED
          BY <3>1, <5>3, <5>4, <5>6
      <4>2. CASE pc # "check"
        BY <4>2 DEF IInv, OnlyThisStepAssumed
      <4>3. QED
        BY <4>1, <4>2
    <3>4. QED
      BY <3>1, <3>2, <3>3 DEF VarsAllocated
  <2>3. QED
    BY <2>1, <2>2 DEF IInv, TypeOK, PCs, InFrame
<1>2. QED
  BY <1>1, InductiveInvariant, PTL

(* THEOREM: whenever the map cur2nxt changes, the variables it maps to are
   mentioned by no clause the solver holds: a new time step never shares a
   variable with an old one or with an old activation literal. *)
THEOREM FreshVariables == Spec => FreshNumbering
<1> DEFINE Unused ==
      cur2nxt' # cur2nxt =>
        \A c \in clauses : \A x \in c : \A v \in DOMAIN cur2nxt' :
          LitVar(x) # cur2nxt'[v]
<1>1. IInv /\ [Next]_vars => [Unused]_vars
  <2> SUFFICES ASSUME IInv, Next PROVE Unused
    OBVIOUS
  <2>1. CASE Renumber
    <3>1. /\ cur_idx \in Nat
          /\ \A c \in clauses : \A x \in c : LitVar(x) \in 1 .. cur_idx - 1
      BY <2>1, ClausesBelow DEF Renumber, InFrame
    <3>2. start_idx \in Nat /\ vars_nums \in Nat
      BY DEF IInv, TypeOK
    <3>3. \A v \in DOMAIN cur2nxt' : cur2nxt'[v] >= cur_idx /\ cur2nxt'[v] \in Nat
      BY <2>1, <3>1, <3>2 DEF Renumber, NewNumbers
    <3>4. QED
      BY <3>1, <3>3
  <2>2. CASE ~Renumber
    <3>1. cur2nxt' = cur2nxt
      BY <2>2 DEF Next, Read, Translate, Encode, Found, NextStep, CantFind,
                  LinkLatches, CopyGates, CopyBads, indexVars
    <3>2. QED
      BY <3>1
  <2>3. QED
    BY <2>1, <2>2
<1>2. QED
  BY <1>1, InductiveInvariant, PTL DEF Spec, FreshNumbering

-----------------------------------------------------------------------------
(* The meaning of the answer. *)

(* At a check the solver decides whether the graph can be bad at this step. *)
LEMMA SolverDecides ==
  ASSUME SolverCorrect, IInv, pc = "check", Supported(aig)
  PROVE  Solve(clauses, v_act) <=> ReachesBad(aig, i)
<1>1. /\ aig \in AigerType /\ LiteralsInRange(aig) /\ i \in Nat
      /\ clauses \in SUBSET (SUBSET Int) /\ v_act \in SUBSET Nat
  BY DEF IInv, TypeOK
<1>2. clauses = Unrolled(aig, i, i, i)
  BY DEF IInv, ClausesLaidOut, Gated, Linked, Guarded, StepOf, InFrame
<1>3. v_act = ActLits(aigtocnf(aig).bads, FirstAct(aig, i))
  BY DEF IInv, OnlyThisStepAssumed
<1>4. Solve(clauses, v_act) <=> Satisfiable(clauses, v_act)
  BY <1>1 DEF SolverCorrect
<1>5. QED
  BY <1>1, <1>2, <1>3, <1>4, UnrollingExact

(* The steps before the present one have been ruled out, and an answer was
   given for the present one. *)
Answered ==
  /\ result # "none" <=> pc = "done"
  /\ pc \in InFrame /\ Supported(aig) =>
       /\ \A n \in 0 .. i - 1 : ~ReachesBad(aig, n)
       /\ result = "found" => ReachesBad(aig, i)
       /\ result = "not_found" => i >= Kmax /\ ~ReachesBad(aig, i)

LEMMA AnsweredStep ==
  ASSUME SolverCorrect, IInv, Answered, [Next]_vars
  PROVE  Answered'
<1> USE DEF graphVars, indexVars, circuitVars, InFrame
<1>1. CASE Read \/ Translate \/ Encode
  <2>1. i' = i /\ result' = result /\ pc' # "done" /\ pc # "done" /\ i = 0
    BY <1>1 DEF Read, Translate, Encode, IInv, Fresh
  <2>2. 0 .. i' - 1 = {}
    BY <2>1
  <2>3. QED
    BY <2>1, <2>2 DEF Answered
<1>2. CASE Found
  BY <1>2, SolverDecides DEF Found, Answered
<1>3. CASE CantFind
  BY <1>3, SolverDecides DEF CantFind, Answered
<1>4. CASE NextStep
  <2>1. i \in Nat /\ i' = i + 1 /\ aig' = aig /\ pc = "check" /\ pc' = "renumber"
        /\ result' = result /\ result = "none"
    BY <1>4 DEF NextStep, IInv, TypeOK, Answered
  <2>2. Supported(aig) => ~ReachesBad(aig, i)
    BY <1>4, <2>1, SolverDecides DEF NextStep
  <2>3. \A n \in 0 .. i' - 1 : n \in 0 .. i - 1 \/ n = i
    BY <2>1
  <2>4. QED
    BY <2>1, <2>2, <2>3 DEF Answered
<1>5. CASE Renumber \/ LinkLatches \/ CopyGates \/ CopyBads \/ UNCHANGED vars
  <2>1. /\ i' = i /\ result' = result /\ aig' = aig
        /\ pc' = pc \/ (pc # "done" /\ pc' # "done" /\ pc \in InFrame)
    BY <1>5 DEF Renumber, LinkLatches, CopyGates, CopyBads, vars
  <2>2. QED
    BY <2>1 DEF Answered
<1>6. QED
  BY <1>1, <1>2, <1>3, <1>4, <1>5 DEF Next

(* THEOREM: with a correct solver the program's answer is exact for every
   graph in the supported fragment: "found" at step i means that the bad
   literal can be true at step i and at no step before, "not_found" that it
   cannot be true at any step up to the bound. *)
THEOREM AnswerCorrect ==
  ASSUME SolverCorrect
  PROVE  Spec => []AnswerExact
<1>1. Init => Answered
  BY DEF Init, Answered, InFrame
<1>2. IInv /\ Answered /\ [Next]_vars => Answered'
  BY AnsweredStep
<1>3. Answered => AnswerExact
  BY DEF Answered, AnswerExact, InFrame
<1>4. QED
  BY <1>1, <1>2, <1>3, InductiveInvariant, PTL DEF Spec

-----------------------------------------------------------------------------
(* The abstract search. *)

(* After reading without an error the graph in memory is that of the file. *)
Loaded == pc # "read" /\ ~error => aig = file

(* Reachability reads graphs as Bmc does. *)
LEMMA SameMeaning ==
  ASSUME NEW g, NEW n
  PROVE  Promise!ReachesBad(g, n) <=> ReachesBad(g, n)
<1>1. \A v, l : Promise!Value(v, l) = Value(v, l)
  BY DEF Promise!Value, Value, Promise!aiger_sign, aiger_sign,
         Promise!aiger_lit2var, aiger_lit2var
<1>2. \A v : Promise!GatesHold(g, v) <=> GatesHold(g, v)
  BY <1>1 DEF Promise!GatesHold, GatesHold
<1>3. Promise!Valuations(g) = Valuations(g)
  BY <1>2 DEF Promise!Valuations, Valuations
<1>4. Promise!BadLiterals(g) = BadLiterals(g)
  BY DEF Promise!BadLiterals, BadLiterals
<1>5. \A v : Promise!AllBad(g, v) <=> AllBad(g, v)
  BY <1>1, <1>4 DEF Promise!AllBad, AllBad
<1>6. /\ \A v : Promise!StartsAt(g, v) <=> StartsAt(g, v)
      /\ \A v, w : Promise!Steps(g, v, w) <=> Steps(g, v, w)
  BY <1>1 DEF Promise!StartsAt, StartsAt, Promise!Steps, Steps
<1>7. \A run : Promise!IsRun(g, run, n) <=> IsRun(g, run, n)
  BY <1>6 DEF Promise!IsRun, IsRun
<1>8. QED
  BY <1>3, <1>5, <1>7 DEF Promise!ReachesBad, ReachesBad

(* THEOREM: with a correct solver, and a supported file that was read
   without an error, each step of the program is a step of the abstract
   search of Reachability or leaves the file, the depth and the answer as
   they are. *)
THEOREM SearchImplemented ==
  ASSUME SolverCorrect
  PROVE  Spec => ImplementsPromise
<1> USE DEF graphVars, indexVars, circuitVars
<1>1. Init => (Handled => Promise!Init) /\ Answered /\ Loaded
  BY DEF Init, Promise!Init, Answered, Loaded, InFrame, Handled
<1>2. Loaded /\ [Next]_vars => Loaded'
  <2> SUFFICES ASSUME Loaded, [Next]_vars PROVE Loaded'
    OBVIOUS
  <2>1. CASE Read
    BY <2>1 DEF Read, ReadWhole, ReadPart, Loaded
  <2>2. CASE ~Read
    <3>1. /\ aig' = aig /\ file' = file /\ error' = error
          /\ pc = "read" => pc' = "read"
      BY <2>2 DEF Next, Translate, Encode, Found, NextStep, CantFind,
                  Renumber, LinkLatches, CopyGates, CopyBads, vars
    <3>2. QED
      BY <3>1 DEF Loaded
  <2>3. QED
    BY <2>1, <2>2
<1>3. IInv /\ Answered /\ Loaded /\ [Next]_vars
        => (Handled' => [Promise!Next]_(Promise!vars))
  <2> SUFFICES ASSUME IInv, Answered, Loaded, [Next]_vars, Handled'
               PROVE  Promise!Next \/ UNCHANGED <<file, i, result>>
    BY DEF Promise!vars
  <2>1. CASE pc = "check"
    <3>1. file' = file /\ error' = error
      BY <2>1 DEF Next, Read, Translate, Encode, Found, NextStep, CantFind,
                  Renumber, LinkLatches, CopyGates, CopyBads, vars
    <3>2. Supported(file) /\ aig = file
      BY <2>1, <3>1 DEF Loaded, Handled
    <3>3. /\ result = "none"
          /\ Solve(clauses, v_act) <=> Promise!ReachesBad(file, i)
      BY <2>1, <3>2, SolverDecides, SameMeaning DEF Answered, IInv, TypeOK
    <3>4. CASE Found
      BY <3>3, <3>4 DEF Found, Promise!Find, Promise!Next
    <3>5. CASE NextStep
      BY <3>3, <3>5 DEF NextStep, Promise!Deepen, Promise!Next
    <3>6. CASE CantFind
      BY <3>3, <3>6 DEF CantFind, Promise!GiveUp, Promise!Next
    <3>7. CASE UNCHANGED vars
      BY <3>7 DEF vars
    <3>8. QED
      BY <2>1, <3>4, <3>5, <3>6, <3>7
         DEF Next, Read, Translate, Encode, Renumber, LinkLatches, CopyGates, CopyBads
  <2>2. CASE pc # "check"
    BY <2>2 DEF Next, Read, Translate, Encode, Found, NextStep, CantFind, Renumber,
                LinkLatches, CopyGates, CopyBads, vars
  <2>3. QED
    BY <2>1, <2>2
<1>4. IInv /\ Answered /\ [Next]_vars => Answered'
  BY AnsweredStep
<1>5. QED
  BY <1>1, <1>2, <1>3, <1>4, InductiveInvariant, PTL DEF Spec, ImplementsPromise
=============================================================================
