---------------------------- MODULE AigerProofs -----------------------------
(***************************************************************************)
(* Proofs about the AIGER library, for a client that never renumbers a     *)
(* graph, as bmc.cpp is one. First what the calls that build a graph do to *)
(* the structure, what the table of types says of the other tables, and    *)
(* the marks and the stack of the cycle check; nothing there depends on    *)
(* who calls. Then the reader section by section, the calls, the writer    *)
(* and the theorems: whatever the calls and whatever is in the file, the   *)
(* table of types says what the other tables say, the lookups find what    *)
(* they look for, the cycle check is exact, and the reader hands over a    *)
(* graph in order.                                                         *)
(***************************************************************************)
EXTENDS AigerInvariant, TLAPS, WellFoundedInduction, FiniteSetTheorems, SequenceTheorems

-----------------------------------------------------------------------------
(* Numbers, literals and the structure. *)

(* A nonempty set of naturals has a least element. *)
LEMMA LeastNatural ==
  ASSUME NEW S \in SUBSET Nat, S # {}
  PROVE  \E n \in S : \A k \in S : n <= k
<1> DEFINE R == OpToRel(<, Nat)
<1>1. \E n \in S : \A k \in S : ~(<<k, n>> \in R)
  <2>1. IsWellFoundedOn(R, Nat)
    BY NatLessThanWellFounded
  <2> QED
    BY <2>1, WFMin
<1>2. \A k, n \in Nat : k < n => <<k, n>> \in R
  BY DEF OpToRel
<1> HIDE DEF R
<1>3. PICK n \in S : \A k \in S : ~(<<k, n>> \in R)
  BY <1>1
<1>4. ASSUME NEW k \in S PROVE n <= k
  <2>1. ~(k < n)
    BY <1>2, <1>3
  <2> QED
    BY <2>1
<1> QED
  BY <1>4

(* A bounded one has a greatest. *)
LEMMA GreatestNatural ==
  ASSUME NEW S \in SUBSET Nat, S # {}, NEW b \in Nat, \A k \in S : k <= b
  PROVE  \E n \in S : \A k \in S : k <= n
<1> DEFINE B == {u \in Nat : \A k \in S : k <= u}
<1>1. PICK u \in B : \A w \in B : u <= w
  BY LeastNatural, B \in SUBSET Nat, B # {}
<1>2. u \in S
  <2>1. SUFFICES ASSUME u \notin S PROVE FALSE
    OBVIOUS
  <2>2. \A k \in S : k <= u - 1
    BY <2>1
  <2>3. PICK s \in S : TRUE
    OBVIOUS
  <2>4. u - 1 \in Nat
    <3>1. s <= u - 1 /\ s \in Nat /\ u \in Nat
      BY <2>2
    <3> QED
      BY <3>1
  <2>5. u - 1 \in B
    BY <2>2, <2>4
  <2> QED
    BY <2>5, <1>1
<1> QED
  BY <1>1, <1>2

(* Max of a bounded set of naturals is its greatest element. *)
LEMMA MaxRight ==
  ASSUME NEW S \in SUBSET Nat, S # {}, NEW b \in Nat, \A k \in S : k <= b
  PROVE  Max(S) \in S /\ \A k \in S : k <= Max(S)
<1>1. \E n \in S : \A k \in S : n >= k
  BY GreatestNatural
<1>2. Max(S) \in S /\ \A k \in S : Max(S) >= k
  BY <1>1 DEF Max
<1> QED
  BY <1>2

(* Min of a nonempty set of naturals is its least element. *)
LEMMA MinRight ==
  ASSUME NEW S \in SUBSET Nat, S # {}
  PROVE  Min(S) \in S /\ \A k \in S : Min(S) <= k
BY LeastNatural DEF Min

(* The numbers in a list are bounded. *)
LEMMA SeqBound ==
  ASSUME NEW s \in Seq(Nat)
  PROVE  \E b \in Nat : \A i \in DOMAIN s : s[i] <= b
<1> DEFINE Bounded(n) == \E b \in Nat : \A i \in 1 .. n : s[i] <= b
           Bad == {n \in 0 .. Len(s) : ~Bounded(n)}
<1>1. Len(s) \in Nat /\ DOMAIN s = 1 .. Len(s) /\ \A i \in 1 .. Len(s) : s[i] \in Nat
  OBVIOUS
<1>2. Bounded(0)
  BY \A i \in 1 .. 0 : s[i] <= 0
<1>3. ASSUME NEW n \in 1 .. Len(s), Bounded(n - 1) PROVE Bounded(n)
  <2>1. PICK b \in Nat : \A i \in 1 .. n - 1 : s[i] <= b
    BY <1>3
  <2>2. s[n] \in Nat
    BY <1>1
  <2>3. PICK c \in Nat : b <= c /\ s[n] <= c
    <3>1. CASE b <= s[n]
      BY <3>1, <2>2
    <3>2. CASE ~(b <= s[n])
      BY <3>2, <2>2
    <3> QED
      BY <3>1, <3>2
  <2>4. ASSUME NEW i \in 1 .. n PROVE s[i] <= c
    <3>1. s[i] \in Nat
      BY <1>1
    <3>2. i = n \/ i \in 1 .. n - 1
      OBVIOUS
    <3> QED
      BY <3>1, <3>2, <2>1, <2>3
  <2> QED
    BY <2>4
<1> HIDE DEF Bounded
<1>4. Bad = {}
  <2>1. SUFFICES ASSUME Bad # {} PROVE FALSE
    OBVIOUS
  <2>2. PICK n \in Bad : \A k \in Bad : n <= k
    BY <2>1, LeastNatural, Bad \in SUBSET Nat
  <2>3. n # 0 /\ n \in 0 .. Len(s)
    BY <1>2
  <2>4. Bounded(n - 1)
    BY <2>2, <2>3, <1>1
  <2> QED
    BY <2>2, <2>3, <2>4, <1>3
<1>5. Bounded(Len(s))
  BY <1>4, <1>1
<1> QED
  BY <1>1, <1>5 DEF Bounded

(* aiger_lit2var of a literal is a number no larger than the literal. *)
LEMMA VarNat ==
  ASSUME NEW x \in Nat
  PROVE  Var(x) \in Nat /\ Var(x) <= x
BY DEF Var, AG!aiger_lit2var

(* The fields of the structure. *)
LEMMA LibraryFields ==
  ASSUME NEW l, IsLibrary(l)
  PROVE  /\ l.maxvar \in Nat /\ l.types \in [0 .. l.maxvar -> TypeEntry]
         /\ l.inputs \in Seq(SymbolEntry) /\ l.latches \in Seq(LatchEntry)
         /\ l.outputs \in Seq(SymbolEntry) /\ l.bad \in Seq(SymbolEntry)
         /\ l.constraints \in Seq(SymbolEntry) /\ l.justice \in Seq(JusticeEntry)
         /\ l.fairness \in Seq(SymbolEntry) /\ l.ands \in Seq(AG!And)
         /\ l.comments \in Seq(Texts) /\ l.num_comments \in Nat /\ l.error \in Errors
BY DEF IsLibrary, Library

-----------------------------------------------------------------------------
(* Adding to a graph. *)

(* m is l with a table of types for more variables. *)
Wider(l, m) ==
  /\ m.maxvar \in Nat /\ l.maxvar <= m.maxvar
  /\ m.types \in [0 .. m.maxvar -> TypeEntry]
  /\ \A v \in 0 .. l.maxvar : m.types[v] = l.types[v]
  /\ \A v \in l.maxvar + 1 .. m.maxvar : m.types[v] = NoType
  /\ m = [l EXCEPT !.maxvar = m.maxvar, !.types = m.types]

(* aiger_import_literal makes room for the variables of the literals. *)
LEMMA ImportWidens ==
  ASSUME NEW l, IsLibrary(l), NEW lits \in SUBSET Nat,
         NEW b \in Nat, \A x \in lits : x <= b
  PROVE  /\ Wider(l, aiger_import_literal(l, lits))
         /\ \A x \in lits : Var(x) <= aiger_import_literal(l, lits).maxvar
<1> DEFINE S == {l.maxvar} \cup {Var(x) : x \in lits}
           m == Max(S)
           r == aiger_import_literal(l, lits)
<1>1. l.maxvar \in Nat /\ l.types \in [0 .. l.maxvar -> TypeEntry]
  BY DEF IsLibrary, Library
<1>2. m \in S /\ \A k \in S : k <= m
  <2>1. S \in SUBSET Nat /\ S # {}
    BY <1>1, VarNat
  <2>2. PICK c \in Nat : l.maxvar <= c /\ b <= c
    BY <1>1
  <2>3. \A k \in S : k <= c
    BY <2>2, VarNat, <1>1
  <2> QED
    BY <2>1, <2>3, MaxRight
<1>3. m \in Nat /\ l.maxvar <= m /\ \A x \in lits : Var(x) <= m
  BY <1>1, <1>2, VarNat
<1> HIDE DEF m
<1>4. r = [l EXCEPT !.maxvar = m, !.types = Fit(@, m)]
  BY DEF aiger_import_literal, m
<1>5. r.maxvar = m /\ r.types = Fit(l.types, m)
  BY <1>4 DEF IsLibrary, Library
<1>6. NoType \in TypeEntry
  BY DEF NoType, TypeEntry
<1>7. /\ r.types \in [0 .. m -> TypeEntry]
      /\ \A v \in 0 .. l.maxvar : r.types[v] = l.types[v]
      /\ \A v \in l.maxvar + 1 .. m : r.types[v] = NoType
  <2>1. DOMAIN l.types = 0 .. l.maxvar
    BY <1>1
  <2>2. DOMAIN l.types \cup 0 .. m = 0 .. m
    BY <2>1, <1>3, <1>1
  <2>3. r.types = [v \in 0 .. m |-> IF v \in 0 .. l.maxvar THEN l.types[v] ELSE NoType]
    BY <1>5, <2>1, <2>2 DEF Fit
  <2> QED
    BY <2>3, <1>1, <1>3, <1>6
<1>8. r = [l EXCEPT !.maxvar = r.maxvar, !.types = r.types]
  BY <1>4, <1>5
<1> QED
  BY <1>3, <1>5, <1>7, <1>8 DEF Wider

(* A wider structure has the tables of the old one. *)
LEMMA WiderFields ==
  ASSUME NEW l, IsLibrary(l), NEW m, Wider(l, m)
  PROVE  /\ IsLibrary(m)
         /\ m.inputs = l.inputs /\ m.latches = l.latches /\ m.outputs = l.outputs
         /\ m.bad = l.bad /\ m.constraints = l.constraints /\ m.justice = l.justice
         /\ m.fairness = l.fairness /\ m.ands = l.ands /\ m.comments = l.comments
         /\ m.num_comments = l.num_comments /\ m.error = l.error
BY DEF IsLibrary, Library, Wider

(* r is l where the variable of lit, undefined before, has got a kind and a
   position. *)
TypesGrow(l, r, lit, kind, k) ==
  /\ l.maxvar <= r.maxvar /\ Var(lit) <= r.maxvar
  /\ \A v \in 0 .. l.maxvar : v # Var(lit) => r.types[v] = l.types[v]
  /\ \A v \in l.maxvar + 1 .. r.maxvar : v # Var(lit) => r.types[v] = NoType
  /\ r.types[Var(lit)].kind = kind /\ r.types[Var(lit)].idx = k
  /\ Var(lit) <= l.maxvar =>
       /\ l.types[Var(lit)].kind = "none"
       /\ r.types[Var(lit)].mark = l.types[Var(lit)].mark
       /\ r.types[Var(lit)].onstack = l.types[Var(lit)].onstack
  /\ Var(lit) > l.maxvar => ~r.types[Var(lit)].mark /\ ~r.types[Var(lit)].onstack

(* A literal that the assertions of aiger_add_input, aiger_add_latch and
   aiger_add_and let through gets its entry in the table of types; every
   other entry stays. *)
LEMMA DefineGrows ==
  ASSUME NEW l, IsLibrary(l), NEW m, Wider(l, m),
         NEW lit \in Nat, Undefined(l, lit), Var(lit) <= m.maxvar,
         NEW kind \in {"input", "latch", "and"}, NEW k \in Nat
  PROVE  /\ TypesGrow(l, Define(m, lit, kind, k), lit, kind, k)
         /\ IsLibrary(Define(m, lit, kind, k))
         /\ Define(m, lit, kind, k).maxvar = m.maxvar
         /\ Define(m, lit, kind, k) = [m EXCEPT !.types = Define(m, lit, kind, k).types]
<1> DEFINE v == Var(lit)
           r == Define(m, lit, kind, k)
<1>1. IsLibrary(m) /\ v \in 0 .. m.maxvar /\ l.maxvar \in Nat /\ v \in Nat
  BY WiderFields, VarNat, LibraryFields
<1>2. m.types \in [0 .. m.maxvar -> TypeEntry] /\ m.types[v] \in TypeEntry
  BY <1>1 DEF IsLibrary, Library
<1>3. DOMAIN l.types = 0 .. l.maxvar
  BY DEF IsLibrary, Library
<1> DEFINE e == [m.types[v] EXCEPT !.kind = kind, !.idx = k]
<1>4. e \in TypeEntry /\ e.kind = kind /\ e.idx = k
      /\ e.mark = m.types[v].mark /\ e.onstack = m.types[v].onstack
  BY <1>2 DEF TypeEntry
<1>5. r = [m EXCEPT !.types = [m.types EXCEPT ![v] = e]]
  BY <1>1, <1>2 DEF Define, IsLibrary, Library
<1> HIDE DEF e
<1>6. /\ r.types = [m.types EXCEPT ![v] = e] /\ r.maxvar = m.maxvar
      /\ r = [m EXCEPT !.types = r.types]
  BY <1>1, <1>5 DEF IsLibrary, Library
<1>7. r.types \in [0 .. m.maxvar -> TypeEntry] /\ r.types[v] = e
      /\ \A w \in 0 .. m.maxvar : w # v => r.types[w] = m.types[w]
  BY <1>2, <1>4, <1>6, <1>1
<1>8. IsLibrary(r)
  BY <1>1, <1>6, <1>7 DEF IsLibrary, Library
<1> HIDE DEF r
<1>9. v <= l.maxvar => l.types[v].kind = "none" /\ m.types[v] = l.types[v]
  BY <1>1, <1>3 DEF Undefined, Wider
<1>10. v > l.maxvar => m.types[v] = NoType
  BY <1>1 DEF Wider
<1>11. \A w \in 0 .. l.maxvar : w # v => r.types[w] = l.types[w]
  BY <1>1, <1>7 DEF Wider
<1>12. \A w \in l.maxvar + 1 .. r.maxvar : w # v => r.types[w] = NoType
  BY <1>1, <1>7, <1>6 DEF Wider
<1>13. TypesGrow(l, r, lit, kind, k)
  BY <1>1, <1>4, <1>6, <1>7, <1>9, <1>10, <1>11, <1>12 DEF TypesGrow, NoType, Wider
<1> QED
  BY <1>6, <1>8, <1>13 DEF r

(* What has been said of a graph stays true when more is added: the tables
   are longer, and what had a kind keeps it. *)
Extends(l, r) ==
  /\ l.maxvar <= r.maxvar
  /\ \A v \in 0 .. l.maxvar :
       /\ r.types[v].mark = l.types[v].mark /\ r.types[v].onstack = l.types[v].onstack
       /\ l.types[v].kind # "none" => r.types[v] = l.types[v]
  /\ \A v \in l.maxvar + 1 .. r.maxvar : ~r.types[v].mark /\ ~r.types[v].onstack
  /\ \A k \in DOMAIN l.ands : k \in DOMAIN r.ands /\ r.ands[k] = l.ands[k]

(* A structure that only grew has the marks of the old one, which
   aiger_check_for_cycles left behind, and they still say what they said. *)
LEMMA ExtendsMarked ==
  ASSUME NEW l, IsLibrary(l), Built(l), NEW r, IsLibrary(r), Extends(l, r),
         Marked(l)
  PROVE  Marked(r) /\ (Quiet(l) => Quiet(r))
<1>1. l.maxvar \in Nat /\ r.maxvar \in Nat /\ l.maxvar <= r.maxvar
  BY DEF IsLibrary, Library, Extends
<1>2. \A v \in 0 .. r.maxvar : r.types[v].mark \/ r.types[v].onstack
        => v \in 0 .. l.maxvar /\ l.types[v].kind = "and" /\ r.types[v] = l.types[v]
  <2>1. SUFFICES ASSUME NEW v \in 0 .. r.maxvar, r.types[v].mark \/ r.types[v].onstack
        PROVE v \in 0 .. l.maxvar /\ l.types[v].kind = "and" /\ r.types[v] = l.types[v]
    OBVIOUS
  <2>2. v \in 0 .. l.maxvar
    BY <1>1, <2>1 DEF Extends
  <2>3. l.types[v].kind = "and"
    BY <2>1, <2>2 DEF Extends, Marked, MarksOnGates
  <2> QED
    BY <2>2, <2>3 DEF Extends
<1>3. Done(r) = Done(l)
  <2>1. ASSUME NEW v \in Done(r) PROVE v \in Done(l)
    BY <1>2 DEF Done
  <2>2. ASSUME NEW v \in Done(l) PROVE v \in Done(r)
    BY <1>1, <2>2 DEF Done, Extends
  <2> QED
    BY <2>1, <2>2
<1>4. ASSUME NEW v \in Done(l)
      PROVE /\ r.types[v] = l.types[v] /\ Kids(r, v) = Kids(l, v)
            /\ Kids(l, v) \subseteq 0 .. l.maxvar
  <2>1. v \in 0 .. l.maxvar /\ l.types[v].kind = "and" /\ r.types[v] = l.types[v]
    BY <1>1 DEF Done, Extends
  <2>2. l.types[v].idx \in DOMAIN l.ands
    BY <2>1 DEF Built, KindsRight
  <2>3. Read(r, v) = Read(l, v)
    BY <2>1, <2>2 DEF Read, Extends
  <2>4. /\ Var(Read(l, v).rhs0) \in Nat /\ Var(Read(l, v).rhs0) <= l.maxvar
        /\ Var(Read(l, v).rhs1) \in Nat /\ Var(Read(l, v).rhs1) <= l.maxvar
    <3>1. Read(l, v) \in AG!And
      BY <2>2, LibraryFields DEF Read
    <3> QED
      BY <3>1, <2>2, VarNat DEF AG!And, Built, LitsWithin, Within, Read
  <2> QED
    BY <2>1, <2>3, <2>4, <1>1 DEF Kids
<1>5. MarksOnGates(r)
  BY <1>2 DEF MarksOnGates, Marked
<1>6. DoneClosed(r)
  <2>1. SUFFICES ASSUME NEW v \in Done(l), NEW c \in Kids(l, v)
        PROVE r.types[c].kind # "none" /\ (r.types[c].kind = "and" => c \in Done(l))
    BY <1>3, <1>4 DEF DoneClosed
  <2>2. c \in 0 .. l.maxvar /\ l.types[c].kind # "none"
    BY <1>4 DEF Marked, DoneClosed
  <2> QED
    BY <2>2 DEF Extends, Marked, DoneClosed
<1>7. DoneRanked(r)
  BY <1>3, <1>4 DEF DoneRanked, Marked
<1> QED
  BY <1>1, <1>2, <1>5, <1>6, <1>7 DEF Marked, Quiet

(* What an entry defines, it still defines when another variable gets a
   kind. *)
LEMMA DefinesKept ==
  ASSUME NEW l, IsLibrary(l), NEW r, IsLibrary(r), NEW lit, NEW kd, NEW n,
         TypesGrow(l, r, lit, kd, n),
         NEW x \in Nat, NEW kind \in {"input", "latch", "and"}, NEW k, Defines(l, x, kind, k)
  PROVE  Defines(r, x, kind, k) /\ Var(x) # Var(lit)
<1>1. Var(x) \in 0 .. l.maxvar /\ Var(x) \in 0 .. r.maxvar
  <2>1. l.maxvar \in Nat /\ r.maxvar \in Nat /\ Var(x) \in Nat
    BY VarNat, LibraryFields
  <2> QED
    BY <2>1 DEF Defines, Within, TypesGrow
<1>2. Var(x) # Var(lit)
  BY <1>1 DEF Defines, Within, TypesGrow
<1> QED
  BY <1>1, <1>2 DEF Defines, Within, TypesGrow

(* A table with one more kind extends the old one. *)
LEMMA GrowsExtends ==
  ASSUME NEW l, IsLibrary(l), NEW r, IsLibrary(r), NEW lit \in Nat, NEW kd, NEW n,
         TypesGrow(l, r, lit, kd, n),
         \A k \in DOMAIN l.ands : k \in DOMAIN r.ands /\ r.ands[k] = l.ands[k]
  PROVE  Extends(l, r)
<1>1. l.maxvar \in Nat /\ r.maxvar \in Nat /\ Var(lit) \in Nat
  BY LibraryFields, VarNat
<1>2. ASSUME NEW v \in 0 .. l.maxvar
      PROVE /\ r.types[v].mark = l.types[v].mark /\ r.types[v].onstack = l.types[v].onstack
            /\ l.types[v].kind # "none" => r.types[v] = l.types[v]
  BY <1>1 DEF TypesGrow
<1>3. ASSUME NEW v \in l.maxvar + 1 .. r.maxvar
      PROVE ~r.types[v].mark /\ ~r.types[v].onstack
  BY <1>1 DEF TypesGrow, NoType
<1> QED
  BY <1>1, <1>2, <1>3 DEF Extends, TypesGrow

(* A literal that was in range stays in range: maxvar never falls. *)
LEMMA WithinKept ==
  ASSUME NEW l, IsLibrary(l), NEW r, IsLibrary(r), l.maxvar <= r.maxvar,
         NEW x \in Nat, Within(l, x)
  PROVE  Within(r, x)
<1>1. l.maxvar \in Nat /\ r.maxvar \in Nat /\ Var(x) \in Nat
  BY VarNat, LibraryFields
<1> QED
  BY <1>1 DEF Within

(* The literals of the tables, one field at a time. *)
LEMMA EntriesTyped ==
  ASSUME NEW l, IsLibrary(l)
  PROVE  /\ \A k \in DOMAIN l.inputs : l.inputs[k].lit \in Nat
         /\ \A k \in DOMAIN l.latches : l.latches[k].lit \in Nat /\ l.latches[k].next \in Nat
         /\ \A k \in DOMAIN l.outputs : l.outputs[k].lit \in Nat
         /\ \A k \in DOMAIN l.bad : l.bad[k].lit \in Nat
         /\ \A k \in DOMAIN l.constraints : l.constraints[k].lit \in Nat
         /\ \A k \in DOMAIN l.fairness : l.fairness[k].lit \in Nat
         /\ \A k \in DOMAIN l.justice : l.justice[k].lits \in Seq(Nat)
         /\ \A k \in DOMAIN l.ands : /\ l.ands[k].lhs \in Nat /\ l.ands[k].rhs0 \in Nat
                                     /\ l.ands[k].rhs1 \in Nat
<1>1. ASSUME NEW s \in Seq(SymbolEntry), NEW k \in DOMAIN s PROVE s[k].lit \in Nat
  <2>1. s[k] \in SymbolEntry
    OBVIOUS
  <2> QED
    BY <2>1 DEF SymbolEntry
<1>2. ASSUME NEW k \in DOMAIN l.latches
      PROVE l.latches[k].lit \in Nat /\ l.latches[k].next \in Nat
  <2>1. l.latches[k] \in LatchEntry
    BY LibraryFields
  <2> QED
    BY <2>1 DEF LatchEntry
<1>3. ASSUME NEW k \in DOMAIN l.justice PROVE l.justice[k].lits \in Seq(Nat)
  <2>1. l.justice[k] \in JusticeEntry
    BY LibraryFields
  <2> QED
    BY <2>1 DEF JusticeEntry
<1>4. ASSUME NEW k \in DOMAIN l.ands
      PROVE l.ands[k].lhs \in Nat /\ l.ands[k].rhs0 \in Nat /\ l.ands[k].rhs1 \in Nat
  <2>1. l.ands[k] \in AG!And
    BY LibraryFields
  <2> QED
    BY <2>1 DEF AG!And
<1> QED
  BY <1>1, <1>2, <1>3, <1>4, LibraryFields

(* So do all literals of a structure. *)
LEMMA LitsWithinKept ==
  ASSUME NEW l, IsLibrary(l), LitsWithin(l), NEW r, IsLibrary(r), l.maxvar <= r.maxvar
  PROVE  /\ \A k \in DOMAIN l.latches : Within(r, l.latches[k].next)
         /\ \A k \in DOMAIN l.outputs : Within(r, l.outputs[k].lit)
         /\ \A k \in DOMAIN l.bad : Within(r, l.bad[k].lit)
         /\ \A k \in DOMAIN l.constraints : Within(r, l.constraints[k].lit)
         /\ \A k \in DOMAIN l.fairness : Within(r, l.fairness[k].lit)
         /\ \A k \in DOMAIN l.justice :
              \A j \in DOMAIN l.justice[k].lits : Within(r, l.justice[k].lits[j])
         /\ \A k \in DOMAIN l.ands : Within(r, l.ands[k].rhs0) /\ Within(r, l.ands[k].rhs1)
<1>1. \A x \in Nat : Within(l, x) => Within(r, x)
  BY WithinKept
<1>2. \A k \in DOMAIN l.justice : \A j \in DOMAIN l.justice[k].lits : l.justice[k].lits[j] \in Nat
  BY EntriesTyped
<1> QED
  BY <1>1, <1>2, EntriesTyped DEF LitsWithin

(* What a new entry does to the table of kinds. *)
LEMMA KindsKept ==
  ASSUME NEW l, IsLibrary(l), KindsRight(l), NEW r, IsLibrary(r), NEW lit \in Nat,
         NEW kd, NEW n, TypesGrow(l, r, lit, kd, n), Var(lit) # 0,
         \A k \in DOMAIN l.inputs : k \in DOMAIN r.inputs /\ r.inputs[k].lit = l.inputs[k].lit,
         \A k \in DOMAIN l.latches : k \in DOMAIN r.latches /\ r.latches[k].lit = l.latches[k].lit,
         \A k \in DOMAIN l.ands : k \in DOMAIN r.ands /\ r.ands[k].lhs = l.ands[k].lhs,
         kd = "input" => n \in DOMAIN r.inputs /\ Var(r.inputs[n].lit) = Var(lit),
         kd = "latch" => n \in DOMAIN r.latches /\ Var(r.latches[n].lit) = Var(lit),
         kd = "and" => n \in DOMAIN r.ands /\ Var(r.ands[n].lhs) = Var(lit)
  PROVE  KindsRight(r)
<1>1. l.maxvar \in Nat /\ r.maxvar \in Nat /\ Var(lit) \in Nat /\ Var(lit) \in 0 .. r.maxvar
  BY LibraryFields, VarNat DEF TypesGrow
<1>2. r.types[0].kind = "none"
  BY <1>1 DEF KindsRight, TypesGrow
<1>3. ASSUME NEW v \in 0 .. r.maxvar
      PROVE LET k == r.types[v].idx
            IN /\ r.types[v].kind = "input" => k \in DOMAIN r.inputs /\ Var(r.inputs[k].lit) = v
               /\ r.types[v].kind = "latch" => k \in DOMAIN r.latches /\ Var(r.latches[k].lit) = v
               /\ r.types[v].kind = "and" => k \in DOMAIN r.ands /\ Var(r.ands[k].lhs) = v
  <2>1. CASE v = Var(lit)
    BY <2>1 DEF TypesGrow
  <2>2. CASE v # Var(lit) /\ v \in 0 .. l.maxvar
    BY <2>2 DEF TypesGrow, KindsRight
  <2>3. CASE v # Var(lit) /\ v \in l.maxvar + 1 .. r.maxvar
    BY <2>3 DEF TypesGrow, NoType
  <2> QED
    BY <1>1, <2>1, <2>2, <2>3
<1> QED
  BY <1>2, <1>3 DEF KindsRight

(* A literal of an input, a latch or a gate is neither constant. *)
LEMMA LitVar ==
  ASSUME NEW lit \in Nat, lit > 1
  PROVE  Var(lit) \in Nat /\ Var(lit) # 0
BY DEF Var, AG!aiger_lit2var

-----------------------------------------------------------------------------
(* aiger_add_input. *)
LEMMA AddInputRight ==
  ASSUME NEW l, IsLibrary(l), Built(l), NEW lit \in Nat, Undefined(l, lit),
         NEW name \in Texts
  PROVE  LET r == aiger_add_input(l, lit, name)
         IN /\ IsLibrary(r) /\ Built(r) /\ Extends(l, r) /\ r.error = l.error
            /\ r.inputs = Append(l.inputs, [lit |-> lit, name |-> name])
            /\ r.latches = l.latches /\ r.ands = l.ands /\ r.justice = l.justice
<1> DEFINE m0 == aiger_import_literal(l, {lit})
           n == Len(l.inputs) + 1
           m == Define(m0, lit, "input", n)
           e == [lit |-> lit, name |-> name]
           r == aiger_add_input(l, lit, name)
<1>1. Wider(l, m0) /\ Var(lit) <= m0.maxvar
  BY ImportWidens, \A x \in {lit} : x <= lit
<1> HIDE DEF m0
<1>2. n \in Nat
  BY LibraryFields
<1>3. /\ TypesGrow(l, m, lit, "input", n) /\ IsLibrary(m)
      /\ m = [m0 EXCEPT !.types = m.types]
  BY <1>1, <1>2, DefineGrows
<1>4. r = [m EXCEPT !.inputs = Append(@, e)]
  BY DEF aiger_add_input, m0
<1> HIDE DEF m, r
<1>5. /\ m.inputs = l.inputs /\ m.latches = l.latches /\ m.outputs = l.outputs
      /\ m.bad = l.bad /\ m.constraints = l.constraints /\ m.justice = l.justice
      /\ m.fairness = l.fairness /\ m.ands = l.ands /\ m.error = l.error
  <2>1. IsLibrary(m0)
    BY <1>1, WiderFields
  <2>2. /\ m.inputs = m0.inputs /\ m.latches = m0.latches /\ m.outputs = m0.outputs
        /\ m.bad = m0.bad /\ m.constraints = m0.constraints /\ m.justice = m0.justice
        /\ m.fairness = m0.fairness /\ m.ands = m0.ands /\ m.error = m0.error
    BY <1>3, <2>1 DEF IsLibrary, Library
  <2> QED
    BY <1>1, <2>2, WiderFields
<1>6. e \in SymbolEntry
  BY DEF SymbolEntry
<1>7. /\ r.inputs = Append(l.inputs, e) /\ r.latches = l.latches /\ r.outputs = l.outputs
      /\ r.bad = l.bad /\ r.constraints = l.constraints /\ r.justice = l.justice
      /\ r.fairness = l.fairness /\ r.ands = l.ands /\ r.error = l.error
      /\ r.types = m.types /\ r.maxvar = m.maxvar
  BY <1>3, <1>4, <1>5 DEF IsLibrary, Library
<1>8. IsLibrary(r)
  <2>1. Append(m.inputs, e) \in Seq(SymbolEntry)
    BY <1>3, <1>6, LibraryFields
  <2> QED
    BY <1>3, <1>4, <2>1 DEF IsLibrary, Library
<1>9. TypesGrow(l, r, lit, "input", n)
  BY <1>3, <1>7 DEF TypesGrow
<1>10. /\ \A k \in DOMAIN l.inputs : k \in DOMAIN r.inputs /\ r.inputs[k] = l.inputs[k]
       /\ n \in DOMAIN r.inputs /\ r.inputs[n].lit = lit
       /\ \A k \in DOMAIN r.inputs : k = n \/ k \in DOMAIN l.inputs
  BY <1>7, <1>6, LibraryFields
<1>11. Extends(l, r)
  BY <1>7, <1>8, <1>9, GrowsExtends
<1>12. lit > 1 /\ AG!aiger_sign(lit) = 0 /\ Var(lit) # 0
  BY LitVar DEF Undefined
<1>13. InputsDefined(r)
  <2>1. SUFFICES ASSUME NEW k \in DOMAIN r.inputs
        PROVE Defines(r, r.inputs[k].lit, "input", k)
    BY DEF InputsDefined
  <2>2. CASE k = n
    BY <2>2, <1>9, <1>10, <1>12 DEF Defines, Within, TypesGrow
  <2>3. CASE k \in DOMAIN l.inputs
    BY <2>3, <1>8, <1>9, <1>10, DefinesKept, EntriesTyped DEF Built, InputsDefined
  <2> QED
    BY <2>2, <2>3, <1>10
<1>14. LatchesDefined(r)
  BY <1>7, <1>8, <1>9, DefinesKept, EntriesTyped DEF Built, LatchesDefined
<1>15. GatesDefined(r)
  BY <1>7, <1>8, <1>9, DefinesKept, EntriesTyped DEF Built, GatesDefined
<1>16. KindsRight(r)
  BY <1>7, <1>8, <1>9, <1>10, <1>12, KindsKept DEF Built
<1>17. LitsWithin(r)
  <2>1. l.maxvar <= r.maxvar /\ LitsWithin(l)
    BY <1>11 DEF Extends, Built
  <2> QED
    BY <1>7, <1>8, <2>1, LitsWithinKept DEF LitsWithin
<1> QED
  BY <1>7, <1>8, <1>11, <1>13, <1>14, <1>15, <1>16, <1>17 DEF Built, r

(* aiger_add_latch. *)
LEMMA AddLatchRight ==
  ASSUME NEW l, IsLibrary(l), Built(l), NEW lit \in Nat, Undefined(l, lit),
         NEW next \in Nat, NEW name \in Texts
  PROVE  LET r == aiger_add_latch(l, lit, next, name)
         IN /\ IsLibrary(r) /\ Built(r) /\ Extends(l, r) /\ r.error = l.error
            /\ r.latches = Append(l.latches, [lit |-> lit, next |-> next, reset |-> 0, name |-> name])
            /\ r.inputs = l.inputs /\ r.ands = l.ands /\ r.justice = l.justice
<1> DEFINE m0 == aiger_import_literal(l, {lit, next})
           n == Len(l.latches) + 1
           m == Define(m0, lit, "latch", n)
           e == [lit |-> lit, next |-> next, reset |-> 0, name |-> name]
           r == aiger_add_latch(l, lit, next, name)
<1>1. Wider(l, m0) /\ Var(lit) <= m0.maxvar /\ Var(next) <= m0.maxvar
  <2>1. \A x \in {lit, next} : x <= lit + next
    OBVIOUS
  <2> QED
    BY <2>1, ImportWidens
<1> HIDE DEF m0
<1>2. n \in Nat
  BY LibraryFields
<1>3. /\ TypesGrow(l, m, lit, "latch", n) /\ IsLibrary(m)
      /\ m = [m0 EXCEPT !.types = m.types]
  BY <1>1, <1>2, DefineGrows
<1>4. r = [m EXCEPT !.latches = Append(@, e)]
  BY DEF aiger_add_latch, m0
<1> HIDE DEF m, r
<1>5. /\ m.inputs = l.inputs /\ m.latches = l.latches /\ m.outputs = l.outputs
      /\ m.bad = l.bad /\ m.constraints = l.constraints /\ m.justice = l.justice
      /\ m.fairness = l.fairness /\ m.ands = l.ands /\ m.error = l.error
  <2>1. IsLibrary(m0)
    BY <1>1, WiderFields
  <2>2. /\ m.inputs = m0.inputs /\ m.latches = m0.latches /\ m.outputs = m0.outputs
        /\ m.bad = m0.bad /\ m.constraints = m0.constraints /\ m.justice = m0.justice
        /\ m.fairness = m0.fairness /\ m.ands = m0.ands /\ m.error = m0.error
    BY <1>3, <2>1 DEF IsLibrary, Library
  <2> QED
    BY <1>1, <2>2, WiderFields
<1>6. e \in LatchEntry
  BY DEF LatchEntry
<1>7. /\ r.latches = Append(l.latches, e) /\ r.inputs = l.inputs /\ r.outputs = l.outputs
      /\ r.bad = l.bad /\ r.constraints = l.constraints /\ r.justice = l.justice
      /\ r.fairness = l.fairness /\ r.ands = l.ands /\ r.error = l.error
      /\ r.types = m.types /\ r.maxvar = m.maxvar
  BY <1>3, <1>4, <1>5 DEF IsLibrary, Library
<1>8. IsLibrary(r)
  <2>1. Append(m.latches, e) \in Seq(LatchEntry)
    BY <1>3, <1>6, LibraryFields
  <2> QED
    BY <1>3, <1>4, <2>1 DEF IsLibrary, Library
<1>9. TypesGrow(l, r, lit, "latch", n)
  BY <1>3, <1>7 DEF TypesGrow
<1>10. /\ \A k \in DOMAIN l.latches : k \in DOMAIN r.latches /\ r.latches[k] = l.latches[k]
       /\ n \in DOMAIN r.latches /\ r.latches[n].lit = lit /\ r.latches[n].next = next
       /\ \A k \in DOMAIN r.latches : k = n \/ k \in DOMAIN l.latches
  BY <1>7, <1>6, LibraryFields
<1>11. Extends(l, r)
  BY <1>7, <1>8, <1>9, GrowsExtends
<1>12. lit > 1 /\ AG!aiger_sign(lit) = 0 /\ Var(lit) # 0
  BY LitVar DEF Undefined
<1>13. LatchesDefined(r)
  <2>1. SUFFICES ASSUME NEW k \in DOMAIN r.latches
        PROVE Defines(r, r.latches[k].lit, "latch", k)
    BY DEF LatchesDefined
  <2>2. CASE k = n
    BY <2>2, <1>9, <1>10, <1>12 DEF Defines, Within, TypesGrow
  <2>3. CASE k \in DOMAIN l.latches
    BY <2>3, <1>8, <1>9, <1>10, DefinesKept, EntriesTyped DEF Built, LatchesDefined
  <2> QED
    BY <2>2, <2>3, <1>10
<1>14. InputsDefined(r)
  BY <1>7, <1>8, <1>9, DefinesKept, EntriesTyped DEF Built, InputsDefined
<1>15. GatesDefined(r)
  BY <1>7, <1>8, <1>9, DefinesKept, EntriesTyped DEF Built, GatesDefined
<1>16. KindsRight(r)
  BY <1>7, <1>8, <1>9, <1>10, <1>12, KindsKept DEF Built
<1>17. LitsWithin(r)
  <2>1. l.maxvar <= r.maxvar /\ LitsWithin(l)
    BY <1>11 DEF Extends, Built
  <2>2. Within(r, next)
    BY <1>1, <1>3, <1>7 DEF Within, IsLibrary, Library
  <2>3. ASSUME NEW k \in DOMAIN r.latches PROVE Within(r, r.latches[k].next)
    BY <1>8, <1>10, <2>1, <2>2, LitsWithinKept
  <2> QED
    BY <1>7, <1>8, <2>1, <2>3, LitsWithinKept DEF LitsWithin
<1> QED
  BY <1>7, <1>8, <1>11, <1>13, <1>14, <1>15, <1>16, <1>17 DEF Built, r

(* aiger_add_and. *)
LEMMA AddAndRight ==
  ASSUME NEW l, IsLibrary(l), Built(l), NEW lhs \in Nat, Undefined(l, lhs),
         NEW rhs0 \in Nat, NEW rhs1 \in Nat
  PROVE  LET r == aiger_add_and(l, lhs, rhs0, rhs1)
         IN /\ IsLibrary(r) /\ Built(r) /\ Extends(l, r) /\ r.error = l.error
            /\ r.ands = Append(l.ands, [lhs |-> lhs, rhs0 |-> rhs0, rhs1 |-> rhs1])
            /\ r.inputs = l.inputs /\ r.latches = l.latches
<1> DEFINE m0 == aiger_import_literal(l, {lhs, rhs0, rhs1})
           n == Len(l.ands) + 1
           m == Define(m0, lhs, "and", n)
           e == [lhs |-> lhs, rhs0 |-> rhs0, rhs1 |-> rhs1]
           r == aiger_add_and(l, lhs, rhs0, rhs1)
<1>1. /\ Wider(l, m0) /\ Var(lhs) <= m0.maxvar
      /\ Var(rhs0) <= m0.maxvar /\ Var(rhs1) <= m0.maxvar
  <2>1. \A x \in {lhs, rhs0, rhs1} : x <= lhs + rhs0 + rhs1
    OBVIOUS
  <2> QED
    BY <2>1, ImportWidens
<1> HIDE DEF m0
<1>2. n \in Nat
  BY LibraryFields
<1>3. /\ TypesGrow(l, m, lhs, "and", n) /\ IsLibrary(m)
      /\ m = [m0 EXCEPT !.types = m.types]
  BY <1>1, <1>2, DefineGrows
<1>4. r = [m EXCEPT !.ands = Append(@, e)]
  BY DEF aiger_add_and, m0
<1> HIDE DEF m, r
<1>5. /\ m.inputs = l.inputs /\ m.latches = l.latches /\ m.outputs = l.outputs
      /\ m.bad = l.bad /\ m.constraints = l.constraints /\ m.justice = l.justice
      /\ m.fairness = l.fairness /\ m.ands = l.ands /\ m.error = l.error
  <2>1. IsLibrary(m0)
    BY <1>1, WiderFields
  <2>2. /\ m.inputs = m0.inputs /\ m.latches = m0.latches /\ m.outputs = m0.outputs
        /\ m.bad = m0.bad /\ m.constraints = m0.constraints /\ m.justice = m0.justice
        /\ m.fairness = m0.fairness /\ m.ands = m0.ands /\ m.error = m0.error
    BY <1>3, <2>1 DEF IsLibrary, Library
  <2> QED
    BY <1>1, <2>2, WiderFields
<1>6. e \in AG!And
  BY DEF AG!And
<1>7. /\ r.latches = l.latches /\ r.inputs = l.inputs /\ r.outputs = l.outputs
      /\ r.bad = l.bad /\ r.constraints = l.constraints /\ r.justice = l.justice
      /\ r.fairness = l.fairness /\ r.ands = Append(l.ands, e) /\ r.error = l.error
      /\ r.types = m.types /\ r.maxvar = m.maxvar
  BY <1>3, <1>4, <1>5 DEF IsLibrary, Library
<1>8. IsLibrary(r)
  <2>1. Append(m.ands, e) \in Seq(AG!And)
    BY <1>3, <1>6, LibraryFields
  <2> QED
    BY <1>3, <1>4, <2>1 DEF IsLibrary, Library
<1>9. TypesGrow(l, r, lhs, "and", n)
  BY <1>3, <1>7 DEF TypesGrow
<1>10. /\ \A k \in DOMAIN l.ands : k \in DOMAIN r.ands /\ r.ands[k] = l.ands[k]
       /\ n \in DOMAIN r.ands /\ r.ands[n] = e
       /\ \A k \in DOMAIN r.ands : k = n \/ k \in DOMAIN l.ands
  BY <1>7, <1>6, LibraryFields
<1>11. Extends(l, r)
  BY <1>8, <1>9, <1>10, GrowsExtends
<1>12. lhs > 1 /\ AG!aiger_sign(lhs) = 0 /\ Var(lhs) # 0
  BY LitVar DEF Undefined
<1>13. GatesDefined(r)
  <2>1. SUFFICES ASSUME NEW k \in DOMAIN r.ands
        PROVE Defines(r, r.ands[k].lhs, "and", k)
    BY DEF GatesDefined
  <2>2. CASE k = n
    BY <2>2, <1>9, <1>10, <1>12 DEF Defines, Within, TypesGrow
  <2>3. CASE k \in DOMAIN l.ands
    BY <2>3, <1>8, <1>9, <1>10, DefinesKept, EntriesTyped DEF Built, GatesDefined
  <2> QED
    BY <2>2, <2>3, <1>10
<1>14. LatchesDefined(r)
  BY <1>7, <1>8, <1>9, DefinesKept, EntriesTyped DEF Built, LatchesDefined
<1>15. InputsDefined(r)
  BY <1>7, <1>8, <1>9, DefinesKept, EntriesTyped DEF Built, InputsDefined
<1>16. KindsRight(r)
  BY <1>7, <1>8, <1>9, <1>10, <1>12, KindsKept DEF Built
<1>17. LitsWithin(r)
  <2>1. l.maxvar <= r.maxvar /\ LitsWithin(l)
    BY <1>11 DEF Extends, Built
  <2>2. Within(r, rhs0) /\ Within(r, rhs1)
    BY <1>1, <1>3, <1>7 DEF Within, IsLibrary, Library
  <2>3. ASSUME NEW k \in DOMAIN r.ands
        PROVE Within(r, r.ands[k].rhs0) /\ Within(r, r.ands[k].rhs1)
    BY <1>8, <1>10, <2>1, <2>2, LitsWithinKept
  <2> QED
    BY <1>7, <1>8, <2>1, <2>3, LitsWithinKept DEF LitsWithin
<1> QED
  BY <1>7, <1>8, <1>11, <1>13, <1>14, <1>15, <1>16, <1>17 DEF Built, r

-----------------------------------------------------------------------------
(* The other additions define nothing: the tables that they leave alone say
   what they said. *)
LEMMA WiderRight ==
  ASSUME NEW l, IsLibrary(l), Built(l), NEW r, IsLibrary(r), l.maxvar <= r.maxvar,
         \A v \in 0 .. l.maxvar : r.types[v] = l.types[v],
         \A v \in l.maxvar + 1 .. r.maxvar : r.types[v] = NoType,
         DOMAIN r.inputs = DOMAIN l.inputs,
         \A k \in DOMAIN l.inputs : r.inputs[k].lit = l.inputs[k].lit,
         DOMAIN r.latches = DOMAIN l.latches,
         \A k \in DOMAIN l.latches : r.latches[k].lit = l.latches[k].lit,
         r.ands = l.ands, LitsWithin(r)
  PROVE  Built(r) /\ Extends(l, r)
<1>1. l.maxvar \in Nat /\ r.maxvar \in Nat
  BY LibraryFields
<1>2. Extends(l, r)
  BY <1>1 DEF Extends, NoType
<1>3. ASSUME NEW x \in Nat, NEW kind, NEW k, Defines(l, x, kind, k)
      PROVE Defines(r, x, kind, k)
  <2>1. Var(x) \in Nat
    BY VarNat
  <2>2. Var(x) \in 0 .. l.maxvar
    BY <2>1, <1>1, <1>3 DEF Defines, Within
  <2> QED
    BY <2>1, <2>2, <1>1, <1>3 DEF Defines, Within
<1>4. InputsDefined(r) /\ LatchesDefined(r) /\ GatesDefined(r)
  BY <1>3, EntriesTyped DEF Built, InputsDefined, LatchesDefined, GatesDefined
<1>5. r.types[0].kind = "none"
  BY <1>1 DEF Built, KindsRight
<1>6. ASSUME NEW v \in 0 .. r.maxvar
      PROVE LET k == r.types[v].idx
            IN /\ r.types[v].kind = "input" => k \in DOMAIN r.inputs /\ Var(r.inputs[k].lit) = v
               /\ r.types[v].kind = "latch" => k \in DOMAIN r.latches /\ Var(r.latches[k].lit) = v
               /\ r.types[v].kind = "and" => k \in DOMAIN r.ands /\ Var(r.ands[k].lhs) = v
  <2>1. CASE v \in 0 .. l.maxvar
    BY <2>1 DEF Built, KindsRight
  <2>2. CASE v \in l.maxvar + 1 .. r.maxvar
    BY <2>2 DEF NoType
  <2> QED
    BY <1>1, <2>1, <2>2
<1> QED
  BY <1>2, <1>4, <1>5, <1>6 DEF Built, KindsRight

(* aiger_add_output, aiger_add_bad, aiger_add_constraint, aiger_add_fairness. *)
LEMMA AddSymbolRight ==
  ASSUME NEW l, IsLibrary(l), Built(l), NEW s \in Plain, NEW lit \in Nat,
         NEW name \in Texts
  PROVE  LET r == AddSymbol(l, s, lit, name)
         IN /\ IsLibrary(r) /\ Built(r) /\ Extends(l, r) /\ r.error = l.error
            /\ r.inputs = l.inputs /\ r.latches = l.latches /\ r.ands = l.ands
            /\ r.justice = l.justice
<1> DEFINE m == aiger_import_literal(l, {lit})
           e == [lit |-> lit, name |-> name]
           r == AddSymbol(l, s, lit, name)
<1>1. Wider(l, m) /\ Var(lit) <= m.maxvar
  BY ImportWidens, \A x \in {lit} : x <= lit
<1>2. r = [m EXCEPT ![s] = Append(@, e)]
  BY DEF AddSymbol
<1>3. e \in SymbolEntry /\ e.lit = lit
  BY DEF SymbolEntry
<1> HIDE DEF m, r, e
<1>4. IsLibrary(m)
  BY <1>1, WiderFields
<1>5. /\ IsLibrary(r) /\ r.inputs = m.inputs /\ r.latches = m.latches /\ r.ands = m.ands
      /\ r.error = m.error /\ r.types = m.types /\ r.maxvar = m.maxvar
      /\ r.justice = m.justice
  <2>0. /\ Append(m.outputs, e) \in Seq(SymbolEntry) /\ Append(m.bad, e) \in Seq(SymbolEntry)
        /\ Append(m.constraints, e) \in Seq(SymbolEntry)
        /\ Append(m.fairness, e) \in Seq(SymbolEntry)
    BY <1>3, <1>4, LibraryFields
  <2>1. CASE s = "outputs"
    BY <2>0, <2>1, <1>2, <1>4 DEF IsLibrary, Library
  <2>2. CASE s = "bad"
    BY <2>0, <2>2, <1>2, <1>4 DEF IsLibrary, Library
  <2>3. CASE s = "constraints"
    BY <2>0, <2>3, <1>2, <1>4 DEF IsLibrary, Library
  <2>4. CASE s = "fairness"
    BY <2>0, <2>4, <1>2, <1>4 DEF IsLibrary, Library
  <2> QED
    BY <2>1, <2>2, <2>3, <2>4 DEF Plain
<1>6. /\ r.outputs \in {l.outputs, Append(l.outputs, e)}
      /\ r.bad \in {l.bad, Append(l.bad, e)}
      /\ r.constraints \in {l.constraints, Append(l.constraints, e)}
      /\ r.fairness \in {l.fairness, Append(l.fairness, e)}
  <2>0. /\ m.outputs = l.outputs /\ m.bad = l.bad /\ m.constraints = l.constraints
        /\ m.fairness = l.fairness
    BY <1>1, WiderFields
  <2>1. CASE s = "outputs"
    BY <2>0, <2>1, <1>2, <1>4 DEF IsLibrary, Library
  <2>2. CASE s = "bad"
    BY <2>0, <2>2, <1>2, <1>4 DEF IsLibrary, Library
  <2>3. CASE s = "constraints"
    BY <2>0, <2>3, <1>2, <1>4 DEF IsLibrary, Library
  <2>4. CASE s = "fairness"
    BY <2>0, <2>4, <1>2, <1>4 DEF IsLibrary, Library
  <2> QED
    BY <2>1, <2>2, <2>3, <2>4 DEF Plain
<1>7. l.maxvar <= r.maxvar /\ LitsWithin(l) /\ Within(r, e.lit)
  BY <1>1, <1>3, <1>5 DEF Built, Wider, Within
<1>8. ASSUME NEW t \in Seq(SymbolEntry), NEW u \in {t, Append(t, e)},
             \A k \in DOMAIN t : Within(r, t[k].lit)
      PROVE \A k \in DOMAIN u : Within(r, u[k].lit)
  BY <1>3, <1>7, <1>8
<1>9. LitsWithin(r)
  <2>1. /\ \A k \in DOMAIN r.outputs : Within(r, r.outputs[k].lit)
        /\ \A k \in DOMAIN r.bad : Within(r, r.bad[k].lit)
        /\ \A k \in DOMAIN r.constraints : Within(r, r.constraints[k].lit)
        /\ \A k \in DOMAIN r.fairness : Within(r, r.fairness[k].lit)
    BY <1>5, <1>6, <1>7, <1>8, LitsWithinKept, LibraryFields
  <2>2. r.latches = l.latches /\ r.justice = l.justice /\ r.ands = l.ands
    BY <1>1, <1>5, WiderFields
  <2> QED
    BY <1>5, <1>7, <2>1, <2>2, LitsWithinKept DEF LitsWithin
<1>10. Built(r) /\ Extends(l, r)
  <2>1. r.inputs = l.inputs /\ r.latches = l.latches /\ r.ands = l.ands
    BY <1>1, <1>5, WiderFields
  <2>2. /\ \A v \in 0 .. l.maxvar : r.types[v] = l.types[v]
        /\ \A v \in l.maxvar + 1 .. r.maxvar : r.types[v] = NoType
    BY <1>1, <1>5 DEF Wider
  <2> QED
    BY <1>5, <1>7, <1>9, <2>1, <2>2, WiderRight
<1> QED
  BY <1>1, <1>5, <1>10, WiderFields DEF r

(* aiger_add_justice. *)
LEMMA AddJusticeRight ==
  ASSUME NEW l, IsLibrary(l), Built(l), NEW lits \in Seq(Nat), NEW name \in Texts
  PROVE  LET r == aiger_add_justice(l, lits, name)
         IN /\ IsLibrary(r) /\ Built(r) /\ Extends(l, r) /\ r.error = l.error
            /\ r.inputs = l.inputs /\ r.latches = l.latches /\ r.ands = l.ands
            /\ r.justice = Append(l.justice, [lits |-> lits, name |-> name])
<1> DEFINE m == aiger_import_literal(l, ToSet(lits))
           e == [lits |-> lits, name |-> name]
           r == aiger_add_justice(l, lits, name)
<1>1. Wider(l, m) /\ \A j \in DOMAIN lits : Var(lits[j]) <= m.maxvar
  <2>1. PICK b \in Nat : \A j \in DOMAIN lits : lits[j] <= b
    BY SeqBound
  <2>2. ToSet(lits) \in SUBSET Nat /\ \A x \in ToSet(lits) : x <= b
    BY <2>1 DEF ToSet
  <2> QED
    BY <2>2, ImportWidens DEF ToSet
<1>2. r = [m EXCEPT !.justice = Append(@, e)]
  BY DEF aiger_add_justice
<1>3. e \in JusticeEntry /\ e.lits = lits
  BY DEF JusticeEntry
<1> HIDE DEF m, r, e
<1>4. IsLibrary(m)
  BY <1>1, WiderFields
<1>5. /\ IsLibrary(r) /\ r.inputs = m.inputs /\ r.latches = m.latches /\ r.ands = m.ands
      /\ r.error = m.error /\ r.types = m.types /\ r.maxvar = m.maxvar
      /\ r.justice = Append(m.justice, e) /\ r.outputs = m.outputs /\ r.bad = m.bad
      /\ r.constraints = m.constraints /\ r.fairness = m.fairness
  <2>0. Append(m.justice, e) \in Seq(JusticeEntry)
    BY <1>3, <1>4, LibraryFields
  <2> QED
    BY <2>0, <1>2, <1>4 DEF IsLibrary, Library
<1>6. /\ r.inputs = l.inputs /\ r.latches = l.latches /\ r.ands = l.ands
      /\ r.error = l.error /\ r.justice = Append(l.justice, e) /\ r.outputs = l.outputs
      /\ r.bad = l.bad /\ r.constraints = l.constraints /\ r.fairness = l.fairness
  BY <1>1, <1>5, WiderFields
<1>7. l.maxvar <= r.maxvar /\ LitsWithin(l) /\ \A j \in DOMAIN lits : Within(r, lits[j])
  BY <1>1, <1>5 DEF Built, Wider, Within
<1>8. ASSUME NEW k \in DOMAIN r.justice
      PROVE \A j \in DOMAIN r.justice[k].lits : Within(r, r.justice[k].lits[j])
  <2>1. r.justice[k] = e \/ (k \in DOMAIN l.justice /\ r.justice[k] = l.justice[k])
    BY <1>6, <1>3, LibraryFields
  <2> QED
    BY <2>1, <1>3, <1>5, <1>7, LitsWithinKept
<1>9. LitsWithin(r)
  BY <1>5, <1>6, <1>7, <1>8, LitsWithinKept DEF LitsWithin
<1>10. /\ \A v \in 0 .. l.maxvar : r.types[v] = l.types[v]
       /\ \A v \in l.maxvar + 1 .. r.maxvar : r.types[v] = NoType
  BY <1>1, <1>5 DEF Wider
<1>11. Built(r) /\ Extends(l, r)
  BY <1>5, <1>6, <1>7, <1>9, <1>10, WiderRight
<1> QED
  BY <1>5, <1>6, <1>11 DEF r, e

(* aiger_add_reset. *)
LEMMA AddResetRight ==
  ASSUME NEW l, IsLibrary(l), Built(l), NEW lit \in Nat, NEW reset \in Nat,
         CanReset(l, lit, reset)
  PROVE  LET r == aiger_add_reset(l, lit, reset)
         IN /\ IsLibrary(r) /\ Built(r) /\ Extends(l, r) /\ r.error = l.error
            /\ r.inputs = l.inputs /\ r.ands = l.ands /\ r.justice = l.justice
            /\ DOMAIN r.latches = DOMAIN l.latches
            /\ \A k \in DOMAIN l.latches : r.latches[k].lit = l.latches[k].lit
<1> DEFINE m == aiger_import_literal(l, {lit})
           i == l.types[Var(lit)].idx
           e == [l.latches[i] EXCEPT !.reset = reset]
           r == aiger_add_reset(l, lit, reset)
<1>1. Wider(l, m) /\ Var(lit) <= m.maxvar /\ IsLibrary(m) /\ Var(lit) \in Nat
  BY ImportWidens, WiderFields, VarNat, \A x \in {lit} : x <= lit
<1>2. l.maxvar \in Nat /\ m.maxvar \in Nat
  BY <1>1, LibraryFields
<1>3. m.types[Var(lit)].kind = "latch"
  BY DEF CanReset
<1>4. r = [m EXCEPT !.latches[i].reset = reset]
  BY DEF aiger_add_reset
<1> HIDE DEF m, r, e
<1>5. Var(lit) \in 0 .. l.maxvar
  <2>1. SUFFICES ASSUME Var(lit) \in l.maxvar + 1 .. m.maxvar PROVE FALSE
    BY <1>1, <1>2
  <2> QED
    BY <2>1, <1>1, <1>3 DEF Wider, NoType
<1>6. i \in DOMAIN l.latches
  BY <1>1, <1>3, <1>5 DEF Wider, Built, KindsRight
<1>7. l.latches[i] \in LatchEntry /\ l.latches \in Seq(LatchEntry)
  BY <1>6, LibraryFields
<1>8. e \in LatchEntry /\ e.lit = l.latches[i].lit /\ e.next = l.latches[i].next
  BY <1>7 DEF e, LatchEntry
<1>9. m.latches = l.latches
  BY <1>1, WiderFields
<1>10. r = [m EXCEPT !.latches = [l.latches EXCEPT ![i] = e]]
  BY <1>1, <1>4, <1>9 DEF IsLibrary, Library, e
<1>11. [l.latches EXCEPT ![i] = e] \in Seq(LatchEntry)
  BY <1>6, <1>7, <1>8
<1>12. /\ IsLibrary(r) /\ r.inputs = m.inputs /\ r.ands = m.ands
       /\ r.latches = [l.latches EXCEPT ![i] = e]
       /\ r.error = m.error /\ r.types = m.types /\ r.maxvar = m.maxvar
       /\ r.justice = m.justice /\ r.outputs = m.outputs /\ r.bad = m.bad
       /\ r.constraints = m.constraints /\ r.fairness = m.fairness
  BY <1>1, <1>10, <1>11 DEF IsLibrary, Library
<1>13. /\ r.inputs = l.inputs /\ r.ands = l.ands
       /\ r.error = l.error /\ r.justice = l.justice /\ r.outputs = l.outputs
       /\ r.bad = l.bad /\ r.constraints = l.constraints /\ r.fairness = l.fairness
  BY <1>1, <1>12, WiderFields
<1>14. /\ DOMAIN r.latches = DOMAIN l.latches
       /\ \A k \in DOMAIN l.latches : /\ r.latches[k].lit = l.latches[k].lit
                                       /\ r.latches[k].next = l.latches[k].next
  BY <1>6, <1>8, <1>12
<1>15. l.maxvar <= r.maxvar /\ LitsWithin(l)
  BY <1>1, <1>12 DEF Built, Wider
<1>16. LitsWithin(r)
  BY <1>12, <1>13, <1>14, <1>15, LitsWithinKept DEF LitsWithin
<1>17. /\ \A v \in 0 .. l.maxvar : r.types[v] = l.types[v]
       /\ \A v \in l.maxvar + 1 .. r.maxvar : r.types[v] = NoType
  BY <1>1, <1>12 DEF Wider
<1>18. Built(r) /\ Extends(l, r)
  BY <1>12, <1>13, <1>14, <1>15, <1>16, <1>17, WiderRight
<1> QED
  BY <1>12, <1>13, <1>14, <1>18 DEF r

(* What a change of names, comments and marks leaves alone. *)
SameLits(s, t) == DOMAIN t = DOMAIN s /\ \A k \in DOMAIN s : t[k].lit = s[k].lit
Renamed(l, r) ==
  /\ r.maxvar = l.maxvar /\ r.types = l.types /\ r.ands = l.ands
  /\ SameLits(l.inputs, r.inputs) /\ SameLits(l.latches, r.latches)
  /\ \A k \in DOMAIN l.latches : r.latches[k].next = l.latches[k].next
  /\ SameLits(l.outputs, r.outputs) /\ SameLits(l.bad, r.bad)
  /\ SameLits(l.constraints, r.constraints) /\ SameLits(l.fairness, r.fairness)
  /\ DOMAIN r.justice = DOMAIN l.justice
  /\ \A k \in DOMAIN l.justice : r.justice[k].lits = l.justice[k].lits

(* Names and comments play no part in what a structure defines. *)
LEMMA RenamedRight ==
  ASSUME NEW l, IsLibrary(l), Built(l), NEW r, IsLibrary(r), Renamed(l, r)
  PROVE  Built(r) /\ Extends(l, r)
<1>1. l.maxvar <= r.maxvar /\ LitsWithin(l) /\ l.maxvar \in Nat
  BY LibraryFields DEF Renamed, Built
<1>2. LitsWithin(r)
  BY <1>1, LitsWithinKept DEF LitsWithin, Renamed, SameLits
<1> QED
  BY <1>1, <1>2, WiderRight DEF Renamed, SameLits

(* aiger_delete_symbols leaves the entries of a section but for their
   names. *)
LEMMA NamelessRight ==
  ASSUME NEW E, NEW s \in Seq(E), \A e \in E : [e EXCEPT !.name = NoName] \in E
  PROVE  /\ Nameless(s) \in Seq(E) /\ DOMAIN Nameless(s) = DOMAIN s
         /\ \A k \in DOMAIN s : Nameless(s)[k] = [s[k] EXCEPT !.name = NoName]
<1>1. Len(s) \in Nat /\ DOMAIN s = 1 .. Len(s) /\ \A k \in DOMAIN s : s[k] \in E
  OBVIOUS
<1>2. Nameless(s) \in [1 .. Len(s) -> E]
  BY <1>1 DEF Nameless
<1>3. Nameless(s) \in Seq(E)
  BY <1>1, <1>2
<1> QED
  BY <1>3 DEF Nameless

(* aiger_strip_symbols_and_comments. *)
LEMMA StripRight ==
  ASSUME NEW l, IsLibrary(l), Built(l)
  PROVE  LET r == aiger_strip_symbols_and_comments(l)
         IN IsLibrary(r) /\ Built(r) /\ Extends(l, r) /\ r.error = l.error
<1> DEFINE r == aiger_strip_symbols_and_comments(l)
<1>1. ASSUME NEW e \in SymbolEntry
      PROVE [e EXCEPT !.name = NoName] \in SymbolEntry
            /\ [e EXCEPT !.name = NoName].lit = e.lit
  BY NamesAssumption DEF SymbolEntry
<1>2. ASSUME NEW e \in LatchEntry
      PROVE [e EXCEPT !.name = NoName] \in LatchEntry
            /\ [e EXCEPT !.name = NoName].lit = e.lit
            /\ [e EXCEPT !.name = NoName].next = e.next
  BY NamesAssumption DEF LatchEntry
<1>3. ASSUME NEW e \in JusticeEntry
      PROVE [e EXCEPT !.name = NoName] \in JusticeEntry
            /\ [e EXCEPT !.name = NoName].lits = e.lits
  BY NamesAssumption DEF JusticeEntry
<1>4. ASSUME NEW s \in Seq(SymbolEntry)
      PROVE Nameless(s) \in Seq(SymbolEntry) /\ SameLits(s, Nameless(s))
  <2>1. /\ Nameless(s) \in Seq(SymbolEntry) /\ DOMAIN Nameless(s) = DOMAIN s
        /\ \A k \in DOMAIN s : Nameless(s)[k] = [s[k] EXCEPT !.name = NoName]
    BY <1>1, NamelessRight
  <2>2. \A k \in DOMAIN s : s[k] \in SymbolEntry
    OBVIOUS
  <2> QED
    BY <1>1, <2>1, <2>2 DEF SameLits
<1>5. /\ Nameless(l.latches) \in Seq(LatchEntry) /\ SameLits(l.latches, Nameless(l.latches))
      /\ \A k \in DOMAIN l.latches : Nameless(l.latches)[k].next = l.latches[k].next
  <2>1. /\ Nameless(l.latches) \in Seq(LatchEntry)
        /\ DOMAIN Nameless(l.latches) = DOMAIN l.latches
        /\ \A k \in DOMAIN l.latches : Nameless(l.latches)[k] = [l.latches[k] EXCEPT !.name = NoName]
    BY <1>2, NamelessRight, LibraryFields
  <2>2. \A k \in DOMAIN l.latches : l.latches[k] \in LatchEntry
    BY LibraryFields
  <2> QED
    BY <1>2, <2>1, <2>2 DEF SameLits
<1>6. /\ Nameless(l.justice) \in Seq(JusticeEntry)
      /\ DOMAIN Nameless(l.justice) = DOMAIN l.justice
      /\ \A k \in DOMAIN l.justice : Nameless(l.justice)[k].lits = l.justice[k].lits
  <2>1. /\ Nameless(l.justice) \in Seq(JusticeEntry)
        /\ DOMAIN Nameless(l.justice) = DOMAIN l.justice
        /\ \A k \in DOMAIN l.justice : Nameless(l.justice)[k] = [l.justice[k] EXCEPT !.name = NoName]
    BY <1>3, NamelessRight, LibraryFields
  <2>2. \A k \in DOMAIN l.justice : l.justice[k] \in JusticeEntry
    BY LibraryFields
  <2> QED
    BY <1>3, <2>1, <2>2
<1>7. <<>> \in Seq(Texts) /\ 0 \in Nat
  OBVIOUS
<1>8. /\ Nameless(l.inputs) \in Seq(SymbolEntry) /\ Nameless(l.outputs) \in Seq(SymbolEntry)
      /\ Nameless(l.bad) \in Seq(SymbolEntry) /\ Nameless(l.constraints) \in Seq(SymbolEntry)
      /\ Nameless(l.fairness) \in Seq(SymbolEntry)
  BY <1>4, LibraryFields
<1>9. /\ IsLibrary(r) /\ r.maxvar = l.maxvar /\ r.types = l.types /\ r.ands = l.ands
      /\ r.error = l.error
      /\ r.inputs = Nameless(l.inputs) /\ r.latches = Nameless(l.latches)
      /\ r.outputs = Nameless(l.outputs) /\ r.bad = Nameless(l.bad)
      /\ r.constraints = Nameless(l.constraints) /\ r.justice = Nameless(l.justice)
      /\ r.fairness = Nameless(l.fairness)
  BY <1>5, <1>6, <1>7, <1>8 DEF aiger_strip_symbols_and_comments, IsLibrary, Library
<1>10. Renamed(l, r)
  BY <1>4, <1>5, <1>6, <1>9, LibraryFields DEF Renamed
<1> QED
  BY <1>9, <1>10, RenamedRight DEF r

(* A table has its own literals. *)
LEMMA SameLitsReflexive ==
  ASSUME NEW s PROVE SameLits(s, s)
BY DEF SameLits

Commented(l, cs, n, e) == [l EXCEPT !.comments = cs, !.num_comments = n, !.error = e]
NamedAt(l, s, i, x) == [l EXCEPT ![s][i].name = x]

(* aiger_add_comment, and the comments of a file. *)
LEMMA CommentsRight ==
  ASSUME NEW l, IsLibrary(l), Built(l), NEW cs \in Seq(Texts), NEW n \in Nat,
         NEW e \in Errors, NEW r, r = Commented(l, cs, n, e)
  PROVE  /\ IsLibrary(r) /\ Built(r) /\ Extends(l, r) /\ Renamed(l, r) /\ r.error = e
         /\ r.inputs = l.inputs /\ r.latches = l.latches
<1>1. /\ IsLibrary(r) /\ r.maxvar = l.maxvar /\ r.types = l.types /\ r.ands = l.ands
      /\ r.error = e
      /\ r.inputs = l.inputs /\ r.latches = l.latches
      /\ r.outputs = l.outputs /\ r.bad = l.bad
      /\ r.constraints = l.constraints /\ r.justice = l.justice
      /\ r.fairness = l.fairness
  BY DEF IsLibrary, Library, Commented
<1>2. Renamed(l, r)
  BY <1>1, SameLitsReflexive DEF Renamed
<1> QED
  BY <1>1, <1>2, RenamedRight

(* An entry gets a name from the symbol table. *)
LEMMA NamePut ==
  ASSUME NEW s \in Seq(SymbolEntry), NEW i \in DOMAIN s, NEW x \in Texts
  PROVE  [s EXCEPT ![i].name = x] \in Seq(SymbolEntry) /\ SameLits(s, [s EXCEPT ![i].name = x])
<1> DEFINE e == [s[i] EXCEPT !.name = x]
<1>1. s[i] \in SymbolEntry
  OBVIOUS
<1>2. e \in SymbolEntry /\ e.lit = s[i].lit
  BY <1>1 DEF SymbolEntry
<1>3. [s EXCEPT ![i].name = x] = [s EXCEPT ![i] = e]
  OBVIOUS
<1> HIDE DEF e
<1> QED
  BY <1>2, <1>3 DEF SameLits

(* A latch gets a name from the symbol table. *)
LEMMA LatchNamePut ==
  ASSUME NEW s \in Seq(LatchEntry), NEW i \in DOMAIN s, NEW x \in Texts
  PROVE  /\ [s EXCEPT ![i].name = x] \in Seq(LatchEntry) /\ SameLits(s, [s EXCEPT ![i].name = x])
         /\ \A k \in DOMAIN s : [s EXCEPT ![i].name = x][k].next = s[k].next
<1> DEFINE e == [s[i] EXCEPT !.name = x]
<1>1. s[i] \in LatchEntry
  OBVIOUS
<1>2. e \in LatchEntry /\ e.lit = s[i].lit /\ e.next = s[i].next
  BY <1>1 DEF LatchEntry
<1>3. [s EXCEPT ![i].name = x] = [s EXCEPT ![i] = e]
  OBVIOUS
<1> HIDE DEF e
<1> QED
  BY <1>2, <1>3 DEF SameLits

(* A justice property gets a name from the symbol table. *)
LEMMA JusticeNamePut ==
  ASSUME NEW s \in Seq(JusticeEntry), NEW i \in DOMAIN s, NEW x \in Texts
  PROVE  /\ [s EXCEPT ![i].name = x] \in Seq(JusticeEntry)
         /\ DOMAIN [s EXCEPT ![i].name = x] = DOMAIN s
         /\ \A k \in DOMAIN s : [s EXCEPT ![i].name = x][k].lits = s[k].lits
<1> DEFINE e == [s[i] EXCEPT !.name = x]
<1>1. s[i] \in JusticeEntry
  OBVIOUS
<1>2. e \in JusticeEntry /\ e.lits = s[i].lits
  BY <1>1 DEF JusticeEntry
<1>3. [s EXCEPT ![i].name = x] = [s EXCEPT ![i] = e]
  OBVIOUS
<1> HIDE DEF e
<1> QED
  BY <1>2, <1>3

(* The symbol table names an entry of one of the sections. *)
LEMMA NameRight ==
  ASSUME NEW l, IsLibrary(l), Built(l), NEW s \in Sections, NEW i \in DOMAIN l[s],
         NEW x \in Texts, NEW r, r = NamedAt(l, s, i, x)
  PROVE  /\ IsLibrary(r) /\ Built(r) /\ Extends(l, r) /\ Renamed(l, r)
         /\ r.error = l.error
<1> DEFINE t == [l[s] EXCEPT ![i].name = x]
<1>1. r = [l EXCEPT ![s] = t]
  BY DEF NamedAt
<1>2. IsLibrary(r) /\ Renamed(l, r) /\ r.error = l.error
  <2>1. CASE s = "inputs"
    <3>1. t \in Seq(SymbolEntry) /\ SameLits(l.inputs, t)
      BY <2>1, NamePut, LibraryFields
    <3> HIDE DEF t
    <3> QED
      BY <2>1, <3>1, <1>1, SameLitsReflexive DEF IsLibrary, Library, Renamed
  <2>2. CASE s = "latches"
    <3>1. /\ t \in Seq(LatchEntry) /\ SameLits(l.latches, t)
          /\ \A k \in DOMAIN l.latches : t[k].next = l.latches[k].next
      <4>1. l.latches \in Seq(LatchEntry) /\ i \in DOMAIN l.latches
        BY <2>2, LibraryFields
      <4> QED
        BY <2>2, <4>1, LatchNamePut
    <3> HIDE DEF t
    <3> QED
      BY <2>2, <3>1, <1>1, SameLitsReflexive DEF IsLibrary, Library, Renamed
  <2>3. CASE s = "outputs"
    <3>1. t \in Seq(SymbolEntry) /\ SameLits(l.outputs, t)
      BY <2>3, NamePut, LibraryFields
    <3> HIDE DEF t
    <3> QED
      BY <2>3, <3>1, <1>1, SameLitsReflexive DEF IsLibrary, Library, Renamed
  <2>4. CASE s = "bad"
    <3>1. t \in Seq(SymbolEntry) /\ SameLits(l.bad, t)
      BY <2>4, NamePut, LibraryFields
    <3> HIDE DEF t
    <3> QED
      BY <2>4, <3>1, <1>1, SameLitsReflexive DEF IsLibrary, Library, Renamed
  <2>5. CASE s = "constraints"
    <3>1. t \in Seq(SymbolEntry) /\ SameLits(l.constraints, t)
      BY <2>5, NamePut, LibraryFields
    <3> HIDE DEF t
    <3> QED
      BY <2>5, <3>1, <1>1, SameLitsReflexive DEF IsLibrary, Library, Renamed
  <2>6. CASE s = "fairness"
    <3>1. t \in Seq(SymbolEntry) /\ SameLits(l.fairness, t)
      BY <2>6, NamePut, LibraryFields
    <3> HIDE DEF t
    <3> QED
      BY <2>6, <3>1, <1>1, SameLitsReflexive DEF IsLibrary, Library, Renamed
  <2>7. CASE s = "justice"
    <3>1. /\ t \in Seq(JusticeEntry) /\ DOMAIN t = DOMAIN l.justice
          /\ \A k \in DOMAIN l.justice : t[k].lits = l.justice[k].lits
      BY <2>7, JusticeNamePut, LibraryFields
    <3> HIDE DEF t
    <3> QED
      BY <2>7, <3>1, <1>1, SameLitsReflexive DEF IsLibrary, Library, Renamed
  <2> QED
    BY <2>1, <2>2, <2>3, <2>4, <2>5, <2>6, <2>7 DEF Sections, Plain
<1> QED
  BY <1>2, RenamedRight

-----------------------------------------------------------------------------
(* The graph that bmc.cpp sees. *)

(* The part of the structure that bmc.cpp looks at. *)
LEMMA ViewFields ==
  ASSUME NEW l
  PROVE  /\ View(l).maxvar = l.maxvar /\ View(l).ands = l.ands
         /\ View(l).inputs = LitsOf(l.inputs)
         /\ View(l).outputs = LitsOf(l.outputs) /\ View(l).bad = LitsOf(l.bad)
         /\ View(l).latches = [k \in DOMAIN l.latches |-> [lit |-> l.latches[k].lit,
                                                         next |-> l.latches[k].next,
                                                         reset |-> l.latches[k].reset]]
BY DEF View, AG!Graph

(* The entries of that part are those of the structure. *)
LEMMA ViewEntries ==
  ASSUME NEW l
  PROVE  /\ DOMAIN View(l).inputs = DOMAIN l.inputs
         /\ \A k \in DOMAIN l.inputs : View(l).inputs[k] = l.inputs[k].lit
         /\ DOMAIN View(l).outputs = DOMAIN l.outputs
         /\ \A k \in DOMAIN l.outputs : View(l).outputs[k] = l.outputs[k].lit
         /\ DOMAIN View(l).bad = DOMAIN l.bad
         /\ \A k \in DOMAIN l.bad : View(l).bad[k] = l.bad[k].lit
         /\ DOMAIN View(l).latches = DOMAIN l.latches
         /\ \A k \in DOMAIN l.latches : /\ View(l).latches[k].lit = l.latches[k].lit
                                         /\ View(l).latches[k].next = l.latches[k].next
<1>1. ASSUME NEW s
      PROVE DOMAIN LitsOf(s) = DOMAIN s /\ \A k \in DOMAIN s : LitsOf(s)[k] = s[k].lit
  BY DEF LitsOf
<1> DEFINE ls == [k \in DOMAIN l.latches |-> [lit |-> l.latches[k].lit,
                                              next |-> l.latches[k].next,
                                              reset |-> l.latches[k].reset]]
<1>2. /\ DOMAIN ls = DOMAIN l.latches
      /\ \A k \in DOMAIN l.latches : /\ ls[k].lit = l.latches[k].lit
                                      /\ ls[k].next = l.latches[k].next
  OBVIOUS
<1>3. View(l).latches = ls
  BY ViewFields
<1> HIDE DEF ls
<1>4. /\ DOMAIN LitsOf(l.inputs) = DOMAIN l.inputs
      /\ \A k \in DOMAIN l.inputs : LitsOf(l.inputs)[k] = l.inputs[k].lit
  BY <1>1
<1>5. /\ DOMAIN LitsOf(l.outputs) = DOMAIN l.outputs
      /\ \A k \in DOMAIN l.outputs : LitsOf(l.outputs)[k] = l.outputs[k].lit
  BY <1>1
<1>6. /\ DOMAIN LitsOf(l.bad) = DOMAIN l.bad
      /\ \A k \in DOMAIN l.bad : LitsOf(l.bad)[k] = l.bad[k].lit
  BY <1>1
<1>7. /\ View(l).inputs = LitsOf(l.inputs) /\ View(l).outputs = LitsOf(l.outputs)
      /\ View(l).bad = LitsOf(l.bad)
  BY ViewFields
<1> QED
  BY <1>2, <1>3, <1>4, <1>5, <1>6, <1>7

(* The literals of a section. *)
LEMMA LitsOfType ==
  ASSUME NEW s \in Seq(SymbolEntry)
  PROVE  LitsOf(s) \in Seq(Nat)
<1>1. \A k \in 1 .. Len(s) : s[k] \in SymbolEntry
  OBVIOUS
<1>2. LitsOf(s) \in [1 .. Len(s) -> Nat] /\ Len(s) \in Nat
  BY <1>1 DEF LitsOf, SymbolEntry
<1> QED
  BY <1>2

(* What bmc.cpp looks at is a graph. *)
LEMMA ViewType ==
  ASSUME NEW l, IsLibrary(l)
  PROVE  View(l) \in AG!AigerType
<1> DEFINE ls == [k \in DOMAIN l.latches |-> [lit |-> l.latches[k].lit,
                                              next |-> l.latches[k].next,
                                              reset |-> l.latches[k].reset]]
<1>1. ls \in Seq(AG!Latch)
  <2>1. Len(l.latches) \in Nat /\ DOMAIN l.latches = 1 .. Len(l.latches)
    BY LibraryFields
  <2>2. ASSUME NEW k \in 1 .. Len(l.latches) PROVE ls[k] \in AG!Latch
    <3>1. l.latches[k] \in LatchEntry
      BY LibraryFields
    <3> QED
      BY <3>1, <2>1 DEF LatchEntry, AG!Latch
  <2>3. ls \in [1 .. Len(l.latches) -> AG!Latch]
    BY <2>1, <2>2
  <2> HIDE DEF ls
  <2> QED
    BY <2>1, <2>3
<1>2. /\ LitsOf(l.inputs) \in Seq(Nat) /\ LitsOf(l.outputs) \in Seq(Nat)
      /\ LitsOf(l.bad) \in Seq(Nat)
  BY LitsOfType, LibraryFields
<1>3. l.maxvar \in Nat /\ l.ands \in Seq(AG!And)
  BY LibraryFields
<1>4. View(l) = AG!Graph(l.maxvar, LitsOf(l.inputs), ls, LitsOf(l.outputs),
                         LitsOf(l.bad), l.ands)
  BY DEF View
<1> HIDE DEF ls
<1> QED
  BY <1>1, <1>2, <1>3, <1>4 DEF AG!AigerType, AG!Graph

(* The literals of that graph are in range. *)
LEMMA BuiltInRange ==
  ASSUME NEW l, IsLibrary(l), Built(l)
  PROVE  AG!LiteralsInRange(View(l))
<1>1. \A k \in DOMAIN l.inputs : AG!Definable(View(l), l.inputs[k].lit)
  BY ViewFields DEF Built, InputsDefined, Defines, Within, Var, AG!Definable, AG!InRange
<1>2. \A k \in DOMAIN l.latches : /\ AG!Definable(View(l), l.latches[k].lit)
                                  /\ AG!InRange(View(l), l.latches[k].next)
  BY ViewFields DEF Built, LatchesDefined, Defines, Within, Var, AG!Definable,
                    AG!InRange, LitsWithin
<1>3. \A k \in DOMAIN l.ands : /\ AG!Definable(View(l), l.ands[k].lhs)
                               /\ AG!InRange(View(l), l.ands[k].rhs0)
                               /\ AG!InRange(View(l), l.ands[k].rhs1)
  BY ViewFields DEF Built, GatesDefined, Defines, Within, Var, AG!Definable,
                    AG!InRange, LitsWithin
<1>4. /\ \A k \in DOMAIN l.outputs : AG!InRange(View(l), l.outputs[k].lit)
      /\ \A k \in DOMAIN l.bad : AG!InRange(View(l), l.bad[k].lit)
  BY ViewFields DEF Built, LitsWithin, Within, Var, AG!InRange
<1> QED
  <2>1. View(l).ands = l.ands
    BY ViewFields
  <2>2. /\ \A k \in DOMAIN View(l).inputs : AG!Definable(View(l), View(l).inputs[k])
        /\ \A k \in DOMAIN View(l).outputs : AG!InRange(View(l), View(l).outputs[k])
        /\ \A k \in DOMAIN View(l).bad : AG!InRange(View(l), View(l).bad[k])
    BY <1>1, <1>4, ViewEntries
  <2>3. \A k \in DOMAIN View(l).latches : /\ AG!Definable(View(l), View(l).latches[k].lit)
                                          /\ AG!InRange(View(l), View(l).latches[k].next)
    BY <1>2, ViewEntries
  <2> QED
    BY <1>3, <2>1, <2>2, <2>3 DEF AG!LiteralsInRange

(* The variables that have a kind are those that an input, a latch or a
   gate of the graph defines. *)
LEMMA KindsExact ==
  ASSUME NEW l, IsLibrary(l), Built(l)
  PROVE  /\ \A v \in 0 .. l.maxvar :
              l.types[v].kind # "none" <=> v \in AG!Leaves(View(l)) \cup AG!AndVars(View(l))
         /\ AG!Leaves(View(l)) \cup AG!AndVars(View(l)) \subseteq 1 .. l.maxvar
         /\ \A v \in 0 .. l.maxvar : l.types[v].kind = "and" <=> v \in AG!AndVars(View(l))
<1>1. AG!AndVars(View(l)) = {Var(l.ands[k].lhs) : k \in DOMAIN l.ands}
  BY ViewFields DEF AG!AndVars, Var
<1>2. AG!Leaves(View(l)) = {Var(l.inputs[k].lit) : k \in DOMAIN l.inputs}
                             \cup {Var(l.latches[k].lit) : k \in DOMAIN l.latches}
  <2>1. {AG!aiger_lit2var(View(l).inputs[k]) : k \in DOMAIN View(l).inputs}
          = {Var(l.inputs[k].lit) : k \in DOMAIN l.inputs}
    BY ViewEntries DEF Var
  <2>2. {AG!aiger_lit2var(View(l).latches[k].lit) : k \in DOMAIN View(l).latches}
          = {Var(l.latches[k].lit) : k \in DOMAIN l.latches}
    BY ViewEntries DEF Var
  <2> QED
    BY <2>1, <2>2 DEF AG!Leaves
<1>3. ASSUME NEW x \in Nat, NEW kind, NEW k, Defines(l, x, kind, k)
      PROVE Var(x) \in 1 .. l.maxvar /\ l.types[Var(x)].kind = kind
  <2>1. Var(x) \in Nat /\ Var(x) # 0 /\ l.maxvar \in Nat
    BY <1>3, LitVar, LibraryFields DEF Defines
  <2> QED
    BY <2>1, <1>3 DEF Defines, Within
<1>4. /\ \A k \in DOMAIN l.ands : /\ Var(l.ands[k].lhs) \in 1 .. l.maxvar
                                  /\ l.types[Var(l.ands[k].lhs)].kind = "and"
      /\ \A k \in DOMAIN l.inputs : /\ Var(l.inputs[k].lit) \in 1 .. l.maxvar
                                    /\ l.types[Var(l.inputs[k].lit)].kind = "input"
      /\ \A k \in DOMAIN l.latches : /\ Var(l.latches[k].lit) \in 1 .. l.maxvar
                                     /\ l.types[Var(l.latches[k].lit)].kind = "latch"
  BY <1>3, EntriesTyped DEF Built, InputsDefined, LatchesDefined, GatesDefined
<1>5. ASSUME NEW v \in 0 .. l.maxvar
      PROVE l.types[v].kind \in {"none", "input", "latch", "and"}
  <2>1. l.types[v] \in TypeEntry
    BY LibraryFields
  <2> QED
    BY <2>1 DEF TypeEntry
<1>6. ASSUME NEW v \in 0 .. l.maxvar, l.types[v].kind = "and"
      PROVE \E k \in DOMAIN l.ands : Var(l.ands[k].lhs) = v
  BY <1>6 DEF Built, KindsRight
<1>7. ASSUME NEW v \in 0 .. l.maxvar, l.types[v].kind = "input"
      PROVE \E k \in DOMAIN l.inputs : Var(l.inputs[k].lit) = v
  BY <1>7 DEF Built, KindsRight
<1>8. ASSUME NEW v \in 0 .. l.maxvar, l.types[v].kind = "latch"
      PROVE \E k \in DOMAIN l.latches : Var(l.latches[k].lit) = v
  BY <1>8 DEF Built, KindsRight
<1> QED
  BY <1>1, <1>2, <1>4, <1>5, <1>6, <1>7, <1>8

(* The table of types says of a literal that it is defined exactly when an
   entry defines it. *)
LEMMA DefinedExact ==
  ASSUME NEW l, IsLibrary(l), Built(l), NEW x \in Nat, Within(l, x)
  PROVE  aiger_literal_defined(l, x) <=> AG!LiteralDefined(View(l), x)
<1>1. Var(x) \in 0 .. l.maxvar
  <2>1. Var(x) \in Nat /\ l.maxvar \in Nat
    BY VarNat, LibraryFields
  <2> QED
    BY <2>1 DEF Within
<1> QED
  BY <1>1, KindsExact DEF aiger_literal_defined, AG!LiteralDefined, Var

(* The literals that aiger_check looks at. *)
LEMMA LookedAt ==
  ASSUME NEW l, IsLibrary(l), Built(l), NEW x \in SymbolLits(l) \cup RightHandSides(l)
  PROVE  x \in Nat /\ Within(l, x)
<1> DEFINE A == {l.latches[k].next : k \in DOMAIN l.latches}
           B == UNION {{l[s][k].lit : k \in DOMAIN l[s]} : s \in Plain}
           C == UNION {ToSet(l.justice[k].lits) : k \in DOMAIN l.justice}
<1>1. CASE x \in RightHandSides(l)
  <2>1. PICK k \in DOMAIN l.ands : x \in {l.ands[k].rhs0, l.ands[k].rhs1}
    BY <1>1 DEF RightHandSides
  <2> QED
    BY <2>1, EntriesTyped DEF Built, LitsWithin
<1>2. CASE x \in A
  BY <1>2, EntriesTyped DEF Built, LitsWithin
<1>3. CASE x \in C
  <2>1. PICK k \in DOMAIN l.justice : x \in ToSet(l.justice[k].lits)
    BY <1>3
  <2>2. PICK j \in DOMAIN l.justice[k].lits : x = l.justice[k].lits[j]
    BY <2>1 DEF ToSet
  <2> QED
    BY <2>2, EntriesTyped DEF Built, LitsWithin
<1>4. ASSUME NEW s \in Plain, x \in {l[s][k].lit : k \in DOMAIN l[s]}
      PROVE x \in Nat /\ Within(l, x)
  <2>1. CASE s = "outputs"
    BY <2>1, <1>4, EntriesTyped DEF Built, LitsWithin
  <2>2. CASE s = "bad"
    BY <2>2, <1>4, EntriesTyped DEF Built, LitsWithin
  <2>3. CASE s = "constraints"
    BY <2>3, <1>4, EntriesTyped DEF Built, LitsWithin
  <2>4. CASE s = "fairness"
    BY <2>4, <1>4, EntriesTyped DEF Built, LitsWithin
  <2> QED
    BY <2>1, <2>2, <2>3, <2>4 DEF Plain
<1>5. CASE x \in B
  <2>1. PICK S \in {{l[s][k].lit : k \in DOMAIN l[s]} : s \in Plain} : x \in S
    BY <1>5
  <2>2. PICK s \in Plain : S = {l[s][k].lit : k \in DOMAIN l[s]}
    BY <2>1
  <2>3. x \in {l[s][k].lit : k \in DOMAIN l[s]}
    BY <2>1, <2>2
  <2> QED
    BY <2>3, <1>4
<1>6. SymbolLits(l) = A \cup B \cup C
  BY DEF SymbolLits
<1> HIDE DEF A, B, C
<1> QED
  BY <1>1, <1>2, <1>3, <1>5, <1>6

(* A graph that is consistent passes aiger_check. *)
LEMMA ConsistentChecks ==
  ASSUME NEW l, IsLibrary(l), Consistent(l)
  PROVE  AG!aiger_check(View(l))
<1> DEFINE g == View(l)
<1>1. ASSUME NEW k \in DOMAIN g.latches PROVE AG!LiteralDefined(g, g.latches[k].next)
  <2>1. k \in DOMAIN l.latches /\ g.latches[k].next = l.latches[k].next
    BY ViewEntries
  <2>2. l.latches[k].next \in SymbolLits(l)
    BY <2>1 DEF SymbolLits
  <2> QED
    BY <2>1, <2>2 DEF Consistent
<1>2. ASSUME NEW k \in DOMAIN g.outputs PROVE AG!LiteralDefined(g, g.outputs[k])
  <2>1. k \in DOMAIN l.outputs /\ g.outputs[k] = l.outputs[k].lit
    BY ViewEntries
  <2>2. l.outputs[k].lit \in SymbolLits(l)
    <3>1. l.outputs[k].lit \in {l["outputs"][j].lit : j \in DOMAIN l["outputs"]}
      BY <2>1
    <3> QED
      BY <3>1 DEF SymbolLits, Plain
  <2> QED
    BY <2>1, <2>2 DEF Consistent
<1>3. ASSUME NEW k \in DOMAIN g.bad PROVE AG!LiteralDefined(g, g.bad[k])
  <2>1. k \in DOMAIN l.bad /\ g.bad[k] = l.bad[k].lit
    BY ViewEntries
  <2>2. l.bad[k].lit \in SymbolLits(l)
    <3>1. l.bad[k].lit \in {l["bad"][j].lit : j \in DOMAIN l["bad"]}
      BY <2>1
    <3> QED
      BY <3>1 DEF SymbolLits, Plain
  <2> QED
    BY <2>1, <2>2 DEF Consistent
<1>4. ASSUME NEW k \in DOMAIN g.ands
      PROVE AG!LiteralDefined(g, g.ands[k].rhs0) /\ AG!LiteralDefined(g, g.ands[k].rhs1)
  <2>1. k \in DOMAIN l.ands /\ g.ands[k] = l.ands[k]
    BY ViewFields
  <2>2. l.ands[k].rhs0 \in RightHandSides(l) /\ l.ands[k].rhs1 \in RightHandSides(l)
    BY <2>1 DEF RightHandSides
  <2> QED
    BY <2>1, <2>2 DEF Consistent
<1> HIDE DEF g
<1> QED
  BY <1>1, <1>2, <1>3, <1>4 DEF AG!aiger_check, AG!NextDefined, AG!OutputsDefined,
     AG!BadDefined, AG!RightHandSidesDefined, Consistent, g

(* The lookups find the entry that defines a literal. *)
LEMMA LookupsBuilt ==
  ASSUME IsLibrary(lib), Built(lib)
  PROVE  LookupsRight
<1>1. ASSUME NEW k \in DOMAIN lib.inputs
      PROVE /\ aiger_is_input(lib, lib.inputs[k].lit) = k
            /\ aiger_get_symbol(lib, lib.inputs[k].lit) = lib.inputs[k].name
            /\ aiger_lit2tag(lib, lib.inputs[k].lit) = 1
  <2>1. Defines(lib, lib.inputs[k].lit, "input", k) /\ lib.inputs[k].lit \in Nat
    BY EntriesTyped DEF Built, InputsDefined
  <2>2. Var(lib.inputs[k].lit) # 0
    BY <2>1, LitVar DEF Defines
  <2>3. aiger_is_input(lib, lib.inputs[k].lit) = k
    BY <2>1 DEF aiger_is_input, PositionOf, Defines
  <2> QED
    BY <2>1, <2>2, <2>3 DEF aiger_get_symbol, aiger_lit2tag, Defines
<1>2. ASSUME NEW k \in DOMAIN lib.latches
      PROVE /\ aiger_is_latch(lib, lib.latches[k].lit) = k
            /\ aiger_get_symbol(lib, lib.latches[k].lit) = lib.latches[k].name
            /\ aiger_lit2tag(lib, lib.latches[k].lit) = 2
  <2>1. Defines(lib, lib.latches[k].lit, "latch", k) /\ lib.latches[k].lit \in Nat
    BY EntriesTyped DEF Built, LatchesDefined
  <2>2. Var(lib.latches[k].lit) # 0
    BY <2>1, LitVar DEF Defines
  <2>3. aiger_is_latch(lib, lib.latches[k].lit) = k
    BY <2>1 DEF aiger_is_latch, PositionOf, Defines
  <2> QED
    BY <2>1, <2>2, <2>3 DEF aiger_get_symbol, aiger_lit2tag, Defines
<1>3. ASSUME NEW k \in DOMAIN lib.ands PROVE aiger_is_and(lib, lib.ands[k].lhs) = k
  BY DEF Built, GatesDefined, Defines, aiger_is_and, PositionOf
<1>4. {v \in 1 .. lib.maxvar : lib.types[v].kind # "none"}
        = AG!Leaves(View(lib)) \cup AG!AndVars(View(lib))
  BY KindsExact
<1> QED
  BY <1>1, <1>2, <1>3, <1>4 DEF LookupsRight

-----------------------------------------------------------------------------
(* Marks. *)

(* r is l with other marks. *)
Remarked(l, r) ==
  /\ IsLibrary(r) /\ r = [l EXCEPT !.types = r.types]
  /\ \A v \in 0 .. l.maxvar : /\ r.types[v].kind = l.types[v].kind
                              /\ r.types[v].idx = l.types[v].idx

(* A search changes marks and nothing else. *)
LEMMA RemarkedFields ==
  ASSUME NEW l, IsLibrary(l), NEW r, Remarked(l, r)
  PROVE  /\ r.maxvar = l.maxvar /\ r.error = l.error
         /\ r.inputs = l.inputs /\ r.latches = l.latches /\ r.outputs = l.outputs
         /\ r.bad = l.bad /\ r.constraints = l.constraints /\ r.justice = l.justice
         /\ r.fairness = l.fairness /\ r.ands = l.ands
BY DEF Remarked, IsLibrary, Library

(* Marks say nothing of the graph. *)
LEMMA RemarkedRight ==
  ASSUME NEW l, IsLibrary(l), Built(l), NEW r, Remarked(l, r)
  PROVE  /\ Built(r) /\ View(r) = View(l)
         /\ SymbolLits(r) = SymbolLits(l) /\ RightHandSides(r) = RightHandSides(l)
         /\ AllDefined(l) => AllDefined(r)
         /\ \A v \in 0 .. l.maxvar : Kids(r, v) = Kids(l, v)
<1>1. l.maxvar \in Nat /\ r.maxvar = l.maxvar
  BY RemarkedFields, LibraryFields
<1>2. ASSUME NEW x \in Nat, NEW kind, NEW k, Defines(l, x, kind, k)
      PROVE Defines(r, x, kind, k)
  <2>1. Var(x) \in 0 .. l.maxvar
    BY <1>1, <1>2, VarNat DEF Defines, Within
  <2> QED
    BY <1>1, <1>2, <2>1 DEF Defines, Within, Remarked
<1>3. InputsDefined(r) /\ LatchesDefined(r) /\ GatesDefined(r)
  BY <1>2, EntriesTyped, RemarkedFields DEF Built, InputsDefined, LatchesDefined, GatesDefined
<1>4. KindsRight(r)
  <2>1. r.types[0].kind = "none"
    BY <1>1 DEF Remarked, Built, KindsRight
  <2>2. ASSUME NEW v \in 0 .. r.maxvar
        PROVE LET k == r.types[v].idx
              IN /\ r.types[v].kind = "input" => k \in DOMAIN r.inputs /\ Var(r.inputs[k].lit) = v
                 /\ r.types[v].kind = "latch" => k \in DOMAIN r.latches /\ Var(r.latches[k].lit) = v
                 /\ r.types[v].kind = "and" => k \in DOMAIN r.ands /\ Var(r.ands[k].lhs) = v
    <3>1. r.types[v].kind = l.types[v].kind /\ r.types[v].idx = l.types[v].idx
      BY <1>1 DEF Remarked
    <3>2. r.inputs = l.inputs /\ r.latches = l.latches /\ r.ands = l.ands
      BY RemarkedFields
    <3> QED
      BY <1>1, <3>1, <3>2 DEF Built, KindsRight
  <2> QED
    BY <2>1, <2>2 DEF KindsRight
<1>5. LitsWithin(r)
  <2>1. l.maxvar <= r.maxvar /\ LitsWithin(l) /\ IsLibrary(r)
    BY <1>1 DEF Built, Remarked
  <2> QED
    BY <2>1, LitsWithinKept, RemarkedFields DEF LitsWithin
<1>6. View(r) = View(l)
  BY RemarkedFields DEF View
<1>7. RightHandSides(r) = RightHandSides(l)
  BY RemarkedFields DEF RightHandSides
<1>8. SymbolLits(r) = SymbolLits(l)
  <2>1. \A s \in Plain : r[s] = l[s]
    BY RemarkedFields DEF Plain
  <2>2. {{r[s][k].lit : k \in DOMAIN r[s]} : s \in Plain}
          = {{l[s][k].lit : k \in DOMAIN l[s]} : s \in Plain}
    BY <2>1
  <2>3. l.latches = r.latches /\ l.justice = r.justice
    BY RemarkedFields
  <2> QED
    BY <2>2, <2>3 DEF SymbolLits
<1>9. ASSUME AllDefined(l) PROVE AllDefined(r)
  <2>1. SUFFICES ASSUME NEW x \in SymbolLits(l) \cup RightHandSides(l)
        PROVE aiger_literal_defined(r, x)
    BY <1>7, <1>8 DEF AllDefined
  <2>2. x \in Nat /\ Within(l, x) /\ aiger_literal_defined(l, x)
    BY <1>9, LookedAt DEF AllDefined
  <2>3. Var(x) \in 0 .. l.maxvar
    BY <1>1, <2>2, VarNat DEF Within
  <2> QED
    BY <2>2, <2>3 DEF aiger_literal_defined, Remarked
<1>10. \A v \in 0 .. l.maxvar : Kids(r, v) = Kids(l, v)
  BY RemarkedFields DEF Kids, Read, Remarked
<1> QED
  BY <1>3, <1>4, <1>5, <1>6, <1>7, <1>8, <1>9, <1>10 DEF Built

(* What a gate reads: variables in range, and defined ones once the check
   has found no literal that is not. *)
LEMMA KidsRight ==
  ASSUME NEW l, IsLibrary(l), Built(l), NEW v, IsGate(l, v)
  PROVE  /\ Kids(l, v) \subseteq 1 .. l.maxvar
         /\ AllDefined(l) => \A c \in Kids(l, v) : l.types[c].kind # "none"
         /\ l.types[v].idx \in DOMAIN l.ands /\ Var(Read(l, v).lhs) = v
<1>1. l.types[v].idx \in DOMAIN l.ands /\ Var(Read(l, v).lhs) = v
  BY DEF IsGate, Built, KindsRight, Read
<1>2. /\ Read(l, v).rhs0 \in Nat /\ Within(l, Read(l, v).rhs0)
      /\ Read(l, v).rhs1 \in Nat /\ Within(l, Read(l, v).rhs1)
  BY <1>1, EntriesTyped DEF Built, LitsWithin, Read
<1>3. l.maxvar \in Nat /\ Var(Read(l, v).rhs0) \in Nat /\ Var(Read(l, v).rhs1) \in Nat
  BY <1>2, VarNat, LibraryFields
<1>4. Kids(l, v) \subseteq 1 .. l.maxvar
  BY <1>2, <1>3 DEF Kids, Within
<1>5. Read(l, v).rhs0 \in RightHandSides(l) /\ Read(l, v).rhs1 \in RightHandSides(l)
  BY <1>1 DEF Read, RightHandSides
<1>6. ASSUME AllDefined(l), NEW c \in Kids(l, v) PROVE l.types[c].kind # "none"
  BY <1>5, <1>6 DEF AllDefined, aiger_literal_defined, Kids
<1> QED
  BY <1>1, <1>4, <1>6

(* The gates that are done can be counted. *)
LEMMA DoneFinite ==
  ASSUME NEW l, IsLibrary(l)
  PROVE  IsFiniteSet(Done(l)) /\ Cardinality(Done(l)) \in Nat
<1>1. l.maxvar \in Nat
  BY LibraryFields
<1>2. IsFiniteSet(0 .. l.maxvar)
  BY <1>1, FS_Interval
<1>3. Done(l) \subseteq 0 .. l.maxvar
  BY DEF Done
<1>4. IsFiniteSet(Done(l))
  BY <1>2, <1>3, FS_Subset
<1> QED
  BY <1>4, FS_CardinalityType

(* What Descend and Leave do to the table of types. *)
Entered(l, j) == [l EXCEPT !.types[j].mark = TRUE, !.types[j].onstack = TRUE]
Left(l, j) == [l EXCEPT !.types[j].onstack = FALSE]

(* Entering a gate changes nothing of those that are done. *)
LEMMA EnterMarked ==
  ASSUME NEW l, IsLibrary(l), Built(l), Marked(l), NEW j, IsGate(l, j), ~l.types[j].mark,
         NEW r, r = Entered(l, j)
  PROVE  /\ Remarked(l, r) /\ Marked(r) /\ Done(r) = Done(l)
         /\ r.types[j].kind = "and" /\ r.types[j].mark /\ r.types[j].onstack
         /\ \A v \in 0 .. l.maxvar : v # j => r.types[v] = l.types[v]
<1> DEFINE e == [l.types[j] EXCEPT !.mark = TRUE, !.onstack = TRUE]
<1>1. j \in 0 .. l.maxvar /\ l.types[j].kind = "and" /\ l.types[j] \in TypeEntry
      /\ l.types \in [0 .. l.maxvar -> TypeEntry]
  BY LibraryFields DEF IsGate
<1>2. e \in TypeEntry /\ e.kind = "and" /\ e.idx = l.types[j].idx /\ e.mark /\ e.onstack
  BY <1>1 DEF TypeEntry
<1>3. r = [l EXCEPT !.types = [l.types EXCEPT ![j] = e]]
  BY <1>1 DEF IsLibrary, Library, Entered, Left
<1> HIDE DEF e
<1>4. IsLibrary(r) /\ r.types = [l.types EXCEPT ![j] = e] /\ r.maxvar = l.maxvar
  <2>1. [l.types EXCEPT ![j] = e] \in [0 .. l.maxvar -> TypeEntry]
    BY <1>1, <1>2
  <2> QED
    BY <1>3, <2>1 DEF IsLibrary, Library
<1>5. r.types[j] = e /\ \A v \in 0 .. l.maxvar : v # j => r.types[v] = l.types[v]
  BY <1>1, <1>4
<1>6. Remarked(l, r)
  BY <1>1, <1>2, <1>3, <1>4, <1>5 DEF Remarked
<1>7. Done(r) = Done(l)
  BY <1>2, <1>4, <1>5 DEF Done
<1>8. \A v \in 0 .. l.maxvar : Kids(r, v) = Kids(l, v)
  BY <1>6, RemarkedRight
<1>9. MarksOnGates(r)
  <2>1. ASSUME NEW v \in 0 .. l.maxvar
        PROVE /\ r.types[v].mark => r.types[v].kind = "and"
              /\ r.types[v].onstack => r.types[v].mark
    BY <1>2, <1>5 DEF MarksOnGates, Marked
  <2> QED
    BY <1>4, <2>1 DEF MarksOnGates
<1>10. Done(l) \subseteq 0 .. l.maxvar
  BY DEF Done
<1>11. DoneClosed(r)
  <2>1. SUFFICES ASSUME NEW v \in Done(l), NEW c \in Kids(l, v)
        PROVE r.types[c].kind # "none" /\ (r.types[c].kind = "and" => c \in Done(l))
    BY <1>7, <1>8, <1>10 DEF DoneClosed
  <2>2. IsGate(l, v)
    BY DEF Done, IsGate
  <2>3. c \in 0 .. l.maxvar
    BY <2>2, KidsRight
  <2>4. l.types[c].kind # "none" /\ (l.types[c].kind = "and" => c \in Done(l))
    BY DEF Marked, DoneClosed
  <2> QED
    BY <2>3, <2>4, <1>6 DEF Remarked
<1>12. DoneRanked(r)
  BY <1>7, <1>8, <1>10 DEF DoneRanked, Marked
<1> QED
  BY <1>2, <1>5, <1>6, <1>7, <1>9, <1>11, <1>12 DEF Marked

(* A gate is left when the gates it reads are done: it is the next one. *)
LEMMA LeaveMarked ==
  ASSUME NEW l, IsLibrary(l), Built(l), Marked(l), AllDefined(l),
         NEW j, IsGate(l, j), l.types[j].mark, l.types[j].onstack,
         \A c \in Kids(l, j) : l.types[c].kind = "and" => c \in Done(l),
         NEW r, r = Left(l, j)
  PROVE  /\ Remarked(l, r) /\ Marked(r) /\ Done(r) = Done(l) \cup {j}
         /\ r.types[j].kind = "and" /\ r.types[j].mark /\ ~r.types[j].onstack
         /\ \A v \in 0 .. l.maxvar : v # j => r.types[v] = l.types[v]
<1> DEFINE e == [l.types[j] EXCEPT !.onstack = FALSE]
           n == Cardinality(Done(l))
<1>1. j \in 0 .. l.maxvar /\ l.types[j].kind = "and" /\ l.types[j] \in TypeEntry
      /\ l.types \in [0 .. l.maxvar -> TypeEntry]
  BY LibraryFields DEF IsGate
<1>2. e \in TypeEntry /\ e.kind = "and" /\ e.idx = l.types[j].idx /\ e.mark /\ ~e.onstack
  BY <1>1 DEF TypeEntry
<1>3. r = [l EXCEPT !.types = [l.types EXCEPT ![j] = e]]
  BY <1>1 DEF IsLibrary, Library, Entered, Left
<1> HIDE DEF e
<1>4. IsLibrary(r) /\ r.types = [l.types EXCEPT ![j] = e] /\ r.maxvar = l.maxvar
  <2>1. [l.types EXCEPT ![j] = e] \in [0 .. l.maxvar -> TypeEntry]
    BY <1>1, <1>2
  <2> QED
    BY <1>3, <2>1 DEF IsLibrary, Library
<1>5. r.types[j] = e /\ \A v \in 0 .. l.maxvar : v # j => r.types[v] = l.types[v]
  BY <1>1, <1>4
<1>6. Remarked(l, r)
  BY <1>1, <1>2, <1>3, <1>4, <1>5 DEF Remarked
<1>7. Done(r) = Done(l) \cup {j} /\ j \notin Done(l)
  BY <1>1, <1>2, <1>4, <1>5 DEF Done
<1>8. \A v \in 0 .. l.maxvar : Kids(r, v) = Kids(l, v)
  BY <1>6, RemarkedRight
<1>9. MarksOnGates(r)
  BY <1>2, <1>4, <1>5 DEF MarksOnGates, Marked
<1>10. Done(l) \subseteq 0 .. l.maxvar
  BY DEF Done
<1>11. ASSUME NEW v \in Done(r), NEW c \in Kids(l, v)
       PROVE /\ l.types[c].kind # "none" /\ c \in 0 .. l.maxvar
             /\ l.types[c].kind = "and" => c \in Done(l)
  <2>1. IsGate(l, v)
    BY <1>1, <1>7 DEF Done, IsGate
  <2>2. c \in 0 .. l.maxvar /\ l.types[c].kind # "none"
    BY <2>1, KidsRight
  <2>3. CASE v = j
    BY <2>2, <2>3
  <2>4. CASE v \in Done(l)
    BY <2>2, <2>4 DEF Marked, DoneClosed
  <2> QED
    BY <2>3, <2>4, <1>7
<1>12. DoneClosed(r)
  <2>1. SUFFICES ASSUME NEW v \in Done(r), NEW c \in Kids(l, v)
        PROVE r.types[c].kind # "none" /\ (r.types[c].kind = "and" => c \in Done(r))
    BY <1>1, <1>7, <1>8, <1>10 DEF DoneClosed
  <2> QED
    BY <1>6, <1>7, <1>11 DEF Remarked
<1>13. DoneRanked(r)
  <2>1. PICK rank \in [Done(l) -> 1 .. n] :
          \A v \in Done(l) : \A c \in Kids(l, v) \cap Done(l) : rank[c] < rank[v]
    BY DEF Marked, DoneRanked
  <2>2. n \in Nat /\ Cardinality(Done(r)) = n + 1
    <3>1. IsFiniteSet(Done(l)) /\ n \in Nat
      BY DoneFinite
    <3>2. Cardinality(Done(l) \cup {j}) = Cardinality(Done(l)) + 1
      BY <1>7, <3>1, FS_AddElement
    <3> QED
      BY <1>7, <3>1, <3>2
  <2> HIDE DEF n
  <2> DEFINE more == [v \in Done(r) |-> IF v = j THEN n + 1 ELSE rank[v]]
  <2>3. more \in [Done(r) -> 1 .. n + 1]
    <3>1. ASSUME NEW v \in Done(r)
          PROVE (IF v = j THEN n + 1 ELSE rank[v]) \in 1 .. n + 1
      <4>1. CASE v = j
        BY <4>1, <2>2
      <4>2. CASE v # j
        <5>1. rank[v] \in 1 .. n
          BY <4>2, <1>7, <2>1
        <5> QED
          BY <4>2, <5>1, <2>2
      <4> QED
        BY <4>1, <4>2
    <3> QED
      BY <3>1
  <2>4. ASSUME NEW v \in Done(r), NEW c \in Kids(r, v) \cap Done(r)
        PROVE more[c] < more[v]
    <3>1. c \in Kids(l, v) /\ v \in 0 .. l.maxvar /\ c \in 0 .. l.maxvar
      BY <1>1, <1>7, <1>8, <1>10
    <3>2. l.types[c].kind = "and"
      BY <3>1, <1>1, <1>7 DEF Done
    <3>3. c \in Done(l) /\ c # j
      BY <3>1, <3>2, <1>7, <1>11
    <3>4. CASE v = j
      BY <3>3, <3>4, <2>1, <2>2, <1>7
    <3>5. CASE v # j
      BY <3>1, <3>3, <3>5, <2>1, <1>7
    <3> QED
      BY <3>4, <3>5
  <2> HIDE DEF more
  <2> QED
    BY <2>2, <2>3, <2>4 DEF DoneRanked
<1> QED
  BY <1>2, <1>5, <1>6, <1>7, <1>9, <1>12, <1>13 DEF Marked

(* When no gate is left, the order in which they were left shows that none
   is its own ancestor. *)
LEMMA AllDoneNoCycles ==
  ASSUME NEW l, IsLibrary(l), Built(l), Marked(l), Quiet(l),
         \A v \in 1 .. l.maxvar : l.types[v].kind = "and" => l.types[v].mark
  PROVE  AG!NoCycles(View(l))
<1> DEFINE D == Done(l)
           G == DOMAIN l.ands
           f == [v \in D |-> l.types[v].idx]
<1>1. l.maxvar \in Nat /\ l.ands \in Seq(AG!And)
  BY LibraryFields
<1>2. ASSUME NEW v \in 0 .. l.maxvar, l.types[v].kind = "and" PROVE v \in D
  <2>1. v # 0
    BY <1>2 DEF Built, KindsRight
  <2> QED
    BY <1>1, <1>2, <2>1 DEF Done, Quiet
<1>3. ASSUME NEW k \in G
      PROVE /\ Var(l.ands[k].lhs) \in D /\ l.types[Var(l.ands[k].lhs)].idx = k
  <2>1. Defines(l, l.ands[k].lhs, "and", k) /\ l.ands[k].lhs \in Nat
    BY EntriesTyped DEF Built, GatesDefined
  <2>2. Var(l.ands[k].lhs) \in Nat
    BY <2>1, VarNat
  <2>3. Var(l.ands[k].lhs) \in 0 .. l.maxvar
    BY <1>1, <2>1, <2>2 DEF Defines, Within
  <2> QED
    BY <1>2, <2>1, <2>3 DEF Defines
<1>4. ASSUME NEW v \in D
      PROVE l.types[v].idx \in G /\ Var(l.ands[l.types[v].idx].lhs) = v
  BY DEF Done, Built, KindsRight
<1>5. Cardinality(D) = Len(l.ands)
  <2>1. f \in Bijection(D, G)
    <3>1. f \in [D -> G]
      BY <1>4
    <3>2. \A a, b \in D : f[a] = f[b] => a = b
      BY <1>4
    <3>3. \A k \in G : \E v \in D : f[v] = k
      BY <1>3
    <3> HIDE DEF f, D, G
    <3> QED
      BY <3>1, <3>2, <3>3 DEF Bijection, Injection, Surjection, IsInjective
  <2>2. ExistsBijection(D, G)
    BY <2>1 DEF ExistsBijection
  <2>3. IsFiniteSet(G) /\ Cardinality(G) = Len(l.ands)
    <3>1. G = 1 .. Len(l.ands) /\ Len(l.ands) \in Nat
      BY <1>1
    <3> QED
      BY <3>1, FS_Interval
  <2>4. IsFiniteSet(D)
    BY DoneFinite
  <2> QED
    BY <2>2, <2>3, <2>4, FS_Bijection
<1>6. PICK rank \in [D -> 1 .. Len(l.ands)] :
        \A v \in D : \A c \in Kids(l, v) \cap D : rank[c] < rank[v]
  BY <1>5 DEF Marked, DoneRanked
<1> DEFINE order == [k \in G |-> rank[Var(l.ands[k].lhs)]]
<1>7. order \in [G -> G]
  BY <1>1, <1>3, <1>6
<1>8. ASSUME NEW k \in G, NEW m \in G,
             Var(l.ands[m].lhs) \in {Var(l.ands[k].rhs0), Var(l.ands[k].rhs1)}
      PROVE order[m] < order[k]
  <2> DEFINE v == Var(l.ands[k].lhs)
             c == Var(l.ands[m].lhs)
  <2>1. v \in D /\ c \in D /\ Read(l, v) = l.ands[k]
    BY <1>3 DEF Read
  <2>2. c # 0
    BY <2>1 DEF Done, Built, KindsRight
  <2>3. c \in Kids(l, v)
    BY <1>8, <2>1, <2>2 DEF Kids
  <2> QED
    BY <1>6, <2>1, <2>3
<1> HIDE DEF order
<1> QED
  BY <1>7, <1>8, ViewFields DEF AG!NoCycles, Var

-----------------------------------------------------------------------------
(* Steps of the cycle check. *)

(* An entry is popped from the stack. *)
LEMMA FrontFacts ==
  ASSUME NEW S, NEW s \in Seq(S), s # <<>>
  PROVE  /\ Front(s) \in Seq(S) /\ Len(Front(s)) = Len(s) - 1 /\ Len(s) >= 1
         /\ \A i \in 1 .. Len(s) - 1 : Front(s)[i] = s[i]
<1>1. Len(s) \in Nat /\ Len(s) >= 1 /\ DOMAIN s = 1 .. Len(s)
  OBVIOUS
<1>2. Len(s) - 1 \in Nat /\ Front(s) = SubSeq(s, 1, Len(s) - 1)
  BY <1>1 DEF Front
<1> DEFINE k == Len(s) - 1
<1>4. Front(s) \in Seq(S)
  BY <1>1, <1>2
<1>5. Len(Front(s)) = k
  BY <1>1, <1>2
<1>6. ASSUME NEW i \in 1 .. k PROVE Front(s)[i] = s[i]
  BY <1>1, <1>2
<1> QED
  BY <1>1, <1>4, <1>5, <1>6

(* The children that are pushed are what the gate reads. *)
LEMMA ChildrenFacts ==
  ASSUME IsLibrary(lib), Built(lib), NEW j, IsGate(lib, j)
  PROVE  /\ Children(j) \in Seq(0 .. lib.maxvar)
         /\ \A i \in DOMAIN Children(j) : Children(j)[i] # 0
         /\ ToSet(Children(j)) = Kids(lib, j)
<1> DEFINE a == Var(Read(lib, j).rhs0)
           b == Var(Read(lib, j).rhs1)
<1>1. Kids(lib, j) = {a, b} \ {0}
  BY DEF Kids
<1>2. {a, b} \ {0} \subseteq 0 .. lib.maxvar
  <2>1. lib.maxvar \in Nat
    BY LibraryFields
  <2> QED
    BY <1>1, <2>1, KidsRight
<1>3. GateOf(j) = Read(lib, j)
  BY DEF GateOf, Read
<1>4. Children(j) = NonZero(a) \o NonZero(b)
  BY <1>3 DEF Children
<1> HIDE DEF a, b
<1>5. CASE a = 0 /\ b = 0
  <2>1. Children(j) = <<>>
    BY <1>4, <1>5 DEF NonZero
  <2> QED
    BY <1>1, <1>5, <2>1 DEF ToSet
<1>6. CASE a = 0 /\ b # 0
  <2>1. Children(j) = <<b>> /\ b \in 0 .. lib.maxvar
    BY <1>2, <1>4, <1>6 DEF NonZero
  <2> QED
    BY <1>1, <1>6, <2>1 DEF ToSet
<1>7. CASE a # 0 /\ b = 0
  <2>1. Children(j) = <<a>> /\ a \in 0 .. lib.maxvar
    BY <1>2, <1>4, <1>7 DEF NonZero
  <2> QED
    BY <1>1, <1>7, <2>1 DEF ToSet
<1>8. CASE a # 0 /\ b # 0
  <2>2. a \in 0 .. lib.maxvar /\ b \in 0 .. lib.maxvar
    BY <1>2, <1>8
  <2>3. Children(j) = <<a>> \o <<b>>
    BY <1>4, <1>8 DEF NonZero
  <2>4. <<a>> \in Seq(0 .. lib.maxvar) /\ <<b>> \in Seq(0 .. lib.maxvar)
    BY <2>2
  <2> DEFINE t == Children(j)
  <2>5. t \in Seq(0 .. lib.maxvar) /\ Len(t) = 2 /\ t[1] = a /\ t[2] = b
    BY <2>3, <2>4
  <2>6. DOMAIN t = {1, 2}
    BY <2>5
  <2> HIDE DEF t
  <2>7. ToSet(t) = {a, b}
    BY <2>5, <2>6 DEF ToSet
  <2> QED
    BY <1>1, <1>8, <2>5, <2>6, <2>7 DEF t
<1> QED
  BY <1>5, <1>6, <1>7, <1>8

(* The stack with a gate opened on top. *)
LEMMA PushFacts ==
  ASSUME NEW S, 0 \in S, NEW s \in Seq(S), NEW cs \in Seq(S), NEW t, t = s \o << 0 >> \o cs
  PROVE  LET n == Len(s)
         IN /\ n \in Nat /\ t \in Seq(S) /\ Len(t) = n + 1 + Len(cs) /\ Len(cs) \in Nat
            /\ \A i \in 1 .. n : t[i] = s[i]
            /\ t[n + 1] = 0
            /\ \A i \in 1 .. Len(cs) : t[n + 1 + i] = cs[i]
OBVIOUS

-----------------------------------------------------------------------------
DescendParts(n) ==
  /\ stack' \in Seq(0 .. lib.maxvar) /\ n = Len(stack) /\ n \in Nat /\ n >= 1
  /\ Len(stack') \in Nat /\ Len(stack') > n
  /\ \A i \in 1 .. n : stack'[i] = stack[i]
  /\ stack'[n + 1] = 0
  /\ \A i \in n + 2 .. Len(stack') : stack'[i] \in Kids(lib, stack[n]) /\ stack'[i] # 0
  /\ \A c \in Kids(lib, stack[n]) : \E i \in n + 2 .. Len(stack') : stack'[i] = c
  /\ stack[n] # 0 /\ IsGate(lib, stack[n]) /\ ~lib.types[stack[n]].mark
  /\ lib' = Entered(lib, stack[n])

(* A gate is entered: it is marked, a 0 follows it on the stack and then
   what it reads. *)
LEMMA DescendFacts ==
  ASSUME IsLibrary(lib), Built(lib), stack \in Seq(0 .. lib.maxvar), Descend
  PROVE  DescendParts(Len(stack))
<1> DEFINE n == Len(stack)
           j == stack[n]
<1>1. n \in Nat /\ n >= 1 /\ Last(stack) = j /\ lib.maxvar \in Nat
  BY LibraryFields DEF Descend, Last
<1>2. j \in 0 .. lib.maxvar
  BY <1>1
<1>3. /\ j # 0 /\ IsGate(lib, j) /\ ~lib.types[j].mark
      /\ lib' = Entered(lib, j)
      /\ stack' = stack \o <<0>> \o Children(j)
  BY <1>1, <1>2 DEF Descend, Type, IsGate, Entered
<1> HIDE DEF j
<1>4. /\ Children(j) \in Seq(0 .. lib.maxvar)
      /\ \A i \in DOMAIN Children(j) : Children(j)[i] # 0
      /\ ToSet(Children(j)) = Kids(lib, j)
  BY <1>3, ChildrenFacts
<1> DEFINE cs == Children(j)
<1>5. /\ stack' \in Seq(0 .. lib.maxvar) /\ Len(stack') = n + 1 + Len(cs) /\ Len(cs) \in Nat
      /\ \A i \in 1 .. n : stack'[i] = stack[i]
      /\ stack'[n + 1] = 0
      /\ \A i \in 1 .. Len(cs) : stack'[n + 1 + i] = cs[i]
  <2>1. 0 \in 0 .. lib.maxvar
    BY <1>1
  <2> QED
    BY <2>1, <1>3, <1>4, PushFacts
<1>6. /\ DOMAIN cs = 1 .. Len(cs)
      /\ \A c : c \in Kids(lib, j) <=> \E i \in 1 .. Len(cs) : cs[i] = c
  BY <1>4 DEF ToSet
<1> HIDE DEF cs, n
<1>7. ASSUME NEW i \in n + 2 .. Len(stack')
      PROVE stack'[i] \in Kids(lib, j) /\ stack'[i] # 0
  <2>1. i - (n + 1) \in 1 .. Len(cs) /\ i = n + 1 + (i - (n + 1))
    BY <1>1, <1>5
  <2>2. stack'[i] = cs[i - (n + 1)]
    BY <2>1, <1>5
  <2> QED
    BY <2>1, <2>2, <1>4, <1>6 DEF cs
<1>8. ASSUME NEW c \in Kids(lib, j)
      PROVE \E i \in n + 2 .. Len(stack') : stack'[i] = c
  <2>1. PICK k \in 1 .. Len(cs) : cs[k] = c
    BY <1>6
  <2>2. n + 1 + k \in n + 2 .. Len(stack') /\ stack'[n + 1 + k] = c
    BY <2>1, <1>1, <1>5
  <2> QED
    BY <2>2
<1> QED
  <2>1. /\ stack' \in Seq(0 .. lib.maxvar) /\ Len(stack') \in Nat /\ Len(stack') > n
    BY <1>1, <1>5
  <2>2. n = Len(stack) /\ j = stack[n]
    BY DEF n, j
  <2>3. /\ stack[n] # 0 /\ IsGate(lib, stack[n]) /\ ~lib.types[stack[n]].mark
        /\ lib' = Entered(lib, stack[n])
    BY <1>3, <2>2
  <2>4. /\ \A i \in n + 2 .. Len(stack') : stack'[i] \in Kids(lib, stack[n]) /\ stack'[i] # 0
        /\ \A c \in Kids(lib, stack[n]) : \E i \in n + 2 .. Len(stack') : stack'[i] = c
    BY <1>7, <1>8, <2>2
  <2>5. DescendParts(n)
    BY <1>1, <1>5, <2>1, <2>2, <2>3, <2>4 DEF DescendParts
  <2> QED
    BY <2>2, <2>5

(* The positions that a 0 follows. *)
LEMMA OpenAtFacts ==
  ASSUME NEW S, stack \in Seq(S)
  PROVE  /\ Len(stack) \in Nat
         /\ OpenAt = {i \in 1 .. Len(stack) - 1 : stack[i + 1] = 0}
<1>1. Len(stack) \in Nat /\ DOMAIN stack = 1 .. Len(stack)
  OBVIOUS
<1>2. \A i \in 1 .. Len(stack) : i < Len(stack) <=> i \in 1 .. Len(stack) - 1
  BY <1>1
<1> QED
  BY <1>1, <1>2 DEF OpenAt

(* The same of the state after a step. *)
LEMMA OpenAtPrimed ==
  ASSUME NEW S, stack' \in Seq(S)
  PROVE  /\ Len(stack') \in Nat
         /\ OpenAt' = {i \in 1 .. Len(stack') - 1 : stack'[i + 1] = 0}
<1>1. Len(stack') \in Nat /\ DOMAIN stack' = 1 .. Len(stack')
  OBVIOUS
<1>2. \A i \in 1 .. Len(stack') : i < Len(stack') <=> i \in 1 .. Len(stack') - 1
  BY <1>1
<1> QED
  BY <1>1, <1>2 DEF OpenAt

(* A gate that is entered is the last that is open. *)
LEMMA DescendOpens ==
  ASSUME IsLibrary(lib), stack \in Seq(0 .. lib.maxvar), NEW n, DescendParts(n), ZerosApart
  PROVE  OpenAt' = OpenAt \cup {n} /\ n \notin OpenAt /\ OpenAt \subseteq 1 .. n - 1
         /\ ZerosApart'
<1>1. /\ n \in Nat /\ n >= 1 /\ Len(stack') \in Nat /\ Len(stack') > n
      /\ \A i \in 1 .. n : stack'[i] = stack[i]
      /\ stack'[n + 1] = 0 /\ stack[n] # 0
      /\ \A i \in n + 2 .. Len(stack') : stack'[i] # 0
      /\ stack' \in Seq(0 .. lib.maxvar) /\ n = Len(stack)
  BY DEF DescendParts
<1>2. OpenAt = {i \in 1 .. n - 1 : stack[i + 1] = 0}
  BY <1>1, OpenAtFacts
<1>3. OpenAt' = {i \in 1 .. Len(stack') - 1 : stack'[i + 1] = 0}
  BY <1>1, OpenAtPrimed
<1>4. ASSUME NEW i \in 1 .. Len(stack') - 1
      PROVE stack'[i + 1] = 0 <=> i = n \/ (i \in 1 .. n - 1 /\ stack[i + 1] = 0)
  <2>1. CASE i < n
    BY <2>1, <1>1
  <2>2. CASE i = n
    BY <2>2, <1>1
  <2>3. CASE i > n
    <3>1. i + 1 \in n + 2 .. Len(stack')
      BY <2>3, <1>1
    <3> QED
      BY <2>3, <3>1, <1>1
  <2> QED
    BY <1>1, <2>1, <2>2, <2>3
<1>5. n \in 1 .. Len(stack') - 1 /\ \A i \in 1 .. n - 1 : i \in 1 .. Len(stack') - 1
  BY <1>1
<1>6. OpenAt' = OpenAt \cup {n}
  BY <1>2, <1>3, <1>4, <1>5
<1>7. stack' # <<>> /\ stack'[1] # 0
  BY <1>1 DEF ZerosApart
<1>8. ASSUME NEW i \in 1 .. Len(stack') - 1 PROVE stack'[i] # 0 \/ stack'[i + 1] # 0
  <2>1. CASE i < n
    <3>1. i \in 1 .. Len(stack) - 1 /\ i + 1 \in 1 .. n /\ i \in 1 .. n
      BY <2>1, <1>1
    <3> QED
      BY <3>1, <1>1 DEF ZerosApart
  <2>2. CASE i = n
    BY <2>2, <1>1
  <2>3. CASE i > n
    <3>1. i + 1 \in n + 2 .. Len(stack')
      BY <2>3, <1>1
    <3> QED
      BY <3>1, <1>1
  <2> QED
    BY <1>1, <2>1, <2>2, <2>3
<1> QED
  BY <1>1, <1>2, <1>6, <1>7, <1>8 DEF ZerosApart

-----------------------------------------------------------------------------
(* What a step of the search starts from. *)
Ready4Search ==
  /\ IsLibrary(lib) /\ Built(lib) /\ Marked(lib) /\ root \in Nat
  /\ stack \in Seq(0 .. lib.maxvar) /\ SearchState

(* Entering a gate keeps what the search relies on. *)
LEMMA DescendRight ==
  ASSUME Ready4Search, Descend
  PROVE  Ready4Search' /\ Remarked(lib, lib')
<1>1. /\ IsLibrary(lib) /\ Built(lib) /\ Marked(lib) /\ root \in Nat
      /\ stack \in Seq(0 .. lib.maxvar) /\ lib.error = "none" /\ AllDefined(lib)
      /\ ZerosApart /\ OpenOnStack /\ ReadByParent /\ ChildrenWait /\ RootsEntered
  BY DEF Ready4Search, SearchState
<1>14. PICK n : n = Len(stack)
  OBVIOUS
<1>15. PICK j : j = stack[n]
  OBVIOUS
<1>2. DescendParts(n)
  BY <1>1, <1>14, DescendFacts
<1>3. OpenAt' = OpenAt \cup {n} /\ n \notin OpenAt /\ OpenAt \subseteq 1 .. n - 1 /\ ZerosApart'
  BY <1>1, <1>2, DescendOpens
<1>4. /\ stack' \in Seq(0 .. lib.maxvar) /\ n \in Nat /\ n >= 1
      /\ Len(stack') \in Nat /\ Len(stack') > n
      /\ \A i \in 1 .. n : stack'[i] = stack[i]
      /\ stack'[n + 1] = 0
      /\ \A i \in n + 2 .. Len(stack') : stack'[i] \in Kids(lib, j) /\ stack'[i] # 0
      /\ \A c \in Kids(lib, j) : \E i \in n + 2 .. Len(stack') : stack'[i] = c
      /\ j # 0 /\ IsGate(lib, j) /\ ~lib.types[j].mark
      /\ lib' = Entered(lib, j)
  BY <1>2, <1>15 DEF DescendParts
<1>5. n = Len(stack) /\ root' = root
  BY <1>14 DEF Descend
<1>6. /\ Remarked(lib, lib') /\ Marked(lib') /\ Done(lib') = Done(lib)
      /\ lib'.types[j].kind = "and" /\ lib'.types[j].mark /\ lib'.types[j].onstack
      /\ \A v \in 0 .. lib.maxvar : v # j => lib'.types[v] = lib.types[v]
  BY <1>1, <1>4, EnterMarked
<1>7. /\ IsLibrary(lib') /\ Built(lib') /\ AllDefined(lib') /\ lib'.maxvar = lib.maxvar
      /\ lib'.error = "none" /\ \A v \in 0 .. lib.maxvar : Kids(lib', v) = Kids(lib, v)
  BY <1>1, <1>6, RemarkedFields, RemarkedRight DEF Remarked
<1>8. /\ j \in 0 .. lib.maxvar /\ lib.types[j].kind = "and" /\ ~lib.types[j].mark
      /\ j = stack[n] /\ stack'[n] = j
  BY <1>4, <1>15 DEF IsGate
<1>9. ASSUME NEW i \in OpenAt
      PROVE /\ i \in 1 .. n - 1 /\ i \in Nat /\ i < n /\ i \in 1 .. n /\ stack'[i] = stack[i]
            /\ IsGate(lib, stack[i]) /\ stack[i] \in 0 .. lib.maxvar
            /\ stack[i] # j /\ lib.types[stack[i]].mark /\ lib.types[stack[i]].onstack
  <2>1. i \in 1 .. n - 1
    BY <1>3
  <2>2. i \in Nat /\ i < n /\ i \in 1 .. n
    BY <2>1, <1>4
  <2>3. IsGate(lib, stack[i]) /\ lib.types[stack[i]].mark /\ lib.types[stack[i]].onstack
    BY <1>1 DEF OpenOnStack, Type
  <2> QED
    BY <2>1, <2>2, <2>3, <1>4, <1>8 DEF IsGate
<1>10. OpenOnStack'
  <2>1. ASSUME NEW i \in OpenAt'
        PROVE IsGate(lib', stack'[i]) /\ lib'.types[stack'[i]].mark /\ lib'.types[stack'[i]].onstack
    <3>1. CASE i = n
      BY <3>1, <1>6, <1>7, <1>8 DEF IsGate
    <3>2. CASE i \in OpenAt
      BY <3>2, <1>6, <1>7, <1>9 DEF IsGate
    <3> QED
      BY <3>1, <3>2, <1>3
  <2>2. ASSUME NEW i \in OpenAt', NEW k \in OpenAt', stack'[i] = stack'[k] PROVE i = k
    <3>1. CASE i = n /\ k \in OpenAt
      BY <3>1, <2>2, <1>8, <1>9
    <3>2. CASE i \in OpenAt /\ k = n
      BY <3>2, <2>2, <1>8, <1>9
    <3>3. CASE i \in OpenAt /\ k \in OpenAt
      <4>1. stack[i] = stack[k]
        BY <3>3, <2>2, <1>9
      <4> QED
        BY <3>3, <4>1, <1>1 DEF OpenOnStack
    <3> QED
      BY <3>1, <3>2, <3>3, <1>3
  <2>3. ASSUME NEW v \in 0 .. lib'.maxvar, lib'.types[v].onstack
        PROVE \E i \in OpenAt' : stack'[i] = v
    <3>1. CASE v = j
      BY <3>1, <1>3, <1>8
    <3>2. CASE v # j
      <4>1. lib.types[v].onstack /\ v \in 0 .. lib.maxvar
        BY <3>2, <2>3, <1>6, <1>7
      <4>2. PICK i \in OpenAt : stack[i] = v
        BY <4>1, <1>1 DEF OpenOnStack, Type
      <4> QED
        BY <4>2, <1>3, <1>9
    <3> QED
      BY <3>1, <3>2
  <2> QED
    BY <2>1, <2>2, <2>3 DEF OpenOnStack, Type
<1>11. ReadByParent'
  <2> SUFFICES ASSUME NEW p \in 2 .. Len(stack'), stack'[p] # 0
               PROVE  \E i \in OpenAt' : Under(i, p)' /\ stack'[p] \in Kids(lib', stack'[i])
    BY DEF ReadByParent
  <2>1. CASE p <= n
    <3>1. p \in 2 .. Len(stack) /\ stack'[p] = stack[p]
      BY <2>1, <1>4, <1>5
    <3>2. PICK i \in OpenAt : Under(i, p) /\ stack[p] \in Kids(lib, stack[i])
      BY <3>1, <1>1 DEF ReadByParent
    <3>3. Under(i, p)'
      BY <3>2, <2>1, <1>3, <1>4 DEF Under
    <3>4. Kids(lib', stack'[i]) = Kids(lib, stack[i])
      BY <1>7, <1>9
    <3> QED
      BY <3>1, <3>2, <3>3, <3>4, <1>3
  <2>2. CASE p > n
    <3>1. p \in n + 2 .. Len(stack')
      BY <2>2, <1>4
    <3>2. stack'[p] \in Kids(lib', stack'[n])
      BY <3>1, <1>4, <1>7, <1>8
    <3>3. Under(n, p)'
      BY <2>2, <1>3, <1>4, <1>9 DEF Under
    <3> QED
      BY <3>2, <3>3, <1>3
  <2> QED
    BY <2>1, <2>2, <1>4
<1>12. ChildrenWait'
  <2> SUFFICES ASSUME NEW i \in OpenAt', NEW c \in Kids(lib', stack'[i])
               PROVE  \/ lib'.types[c].kind # "and" \/ c \in Done(lib')
                      \/ \E p \in i + 1 .. Len(stack') : stack'[p] = c
    BY DEF ChildrenWait, Type
  <2>1. CASE i = n
    <3>1. c \in Kids(lib, j)
      BY <2>1, <1>7, <1>8
    <3>2. PICK p \in n + 2 .. Len(stack') : stack'[p] = c
      BY <3>1, <1>4
    <3>3. p \in i + 1 .. Len(stack')
      BY <2>1, <1>4
    <3> QED
      BY <3>2, <3>3
  <2>2. CASE i \in OpenAt
    <3>1. c \in Kids(lib, stack[i])
      BY <2>2, <1>7, <1>9
    <3>2. c \in 0 .. lib.maxvar
      BY <3>1, <2>2, <1>1, <1>9, KidsRight, LibraryFields
    <3>3. CASE lib.types[c].kind # "and"
      BY <3>2, <3>3, <1>6, <1>8
    <3>4. CASE c \in Done(lib)
      BY <3>4, <1>6
    <3>5. CASE \E p \in i + 1 .. Len(stack) : stack[p] = c
      <4>1. PICK p \in i + 1 .. Len(stack) : stack[p] = c
        BY <3>5
      <4>2. p \in 1 .. n /\ p \in i + 1 .. Len(stack')
        BY <2>2, <1>4, <1>5, <1>9
      <4> QED
        BY <4>1, <4>2, <1>4
    <3> QED
      BY <2>2, <3>1, <3>3, <3>4, <3>5, <1>1 DEF ChildrenWait, Type
  <2> QED
    BY <2>1, <2>2, <1>3
<1>13. RootsEntered'
  <2>1. root' >= 1
    BY <1>1, <1>5 DEF RootsEntered
  <2>2. stack' # <<>> /\ stack'[1] = stack[1]
    BY <1>4
  <2>3. ASSUME NEW v \in 1 .. lib'.maxvar, v < root', lib'.types[v].kind = "and"
        PROVE lib'.types[v].mark \/ stack'[1] = v
    <3>1. v \in 0 .. lib.maxvar /\ v \in 1 .. lib.maxvar
      BY <1>1, <1>7, LibraryFields
    <3>2. CASE v = j
      BY <3>2, <1>6
    <3>3. CASE v # j
      <4>1. lib.types[v].kind = "and" /\ v < root
        BY <2>3, <3>1, <3>3, <1>5, <1>6
      <4>2. lib.types[v].mark \/ stack[1] = v
        BY <4>1, <3>1, <1>1 DEF RootsEntered, Type
      <4> QED
        BY <4>2, <3>1, <3>3, <1>6, <2>2
    <3> QED
      BY <3>2, <3>3
  <2> QED
    BY <2>1, <2>2, <2>3 DEF RootsEntered, Type
<1> QED
  BY <1>1, <1>3, <1>4, <1>5, <1>6, <1>7, <1>10, <1>11, <1>12, <1>13
  DEF Ready4Search, SearchState

-----------------------------------------------------------------------------
VisitedParts(n) ==
  /\ n = Len(stack) /\ n \in Nat /\ n >= 1
  /\ stack' \in Seq(0 .. lib.maxvar) /\ Len(stack') = n - 1
  /\ \A i \in 1 .. n - 1 : stack'[i] = stack[i]
  /\ stack[n] # 0 /\ stack[n] \in 0 .. lib.maxvar
  /\ lib.types[stack[n]].kind # "and" \/ stack[n] \in Done(lib)
  /\ lib' = lib /\ root' = root

(* An entry that is no gate, or one that has been searched, is popped. *)
LEMMA VisitedFacts ==
  ASSUME Ready4Search, Visited
  PROVE  VisitedParts(Len(stack))
<1>1. stack \in Seq(0 .. lib.maxvar) /\ stack # <<>> /\ lib.maxvar \in Nat
  BY LibraryFields DEF Ready4Search, Visited
<1>2. /\ stack' \in Seq(0 .. lib.maxvar) /\ Len(stack') = Len(stack) - 1 /\ Len(stack) >= 1
      /\ \A i \in 1 .. Len(stack) - 1 : stack'[i] = stack[i]
  BY <1>1, FrontFacts DEF Visited
<1>3. Len(stack) \in Nat /\ stack[Len(stack)] \in 0 .. lib.maxvar
  BY <1>1, <1>2
<1>4. /\ stack[Len(stack)] # 0 /\ lib' = lib /\ root' = root
      /\ lib.types[stack[Len(stack)]].kind # "and" \/ stack[Len(stack)] \in Done(lib)
  BY <1>3 DEF Visited, Last, Type, Done
<1> QED
  BY <1>2, <1>3, <1>4 DEF VisitedParts

(* Popping it keeps what the search relies on. *)
LEMMA VisitedRight ==
  ASSUME Ready4Search, Visited
  PROVE  Ready4Search' /\ lib' = lib
<1>1. /\ IsLibrary(lib) /\ Built(lib) /\ Marked(lib) /\ root \in Nat
      /\ stack \in Seq(0 .. lib.maxvar) /\ lib.error = "none" /\ AllDefined(lib)
      /\ ZerosApart /\ OpenOnStack /\ ReadByParent /\ ChildrenWait /\ RootsEntered
  BY DEF Ready4Search, SearchState
<1>2. PICK n : n = Len(stack)
  OBVIOUS
<1>3. /\ n \in Nat /\ n >= 1 /\ n = Len(stack)
      /\ stack' \in Seq(0 .. lib.maxvar) /\ Len(stack') = n - 1
      /\ \A i \in 1 .. n - 1 : stack'[i] = stack[i]
      /\ stack[n] # 0 /\ stack[n] \in 0 .. lib.maxvar
      /\ lib.types[stack[n]].kind # "and" \/ stack[n] \in Done(lib)
      /\ lib' = lib /\ root' = root
  BY <1>2, VisitedFacts DEF VisitedParts
<1>4. OpenAt' = OpenAt /\ OpenAt \subseteq 1 .. n - 2
  <2>1. OpenAt = {i \in 1 .. n - 1 : stack[i + 1] = 0}
    BY <1>1, <1>3, OpenAtFacts
  <2>2. OpenAt' = {i \in 1 .. n - 2 : stack'[i + 1] = 0}
    BY <1>3, OpenAtPrimed
  <2>3. ASSUME NEW i \in 1 .. n - 1, stack[i + 1] = 0
        PROVE i \in 1 .. n - 2 /\ stack'[i + 1] = 0
    <3>1. i # n - 1
      BY <2>3, <1>3
    <3>2. i \in 1 .. n - 2 /\ i + 1 \in 1 .. n - 1
      BY <3>1, <1>3
    <3> QED
      BY <3>2, <2>3, <1>3
  <2>4. ASSUME NEW i \in 1 .. n - 2, stack'[i + 1] = 0
        PROVE i \in 1 .. n - 1 /\ stack[i + 1] = 0
    <3>1. i \in 1 .. n - 1 /\ i + 1 \in 1 .. n - 1
      BY <1>3
    <3> QED
      BY <3>1, <2>4, <1>3
  <2>5. \A i : i \in OpenAt => i \in 1 .. n - 2 /\ i \in OpenAt'
    BY <2>1, <2>2, <2>3
  <2>6. \A i : i \in OpenAt' => i \in OpenAt
    BY <2>1, <2>2, <2>4
  <2> QED
    BY <2>5, <2>6
<1>5. \A i \in OpenAt : i \in 1 .. n - 1 /\ i \in 1 .. n /\ i \in Nat /\ stack'[i] = stack[i]
  BY <1>3, <1>4
<1>6. ZerosApart'
  <2>1. stack' # <<>> => stack'[1] # 0
    <3>1. stack # <<>>
      BY <1>3
    <3>2. stack' # <<>> => 1 \in 1 .. n - 1
      BY <1>3
    <3> QED
      BY <3>1, <3>2, <1>1, <1>3 DEF ZerosApart
  <2>2. ASSUME NEW i \in 1 .. Len(stack') - 1 PROVE stack'[i] # 0 \/ stack'[i + 1] # 0
    <3>1. i \in 1 .. Len(stack) - 1 /\ i \in 1 .. n - 1 /\ i + 1 \in 1 .. n - 1
      BY <1>3
    <3> QED
      BY <3>1, <1>1, <1>3 DEF ZerosApart
  <2> QED
    BY <2>1, <2>2 DEF ZerosApart
<1>7. OpenOnStack'
  <2>1. ASSUME NEW i \in OpenAt'
        PROVE IsGate(lib', stack'[i]) /\ lib'.types[stack'[i]].mark /\ lib'.types[stack'[i]].onstack
    BY <1>1, <1>3, <1>4, <1>5 DEF OpenOnStack, Type
  <2>2. ASSUME NEW i \in OpenAt', NEW k \in OpenAt', stack'[i] = stack'[k] PROVE i = k
    <3>1. stack[i] = stack[k] /\ i \in OpenAt /\ k \in OpenAt
      BY <2>2, <1>4, <1>5
    <3> QED
      BY <3>1, <1>1 DEF OpenOnStack
  <2>3. ASSUME NEW v \in 0 .. lib'.maxvar, lib'.types[v].onstack
        PROVE \E i \in OpenAt' : stack'[i] = v
    <3>1. PICK i \in OpenAt : stack[i] = v
      BY <2>3, <1>1, <1>3 DEF OpenOnStack, Type
    <3> QED
      BY <3>1, <1>4, <1>5
  <2> QED
    BY <2>1, <2>2, <2>3 DEF OpenOnStack, Type
<1>8. ReadByParent'
  <2> SUFFICES ASSUME NEW p \in 2 .. Len(stack'), stack'[p] # 0
               PROVE  \E i \in OpenAt' : Under(i, p)' /\ stack'[p] \in Kids(lib', stack'[i])
    BY DEF ReadByParent
  <2>1. p \in 2 .. Len(stack) /\ p \in 1 .. n - 1 /\ stack'[p] = stack[p]
    BY <1>3
  <2>2. PICK i \in OpenAt : Under(i, p) /\ stack[p] \in Kids(lib, stack[i])
    BY <2>1, <1>1 DEF ReadByParent
  <2>3. Under(i, p)'
    BY <2>2, <1>4 DEF Under
  <2> QED
    BY <2>1, <2>2, <2>3, <1>3, <1>4, <1>5
<1>9. ChildrenWait'
  <2> SUFFICES ASSUME NEW i \in OpenAt, NEW c \in Kids(lib, stack[i]),
                      ~(lib.types[c].kind # "and" \/ c \in Done(lib))
               PROVE  \E p \in i + 1 .. Len(stack') : stack'[p] = c
    BY <1>3, <1>4, <1>5 DEF ChildrenWait, Type
  <2>1. PICK p \in i + 1 .. Len(stack) : stack[p] = c
    BY <1>1 DEF ChildrenWait, Type
  <2>2. p # n
    BY <2>1, <1>3
  <2>3. p \in i + 1 .. Len(stack') /\ p \in 1 .. n - 1
    BY <2>2, <1>3, <1>5
  <2> QED
    BY <2>1, <2>3, <1>3
<1>10. RootsEntered'
  <2>1. ASSUME NEW v \in 1 .. lib.maxvar, v < root, lib.types[v].kind = "and"
        PROVE lib.types[v].mark \/ (stack' # <<>> /\ stack'[1] = v)
    <3>1. lib.types[v].mark \/ stack[1] = v
      BY <2>1, <1>1 DEF RootsEntered, Type
    <3>2. CASE n = 1
      BY <3>1, <3>2, <2>1, <1>3 DEF Done
    <3>3. CASE n > 1
      <4>1. 1 \in 1 .. n - 1 /\ stack' # <<>>
        BY <3>3, <1>3
      <4> QED
        BY <3>1, <4>1, <1>3
    <3> QED
      BY <3>2, <3>3, <1>3
  <2> QED
    BY <2>1, <1>1, <1>3 DEF RootsEntered, Type
<1> QED
  BY <1>1, <1>3, <1>6, <1>7, <1>8, <1>9, <1>10 DEF Ready4Search, SearchState

-----------------------------------------------------------------------------
LeaveParts(n) ==
  /\ n = Len(stack) /\ n \in Nat /\ n >= 2
  /\ stack' \in Seq(0 .. lib.maxvar) /\ Len(stack') = n - 2
  /\ \A i \in 1 .. n - 2 : stack'[i] = stack[i]
  /\ stack[n] = 0 /\ stack[n - 1] # 0
  /\ lib' = Left(lib, stack[n - 1]) /\ root' = root

(* A gate is left: its entry and the 0 above it are popped and it is no
   longer marked as being on the stack. *)
LEMMA LeaveFacts ==
  ASSUME Ready4Search, Leave
  PROVE  LeaveParts(Len(stack))
<1>1. /\ stack \in Seq(0 .. lib.maxvar) /\ stack # <<>> /\ lib.maxvar \in Nat
      /\ Len(stack) \in Nat /\ stack[Len(stack)] = 0 /\ ZerosApart
  BY LibraryFields DEF Ready4Search, SearchState, Leave, Last
<1>2. Len(stack) >= 2
  BY <1>1 DEF ZerosApart
<1>3. /\ Front(stack) \in Seq(0 .. lib.maxvar) /\ Len(Front(stack)) = Len(stack) - 1
      /\ \A i \in 1 .. Len(stack) - 1 : Front(stack)[i] = stack[i]
  BY <1>1, FrontFacts
<1>4. Front(stack) # <<>>
  BY <1>2, <1>3
<1>5. /\ Front(Front(stack)) \in Seq(0 .. lib.maxvar)
      /\ Len(Front(Front(stack))) = Len(Front(stack)) - 1
      /\ \A i \in 1 .. Len(Front(stack)) - 1 : Front(Front(stack))[i] = Front(stack)[i]
  BY <1>3, <1>4, FrontFacts
<1>6. /\ Len(Front(Front(stack))) = Len(stack) - 2
      /\ \A i \in 1 .. Len(stack) - 2 : Front(Front(stack))[i] = stack[i]
  BY <1>1, <1>2, <1>3, <1>5
<1>7. stack[Len(stack) - 1] # 0
  <2>1. Len(stack) - 1 \in 1 .. Len(stack) - 1 /\ Len(stack) - 1 + 1 = Len(stack)
    BY <1>1, <1>2
  <2> QED
    BY <2>1, <1>1 DEF ZerosApart
<1>8. Last(Front(stack)) = stack[Len(stack) - 1]
  <2>1. Len(stack) - 1 \in 1 .. Len(stack) - 1
    BY <1>1, <1>2
  <2> QED
    BY <2>1, <1>3 DEF Last
<1>9. stack' = Front(Front(stack)) /\ root' = root /\ lib' = Left(lib, Last(Front(stack)))
  BY DEF Leave, Left
<1> QED
  BY <1>1, <1>2, <1>5, <1>6, <1>7, <1>8, <1>9 DEF LeaveParts

(* Leaving a gate keeps what the search relies on: all that the gate reads
   is done, so the gate is. *)
LEMMA LeaveRight ==
  ASSUME Ready4Search, Leave
  PROVE  Ready4Search' /\ Remarked(lib, lib')
<1>1. /\ IsLibrary(lib) /\ Built(lib) /\ Marked(lib) /\ root \in Nat
      /\ stack \in Seq(0 .. lib.maxvar) /\ lib.error = "none" /\ AllDefined(lib)
      /\ ZerosApart /\ OpenOnStack /\ ReadByParent /\ ChildrenWait /\ RootsEntered
  BY DEF Ready4Search, SearchState
<1>2. PICK n : n = Len(stack)
  OBVIOUS
<1>3. PICK j : j = stack[n - 1]
  OBVIOUS
<1>4. /\ n \in Nat /\ n >= 2 /\ n = Len(stack)
      /\ stack' \in Seq(0 .. lib.maxvar) /\ Len(stack') = n - 2
      /\ \A i \in 1 .. n - 2 : stack'[i] = stack[i]
      /\ stack[n] = 0 /\ j # 0 /\ j = stack[n - 1]
      /\ lib' = Left(lib, j) /\ root' = root
  BY <1>2, <1>3, LeaveFacts DEF LeaveParts
<1>5. OpenAt' = OpenAt \ {n - 1} /\ n - 1 \in OpenAt /\ OpenAt \subseteq 1 .. n - 1
  <2>1. OpenAt = {i \in 1 .. n - 1 : stack[i + 1] = 0}
    BY <1>1, <1>4, OpenAtFacts
  <2>2. OpenAt' = {i \in 1 .. n - 3 : stack'[i + 1] = 0}
    BY <1>4, OpenAtPrimed
  <2>3. n - 1 \in OpenAt
    <3>1. n - 1 \in 1 .. n - 1 /\ n - 1 + 1 = n
      BY <1>4
    <3> QED
      BY <2>1, <3>1, <1>4
  <2>4. ASSUME NEW i \in 1 .. n - 1, stack[i + 1] = 0, i # n - 1
        PROVE i \in 1 .. n - 3 /\ stack'[i + 1] = 0
    <3>1. i # n - 2
      BY <2>4, <1>4
    <3>2. i \in 1 .. n - 3 /\ i + 1 \in 1 .. n - 2
      BY <3>1, <2>4, <1>4
    <3> QED
      BY <3>2, <2>4, <1>4
  <2>5. ASSUME NEW i \in 1 .. n - 3, stack'[i + 1] = 0
        PROVE i \in 1 .. n - 1 /\ stack[i + 1] = 0 /\ i # n - 1
    <3>1. i \in 1 .. n - 1 /\ i + 1 \in 1 .. n - 2 /\ i # n - 1
      BY <1>4
    <3> QED
      BY <3>1, <2>5, <1>4
  <2>6. \A i : i \in OpenAt \ {n - 1} => i \in OpenAt'
    BY <2>1, <2>2, <2>4
  <2>7. \A i : i \in OpenAt' => i \in OpenAt \ {n - 1}
    BY <2>1, <2>2, <2>5
  <2> QED
    BY <2>1, <2>3, <2>6, <2>7
<1>6. ASSUME NEW i \in OpenAt'
      PROVE i \in OpenAt /\ i # n - 1 /\ i \in 1 .. n - 2 /\ i \in Nat /\ stack'[i] = stack[i]
  <2>1. i \in OpenAt /\ i # n - 1 /\ i \in 1 .. n - 1
    BY <1>5
  <2>2. i \in 1 .. n - 2
    BY <2>1, <1>4
  <2> QED
    BY <2>1, <2>2, <1>4
<1>7. IsGate(lib, j) /\ lib.types[j].mark /\ lib.types[j].onstack
  BY <1>1, <1>4, <1>5 DEF OpenOnStack, Type
<1>8. ASSUME NEW c \in Kids(lib, j), lib.types[c].kind = "and" PROVE c \in Done(lib)
  <2>1. c # 0
    BY DEF Kids
  <2>2. \A p \in (n - 1) + 1 .. Len(stack) : stack[p] # c
    BY <2>1, <1>4
  <2>3. c \in Kids(lib, stack[n - 1])
    BY <1>4
  <2> QED
    BY <1>8, <2>2, <2>3, <1>1, <1>5 DEF ChildrenWait, Type
<1>9. /\ Remarked(lib, lib') /\ Marked(lib') /\ Done(lib') = Done(lib) \cup {j}
      /\ lib'.types[j].kind = "and" /\ lib'.types[j].mark /\ ~lib'.types[j].onstack
      /\ \A v \in 0 .. lib.maxvar : v # j => lib'.types[v] = lib.types[v]
  BY <1>1, <1>4, <1>7, <1>8, LeaveMarked
<1>10. /\ IsLibrary(lib') /\ Built(lib') /\ AllDefined(lib') /\ lib'.maxvar = lib.maxvar
       /\ lib'.error = "none" /\ \A v \in 0 .. lib.maxvar : Kids(lib', v) = Kids(lib, v)
  BY <1>1, <1>9, RemarkedFields, RemarkedRight DEF Remarked
<1>11. ASSUME NEW i \in OpenAt'
       PROVE /\ IsGate(lib, stack[i]) /\ stack[i] \in 0 .. lib.maxvar /\ stack[i] # j
             /\ lib.types[stack[i]].mark /\ lib.types[stack[i]].onstack
             /\ lib.types[stack[i]].kind = "and"
             /\ lib'.types[stack[i]] = lib.types[stack[i]]
  <2>1. IsGate(lib, stack[i]) /\ lib.types[stack[i]].mark /\ lib.types[stack[i]].onstack
    BY <1>1, <1>6 DEF OpenOnStack, Type
  <2>2. stack[i] # j
    BY <1>1, <1>4, <1>5, <1>6 DEF OpenOnStack
  <2> QED
    BY <2>1, <2>2, <1>9 DEF IsGate
<1>12. ZerosApart'
  <2>1. stack' # <<>> => stack'[1] # 0
    <3>1. stack # <<>>
      BY <1>4
    <3>2. stack' # <<>> => 1 \in 1 .. n - 2
      BY <1>4
    <3> QED
      BY <3>1, <3>2, <1>1, <1>4 DEF ZerosApart
  <2>2. ASSUME NEW i \in 1 .. Len(stack') - 1 PROVE stack'[i] # 0 \/ stack'[i + 1] # 0
    <3>1. i \in 1 .. Len(stack) - 1 /\ i \in 1 .. n - 2 /\ i + 1 \in 1 .. n - 2
      BY <1>4
    <3> QED
      BY <3>1, <1>1, <1>4 DEF ZerosApart
  <2> QED
    BY <2>1, <2>2 DEF ZerosApart
<1>13. OpenOnStack'
  <2>1. ASSUME NEW i \in OpenAt'
        PROVE IsGate(lib', stack'[i]) /\ lib'.types[stack'[i]].mark /\ lib'.types[stack'[i]].onstack
    BY <1>6, <1>10, <1>11 DEF IsGate
  <2>2. ASSUME NEW i \in OpenAt', NEW k \in OpenAt', stack'[i] = stack'[k] PROVE i = k
    <3>1. stack[i] = stack[k] /\ i \in OpenAt /\ k \in OpenAt
      BY <2>2, <1>6
    <3> QED
      BY <3>1, <1>1 DEF OpenOnStack
  <2>3. ASSUME NEW v \in 0 .. lib'.maxvar, lib'.types[v].onstack
        PROVE \E i \in OpenAt' : stack'[i] = v
    <3>1. v # j
      BY <2>3, <1>9
    <3>2. lib.types[v].onstack /\ v \in 0 .. lib.maxvar
      BY <3>1, <2>3, <1>9, <1>10
    <3>3. PICK i \in OpenAt : stack[i] = v
      BY <3>2, <1>1 DEF OpenOnStack, Type
    <3>4. i # n - 1
      BY <3>1, <3>3, <1>4
    <3> QED
      BY <3>3, <3>4, <1>5, <1>6
  <2> QED
    BY <2>1, <2>2, <2>3 DEF OpenOnStack, Type
<1>14. ReadByParent'
  <2> SUFFICES ASSUME NEW p \in 2 .. Len(stack'), stack'[p] # 0
               PROVE  \E i \in OpenAt' : Under(i, p)' /\ stack'[p] \in Kids(lib', stack'[i])
    BY DEF ReadByParent
  <2>1. p \in 2 .. Len(stack) /\ p \in 1 .. n - 2 /\ stack'[p] = stack[p] /\ p \in Nat
    BY <1>4
  <2>2. PICK i \in OpenAt : Under(i, p) /\ stack[p] \in Kids(lib, stack[i])
    BY <2>1, <1>1 DEF ReadByParent
  <2>3. i \in OpenAt'
    BY <2>1, <2>2, <1>4, <1>5 DEF Under
  <2>4. Under(i, p)'
    BY <2>2, <2>3, <1>5 DEF Under
  <2>5. Kids(lib', stack'[i]) = Kids(lib, stack[i])
    BY <2>3, <1>6, <1>10, <1>11
  <2> QED
    BY <2>1, <2>2, <2>3, <2>4, <2>5
<1>15. ChildrenWait'
  <2> SUFFICES ASSUME NEW i \in OpenAt', NEW c \in Kids(lib', stack'[i])
               PROVE  \/ lib'.types[c].kind # "and" \/ c \in Done(lib')
                      \/ \E p \in i + 1 .. Len(stack') : stack'[p] = c
    BY DEF ChildrenWait, Type
  <2>1. c \in Kids(lib, stack[i]) /\ i \in OpenAt
    BY <1>6, <1>10, <1>11
  <2>2. c \in 0 .. lib.maxvar /\ c # 0
    BY <2>1, <1>1, <1>11, KidsRight, LibraryFields
  <2>3. CASE lib.types[c].kind # "and"
    BY <2>2, <2>3, <1>7, <1>9 DEF IsGate
  <2>4. CASE c \in Done(lib)
    BY <2>4, <1>9
  <2>5. CASE \E p \in i + 1 .. Len(stack) : stack[p] = c
    <3>1. PICK p \in i + 1 .. Len(stack) : stack[p] = c
      BY <2>5
    <3>2. CASE p = n - 1
      BY <3>1, <3>2, <1>4, <1>9
    <3>3. CASE p # n - 1
      <4>1. p # n
        BY <3>1, <2>2, <1>4
      <4>2. p \in i + 1 .. Len(stack') /\ p \in 1 .. n - 2
        BY <3>3, <4>1, <1>4, <1>6
      <4> QED
        BY <3>1, <4>2, <1>4
    <3> QED
      BY <3>2, <3>3
  <2> QED
    BY <2>1, <2>3, <2>4, <2>5, <1>1 DEF ChildrenWait, Type
<1>16. RootsEntered'
  <2>1. root' >= 1
    BY <1>1, <1>4 DEF RootsEntered
  <2>2. ASSUME NEW v \in 1 .. lib'.maxvar, v < root', lib'.types[v].kind = "and"
        PROVE lib'.types[v].mark \/ (stack' # <<>> /\ stack'[1] = v)
    <3>1. v \in 0 .. lib.maxvar /\ v \in 1 .. lib.maxvar
      BY <1>1, <1>10, LibraryFields
    <3>2. CASE v = j
      BY <3>2, <1>9
    <3>3. CASE v # j
      <4>1. lib.types[v].mark \/ stack[1] = v
        BY <2>2, <3>1, <3>3, <1>1, <1>4, <1>9 DEF RootsEntered, Type
      <4>2. stack[1] = v => 1 \in 1 .. n - 2 /\ stack' # <<>>
        BY <3>3, <1>4
      <4> QED
        BY <4>1, <4>2, <3>1, <3>3, <1>4, <1>9
    <3> QED
      BY <3>2, <3>3
  <2> QED
    BY <2>1, <2>2 DEF RootsEntered, Type
<1> QED
  BY <1>1, <1>4, <1>9, <1>10, <1>12, <1>13, <1>14, <1>15, <1>16
  DEF Ready4Search, SearchState

-----------------------------------------------------------------------------
(* The search starts from the next variable. *)
LEMMA NextRootRight ==
  ASSUME Ready4Search, NextRoot
  PROVE  Ready4Search' /\ lib' = lib
<1>1. /\ IsLibrary(lib) /\ Built(lib) /\ Marked(lib) /\ root \in Nat
      /\ stack \in Seq(0 .. lib.maxvar) /\ lib.error = "none" /\ AllDefined(lib)
      /\ OpenOnStack /\ RootsEntered
  BY DEF Ready4Search, SearchState
<1>2. /\ stack = <<>> /\ root <= lib.maxvar /\ root' = root + 1 /\ lib' = lib
      /\ stack' = IF lib.types[root].kind # "and" \/ lib.types[root].mark THEN <<>> ELSE <<root>>
      /\ root >= 1 /\ lib.maxvar \in Nat
  BY <1>1, LibraryFields DEF NextRoot, Type, RootsEntered
<1>3. /\ stack' \in Seq(0 .. lib.maxvar) /\ stack' \in {<<>>, <<root>>} /\ Len(stack') <= 1
      /\ Len(stack') \in Nat /\ root \in 0 .. lib.maxvar
      /\ stack' # <<>> => stack'[1] = root /\ root # 0
  <2>1. root \in 0 .. lib.maxvar /\ root # 0
    BY <1>1, <1>2
  <2>2. CASE stack' = <<>>
    BY <2>1, <2>2
  <2>3. CASE stack' = <<root>>
    BY <2>1, <2>3
  <2> QED
    BY <2>2, <2>3, <1>2
<1>4. OpenAt = {}
  BY <1>2 DEF OpenAt
<1>5. OpenAt' = {}
  <2>1. OpenAt' = {i \in 1 .. Len(stack') - 1 : stack'[i + 1] = 0}
    BY <1>3, OpenAtPrimed
  <2>2. (1 .. Len(stack') - 1) = {}
    BY <1>3
  <2> QED
    BY <2>1, <2>2
<1>6. ZerosApart'
  BY <1>3 DEF ZerosApart
<1>7. OpenOnStack'
  <2>1. \A v \in 0 .. lib.maxvar : ~lib.types[v].onstack
    BY <1>1, <1>4 DEF OpenOnStack, Type
  <2> QED
    BY <2>1, <1>2, <1>5 DEF OpenOnStack, Type
<1>8. ReadByParent'
  BY <1>3 DEF ReadByParent
<1>9. ChildrenWait'
  BY <1>5 DEF ChildrenWait
<1>10. RootsEntered'
  <2>1. ASSUME NEW v \in 1 .. lib.maxvar, v < root', lib.types[v].kind = "and"
        PROVE lib.types[v].mark \/ (stack' # <<>> /\ stack'[1] = v)
    <3>1. CASE v < root
      BY <2>1, <3>1, <1>1, <1>2 DEF RootsEntered, Type
    <3>2. CASE v = root
      BY <2>1, <3>2, <1>2
    <3> QED
      BY <2>1, <3>1, <3>2, <1>1, <1>2
  <2> QED
    BY <2>1, <1>1, <1>2 DEF RootsEntered, Type
<1> QED
  BY <1>1, <1>2, <1>3, <1>6, <1>7, <1>8, <1>9, <1>10 DEF Ready4Search, SearchState

(* The search for cycles starts with nothing on its stack. *)
LEMMA StartRight ==
  ASSUME IsLibrary(lib), Built(lib), Marked(lib), Quiet(lib), lib.error = "none",
         AllDefined(lib), lib' = lib, root' = 1, stack' = <<>>
  PROVE  Ready4Search'
<1>1. lib.maxvar \in Nat /\ stack' \in Seq(0 .. lib.maxvar)
  BY LibraryFields
<1>2. OpenAt' = {}
  BY DEF OpenAt
<1>3. ZerosApart' /\ ReadByParent' /\ ChildrenWait'
  BY <1>2 DEF ZerosApart, ReadByParent, ChildrenWait
<1>4. OpenOnStack'
  BY <1>2 DEF OpenOnStack, Type, Quiet
<1>5. RootsEntered'
  BY <1>1 DEF RootsEntered
<1> QED
  BY <1>1, <1>3, <1>4, <1>5 DEF Ready4Search, SearchState

(* A search that comes to its end has met no cycle, and there is none. *)
LEMMA CheckedRight ==
  ASSUME Ready4Search, Checked
  PROVE  lib' = lib /\ Quiet(lib) /\ Consistent(lib)
<1>1. /\ IsLibrary(lib) /\ Built(lib) /\ Marked(lib) /\ root \in Nat
      /\ lib.error = "none" /\ AllDefined(lib) /\ OpenOnStack /\ RootsEntered
  BY DEF Ready4Search, SearchState
<1>2. stack = <<>> /\ root > lib.maxvar /\ lib' = lib /\ lib.maxvar \in Nat
  BY <1>1, LibraryFields DEF Checked
<1>3. OpenAt = {}
  BY <1>2 DEF OpenAt
<1>4. Quiet(lib)
  BY <1>1, <1>3 DEF OpenOnStack, Quiet, Type
<1>5. \A v \in 1 .. lib.maxvar : lib.types[v].kind = "and" => lib.types[v].mark
  BY <1>1, <1>2 DEF RootsEntered, Type
<1>6. AG!NoCycles(View(lib))
  BY <1>1, <1>4, <1>5, AllDoneNoCycles
<1>7. ASSUME NEW x \in SymbolLits(lib) \cup RightHandSides(lib)
      PROVE AG!LiteralDefined(View(lib), x)
  BY <1>1, LookedAt, DefinedExact DEF AllDefined
<1> QED
  BY <1>2, <1>4, <1>6, <1>7 DEF Consistent

-----------------------------------------------------------------------------
(* A numbering of the gates that shows that there is no cycle gives a gate
   that another one reads a smaller number. *)
LEMMA RankFalls ==
  ASSUME NEW l, IsLibrary(l), Built(l),
         NEW rank \in [DOMAIN l.ands -> DOMAIN l.ands],
         \A k, m \in DOMAIN l.ands :
           Var(l.ands[m].lhs) \in {Var(l.ands[k].rhs0), Var(l.ands[k].rhs1)}
             => rank[m] < rank[k],
         NEW v, IsGate(l, v), NEW c, IsGate(l, c), c \in Kids(l, v)
  PROVE  rank[l.types[c].idx] < rank[l.types[v].idx]
<1>1. /\ l.types[c].idx \in DOMAIN l.ands /\ Var(Read(l, c).lhs) = c
      /\ l.types[v].idx \in DOMAIN l.ands
  BY KidsRight
<1>2. c \in {Var(Read(l, v).rhs0), Var(Read(l, v).rhs1)}
  BY DEF Kids
<1> QED
  BY <1>1, <1>2 DEF Read

(* A gate that is met while it is on the stack is its own ancestor. *)
LEMMA CycleFoundRight ==
  ASSUME Ready4Search, CycleFound
  PROVE  ~AG!NoCycles(View(lib))
<1>1. /\ IsLibrary(lib) /\ Built(lib) /\ stack \in Seq(0 .. lib.maxvar)
      /\ OpenOnStack /\ ReadByParent /\ lib.maxvar \in Nat
  BY LibraryFields DEF Ready4Search, SearchState
<1> DEFINE n == Len(stack)
<1>2. /\ n \in Nat /\ n >= 1 /\ stack[n] \in 0 .. lib.maxvar
      /\ stack[n] # 0 /\ lib.types[stack[n]].onstack
  BY <1>1 DEF CycleFound, Last, Type
<1>3. OpenAt \subseteq 1 .. n - 1
  BY <1>1, OpenAtFacts
<1>4. PICK q \in OpenAt : stack[q] = stack[n]
  BY <1>1, <1>2 DEF OpenOnStack, Type
<1>5. n \in 2 .. Len(stack) /\ q \in 1 .. n - 1
  BY <1>2, <1>3, <1>4
<1>6. PICK top \in OpenAt : Under(top, n) /\ stack[n] \in Kids(lib, stack[top])
  BY <1>1, <1>2, <1>5 DEF ReadByParent
<1>7. q <= top
  BY <1>2, <1>4, <1>5, <1>6 DEF Under
<1> SUFFICES ASSUME AG!NoCycles(View(lib)) PROVE FALSE
  OBVIOUS
<1>8. PICK rank \in [DOMAIN lib.ands -> DOMAIN lib.ands] :
        \A k, m \in DOMAIN lib.ands :
          Var(lib.ands[m].lhs) \in {Var(lib.ands[k].rhs0), Var(lib.ands[k].rhs1)}
            => rank[m] < rank[k]
  BY ViewFields DEF AG!NoCycles, Var
<1> DEFINE R(i) == rank[lib.types[stack[i]].idx]
<1>9. ASSUME NEW i \in OpenAt
      PROVE IsGate(lib, stack[i]) /\ stack[i] # 0 /\ R(i) \in Nat
  <2>1. IsGate(lib, stack[i])
    BY <1>1 DEF OpenOnStack
  <2>2. lib.types[stack[i]].idx \in DOMAIN lib.ands
    BY <1>1, <2>1, KidsRight
  <2>3. R(i) \in DOMAIN lib.ands /\ lib.ands \in Seq(AG!And)
    BY <1>1, <1>8, <2>2, LibraryFields
  <2>4. stack[i] # 0
    BY <1>1, <2>1 DEF IsGate, Built, KindsRight
  <2> QED
    BY <2>1, <2>3, <2>4
<1>10. ASSUME NEW i \in OpenAt, NEW k \in OpenAt, stack[i] \in Kids(lib, stack[k])
       PROVE R(i) < R(k)
  BY <1>1, <1>8, <1>9, <1>10, RankFalls
<1> DEFINE Bad == {i \in OpenAt : q <= i /\ R(i) > R(q)}
<1> HIDE DEF R, n
<1>11. Bad = {}
  <2> SUFFICES ASSUME Bad # {} PROVE FALSE
    OBVIOUS
  <2>1. Bad \in SUBSET Nat
    BY <1>2, <1>3
  <2>2. PICK i \in Bad : \A k \in Bad : i <= k
    BY <2>1, LeastNatural
  <2>3. i \in OpenAt /\ q <= i /\ R(i) > R(q) /\ i \in Nat /\ q \in Nat /\ i <= n - 1 /\ q >= 1
    BY <1>2, <1>3, <1>5, <2>2
  <2>4. i # q
    BY <2>3, <1>9
  <2>5. i \in 2 .. Len(stack)
    BY <2>3, <2>4, <1>2 DEF n
  <2>6. PICK k \in OpenAt : Under(k, i) /\ stack[i] \in Kids(lib, stack[k])
    BY <2>3, <2>5, <1>1, <1>9 DEF ReadByParent
  <2>7. q <= k /\ k < i /\ k \in Nat
    <3>1. k \in Nat /\ q < i
      BY <1>2, <1>3, <2>3, <2>4
    <3>2. k < i /\ \A m \in OpenAt : m < i => m <= k
      BY <2>6 DEF Under
    <3> QED
      BY <1>4, <3>1, <3>2
  <2>8. k \notin Bad
    BY <2>2, <2>3, <2>7
  <2>9. R(k) <= R(q)
    BY <2>7, <2>8, <1>4, <1>9
  <2>10. R(i) < R(k)
    BY <2>3, <2>6, <1>10
  <2> QED
    BY <2>3, <2>9, <2>10, <1>4, <1>9
<1>12. R(top) <= R(q)
  BY <1>4, <1>6, <1>7, <1>9, <1>11
<1>13. R(q) < R(top)
  BY <1>4, <1>6, <1>10
<1> QED
  BY <1>4, <1>6, <1>9, <1>12, <1>13

(* The gates that have been entered and not left form a path. *)
LEMMA PathOnStack ==
  ASSUME Ready4Search
  PROVE  OnStackIsPath
<1>1. /\ IsLibrary(lib) /\ Built(lib) /\ stack \in Seq(0 .. lib.maxvar)
      /\ OpenOnStack /\ ReadByParent /\ lib.maxvar \in Nat
  BY LibraryFields DEF Ready4Search, SearchState
<1>2. Len(stack) \in Nat /\ OpenAt \subseteq 1 .. Len(stack) - 1
  BY <1>1, OpenAtFacts
<1>3. ASSUME NEW i \in OpenAt
      PROVE IsGate(lib, stack[i]) /\ stack[i] \in 1 .. lib.maxvar /\ Type(stack[i]).onstack
  <2>1. IsGate(lib, stack[i]) /\ Type(stack[i]).onstack
    BY <1>1 DEF OpenOnStack
  <2>2. stack[i] # 0
    BY <1>1, <2>1 DEF IsGate, Built, KindsRight
  <2> QED
    BY <2>1, <2>2, <1>1 DEF IsGate
<1>4. ASSUME NEW v \in 1 .. lib.maxvar, Type(v).onstack
      PROVE \E i \in OpenAt : stack[i] = v
  BY <1>1, <1>4 DEF OpenOnStack
<1>5. {stack[i] : i \in OpenAt} = {v \in 1 .. lib.maxvar : Type(v).onstack}
  BY <1>3, <1>4
<1>6. ASSUME NEW i \in OpenAt, NEW j \in OpenAt, i < j, \A k \in OpenAt : k <= i \/ j <= k
      PROVE stack[j] \in ToSet(Children(stack[i]))
  <2>1. j \in 2 .. Len(stack) /\ i \in Nat /\ j \in Nat
    BY <1>2, <1>6
  <2>2. PICK k \in OpenAt : Under(k, j) /\ stack[j] \in Kids(lib, stack[k])
    BY <2>1, <1>1, <1>3 DEF ReadByParent
  <2>3. i <= k /\ k < j /\ k \in Nat
    BY <2>2, <1>2, <1>6 DEF Under
  <2>4. k = i
    BY <2>1, <2>3, <1>6
  <2> QED
    BY <2>2, <2>4, <1>1, <1>3, ChildrenFacts
<1>7. \A i, j \in OpenAt : stack[i] = stack[j] => i = j
  BY <1>1 DEF OpenOnStack
<1> QED
  BY <1>5, <1>6, <1>7 DEF OnStackIsPath

-----------------------------------------------------------------------------
(* Routines. *)

Names12 ==
  {"header", "inputs", "latches", "outputs", "bad", "constraints", "sizes",
   "justice", "fairness", "ands", "symbols", "check"}

(* The sections of a file in the order in which the reader takes them. *)
LEMMA ReadRoutinesAre ==
  /\ ReadRoutines \in Seq(Names12) /\ Len(ReadRoutines) = 12
  /\ ReadRoutines[1] = "header" /\ ReadRoutines[2] = "inputs"
  /\ ReadRoutines[3] = "latches" /\ ReadRoutines[4] = "outputs"
  /\ ReadRoutines[5] = "bad" /\ ReadRoutines[6] = "constraints"
  /\ ReadRoutines[7] = "sizes" /\ ReadRoutines[8] = "justice"
  /\ ReadRoutines[9] = "fairness" /\ ReadRoutines[10] = "ands"
  /\ ReadRoutines[11] = "symbols" /\ ReadRoutines[12] = "check"
BY DEF ReadRoutines, Names12

(* The sections from one of them on. *)
LEMMA RoutinesFrom ==
  ASSUME NEW n \in 1 .. 12
  PROVE  LET r == SubSeq(ReadRoutines, n, 12)
         IN /\ r # <<>> /\ Head(r) = ReadRoutines[n] /\ Len(r) = 13 - n
            /\ n < 12 => Tail(r) = SubSeq(ReadRoutines, n + 1, 12)
            /\ n = 12 => Tail(r) = <<>>
<1> DEFINE r == SubSeq(ReadRoutines, n, 12)
<1>1. ReadRoutines \in Seq(Names12) /\ Len(ReadRoutines) = 12
  BY ReadRoutinesAre
<1>2. Head(r) = ReadRoutines[n] /\ Tail(r) = SubSeq(ReadRoutines, n + 1, 12)
  BY <1>1, HeadTailOfSubSeq
<1>3. r \in Seq(Names12) /\ Len(r) = 13 - n
  <2>1. ASSUME NEW i \in n .. 12 PROVE ReadRoutines[i] \in Names12
    <3>1. i \in 1 .. Len(ReadRoutines)
      BY <1>1
    <3> QED
      BY <3>1, <1>1, ElementOfSeq
  <2>2. n \in Int /\ 12 \in Int /\ n <= 12 /\ 12 - n + 1 = 13 - n
    OBVIOUS
  <2> QED
    BY <2>1, <2>2, SubSeqProperties
<1>4. n = 12 => Tail(r) = <<>>
  BY <1>1, <1>2, SubSeqEmpty
<1>5. r # <<>>
  <2> HIDE DEF r
  <2> QED
    BY <1>3
<1> QED
  BY <1>2, <1>3, <1>4, <1>5

(* After a step, a reader that runs the n-th routine runs no other. *)
LEMMA ReadingOnePrimed ==
  ASSUME NEW n \in 1 .. 12, NEW m \in 1 .. 12, ReadingFrom(n)', ReadingFrom(m)'
  PROVE  n = m
BY RoutinesFrom DEF ReadingFrom

(* The reader is at the first of the sections that are left. *)
LEMMA ReadingHead ==
  ASSUME NEW n \in 1 .. 12, ReadingFrom(n)
  PROVE  run # <<>> /\ Head(run) = ReadRoutines[n]
BY RoutinesFrom DEF ReadingFrom

(* Which routines can have the name of the one that runs. *)
LEMMA AtRoutine ==
  ASSUME RoutinesRight, NEW n \in 1 .. 11, Running(ReadRoutines[n])
  PROVE  ReadingFrom(n)
<1>1. /\ Head(run) = ReadRoutines[n] /\ run # <<>>
      /\ Head(<<"abort">>) = "abort" /\ Head(<<"cycles">>) = "cycles"
      /\ Head(<<"check">>) = "check" /\ Head(<<"check", "assert", "ascii">>) = "check"
      /\ Head(<<"cycles", "assert", "ascii">>) = "cycles"
      /\ Head(<<"assert", "ascii">>) = "assert" /\ Head(<<"ascii">>) = "ascii"
  BY DEF Running
<1>2. /\ ReadRoutines[n] \notin {"abort", "cycles", "check", "assert", "ascii"}
      /\ \A m \in 1 .. 12 : ReadRoutines[m] = ReadRoutines[n] => m = n
  BY ReadRoutinesAre
<1>3. PICK m \in 1 .. 12 : ReadingFrom(m)
  BY <1>1, <1>2 DEF RoutinesRight
<1> QED
  BY <1>1, <1>2, <1>3, ReadingHead

(* The reader has nothing to do with the search for cycles, and is not done
   as long as it reads. *)
LEMMA ReadingPrimed ==
  ASSUME NEW m \in 1 .. 12, origin' # "client", run' = SubSeq(ReadRoutines, m, 12)
  PROVE  /\ ReadingFrom(m)' /\ RoutinesRight' /\ run' # <<>> /\ ~Running("cycles")'
         /\ \A n \in 1 .. 12 : ReadingFrom(n)' => n = m
<1>1. ReadingFrom(m)'
  BY DEF ReadingFrom
<1>2. run' # <<>> /\ Head(run') = ReadRoutines[m]
  BY RoutinesFrom
<1>3. ReadRoutines[m] # "cycles"
  BY ReadRoutinesAre
<1> QED
  BY <1>1, <1>2, <1>3, ReadingOnePrimed DEF RoutinesRight, Running

(* A call that has ended does not read. *)
LEMMA NotReading ==
  ASSUME run' = <<>> \/ run' = <<"abort">>
  PROVE  /\ \A n \in 1 .. 12 : ~ReadingFrom(n)'
         /\ ~Running("cycles")' /\ RoutinesRight'
<1>1. ASSUME NEW n \in 1 .. 12, ReadingFrom(n)' PROVE FALSE
  <2>1. run' = SubSeq(ReadRoutines, n, 12)
    BY <1>1 DEF ReadingFrom
  <2>2. run' # <<>> /\ Head(run') = ReadRoutines[n]
    BY <2>1, RoutinesFrom
  <2>3. ReadRoutines[n] # "abort"
    BY ReadRoutinesAre
  <2> QED
    BY <2>2, <2>3
<1>2. ~Running("cycles")'
  BY DEF Running
<1> QED
  BY <1>1, <1>2 DEF RoutinesRight

-----------------------------------------------------------------------------
(* A stack of variables is one of more variables. *)
LEMMA StackFits ==
  ASSUME NEW a \in Nat, NEW b \in Nat, a <= b, NEW s \in Seq(0 .. a)
  PROVE  s \in Seq(0 .. b)
<1>1. 0 .. a \subseteq 0 .. b
  OBVIOUS
<1> QED
  BY <1>1, SeqMonotonic

(* A client that never renumbers does not begin to while its calls are made. *)
LEMMA CallsLeft ==
  ASSUME Types, calls' = calls \/ calls' = <<>> \/ (calls # <<>> /\ calls' = Tail(calls))
  PROVE  calls' \in Seq(Call) /\ \A i \in DOMAIN calls' : Harmless(calls'[i])
<1>1. calls \in Seq(Call) /\ \A i \in DOMAIN calls : Harmless(calls[i])
  BY DEF Types
<1>2. CASE calls' = calls
  BY <1>1, <1>2
<1>3. CASE calls' = <<>>
  BY <1>3
<1>4. CASE calls # <<>> /\ calls' = Tail(calls)
  <2>1. /\ calls' \in Seq(Call) /\ Len(calls') = Len(calls) - 1 /\ Len(calls) \in Nat
        /\ \A i \in 1 .. Len(calls') : calls'[i] = calls[i + 1]
    BY <1>4, <1>1, HeadTailProperties
  <2>2. ASSUME NEW i \in DOMAIN calls' PROVE Harmless(calls'[i])
    <3>1. i \in 1 .. Len(calls') /\ i + 1 \in DOMAIN calls
      BY <2>1, <1>1
    <3> QED
      BY <3>1, <2>1, <1>1
  <2> QED
    BY <2>1, <2>2
<1> QED
  BY <1>2, <1>3, <1>4

(* The variables that a step of a call other than the cycle check leaves
   typed. *)
LEMMA TypesKept ==
  ASSUME Types, IsLibrary(lib'), lib.maxvar <= lib'.maxvar,
         stack' = stack, root' = root, file' = file, result' = result,
         calls' = calls \/ (calls # <<>> /\ calls' = Tail(calls)),
         origin' \in {"client", "file", "copy"}, rest' \in Seq(Token), rd' \in Header
  PROVE  Types'
<1>1. /\ IsLibrary(lib) /\ stack \in Seq(0 .. lib.maxvar) /\ root \in Nat
      /\ file \in [there : BOOLEAN, tokens : Seq(Token)]
      /\ result \in {"none", "ok", "failed"}
  BY DEF Types
<1>2. stack' \in Seq(0 .. lib'.maxvar)
  <2>1. lib.maxvar \in Nat /\ lib'.maxvar \in Nat
    BY <1>1, LibraryFields
  <2> QED
    BY <2>1, <1>1, StackFits
<1>3. calls' \in Seq(Call) /\ \A i \in DOMAIN calls' : Harmless(calls'[i])
  BY CallsLeft
<1> QED
  BY <1>1, <1>2, <1>3 DEF Types

(* A call that ends, or a program. *)
LEMMA EndRight ==
  ASSUME Types', Built(lib'), lib'.error = "none" => Marked(lib') /\ Quiet(lib'),
         run' = <<>> \/ run' = <<"abort">>, HandedOver'
  PROVE  IInv'
BY NotReading DEF IInv, Searching, ErrorsStop, ReaderRight

(* A reader that goes on. *)
LEMMA ReadOnRight ==
  ASSUME Types', Built(lib'), lib'.error = "none", Marked(lib'), Quiet(lib'),
         NEW m \in 1 .. 12, origin' # "client", run' = SubSeq(ReadRoutines, m, 12),
         ReaderAt(m)'
  PROVE  IInv'
<1>1. /\ ReadingFrom(m)' /\ RoutinesRight' /\ run' # <<>> /\ ~Running("cycles")'
      /\ \A n \in 1 .. 12 : ReadingFrom(n)' => n = m
  BY ReadingPrimed
<1>2. ReaderRight'
  BY <1>1 DEF ReaderRight
<1> QED
  BY <1>1, <1>2 DEF IInv, Searching, ErrorsStop, HandedOver

(* What a step of the reader starts from. *)
ReadState(n) ==
  /\ Types /\ Built(lib) /\ Marked(lib) /\ Quiet(lib) /\ lib.error = "none"
  /\ ReaderAt(n) /\ origin # "client" /\ run = SubSeq(ReadRoutines, n, 12)
  /\ Tail(run) = SubSeq(ReadRoutines, n + 1, 12)
  /\ calls' = calls /\ stack' = stack /\ root' = root /\ file' = file
  /\ result' = result /\ origin' = origin

(* A step of the reader is taken in a state without an error, at the
   section that its routine reads. *)
LEMMA ReadStarts ==
  ASSUME IInv, NEW n \in 1 .. 11, NEW r, r = ReadRoutines[n], Reading(r)
  PROVE  ReadState(n)
<1>1. Running(ReadRoutines[n])
  BY DEF Reading
<1>2. ReadingFrom(n)
  BY <1>1, AtRoutine DEF IInv
<1>3. /\ calls' = calls /\ stack' = stack /\ root' = root /\ file' = file
      /\ result' = result /\ origin' = origin
  BY DEF Reading, Continue, search
<1>4. ReaderAt(n) /\ origin # "client" /\ run = SubSeq(ReadRoutines, n, 12)
  <2>1. n \in 1 .. 12
    OBVIOUS
  <2>2. ReaderAt(n)
    BY <2>1, <1>2 DEF IInv, ReaderRight
  <2> QED
    BY <2>2, <1>2 DEF ReadingFrom
<1>5. Tail(run) = SubSeq(ReadRoutines, n + 1, 12)
  BY <1>4, RoutinesFrom
<1>6. ReadRoutines[n] \notin {"abort", "assert", "cycles"}
  BY ReadRoutinesAre
<1>7. lib.error = "none"
  <2>1. run \notin {<<>>, <<"abort">>, <<"assert", "ascii">>}
    BY <1>1, <1>6 DEF Running
  <2> QED
    BY <2>1 DEF IInv, ErrorsStop
<1>8. ~Running("cycles")
  BY <1>1, <1>6 DEF Running
<1> QED
  BY <1>3, <1>4, <1>5, <1>7, <1>8 DEF IInv, ReadState

(* An error is noted in the structure and changes nothing else. *)
LEMMA MessageRight ==
  ASSUME NEW l, IsLibrary(l), Built(l), NEW e \in Errors
  PROVE  LET r == [l EXCEPT !.error = e]
         IN IsLibrary(r) /\ Built(r) /\ r.maxvar = l.maxvar /\ r.error = e
<1> DEFINE r == [l EXCEPT !.error = e]
<1>1. IsLibrary(r) /\ r.error = e /\ r.maxvar = l.maxvar
  BY DEF IsLibrary, Library
<1>2. /\ r.types = l.types /\ r.ands = l.ands /\ r.inputs = l.inputs /\ r.latches = l.latches
      /\ r.outputs = l.outputs /\ r.bad = l.bad /\ r.constraints = l.constraints
      /\ r.fairness = l.fairness /\ r.justice = l.justice
  BY DEF IsLibrary, Library
<1>3. Renamed(l, r)
  BY <1>1, <1>2, SameLitsReflexive DEF Renamed
<1> HIDE DEF r
<1>4. Built(r)
  BY <1>1, <1>3, RenamedRight
<1> QED
  BY <1>1, <1>4 DEF r

(* An error ends the call and leaves a graph that is in order. *)
LEMMA FailRight ==
  ASSUME NEW n \in 1 .. 11, ReadState(n), NEW e \in Errors \ {"none"}, Fail(e)
  PROVE  IInv'
<1>1. /\ Types /\ Built(lib) /\ IsLibrary(lib)
      /\ calls' = calls /\ stack' = stack /\ root' = root /\ file' = file
      /\ result' = result /\ origin' = origin
      /\ rest \in Seq(Token) /\ rd \in Header /\ origin \in {"client", "file", "copy"}
  BY DEF ReadState, Types
<1>2. lib' = [lib EXCEPT !.error = e] /\ run' = <<>> /\ rest' = rest /\ rd' = rd
  BY DEF Fail
<1>3. IsLibrary(lib') /\ Built(lib') /\ lib'.maxvar = lib.maxvar /\ lib'.error = e
  BY <1>1, <1>2, MessageRight
<1>4. lib.maxvar \in Nat
  BY <1>1, LibraryFields
<1>5. Types'
  BY <1>1, <1>2, <1>3, <1>4, TypesKept
<1>6. HandedOver'
  BY <1>3 DEF HandedOver
<1> QED
  BY <1>2, <1>3, <1>5, <1>6, EndRight

(* What has not been read yet. *)
LEMMA SkipTyped ==
  ASSUME rest \in Seq(Token), NEW k \in Nat
  PROVE  Skip(k) \in Seq(Token)
<1>1. ASSUME NEW i \in k + 1 .. Len(rest) PROVE rest[i] \in Token
  <2>1. i \in 1 .. Len(rest)
    OBVIOUS
  <2> QED
    BY <2>1, ElementOfSeq
<1>2. k + 1 \in Int /\ Len(rest) \in Int
  OBVIOUS
<1> QED
  BY <1>1, <1>2, SubSeqProperties DEF Skip

(* One more entry of the section that is being read. *)
LEMMA StoreRight ==
  ASSUME NEW n \in 1 .. 11, ReadState(n), NEW l, IsLibrary(l), Built(l), Extends(lib, l),
         l.error = lib.error, NEW k \in Nat, Store(l, k), ReaderAt(n)'
  PROVE  IInv'
<1>1. /\ Types /\ Built(lib) /\ IsLibrary(lib) /\ Marked(lib) /\ Quiet(lib)
      /\ calls' = calls /\ stack' = stack /\ root' = root /\ file' = file
      /\ result' = result /\ origin' = origin /\ lib.error = "none"
      /\ origin # "client" /\ run = SubSeq(ReadRoutines, n, 12)
      /\ rest \in Seq(Token) /\ rd \in Header /\ origin \in {"client", "file", "copy"}
  BY DEF ReadState, Types
<1>2. lib' = l /\ run' = run /\ rest' = Skip(k) /\ rd' = rd
  BY DEF Store
<1>3. Marked(l) /\ Quiet(l) /\ lib.maxvar <= l.maxvar
  BY <1>1, ExtendsMarked DEF Extends
<1>4. rest' \in Seq(Token)
  BY <1>1, <1>2, SkipTyped
<1>5. Types'
  BY <1>1, <1>2, <1>3, <1>4, TypesKept
<1>6. /\ Built(lib') /\ lib'.error = "none" /\ Marked(lib') /\ Quiet(lib') /\ origin' # "client"
      /\ run' = SubSeq(ReadRoutines, n, 12) /\ n \in 1 .. 12
  BY <1>1, <1>2, <1>3
<1> QED
  BY <1>5, <1>6, ReadOnRight

(* A section that has been read. *)
LEMMA SectionReadRight ==
  ASSUME NEW n \in 1 .. 11, ReadState(n), SectionRead, ReaderAt(n + 1)'
  PROVE  IInv'
<1>1. /\ Types /\ Built(lib) /\ IsLibrary(lib) /\ Marked(lib) /\ Quiet(lib)
      /\ calls' = calls /\ stack' = stack /\ root' = root /\ file' = file
      /\ result' = result /\ origin' = origin /\ lib.error = "none"
      /\ origin # "client" /\ Tail(run) = SubSeq(ReadRoutines, n + 1, 12)
      /\ rest \in Seq(Token) /\ rd \in Header /\ origin \in {"client", "file", "copy"}
  BY DEF ReadState, Types
<1>2. lib' = lib /\ run' = Tail(run) /\ rest' = rest /\ rd' = rd
  BY DEF SectionRead, Finish
<1>3. lib.maxvar \in Nat /\ n + 1 \in 1 .. 12
  BY <1>1, LibraryFields
<1>4. IsLibrary(lib') /\ lib.maxvar <= lib'.maxvar
  BY <1>1, <1>2, <1>3
<1>5. Types'
  BY <1>1, <1>2, <1>4, TypesKept
<1>6. /\ Built(lib') /\ lib'.error = "none" /\ Marked(lib') /\ Quiet(lib') /\ origin' # "client"
      /\ run' = SubSeq(ReadRoutines, n + 1, 12)
  BY <1>1, <1>2
<1> QED
  BY <1>3, <1>5, <1>6, ReadOnRight

-----------------------------------------------------------------------------
(* Tokens that are numbers. *)
LEMMA NumberTyped ==
  ASSUME NEW t \in Token, t.kind = "num"
  PROVE  t.n \in Nat /\ t.next \in {"space", "newline", "other"}
BY DEF Token

(* What aiger_read_literal returns is a number, and the character after it. *)
LEMMA LiteralTyped ==
  ASSUME NEW ts \in Seq(Token), NEW ends, aiger_read_literal(ts, ends)
  PROVE  ts # <<>> /\ Head(ts) \in Token /\ Head(ts).n \in Nat /\ Head(ts).next \in ends
<1>1. ts # <<>> /\ Head(ts).kind = "num" /\ Head(ts).next \in ends
  BY DEF aiger_read_literal
<1>2. Head(ts) \in Token
  BY <1>1, HeadTailProperties
<1> QED
  BY <1>1, <1>2, NumberTyped

(* Several numbers in a row. *)
LEMMA NumbersTyped ==
  ASSUME NEW ts \in Seq(Token), NEW n \in Nat, NEW ends, DOMAIN ends = 1 .. n,
         Len(ends) = n, NumbersAt(ts, ends)
  PROVE  n <= Len(ts) /\ \A i \in 1 .. n : ts[i] \in Token /\ ts[i].n \in Nat
<1>1. n <= Len(ts) /\ Len(ts) \in Nat
  BY DEF NumbersAt
<1>2. ASSUME NEW i \in 1 .. n PROVE ts[i] \in Token /\ ts[i].n \in Nat
  <2>1. i \in 1 .. Len(ts) /\ i \in Int
    BY <1>1
  <2>2. ts[i] \in Token
    BY <2>1, ElementOfSeq
  <2>3. Head(SubSeq(ts, i, i)) = ts[i]
    BY <2>1, HeadTailOfSubSeq
  <2>4. ts[i].kind = "num"
    BY <2>3 DEF NumbersAt, aiger_read_literal
  <2> QED
    BY <2>2, <2>4, NumberTyped
<1> QED
  BY <1>1, <1>2

(* The list of what has to follow each of n numbers. *)
LEMMA EndsLength ==
  ASSUME NEW n \in Nat, NEW S, NEW e \in [1 .. n -> S]
  PROVE  DOMAIN e = 1 .. n /\ Len(e) = n
<1>1. e \in Seq(S)
  OBVIOUS
<1> QED
  BY <1>1, LenProperties

(* Several lines of one number each. *)
LEMMA LinesTyped ==
  ASSUME NEW ts \in Seq(Token), NEW n \in Nat,
         NumbersAt(ts, [i \in 1 .. n |-> {"newline"}])
  PROVE  /\ n <= Len(ts) /\ [i \in 1 .. n |-> ts[i].n] \in Seq(Nat)
         /\ Len([i \in 1 .. n |-> ts[i].n]) = n
<1>1. [i \in 1 .. n |-> {"newline"}] \in [1 .. n -> {{"newline"}}]
  OBVIOUS
<1>2. DOMAIN [i \in 1 .. n |-> {"newline"}] = 1 .. n /\ Len([i \in 1 .. n |-> {"newline"}]) = n
  BY <1>1, EndsLength
<1>3. n <= Len(ts) /\ \A i \in 1 .. n : ts[i] \in Token /\ ts[i].n \in Nat
  BY <1>2, NumbersTyped
<1>4. [i \in 1 .. n |-> ts[i].n] \in [1 .. n -> Nat]
  BY <1>3
<1>5. [i \in 1 .. n |-> ts[i].n] \in Seq(Nat)
  BY <1>4
<1> QED
  BY <1>3, <1>4, <1>5, EndsLength

-----------------------------------------------------------------------------
(* The structure that a client starts with. *)
LEMMA InitRight ==
  /\ IsLibrary(aiger_init) /\ Built(aiger_init) /\ Marked(aiger_init) /\ Quiet(aiger_init)
  /\ aiger_init.error = "none" /\ aiger_init.maxvar = 0
  /\ aiger_init.inputs = <<>> /\ aiger_init.latches = <<>> /\ aiger_init.ands = <<>>
<1> DEFINE l == aiger_init
<1>1. /\ l.maxvar = 0 /\ l.error = "none" /\ l.inputs = <<>> /\ l.latches = <<>>
      /\ l.outputs = <<>> /\ l.bad = <<>> /\ l.constraints = <<>> /\ l.justice = <<>>
      /\ l.fairness = <<>> /\ l.ands = <<>>
      /\ l.types = [v \in {0} |-> NoType]
  BY DEF aiger_init
<1>2. NoType \in TypeEntry /\ 0 .. 0 = {0}
  BY DEF NoType, TypeEntry
<1>3. IsLibrary(l)
  BY <1>2 DEF IsLibrary, Library, aiger_init, Errors
<1>4. \A v \in 0 .. l.maxvar : l.types[v] = NoType
  BY <1>1, <1>2
<1> HIDE DEF l
<1>5. Built(l)
  BY <1>1, <1>4 DEF Built, InputsDefined, LatchesDefined, GatesDefined, KindsRight, LitsWithin,
                    NoType
<1>6. Done(l) = {} /\ MarksOnGates(l) /\ Quiet(l)
  BY <1>4 DEF Done, MarksOnGates, Quiet, NoType
<1>7. Marked(l)
  <2>1. DoneClosed(l)
    BY <1>6 DEF DoneClosed
  <2>2. DoneRanked(l)
    <3>1. [v \in {} |-> 0] \in [{} -> 1 .. Cardinality({})]
      OBVIOUS
    <3> QED
      BY <3>1, <1>6 DEF DoneRanked
  <2> QED
    BY <2>1, <2>2, <1>6 DEF Marked
<1> QED
  BY <1>1, <1>3, <1>5, <1>6, <1>7 DEF l

-----------------------------------------------------------------------------
(* The header of a file, and the room that it asks for. *)
LEMMA HeaderTyped ==
  ASSUME rest \in Seq(Token), rest # <<>>, Head(rest).kind = "magic",
         NEW k \in HeaderLengths(Tail(rest))
  PROVE  /\ k \in Nat /\ Head(rest).mode \in {"ascii", "binary"}
         /\ \A i \in 1 .. 9 : (IF i <= k THEN rest[i + 1].n ELSE 0) \in Nat
<1>1. Head(rest) \in Token /\ Tail(rest) \in Seq(Token)
      /\ Len(Tail(rest)) = Len(rest) - 1
      /\ \A i \in 1 .. Len(Tail(rest)) : Tail(rest)[i] = rest[i + 1]
  BY HeadTailProperties
<1>2. Head(rest).mode \in {"ascii", "binary"}
  BY <1>1 DEF Token
<1> DEFINE ends == [i \in 1 .. k |-> IF i = k THEN {"newline"} ELSE {"space"}]
<1>3. k \in 5 .. 9 /\ NumbersAt(Tail(rest), ends)
  BY DEF HeaderLengths
<1>4. ends \in [1 .. k -> {{"newline"}, {"space"}}]
  OBVIOUS
<1>5. DOMAIN ends = 1 .. k /\ Len(ends) = k /\ k \in Nat
  BY <1>3, <1>4, EndsLength
<1> HIDE DEF ends
<1>6. k <= Len(Tail(rest)) /\ \A i \in 1 .. k : Tail(rest)[i].n \in Nat
  BY <1>1, <1>3, <1>5, NumbersTyped
<1>7. ASSUME NEW i \in 1 .. 9 PROVE (IF i <= k THEN rest[i + 1].n ELSE 0) \in Nat
  <2>1. CASE i <= k
    <3>1. i \in 1 .. k /\ i \in 1 .. Len(Tail(rest))
      BY <2>1, <1>1, <1>3, <1>6
    <3> QED
      BY <2>1, <3>1, <1>1, <1>6
  <2>2. CASE ~(i <= k)
    BY <2>2
  <2> QED
    BY <2>1, <2>2
<1> QED
  BY <1>2, <1>5, <1>7

WithRoom(l, m) == [l EXCEPT !.maxvar = m, !.types = Fit(@, m)]

(* The header makes room for maxvar variables at once. *)
LEMMA RoomRight ==
  ASSUME NEW l, l = aiger_init, NEW m \in Nat, NEW r, r = WithRoom(l, m)
  PROVE  /\ IsLibrary(r) /\ Built(r) /\ Extends(l, r) /\ r.error = "none" /\ r.maxvar = m
         /\ r.inputs = <<>> /\ r.latches = <<>> /\ r.ands = <<>> /\ r.justice = <<>>
<1>1. /\ r.maxvar = m /\ r.error = "none" /\ r.inputs = <<>> /\ r.latches = <<>>
      /\ r.outputs = <<>> /\ r.bad = <<>> /\ r.constraints = <<>> /\ r.justice = <<>>
      /\ r.fairness = <<>> /\ r.ands = <<>>
      /\ r.types = Fit([v \in {0} |-> NoType], m)
  BY DEF aiger_init, WithRoom
<1>2. NoType \in TypeEntry
  BY DEF NoType, TypeEntry
<1>3. r.types = [v \in 0 .. m |-> NoType]
  <2>1. {0} \cup 0 .. m = 0 .. m
    OBVIOUS
  <2> QED
    BY <2>1, <1>1 DEF Fit
<1>4. IsLibrary(r)
  <2>1. r.types \in [0 .. m -> TypeEntry]
    BY <1>2, <1>3
  <2>2. r = [maxvar |-> m, inputs |-> <<>>, latches |-> <<>>, outputs |-> <<>>,
             bad |-> <<>>, constraints |-> <<>>, justice |-> <<>>, fairness |-> <<>>,
             ands |-> <<>>, comments |-> <<>>, num_comments |-> 1,
             types |-> r.types, error |-> "none"]
    BY DEF aiger_init, WithRoom
  <2> QED
    BY <1>1, <2>1, <2>2 DEF IsLibrary, Library, Errors
<1>5. \A v \in 0 .. r.maxvar : r.types[v] = NoType
  BY <1>1, <1>3
<1>6. LitsWithin(r)
  BY <1>1 DEF LitsWithin
<1>7. /\ IsLibrary(l) /\ Built(l) /\ l.maxvar = 0 /\ l.inputs = <<>> /\ l.latches = <<>>
      /\ l.ands = <<>>
  BY InitRight
<1>8. l.types[0] = NoType
  BY DEF aiger_init
<1>9. /\ l.maxvar <= r.maxvar
      /\ \A v \in 0 .. l.maxvar : r.types[v] = l.types[v]
      /\ \A v \in l.maxvar + 1 .. r.maxvar : r.types[v] = NoType
  <2>1. \A v \in 0 .. 0 : v = 0 /\ v \in 0 .. r.maxvar
    BY <1>1
  <2>2. \A v \in 0 + 1 .. r.maxvar : v \in 0 .. r.maxvar
    BY <1>1
  <2>3. l.maxvar <= r.maxvar
    BY <1>1, <1>7
  <2> QED
    BY <2>1, <2>2, <2>3, <1>5, <1>7, <1>8
<1>10. Built(r) /\ Extends(l, r)
  BY <1>1, <1>4, <1>6, <1>7, <1>9, WiderRight
<1> QED
  BY <1>1, <1>4, <1>10

(* aiger_read_header: the counts fit the format, and nothing has been
   defined yet. *)
LEMMA ReadHeaderRight ==
  ASSUME IInv, ReadHeader
  PROVE  IInv'
<1>1. ReadState(1)
  BY ReadStarts, ReadRoutinesAre DEF ReadHeader
<1>2. /\ Types /\ lib = aiger_init /\ rest \in Seq(Token) /\ rd \in Header
      /\ calls' = calls /\ stack' = stack /\ root' = root /\ file' = file
      /\ result' = result /\ origin' = origin /\ origin # "client"
      /\ Tail(run) = SubSeq(ReadRoutines, 2, 12)
      /\ origin \in {"client", "file", "copy"}
  BY <1>1 DEF ReadState, ReaderAt, Types
<1>3. ASSUME Fail("format") PROVE IInv'
  BY <1>1, <1>3, FailRight DEF Errors
<1> DEFINE k == CHOOSE x \in HeaderLengths(Tail(rest)) : TRUE
           count(i) == IF i <= k THEN rest[i + 1].n ELSE 0
           h == [mode |-> Head(rest).mode, maxvar |-> count(1),
                 inputs |-> count(2), latches |-> count(3), outputs |-> count(4),
                 ands |-> count(5), bad |-> count(6), constraints |-> count(7),
                 justice |-> count(8), fairness |-> count(9), sizes |-> <<>>]
<1>4. ASSUME /\ rest # <<>> /\ Head(rest).kind = "magic" /\ HeaderLengths(Tail(rest)) # {}
             /\ lib' = [lib EXCEPT !.maxvar = h.maxvar, !.types = Fit(@, h.maxvar)]
             /\ rd' = h /\ rest' = Skip(k + 1) /\ Finish
      PROVE IInv'
  <2>1. k \in HeaderLengths(Tail(rest))
    BY <1>4
  <2>2. /\ k \in Nat /\ Head(rest).mode \in {"ascii", "binary"}
        /\ \A i \in 1 .. 9 : count(i) \in Nat
    <3> HIDE DEF k
    <3> QED
      BY <2>1, <1>2, <1>4, HeaderTyped
  <2> HIDE DEF k, count
  <2>3. h \in Header
    BY <2>2 DEF Header
  <2>4. h.maxvar \in Nat /\ h.mode \in {"ascii", "binary"}
    BY <2>2
  <2> HIDE DEF h
  <2>5. /\ IsLibrary(lib') /\ Built(lib') /\ Extends(lib, lib') /\ lib'.error = "none"
        /\ lib'.inputs = <<>> /\ lib'.latches = <<>> /\ lib'.ands = <<>>
        /\ lib'.justice = <<>>
    <3>1. PICK m \in Nat : m = h.maxvar
      BY <2>4
    <3>2. lib' = WithRoom(lib, m)
      BY <3>1, <1>4 DEF WithRoom
    <3> QED
      BY <3>2, <1>2, RoomRight
  <2>6. rest' \in Seq(Token)
    <3>1. rest' = Skip(k + 1) /\ k + 1 \in Nat
      BY <2>2, <1>4
    <3> QED
      BY <3>1, <1>2, SkipTyped
  <2>7. Marked(lib') /\ Quiet(lib') /\ lib.maxvar <= lib'.maxvar
    BY <1>2, <2>5, InitRight, ExtendsMarked DEF Extends
  <2>8. Types'
    BY <1>2, <1>4, <2>3, <2>5, <2>6, <2>7, TypesKept
  <2>9. InOrder(lib)'
    BY <2>5 DEF InOrder
  <2>10. ReaderAt(2)'
    BY <1>4, <2>4, <2>5, <2>9 DEF ReaderAt
  <2>11. run' = SubSeq(ReadRoutines, 2, 12) /\ origin' # "client"
    BY <1>2, <1>4 DEF Finish
  <2> QED
    BY <2>5, <2>7, <2>8, <2>10, <2>11, ReadOnRight
<1> QED
  BY <1>3, <1>4 DEF ReadHeader

-----------------------------------------------------------------------------
(* In a binary file the next variable has no kind yet. *)
LEMMA FreshInOrder ==
  ASSUME IsLibrary(lib), Built(lib), InOrder(lib), rd \in Header, NEW v \in Nat, v >= 1,
         \A k \in DOMAIN lib.inputs : k # v,
         \A k \in DOMAIN lib.latches : rd.inputs + k # v,
         \A k \in DOMAIN lib.ands : rd.inputs + rd.latches + k # v
  PROVE  Undefined(lib, 2 * v) /\ Var(2 * v) = v
<1>1. rd.inputs \in Nat /\ rd.latches \in Nat
  BY DEF Header
<1>2. /\ lib.maxvar \in Nat /\ lib.types \in [0 .. lib.maxvar -> TypeEntry]
      /\ DOMAIN lib.inputs \subseteq Nat /\ DOMAIN lib.latches \subseteq Nat
      /\ DOMAIN lib.ands \subseteq Nat
  BY LibraryFields
<1>3. \A n \in Nat : Var(2 * n) = n
  BY DEF Var, AG!aiger_lit2var
<1>4. 2 * v > 1 /\ AG!aiger_sign(2 * v) = 0
  BY DEF AG!aiger_sign
<1>5. ASSUME v \in DOMAIN lib.types, lib.types[v].kind # "none" PROVE FALSE
  <2>1. v \in 0 .. lib.maxvar
    BY <1>2, <1>5
  <2>2. lib.types[v] \in TypeEntry
    BY <1>2, <2>1
  <2>3. lib.types[v].kind \in {"input", "latch", "and"}
    BY <1>5, <2>2 DEF TypeEntry
  <2> DEFINE k == lib.types[v].idx
  <2>4. CASE lib.types[v].kind = "input"
    <3>1. k \in DOMAIN lib.inputs /\ Var(lib.inputs[k].lit) = v
      BY <2>1, <2>4 DEF Built, KindsRight
    <3>2. lib.inputs[k].lit = 2 * k
      BY <3>1 DEF InOrder
    <3>3. k \in Nat
      BY <1>2, <3>1
    <3> QED
      BY <1>3, <3>1, <3>2, <3>3
  <2>5. CASE lib.types[v].kind = "latch"
    <3>1. k \in DOMAIN lib.latches /\ Var(lib.latches[k].lit) = v
      BY <2>1, <2>5 DEF Built, KindsRight
    <3>2. lib.latches[k].lit = 2 * (rd.inputs + k)
      BY <3>1 DEF InOrder
    <3>3. rd.inputs + k \in Nat
      BY <1>1, <1>2, <3>1
    <3> QED
      BY <1>3, <3>1, <3>2, <3>3
  <2>6. CASE lib.types[v].kind = "and"
    <3>1. k \in DOMAIN lib.ands /\ Var(lib.ands[k].lhs) = v
      BY <2>1, <2>6 DEF Built, KindsRight
    <3>2. lib.ands[k].lhs = 2 * (rd.inputs + rd.latches + k)
      BY <3>1 DEF InOrder
    <3>3. rd.inputs + rd.latches + k \in Nat
      BY <1>1, <1>2, <3>1
    <3> QED
      BY <1>3, <3>1, <3>2, <3>3
  <2> QED
    BY <2>3, <2>4, <2>5, <2>6
<1> QED
  BY <1>3, <1>4, <1>5 DEF Undefined

(* A section with one more entry. *)
LEMMA AppendFacts ==
  ASSUME NEW S, NEW s \in Seq(S), NEW e \in S
  PROVE  /\ Len(s) \in Nat /\ DOMAIN s = 1 .. Len(s) /\ Len(Append(s, e)) = Len(s) + 1
         /\ \A k \in DOMAIN Append(s, e) :
              \/ k \in DOMAIN s /\ Append(s, e)[k] = s[k]
              \/ k = Len(s) + 1 /\ Append(s, e)[k] = e
OBVIOUS

(* The inputs: in an ASCII file literals that the reader has checked, in a
   binary file the first ones. *)
LEMMA ReadInputRight ==
  ASSUME IInv, ReadInput
  PROVE  IInv'
<1>1. ReadState(2)
  BY ReadStarts, ReadRoutinesAre DEF ReadInput
<1>2. /\ IsLibrary(lib) /\ Built(lib) /\ rest \in Seq(Token) /\ rd \in Header
      /\ ReaderAt(2) /\ NoName \in Texts
  BY <1>1, NamesAssumption DEF ReadState, Types
<1>3. lib.inputs \in Seq(SymbolEntry) /\ Len(lib.inputs) \in Nat
      /\ DOMAIN lib.inputs = 1 .. Len(lib.inputs)
  BY <1>2, LibraryFields
<1>4. /\ rd.mode \in {"ascii", "binary"} /\ lib.latches = <<>> /\ lib.ands = <<>>
      /\ lib.justice = <<>>
      /\ rd.mode = "binary" => InOrder(lib)
  BY <1>2 DEF ReaderAt
<1>5. CASE Len(lib.inputs) = rd.inputs
  <2>1. SectionRead
    BY <1>5 DEF ReadInput
  <2>2. lib' = lib /\ rd' = rd
    BY <2>1 DEF SectionRead
  <2>3. ReaderAt(3)'
    BY <1>4, <1>5, <2>2 DEF ReaderAt, InOrder
  <2> QED
    BY <1>1, <2>1, <2>3, SectionReadRight
<1>6. ASSUME NEW lit \in Nat, Undefined(lib, lit), NEW k \in Nat,
             rd.mode = "binary" => lit = 2 * (Len(lib.inputs) + 1),
             Store(aiger_add_input(lib, lit, NoName), k)
      PROVE IInv'
  <2>1. PICK l : l = aiger_add_input(lib, lit, NoName)
    OBVIOUS
  <2>2. /\ IsLibrary(l) /\ Built(l) /\ Extends(lib, l) /\ l.error = lib.error
        /\ l.inputs = Append(lib.inputs, [lit |-> lit, name |-> NoName])
        /\ l.latches = lib.latches /\ l.ands = lib.ands /\ l.justice = lib.justice
    BY <1>2, <1>6, <2>1, AddInputRight
  <2>3. lib' = l /\ rd' = rd /\ Store(l, k)
    BY <1>6, <2>1 DEF Store
  <2>4. ASSUME rd.mode = "binary" PROVE InOrder(l)
    <3>1. [lit |-> lit, name |-> NoName] \in SymbolEntry
      BY <1>2, <1>6 DEF SymbolEntry
    <3>2. \A j \in DOMAIN l.inputs : l.inputs[j].lit = 2 * j
      <4> SUFFICES ASSUME NEW j \in DOMAIN l.inputs PROVE l.inputs[j].lit = 2 * j
        OBVIOUS
      <4>1. \/ j \in DOMAIN lib.inputs /\ l.inputs[j] = lib.inputs[j]
            \/ j = Len(lib.inputs) + 1 /\ l.inputs[j] = [lit |-> lit, name |-> NoName]
        BY <3>1, <1>3, <2>2, AppendFacts
      <4>2. j \in DOMAIN lib.inputs => lib.inputs[j].lit = 2 * j
        BY <1>4, <2>4 DEF InOrder
      <4> QED
        BY <4>1, <4>2, <1>6, <2>4
    <3> QED
      BY <3>2, <1>4, <2>2 DEF InOrder
  <2>5. ReaderAt(2)'
    <3>1. rd.mode = "binary" => InOrder(lib)'
      BY <2>3, <2>4 DEF InOrder
    <3> QED
      BY <3>1, <1>4, <2>2, <2>3 DEF ReaderAt
  <2> QED
    BY <1>1, <1>6, <2>2, <2>3, <2>5, StoreRight
<1>7. CASE Len(lib.inputs) # rd.inputs /\ rd.mode = "binary"
  <2> DEFINE v == Len(lib.inputs) + 1
  <2>1. v \in Nat /\ v >= 1 /\ \A k \in DOMAIN lib.inputs : k # v
    BY <1>3
  <2>2. Undefined(lib, 2 * v) /\ 2 * v \in Nat
    BY <1>2, <1>4, <1>7, <2>1, FreshInOrder
  <2>3. Store(aiger_add_input(lib, 2 * v, NoName), 0)
    BY <1>7 DEF ReadInput
  <2> QED
    BY <1>6, <2>2, <2>3
<1>8. CASE Len(lib.inputs) # rd.inputs /\ rd.mode # "binary"
  <2>1. \/ Fail("literal")
        \/ aiger_read_literal(rest, {"newline"}) /\ Fail("range")
        \/ aiger_read_literal(rest, {"newline"}) /\ Fail("defined")
        \/ /\ aiger_read_literal(rest, {"newline"}) /\ Undefined(lib, Head(rest).n)
           /\ Store(aiger_add_input(lib, Head(rest).n, NoName), 1)
    BY <1>8 DEF ReadInput
  <2>2. CASE \E e \in {"literal", "range", "defined"} : Fail(e)
    BY <1>1, <2>2, FailRight DEF Errors
  <2>3. CASE /\ aiger_read_literal(rest, {"newline"}) /\ Undefined(lib, Head(rest).n)
             /\ Store(aiger_add_input(lib, Head(rest).n, NoName), 1)
    <3>1. Head(rest).n \in Nat
      BY <1>2, <2>3, LiteralTyped
    <3> QED
      BY <3>1, <1>6, <1>8, <2>3
  <2> QED
    BY <2>1, <2>2, <2>3
<1> QED
  BY <1>5, <1>7, <1>8, <1>4

-----------------------------------------------------------------------------
WithError(l, e) == [l EXCEPT !.error = e]

(* An error that is met after something has been stored. *)
LEMMA FailAfterRight ==
  ASSUME NEW n \in 1 .. 11, ReadState(n), NEW l, IsLibrary(l), Built(l), Extends(lib, l),
         NEW e \in Errors \ {"none"}, lib' = WithError(l, e),
         run' = <<>>, rest' = rest, rd' = rd
  PROVE  IInv'
<1>1. /\ Types /\ Built(lib) /\ IsLibrary(lib)
      /\ calls' = calls /\ stack' = stack /\ root' = root /\ file' = file
      /\ result' = result /\ origin' = origin
      /\ rest \in Seq(Token) /\ rd \in Header /\ origin \in {"client", "file", "copy"}
  BY DEF ReadState, Types
<1>2. IsLibrary(lib') /\ Built(lib') /\ lib'.maxvar = l.maxvar /\ lib'.error = e
  <2>1. LET r == WithError(l, e)
        IN IsLibrary(r) /\ Built(r) /\ r.maxvar = l.maxvar /\ r.error = e
    BY MessageRight DEF WithError
  <2> QED
    BY <2>1
<1>3. lib.maxvar <= lib'.maxvar
  BY <1>2 DEF Extends
<1>4. Types'
  BY <1>1, <1>2, <1>3, TypesKept
<1>5. HandedOver'
  BY <1>2 DEF HandedOver
<1> QED
  BY <1>2, <1>4, <1>5, EndRight

(* A failed assertion ends the program. *)
LEMMA AbortRight ==
  ASSUME NEW n \in 1 .. 11, ReadState(n), Abort, lib' = lib, rest' = rest, rd' = rd
  PROVE  IInv'
<1>1. /\ Types /\ Built(lib) /\ IsLibrary(lib) /\ Marked(lib) /\ Quiet(lib)
      /\ calls' = calls /\ stack' = stack /\ root' = root /\ file' = file
      /\ result' = result /\ origin' = origin
      /\ rest \in Seq(Token) /\ rd \in Header /\ origin \in {"client", "file", "copy"}
  BY DEF ReadState, Types
<1>2. run' = <<"abort">> /\ run' # <<>>
  BY DEF Abort
<1>3. lib.maxvar \in Nat
  BY <1>1, LibraryFields
<1>4. IsLibrary(lib') /\ lib.maxvar <= lib'.maxvar
  BY <1>1, <1>3
<1>5. Types'
  BY <1>1, <1>4, TypesKept
<1>6. HandedOver'
  BY <1>2 DEF HandedOver
<1> QED
  BY <1>1, <1>2, <1>5, <1>6, EndRight

(* Two steps of building are one. *)
LEMMA ExtendsTwice ==
  ASSUME NEW a, IsLibrary(a), NEW b, IsLibrary(b), NEW c, IsLibrary(c),
         Extends(a, b), Extends(b, c)
  PROVE  Extends(a, c)
<1>1. /\ a.maxvar \in Nat /\ b.maxvar \in Nat /\ c.maxvar \in Nat
      /\ a.maxvar <= b.maxvar /\ b.maxvar <= c.maxvar /\ a.maxvar <= c.maxvar
  BY LibraryFields DEF Extends
<1>2. ASSUME NEW v \in 0 .. a.maxvar
      PROVE /\ c.types[v].mark = a.types[v].mark /\ c.types[v].onstack = a.types[v].onstack
            /\ a.types[v].kind # "none" => c.types[v] = a.types[v]
  <2>1. v \in 0 .. b.maxvar
    BY <1>1
  <2> QED
    BY <2>1 DEF Extends
<1>3. ASSUME NEW v \in a.maxvar + 1 .. c.maxvar
      PROVE ~c.types[v].mark /\ ~c.types[v].onstack
  <2>1. CASE v <= b.maxvar
    <3>1. v \in 0 .. b.maxvar /\ v \in a.maxvar + 1 .. b.maxvar
      BY <2>1, <1>1
    <3> QED
      BY <3>1 DEF Extends
  <2>2. CASE ~(v <= b.maxvar)
    <3>1. v \in b.maxvar + 1 .. c.maxvar
      BY <2>2, <1>1
    <3> QED
      BY <3>1 DEF Extends
  <2> QED
    BY <2>1, <2>2
<1>4. \A k \in DOMAIN a.ands : k \in DOMAIN c.ands /\ c.ands[k] = a.ands[k]
  BY DEF Extends
<1> QED
  BY <1>1, <1>2, <1>3, <1>4 DEF Extends

(* A latch, and the reset value that may follow it. *)
LEMMA LatchResetRight ==
  ASSUME ReadState(3), NEW l, IsLibrary(l), Built(l), Extends(lib, l), l.error = lib.error,
         l.inputs = lib.inputs, l.ands = lib.ands, l.justice = lib.justice,
         rd.mode = "binary" => InOrder(l),
         NEW lit \in Nat, NEW skip \in Nat, NEW end, LatchReset(l, lit, skip, end)
  PROVE  IInv'
<1>1. /\ IsLibrary(lib) /\ Built(lib) /\ ReaderAt(3) /\ rest \in Seq(Token) /\ rd \in Header
  BY DEF ReadState, Types
<1>2. /\ rd.mode \in {"ascii", "binary"} /\ lib.ands = <<>> /\ Len(lib.inputs) = rd.inputs
      /\ lib.justice = <<>>
  BY <1>1 DEF ReaderAt
<1>3. Skip(skip) \in Seq(Token)
  BY <1>1, SkipTyped
<1>4. ASSUME NEW r, IsLibrary(r), Built(r), Extends(lib, r), r.error = lib.error,
             r.inputs = lib.inputs, r.ands = lib.ands, r.justice = lib.justice, rd.mode = "binary" => InOrder(r),
             NEW k \in Nat, Store(r, k)
      PROVE IInv'
  <2>1. lib' = r /\ rd' = rd
    BY <1>4 DEF Store
  <2>2. rd.mode = "binary" => InOrder(lib)'
    BY <1>4, <2>1 DEF InOrder
  <2>3. ReaderAt(3)'
    BY <1>2, <1>4, <2>1, <2>2 DEF ReaderAt
  <2> QED
    BY <1>4, <2>3, StoreRight
<1>5. CASE end = "newline"
  <2>1. Store(l, skip)
    BY <1>5 DEF LatchReset
  <2> QED
    BY <2>1, <1>4
<1>6. CASE end # "newline" /\ ~aiger_read_literal(Skip(skip), {"newline"})
  <2>1. lib' = WithError(l, "literal") /\ run' = <<>> /\ rest' = rest /\ rd' = rd
    BY <1>6 DEF LatchReset, WithError
  <2> QED
    BY <2>1, FailAfterRight DEF Errors
<1>7. CASE end # "newline" /\ aiger_read_literal(Skip(skip), {"newline"})
  <2> DEFINE x == Head(Skip(skip)).n
  <2>1. x \in Nat
    BY <1>3, <1>7, LiteralTyped
  <2>2. CASE ~CanReset(l, lit, x)
    <3>1. Abort /\ lib' = lib /\ rest' = rest /\ rd' = rd
      BY <1>7, <2>2 DEF LatchReset
    <3> QED
      BY <3>1, AbortRight
  <2>3. CASE CanReset(l, lit, x)
    <3>1. Store(aiger_add_reset(l, lit, x), skip + 1)
      BY <1>7, <2>3 DEF LatchReset
    <3> HIDE DEF x
    <3>2. PICK r : r = aiger_add_reset(l, lit, x)
      OBVIOUS
    <3>3. /\ IsLibrary(r) /\ Built(r) /\ Extends(l, r) /\ r.error = l.error
          /\ r.inputs = l.inputs /\ r.ands = l.ands /\ r.justice = l.justice
          /\ DOMAIN r.latches = DOMAIN l.latches
          /\ \A k \in DOMAIN l.latches : r.latches[k].lit = l.latches[k].lit
      BY <2>1, <2>3, <3>2, AddResetRight
    <3>4. Extends(lib, r)
      BY <1>1, <3>3, ExtendsTwice
    <3>5. rd.mode = "binary" => InOrder(r)
      BY <3>3 DEF InOrder
    <3> QED
      BY <1>4, <3>1, <3>2, <3>3, <3>4, <3>5
  <2> QED
    BY <2>2, <2>3
<1> QED
  BY <1>5, <1>6, <1>7

(* The latches: each is stored before its reset value is read, and the
   value may end the call or the program. *)
LEMMA ReadLatchRight ==
  ASSUME IInv, ReadLatch
  PROVE  IInv'
<1>1. ReadState(3)
  BY ReadStarts, ReadRoutinesAre DEF ReadLatch
<1>2. /\ IsLibrary(lib) /\ Built(lib) /\ rest \in Seq(Token) /\ rd \in Header
      /\ ReaderAt(3) /\ NoName \in Texts
  BY <1>1, NamesAssumption DEF ReadState, Types
<1>3. lib.latches \in Seq(LatchEntry) /\ Len(lib.latches) \in Nat
      /\ DOMAIN lib.latches = 1 .. Len(lib.latches) /\ rd.inputs \in Nat
      /\ lib.inputs \in Seq(SymbolEntry) /\ DOMAIN lib.inputs = 1 .. Len(lib.inputs)
  BY <1>2, LibraryFields DEF Header
<1>4. /\ rd.mode \in {"ascii", "binary"} /\ lib.ands = <<>> /\ Len(lib.inputs) = rd.inputs
      /\ lib.justice = <<>>
      /\ rd.mode = "binary" => InOrder(lib)
  BY <1>2 DEF ReaderAt
<1> DEFINE k == IF rd.mode = "ascii" THEN 1 ELSE 0
           lit == IF k = 1 THEN Head(rest).n ELSE 2 * (rd.inputs + Len(lib.latches) + 1)
           ts == Skip(k)
<1>5. \/ Len(lib.latches) = rd.latches /\ SectionRead
      \/ \E e \in {"literal", "range", "defined"} : Fail(e)
      \/ /\ k = 1 => aiger_read_literal(rest, {"space"}) /\ Undefined(lib, lit)
         /\ aiger_read_literal(ts, {"space", "newline"})
         /\ LatchReset(aiger_add_latch(lib, lit, Head(ts).n, NoName), lit, k + 1, Head(ts).next)
  BY DEF ReadLatch
<1>6. CASE Len(lib.latches) = rd.latches /\ SectionRead
  <2>1. lib' = lib /\ rd' = rd
    BY <1>6 DEF SectionRead
  <2>2. ReaderAt(4)'
    BY <1>4, <1>6, <2>1 DEF ReaderAt, InOrder
  <2> QED
    BY <1>1, <1>6, <2>2, SectionReadRight
<1>7. CASE \E e \in {"literal", "range", "defined"} : Fail(e)
  BY <1>1, <1>7, FailRight DEF Errors
<1>8. CASE /\ k = 1 => aiger_read_literal(rest, {"space"}) /\ Undefined(lib, lit)
           /\ aiger_read_literal(ts, {"space", "newline"})
           /\ LatchReset(aiger_add_latch(lib, lit, Head(ts).n, NoName), lit, k + 1, Head(ts).next)
  <2>1. k \in {0, 1} /\ (k = 1 <=> rd.mode = "ascii")
    OBVIOUS
  <2>2. lit \in Nat /\ Undefined(lib, lit)
        /\ (k = 0 => lit = 2 * (rd.inputs + Len(lib.latches) + 1))
    <3>1. CASE k = 1
      <4>1. aiger_read_literal(rest, {"space"})
        BY <1>8, <3>1
      <4>2. lit = Head(rest).n
        BY <3>1
      <4>3. lit \in Nat
        BY <4>1, <4>2, <1>2, LiteralTyped
      <4> QED
        BY <4>3, <3>1, <1>8
    <3>2. CASE k = 0
      <4> DEFINE v == rd.inputs + Len(lib.latches) + 1
      <4>1. /\ v \in Nat /\ v >= 1
            /\ \A i \in DOMAIN lib.inputs : i # v
            /\ \A i \in DOMAIN lib.latches : rd.inputs + i # v
            /\ \A i \in DOMAIN lib.ands : rd.inputs + rd.latches + i # v
        BY <1>3, <1>4
      <4>2. InOrder(lib)
        BY <1>4, <2>1, <3>2
      <4>3. lit = 2 * v
        BY <3>2
      <4> HIDE DEF v
      <4>4. Undefined(lib, 2 * v) /\ 2 * v \in Nat
        BY <1>2, <4>1, <4>2, FreshInOrder
      <4> QED
        BY <4>3, <4>4, <3>2 DEF v
    <3> QED
      BY <3>1, <3>2, <2>1
  <2>3. ts \in Seq(Token) /\ k + 1 \in Nat
    BY <1>2, <2>1, SkipTyped
  <2> HIDE DEF k, ts, lit
  <2>4. Head(ts).n \in Nat
    BY <1>8, <2>3, LiteralTyped
  <2> DEFINE e == [lit |-> lit, next |-> Head(ts).n, reset |-> 0, name |-> NoName]
  <2>5. PICK l : l = aiger_add_latch(lib, lit, Head(ts).n, NoName)
    OBVIOUS
  <2>6. /\ IsLibrary(l) /\ Built(l) /\ Extends(lib, l) /\ l.error = lib.error
        /\ l.latches = Append(lib.latches, e)
        /\ l.inputs = lib.inputs /\ l.ands = lib.ands /\ l.justice = lib.justice
    BY <1>2, <2>2, <2>4, <2>5, AddLatchRight
  <2>7. e \in LatchEntry /\ e.lit = lit
    BY <1>2, <2>2, <2>4 DEF LatchEntry
  <2> HIDE DEF e
  <2>8. ASSUME rd.mode = "binary" PROVE InOrder(l)
    <3>1. k = 0
      BY <2>1, <2>8
    <3>2. lit = 2 * (rd.inputs + Len(lib.latches) + 1)
      BY <3>1, <2>2
    <3>3. ASSUME NEW i \in DOMAIN l.latches PROVE l.latches[i].lit = 2 * (rd.inputs + i)
      <4>1. \/ i \in DOMAIN lib.latches /\ l.latches[i] = lib.latches[i]
            \/ i = Len(lib.latches) + 1 /\ l.latches[i] = e
        BY <1>3, <2>6, <2>7, AppendFacts
      <4>2. i \in DOMAIN lib.latches => lib.latches[i].lit = 2 * (rd.inputs + i)
        BY <1>4, <2>8 DEF InOrder
      <4>3. rd.inputs + Len(lib.latches) + 1 = rd.inputs + (Len(lib.latches) + 1)
        <5>1. \A a, b \in Nat : a + b + 1 = a + (b + 1)
          OBVIOUS
        <5>2. rd.inputs \in Nat /\ Len(lib.latches) \in Nat
          BY <1>3
        <5> QED
          BY <5>1, <5>2
      <4> QED
        BY <3>2, <4>1, <4>2, <4>3, <2>7
    <3> QED
      BY <3>3, <1>4, <2>6, <2>8 DEF InOrder
  <2> QED
    BY <1>1, <1>8, <2>2, <2>3, <2>5, <2>6, <2>8, LatchResetRight
<1> QED
  BY <1>5, <1>6, <1>7, <1>8

-----------------------------------------------------------------------------
(* Outputs, bad states, constraints and fairness constraints. *)
LEMMA ReadLitsRight ==
  ASSUME IInv, NEW n \in {4, 5, 6, 9}, NEW s \in Plain, s = ReadRoutines[n], ReadLits(s)
  PROVE  IInv'
<1>1. ReadState(n)
  BY ReadStarts DEF ReadLits
<1>2. /\ IsLibrary(lib) /\ Built(lib) /\ rest \in Seq(Token) /\ rd \in Header
      /\ ReaderAt(n) /\ NoName \in Texts
  BY <1>1, NamesAssumption DEF ReadState, Types
<1>3. \/ SectionRead
      \/ \E e \in {"literal", "range"} : Fail(e)
      \/ /\ aiger_read_literal(rest, {"newline"})
         /\ Store(AddSymbol(lib, s, Head(rest).n, NoName), 1)
  BY DEF ReadLits
<1>4. CASE SectionRead
  <2>1. lib' = lib /\ rd' = rd
    BY <1>4 DEF SectionRead
  <2>2. InOrder(lib)' <=> InOrder(lib)
    BY <2>1 DEF InOrder
  <2>3. ReaderAt(n + 1)'
    BY <1>2, <2>1, <2>2 DEF ReaderAt
  <2> QED
    BY <1>1, <1>4, <2>3, SectionReadRight
<1>5. CASE \E e \in {"literal", "range"} : Fail(e)
  BY <1>1, <1>5, FailRight DEF Errors
<1>6. CASE /\ aiger_read_literal(rest, {"newline"})
           /\ Store(AddSymbol(lib, s, Head(rest).n, NoName), 1)
  <2>1. PICK lit \in Nat : lit = Head(rest).n
    BY <1>2, <1>6, LiteralTyped
  <2>2. PICK l : l = AddSymbol(lib, s, lit, NoName)
    OBVIOUS
  <2>3. /\ IsLibrary(l) /\ Built(l) /\ Extends(lib, l) /\ l.error = lib.error
        /\ l.inputs = lib.inputs /\ l.latches = lib.latches /\ l.ands = lib.ands
        /\ l.justice = lib.justice
    BY <1>2, <2>2, AddSymbolRight
  <2>4. lib' = l /\ rd' = rd /\ Store(l, 1)
    BY <1>6, <2>1, <2>2 DEF Store
  <2>5. InOrder(lib)' <=> InOrder(lib)
    BY <2>3, <2>4 DEF InOrder
  <2>6. ReaderAt(n)'
    BY <1>2, <2>3, <2>4, <2>5 DEF ReaderAt
  <2> QED
    BY <1>1, <2>3, <2>4, <2>6, StoreRight
<1> QED
  BY <1>3, <1>4, <1>5, <1>6

(* The sizes of the justice properties. *)
LEMMA ReadSizesRight ==
  ASSUME IInv, ReadSizes
  PROVE  IInv'
<1>1. ReadState(7)
  BY ReadStarts, ReadRoutinesAre DEF ReadSizes
<1>2. /\ Types /\ Built(lib) /\ IsLibrary(lib) /\ Marked(lib) /\ Quiet(lib)
      /\ calls' = calls /\ stack' = stack /\ root' = root /\ file' = file
      /\ result' = result /\ origin' = origin /\ lib.error = "none"
      /\ origin # "client" /\ Tail(run) = SubSeq(ReadRoutines, 8, 12)
      /\ rest \in Seq(Token) /\ rd \in Header /\ origin \in {"client", "file", "copy"}
      /\ ReaderAt(7)
  BY <1>1 DEF ReadState, Types
<1>3. rd.justice \in Nat /\ lib.maxvar \in Nat
  BY <1>2, LibraryFields DEF Header
<1>4. CASE Fail("literal")
  BY <1>1, <1>4, FailRight DEF Errors
<1> DEFINE sizes == [i \in 1 .. rd.justice |-> rest[i].n]
<1>5. CASE /\ NumbersAt(rest, [i \in 1 .. rd.justice |-> {"newline"}])
           /\ rd' = [rd EXCEPT !.sizes = sizes] /\ rest' = Skip(rd.justice)
           /\ Finish /\ lib' = lib
  <2>1. sizes \in Seq(Nat) /\ Len(sizes) = rd.justice
    BY <1>2, <1>3, <1>5, LinesTyped
  <2> HIDE DEF sizes
  <2>2. /\ rd' \in Header /\ rd'.sizes = sizes /\ rd'.justice = rd.justice
        /\ rd'.mode = rd.mode /\ rd'.inputs = rd.inputs /\ rd'.latches = rd.latches
    BY <1>2, <1>5, <2>1 DEF Header
  <2>3. rest' \in Seq(Token)
    BY <1>2, <1>3, <1>5, SkipTyped
  <2>4. IsLibrary(lib') /\ lib.maxvar <= lib'.maxvar
    BY <1>2, <1>3, <1>5
  <2>5. Types'
    BY <1>2, <2>2, <2>3, <2>4, TypesKept
  <2>6. InOrder(lib)' <=> InOrder(lib)
    BY <1>5, <2>2 DEF InOrder
  <2>7. ReaderAt(8)'
    BY <1>2, <1>3, <1>5, <2>1, <2>2, <2>6 DEF ReaderAt
  <2>8. /\ Built(lib') /\ lib'.error = "none" /\ Marked(lib') /\ Quiet(lib')
        /\ origin' # "client" /\ run' = SubSeq(ReadRoutines, 8, 12)
    BY <1>2, <1>5 DEF Finish
  <2> QED
    BY <2>5, <2>7, <2>8, ReadOnRight
<1> QED
  BY <1>4, <1>5 DEF ReadSizes

(* Justice properties, whose literals widen the table of types. *)
LEMMA ReadJusticeRight ==
  ASSUME IInv, ReadJustice
  PROVE  IInv'
<1>1. ReadState(8)
  BY ReadStarts, ReadRoutinesAre DEF ReadJustice
<1>2. /\ IsLibrary(lib) /\ Built(lib) /\ rest \in Seq(Token) /\ rd \in Header
      /\ ReaderAt(8) /\ NoName \in Texts
  BY <1>1, NamesAssumption DEF ReadState, Types
<1>3. /\ rd.sizes \in Seq(Nat) /\ rd.justice \in Nat /\ Len(lib.justice) \in Nat
      /\ lib.justice \in Seq(JusticeEntry)
      /\ Len(rd.sizes) = rd.justice /\ Len(lib.justice) <= rd.justice
  BY <1>2, LibraryFields DEF ReaderAt, Header
<1>4. CASE Len(lib.justice) = rd.justice
  <2>1. SectionRead
    BY <1>4 DEF ReadJustice
  <2>2. lib' = lib /\ rd' = rd
    BY <2>1 DEF SectionRead
  <2>3. InOrder(lib)' <=> InOrder(lib)
    BY <2>2 DEF InOrder
  <2>4. ReaderAt(9)'
    BY <1>2, <2>2, <2>3 DEF ReaderAt
  <2> QED
    BY <1>1, <2>1, <2>4, SectionReadRight
<1>5. CASE Len(lib.justice) # rd.justice
  <2>1. PICK n : n = rd.sizes[Len(lib.justice) + 1]
    OBVIOUS
  <2>2. n \in Nat
    <3>1. Len(lib.justice) + 1 \in 1 .. Len(rd.sizes)
      BY <1>3, <1>5
    <3> QED
      BY <2>1, <3>1, <1>3
  <2> DEFINE lits == [i \in 1 .. n |-> rest[i].n]
  <2>3. \/ Fail("literal")
        \/ /\ NumbersAt(rest, [i \in 1 .. n |-> {"newline"}])
           /\ Store(aiger_add_justice(lib, lits, NoName), n)
    BY <1>5, <2>1 DEF ReadJustice
  <2>4. CASE Fail("literal")
    BY <1>1, <2>4, FailRight DEF Errors
  <2>5. CASE /\ NumbersAt(rest, [i \in 1 .. n |-> {"newline"}])
             /\ Store(aiger_add_justice(lib, lits, NoName), n)
    <3>1. lits \in Seq(Nat)
      BY <1>2, <2>2, <2>5, LinesTyped
    <3> HIDE DEF lits
    <3>2. PICK l : l = aiger_add_justice(lib, lits, NoName)
      OBVIOUS
    <3>3. /\ IsLibrary(l) /\ Built(l) /\ Extends(lib, l) /\ l.error = lib.error
          /\ l.inputs = lib.inputs /\ l.latches = lib.latches /\ l.ands = lib.ands
          /\ l.justice = Append(lib.justice, [lits |-> lits, name |-> NoName])
      BY <1>2, <3>1, <3>2, AddJusticeRight
    <3>4. lib' = l /\ rd' = rd /\ Store(l, n)
      BY <2>5, <3>2 DEF Store
    <3>5. InOrder(lib)' <=> InOrder(lib)
      BY <3>3, <3>4 DEF InOrder
    <3>6. Len(l.justice) = Len(lib.justice) + 1
      BY <1>3, <3>3
    <3>7. Len(l.justice) <= rd.justice
      BY <1>3, <1>5, <3>6
    <3>8. ReaderAt(8)'
      BY <1>2, <3>3, <3>4, <3>5, <3>7 DEF ReaderAt
    <3> QED
      BY <1>1, <2>2, <3>3, <3>4, <3>8, StoreRight
  <2> QED
    BY <2>3, <2>4, <2>5
<1> QED
  BY <1>4, <1>5

-----------------------------------------------------------------------------
(* In a binary file the largest input or latch is the last one. *)
LEMMA LastLeaf ==
  ASSUME InOrder(lib), IsLibrary(lib), rd \in Header,
         Len(lib.inputs) = rd.inputs, Len(lib.latches) = rd.latches
  PROVE  aiger_max_input_or_latch(lib) = 2 * (rd.inputs + rd.latches)
<1> DEFINE A == {lib.inputs[k].lit : k \in DOMAIN lib.inputs}
           B == {lib.latches[k].lit : k \in DOMAIN lib.latches}
           S == {0} \cup A \cup B
           b == 2 * (rd.inputs + rd.latches)
<1>1. /\ rd.inputs \in Nat /\ rd.latches \in Nat
      /\ DOMAIN lib.inputs = 1 .. rd.inputs /\ DOMAIN lib.latches = 1 .. rd.latches
  BY LibraryFields DEF Header
<1>2. A = {2 * k : k \in 1 .. rd.inputs}
  BY <1>1 DEF InOrder
<1>3. B = {2 * (rd.inputs + k) : k \in 1 .. rd.latches}
  BY <1>1 DEF InOrder
<1> HIDE DEF A, B
<1>4. S \in SUBSET Nat /\ S # {} /\ b \in Nat /\ \A x \in S : x <= b
  BY <1>1, <1>2, <1>3
<1>5. b \in S
  <2>1. CASE rd.latches > 0
    <3>1. rd.latches \in 1 .. rd.latches
      BY <2>1, <1>1
    <3> QED
      BY <3>1, <1>3
  <2>2. CASE rd.latches = 0 /\ rd.inputs > 0
    <3>1. rd.inputs \in 1 .. rd.inputs /\ b = 2 * rd.inputs
      BY <2>2, <1>1
    <3> QED
      BY <3>1, <1>2
  <2>3. CASE rd.latches = 0 /\ rd.inputs = 0
    BY <2>3
  <2> QED
    BY <2>1, <2>2, <2>3, <1>1
<1>6. aiger_max_input_or_latch(lib) = Max(S)
  BY DEF aiger_max_input_or_latch, A, B
<1> HIDE DEF S, b
<1>7. Max(S) \in S /\ \A x \in S : x <= Max(S)
  BY <1>4, MaxRight
<1>8. Max(S) \in Nat /\ Max(S) <= b /\ b <= Max(S)
  BY <1>4, <1>5, <1>7
<1> QED
  BY <1>4, <1>6, <1>8 DEF b

(* What aiger_getc returns for a token is a byte. *)
LEMMA ByteAtTyped ==
  ASSUME NEW t \in Token
  PROVE  ByteAt(t) \in 0 .. 255
<1>1. t.kind = "byte" => t.b \in 0 .. 255
  BY DEF Token
<1>2. CASE t.kind = "byte"
  <2>1. ByteAt(t) = t.b
    BY <1>2 DEF ByteAt
  <2> QED
    BY <2>1, <1>1, <1>2
<1>3. CASE t.kind # "byte"
  <2>1. ByteAt(t) = 48
    BY <1>3 DEF ByteAt
  <2> QED
    BY <2>1
<1> QED
  BY <1>2, <1>3

(* The bytes of a number, and what they can say. *)
LEMMA DeltaTyped ==
  ASSUME NEW ts \in Seq(Token)
  PROVE  LET d == aiger_read_delta(ts)
         IN /\ d.error \in {"none", "code", "eof"} /\ d.bytes \in Seq(0 .. 255)
            /\ Len(d.bytes) \in Nat
<1> DEFINE n == DeltaLength(ts)
           m == Min({n, Len(ts)})
           bs == [i \in 1 .. m |-> ByteAt(ts[i])]
<1>1. n \in Nat
  <2> DEFINE S == {Len(ts) + 1} \cup {i \in DOMAIN ts : ByteAt(ts[i]) < 128}
  <2>1. S \in SUBSET Nat /\ S # {}
    OBVIOUS
  <2>2. Min(S) \in S
    BY <2>1, MinRight
  <2> QED
    BY <2>1, <2>2 DEF DeltaLength
<1> HIDE DEF n
<1>2. m \in Nat /\ m <= Len(ts)
  <2>1. {n, Len(ts)} \in SUBSET Nat /\ {n, Len(ts)} # {} /\ Len(ts) \in Nat
    BY <1>1
  <2>2. m \in {n, Len(ts)} /\ \A k \in {n, Len(ts)} : m <= k
    BY <2>1, MinRight
  <2> QED
    BY <2>1, <2>2
<1> HIDE DEF m
<1>3. ASSUME NEW i \in 1 .. m PROVE ByteAt(ts[i]) \in 0 .. 255
  <2>1. ts[i] \in Token
    <3>1. i \in 1 .. Len(ts)
      BY <1>2
    <3> QED
      BY <3>1, ElementOfSeq
  <2> QED
    BY <2>1, ByteAtTyped
<1>4. bs \in [1 .. m -> 0 .. 255]
  BY <1>3
<1>5. bs \in Seq(0 .. 255) /\ Len(bs) \in Nat
  BY <1>2, <1>4, EndsLength
<1> HIDE DEF bs
<1>6. /\ aiger_read_delta(ts).bytes = bs
      /\ aiger_read_delta(ts).error \in {"none", "code", "eof"}
  BY DEF aiger_read_delta, n, m, bs
<1> QED
  BY <1>5, <1>6

(* Whatever aiger_read_delta returns is a number. *)
LEMMA DeltaValuesNat ==
  ASSUME NEW bs \in Seq(0 .. 255)
  PROVE  DeltaValues(bs) \subseteq Nat
<1>0. Len(bs) \in Nat /\ DOMAIN bs = 1 .. Len(bs)
  OBVIOUS
<1>1. ASSUME NEW i \in DOMAIN bs PROVE bs[i] \in 0 .. 255 /\ bs[i] \in Nat
  <2>1. i \in 1 .. Len(bs)
    BY <1>0
  <2>2. bs[i] \in 0 .. 255
    BY <2>1, ElementOfSeq
  <2>3. \A x \in 0 .. 255 : x \in Nat
    OBVIOUS
  <2> QED
    BY <2>2, <2>3, Zenon
<1>2. \A i \in 1 .. 4 : SevenBits(bs, i) \in Nat
  BY <1>1 DEF SevenBits
<1>3. FourBits(bs) \in Nat
  BY <1>1 DEF FourBits
<1>4. Large \in Nat
  BY DEF Large
<1>5. LowBits(bs) \in Nat
  <2> DEFINE s1 == SevenBits(bs, 1)
             s2 == SevenBits(bs, 2)
             s3 == SevenBits(bs, 3)
             s4 == SevenBits(bs, 4)
             f == FourBits(bs)
             l == Large
  <2>1. s1 \in Nat /\ s2 \in Nat /\ s3 \in Nat /\ s4 \in Nat /\ f \in Nat /\ l \in Nat
    BY <1>2, <1>3, <1>4
  <2>2. LowBits(bs) = s1 + 128 * s2 + 128 * 128 * s3 + 128 * 128 * 128 * s4 + l * f
    BY DEF LowBits
  <2> HIDE DEF s1, s2, s3, s4, f, l
  <2>3. l * f \in Nat
    BY <2>1
  <2> QED
    BY <2>1, <2>2, <2>3
<1>6. CASE Len(bs) < 6
  BY <1>5, <1>6 DEF DeltaValues
<1>7. CASE ~(Len(bs) < 6)
  <2>1. bs[6] \in Nat
    BY <1>1, <1>0, <1>7
  <2>2. LowBits(bs) .. LowBits(bs) + 8 * bs[6] \subseteq Nat
    BY <2>1, <1>5
  <2> DEFINE some == LowBits(bs) .. LowBits(bs) + 8 * bs[6]
  <2> HIDE DEF some
  <2>3. DeltaValues(bs) = {LowBits(bs), Large} \cup some
    BY <1>7 DEF DeltaValues, some
  <2> QED
    BY <2>3, <2>2, <1>5, <1>4 DEF some
<1> QED
  BY <1>6, <1>7

-----------------------------------------------------------------------------
(* A gate is stored. *)
LEMMA StoreAndRight ==
  ASSUME ReadState(10), NEW lhs \in Nat, Undefined(lib, lhs), NEW a \in Nat, NEW b \in Nat,
         rd.mode = "binary" => lhs = 2 * (rd.inputs + rd.latches + (Len(lib.ands) + 1)),
         NEW k \in Nat, Store(aiger_add_and(lib, lhs, a, b), k)
  PROVE  IInv'
<1>1. IsLibrary(lib) /\ Built(lib) /\ ReaderAt(10)
  BY DEF ReadState, Types
<1> DEFINE e == [lhs |-> lhs, rhs0 |-> a, rhs1 |-> b]
<1>2. PICK l : l = aiger_add_and(lib, lhs, a, b)
  OBVIOUS
<1>3. /\ IsLibrary(l) /\ Built(l) /\ Extends(lib, l) /\ l.error = lib.error
      /\ l.ands = Append(lib.ands, e)
      /\ l.inputs = lib.inputs /\ l.latches = lib.latches
  BY <1>1, <1>2, AddAndRight
<1>4. lib' = l /\ rd' = rd /\ Store(l, k)
  BY <1>2 DEF Store
<1>5. e \in AG!And /\ e.lhs = lhs /\ lib.ands \in Seq(AG!And)
  BY <1>1, LibraryFields DEF AG!And
<1> HIDE DEF e
<1>6. ASSUME rd.mode = "binary" PROVE InOrder(l)
  <2>1. InOrder(lib)
    BY <1>1, <1>6 DEF ReaderAt
  <2>2. ASSUME NEW i \in DOMAIN l.ands
        PROVE l.ands[i].lhs = 2 * (rd.inputs + rd.latches + i)
    <3>1. \/ i \in DOMAIN lib.ands /\ l.ands[i] = lib.ands[i]
          \/ i = Len(lib.ands) + 1 /\ l.ands[i] = e
      BY <1>3, <1>5, AppendFacts
    <3>2. i \in DOMAIN lib.ands => lib.ands[i].lhs = 2 * (rd.inputs + rd.latches + i)
      BY <2>1 DEF InOrder
    <3> QED
      BY <3>1, <3>2, <1>5, <1>6
  <2> QED
    BY <2>1, <2>2, <1>3 DEF InOrder
<1>7. rd.mode = "binary" => InOrder(lib)'
  BY <1>4, <1>6 DEF InOrder
<1>8. ReaderAt(10)'
  BY <1>1, <1>3, <1>4, <1>7 DEF ReaderAt
<1> QED
  BY <1>3, <1>4, <1>8, StoreRight

(* A gate of an ASCII file. *)
LEMMA AsciiGateRight ==
  ASSUME ReadState(10), rd.mode = "ascii", AsciiGate
  PROVE  IInv'
<1>1. rest \in Seq(Token)
  BY DEF ReadState, Types
<1> DEFINE three == <<{"space"}, {"space"}, {"newline"}>>
<1>2. \/ \E e \in {"literal", "range", "defined"} : Fail(e)
      \/ /\ aiger_read_literal(rest, {"space"}) /\ Undefined(lib, Head(rest).n)
         /\ NumbersAt(rest, three)
         /\ Store(aiger_add_and(lib, Head(rest).n, rest[2].n, rest[3].n), 3)
  BY DEF AsciiGate
<1>3. CASE \E e \in {"literal", "range", "defined"} : Fail(e)
  BY <1>3, FailRight DEF Errors
<1>4. CASE /\ aiger_read_literal(rest, {"space"}) /\ Undefined(lib, Head(rest).n)
           /\ NumbersAt(rest, three)
           /\ Store(aiger_add_and(lib, Head(rest).n, rest[2].n, rest[3].n), 3)
  <2>1. Head(rest).n \in Nat
    BY <1>1, <1>4, LiteralTyped
  <2>2. DOMAIN three = 1 .. 3 /\ Len(three) = 3
    OBVIOUS
  <2> HIDE DEF three
  <2>3. \A i \in 1 .. 3 : rest[i].n \in Nat
    BY <1>1, <1>4, <2>2, NumbersTyped
  <2>4. rest[2].n \in Nat /\ rest[3].n \in Nat
    BY <2>3
  <2> QED
    BY <1>4, <2>1, <2>4, StoreAndRight
<1> QED
  BY <1>2, <1>3, <1>4

(* A gate of a binary file: its left hand side is a literal that nothing
   has defined, and neither difference is larger than what it is taken
   from. *)
LEMMA BinaryGateRight ==
  ASSUME ReadState(10), rd.mode = "binary", BinaryGate
  PROVE  IInv'
<1>1. /\ IsLibrary(lib) /\ Built(lib) /\ rest \in Seq(Token) /\ rd \in Header /\ ReaderAt(10)
  BY DEF ReadState, Types
<1>2. /\ InOrder(lib) /\ Len(lib.inputs) = rd.inputs /\ Len(lib.latches) = rd.latches
  BY <1>1 DEF ReaderAt
<1>3. /\ rd.inputs \in Nat /\ rd.latches \in Nat /\ Len(lib.ands) \in Nat
      /\ DOMAIN lib.inputs = 1 .. rd.inputs /\ DOMAIN lib.latches = 1 .. rd.latches
      /\ DOMAIN lib.ands = 1 .. Len(lib.ands)
  BY <1>1, <1>2, LibraryFields DEF Header
<1> DEFINE lhs == aiger_max_input_or_latch(lib) + 2 * (Len(lib.ands) + 1)
           one == aiger_read_delta(rest)
           after == Skip(Len(one.bytes))
           two == aiger_read_delta(after)
           v == rd.inputs + rd.latches + (Len(lib.ands) + 1)
<1>4. lhs = 2 * v
  <2>1. aiger_max_input_or_latch(lib) = 2 * (rd.inputs + rd.latches)
    BY <1>1, <1>2, LastLeaf
  <2>2. \A a, b, c \in Nat : 2 * (a + b) + 2 * (c + 1) = 2 * (a + b + (c + 1))
    OBVIOUS
  <2>3. lhs = 2 * (rd.inputs + rd.latches) + 2 * (Len(lib.ands) + 1)
    BY <2>1
  <2> HIDE DEF lhs
  <2>4. rd.inputs \in Nat /\ rd.latches \in Nat /\ Len(lib.ands) \in Nat
    BY <1>3
  <2> QED
    BY <2>2, <2>3, <2>4
<1>5. /\ v \in Nat /\ v >= 1
      /\ \A i \in DOMAIN lib.inputs : i # v
      /\ \A i \in DOMAIN lib.latches : rd.inputs + i # v
      /\ \A i \in DOMAIN lib.ands : rd.inputs + rd.latches + i # v
  BY <1>3
<1>6. Undefined(lib, lhs) /\ lhs \in Nat /\ lhs = 2 * v
  <2> HIDE DEF v, lhs
  <2> QED
    BY <1>1, <1>2, <1>4, <1>5, FreshInOrder
<1>7. /\ one.error \in {"none", "code", "eof"} /\ one.bytes \in Seq(0 .. 255)
      /\ Len(one.bytes) \in Nat
  BY <1>1, DeltaTyped
<1>8. after \in Seq(Token)
  BY <1>1, <1>7, SkipTyped
<1>9. /\ two.error \in {"none", "code", "eof"} /\ two.bytes \in Seq(0 .. 255)
      /\ Len(two.bytes) \in Nat
  BY <1>8, DeltaTyped
<1>10. \/ one.error # "none" /\ Fail(one.error)
       \/ \E d \in DeltaValues(one.bytes) :
            \/ Fail("delta")
            \/ two.error # "none" /\ Fail(two.error)
            \/ \E e \in DeltaValues(two.bytes) :
                 ~(d > lhs) /\ ~(e > lhs - d)
                   /\ Store(aiger_add_and(lib, lhs, lhs - d, lhs - d - e),
                            Len(one.bytes) + Len(two.bytes))
  BY DEF BinaryGate
<1>11. DeltaValues(one.bytes) \subseteq Nat /\ DeltaValues(two.bytes) \subseteq Nat
  BY <1>7, <1>9, DeltaValuesNat
<1> HIDE DEF lhs, one, after, two
<1>12. ASSUME NEW x \in Errors \ {"none"}, Fail(x) PROVE IInv'
  BY <1>12, FailRight
<1>13. CASE one.error # "none" /\ Fail(one.error)
  BY <1>7, <1>12, <1>13 DEF Errors
<1>14. ASSUME NEW d \in DeltaValues(one.bytes), Fail("delta") PROVE IInv'
  BY <1>12, <1>14 DEF Errors
<1>15. ASSUME NEW d \in DeltaValues(one.bytes), two.error # "none", Fail(two.error) PROVE IInv'
  BY <1>9, <1>12, <1>15 DEF Errors
<1>16. ASSUME NEW d \in DeltaValues(one.bytes), NEW e \in DeltaValues(two.bytes),
              ~(d > lhs) /\ ~(e > lhs - d),
              Store(aiger_add_and(lib, lhs, lhs - d, lhs - d - e),
                    Len(one.bytes) + Len(two.bytes))
       PROVE IInv'
  <2>1. d \in Nat /\ e \in Nat
    BY <1>11
  <2>2. \A x, y, z \in Nat : ~(y > x) /\ ~(z > x - y) => x - y \in Nat /\ x - y - z \in Nat
    OBVIOUS
  <2>3. lhs - d \in Nat /\ lhs - d - e \in Nat
    BY <2>1, <2>2, <1>6, <1>16
  <2>4. Len(one.bytes) + Len(two.bytes) \in Nat
    <3>1. \A x, y \in Nat : x + y \in Nat
      OBVIOUS
    <3> QED
      BY <3>1, <1>7, <1>9, Zenon
  <2> QED
    BY <1>6, <1>16, <2>3, <2>4, StoreAndRight
<1> QED
  BY <1>10, <1>13, <1>14, <1>15, <1>16

(* The gates. *)
LEMMA ReadAndRight ==
  ASSUME IInv, ReadAnd
  PROVE  IInv'
<1>1. ReadState(10)
  BY ReadStarts, ReadRoutinesAre DEF ReadAnd
<1>2. ReaderAt(10) /\ rd.mode \in {"ascii", "binary"}
  BY <1>1 DEF ReadState, ReaderAt
<1>3. CASE SectionRead
  <2>1. lib' = lib /\ rd' = rd
    BY <1>3 DEF SectionRead
  <2>2. InOrder(lib)' <=> InOrder(lib)
    BY <2>1 DEF InOrder
  <2>3. ReaderAt(11)'
    BY <1>2, <2>1, <2>2 DEF ReaderAt
  <2> QED
    BY <1>1, <1>3, <2>3, SectionReadRight
<1>4. CASE rd.mode = "ascii" /\ AsciiGate
  BY <1>1, <1>4, AsciiGateRight
<1>5. CASE rd.mode = "binary" /\ BinaryGate
  BY <1>1, <1>5, BinaryGateRight
<1> QED
  BY <1>2, <1>3, <1>4, <1>5 DEF ReadAnd

-----------------------------------------------------------------------------
(* Entries of the same tables: as many inputs and latches, with the same literals. *)
LEMMA SameLitsLength ==
  ASSUME NEW S, NEW T, NEW s \in Seq(S), NEW t \in Seq(T), SameLits(s, t)
  PROVE  Len(t) = Len(s)
<1>1. Len(s) \in Nat /\ Len(t) \in Nat /\ 1 .. Len(t) = 1 .. Len(s)
  BY DEF SameLits
<1>2. \A a, b \in Nat : 1 .. a = 1 .. b => a = b
  <2>1. ASSUME NEW a \in Nat, NEW b \in Nat, 1 .. a = 1 .. b PROVE a = b
    <3>1. a > 0 => a \in 1 .. b
      <4>1. a > 0 => a \in 1 .. a
        OBVIOUS
      <4> QED
        BY <4>1, <2>1
    <3>2. b > 0 => b \in 1 .. a
      <4>1. b > 0 => b \in 1 .. b
        OBVIOUS
      <4> QED
        BY <4>1, <2>1
    <3> QED
      BY <3>1, <3>2
  <2> QED
    BY <2>1
<1> QED
  BY <1>1, <1>2

(* Names and comments do not move the reader. *)
LEMMA NamedReader ==
  ASSUME IsLibrary(lib), ReaderAt(11), NEW l, IsLibrary(l), Renamed(lib, l),
         lib' = l, rd' = rd, NEW m \in {11, 12}
  PROVE  ReaderAt(m)'
<1>1. Len(l.inputs) = Len(lib.inputs) /\ Len(l.latches) = Len(lib.latches)
  <2>1. /\ lib.inputs \in Seq(SymbolEntry) /\ l.inputs \in Seq(SymbolEntry)
        /\ lib.latches \in Seq(LatchEntry) /\ l.latches \in Seq(LatchEntry)
    BY LibraryFields
  <2>2. SameLits(lib.inputs, l.inputs) /\ SameLits(lib.latches, l.latches)
    BY DEF Renamed
  <2>3. Len(l.inputs) = Len(lib.inputs)
    BY <2>1, <2>2, SameLitsLength
  <2>4. Len(l.latches) = Len(lib.latches)
    BY <2>1, <2>2, SameLitsLength
  <2> QED
    BY <2>3, <2>4
<1>2. InOrder(lib) => InOrder(l)
  BY DEF InOrder, Renamed, SameLits
<1>3. InOrder(l) => InOrder(lib)'
  BY DEF InOrder
<1>4. m # 1 /\ ~(m < 3) /\ ~(m < 10) /\ ~(m < 8) /\ m # 8 /\ m > 1 /\ m > 2 /\ m > 3 /\ m > 7
  OBVIOUS
<1> QED
  BY <1>1, <1>2, <1>3, <1>4 DEF ReaderAt

(* A line of the comments, or a name, is a text. *)
LEMMA TextTyped ==
  ASSUME NEW t \in Token, EndedText(t)
  PROVE  t.s \in Texts
<1>1. t.kind = "text"
  BY DEF EndedText
<1>2. t.kind = "text" => t.s \in Texts
  BY DEF Token
<1> QED
  BY <1>1, <1>2

(* The lines of the comments before the first that has no end. *)
LEMMA CommentsTyped ==
  ASSUME NEW ts \in Seq(Token)
  PROVE  LET n == Min({Len(ts) + 1} \cup {i \in DOMAIN ts : ~EndedText(ts[i])}) - 1
         IN n \in Nat /\ [i \in 1 .. n |-> ts[i].s] \in Seq(Texts)
<1> DEFINE S == {Len(ts) + 1} \cup {i \in DOMAIN ts : ~EndedText(ts[i])}
           n == Min(S) - 1
<1>1. Len(ts) \in Nat /\ DOMAIN ts = 1 .. Len(ts)
  OBVIOUS
<1>2. S \in SUBSET Nat /\ S # {} /\ Len(ts) + 1 \in S /\ \A i \in S : i >= 1
  BY <1>1
<1>3. Min(S) \in S /\ \A i \in S : Min(S) <= i
  BY <1>2, MinRight
<1>4. Min(S) \in Nat /\ Min(S) >= 1 /\ Min(S) <= Len(ts) + 1
  <2> HIDE DEF S
  <2> QED
    BY <1>2, <1>3
<1>5. n \in Nat /\ n <= Len(ts)
  BY <1>1, <1>4
<1>6. ASSUME NEW i \in 1 .. n PROVE ts[i].s \in Texts
  <2>1. i \in DOMAIN ts /\ i < Min(S)
    BY <1>1, <1>4, <1>5
  <2>2. EndedText(ts[i])
    <3>1. ~(Min(S) <= i)
      BY <2>1, <1>4
    <3> QED
      BY <3>1, <2>1, <1>3
  <2>3. ts[i] \in Token
    BY <2>1, <1>1, ElementOfSeq
  <2> QED
    BY <2>2, <2>3, TextTyped
<1> HIDE DEF n
<1>7. [i \in 1 .. n |-> ts[i].s] \in Seq(Texts)
  <2>1. [i \in 1 .. n |-> ts[i].s] \in [1 .. n -> Texts]
    BY <1>6
  <2> QED
    BY <2>1, <1>5
<1> QED
  BY <1>5, <1>7 DEF n

(* The tables of a section. *)
LEMMA SectionDomain ==
  ASSUME NEW l, IsLibrary(l), NEW s \in Sections
  PROVE  Len(l[s]) \in Nat /\ DOMAIN l[s] = 1 .. Len(l[s])
<1>1. \/ s = "inputs" \/ s = "latches" \/ s = "justice" \/ s = "outputs"
      \/ s = "bad" \/ s = "constraints" \/ s = "fairness"
  BY DEF Sections, Plain
<1>2. \/ l[s] \in Seq(SymbolEntry) \/ l[s] \in Seq(LatchEntry) \/ l[s] \in Seq(JusticeEntry)
  BY <1>1, LibraryFields
<1> QED
  BY <1>2

(* aiger_read_symbols_and_comments: a name of an entry, or the comments
   that end the file. *)
LEMMA ReadSymbolRight ==
  ASSUME IInv, ReadSymbol
  PROVE  IInv'
<1>1. ReadState(11)
  BY ReadStarts, ReadRoutinesAre DEF ReadSymbol
<1>2. /\ IsLibrary(lib) /\ Built(lib) /\ ReaderAt(11) /\ rest \in Seq(Token)
      /\ rd \in Header /\ lib.error = "none" /\ Marked(lib) /\ Quiet(lib)
  BY <1>1 DEF ReadState, Types
<1>3. Renamed(lib, lib)
  BY SameLitsReflexive DEF Renamed
<1>4. CASE rest = <<>> /\ SectionRead
  <2>1. lib' = lib /\ rd' = rd
    BY <1>4 DEF SectionRead
  <2>2. ReaderAt(12)'
    BY <1>2, <1>3, <2>1, NamedReader
  <2> QED
    BY <1>1, <1>4, <2>2, SectionReadRight
<1> DEFINE texts == Tail(rest)
           n == Min({Len(texts) + 1} \cup {i \in DOMAIN texts : ~EndedText(texts[i])}) - 1
           s == Head(rest).section
<1>5. CASE /\ rest # <<>>
           /\ lib' = [lib EXCEPT !.comments = @ \o [i \in 1 .. n |-> texts[i].s],
                                 !.num_comments = @ + n,
                                 !.error = IF n = Len(texts) THEN "none" ELSE "comment"]
           /\ run' = IF n = Len(texts) THEN Tail(run) ELSE <<>>
           /\ rest' = Skip(n + 1) /\ UNCHANGED rd
  <2>1. texts \in Seq(Token)
    BY <1>2, <1>5
  <2>2. n \in Nat /\ [i \in 1 .. n |-> texts[i].s] \in Seq(Texts)
    BY <2>1, CommentsTyped
  <2>3. PICK ended : ended = (n = Len(texts))
    OBVIOUS
  <2>4. PICK cs : cs = lib.comments \o [i \in 1 .. n |-> texts[i].s]
    OBVIOUS
  <2>5. PICK k : k = lib.num_comments + n
    OBVIOUS
  <2>6. PICK e : e = IF n = Len(texts) THEN "none" ELSE "comment"
    OBVIOUS
  <2>7. /\ lib' = Commented(lib, cs, k, e) /\ rest' = Skip(n + 1) /\ rd' = rd
        /\ \/ e = "none" /\ run' = Tail(run)
           \/ e = "comment" /\ run' = <<>>
    BY <1>5, <2>4, <2>5, <2>6 DEF Commented
  <2> HIDE DEF n, texts
  <2>8. cs \in Seq(Texts) /\ k \in Nat /\ e \in Errors
    <3>1. lib.comments \in Seq(Texts) /\ lib.num_comments \in Nat
      BY <1>2, LibraryFields
    <3>2. cs \in Seq(Texts)
      BY <3>1, <2>2, <2>4, ConcatProperties
    <3>3. k \in Nat
      BY <3>1, <2>2, <2>5
    <3> QED
      BY <3>2, <3>3, <2>7 DEF Errors
  <2>9. PICK r : r = Commented(lib, cs, k, e)
    OBVIOUS
  <2>10. IsLibrary(r) /\ Built(r) /\ Extends(lib, r) /\ Renamed(lib, r) /\ r.error = e
    BY <1>2, <2>8, <2>9, CommentsRight
  <2>11. lib' = r /\ Marked(r) /\ Quiet(r)
    BY <1>2, <2>7, <2>9, <2>10, ExtendsMarked
  <2>12. IsLibrary(lib') /\ lib.maxvar <= lib'.maxvar
    BY <2>10, <2>11 DEF Extends
  <2>13. rest' \in Seq(Token) /\ rd' \in Header
    <3>1. n + 1 \in Nat
      BY <2>2
    <3> QED
      BY <3>1, <1>2, <2>7, SkipTyped
  <2>14. /\ Types /\ stack' = stack /\ root' = root /\ file' = file /\ result' = result
         /\ calls' = calls /\ origin' = origin /\ origin # "client"
         /\ origin' \in {"client", "file", "copy"}
         /\ Tail(run) = SubSeq(ReadRoutines, 11 + 1, 12)
    BY <1>1 DEF ReadState, Types
  <2>15. Types'
    BY <2>12, <2>13, <2>14, TypesKept
  <2>16. Built(lib') /\ Marked(lib') /\ Quiet(lib') /\ lib'.error = e
    BY <2>10, <2>11
  <2>17. CASE e = "none" /\ run' = Tail(run)
    <3>1. ReaderAt(12)'
      BY <1>2, <2>7, <2>10, <2>11, NamedReader
    <3>2. origin' # "client" /\ run' = SubSeq(ReadRoutines, 12, 12)
      BY <2>14, <2>17
    <3>3. lib'.error = "none" /\ 12 \in 1 .. 12
      BY <2>16, <2>17
    <3> QED
      BY <2>15, <2>16, <3>1, <3>2, <3>3, ReadOnRight
  <2>18. CASE e = "comment" /\ run' = <<>>
    <3>1. HandedOver'
      BY <2>16, <2>18 DEF HandedOver
    <3> QED
      BY <2>15, <2>16, <2>18, <3>1, EndRight
  <2> QED
    BY <2>7, <2>17, <2>18
<1>6. CASE \E e \in {"literal", "symbol"} : Fail(e)
  BY <1>1, <1>6, FailRight DEF Errors
<1>7. CASE /\ rest # <<>> /\ Head(rest).kind = "sym"
           /\ aiger_read_literal(texts, {"space"})
           /\ ~(Head(texts).n >= Len(lib[s]))
           /\ ~(Len(texts) < 2 \/ ~EndedText(texts[2]))
           /\ Store([lib EXCEPT ![s][Head(texts).n + 1].name = texts[2].s], 3)
  <2>1. texts \in Seq(Token) /\ Head(rest) \in Token
    BY <1>2, <1>7
  <2>2. s \in Sections
    <3>1. \A t \in Token : t.kind = "sym" => t.section \in Sections
      BY DEF Token
    <3> QED
      BY <3>1, <2>1, <1>7
  <2>3. Head(texts).n \in Nat
    BY <1>7, <2>1, LiteralTyped
  <2>4. texts[2].s \in Texts
    <3>1. 2 \in 1 .. Len(texts) /\ EndedText(texts[2])
      BY <1>7, <2>1
    <3> QED
      BY <3>1, <2>1, ElementOfSeq, TextTyped
  <2> HIDE DEF texts, s
  <2>5. PICK i : i = Head(texts).n + 1
    OBVIOUS
  <2>6. i \in DOMAIN lib[s]
    <3>1. Len(lib[s]) \in Nat /\ DOMAIN lib[s] = 1 .. Len(lib[s])
      BY <1>2, <2>2, SectionDomain
    <3> QED
      BY <3>1, <2>3, <2>5, <1>7
  <2>7. PICK l : l = NamedAt(lib, s, i, texts[2].s)
    OBVIOUS
  <2>8. IsLibrary(l) /\ Built(l) /\ Extends(lib, l) /\ Renamed(lib, l) /\ l.error = lib.error
    BY <1>2, <2>2, <2>4, <2>6, <2>7, NameRight
  <2>9. Store(l, 3)
    BY <1>7, <2>5, <2>7 DEF NamedAt
  <2>10. ReaderAt(11)'
    <3>1. lib' = l /\ rd' = rd
      BY <2>9 DEF Store
    <3> QED
      BY <3>1, <1>2, <2>8, NamedReader
  <2> QED
    BY <1>1, <2>8, <2>9, <2>10, StoreRight
<1> QED
  BY <1>4, <1>5, <1>6, <1>7 DEF ReadSymbol

-----------------------------------------------------------------------------
(* The arguments of the calls that a client makes are of the types of their
   parameters. *)
LEMMA ArgTyped ==
  ASSUME NEW c \in Call
  PROVE  /\ c.call = "aiger_add_input" => c.lit \in Nat /\ c.name \in Texts
         /\ c.call = "aiger_add_latch" => c.lit \in Nat /\ c.next \in Nat /\ c.name \in Texts
         /\ c.call = "aiger_add_reset" => c.lit \in Nat /\ c.reset \in Nat
         /\ c.call = "aiger_add_literal" =>
              c.section \in Plain /\ c.lit \in Nat /\ c.name \in Texts
         /\ c.call = "aiger_add_justice" => c.lits \in Seq(Nat) /\ c.name \in Texts
         /\ c.call = "aiger_add_and" => c.lhs \in Nat /\ c.rhs0 \in Nat /\ c.rhs1 \in Nat
         /\ c.call = "aiger_add_comment" => c.line \in Texts
         /\ c.call = "aiger_write" => c.mode \in {"ascii", "binary"}
BY DEF Call

(* What a call of the client starts from. *)
ClientState ==
  /\ Types /\ Built(lib) /\ Marked(lib) /\ Quiet(lib) /\ lib.error = "none"
  /\ run = <<>> /\ calls # <<>> /\ Head(calls) \in Call /\ Harmless(Head(calls))

(* A client calls when no call runs and no error has been noted. *)
LEMMA ClientStarts ==
  ASSUME IInv, NEW f, Calling(f)
  PROVE  ClientState
<1>1. /\ Types /\ Built(lib) /\ run = <<>> /\ calls # <<>> /\ lib.error = "none"
      /\ Marked(lib) /\ Quiet(lib)
  BY DEF IInv, Calling, Running
<1>2. calls \in Seq(Call) /\ \A i \in DOMAIN calls : Harmless(calls[i])
  BY <1>1 DEF Types
<1>3. Head(calls) = calls[1] /\ 1 \in DOMAIN calls
  BY <1>1, <1>2
<1>4. Head(calls) \in Call
  BY <1>1, <1>2, HeadTailProperties
<1> QED
  BY <1>1, <1>2, <1>3, <1>4 DEF ClientState

(* A call that builds returns at once with a structure that extends the one
   before. *)
LEMMA ReturnRight ==
  ASSUME ClientState, NEW l, IsLibrary(l), Built(l), Extends(lib, l), l.error = lib.error,
         Return(l), origin' = "client", file' = file, result' = result, rest' = rest, rd' = rd
  PROVE  IInv'
<1>1. /\ Types /\ Built(lib) /\ IsLibrary(lib) /\ Marked(lib) /\ Quiet(lib)
      /\ run = <<>> /\ calls # <<>> /\ lib.error = "none"
      /\ rest \in Seq(Token) /\ rd \in Header
  BY DEF ClientState, Types
<1>2. lib' = l /\ calls' = Tail(calls) /\ run' = run /\ stack' = stack /\ root' = root
  BY DEF Return, search
<1>3. Marked(l) /\ Quiet(l) /\ lib.maxvar <= l.maxvar
  BY <1>1, ExtendsMarked DEF Extends
<1>4. IsLibrary(lib') /\ lib.maxvar <= lib'.maxvar
  BY <1>2, <1>3
<1>5. Types'
  BY <1>1, <1>2, <1>4, TypesKept
<1>6. HandedOver'
  BY DEF HandedOver
<1> QED
  BY <1>1, <1>2, <1>3, <1>5, <1>6, EndRight

(* What InMemoryStep leaves alone. *)
Apart == file' = file /\ result' = result /\ rest' = rest /\ rd' = rd

(* The calls that add an entry, or the reset value of one. *)
LEMMA BuildRight ==
  ASSUME IInv, Apart, run = <<>> => origin' = "client",
         AddInput \/ AddLatch \/ AddReset \/ AddLiteral \/ AddJustice \/ AddAnd
  PROVE  IInv'
<1>1. ClientState /\ run = <<>> /\ origin' = "client"
  <2>1. \E f : Calling(f)
    BY DEF AddInput, AddLatch, AddReset, AddLiteral, AddJustice, AddAnd
  <2>2. ClientState
    BY <2>1, ClientStarts
  <2> QED
    BY <2>2 DEF ClientState
<1>2. IsLibrary(lib) /\ Built(lib) /\ Arg \in Call
  BY <1>1 DEF ClientState, Types, Arg
<1>3. file' = file /\ result' = result /\ rest' = rest /\ rd' = rd
  BY DEF Apart
<1>4. CASE AddInput
  <2>1. Arg.lit \in Nat /\ Arg.name \in Texts /\ Undefined(lib, Arg.lit)
    BY <1>2, <1>4, ArgTyped DEF AddInput, Calling, Arg
  <2>2. PICK l : l = aiger_add_input(lib, Arg.lit, Arg.name)
    OBVIOUS
  <2>3. IsLibrary(l) /\ Built(l) /\ Extends(lib, l) /\ l.error = lib.error
    BY <1>2, <2>1, <2>2, AddInputRight
  <2>4. Return(l)
    BY <1>4, <2>2 DEF AddInput
  <2> QED
    BY <1>1, <1>3, <2>3, <2>4, ReturnRight
<1>5. CASE AddLatch
  <2>1. /\ Arg.lit \in Nat /\ Arg.next \in Nat /\ Arg.name \in Texts
        /\ Undefined(lib, Arg.lit)
    BY <1>2, <1>5, ArgTyped DEF AddLatch, Calling, Arg
  <2>2. PICK l : l = aiger_add_latch(lib, Arg.lit, Arg.next, Arg.name)
    OBVIOUS
  <2>3. IsLibrary(l) /\ Built(l) /\ Extends(lib, l) /\ l.error = lib.error
    BY <1>2, <2>1, <2>2, AddLatchRight
  <2>4. Return(l)
    BY <1>5, <2>2 DEF AddLatch
  <2> QED
    BY <1>1, <1>3, <2>3, <2>4, ReturnRight
<1>6. CASE AddReset
  <2>1. Arg.lit \in Nat /\ Arg.reset \in Nat /\ CanReset(lib, Arg.lit, Arg.reset)
    BY <1>2, <1>6, ArgTyped DEF AddReset, Calling, Arg
  <2>2. PICK l : l = aiger_add_reset(lib, Arg.lit, Arg.reset)
    OBVIOUS
  <2>3. IsLibrary(l) /\ Built(l) /\ Extends(lib, l) /\ l.error = lib.error
    BY <1>2, <2>1, <2>2, AddResetRight
  <2>4. Return(l)
    BY <1>6, <2>2 DEF AddReset
  <2> QED
    BY <1>1, <1>3, <2>3, <2>4, ReturnRight
<1>7. CASE AddLiteral
  <2>1. Arg.section \in Plain /\ Arg.lit \in Nat /\ Arg.name \in Texts
    BY <1>2, <1>7, ArgTyped DEF AddLiteral, Calling, Arg
  <2>2. PICK l : l = AddSymbol(lib, Arg.section, Arg.lit, Arg.name)
    OBVIOUS
  <2>3. IsLibrary(l) /\ Built(l) /\ Extends(lib, l) /\ l.error = lib.error
    BY <1>2, <2>1, <2>2, AddSymbolRight
  <2>4. Return(l)
    BY <1>7, <2>2 DEF AddLiteral
  <2> QED
    BY <1>1, <1>3, <2>3, <2>4, ReturnRight
<1>8. CASE AddJustice
  <2>1. Arg.lits \in Seq(Nat) /\ Arg.name \in Texts
    BY <1>2, <1>8, ArgTyped DEF AddJustice, Calling, Arg
  <2>2. PICK l : l = aiger_add_justice(lib, Arg.lits, Arg.name)
    OBVIOUS
  <2>3. IsLibrary(l) /\ Built(l) /\ Extends(lib, l) /\ l.error = lib.error
    BY <1>2, <2>1, <2>2, AddJusticeRight
  <2>4. Return(l)
    BY <1>8, <2>2 DEF AddJustice
  <2> QED
    BY <1>1, <1>3, <2>3, <2>4, ReturnRight
<1>9. CASE AddAnd
  <2>1. /\ Arg.lhs \in Nat /\ Arg.rhs0 \in Nat /\ Arg.rhs1 \in Nat
        /\ Undefined(lib, Arg.lhs)
    BY <1>2, <1>9, ArgTyped DEF AddAnd, Calling, Arg
  <2>2. PICK l : l = aiger_add_and(lib, Arg.lhs, Arg.rhs0, Arg.rhs1)
    OBVIOUS
  <2>3. IsLibrary(l) /\ Built(l) /\ Extends(lib, l) /\ l.error = lib.error
    BY <1>2, <2>1, <2>2, AddAndRight
  <2>4. Return(l)
    BY <1>9, <2>2 DEF AddAnd
  <2> QED
    BY <1>1, <1>3, <2>3, <2>4, ReturnRight
<1> QED
  BY <1>4, <1>5, <1>6, <1>7, <1>8, <1>9

(* The calls that add a comment or delete all names and comments. *)
LEMMA AnnotateRight ==
  ASSUME IInv, Apart, run = <<>> => origin' = "client", AddComment \/ StripSymbols
  PROVE  IInv'
<1>1. ClientState /\ run = <<>> /\ origin' = "client"
  <2>1. \E f : Calling(f)
    BY DEF AddComment, StripSymbols
  <2>2. ClientState
    BY <2>1, ClientStarts
  <2> QED
    BY <2>2 DEF ClientState
<1>2. IsLibrary(lib) /\ Built(lib) /\ Arg \in Call
  BY <1>1 DEF ClientState, Types, Arg
<1>3. file' = file /\ result' = result /\ rest' = rest /\ rd' = rd
  BY DEF Apart
<1>4. CASE AddComment
  <2>1. Arg.line \in Texts /\ lib.num_comments > 0
    BY <1>2, <1>4, ArgTyped DEF AddComment, Calling, Arg
  <2>2. PICK cs, n : cs = Append(lib.comments, Arg.line) /\ n = lib.num_comments + 1
    OBVIOUS
  <2>3. cs \in Seq(Texts) /\ n \in Nat /\ lib.error \in Errors
    <3>1. lib.comments \in Seq(Texts) /\ lib.num_comments \in Nat /\ lib.error \in Errors
      BY <1>2, LibraryFields
    <3> QED
      BY <2>1, <2>2, <3>1
  <2>4. PICK l : l = Commented(lib, cs, n, lib.error)
    OBVIOUS
  <2>5. IsLibrary(l) /\ Built(l) /\ Extends(lib, l) /\ l.error = lib.error
    BY <1>2, <2>3, <2>4, CommentsRight
  <2>6. aiger_add_comment(lib, Arg.line) = l
    BY <1>2, <2>2, <2>4 DEF aiger_add_comment, Commented, IsLibrary, Library
  <2>7. Return(l)
    BY <1>4, <2>6 DEF AddComment
  <2> QED
    BY <1>1, <1>3, <2>5, <2>7, ReturnRight
<1>5. CASE StripSymbols
  <2>1. PICK l : l = aiger_strip_symbols_and_comments(lib)
    OBVIOUS
  <2>2. IsLibrary(l) /\ Built(l) /\ Extends(lib, l) /\ l.error = lib.error
    BY <1>2, <2>1, StripRight
  <2>3. Return(l)
    BY <1>5, <2>1 DEF StripSymbols
  <2> QED
    BY <1>1, <1>3, <2>2, <2>3, ReturnRight
<1> QED
  BY <1>4, <1>5

-----------------------------------------------------------------------------
(* A new structure is typed whatever the old one was. *)
LEMMA TypesAnew ==
  ASSUME Types, lib' \in {aiger_init, WithError(aiger_init, "open")}, stack' = <<>>,
         root' = root, file' = file, result' = result,
         calls' = <<>> \/ (calls # <<>> /\ calls' = Tail(calls)),
         origin' \in {"client", "file", "copy"}, rest' \in Seq(Token), rd' \in Header
  PROVE  /\ Types' /\ Built(lib') /\ lib'.error \in {"none", "open"}
         /\ lib'.error = "none" => Marked(lib') /\ Quiet(lib')
<1>1. /\ IsLibrary(aiger_init) /\ Built(aiger_init) /\ Marked(aiger_init)
      /\ Quiet(aiger_init) /\ aiger_init.error = "none"
  BY InitRight
<1>2. PICK l : l = aiger_init
  OBVIOUS
<1>3. PICK r : r = WithError(l, "open")
  OBVIOUS
<1>4. IsLibrary(r) /\ Built(r) /\ r.error = "open"
  <2>1. "open" \in Errors
    BY DEF Errors
  <2> QED
    BY <1>1, <1>2, <1>3, <2>1, MessageRight DEF WithError
<1>5. lib' \in {l, r}
  BY <1>2, <1>3
<1>6. /\ IsLibrary(lib') /\ Built(lib') /\ lib'.error \in {"none", "open"}
      /\ lib'.error = "none" => Marked(lib') /\ Quiet(lib')
  BY <1>1, <1>2, <1>4, <1>5
<1>7. /\ root \in Nat /\ file \in [there : BOOLEAN, tokens : Seq(Token)]
      /\ result \in {"none", "ok", "failed"}
  BY DEF Types
<1>8. calls' \in Seq(Call) /\ \A i \in DOMAIN calls' : Harmless(calls'[i])
  BY CallsLeft
<1>9. stack' \in Seq(0 .. lib'.maxvar)
  OBVIOUS
<1> QED
  BY <1>6, <1>7, <1>8, <1>9 DEF Types

(* aiger_reset, after which the client has a new structure. *)
LEMMA ResetRight ==
  ASSUME IInv, SearchOver, Apart, run = <<>> => origin' = "client", Reset
  PROVE  IInv'
<1>1. /\ lib' = aiger_init /\ calls' = <<>> /\ run = <<>> /\ run' = run
      /\ stack' = stack /\ root' = root /\ origin' = "client"
  BY DEF Reset, search
<1>2. stack' = <<>>
  BY <1>1 DEF SearchOver, Running
<1>3. Types /\ rest \in Seq(Token) /\ rd \in Header
  BY DEF IInv, Types
<1>4. /\ Types' /\ Built(lib')
      /\ lib'.error = "none" => Marked(lib') /\ Quiet(lib')
  BY <1>1, <1>2, <1>3, TypesAnew DEF Apart
<1>5. HandedOver'
  BY <1>1 DEF HandedOver
<1> QED
  BY <1>1, <1>4, <1>5, EndRight

(* A file that is not there is an error, one that is there is read from its
   header on. *)
LEMMA OpenForReadingRight ==
  ASSUME IInv, SearchOver, OpenForReading
  PROVE  IInv'
<1>1. ClientState
  BY ClientStarts DEF OpenForReading
<1>2. /\ rest' = file.tokens /\ rd' = NoHeader /\ origin' \in {"copy", "file"}
      /\ calls' = Tail(calls) /\ stack' = stack /\ root' = root /\ file' = file
      /\ result' = result
  BY DEF OpenForReading, search
<1>3. \/ lib' = aiger_init /\ run' = ReadRoutines
      \/ lib' = WithError(aiger_init, "open") /\ run' = run
  BY DEF OpenForReading, WithError
<1>4. Types /\ run = <<>> /\ calls # <<>>
  BY <1>1 DEF ClientState
<1>5. stack' = <<>> /\ origin' \in {"client", "file", "copy"} /\ origin' # "client"
  BY <1>2, <1>4 DEF SearchOver, Running
<1>6. rest' \in Seq(Token) /\ rd' \in Header
  BY <1>2, <1>4 DEF Types, NoHeader, Header
<1>7. lib' \in {aiger_init, WithError(aiger_init, "open")}
  BY <1>3
<1>8. /\ Types' /\ Built(lib')
      /\ lib'.error = "none" => Marked(lib') /\ Quiet(lib')
  BY <1>2, <1>4, <1>5, <1>6, <1>7, TypesAnew
<1>9. CASE lib' = aiger_init /\ run' = ReadRoutines
  <2>1. lib'.error = "none"
    BY <1>9, InitRight
  <2>2. run' = SubSeq(ReadRoutines, 1, 12)
    BY <1>9, ReadRoutinesAre, SubSeqFull
  <2>3. ReaderAt(1)'
    <3>1. aiger_init.latches = <<>> /\ aiger_init.ands = <<>> /\ aiger_init.justice = <<>>
      BY DEF aiger_init
    <3>2. aiger_init' = aiger_init
      BY DEF aiger_init, NoType
    <3> QED
      BY <1>9, <3>1, <3>2 DEF ReaderAt
  <2>4. 1 \in 1 .. 12
    OBVIOUS
  <2> QED
    BY <1>5, <1>8, <2>1, <2>2, <2>3, <2>4, ReadOnRight
<1>10. CASE lib' = WithError(aiger_init, "open") /\ run' = run
  <2>1. lib'.error = "open"
    BY <1>10 DEF WithError, aiger_init
  <2>2. HandedOver'
    BY <2>1 DEF HandedOver
  <2> QED
    BY <1>4, <1>8, <1>10, <2>1, <2>2, EndRight
<1> QED
  BY <1>3, <1>9, <1>10

(* A file that fopen cannot create leaves the structure alone. *)
LEMMA CannotOpenRight ==
  ASSUME IInv, CannotOpen
  PROVE  IInv'
<1>1. ClientState
  BY ClientStarts DEF CannotOpen
<1>2. /\ lib' = lib /\ run' = run /\ calls' = Tail(calls) /\ stack' = stack /\ root' = root
      /\ file' = file /\ result' = "failed" /\ origin' = "client" /\ rest' = rest /\ rd' = rd
  BY DEF CannotOpen, search
<1>3. /\ Types /\ Built(lib) /\ Marked(lib) /\ Quiet(lib) /\ run = <<>> /\ calls # <<>>
      /\ IsLibrary(lib) /\ rest \in Seq(Token) /\ rd \in Header
  BY <1>1 DEF ClientState, Types
<1>4. Types'
  <2>1. calls' \in Seq(Call) /\ \A i \in DOMAIN calls' : Harmless(calls'[i])
    BY <1>2, <1>3, CallsLeft
  <2> QED
    BY <1>2, <1>3, <2>1 DEF Types
<1>5. HandedOver'
  BY <1>2 DEF HandedOver
<1> QED
  BY <1>2, <1>3, <1>4, <1>5, EndRight

-----------------------------------------------------------------------------
(* The routines of a check and of a write: which of them may run, and what
   is left of them. *)
ClientRuns ==
  {<<"check">>, <<"cycles">>, <<"check", "assert", "ascii">>,
   <<"cycles", "assert", "ascii">>, <<"assert", "ascii">>, <<"ascii">>}

(* The first of the sections that are left is one of the reader's. *)
LEMMA ReadingNames ==
  ASSUME NEW n \in 1 .. 12, NEW r, r = SubSeq(ReadRoutines, n, 12)
  PROVE  /\ r # <<>> /\ Head(r) \in Names12
         /\ Head(r) = "check" => n = 12 /\ Tail(r) = <<>>
<1>1. r # <<>> /\ Head(r) = ReadRoutines[n] /\ (n = 12 => Tail(r) = <<>>)
  BY RoutinesFrom
<1>2. ReadRoutines[n] \in Names12
  BY ReadRoutinesAre, ElementOfSeq
<1>3. n # 12 => ReadRoutines[n] # "check"
  <2>1. n = 1 \/ n = 2 \/ n = 3 \/ n = 4 \/ n = 5 \/ n = 6 \/ n = 7 \/ n = 8 \/ n = 9
          \/ n = 10 \/ n = 11 \/ n = 12
    OBVIOUS
  <2> QED
    BY <2>1, ReadRoutinesAre
<1> QED
  BY <1>1, <1>2, <1>3

(* Which routine runs says what is left to run. *)
LEMMA WhatRuns ==
  ASSUME RoutinesRight
  PROVE  /\ Running("check") =>
              \/ origin = "client" /\ run \in {<<"check">>, <<"check", "assert", "ascii">>}
              \/ ReadingFrom(12) /\ Tail(run) = <<>>
         /\ Running("cycles") =>
              run = <<"cycles">> \/ (origin = "client" /\ run = <<"cycles", "assert", "ascii">>)
         /\ Running("assert") => origin = "client" /\ run = <<"assert", "ascii">>
         /\ Running("ascii") => origin = "client" /\ run = <<"ascii">>
         /\ ~Running("reencode") /\ ~Running("rewrite") /\ ~Running("binary")
<1>1. ASSUME NEW n \in 1 .. 12, ReadingFrom(n)
      PROVE  /\ run # <<>> /\ Head(run) \in Names12
             /\ Head(run) = "check" => ReadingFrom(12) /\ Tail(run) = <<>>
  BY <1>1, ReadingNames DEF ReadingFrom
<1>2. CASE \E n \in 1 .. 12 : ReadingFrom(n)
  BY <1>1, <1>2 DEF Running, Names12
<1>3. CASE run = <<>> \/ run = <<"abort">> \/ (origin # "client" /\ run = <<"cycles">>)
  BY <1>3 DEF Running
<1>4. CASE origin = "client" /\ run \in ClientRuns
  BY <1>4 DEF Running, ClientRuns
<1> QED
  BY <1>2, <1>3, <1>4 DEF RoutinesRight, ClientRuns

(* A call of the client goes on with one of its routines. *)
LEMMA ClientOnRight ==
  ASSUME Types', Built(lib'), lib'.error = "none", Marked(lib'), Quiet(lib'),
         origin' = "client", run' \in ClientRuns, ~Running("cycles")'
  PROVE  IInv'
<1>1. RoutinesRight'
  BY DEF RoutinesRight, ClientRuns
<1>2. ReaderRight'
  BY DEF ReaderRight, ReadingFrom
<1>3. HandedOver'
  BY DEF HandedOver
<1> QED
  BY <1>1, <1>2, <1>3 DEF IInv, Searching, ErrorsStop

(* What follows a check. *)
LEMMA AfterCheckRight ==
  ASSUME Types', Built(lib'), lib'.error = "none" => Marked(lib') /\ Quiet(lib'),
         run' = <<>> \/ (origin' = "client" /\ run' = <<"assert", "ascii">>), HandedOver'
  PROVE  IInv'
<1>1. CASE run' = <<>>
  BY <1>1, EndRight
<1>2. CASE origin' = "client" /\ run' = <<"assert", "ascii">>
  <2>1. RoutinesRight' /\ ~Running("cycles")'
    BY <1>2 DEF RoutinesRight, Running
  <2>2. ReaderRight'
    BY <1>2 DEF ReaderRight, ReadingFrom
  <2>3. ErrorsStop' /\ Searching'
    BY <1>2, <2>1 DEF ErrorsStop, Searching
  <2> QED
    BY <2>1, <2>2, <2>3 DEF IInv
<1> QED
  BY <1>1, <1>2

(* The search goes on. *)
LEMMA SearchOnRight ==
  ASSUME Types', Ready4Search',
         \/ run' = <<"cycles">> /\ origin' # "client"
         \/ origin' = "client" /\ run' \in {<<"cycles">>, <<"cycles", "assert", "ascii">>}
  PROVE  IInv'
<1>1. RoutinesRight' /\ Running("cycles")' /\ run' # <<>> /\ Head(run') = "cycles"
  BY DEF RoutinesRight, Running
<1>2. ReaderRight'
  <2>1. ASSUME NEW n \in 1 .. 12, ReadingFrom(n)' PROVE FALSE
    <3>1. Head(run') \in Names12
      BY <2>1, ReadingNames DEF ReadingFrom
    <3> QED
      BY <3>1, <1>1 DEF Names12
  <2> QED
    BY <2>1 DEF ReaderRight
<1>3. /\ Built(lib)' /\ Marked(lib)' /\ SearchState'
  BY DEF Ready4Search
<1>4. lib'.error = "none"
  BY <1>3 DEF SearchState
<1>5. HandedOver'
  BY <1>1 DEF HandedOver
<1> QED
  BY <1>1, <1>2, <1>3, <1>4, <1>5 DEF IInv, Searching, ErrorsStop

-----------------------------------------------------------------------------
(* aiger_check is called. *)
LEMMA CallCheckRight ==
  ASSUME IInv, Apart, run = <<>> => origin' = "client", CallCheck
  PROVE  IInv'
<1>1. ClientState
  BY ClientStarts DEF CallCheck
<1>2. /\ lib' = lib /\ run' = <<"check">> /\ calls' = Tail(calls) /\ stack' = stack
      /\ root' = root
  BY DEF CallCheck, StartRoutines, search
<1>3. /\ Types /\ Built(lib) /\ Marked(lib) /\ Quiet(lib) /\ run = <<>> /\ calls # <<>>
      /\ IsLibrary(lib) /\ rest \in Seq(Token) /\ rd \in Header /\ lib.error = "none"
  BY <1>1 DEF ClientState, Types
<1>4. file' = file /\ result' = result /\ rest' = rest /\ rd' = rd /\ origin' = "client"
  BY <1>3 DEF Apart
<1>5. lib.maxvar \in Nat
  BY <1>3, LibraryFields
<1>6. IsLibrary(lib') /\ lib.maxvar <= lib'.maxvar
  BY <1>2, <1>3, <1>5
<1>7. Types'
  BY <1>2, <1>3, <1>4, <1>6, TypesKept
<1>8. run' \in ClientRuns /\ ~Running("cycles")'
  BY <1>2 DEF ClientRuns, Running
<1>9. Built(lib') /\ lib'.error = "none" /\ Marked(lib') /\ Quiet(lib')
  BY <1>2, <1>3
<1> QED
  BY <1>4, <1>7, <1>8, <1>9, ClientOnRight

(* aiger_write_to_file opens the file and checks the graph; an ASCII file
   needs no renumbering. *)
LEMMA OpenForWritingRight ==
  ASSUME IInv, OpenForWriting
  PROVE  IInv'
<1>1. ClientState /\ Calling("aiger_write")
  BY ClientStarts DEF OpenForWriting
<1>2. Head(calls).mode = "ascii"
  BY <1>1 DEF ClientState, Harmless, Calling
<1>3. /\ lib' = lib /\ run' = <<"check", "assert", "ascii">> /\ calls' = Tail(calls)
      /\ stack' = stack /\ root' = root /\ file' = [there |-> TRUE, tokens |-> <<>>]
      /\ origin' = "client" /\ result' = result /\ rest' = rest /\ rd' = rd
  BY <1>2 DEF OpenForWriting, StartRoutines, search, Arg
<1>4. /\ Types /\ Built(lib) /\ Marked(lib) /\ Quiet(lib) /\ run = <<>> /\ calls # <<>>
      /\ lib.error = "none"
  BY <1>1 DEF ClientState
<1>5. Types'
  <2>1. calls' \in Seq(Call) /\ \A i \in DOMAIN calls' : Harmless(calls'[i])
    BY <1>3, <1>4, CallsLeft
  <2>2. file' \in [there : BOOLEAN, tokens : Seq(Token)]
    BY <1>3
  <2> QED
    BY <1>3, <1>4, <2>1, <2>2 DEF Types
<1>6. run' \in ClientRuns /\ ~Running("cycles")'
  BY <1>3 DEF ClientRuns, Running
<1>7. Built(lib') /\ lib'.error = "none" /\ Marked(lib') /\ Quiet(lib')
  BY <1>3, <1>4
<1> QED
  BY <1>3, <1>5, <1>6, <1>7, ClientOnRight

(* assert (!aiger_check (...)) lets only a graph without an error pass. *)
LEMMA AssertOkRight ==
  ASSUME IInv, Apart, run # <<>> => origin' = origin, AssertOk
  PROVE  IInv'
<1>1. /\ Running("assert") /\ lib' = lib /\ calls' = calls /\ stack' = stack /\ root' = root
      /\ \/ lib.error = "none" /\ run' = Tail(run)
         \/ lib.error # "none" /\ run' = <<"abort">>
  BY DEF AssertOk, Continue, search, Finish, Abort
<1>2. origin = "client" /\ run = <<"assert", "ascii">>
  BY <1>1, WhatRuns DEF IInv
<1>3. /\ Types /\ Built(lib) /\ (lib.error = "none" => Marked(lib) /\ Quiet(lib))
      /\ IsLibrary(lib) /\ rest \in Seq(Token) /\ rd \in Header
  BY <1>2 DEF IInv, Types, Running
<1>4. file' = file /\ result' = result /\ rest' = rest /\ rd' = rd /\ origin' = "client"
  BY <1>2 DEF Apart
<1>5. lib.maxvar \in Nat
  BY <1>3, LibraryFields
<1>6. IsLibrary(lib') /\ lib.maxvar <= lib'.maxvar
  BY <1>1, <1>3, <1>5
<1>7. Types'
  BY <1>1, <1>3, <1>4, <1>6, TypesKept
<1>8. CASE lib.error = "none" /\ run' = Tail(run)
  <2>1. run' = <<"ascii">>
    BY <1>2, <1>8
  <2>2. run' \in ClientRuns /\ ~Running("cycles")'
    BY <2>1 DEF ClientRuns, Running
  <2>3. Built(lib') /\ lib'.error = "none" /\ Marked(lib') /\ Quiet(lib')
    BY <1>1, <1>3, <1>8
  <2> QED
    BY <1>4, <1>7, <2>2, <2>3, ClientOnRight
<1>9. CASE lib.error # "none" /\ run' = <<"abort">>
  <2>1. lib'.error # "none" /\ Built(lib')
    BY <1>1, <1>3, <1>9
  <2>2. HandedOver'
    BY <2>1 DEF HandedOver
  <2> QED
    BY <1>7, <1>9, <2>1, <2>2, EndRight
<1> QED
  BY <1>1, <1>8, <1>9

-----------------------------------------------------------------------------
(* What is left of one and of three routines. *)
LEMMA Tails ==
  ASSUME NEW a, NEW b, NEW c
  PROVE  Tail(<<a>>) = <<>> /\ Tail(<<a, b, c>>) = <<b, c>>
<1>1. Tail(<<a>>) = <<>>
  OBVIOUS
<1>2. Tail(<<a, b, c>>) = <<b, c>>
  OBVIOUS
<1> QED
  BY <1>1, <1>2

(* A routine in front of two others. *)
LEMMA Join ==
  ASSUME NEW a, NEW b, NEW c
  PROVE  <<a>> \o <<b, c>> = <<a, b, c>>
<1> DEFINE s == <<a>> \o <<b, c>>
           t == <<a, b, c>>
           S == {a, b, c}
<1>1. <<a>> \in Seq(S) /\ <<b, c>> \in Seq(S) /\ t \in Seq(S) /\ Len(t) = 3
      /\ Len(<<a>>) = 1 /\ Len(<<b, c>>) = 2 /\ <<a>>[1] = a /\ <<b, c>>[1] = b /\ <<b, c>>[2] = c
      /\ t[1] = a /\ t[2] = b /\ t[3] = c
  OBVIOUS
<1>2. PICK x, y : x = <<a>> /\ y = <<b, c>>
  OBVIOUS
<1>3. x \o y \in Seq(S) /\ Len(x \o y) = 3
      /\ \A i \in 1 .. 3 : (x \o y)[i] = IF i <= 1 THEN x[i] ELSE y[i - 1]
  <2>1. x \in Seq(S) /\ y \in Seq(S) /\ Len(x) = 1 /\ Len(y) = 2
    BY <1>1, <1>2
  <2>2. /\ x \o y \in Seq(S) /\ Len(x \o y) = Len(x) + Len(y)
        /\ \A i \in 1 .. Len(x) + Len(y) :
             (x \o y)[i] = IF i <= Len(x) THEN x[i] ELSE y[i - Len(x)]
    BY <2>1, ConcatProperties
  <2>3. 1 + 2 = 3
    OBVIOUS
  <2> QED
    BY <2>1, <2>2, <2>3
<1>4. (x \o y)[1] = t[1] /\ (x \o y)[2] = t[2] /\ (x \o y)[3] = t[3]
  BY <1>1, <1>2, <1>3
<1>5. \A i \in 1 .. 3 : (x \o y)[i] = t[i]
  <2>1. \A i \in 1 .. 3 : i = 1 \/ i = 2 \/ i = 3
    OBVIOUS
  <2> HIDE DEF t
  <2> QED
    BY <1>4, <2>1
<1> HIDE DEF t
<1>6. x \o y = t
  BY <1>1, <1>3, <1>5, SeqEqual
<1> QED
  BY <1>2, <1>6 DEF t

(* aiger_check.  The first part either reports a literal that no entry
   defines or starts the search with nothing on the stack. *)
LEMMA AllDefinedExact ==
  ASSUME NEW l, IsLibrary(l), Built(l)
  PROVE  AllDefined(l) <=>
           \A x \in SymbolLits(l) \cup RightHandSides(l) : AG!LiteralDefined(View(l), x)
<1>1. ASSUME NEW x \in SymbolLits(l) \cup RightHandSides(l)
      PROVE aiger_literal_defined(l, x) <=> AG!LiteralDefined(View(l), x)
  <2>1. x \in Nat /\ Within(l, x)
    BY LookedAt
  <2> QED
    BY <2>1, DefinedExact
<1> QED
  BY <1>1 DEF AllDefined

CheckState ==
  /\ Types /\ IsLibrary(lib) /\ Built(lib) /\ Marked(lib) /\ lib.error = "none"
  /\ calls' = calls /\ file' = file /\ result' = result /\ rest' = rest /\ rd' = rd
  /\ origin' = origin
  /\ \/ origin # "client" /\ Tail(run) = <<>>
     \/ origin = "client" /\ Tail(run) \in {<<>>, <<"assert", "ascii">>}

(* A step of a check is taken in a state without an error. *)
LEMMA CheckStarts ==
  ASSUME IInv, Apart, Continue, run # <<>> => origin' = origin,
         Running("check") \/ Running("cycles")
  PROVE  CheckState
<1>1. RoutinesRight /\ run # <<>>
  BY DEF IInv, Running
<1>2. \/ origin # "client" /\ Tail(run) = <<>>
      \/ origin = "client" /\ Tail(run) \in {<<>>, <<"assert", "ascii">>}
  <2>1. CASE Running("check")
    <3>1. \/ origin = "client" /\ run \in {<<"check">>, <<"check", "assert", "ascii">>}
          \/ ReadingFrom(12) /\ Tail(run) = <<>>
      BY <1>1, <2>1, WhatRuns
    <3>2. Tail(<<"check">>) = <<>>
      BY Tails
    <3>3. Tail(<<"check", "assert", "ascii">>) = <<"assert", "ascii">>
      BY Tails
    <3> QED
      BY <3>1, <3>2, <3>3 DEF ReadingFrom
  <2>2. CASE Running("cycles")
    <3>1. run = <<"cycles">> \/ (origin = "client" /\ run = <<"cycles", "assert", "ascii">>)
      BY <1>1, <2>2, WhatRuns
    <3>2. Tail(<<"cycles">>) = <<>>
      BY Tails
    <3>3. Tail(<<"cycles", "assert", "ascii">>) = <<"assert", "ascii">>
      BY Tails
    <3> QED
      BY <3>1, <3>2, <3>3
  <2> QED
    BY <2>1, <2>2
<1>3. lib.error = "none"
  <2>1. run \notin {<<>>, <<"abort">>, <<"assert", "ascii">>}
    BY DEF Running
  <2> QED
    BY <2>1 DEF IInv, ErrorsStop
<1> QED
  BY <1>1, <1>2, <1>3 DEF CheckState, Apart, Continue, IInv, Types

(* The types of a step of a check. *)
LEMMA CheckTyped ==
  ASSUME CheckState, IsLibrary(lib'), stack' \in Seq(0 .. lib'.maxvar), root' \in Nat
  PROVE  Types'
<1>1. calls' \in Seq(Call) /\ \A i \in DOMAIN calls' : Harmless(calls'[i])
  BY CallsLeft DEF CheckState
<1> QED
  BY <1>1 DEF CheckState, Types

(* aiger_check_next_defined and the routines after it report a literal that
   is not defined, or the search begins. *)
LEMMA CheckDefinedRight ==
  ASSUME IInv, Apart, run # <<>> => origin' = origin, CheckDefined
  PROVE  IInv'
<1>1. CheckState /\ Running("check")
  BY CheckStarts DEF CheckDefined
<1>2. \/ /\ AllDefined(lib) /\ run' = <<"cycles">> \o Tail(run)
         /\ lib' = lib /\ root' = 1 /\ stack' = <<>>
      \/ /\ ~AllDefined(lib) /\ lib' = WithError(lib, "undefined") /\ run' = Tail(run)
         /\ stack' = stack /\ root' = root
  BY DEF CheckDefined, AllDefined, WithError, Finish, search
<1>3. /\ IsLibrary(lib) /\ Built(lib) /\ Marked(lib) /\ lib.error = "none" /\ Quiet(lib)
      /\ lib.maxvar \in Nat /\ stack \in Seq(0 .. lib.maxvar) /\ root \in Nat
  BY <1>1, LibraryFields DEF CheckState, Types, IInv, Running
<1>4. CASE /\ AllDefined(lib) /\ run' = <<"cycles">> \o Tail(run)
           /\ lib' = lib /\ root' = 1 /\ stack' = <<>>
  <2>1. Ready4Search'
    BY <1>3, <1>4, StartRight
  <2>2. IsLibrary(lib') /\ stack' \in Seq(0 .. lib'.maxvar) /\ root' \in Nat
    BY <1>3, <1>4
  <2>3. Types'
    BY <1>1, <2>2, CheckTyped
  <2>4. \/ run' = <<"cycles">> /\ origin' # "client"
        \/ origin' = "client" /\ run' \in {<<"cycles">>, <<"cycles", "assert", "ascii">>}
    <3>1. <<"cycles">> \o <<>> = <<"cycles">>
      OBVIOUS
    <3>2. <<"cycles">> \o <<"assert", "ascii">> = <<"cycles", "assert", "ascii">>
      BY Join
    <3> QED
      BY <1>1, <1>4, <3>1, <3>2 DEF CheckState
  <2> QED
    BY <2>1, <2>3, <2>4, SearchOnRight
<1>5. CASE /\ ~AllDefined(lib) /\ lib' = WithError(lib, "undefined") /\ run' = Tail(run)
           /\ stack' = stack /\ root' = root
  <2>1. PICK r : r = WithError(lib, "undefined")
    OBVIOUS
  <2>2. IsLibrary(r) /\ Built(r) /\ r.maxvar = lib.maxvar /\ r.error = "undefined"
    <3>1. "undefined" \in Errors
      BY DEF Errors
    <3> QED
      BY <1>3, <2>1, <3>1, MessageRight DEF WithError
  <2>3. lib' = r
    BY <1>5, <2>1
  <2>4. IsLibrary(lib') /\ stack' \in Seq(0 .. lib'.maxvar) /\ root' \in Nat
    BY <1>3, <1>5, <2>2, <2>3
  <2>5. Types'
    BY <1>1, <2>4, CheckTyped
  <2>6. run' = <<>> \/ (origin' = "client" /\ run' = <<"assert", "ascii">>)
    BY <1>1, <1>5 DEF CheckState
  <2>7. Built(lib') /\ lib'.error # "none"
    BY <2>2, <2>3
  <2>8. HandedOver'
    BY <2>7 DEF HandedOver
  <2> QED
    BY <2>5, <2>6, <2>7, <2>8, AfterCheckRight
<1> QED
  BY <1>2, <1>4, <1>5

-----------------------------------------------------------------------------
(* The cycle check. *)
LEMMA SearchStarts ==
  ASSUME IInv, Apart, run # <<>> => origin' = origin, CycleSearch
  PROVE  CheckState /\ Ready4Search /\ Running("cycles")
<1>1. Continue /\ Running("cycles")
  BY DEF CycleSearch
<1>2. CheckState
  BY <1>1, CheckStarts
<1> QED
  BY <1>1, <1>2 DEF CheckState, Ready4Search, IInv, Types, Searching

(* The steps of the search. *)
LEMMA SearchStepRight ==
  ASSUME IInv, Apart, run # <<>> => origin' = origin,
         NextRoot \/ Visited \/ Descend \/ Leave
  PROVE  IInv'
<1>1. CycleSearch /\ run' = run
  BY DEF NextRoot, Visited, Descend, Leave
<1>2. CheckState /\ Ready4Search /\ Running("cycles")
  BY <1>1, SearchStarts
<1>3. Ready4Search'
  BY <1>2, NextRootRight, VisitedRight, DescendRight, LeaveRight
<1>4. IsLibrary(lib') /\ stack' \in Seq(0 .. lib'.maxvar) /\ root' \in Nat
  BY <1>3 DEF Ready4Search
<1>5. Types'
  BY <1>2, <1>4, CheckTyped
<1>6. run = <<"cycles">> \/ (origin = "client" /\ run = <<"cycles", "assert", "ascii">>)
  BY <1>2, WhatRuns DEF IInv
<1>7. origin' = origin
  BY <1>2 DEF CheckState
<1> QED
  BY <1>1, <1>3, <1>5, <1>6, <1>7, SearchOnRight

(* A cycle is noted as an error and ends the check. *)
LEMMA CycleFoundKeeps ==
  ASSUME IInv, Apart, run # <<>> => origin' = origin, CycleFound
  PROVE  IInv'
<1>1. CycleSearch /\ run' = Tail(run) /\ stack' = <<>> /\ root' = root
      /\ lib' = WithError(lib, "cyclic")
  BY DEF CycleFound, Finish, WithError
<1>2. CheckState /\ Ready4Search
  BY <1>1, SearchStarts
<1>3. PICK r : r = WithError(lib, "cyclic")
  OBVIOUS
<1>4. IsLibrary(r) /\ Built(r) /\ r.error = "cyclic"
  <2>1. "cyclic" \in Errors /\ IsLibrary(lib) /\ Built(lib)
    BY <1>2 DEF Errors, CheckState
  <2> QED
    BY <1>3, <2>1, MessageRight DEF WithError
<1>5. IsLibrary(lib') /\ stack' \in Seq(0 .. lib'.maxvar) /\ root' \in Nat
      /\ Built(lib') /\ lib'.error # "none"
  BY <1>1, <1>2, <1>3, <1>4 DEF Ready4Search
<1>6. Types'
  BY <1>2, <1>5, CheckTyped
<1>7. run' = <<>> \/ (origin' = "client" /\ run' = <<"assert", "ascii">>)
  BY <1>1, <1>2 DEF CheckState
<1>8. HandedOver'
  BY <1>5 DEF HandedOver
<1> QED
  BY <1>5, <1>6, <1>7, <1>8, AfterCheckRight

(* A search without a cycle ends the check, and a reader hands over the
   graph. *)
LEMMA CheckedKeeps ==
  ASSUME IInv, Apart, run # <<>> => origin' = origin, Checked
  PROVE  IInv'
<1>1. CycleSearch /\ run' = Tail(run) /\ stack' = stack /\ root' = root
  BY DEF Checked, Finish
<1>2. CheckState /\ Ready4Search
  BY <1>1, SearchStarts
<1>3. lib' = lib /\ Quiet(lib) /\ Consistent(lib)
  BY <1>2, CheckedRight
<1>4. /\ IsLibrary(lib') /\ stack' \in Seq(0 .. lib'.maxvar) /\ root' \in Nat
      /\ Built(lib') /\ Marked(lib') /\ Quiet(lib')
  BY <1>1, <1>2, <1>3 DEF Ready4Search
<1>5. Types'
  BY <1>2, <1>4, CheckTyped
<1>6. run' = <<>> \/ (origin' = "client" /\ run' = <<"assert", "ascii">>)
  BY <1>1, <1>2 DEF CheckState
<1>7. HandedOver'
  <2>1. Consistent(lib)'
    BY <1>3 DEF Consistent, SymbolLits, RightHandSides, View, LitsOf
  <2> QED
    BY <2>1 DEF HandedOver
<1> QED
  BY <1>4, <1>5, <1>6, <1>7, AfterCheckRight

-----------------------------------------------------------------------------
(* The text of a graph is made of tokens.  Pieces of the same type are
   flattened to a sequence of that type: there is a function that flattens
   the first n of them, for every n. *)
Flattens(f, ss, n) ==
  f = [i \in 1 .. n |-> IF i = 1 THEN ss[i] ELSE f[i - 1] \o ss[i]]

(* There is such a function: otherwise there would be a least number of
   pieces without one. *)
LEMMA FlattenExists ==
  ASSUME NEW ss, NEW n \in Nat
  PROVE  \E f : Flattens(f, ss, n)
<1> DEFINE Bad == {m \in Nat : ~\E f : Flattens(f, ss, m)}
<1>1. SUFFICES ASSUME Bad # {} PROVE FALSE
  OBVIOUS
<1>2. PICK m \in Bad : \A k \in Bad : m <= k
  BY <1>1, LeastNatural
<1>3. m \in Nat /\ ~\E f : Flattens(f, ss, m)
  OBVIOUS
<1>4. CASE m = 0
  <2>1. Flattens([i \in 1 .. 0 |-> 0], ss, 0)
    BY DEF Flattens
  <2> QED
    BY <2>1, <1>3, <1>4
<1>5. CASE m # 0
  <2>1. m - 1 \in Nat /\ ~(m <= m - 1)
    BY <1>3, <1>5
  <2>2. m - 1 \notin Bad
    BY <1>2, <2>1
  <2>3. PICK f : Flattens(f, ss, m - 1)
    BY <2>1, <2>2
  <2> HIDE DEF Bad
  <2> DEFINE g == [i \in 1 .. m |-> IF i < m THEN f[i]
                                    ELSE IF i = 1 THEN ss[i] ELSE f[i - 1] \o ss[i]]
  <2>4. ASSUME NEW i \in 1 .. m
        PROVE  g[i] = IF i = 1 THEN ss[i] ELSE g[i - 1] \o ss[i]
    <3>1. CASE i = m
      <4>1. g[m] = IF m = 1 THEN ss[m] ELSE f[m - 1] \o ss[m]
        BY <1>3, <1>5
      <4>2. m # 1 => g[m - 1] = f[m - 1]
        BY <1>3, <1>5
      <4> QED
        BY <3>1, <4>1, <4>2
    <3>2. CASE i # m
      <4>1. i \in 1 .. m - 1 /\ i < m
        BY <1>3, <3>2
      <4>2. g[i] = f[i]
        BY <4>1
      <4>3. f[i] = IF i = 1 THEN ss[i] ELSE f[i - 1] \o ss[i]
        BY <2>3, <4>1 DEF Flattens
      <4>4. i # 1 => g[i - 1] = f[i - 1]
        BY <1>3, <4>1
      <4> QED
        BY <4>2, <4>3, <4>4
    <3> QED
      BY <3>1, <3>2
  <2>5. Flattens(g, ss, m)
    <3>1. g = [i \in 1 .. m |-> g[i]]
      OBVIOUS
    <3> HIDE DEF g
    <3>2. [i \in 1 .. m |-> g[i]] = [i \in 1 .. m |-> IF i = 1 THEN ss[i] ELSE g[i - 1] \o ss[i]]
      BY <2>4
    <3> QED
      BY <3>1, <3>2 DEF Flattens
  <2> QED
    BY <2>5, <1>3
<1> QED
  BY <1>4, <1>5

(* What FlattenSeq makes of pieces of a type is of that type. *)
LEMMA FlattenTyped ==
  ASSUME NEW S, NEW ss \in Seq(Seq(S))
  PROVE  FlattenSeq(ss) \in Seq(S)
<1>1. Len(ss) \in Nat /\ DOMAIN ss = 1 .. Len(ss)
  OBVIOUS
<1>2. CASE Len(ss) = 0
  <2>1. FlattenSeq(ss) = ss /\ ss = <<>>
    BY <1>2 DEF FlattenSeq
  <2> QED
    BY <2>1
<1>3. CASE Len(ss) # 0
  <2> DEFINE f == CHOOSE f : Flattens(f, ss, Len(ss))
  <2>1. Flattens(f, ss, Len(ss))
    BY <1>1, FlattenExists
  <2>2. FlattenSeq(ss) = f[Len(ss)]
    BY <1>3 DEF FlattenSeq, Flattens
  <2> HIDE DEF f
  <2> DEFINE Bad == {m \in Nat : m \in 1 .. Len(ss) /\ f[m] \notin Seq(S)}
  <2>3. Bad = {}
    <3>1. SUFFICES ASSUME Bad # {} PROVE FALSE
      OBVIOUS
    <3>2. PICK m \in Bad : \A k \in Bad : m <= k
      BY <3>1, LeastNatural
    <3>3. m \in 1 .. Len(ss) /\ f[m] \notin Seq(S) /\ m \in Nat
      OBVIOUS
    <3>4. ss[m] \in Seq(S)
      BY <3>3, ElementOfSeq
    <3>5. f[m] = IF m = 1 THEN ss[m] ELSE f[m - 1] \o ss[m]
      BY <2>1, <3>3 DEF Flattens
    <3>6. m # 1 => f[m - 1] \in Seq(S)
      <4>1. m # 1 => m - 1 \in 1 .. Len(ss) /\ m - 1 \in Nat /\ ~(m <= m - 1)
        BY <3>3, <1>1
      <4> QED
        BY <4>1, <3>2
    <3> QED
      BY <3>3, <3>4, <3>5, <3>6, ConcatProperties
  <2> QED
    BY <1>1, <1>3, <2>2, <2>3
<1> QED
  BY <1>2, <1>3

-----------------------------------------------------------------------------
(* Sequences built by a function of the positions. *)
LEMMA MappedTyped ==
  ASSUME NEW n \in Nat, NEW S, NEW F \in [1 .. n -> S]
  PROVE  F \in Seq(S)
OBVIOUS

(* The tokens that the writer makes. *)
LEMMA TokenKinds ==
  /\ \A m \in {"ascii", "binary"} : Magic(m) \in Token
  /\ \A n \in Nat : \A c \in {"space", "newline", "other"} : Num(n, c) \in Token
  /\ \A s \in Sections : SymbolKey(s) \in Token
  /\ \A t \in Texts : Text(t, TRUE) \in Token
  /\ CommentKey \in Token
BY DEF Token, Magic, Num, SymbolKey, Text, CommentKey

(* A line of numbers. *)
LEMMA LineTyped ==
  ASSUME NEW ns \in Seq(Nat)
  PROVE  Line(ns) \in Seq(Token)
<1>1. Len(ns) \in Nat /\ DOMAIN ns = 1 .. Len(ns)
  OBVIOUS
<1>2. ASSUME NEW i \in 1 .. Len(ns)
      PROVE  Num(ns[i], IF i = Len(ns) THEN "newline" ELSE "space") \in Token
  <2>1. ns[i] \in Nat
    BY ElementOfSeq
  <2> QED
    BY <2>1, TokenKinds
<1>3. Line(ns) \in [1 .. Len(ns) -> Token]
  BY <1>1, <1>2 DEF Line
<1> QED
  BY <1>1, <1>3, MappedTyped

(* Several lines. *)
LEMMA LinesOfTyped ==
  ASSUME NEW n \in Nat, NEW f, DOMAIN f = 1 .. n, \A k \in 1 .. n : f[k] \in Seq(Nat)
  PROVE  Lines(f) \in Seq(Token)
<1> DEFINE g == [k \in DOMAIN f |-> Line(f[k])]
<1>1. g \in [1 .. n -> Seq(Token)]
  BY LineTyped
<1>2. g \in Seq(Seq(Token))
  <2> HIDE DEF g
  <2> QED
    BY <1>1, MappedTyped
<1>3. Lines(f) = FlattenSeq(g)
  BY DEF Lines
<1> QED
  BY <1>2, <1>3, FlattenTyped

(* The lines of a section of literals. *)
LEMMA LitLinesTyped ==
  ASSUME NEW s \in Seq(SymbolEntry)
  PROVE  LitLines(s) \in Seq(Token)
<1> DEFINE f == [k \in DOMAIN s |-> <<s[k].lit>>]
<1>1. Len(s) \in Nat /\ DOMAIN f = 1 .. Len(s)
  OBVIOUS
<1>2. ASSUME NEW k \in 1 .. Len(s) PROVE f[k] \in Seq(Nat)
  <2>1. s[k] \in SymbolEntry
    BY ElementOfSeq
  <2> QED
    BY <2>1 DEF SymbolEntry
<1>3. LitLines(s) = Lines(f)
  BY DEF LitLines
<1> HIDE DEF f
<1> QED
  BY <1>1, <1>2, <1>3, LinesOfTyped

(* The lines of the latches. *)
LEMMA LatchLinesTyped ==
  ASSUME NEW s \in Seq(LatchEntry), NEW compact
  PROVE  Lines([k \in DOMAIN s |-> LatchLine(s[k], compact)]) \in Seq(Token)
<1> DEFINE f == [k \in DOMAIN s |-> LatchLine(s[k], compact)]
<1>1. Len(s) \in Nat /\ DOMAIN f = 1 .. Len(s)
  OBVIOUS
<1>2. ASSUME NEW k \in 1 .. Len(s) PROVE f[k] \in Seq(Nat)
  <2>1. s[k] \in LatchEntry /\ k \in DOMAIN s
    BY ElementOfSeq
  <2>2. s[k].lit \in Nat /\ s[k].next \in Nat /\ s[k].reset \in Nat
    BY <2>1 DEF LatchEntry
  <2> DEFINE a == IF compact THEN <<>> ELSE <<s[k].lit>>
             b == <<s[k].next>>
             c == IF s[k].reset = 0 THEN <<>> ELSE <<s[k].reset>>
  <2>3. a \in Seq(Nat) /\ b \in Seq(Nat) /\ c \in Seq(Nat)
    BY <2>2
  <2>4. f[k] = a \o b \o c
    BY <2>1 DEF LatchLine
  <2> HIDE DEF a, b, c, f
  <2>5. \A x, y \in Seq(Nat) : x \o y \in Seq(Nat)
    BY ConcatProperties
  <2> QED
    BY <2>3, <2>4, <2>5
<1> HIDE DEF f
<1>3. Lines(f) \in Seq(Token)
  BY <1>1, <1>2, LinesOfTyped
<1> QED
  BY <1>3 DEF f

(* The lines of the justice properties: all sizes, then all literals. *)
LEMMA JusticeLinesTyped ==
  ASSUME NEW s \in Seq(JusticeEntry)
  PROVE  JusticeLines(s) \in Seq(Token)
<1> DEFINE f == [k \in DOMAIN s |-> <<Len(s[k].lits)>>]
           one(k) == [j \in DOMAIN s[k].lits |-> <<s[k].lits[j]>>]
           g == [k \in DOMAIN s |-> Lines(one(k))]
<1>1. Len(s) \in Nat /\ DOMAIN s = 1 .. Len(s)
  OBVIOUS
<1>2. ASSUME NEW k \in 1 .. Len(s) PROVE s[k].lits \in Seq(Nat)
  <2>1. s[k] \in JusticeEntry
    BY ElementOfSeq
  <2> QED
    BY <2>1 DEF JusticeEntry
<1>3. Lines(f) \in Seq(Token)
  <2>1. DOMAIN f = 1 .. Len(s)
    BY <1>1
  <2>2. ASSUME NEW k \in 1 .. Len(s) PROVE f[k] \in Seq(Nat)
    BY <1>1, <1>2
  <2> HIDE DEF f
  <2> QED
    BY <1>1, <2>1, <2>2, LinesOfTyped
<1>4. ASSUME NEW k \in 1 .. Len(s) PROVE Lines(one(k)) \in Seq(Token)
  <2>1. s[k].lits \in Seq(Nat)
    BY <1>2
  <2>2. Len(s[k].lits) \in Nat /\ DOMAIN one(k) = 1 .. Len(s[k].lits)
    BY <2>1
  <2>3. ASSUME NEW j \in 1 .. Len(s[k].lits) PROVE one(k)[j] \in Seq(Nat)
    <3>1. s[k].lits[j] \in Nat /\ j \in DOMAIN s[k].lits
      BY <2>1, ElementOfSeq
    <3> QED
      BY <3>1
  <2> HIDE DEF one
  <2> QED
    BY <2>2, <2>3, LinesOfTyped
<1>5. FlattenSeq(g) \in Seq(Token)
  <2> HIDE DEF one
  <2>1. g \in [1 .. Len(s) -> Seq(Token)]
    BY <1>1, <1>4
  <2> HIDE DEF g
  <2>2. g \in Seq(Seq(Token))
    BY <1>1, <2>1, MappedTyped
  <2> QED
    BY <2>2, FlattenTyped
<1>6. JusticeLines(s) = Lines(f) \o FlattenSeq(g)
  BY DEF JusticeLines
<1> HIDE DEF f, g
<1> QED
  BY <1>3, <1>5, <1>6, ConcatProperties

(* The counts of aiger_write_header, up to the last that is not 0. *)
LEMMA CountsTyped ==
  ASSUME NEW l, IsLibrary(l)
  PROVE  HeaderCounts(l) \in Seq(Nat)
<1> DEFINE later == <<Len(l.bad), Len(l.constraints), Len(l.justice), Len(l.fairness)>>
           S == {0} \cup {i \in DOMAIN later : later[i] > 0}
           first == <<l.maxvar, Len(l.inputs), Len(l.latches), Len(l.outputs), Len(l.ands)>>
<1>1. /\ l.maxvar \in Nat /\ Len(l.inputs) \in Nat /\ Len(l.latches) \in Nat
      /\ Len(l.outputs) \in Nat /\ Len(l.ands) \in Nat /\ Len(l.bad) \in Nat
      /\ Len(l.constraints) \in Nat /\ Len(l.justice) \in Nat /\ Len(l.fairness) \in Nat
  BY LibraryFields
<1>2. later \in Seq(Nat) /\ Len(later) = 4 /\ first \in Seq(Nat)
  BY <1>1
<1>3. DOMAIN later = 1 .. 4
  BY <1>2
<1> HIDE DEF later, first
<1>4. S \in SUBSET Nat /\ S # {} /\ \A i \in S : i <= 4
  BY <1>3
<1>5. Max(S) \in S
  BY <1>4, MaxRight
<1>6. Max(S) \in Nat /\ Max(S) <= 4
  <2> HIDE DEF S
  <2> QED
    BY <1>4, <1>5
<1>7. SubSeq(later, 1, Max(S)) \in Seq(Nat)
  <2> HIDE DEF S
  <2>1. ASSUME NEW i \in 1 .. Max(S) PROVE later[i] \in Nat
    <3>1. i \in 1 .. Len(later)
      BY <1>2, <1>6
    <3> QED
      BY <3>1, <1>2, ElementOfSeq
  <2>2. 1 \in Int /\ Max(S) \in Int
    BY <1>6
  <2> QED
    BY <2>1, <2>2, SubSeqProperties
<1>8. HeaderCounts(l) = first \o SubSeq(later, 1, Max(S))
  BY DEF HeaderCounts, later, first
<1> HIDE DEF S
<1> QED
  BY <1>2, <1>7, <1>8, ConcatProperties

(* The lines of the gates in an ASCII file. *)
LEMMA GateLinesTyped ==
  ASSUME NEW l, IsLibrary(l)
  PROVE  GateLines(l) \in Seq(Token)
<1> DEFINE f == [k \in DOMAIN l.ands |-> <<l.ands[k].lhs, l.ands[k].rhs0, l.ands[k].rhs1>>]
<1>1. l.ands \in Seq(AG!And) /\ Len(l.ands) \in Nat /\ DOMAIN f = 1 .. Len(l.ands)
  BY LibraryFields
<1>2. ASSUME NEW k \in 1 .. Len(l.ands) PROVE f[k] \in Seq(Nat)
  <2>1. k \in DOMAIN l.ands
    BY <1>1
  <2>2. l.ands[k].lhs \in Nat /\ l.ands[k].rhs0 \in Nat /\ l.ands[k].rhs1 \in Nat
    BY <2>1, EntriesTyped
  <2> QED
    BY <2>1, <2>2
<1>3. GateLines(l) = Lines(f)
  BY DEF GateLines
<1> HIDE DEF f
<1> QED
  BY <1>1, <1>2, <1>3, LinesOfTyped

(* The symbols of one section. *)
LEMMA SymbolEntriesTyped ==
  ASSUME NEW l, IsLibrary(l), NEW s \in Sections
  PROVE  SymbolEntries(l, s) \in Seq(Token)
<1> DEFINE one(k) == IF l[s][k].name = NoName THEN <<>>
                     ELSE <<SymbolKey(s), Num(k - 1, "space"), Text(l[s][k].name, TRUE)>>
           g == [k \in DOMAIN l[s] |-> one(k)]
<1>1. Len(l[s]) \in Nat /\ DOMAIN l[s] = 1 .. Len(l[s])
  BY SectionDomain
<1>2. ASSUME NEW k \in 1 .. Len(l[s]) PROVE l[s][k].name \in Texts
  <2>1. \/ s = "inputs" \/ s = "latches" \/ s = "justice" \/ s = "outputs"
        \/ s = "bad" \/ s = "constraints" \/ s = "fairness"
    BY DEF Sections, Plain
  <2>2. \/ l[s] \in Seq(SymbolEntry) \/ l[s] \in Seq(LatchEntry) \/ l[s] \in Seq(JusticeEntry)
    BY <2>1, LibraryFields
  <2>3. l[s][k] \in SymbolEntry \/ l[s][k] \in LatchEntry \/ l[s][k] \in JusticeEntry
    BY <2>2, ElementOfSeq
  <2> QED
    BY <2>3 DEF SymbolEntry, LatchEntry, JusticeEntry
<1>3. ASSUME NEW k \in 1 .. Len(l[s]) PROVE one(k) \in Seq(Token)
  <2>1. k - 1 \in Nat
    OBVIOUS
  <2>2. /\ SymbolKey(s) \in Token /\ Num(k - 1, "space") \in Token
        /\ Text(l[s][k].name, TRUE) \in Token
    BY <1>2, <2>1, TokenKinds
  <2>3. \A a, b, c \in Token : <<a, b, c>> \in Seq(Token)
    OBVIOUS
  <2>4. <<>> \in Seq(Token)
    OBVIOUS
  <2> QED
    BY <2>2, <2>3, <2>4
<1> HIDE DEF one
<1>4. g \in [1 .. Len(l[s]) -> Seq(Token)]
  BY <1>1, <1>3
<1>5. SymbolEntries(l, s) = FlattenSeq(g)
  BY DEF SymbolEntries, one
<1> HIDE DEF g
<1>6. g \in Seq(Seq(Token))
  BY <1>1, <1>4, MappedTyped
<1> QED
  BY <1>5, <1>6, FlattenTyped

(* aiger_write_symbols. *)
LEMMA SymbolsTyped ==
  ASSUME NEW l, IsLibrary(l)
  PROVE  aiger_write_symbols(l) \in Seq(Token)
<1> DEFINE g == [i \in DOMAIN SectionOrder |-> SymbolEntries(l, SectionOrder[i])]
<1>1. SectionOrder \in Seq(Sections)
  BY DEF SectionOrder, Sections, Plain
<1>2. Len(SectionOrder) \in Nat /\ DOMAIN SectionOrder = 1 .. Len(SectionOrder)
  BY <1>1
<1>3. ASSUME NEW i \in 1 .. Len(SectionOrder)
      PROVE SymbolEntries(l, SectionOrder[i]) \in Seq(Token)
  <2>1. SectionOrder[i] \in Sections
    BY <1>1, ElementOfSeq
  <2> QED
    BY <2>1, SymbolEntriesTyped
<1>4. g \in [1 .. Len(SectionOrder) -> Seq(Token)]
  BY <1>2, <1>3
<1>5. aiger_write_symbols(l) = FlattenSeq(g)
  BY DEF aiger_write_symbols
<1> HIDE DEF g
<1>6. g \in Seq(Seq(Token))
  BY <1>2, <1>4, MappedTyped
<1> QED
  BY <1>5, <1>6, FlattenTyped

(* aiger_write_comments. *)
LEMMA CommentLinesTyped ==
  ASSUME NEW l, IsLibrary(l)
  PROVE  aiger_write_comments(l) \in Seq(Token)
<1> DEFINE g == [k \in DOMAIN l.comments |-> Text(l.comments[k], TRUE)]
<1>1. /\ l.comments \in Seq(Texts) /\ Len(l.comments) \in Nat
      /\ DOMAIN l.comments = 1 .. Len(l.comments)
  BY LibraryFields
<1>2. g \in [1 .. Len(l.comments) -> Token]
  <2>1. ASSUME NEW k \in 1 .. Len(l.comments) PROVE Text(l.comments[k], TRUE) \in Token
    <3>1. l.comments[k] \in Texts
      BY <1>1, ElementOfSeq
    <3> QED
      BY <3>1, TokenKinds
  <2> QED
    BY <1>1, <2>1
<1>3. aiger_write_comments(l) = IF l.comments = <<>> THEN <<>> ELSE <<CommentKey>> \o g
  BY DEF aiger_write_comments
<1> HIDE DEF g
<1>4. g \in Seq(Token)
  BY <1>1, <1>2, MappedTyped
<1>5. <<CommentKey>> \in Seq(Token) /\ <<>> \in Seq(Token)
  BY TokenKinds
<1> QED
  BY <1>3, <1>4, <1>5, ConcatProperties

(* The text of a graph in the ASCII format. *)
LEMMA AsciiTyped ==
  ASSUME NEW l, IsLibrary(l)
  PROVE  aiger_write_generic(l, "ascii") \in Seq(Token)
<1> DEFINE magic == <<Magic("ascii")>>
           counts == Line(HeaderCounts(l))
           inputs == LitLines(l.inputs)
           latches == Lines([k \in DOMAIN l.latches |-> LatchLine(l.latches[k], FALSE)])
           header == aiger_write_header(l, "ascii")
<1>1. /\ l.inputs \in Seq(SymbolEntry) /\ l.latches \in Seq(LatchEntry)
      /\ l.outputs \in Seq(SymbolEntry) /\ l.bad \in Seq(SymbolEntry)
      /\ l.constraints \in Seq(SymbolEntry) /\ l.justice \in Seq(JusticeEntry)
      /\ l.fairness \in Seq(SymbolEntry)
  BY LibraryFields
<1>2. magic \in Seq(Token) /\ counts \in Seq(Token)
  BY TokenKinds, CountsTyped, LineTyped
<1>3. /\ inputs \in Seq(Token) /\ LitLines(l.outputs) \in Seq(Token)
      /\ LitLines(l.bad) \in Seq(Token) /\ LitLines(l.constraints) \in Seq(Token)
      /\ LitLines(l.fairness) \in Seq(Token)
  BY <1>1, LitLinesTyped
<1>4. latches \in Seq(Token) /\ JusticeLines(l.justice) \in Seq(Token)
  BY <1>1, LatchLinesTyped, JusticeLinesTyped
<1>5. header = magic \o counts \o inputs \o latches \o LitLines(l.outputs) \o LitLines(l.bad)
                 \o LitLines(l.constraints) \o JusticeLines(l.justice) \o LitLines(l.fairness)
  BY DEF aiger_write_header
<1>6. \A s, t \in Seq(Token) : s \o t \in Seq(Token)
  BY ConcatProperties
<1> HIDE DEF magic, counts, inputs, latches, header
<1>7. header \in Seq(Token)
  BY <1>2, <1>3, <1>4, <1>5, <1>6
<1>8. aiger_write_generic(l, "ascii")
        = header \o GateLines(l) \o aiger_write_symbols(l) \o aiger_write_comments(l)
  BY DEF aiger_write_generic, header
<1> QED
  BY <1>6, <1>7, <1>8, GateLinesTyped, SymbolsTyped, CommentLinesTyped

-----------------------------------------------------------------------------
(* aiger_write_generic writes the text or removes the file; either way the
   graph is what it was. *)
LEMMA WriteAsciiRight ==
  ASSUME IInv, WriteAscii
  PROVE  IInv'
<1>1. /\ Running("ascii") /\ calls' = calls /\ run' = Tail(run) /\ lib' = lib
      /\ stack' = stack /\ root' = root /\ origin' = origin /\ rest' = rest /\ rd' = rd
      /\ \/ /\ file' = [there |-> TRUE, tokens |-> aiger_write_generic(lib, "ascii")]
            /\ result' = "ok"
         \/ file' = NoTokens /\ result' = "failed"
  BY DEF WriteAscii, Write, Continue, Finish, search
<1>2. run = <<"ascii">> /\ origin = "client"
  BY <1>1, WhatRuns DEF IInv
<1>3. /\ Types /\ IsLibrary(lib) /\ Built(lib) /\ lib.error = "none"
      /\ Marked(lib) /\ Quiet(lib)
  <2>1. lib.error = "none" /\ ~Running("cycles")
    BY <1>2 DEF IInv, ErrorsStop, Running
  <2> QED
    BY <2>1 DEF IInv, Types
<1>4. file' \in [there : BOOLEAN, tokens : Seq(Token)] /\ result' \in {"none", "ok", "failed"}
  <2>1. aiger_write_generic(lib, "ascii") \in Seq(Token)
    BY <1>3, AsciiTyped
  <2>2. PICK ts \in Seq(Token) : ts = aiger_write_generic(lib, "ascii")
    BY <2>1
  <2>3. <<>> \in Seq(Token)
    OBVIOUS
  <2>4. \/ file' = [there |-> TRUE, tokens |-> ts]
        \/ file' = [there |-> FALSE, tokens |-> <<>>]
    BY <1>1, <2>2 DEF NoTokens
  <2>5. file' \in [there : BOOLEAN, tokens : Seq(Token)]
    <3>1. \A S : \A t \in S : /\ [there |-> TRUE, tokens |-> t] \in [there : BOOLEAN, tokens : S]
                            /\ [there |-> FALSE, tokens |-> t] \in [there : BOOLEAN, tokens : S]
      OBVIOUS
    <3> QED
      BY <3>1, <2>3, <2>4, Zenon
  <2> QED
    BY <1>1, <2>5
<1>5. Types'
  <2>1. calls' \in Seq(Call) /\ \A i \in DOMAIN calls' : Harmless(calls'[i])
    BY <1>1, <1>3, CallsLeft
  <2> QED
    BY <1>1, <1>3, <1>4, <2>1 DEF Types
<1>6. run' = <<>>
  BY <1>1, <1>2, Tails
<1>7. HandedOver'
  BY <1>1, <1>2 DEF HandedOver
<1> QED
  BY <1>1, <1>3, <1>5, <1>6, <1>7, EndRight

-----------------------------------------------------------------------------
(* The state in which a client begins. *)
LEMMA InitInvariant ==
  ASSUME NeverRenumbers, Init
  PROVE  IInv /\ SearchOver
<1>1. PICK job \in Jobs : calls = job.calls /\ file = [there |-> TRUE, tokens |-> job.file]
  BY DEF Init
<1>2. job.calls \in Seq(Call) /\ job.file \in Seq(Token)
  BY JobsAssumption
<1>3. \A i \in DOMAIN calls : Harmless(calls[i])
  BY <1>1 DEF NeverRenumbers
<1>4. /\ lib = aiger_init /\ run = <<>> /\ stack = <<>> /\ root = 1
      /\ result = "none" /\ origin = "client" /\ rest = <<>> /\ rd = NoHeader
  BY DEF Init, LibInit
<1>5. /\ IsLibrary(lib) /\ Built(lib) /\ Marked(lib) /\ Quiet(lib) /\ lib.error = "none"
  BY <1>4, InitRight
<1>6. Types
  <2>1. rd \in Header
    BY <1>4 DEF NoHeader, Header
  <2>2. file \in [there : BOOLEAN, tokens : Seq(Token)]
    <3>1. \A S : \A t \in S : [there |-> TRUE, tokens |-> t] \in [there : BOOLEAN, tokens : S]
      OBVIOUS
    <3> QED
      BY <3>1, <1>1, <1>2, Zenon
  <2> QED
    BY <1>1, <1>2, <1>3, <1>4, <1>5, <2>1, <2>2 DEF Types
<1>7. Searching /\ SearchOver /\ RoutinesRight /\ ErrorsStop /\ HandedOver
  BY <1>4, <1>5 DEF Searching, SearchOver, Running, RoutinesRight, ErrorsStop, HandedOver
<1>8. ReaderRight
  BY <1>4 DEF ReaderRight, ReadingFrom
<1> QED
  BY <1>5, <1>6, <1>7, <1>8 DEF IInv

(* Every step of a client that never renumbers keeps the invariant. *)
LEMMA LibStepInvariant ==
  ASSUME IInv, SearchOver, InMemoryStep
  PROVE  IInv'
<1>1. /\ Apart /\ (run = <<>> => origin' = "client") /\ (run # <<>> => origin' = origin)
      /\ LibStep
  BY DEF InMemoryStep, Apart
<1>2. CASE AddInput \/ AddLatch \/ AddReset \/ AddLiteral \/ AddJustice \/ AddAnd
  BY <1>1, <1>2, BuildRight
<1>3. CASE AddComment \/ StripSymbols
  BY <1>1, <1>3, AnnotateRight
<1>4. CASE Reset
  BY <1>1, <1>4, ResetRight
<1>5. CASE CallCheck
  BY <1>1, <1>5, CallCheckRight
<1>6. CASE CallReencode
  <2>1. ClientState /\ Calling("aiger_reencode")
    BY <1>6, ClientStarts DEF CallReencode
  <2> QED
    BY <2>1 DEF ClientState, Harmless, Calling
<1>7. CASE AssertOk
  BY <1>1, <1>7, AssertOkRight
<1>8. CASE CheckDefined
  BY <1>1, <1>8, CheckDefinedRight
<1>9. CASE NextRoot \/ Visited \/ Descend \/ Leave
  BY <1>1, <1>9, SearchStepRight
<1>10. CASE CycleFound
  BY <1>1, <1>10, CycleFoundKeeps
<1>11. CASE Checked
  BY <1>1, <1>11, CheckedKeeps
<1>12. CASE ReencodeSteps
  <2>1. Running("reencode") \/ Running("rewrite")
    BY <1>12 DEF ReencodeSteps, ReencodeStart, RewriteLiteral, EnterGate, NumberGate,
                 Reencoded, Rewriting
  <2> QED
    BY <2>1, WhatRuns DEF IInv
<1> QED
  BY <1>1, <1>2, <1>3, <1>4, <1>5, <1>6, <1>7, <1>8, <1>9, <1>10, <1>11, <1>12
     DEF LibStep, ClientCall, CheckSteps

(* Every step of the reader keeps the invariant, whatever the file. *)
LEMMA ReadStepInvariant ==
  ASSUME IInv, ReadSteps
  PROVE  IInv'
<1>1. CASE ReadOutput \/ ReadBad \/ ReadConstraint \/ ReadFairness
  <2>1. /\ "outputs" \in Plain /\ "bad" \in Plain /\ "constraints" \in Plain
        /\ "fairness" \in Plain
    BY DEF Plain
  <2>2. /\ ReadRoutines[4] = "outputs" /\ ReadRoutines[5] = "bad"
        /\ ReadRoutines[6] = "constraints" /\ ReadRoutines[9] = "fairness"
    BY ReadRoutinesAre
  <2>3. ASSUME ReadOutput PROVE IInv'
    BY <2>1, <2>2, <2>3, ReadLitsRight DEF ReadOutput
  <2>4. ASSUME ReadBad PROVE IInv'
    BY <2>1, <2>2, <2>4, ReadLitsRight DEF ReadBad
  <2>5. ASSUME ReadConstraint PROVE IInv'
    BY <2>1, <2>2, <2>5, ReadLitsRight DEF ReadConstraint
  <2>6. ASSUME ReadFairness PROVE IInv'
    BY <2>1, <2>2, <2>6, ReadLitsRight DEF ReadFairness
  <2> QED
    BY <1>1, <2>3, <2>4, <2>5, <2>6
<1> QED
  BY <1>1, ReadHeaderRight, ReadInputRight, ReadLatchRight, ReadSizesRight, ReadJusticeRight,
     ReadAndRight, ReadSymbolRight DEF ReadSteps

(* So does every step of the library and its client. *)
LEMMA StepInvariant ==
  ASSUME IInv, SearchOver, Next
  PROVE  IInv'
<1>1. CASE InMemoryStep
  BY <1>1, LibStepInvariant
<1>2. CASE ReadSteps
  BY <1>2, ReadStepInvariant
<1>3. CASE WriteBinary
  BY <1>3, WhatRuns DEF WriteBinary, Write, IInv
<1> QED
  BY <1>1, <1>2, <1>3, CannotOpenRight, OpenForWritingRight, WriteAsciiRight,
     OpenForReadingRight DEF Next, IOStep

(* Only the cycle check uses the stack, and it ends with an empty one. *)
LEMMA StackStep ==
  ASSUME IInv, SearchOver, Next
  PROVE  SearchOver'
<1>1. SUFFICES ASSUME ~Running("cycles")' PROVE stack' = <<>>
  BY DEF SearchOver
<1>2. CASE ClientCall
  <2>1. run = <<>> /\ stack' = stack
    BY <1>2 DEF ClientCall, AddInput, AddLatch, AddReset, AddLiteral, AddJustice, AddAnd,
       AddComment, StripSymbols, Reset, CallCheck, CallReencode, Calling, Return,
       StartRoutines, search
  <2> QED
    BY <2>1 DEF SearchOver, Running
<1>3. CASE AssertOk
  BY <1>3 DEF AssertOk, SearchOver, Running, search
<1>4. CASE CheckDefined
  BY <1>4 DEF CheckDefined, SearchOver, Running, search
<1>5. CASE NextRoot \/ Visited \/ Descend \/ Leave
  <2>1. run' = run /\ Running("cycles")
    BY <1>5 DEF NextRoot, Visited, Descend, Leave, CycleSearch
  <2> QED
    BY <2>1, <1>1 DEF Running
<1>6. CASE CycleFound \/ Checked
  BY <1>6 DEF CycleFound, Checked
<1>7. CASE ReencodeSteps
  <2>1. Running("reencode") \/ Running("rewrite")
    BY <1>7 DEF ReencodeSteps, ReencodeStart, RewriteLiteral, EnterGate, NumberGate,
                 Reencoded, Rewriting
  <2> QED
    BY <2>1, WhatRuns DEF IInv
<1>8. CASE CannotOpen \/ OpenForWriting \/ OpenForReading
  <2>1. run = <<>> /\ stack' = stack
    BY <1>8 DEF CannotOpen, OpenForWriting, OpenForReading, Calling, StartRoutines, search
  <2> QED
    BY <2>1 DEF SearchOver, Running
<1>9. CASE WriteAscii \/ WriteBinary
  <2>1. stack' = stack /\ ~Running("cycles")
    BY <1>9 DEF WriteAscii, WriteBinary, Write, Running, search
  <2> QED
    BY <2>1 DEF SearchOver
<1>10. CASE ReadSteps
  <2>1. PICK r \in Names12 : Reading(r)
    BY <1>10 DEF ReadSteps, ReadHeader, ReadInput, ReadLatch, ReadOutput, ReadBad,
       ReadConstraint, ReadSizes, ReadJustice, ReadFairness, ReadAnd, ReadSymbol, ReadLits,
       Names12
  <2>2. stack' = stack /\ Head(run) = r
    BY <2>1 DEF Reading, Running, search
  <2> QED
    BY <2>2 DEF SearchOver, Running, Names12
<1> QED
  BY <1>2, <1>3, <1>4, <1>5, <1>6, <1>7, <1>8, <1>9, <1>10
     DEF Next, InMemoryStep, LibStep, CheckSteps, IOStep

(* A step that changes nothing keeps it too. *)
LEMMA StutterInvariant ==
  ASSUME IInv, SearchOver, UNCHANGED vars
  PROVE  IInv' /\ SearchOver'
<1>1. /\ lib' = lib /\ calls' = calls /\ run' = run /\ stack' = stack /\ root' = root
      /\ file' = file /\ result' = result /\ origin' = origin /\ rest' = rest /\ rd' = rd
  BY DEF vars, libVars, search, ioVars
<1>2. Types'
  BY <1>1 DEF IInv, Types
<1>3. Searching' /\ SearchOver'
  <2>1. OpenAt' = OpenAt
    BY <1>1 DEF OpenAt
  <2>2. SearchState => SearchState'
    BY <1>1, <2>1 DEF SearchState, ZerosApart, OpenOnStack, ReadByParent, ChildrenWait,
       RootsEntered, Under, Type
  <2> QED
    BY <1>1, <2>2 DEF IInv, Searching, SearchOver, Running
<1>4. ReaderRight'
  BY <1>1 DEF IInv, ReaderRight, ReadingFrom, ReaderAt, InOrder
<1>5. RoutinesRight' /\ ErrorsStop' /\ HandedOver'
  BY <1>1 DEF IInv, RoutinesRight, ReadingFrom, ErrorsStop, HandedOver
<1> QED
  BY <1>1, <1>2, <1>3, <1>4, <1>5 DEF IInv, Running

-----------------------------------------------------------------------------
(* For a client that never renumbers a graph, which is what bmc.cpp is, the
   structure is in order after every call and every step of a call of
   aiger.c, whatever the file that is read. *)
THEOREM LibraryInvariant == NeverRenumbers => (Spec => [](IInv /\ SearchOver))
<1> SUFFICES ASSUME NeverRenumbers PROVE Spec => [](IInv /\ SearchOver)
  OBVIOUS
<1>1. Init => IInv /\ SearchOver
  BY InitInvariant
<1>2. IInv /\ SearchOver /\ [Next]_vars => (IInv /\ SearchOver)'
  BY StepInvariant, StackStep, StutterInvariant
<1> QED
  BY <1>1, <1>2, PTL DEF Spec

(* The structure, the stack of the cycle check, the reader's counts and the
   files keep their types: ENLARGE and aiger_import_literal give every
   variable up to maxvar its place in the table of types. *)
THEOREM LibraryTyped == NeverRenumbers => (Spec => []TypeOK)
<1>1. IInv => TypeOK
  <2> SUFFICES ASSUME IInv PROVE TypeOK
    OBVIOUS
  <2>1. IsLibrary(lib) /\ Types
    BY DEF IInv, Types
  <2>2. /\ lib.maxvar \in Nat /\ lib.types \in [0 .. lib.maxvar -> TypeEntry]
        /\ DOMAIN lib.types = 0 .. lib.maxvar
    BY <2>1, LibraryFields
  <2>3. View(lib) \in AG!AigerType
    BY <2>1, ViewType
  <2>4. stack \in Seq(DOMAIN lib.types)
    BY <2>1, <2>2 DEF Types
  <2> QED
    BY <2>1, <2>2, <2>3, <2>4 DEF Types, TypeOK, TypeEntry
<1> QED
  BY <1>1, LibraryInvariant, PTL

(* Between calls aiger_is_input, aiger_is_latch, aiger_is_and and
   aiger_get_symbol find the entry that defines a literal. *)
THEOREM LookupsFind == NeverRenumbers => (Spec => []LookupsRight)
<1>1. IInv => LookupsRight
  BY LookupsBuilt DEF IInv, Types
<1> QED
  BY <1>1, LibraryInvariant, PTL

(* While aiger_check_for_cycles searches, the gates that are marked as on
   its stack form a path on it. *)
THEOREM StackIsPath == NeverRenumbers => (Spec => []OnStackIsPath)
<1>1. IInv => OnStackIsPath
  <2> SUFFICES ASSUME IInv PROVE OnStackIsPath
    OBVIOUS
  <2>1. CASE Running("cycles")
    <3>1. lib.error = "none"
      BY <2>1 DEF IInv, Searching, SearchState
    <3>2. Ready4Search
      BY <2>1, <3>1 DEF IInv, Types, Searching, Ready4Search
    <3> QED
      BY <3>2, PathOnStack
  <2>2. CASE ~Running("cycles")
    BY <2>2 DEF OnStackIsPath
  <2> QED
    BY <2>1, <2>2
<1> QED
  BY <1>1, LibraryInvariant, PTL

(* Whatever is in the file, what aiger_open_and_read_from_file leaves
   behind has its literals in range, and without an error every literal is
   defined and no gate is its own ancestor. *)
THEOREM ReaderHandsOverGraph == NeverRenumbers => (Spec => []HandsOverGraph)
<1>1. IInv => HandsOverGraph
  <2> SUFFICES ASSUME IInv, Idle, origin # "client"
               PROVE  /\ AG!LiteralsInRange(View(lib))
                      /\ lib.error = "none" => AG!aiger_check(View(lib)) /\ Consistent(lib)
    BY DEF HandsOverGraph
  <2>1. IsLibrary(lib) /\ Built(lib) /\ HandedOver
    BY DEF IInv, Types
  <2>2. AG!LiteralsInRange(View(lib))
    BY <2>1, BuiltInRange
  <2>3. lib.error = "none" => Consistent(lib)
    BY <2>1 DEF HandedOver, Idle
  <2> QED
    BY <2>1, <2>2, <2>3, ConsistentChecks
<1> QED
  BY <1>1, LibraryInvariant, PTL

(* A step that ends a check. *)
LEMMA CheckEnds ==
  ASSUME IInv, Next, Checking, ~Checking'
  PROVE  lib'.error = "none" <=> Consistent(lib)
<1>1. run # <<>> /\ Head(run) \in {"check", "cycles"} /\ RoutinesRight
  BY DEF Checking, Running, IInv
<1>2. ~ClientCall /\ ~AssertOk /\ ~IOStep
  <2>1. ~ClientCall
    BY <1>1 DEF ClientCall, AddInput, AddLatch, AddReset, AddLiteral, AddJustice, AddAnd,
       AddComment, StripSymbols, Reset, CallCheck, CallReencode, Calling
  <2>2. ~AssertOk
    BY <1>1 DEF AssertOk, Running
  <2>3. ~CannotOpen /\ ~OpenForWriting /\ ~OpenForReading /\ ~WriteAscii /\ ~WriteBinary
    BY <1>1 DEF CannotOpen, OpenForWriting, OpenForReading, WriteAscii, WriteBinary, Write,
       Calling, Running
  <2>4. ~ReadSteps
    BY <1>1 DEF ReadSteps, ReadHeader, ReadInput, ReadLatch, ReadOutput, ReadBad,
       ReadConstraint, ReadSizes, ReadJustice, ReadFairness, ReadAnd, ReadSymbol, ReadLits,
       Reading, Running
  <2> QED
    BY <2>1, <2>2, <2>3, <2>4 DEF IOStep
<1>3. ~ReencodeSteps
  BY <1>1 DEF ReencodeSteps, ReencodeStart, RewriteLiteral, EnterGate, NumberGate,
     Reencoded, Rewriting, Running
<1>4. InMemoryStep /\ CheckSteps
  BY <1>2, <1>3 DEF Next, InMemoryStep, LibStep
<1>5. Apart /\ (run # <<>> => origin' = origin)
  BY <1>4 DEF InMemoryStep, Apart
<1>6. ~(NextRoot \/ Visited \/ Descend \/ Leave)
  <2>1. run' # run
    BY DEF Checking, Running
  <2> QED
    BY <2>1 DEF NextRoot, Visited, Descend, Leave
<1>7. CASE CheckDefined
  <2>1. CheckState
    BY <1>5, <1>7, CheckStarts DEF CheckDefined
  <2>2. IsLibrary(lib) /\ Built(lib)
    BY <2>1 DEF CheckState
  <2>3. CASE AllDefined(lib)
    <3>1. run' = <<"cycles">> \o Tail(run)
      BY <1>7, <2>3 DEF CheckDefined, AllDefined
    <3>2. run' # <<>> /\ Head(run') = "cycles"
      <4>1. Tail(run) = <<>> \/ Tail(run) = <<"assert", "ascii">>
        BY <2>1 DEF CheckState
      <4>2. <<"cycles">> \o <<>> = <<"cycles">>
        OBVIOUS
      <4>3. <<"cycles">> \o <<"assert", "ascii">> = <<"cycles", "assert", "ascii">>
        BY Join
      <4> QED
        BY <3>1, <4>1, <4>2, <4>3
    <3> QED
      BY <3>2 DEF Checking, Running
  <2>4. CASE ~AllDefined(lib)
    <3>1. lib' = WithError(lib, "undefined")
      BY <1>7, <2>4 DEF CheckDefined, AllDefined, WithError
    <3>2. lib'.error = "undefined"
      BY <2>2, <3>1 DEF WithError, IsLibrary, Library
    <3>3. ~Consistent(lib)
      BY <2>2, <2>4, AllDefinedExact DEF Consistent
    <3> QED
      BY <3>2, <3>3
  <2> QED
    BY <2>3, <2>4
<1>8. CASE CycleFound
  <2>1. CycleSearch /\ lib' = WithError(lib, "cyclic")
    BY <1>8 DEF CycleFound, WithError
  <2>2. Ready4Search
    BY <1>5, <2>1, SearchStarts
  <2>3. ~Consistent(lib)
    BY <1>8, <2>2, CycleFoundRight DEF Consistent
  <2>4. lib'.error = "cyclic"
    BY <2>1, <2>2 DEF WithError, Ready4Search, IsLibrary, Library
  <2> QED
    BY <2>3, <2>4
<1>9. CASE Checked
  <2>1. CycleSearch
    BY <1>9 DEF Checked
  <2>2. Ready4Search /\ lib.error = "none"
    BY <1>5, <2>1, SearchStarts DEF CheckState
  <2>3. lib' = lib /\ Consistent(lib)
    BY <1>9, <2>2, CheckedRight
  <2> QED
    BY <2>2, <2>3
<1> QED
  BY <1>4, <1>6, <1>7, <1>8, <1>9 DEF CheckSteps

(* aiger_check ends with an error exactly when some literal is not defined
   or some gate is its own ancestor. *)
THEOREM CheckIsExact == NeverRenumbers => (Spec => CheckExact)
<1> SUFFICES ASSUME NeverRenumbers PROVE Spec => CheckExact
  OBVIOUS
<1>1. IInv /\ [Next]_vars =>
        [Checking /\ ~Checking' => (lib'.error = "none" <=> Consistent(lib))]_vars
  BY CheckEnds
<1>2. Spec => [](IInv /\ SearchOver)
  BY LibraryInvariant
<1> QED
  BY <1>1, <1>2, PTL DEF Spec, CheckExact
=============================================================================
