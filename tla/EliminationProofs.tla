------------------------- MODULE EliminationProofs --------------------------
(***************************************************************************)
(* About module Elimination: what is left of the clauses after             *)
(* subsumption, strengthening, elimination and substitution has the models *)
(* of what the user gave, as far as the variables go that are left, and so *)
(* each answer is the promised one, for any variables, calls and options   *)
(* of the scripts named below; when the loops end by themselves there is   *)
(* nothing left to simplify; and a model that is extended through the      *)
(* records of what was eliminated is a model of what the user gave.        *)
(***************************************************************************)
EXTENDS EliminationTheorems

-----------------------------------------------------------------------------
(* What the database means. *)

Returned == released_vars \cup FreeLits
(* What an interrupt or a limit may leave behind does no harm unless
   variables are given back. *)
Plain ==
  /\ ~options.use_rcheck
  /\ Settled \/ /\ \A k \in 1 .. Len(script) : script[k].call # "releaseVar"
                /\ released_vars = {} /\ free_vars = <<>>
Room == LiveVars(db) \subseteq 0 .. next_var - 1
Free ==
  /\ \A p \in Returned : Var(p) \notin db.eliminated /\ {p} \in given
  /\ \A p, q \in Returned : Var(p) = Var(q) => p = q
  /\ released_vars \cap FreeLits = {}
  /\ \A k, l \in 1 .. Len(free_vars) : free_vars[k] = free_vars[l] => k = l
  /\ db.simp => released_vars = {} /\ free_vars = <<>>
Forgotten == db.ok => released_vars \subseteq db.fixed /\ VarsOf(FreeLits) \cap Known(db) = {}
Opens == Settled /\ db.ok => OpenDb(db) /\ (pc = "cleanup" => db.unchecked = {})
Means == Exact(db, given, Returned)
(* What is assumed is not eliminated. *)
AssumedVars == VarsOf(Assumed)
Asked ==
  /\ answer = "none" <=> solving /\ pc # "idle"
  /\ solving /\ pc # "idle" => AssumedVars \cap db.eliminated = {}
  /\ solving /\ pc \in Loops => AssumedVars \subseteq db.frozen
  /\ solving /\ Picked /\ ~was_frozen => elim \notin AssumedVars
Sound == Plain /\ Room /\ Free /\ Forgotten /\ Opens /\ Means /\ Asked

(* The scripts of which this is shown. *)
NeverChecks == \A s \in Scripts : ~s.options.use_rcheck
Settles ==
  \A s \in Scripts :
    \/ s.options.subsumption_lim = -1 /\ ~s.options.interruptible
    \/ \A k \in DOMAIN s.calls : s.calls[k].call # "releaseVar"

(* Nothing is given at first. *)
LEMMA InitSound ==
  ASSUME NeverChecks, Settles, Init
  PROVE  Sound
<1>0. Right
  BY InitRight
<1>1. PICK s \in Scripts : script = s.calls /\ options = s.options
  BY DEF Init
<1>2. /\ db.ok = TRUE /\ db.ca = <<>> /\ db.learnts = {} /\ db.fixed = {} /\ db.unchecked = {}
      /\ db.eliminated = {} /\ db.simp = TRUE
  BY DEF Init
<1>3. given = {} /\ released_vars = {} /\ free_vars = <<>> /\ pc = "idle" /\ solving = FALSE
      /\ answer = "idle"
  BY DEF Init
<1>4. Live(db) = {}
  <2>1. DOMAIN <<>> = {}
    OBVIOUS
  <2> QED
    BY <1>2, <2>1 DEF Live
<1>5. FreeLits = {} /\ Returned = {} /\ Len(free_vars) = 0
  <2>1. DOMAIN free_vars = {} /\ Len(free_vars) = 0
    BY <1>3
  <2> QED
    BY <1>3, <2>1 DEF FreeLits, Returned
<1>6. Plain
  <2>1. script \in Seq(Calls)
    BY <1>0 DEF Right, UserTypes
  <2>2. DOMAIN script = 1 .. Len(script)
    BY <2>1
  <2> QED
    BY <1>1, <1>3, <2>2 DEF NeverChecks, Settles, Settled, Plain
<1>7. LiveVars(db) = {} /\ VarsOf(FreeLits) = {}
  BY <1>4, <1>5 DEF LiveVars, VarsOf
<1>8. Room /\ Free /\ Forgotten
  BY <1>3, <1>5, <1>7 DEF Room, Free, Forgotten
<1>9. OpenDb(db)
  BY <1>2, <1>7 DEF OpenDb, LearntsOpen
<1>10. Means
  <2>1. Clauses(db) = {}
    BY <1>2, <1>4 DEF Clauses
  <2>2. \A w \in Assignments : w \in Full(db) /\ w \in Models(given) /\ MakesAll(w, Returned)
    BY <1>2, <1>3, <1>5, <2>1 DEF Full, Models, Satisfies, MakesAll
  <2>3. \A w : Alike(w, w, db.eliminated)
    BY DEF Alike
  <2>4. \A w \in Says(db) : w \in Assignments
    BY DEF Says
  <2>5. \A w \in Models(given) : w \in Assignments
    BY DEF Models
  <2> QED
    BY <1>2, <2>2, <2>3, <2>4, <2>5 DEF Means, Exact
<1>11. Asked
  BY <1>3 DEF Asked, Loops, Picked
<1> QED
  BY <1>3, <1>6, <1>8, <1>9, <1>10, <1>11 DEF Sound, Opens

-----------------------------------------------------------------------------
(* What keeps clauses open. *)
LEMMA MovesOpen ==
  ASSUME NEW d, NEW t, NEW U, Moves(d, t, U), d.simp, t.ok, OpenDb(d)
  PROVE  OpenDb(t)
<1>1. /\ LearntsOpen(t) /\ t.simp /\ t.fixed \ t.unchecked = d.fixed \ d.unchecked
      /\ LiveVars(t) \subseteq LiveVars(d) \cup (U \ AssignedVars(d))
  BY DEF Moves, Held, Narrow, OpenDb
<1>2. VarsOf(d.fixed \ d.unchecked) \subseteq AssignedVars(d)
  BY DEF VarsOf, AssignedVars
<1>3. VarsOf(d.fixed \ d.unchecked) \cap LiveVars(d) = {}
  BY DEF OpenDb
<1>4. VarsOf(t.fixed \ t.unchecked) \cap LiveVars(t) = {}
  <2>1. VarsOf(t.fixed \ t.unchecked) = VarsOf(d.fixed \ d.unchecked)
    BY <1>1
  <2> QED
    BY <1>1, <1>2, <1>3, <2>1
<1> QED
  BY <1>1, <1>4 DEF OpenDb

(* Propagation without a conflict leaves every clause true or with two
   literals that are not false. *)
LEMMA PropagateOpen ==
  ASSUME NEW d, Good(d), NEW new, new \in SUBSET Lits, OpenDb(d), propagate(d, new).ok
  PROVE  OpenDb(propagate(d, new))
<1> DEFINE t == propagate(d, new)
           cs == Clauses(d)
           all == Closure(cs, d.fixed \cup new)
<1>1. Moves(d, t, VarsOf(new)) /\ t.ca = d.ca /\ Live(t) = Live(d)
  BY PropagateStep
<1>2. CASE d.simp
  BY <1>1, <1>2, MovesOpen
<1>3. CASE ~d.simp
  <2>1. ~Contradicts(all) /\ t.fixed = all /\ all \in SUBSET Lits
    BY PropagateFacts
  <2>2. cs \in SUBSET SUBSET Lits /\ \A cr \in Live(d) : d.ca[cr].lits \in cs
    BY ClausesType DEF Good
  <2>3. d.fixed \cup new \in SUBSET Lits
    BY DEF Good, DbType, Values
  <2>4. Forced(cs, all) \subseteq all
    <3> HIDE DEF cs
    <3> QED
      BY <2>2, <2>3, ClosureClosed
  <2> HIDE DEF all, cs
  <2>5. ASSUME NEW cr \in Live(t) PROVE Opened(t.fixed, t.ca[cr].lits)
    <3>1. Cardinality(d.ca[cr].lits) > 1 /\ d.ca[cr].lits \in cs
      BY <1>1, <2>2 DEF Good, Proper
    <3>2. d.ca[cr].lits # {}
      BY <2>2, <3>1, ManyFacts
    <3> QED
      BY <1>1, <2>1, <2>2, <2>4, <3>1, <3>2, ClosedOpens
  <2>6. LearntsOpen(t) /\ ~t.simp
    BY <1>1, <1>3 DEF Moves, Held, OpenDb
  <2> HIDE DEF t
  <2> QED
    BY <2>5, <2>6 DEF OpenDb, t
<1> QED
  BY <1>2, <1>3

(* Only the memory changes. *)
LEMMA CaField ==
  ASSUME NEW d, Rec(d), NEW x
  PROVE  Same([d EXCEPT !.ca = x], d, {"ca"}) /\ [d EXCEPT !.ca = x].ca = x
BY FieldFacts

(* A clause that was added is open too. *)
LEMMA StoredOpen ==
  ASSUME NEW d, Good(d), NEW c, c \in SUBSET Lits, OpenDb(d), Stored(d, c).ok
  PROVE  OpenDb(Stored(d, c))
<1> DEFINE t == Stored(d, c)
           rest == {p \in c : ~Falsified(d, p)}
<1>0. rest \in SUBSET Lits
  OBVIOUS
<1>1. Moves(d, t, VarsOf(c)) /\ t.ok
  BY StoredStep
<1>2. CASE d.simp
  BY <1>1, <1>2, MovesOpen
<1>3. CASE ~d.simp
  <2>1. CASE t = d
    BY <2>1
  <2>2. CASE t = [d EXCEPT !.ok = FALSE]
    BY <2>2, DeadStep
  <2>3. CASE t = propagate(d, rest)
    <3> HIDE DEF rest
    <3> QED
      BY <1>0, <2>3, PropagateOpen
  <2>4. CASE t = Allocated(d, rest)
    <3> DEFINE x == WithClause(d.ca, Fresh(d), rest)
               cr == Fresh(d)
    <3>1. t = [d EXCEPT !.ca = x]
      BY <1>3, <2>4 DEF Allocated
    <3>2. Rec(d) /\ Memory(d)
      BY DEF Good, DbType
    <3>3. Fresh(d) \notin DOMAIN d.ca
      BY <3>2, FreshFacts
    <3>4. DOMAIN x = DOMAIN d.ca \cup {cr} /\ x[cr].lits = rest /\ \A o \in DOMAIN d.ca : x[o] = d.ca[o]
      BY <3>3 DEF WithClause
    <3>c. Live(d) \subseteq DOMAIN d.ca
      BY DEF Live
    <3> HIDE DEF x, cr, t
    <3>5. Same(t, d, {"ca"}) /\ t.ca = x
      <4> DEFINE u == [d EXCEPT !.ca = x]
      <4>1. Same(u, d, {"ca"}) /\ u.ca = x
        BY <3>2, CaField
      <4>2. t = u
        BY <3>1
      <4> HIDE DEF u
      <4> QED
        BY <4>1, <4>2
    <3>6. t.fixed = d.fixed /\ t.simp = d.simp
      BY <3>5 DEF Same, DbFields
    <3>7. Good(t) /\ (LearntsOpen(d) => LearntsOpen(t))
      BY <1>1 DEF Moves, Held
    <3>8. ASSUME NEW o \in Live(t) PROVE Opened(t.fixed, t.ca[o].lits)
      <4>1. CASE o \in Live(d)
        <5>1. t.ca[o] = d.ca[o]
          BY <3>4, <3>5, <3>c, <4>1
        <5> QED
          BY <1>3, <3>6, <4>1, <5>1 DEF OpenDb
      <4>2. CASE o \notin Live(d)
        <5>1. o = cr
          <6>1. o \in DOMAIN x /\ ~x[o].removed
            BY <3>5 DEF Live
          <6> QED
            BY <3>4, <4>2, <6>1 DEF Live
        <5>2. t.ca[o].lits = rest /\ Cardinality(t.ca[o].lits) > 1
          BY <3>4, <3>5, <3>7, <5>1 DEF Good, Proper
        <5>3. {p \in rest : Neg(p) \notin t.fixed} = rest
          BY <3>6 DEF Falsified
        <5> HIDE DEF rest
        <5> QED
          BY <5>2, <5>3 DEF Opened
      <4> QED
        BY <4>1, <4>2
    <3> QED
      BY <1>3, <3>6, <3>7, <3>8 DEF OpenDb, t
  <2> QED
    BY <2>1, <2>2, <2>3, <2>4 DEF Stored
<1> QED
  BY <1>2, <1>3

(* A literal that was added is a fact. *)
LEMMA StoredFixes ==
  ASSUME NEW d, Good(d), NEW p \in Lits, Stored(d, {p}).ok
  PROVE  p \in Stored(d, {p}).fixed
<1> DEFINE c == {p}
           t == Stored(d, c)
           rest == {q \in c : ~Falsified(d, q)}
<1>0. rest \in SUBSET Lits /\ c \in SUBSET Lits
  OBVIOUS
<1>1. Moves(d, t, VarsOf(c)) /\ t.ok
  BY <1>0, StoredStep
<1>2. d.ok /\ d.fixed \subseteq t.fixed
  BY <1>1 DEF Moves, Held
<1>3. ~Contradicts(c)
  BY LitFacts DEF Contradicts
<1>4. CASE satisfied(d, c)
  BY <1>2, <1>4 DEF satisfied
<1>5. CASE ~satisfied(d, c) /\ rest = {}
  <2>1. t = [d EXCEPT !.ok = FALSE]
    BY <1>2, <1>3, <1>5 DEF Stored
  <2> QED
    BY <1>1, <2>1, DeadStep
<1>6. CASE ~satisfied(d, c) /\ rest # {}
  <2>1. rest = {p}
    BY <1>6
  <2>2. Cardinality(rest) = 1
    BY <1>0, <2>1, ManyFacts
  <2>3. t = propagate(d, rest)
    BY <1>2, <1>3, <1>6, <2>2 DEF Stored
  <2>4. p \in rest
    BY <2>1
  <2> HIDE DEF rest, t, c
  <2> QED
    BY <1>0, <1>1, <2>3, <2>4, PropagateStep DEF c, t
<1> QED
  BY <1>4, <1>5, <1>6

(* A fact that was given is returned. *)
LEMMA RaiseExact ==
  ASSUME NEW d, NEW g, NEW R, Exact(d, g, R), NEW p \in Lits, {p} \in g, Var(p) \notin d.eliminated
  PROVE  Exact(d, g, R \cup {p})
<1>1. ASSUME d.ok, NEW m \in Models(g)
      PROVE  \E w \in Full(d) : MakesAll(w, R \cup {p}) /\ Alike(m, w, d.eliminated)
  <2>1. PICK w \in Full(d) : MakesAll(w, R) /\ Alike(m, w, d.eliminated)
    BY <1>1 DEF Exact
  <2>2. SatisfiesClause(m, {p})
    BY DEF Models, Satisfies
  <2>3. Makes(m, p)
    BY <2>2 DEF SatisfiesClause
  <2>4. {p} \in SUBSET Lits /\ VarsOf({p}) \cap d.eliminated = {}
    BY DEF VarsOf
  <2>5. \A q \in {p} : Makes(m, q) <=> Makes(w, q)
    BY <2>1, <2>4, AlikeMakes
  <2>6. MakesAll(w, R \cup {p})
    BY <2>1, <2>3, <2>5 DEF MakesAll
  <2> QED
    BY <2>1, <2>6
<1>2. \A w : MakesAll(w, R \cup {p}) => MakesAll(w, R)
  BY DEF MakesAll
<1> QED
  BY <1>1, <1>2 DEF Exact

(* When all facts were checked no clause mentions one. *)
LEMMA TurnedOffOpen ==
  ASSUME NEW d, Good(d), d.simp, d.unchecked = {}, OpenDb(d)
  PROVE  OpenDb(TurnedOff(d))
<1> DEFINE t == TurnedOff(d)
<1>1. /\ Good(t) /\ t.simp = FALSE /\ t.learnts = d.learnts /\ t.fixed = d.fixed
      /\ LiveVars(t) = LiveVars(d)
  BY TurnedOffStep
<1> HIDE DEF t
<1>2. VarsOf(d.fixed) \cap LiveVars(d) = {}
  <2>1. d.fixed \ d.unchecked = d.fixed
    OBVIOUS
  <2> QED
    BY <2>1 DEF OpenDb
<1>3. ASSUME NEW cr \in Live(t) PROVE Opened(t.fixed, t.ca[cr].lits)
  <2> DEFINE c == t.ca[cr].lits
  <2>1. Memory(t) /\ Proper(t) /\ cr \in DOMAIN t.ca
    BY <1>1 DEF Good, DbType, Live
  <2>2. c \in SUBSET Lits /\ Cardinality(c) > 1
    BY <2>1, EntryFacts DEF Proper
  <2>3. VarsOf(c) \subseteq LiveVars(d)
    BY <1>1 DEF LiveVars
  <2>4. \A p \in c : Neg(p) \notin t.fixed
    <3>1. ASSUME NEW p \in c, Neg(p) \in t.fixed PROVE FALSE
      <4>1. Var(p) \in LiveVars(d) /\ Var(Neg(p)) = Var(p)
        BY <2>2, <2>3, LitFacts DEF VarsOf
      <4>2. Var(Neg(p)) \in VarsOf(d.fixed)
        BY <1>1, <3>1 DEF VarsOf
      <4> QED
        BY <1>2, <4>1, <4>2
    <3> QED
      BY <3>1
  <2>5. {p \in c : Neg(p) \notin t.fixed} = c
    BY <2>4
  <2> HIDE DEF c
  <2>6. Opened(t.fixed, c)
    BY <2>2, <2>5 DEF Opened
  <2> QED
    BY <2>6 DEF c
<1>4. LearntsOpen(t)
  BY <1>1 DEF OpenDb, LearntsOpen
<1>5. OpenDb(t)
  BY <1>1, <1>3, <1>4 DEF OpenDb
<1> QED
  BY <1>5 DEF t

-----------------------------------------------------------------------------
(* Solutions and models. *)

(* An assignment that makes everything true belongs to a solution. *)
LEMMA ModelSolves ==
  ASSUME Right, NEW as, as \in SUBSET Lits, NEW w \in Full(db), MakesAll(w, Returned), MakesAll(w, as)
  PROVE  \E m \in Solutions(as) : MakesAll(w, m)
<1> DEFINE cs == Clauses(db)
           f == [v \in Decidable |-> IF w[v] THEN 0 ELSE 1]
           D == {mkLit(v, f[v]) : v \in Decidable}
           S == Facts \cup as \cup D
           m == Closure(cs, S)
<1>0. w \in Assignments /\ Satisfies(w, cs) /\ MakesAll(w, db.fixed)
  BY DEF Full
<1>1. Decidable \in SUBSET Vars
  BY DEF Decidable
<1>2. ASSUME NEW v \in Decidable PROVE mkLit(v, f[v]) \in Lits /\ Makes(w, mkLit(v, f[v]))
  <2>1. v \in Vars /\ w[v] \in BOOLEAN
    BY <1>0, <1>1 DEF Assignments
  <2>2. /\ mkLit(v, 0) \in Lits /\ mkLit(v, 1) \in Lits /\ Var(mkLit(v, 0)) = v /\ Var(mkLit(v, 1)) = v
        /\ sign(mkLit(v, 0)) = 0 /\ sign(mkLit(v, 1)) = 1
    BY <2>1, MkLitFacts
  <2>3. f[v] = IF w[v] THEN 0 ELSE 1
    OBVIOUS
  <2> HIDE DEF f
  <2>4. CASE w[v]
    <3>1. f[v] = 0
      BY <2>3, <2>4
    <3>2. Makes(w, mkLit(v, 0))
      BY <2>2, <2>4 DEF Makes
    <3> QED
      BY <2>2, <3>1, <3>2
  <2>5. CASE ~w[v]
    <3>1. f[v] = 1
      BY <2>3, <2>5
    <3>2. Makes(w, mkLit(v, 1))
      BY <2>2, <2>5 DEF Makes
    <3> QED
      BY <2>2, <3>1, <3>2
  <2> QED
    BY <2>4, <2>5
<1>3. f \in [Decidable -> {0, 1}]
  OBVIOUS
<1>4. D \in SUBSET Lits /\ MakesAll(w, D)
  BY <1>2 DEF MakesAll
<1>5. MakesAll(w, S) /\ S \in SUBSET Lits
  <2>1. MakesAll(w, Facts) /\ Facts \in SUBSET Lits
    BY <1>0, FactsType DEF MakesAll, Returned
  <2> HIDE DEF D
  <2> QED
    BY <1>4, <2>1 DEF MakesAll
<1>6. cs \in SUBSET SUBSET Lits
  BY ClausesType DEF Right, DbRight, Good
<1>7. m \in FullAssignments(as)
  BY <1>3 DEF FullAssignments
<1> HIDE DEF cs, S
<1>8. m \in SUBSET Lits /\ MakesAll(w, m)
  <2>1. m \subseteq S \cup UNION cs /\ MakesAll(w, m)
    BY <1>0, <1>5, <1>6, ClosureFacts
  <2> QED
    BY <1>5, <1>6, <2>1
<1> HIDE DEF m
<1>9. ~Contradicts(m)
  BY <1>0, <1>8, NoContradiction
<1> QED
  BY <1>7, <1>8, <1>9 DEF Solutions

(* A solution is an assignment with which all clauses hold. *)
LEMMA SolutionSays ==
  ASSUME Right, db.ok, Room, NEW as, as \in SUBSET Lits, NEW m \in Solutions(as)
  PROVE  \E w \in Says(db) : MakesAll(w, m) /\ w = [v \in Vars |-> mkLit(v, 0) \in m]
<1> DEFINE w == [v \in Vars |-> mkLit(v, 0) \in m]
<1>1. /\ m \in SUBSET Lits /\ ~Contradicts(m) /\ Facts \subseteq m
      /\ Forced(Clauses(db), m) \subseteq m
      /\ \A v \in Decidable : mkLit(v, 0) \in m \/ mkLit(v, 1) \in m
  BY SolutionFacts
<1>2. w \in Assignments
  BY DEF Assignments
<1>3. ASSUME NEW p \in m PROVE Makes(w, p)
  <2>1. p \in Lits /\ Var(p) \in Vars
    BY <1>1, LitFacts
  <2> DEFINE v == Var(p)
  <2>2. /\ sign(mkLit(v, 0)) = 0 /\ sign(mkLit(v, 1)) = 1 /\ Neg(mkLit(v, 1)) = mkLit(v, 0)
        /\ (p = mkLit(v, 0) \/ p = mkLit(v, 1))
    BY <2>1, MkLitFacts
  <2>3. w[v] <=> mkLit(v, 0) \in m
    BY <2>1
  <2> HIDE DEF w
  <2>4. CASE p = mkLit(v, 0)
    <3>1. sign(p) # 1 /\ w[Var(p)]
      BY <2>2, <2>3, <2>4
    <3> QED
      BY <3>1 DEF Makes
  <2>5. CASE p = mkLit(v, 1)
    <3>1. sign(p) = 1 /\ mkLit(v, 0) \notin m
      BY <1>1, <2>2, <2>5 DEF Contradicts
    <3> QED
      BY <2>3, <3>1 DEF Makes
  <2> QED
    BY <2>2, <2>4, <2>5
<1>4. ASSUME NEW cr \in Live(db) PROVE SatisfiesClause(w, db.ca[cr].lits)
  <2> DEFINE c == db.ca[cr].lits
  <2>0. Good(db) /\ Clean(db)
    BY DEF Right, DbRight
  <2>1. Memory(db) /\ Proper(db) /\ cr \in DOMAIN db.ca
    BY <2>0 DEF Good, DbType, Live
  <2>2. c \in SUBSET Lits /\ Cardinality(c) > 1 /\ c \in Clauses(db)
    BY <2>1, EntryFacts DEF Proper, Clauses
  <2>3. ASSUME NEW p \in c PROVE p \in m \/ Neg(p) \in m
    <3> DEFINE v == Var(p)
    <3>1. p \in Lits /\ v \in Vars /\ v \in LiveVars(db) /\ v \notin db.eliminated
      BY <2>0, <2>2, LitFacts, CleanFacts DEF LiveVars, VarsOf
    <3>2. v < next_var
      <4>1. v \in 0 .. next_var - 1 /\ next_var \in Nat
        BY <3>1 DEF Room, Right, UserTypes
      <4> QED
        BY <4>1
    <3>3. CASE \E q \in Facts : Var(q) = v
      <4>1. PICK q \in Facts : Var(q) = v
        BY <3>3
      <4>2. q \in m /\ q \in Lits
        BY <1>1, <4>1
      <4>3. q = p \/ q = Neg(p)
        BY <3>1, <4>1, <4>2, SameVar
      <4> QED
        BY <4>2, <4>3
    <3>4. CASE ~\E q \in Facts : Var(q) = v
      <4>1. Usable(v) /\ v \notin AssignedVars(db)
        BY <3>2, <3>4 DEF Usable, AssignedVars, VarsOf, Facts
      <4>2. v \in Decidable
        BY <3>1, <4>1 DEF Decidable
      <4>3. mkLit(v, 0) \in m \/ mkLit(v, 1) \in m
        BY <1>1, <4>2
      <4>4. /\ mkLit(v, 0) \in Lits /\ Var(mkLit(v, 0)) = v /\ mkLit(v, 1) \in Lits /\ Var(mkLit(v, 1)) = v
        BY <3>1, MkLitFacts
      <4> QED
        BY <3>1, <4>3, <4>4, SameVar
    <3> QED
      BY <3>3, <3>4
  <2>4. SUFFICES ASSUME c \cap m = {} PROVE FALSE
    BY <1>3 DEF SatisfiesClause
  <2> HIDE DEF c
  <2>5. \A p \in c : Neg(p) \in m
    BY <2>3, <2>4
  <2>6. PICK p \in c : TRUE
    BY <2>2, ManyFacts
  <2>7. p \in Forced(Clauses(db), m)
    BY <2>2, <2>5, <2>6 DEF Forced
  <2> QED
    BY <1>1, <2>4, <2>6, <2>7
<1>5. MakesAll(w, m) /\ MakesAll(w, db.fixed)
  <2>1. db.fixed \subseteq m
    BY <1>1 DEF Facts
  <2> HIDE DEF w
  <2> QED
    BY <1>3, <2>1 DEF MakesAll
<1>6. w = [v \in Vars |-> mkLit(v, 0) \in m]
  OBVIOUS
<1> HIDE DEF w
<1>7. w \in Says(db)
  BY <1>2, <1>4, <1>5, SaysFacts
<1> QED
  BY <1>5, <1>6, <1>7

-----------------------------------------------------------------------------
(* The parts of the invariant after a step. *)

(* A user who never gives a variable back does not do so later. *)
LEMMA PlainNext ==
  ASSUME Right, Plain, options' = options,
         script' = script \/ (script # <<>> /\ script' = Tail(script)),
         Settled \/ (released_vars' = {} /\ free_vars' = <<>>)
  PROVE  Plain' /\ (Settled' <=> Settled)
<1>1. Settled' <=> Settled
  BY DEF Settled
<1>2. script \in Seq(Calls)
  BY DEF Right, UserTypes
<1>3. ASSUME \A k \in 1 .. Len(script) : script[k].call # "releaseVar"
      PROVE  \A k \in 1 .. Len(script') : script'[k].call # "releaseVar"
  <2>1. CASE script' = script
    BY <1>3, <2>1
  <2>2. CASE script # <<>> /\ script' = Tail(script)
    <3>1. /\ Len(Tail(script)) = Len(script) - 1
          /\ \A k \in 1 .. Len(Tail(script)) : Tail(script)[k] = script[k + 1]
      BY <1>2, <2>2, HeadTailProperties
    <3>a. Len(script) \in Nat
      BY <1>2, LenProperties
    <3>2. ASSUME NEW k \in 1 .. Len(Tail(script))
          PROVE  Tail(script)[k] = script[k + 1] /\ k + 1 \in 1 .. Len(script)
      BY <3>1, <3>a
    <3> QED
      BY <1>3, <2>2, <3>2
  <2> QED
    BY <2>1, <2>2
<1> QED
  BY <1>1, <1>3 DEF Plain

(* More variables have the old ones among them. *)
LEMMA LongerRange ==
  ASSUME NEW m \in Nat, NEW n \in Nat, n >= m
  PROVE  0 .. m - 1 \subseteq 0 .. n - 1
OBVIOUS

(* What was given back stays so. *)
LEMMA FreeNext ==
  ASSUME Free, UNCHANGED <<released_vars, free_vars>>, given \subseteq given',
         VarsOf(Returned) \cap db'.eliminated = {}, db'.simp => db.simp
  PROVE  Free' /\ Returned' = Returned /\ FreeLits' = FreeLits
<1>1. FreeLits' = FreeLits
  BY DEF FreeLits
<1>2. Returned' = Returned
  BY <1>1 DEF Returned
<1>3. \A p \in Returned : Var(p) \notin db'.eliminated /\ {p} \in given'
  BY DEF Free, VarsOf
<1> QED
  BY <1>1, <1>2, <1>3 DEF Free

(* What was given back was never eliminated. *)
LEMMA ReturnedKept ==
  ASSUME Free
  PROVE  VarsOf(Returned) \cap db.eliminated = {}
<1>1. ASSUME NEW v \in VarsOf(Returned) PROVE v \notin db.eliminated
  <2>1. PICK p \in Returned : v = Var(p)
    BY DEF VarsOf
  <2> QED
    BY <2>1 DEF Free
<1> QED
  BY <1>1

(* A step that keeps what the database says keeps the invariant. *)
LEMMA QuietSound ==
  ASSUME Right, Right', Sound, Quiet(db, db'), Settled => Stable(db, db'),
         UNCHANGED <<options, given, released_vars, free_vars>>, next_var' >= next_var,
         script' = script \/ (script # <<>> /\ script' = Tail(script)),
         Settled /\ db'.ok /\ pc' = "cleanup" => db'.unchecked = {}, Asked'
  PROVE  Sound'
<1>1. Settled \/ (released_vars' = {} /\ free_vars' = <<>>)
  BY DEF Sound, Plain
<1>2. Plain' /\ (Settled' <=> Settled)
  BY <1>1, PlainNext DEF Sound
<1>3. /\ db'.simp = db.simp /\ db'.eliminated = db.eliminated /\ db.fixed \subseteq db'.fixed
      /\ (db'.ok => db.ok) /\ LiveVars(db') \subseteq LiveVars(db) /\ Known(db') \subseteq Known(db)
  BY DEF Quiet
<1>4. Free' /\ Returned' = Returned /\ FreeLits' = FreeLits
  BY <1>3, FreeNext, ReturnedKept DEF Sound
<1>5. Room'
  <2>1. next_var \in Nat /\ next_var' \in Nat
    BY DEF Right, UserTypes
  <2>2. 0 .. next_var - 1 \subseteq 0 .. next_var' - 1
    BY <2>1, LongerRange
  <2>3. LiveVars(db') \subseteq 0 .. next_var' - 1
    BY <1>3, <2>2 DEF Sound, Room
  <2> QED
    BY <2>3 DEF Room
<1>6. Forgotten'
  BY <1>3, <1>4 DEF Sound, Forgotten
<1>7. Opens'
  BY <1>2, <1>3 DEF Sound, Opens, Stable
<1>8. Means'
  <2>1. Exact(db', given, Returned)
    BY QuietExact DEF Sound, Means
  <2> QED
    BY <1>4, <2>1 DEF Means
<1> QED
  BY <1>2, <1>4, <1>5, <1>6, <1>7, <1>8 DEF Sound

-----------------------------------------------------------------------------
(* Who asks. *)

(* Between calls nothing is asked. *)
LEMMA IdleAsked ==
  ASSUME Sound, pc = "idle", UNCHANGED <<pc, answer>>
  PROVE  Asked'
<1>1. answer # "none"
  BY DEF Sound, Asked
<1> QED
  BY <1>1 DEF Asked, Loops, Picked

(* What is assumed stays frozen. *)
LEMMA LoopAsked ==
  ASSUME Sound, pc \in Loops, NEW next \in Loops \cup {"cleanup"}, Loop(next),
         VarsOf(Assumed) \cap db'.eliminated = {} \/ db'.eliminated = db.eliminated,
         next \in Loops /\ solving => AssumedVars \subseteq db'.frozen,
         Picked' /\ solving /\ ~was_frozen' => elim' \notin AssumedVars
  PROVE  Asked'
<1>1. pc # "idle" /\ pc' # "idle" /\ pc' = next
  BY DEF Loops, Loop
<1>2. Assumed' = Assumed /\ AssumedVars' = AssumedVars /\ answer' = answer /\ solving' = solving
  BY DEF Loop, Assumed, AssumedVars, resultVars, callVars
<1>3. solving => AssumedVars \cap db'.eliminated = {}
  BY <1>1 DEF Sound, Asked, AssumedVars
<1> QED
  BY <1>1, <1>2, <1>3 DEF Sound, Asked

-----------------------------------------------------------------------------
(* Calls that leave the clauses as they are. *)

(* Nothing changes that bears on what is asked. *)
LEMMA SameAsked ==
  ASSUME Sound, UNCHANGED <<pc, back, elim, was_frozen, solving, assumptions, answer, db>>
  PROVE  Asked'
<1>1. Asked
  BY DEF Sound
<1>2. /\ Assumed' = Assumed /\ AssumedVars' = AssumedVars /\ Picked' = Picked
      /\ pc' = pc /\ answer' = answer /\ solving' = solving /\ db' = db
      /\ was_frozen' = was_frozen /\ elim' = elim
  BY DEF Assumed, AssumedVars, Picked
<1> QED
  BY <1>1, <1>2 DEF Asked

(* A call that changes no clause keeps what the database means. *)
LEMMA AlikeSound ==
  ASSUME Right, Right', Sound, Alike_(db, db'), UNCHANGED <<options, given, released_vars, free_vars>>,
         next_var' >= next_var, script' = script \/ (script # <<>> /\ script' = Tail(script)),
         pc' = "cleanup" => pc = "cleanup", Asked'
  PROVE  Sound'
<1>1. Quiet(db, db') /\ Stable(db, db') /\ db'.ok = db.ok /\ db'.unchecked = db.unchecked
  BY DEF Alike_
<1>2. Settled /\ db'.ok /\ pc' = "cleanup" => db'.unchecked = {}
  BY <1>1 DEF Sound, Opens
<1> QED
  BY <1>1, <1>2, QuietSound

(* A step without a new variable. *)
LEMMA SameNumber ==
  ASSUME Right, next_var' = next_var
  PROVE  next_var' >= next_var
BY DEF Right, UserTypes

(* newVar keeps it. *)
LEMMA newVarSound ==
  ASSUME Right, Sound, newVar
  PROVE  Sound'
<1>1. Right' /\ Alike_(db, db')
  BY newVarRight
<1>2. /\ pc = "idle" /\ pc' = "idle" /\ script # <<>> /\ script' = Tail(script) /\ next_var' = next_var + 1
      /\ UNCHANGED <<options, given, released_vars, free_vars>> /\ UNCHANGED <<pc, answer>>
  BY DEF newVar, Called, resultVars
<1>3. next_var' >= next_var
  BY <1>2 DEF Right, UserTypes
<1>4. Asked'
  BY <1>2, IdleAsked
<1> QED
  BY <1>1, <1>2, <1>3, <1>4, AlikeSound

(* Freezing and thawing keep it. *)
LEMMA FreezeSound ==
  ASSUME Right, Sound, setFrozen \/ freezeVar \/ thaw
  PROVE  Sound'
<1>1. Right' /\ Alike_(db, db')
  BY FreezeRight
<1>2. /\ pc = "idle" /\ pc' = "idle" /\ script # <<>> /\ script' = Tail(script)
      /\ UNCHANGED <<options, given, released_vars, free_vars, next_var>> /\ UNCHANGED <<pc, answer>>
  BY DEF setFrozen, freezeVar, thaw, Called, resultVars
<1>3. next_var' >= next_var
  BY <1>2, SameNumber
<1>4. Asked'
  BY <1>2, IdleAsked
<1> QED
  BY <1>1, <1>2, <1>3, <1>4, AlikeSound

(* An interrupt keeps it. *)
LEMMA InterruptSound ==
  ASSUME Right, Sound, clearInterrupt \/ Interrupt
  PROVE  Sound'
<1>1. /\ Right' /\ db' = db /\ options' = options
      /\ UNCHANGED <<given, next_var, released_vars, free_vars, pc>> /\ UNCHANGED loopVars
      /\ UNCHANGED callVars /\ UNCHANGED resultVars
  BY InterruptRight
<1>2. script' = script \/ (script # <<>> /\ script' = Tail(script))
  BY DEF clearInterrupt, Interrupt, Called, userVars
<1>3. Asked'
  BY <1>1, SameAsked DEF loopVars, callVars, resultVars
<1>4. Alike_(db, db')
  BY <1>1, SameAlike DEF Right, DbRight
<1>5. next_var' >= next_var
  BY <1>1, SameNumber
<1> QED
  BY <1>1, <1>2, <1>3, <1>4, <1>5, AlikeSound

(* solve keeps it: what is assumed is frozen, so nothing assumed is
   eliminated. *)
LEMMA SolveSound ==
  ASSUME Right, Sound, Solve
  PROVE  Sound'
<1>1. Right' /\ Alike_(db, db') /\ db'.frozen = db.frozen \cup extra_frozen' /\ Call.assumps \in Seq(Lits)
  BY SolveRight
<1>2. /\ script # <<>> /\ script' = Tail(script)
      /\ UNCHANGED <<options, given, next_var, released_vars, free_vars>>
      /\ answer' = "none" /\ solving' = TRUE /\ assumptions' = Call.assumps
      /\ \A k \in DOMAIN Call.assumps : Var(Call.assumps[k]) \notin db.eliminated
  BY DEF Solve, Called
<1>3. pc' \in {"simplify", "main", "dead"}
  BY DEF Solve
<1>4. pc' = "main" => extra_frozen' = ToFreeze(Call.assumps)
  BY DEF Solve
<1>5. AssumedVars' = {Var(Call.assumps[k]) : k \in DOMAIN Call.assumps}
  <2>1. AssumedVars' = VarsOf({Call.assumps[k] : k \in DOMAIN Call.assumps})
    BY <1>2 DEF AssumedVars, Assumed
  <2> QED
    BY <2>1 DEF VarsOf
<1>6. AssumedVars' \cap db'.eliminated = {}
  <2>1. db'.eliminated = db.eliminated
    BY <1>1 DEF Alike_, Quiet
  <2> QED
    BY <1>2, <1>5, <2>1
<1>7. pc' = "main" => AssumedVars' \subseteq db'.frozen
  BY <1>1, <1>4, <1>5 DEF ToFreeze
<1>8. Asked'
  BY <1>2, <1>3, <1>6, <1>7 DEF Asked, Loops, Picked
<1>9. next_var' >= next_var
  BY <1>2, SameNumber
<1> QED
  BY <1>1, <1>2, <1>3, <1>8, <1>9, AlikeSound

-----------------------------------------------------------------------------
(* Simplification below: variables that were released are free. *)

(* Lists without repetition, one after the other. *)
LEMMA JoinedLists ==
  ASSUME NEW s \in Seq(Lits), NEW S, S \in SUBSET Lits,
         \A k, l \in 1 .. Len(s) : s[k] = s[l] => k = l, S \cap {s[k] : k \in DOMAIN s} = {}
  PROVE  LET t == s \o InOrder(S) IN
         /\ {t[k] : k \in DOMAIN t} = {s[k] : k \in DOMAIN s} \cup S
         /\ \A k, l \in 1 .. Len(t) : t[k] = t[l] => k = l
<1> DEFINE i == InOrder(S)
           t == s \o i
<1>1. IsFiniteSet(S) /\ S \in SUBSET Nat
  BY VarsFinite
<1>2. /\ i \in Seq(S) /\ Len(i) \in Nat /\ DOMAIN i = 1 .. Len(i)
      /\ \A k \in 1 .. Len(i) : i[k] \in S
      /\ \A x \in S : \E k \in 1 .. Len(i) : i[k] = x
      /\ \A j, k \in 1 .. Len(i) : i[j] = i[k] => j = k
  BY <1>1, InOrderFacts
<1> HIDE DEF i
<1>3. i \in Seq(Lits) /\ Len(s) \in Nat /\ DOMAIN s = 1 .. Len(s)
  BY <1>2
<1>4. /\ t \in Seq(Lits) /\ Len(t) = Len(s) + Len(i) /\ DOMAIN t = 1 .. Len(t)
      /\ \A k \in 1 .. Len(s) : t[k] = s[k]
      /\ \A k \in Len(s) + 1 .. Len(s) + Len(i) : t[k] = i[k - Len(s)]
  BY <1>3
<1> HIDE DEF t
<1>5. ASSUME NEW k \in 1 .. Len(t)
      PROVE  \/ k \in 1 .. Len(s) /\ t[k] = s[k]
             \/ k - Len(s) \in 1 .. Len(i) /\ k > Len(s) /\ t[k] = i[k - Len(s)]
  <2> DEFINE n == Len(s)
             o == Len(i)
  <2>1. n \in Nat /\ o \in Nat /\ k \in 1 .. n + o
    BY <1>2, <1>3, <1>4
  <2>2. (\A j \in 1 .. n : t[j] = s[j]) /\ (\A j \in n + 1 .. n + o : t[j] = i[j - n])
    BY <1>4
  <2> HIDE DEF n, o
  <2>3. CASE k \in 1 .. n
    BY <2>2, <2>3 DEF n, o
  <2>4. CASE k \notin 1 .. n
    <3>1. k \in n + 1 .. n + o /\ k - n \in 1 .. o /\ k > n
      BY <2>1, <2>4
    <3>2. t[k] = i[k - n]
      BY <2>2, <3>1
    <3> QED
      BY <3>1, <3>2 DEF n, o
  <2> QED
    BY <2>3, <2>4
<1>6. ASSUME NEW x \in S PROVE \E k \in DOMAIN t : t[k] = x
  <2>1. PICK k \in 1 .. Len(i) : i[k] = x
    BY <1>2
  <2>2. k + Len(s) \in Len(s) + 1 .. Len(s) + Len(i) /\ k + Len(s) \in DOMAIN t /\ (k + Len(s)) - Len(s) = k
    BY <1>2, <1>3, <1>4
  <2> QED
    BY <1>4, <2>1, <2>2
<1>7. ASSUME NEW k \in DOMAIN s PROVE \E l \in DOMAIN t : t[l] = s[k]
  <2>1. k \in 1 .. Len(t)
    BY <1>2, <1>3, <1>4
  <2> QED
    BY <1>3, <1>4, <2>1
<1>8. ASSUME NEW k \in DOMAIN t PROVE t[k] \in {s[l] : l \in DOMAIN s} \cup S
  BY <1>2, <1>3, <1>4, <1>5
<1>9. ASSUME NEW k \in 1 .. Len(t), NEW l \in 1 .. Len(t), t[k] = t[l] PROVE k = l
  <2>1. CASE k \in 1 .. Len(s) /\ l \in 1 .. Len(s)
    BY <1>4, <1>9, <2>1
  <2>2. CASE k \notin 1 .. Len(s) /\ l \notin 1 .. Len(s)
    <3>1. /\ k - Len(s) \in 1 .. Len(i) /\ l - Len(s) \in 1 .. Len(i)
          /\ i[k - Len(s)] = i[l - Len(s)]
      BY <1>5, <1>9, <2>2
    <3>2. k - Len(s) = l - Len(s)
      BY <1>2, <3>1
    <3> QED
      BY <1>3, <1>4, <3>2
  <2>3. CASE k \in 1 .. Len(s) /\ l \notin 1 .. Len(s)
    <3>1. t[k] = s[k] /\ k \in DOMAIN s
      BY <1>3, <1>4, <2>3
    <3>2. l - Len(s) \in 1 .. Len(i) /\ t[l] = i[l - Len(s)]
      BY <1>5, <2>3
    <3>3. t[l] \in S
      BY <1>2, <3>2
    <3> QED
      BY <1>9, <3>1, <3>3
  <2>4. CASE k \notin 1 .. Len(s) /\ l \in 1 .. Len(s)
    <3>1. t[l] = s[l] /\ l \in DOMAIN s
      BY <1>3, <1>4, <2>4
    <3>2. k - Len(s) \in 1 .. Len(i) /\ t[k] = i[k - Len(s)]
      BY <1>5, <2>4
    <3>3. t[k] \in S
      BY <1>2, <3>2
    <3> QED
      BY <1>9, <3>1, <3>3
  <2> QED
    BY <2>1, <2>2, <2>3, <2>4
<1>10. {t[k] : k \in DOMAIN t} = {s[k] : k \in DOMAIN s} \cup S
  BY <1>6, <1>7, <1>8
<1> QED
  BY <1>9, <1>10 DEF t, i

(* simplify moves what was released to the free variables. *)
LEMMA LessenedFree ==
  ASSUME Right, Free, ~db'.simp, db'.eliminated = db.eliminated, given' = given, released_vars' = {},
         free_vars' = free_vars \o InOrder(released_vars)
  PROVE  Free' /\ Returned' = Returned /\ FreeLits' = FreeLits \cup released_vars
<1>1. /\ free_vars \in Seq(Lits) /\ released_vars \in SUBSET Lits /\ released_vars \cap FreeLits = {}
      /\ \A k, l \in 1 .. Len(free_vars) : free_vars[k] = free_vars[l] => k = l
  BY DEF Right, UserTypes, Free
<1>2. /\ FreeLits' = FreeLits \cup released_vars
      /\ \A k, l \in 1 .. Len(free_vars') : free_vars'[k] = free_vars'[l] => k = l
  <2> DEFINE s == free_vars
             S == released_vars
             t == s \o InOrder(S)
  <2>1. s \in Seq(Lits) /\ S \in SUBSET Lits /\ (\A k, l \in 1 .. Len(s) : s[k] = s[l] => k = l)
    BY <1>1
  <2>2. S \cap {s[k] : k \in DOMAIN s} = {}
    BY <1>1 DEF FreeLits
  <2>3. FreeLits = {s[k] : k \in DOMAIN s} /\ free_vars' = t /\ released_vars = S
    BY DEF FreeLits
  <2>4. FreeLits' = {t[k] : k \in DOMAIN t}
    BY <2>3 DEF FreeLits
  <2> HIDE DEF s, S
  <2>5. /\ {t[k] : k \in DOMAIN t} = {s[k] : k \in DOMAIN s} \cup S
        /\ \A k, l \in 1 .. Len(t) : t[k] = t[l] => k = l
    BY <2>1, <2>2, JoinedLists
  <2> HIDE DEF t
  <2> QED
    BY <2>3, <2>4, <2>5
<1>3. Returned' = Returned
  BY <1>2 DEF Returned
<1> QED
  BY <1>2, <1>3 DEF Free

(* simplify, once simplification is off, keeps it: a released variable is
   in no clause when newVar may return it. *)
LEMMA LessenedSound ==
  ASSUME Right, Sound, Lessened(db, db', released_vars), db.ok, ~db.simp, released_vars' = {},
         free_vars' = free_vars \o InOrder(released_vars), UNCHANGED <<options, given, next_var>>,
         script' = script \/ (script # <<>> /\ script' = Tail(script)), pc' # "cleanup", Asked'
  PROVE  Sound'
<1>1. /\ Good(db') /\ db'.simp = db.simp /\ db'.ok = db.ok /\ db'.eliminated = db.eliminated
      /\ LiveVars(db') \subseteq LiveVars(db) /\ Known(db') \subseteq Known(db)
      /\ OpenDb(db) => OpenDb(db') /\ (released_vars \subseteq db.fixed => VarsOf(released_vars) \cap Known(db') = {})
  BY DEF Lessened
<1>2. Free' /\ Returned' = Returned /\ FreeLits' = FreeLits \cup released_vars
  BY <1>1, LessenedFree DEF Sound
<1>3. Settled \/ (released_vars = {} /\ free_vars = <<>>)
  BY DEF Sound, Plain
<1>4. Plain' /\ (Settled' <=> Settled)
  <2>1. released_vars = {} /\ free_vars = <<>> => released_vars' = {} /\ free_vars' = <<>>
    <3>1. ASSUME released_vars = {} PROVE InOrder(released_vars) = <<>>
      <4>1. IsFiniteSet(released_vars) /\ released_vars \in SUBSET Nat /\ Cardinality(released_vars) = 0
        BY <3>1, FS_EmptySet
      <4>2. Len(InOrder(released_vars)) = 0 /\ InOrder(released_vars) \in Seq(released_vars)
        BY <4>1, InOrderFacts
      <4> QED
        BY <4>2, EmptySeq
    <3> QED
      BY <3>1
  <2> QED
    BY <1>3, <2>1, PlainNext DEF Sound
<1>5. Room'
  BY <1>1 DEF Sound, Room
<1>6. Opens'
  BY <1>1, <1>4 DEF Sound, Opens
<1>7. Forgotten'
  <2>1. VarsOf(FreeLits) \cap Known(db') = {} /\ released_vars \subseteq db.fixed
    BY <1>1 DEF Sound, Forgotten
  <2>2. VarsOf(released_vars) \cap Known(db') = {}
    <3>1. CASE Settled
      BY <1>1, <2>1, <3>1 DEF Sound, Opens
    <3>2. CASE released_vars = {}
      BY <3>2 DEF VarsOf
    <3> QED
      BY <1>3, <3>1, <3>2
  <2>3. VarsOf(FreeLits') = VarsOf(FreeLits) \cup VarsOf(released_vars)
    BY <1>2 DEF VarsOf
  <2> QED
    BY <2>1, <2>2, <2>3 DEF Forgotten
<1>8. Means'
  <2>1. released_vars \subseteq Returned
    BY DEF Returned
  <2>2. Exact(db', given, Returned)
    BY <2>1, ReducedExact DEF Sound, Means
  <2> QED
    BY <1>2, <2>2 DEF Means
<1> QED
  BY <1>2, <1>4, <1>5, <1>6, <1>7, <1>8 DEF Sound

(* simplify keeps it. *)
LEMMA SimplifySound ==
  ASSUME Right, Right', Sound, Simplify, UNCHANGED <<options, given, next_var>>,
         script' = script \/ (script # <<>> /\ script' = Tail(script)), pc' # "cleanup", Asked'
  PROVE  Sound'
<1>1. CASE UNCHANGED <<db, released_vars, free_vars>>
  <2>1. Alike_(db, db')
    BY <1>1, SameAlike DEF Right, DbRight
  <2> QED
    BY <1>1, <2>1, SameNumber, AlikeSound
<1>2. CASE /\ Lessened(db, db', released_vars) /\ db.ok /\ ~db.simp
           /\ released_vars' = {} /\ free_vars' = free_vars \o InOrder(released_vars)
  BY <1>2, LessenedSound
<1> QED
  BY <1>1, <1>2, SimplifyFacts

(* A call of eliminate keeps it. *)
LEMMA EliminateSound ==
  ASSUME Right, Sound, Eliminate
  PROVE  Sound'
<1>1. Right' /\ pc = "idle" /\ Simplify
  BY EliminateRight DEF Simplify
<1>2. /\ script # <<>> /\ script' = Tail(script) /\ UNCHANGED <<options, given, next_var>>
      /\ solving' = FALSE /\ answer' = answer /\ pc' \in {"main", "idle"}
  BY DEF Eliminate, Called, resultVars
<1>3. answer # "none"
  BY <1>1 DEF Sound, Asked
<1>4. Asked'
  BY <1>2, <1>3 DEF Asked, Loops, Picked
<1> QED
  BY <1>1, <1>2, <1>4, SimplifySound

(* solve_ going on to the search keeps it. *)
LEMMA SolveRestSound ==
  ASSUME Right, Sound, SolveRest
  PROVE  Sound'
<1>1. /\ Simplify /\ pc = "simplify" /\ pc' \in {"search", "dead"}
      /\ UNCHANGED <<script, options, given, next_var>> /\ UNCHANGED callVars /\ answer' = answer
  BY DEF SolveRest
<1>2. Right' /\ db'.eliminated = db.eliminated
  BY <1>1, SolveRestRight, SimplifyFacts
<1>3. Assumed' = Assumed /\ AssumedVars' = AssumedVars /\ solving' = solving
  BY <1>1 DEF callVars, Assumed, AssumedVars
<1>4. Asked'
  BY <1>1, <1>2, <1>3 DEF Sound, Asked, Loops, Picked
<1> QED
  BY <1>1, <1>2, <1>4, SimplifySound

(* A search that learns nothing keeps it. *)
LEMMA NothingLearnedSound ==
  ASSUME Right, Sound, NothingLearned
  PROVE  Sound'
<1>1. /\ pc = "search" /\ pc' = "answer" /\ UNCHANGED db /\ UNCHANGED userVars
      /\ UNCHANGED callVars /\ UNCHANGED resultVars
  BY DEF NothingLearned, Searching
<1>2. /\ UNCHANGED <<options, given, released_vars, free_vars, next_var, script>>
      /\ Assumed' = Assumed /\ AssumedVars' = AssumedVars /\ solving' = solving /\ answer' = answer
  BY <1>1 DEF userVars, callVars, resultVars, Assumed, AssumedVars
<1>3. Asked'
  BY <1>1, <1>2 DEF Sound, Asked, Loops, Picked
<1>4. Alike_(db, db') /\ Right'
  BY <1>1, SameAlike, SearchRight DEF Right, DbRight
<1> QED
  BY <1>1, <1>2, <1>3, <1>4, SameNumber, AlikeSound

-----------------------------------------------------------------------------
(* The loops of eliminate. *)

(* The loops of eliminate leave all that belongs to the calls. *)
LEMMA LoopKeeps ==
  ASSUME Right, NEW next, Loop(next)
  PROVE  /\ UNCHANGED <<options, given, released_vars, free_vars, next_var, script>>
         /\ next_var' >= next_var /\ pc' = next
<1>1. UNCHANGED <<options, given, released_vars, free_vars, next_var, script>> /\ pc' = next
  BY DEF Loop, userVars
<1> QED
  BY <1>1, SameNumber

(* A quiet step that leaves frozen what is. *)
LEMMA LoopSound ==
  ASSUME Right, Right', Sound, pc \in Loops, NEW next \in Loops \cup {"cleanup"}, Loop(next),
         Quiet(db, db'), Settled => Stable(db, db'), db.frozen \subseteq db'.frozen,
         Settled /\ db'.ok /\ next = "cleanup" => db'.unchecked = {},
         Picked' => Picked /\ UNCHANGED <<elim, was_frozen>>
  PROVE  Sound'
<1>1. /\ UNCHANGED <<options, given, released_vars, free_vars, next_var, script>>
      /\ next_var' >= next_var /\ pc' = next
  BY LoopKeeps
<1>2. db'.eliminated = db.eliminated
  BY DEF Quiet
<1>3. Asked'
  <2>1. pc # "idle"
    BY DEF Loops
  <2>2. solving => AssumedVars \subseteq db'.frozen
    BY DEF Sound, Asked
  <2>3. Picked' /\ solving /\ ~was_frozen' => elim' \notin AssumedVars
    BY DEF Sound, Asked
  <2> QED
    BY <1>2, <2>2, <2>3, LoopAsked
<1> QED
  BY <1>1, <1>3, QuietSound

(* backwardSubsumptionCheck keeps it. *)
LEMMA backwardSound ==
  ASSUME Right, Sound, backwardSubsumptionCheck
  PROVE  Sound'
<1>1. pc = "backward" /\ back' = back /\ elim' = elim /\ was_frozen' = was_frozen
  BY DEF backwardSubsumptionCheck, BackwardInterrupted, CheckClause, CheckFact, BackwardDone, loopVars
<1>2. Right' /\ back \in Loops /\ pc \in Loops /\ back # "backward" /\ back # "asymm" /\ Good(db)
  BY <1>1, backwardRight, BackFacts_
<1>3. Held_(db, db') /\ (Settled => Stable(db, db'))
  <2>1. CASE BackwardInterrupted
    BY <2>1, BackwardInterruptedQuiet DEF Settled
  <2>2. CASE CheckClause
    BY <2>2, CheckClauseQuiet
  <2>3. CASE CheckFact
    BY <2>3, CheckFactQuiet
  <2>4. CASE BackwardDone
    <3>1. db' = db
      BY <2>4 DEF BackwardDone
    <3> QED
      BY <1>2, <3>1, QuietSame DEF Held_
  <2> QED
    BY <2>1, <2>2, <2>3, <2>4 DEF backwardSubsumptionCheck
<1>4. \E next \in {back, After(db')} : Loop(next)
  BY DEF backwardSubsumptionCheck, BackwardInterrupted, CheckClause, CheckFact, BackwardDone
<1>5. PICK next \in {back, After(db')} : Loop(next)
  BY <1>4
<1>6. next \in Loops \cup {"cleanup"} /\ pc' = next /\ next \notin {"asymm"} /\ (next = "elim" => back = "elim")
  BY <1>2, <1>5, AfterFacts DEF Loop
<1>7. Picked' => Picked
  BY <1>1, <1>6 DEF Picked
<1>8. db'.ok /\ next = "cleanup" => db'.unchecked = {}
  BY <1>2, <1>5 DEF After, Loops
<1>9. Quiet(db, db') /\ db.frozen \subseteq db'.frozen
  BY <1>3 DEF Held_
<1> QED
  BY <1>1, <1>2, <1>3, <1>5, <1>6, <1>7, <1>8, <1>9, LoopSound

(* The outer loop of eliminate keeps it. *)
LEMMA MainSound ==
  ASSUME Right, Sound, Gather \/ Finished \/ Abandoned \/ Checked
  PROVE  Sound'
<1>1. Right' /\ Quiet(db, db') /\ Stable(db, db') /\ Good(db)
  BY MainRight DEF Right, DbRight
<1>2. pc \in Loops
  BY DEF Gather, Finished, Abandoned, Checked, Loops
<1>3. CASE Gather
  <2>1. Loop("backward") /\ back' = "checked" /\ db.frozen \subseteq db'.frozen
    BY <1>3, GatherQuiet DEF Gather
  <2>2. ~Picked'
    BY <2>1 DEF Loop, Picked
  <2>3. "backward" \in Loops \cup {"cleanup"} /\ "backward" # "cleanup"
    BY DEF Loops
  <2> QED
    BY <1>1, <1>2, <2>1, <2>2, <2>3, LoopSound
<1>4. CASE Finished
  <2>1. Loop("cleanup") /\ db' = db /\ db.unchecked = {}
    BY <1>4 DEF Finished, Remaining
  <2>2. ~Picked' /\ db.frozen \subseteq db'.frozen /\ db'.unchecked = {}
    BY <2>1 DEF Loop, Picked
  <2>3. "cleanup" \in Loops \cup {"cleanup"}
    OBVIOUS
  <2> QED
    BY <1>1, <1>2, <2>1, <2>2, <2>3, LoopSound
<1>5. CASE Abandoned
  <2>1. Loop("cleanup") /\ interrupt /\ Held_(db, db')
    BY <1>5, AbandonedQuiet DEF Abandoned
  <2>2. ~Picked' /\ db.frozen \subseteq db'.frozen /\ ~Settled
    BY <2>1 DEF Loop, Picked, Held_, Settled, Right, Control
  <2>3. "cleanup" \in Loops \cup {"cleanup"}
    OBVIOUS
  <2> QED
    BY <1>1, <1>2, <2>1, <2>2, <2>3, LoopSound
<1>6. CASE Checked
  <2>1. Loop("pick") /\ db' = db
    BY <1>6 DEF Checked
  <2>2. ~Picked' /\ db.frozen \subseteq db'.frozen
    BY <2>1 DEF Loop, Picked
  <2>3. "pick" \in Loops \cup {"cleanup"} /\ "pick" # "cleanup"
    BY DEF Loops
  <2> QED
    BY <1>1, <1>2, <2>1, <2>2, <2>3, LoopSound
<1> QED
  BY <1>3, <1>4, <1>5, <1>6

(* The choice of a variable keeps it. *)
LEMMA PickSound ==
  ASSUME Right, Sound, PickNone \/ PickInterrupted \/ PickSkip \/ Pick
  PROVE  Sound'
<1>1. Right' /\ Quiet(db, db') /\ Stable(db, db') /\ Good(db)
  BY PickRight DEF Right, DbRight
<1>2. pc \in Loops
  BY DEF PickNone, PickInterrupted, PickSkip, Pick, Loops
<1>3. CASE PickNone \/ PickInterrupted \/ PickSkip
  <2>1. db' = db \/ \E v \in Vars : db' = Popped(v)
    BY <1>3 DEF PickNone, PickInterrupted, PickSkip
  <2>2. db.frozen \subseteq db'.frozen
    BY <1>1, <2>1, PoppedQuiet DEF Held_
  <2>3. Loop("main") \/ Loop("pick")
    BY <1>3 DEF PickNone, PickInterrupted, PickSkip
  <2>4. {"main", "pick"} \subseteq Loops /\ ~Picked'
    BY <2>3 DEF Loop, Loops, Picked
  <2>5. CASE Loop("main")
    BY <1>1, <1>2, <2>2, <2>4, <2>5, LoopSound
  <2>6. CASE Loop("pick")
    BY <1>1, <1>2, <2>2, <2>4, <2>6, LoopSound
  <2> QED
    BY <2>3, <2>5, <2>6
<1>4. CASE Pick
  <2>1. \E next \in {"asymm", "elim"} : Loop(next)
    BY <1>4 DEF Pick
  <2>2. PICK next \in {"asymm", "elim"} : Loop(next)
    BY <2>1
  <2>3. next \in Loops /\ next # "cleanup"
    BY DEF Loops
  <2>4. db.frozen \subseteq db'.frozen /\ (elim' \in db.frozen <=> was_frozen') /\ db'.eliminated = db.eliminated
    BY <1>1, <1>4, PickQuiet DEF Quiet
  <2>5. solving => AssumedVars \subseteq db.frozen
    BY <1>2 DEF Sound, Asked
  <2>6. Asked'
    BY <1>2, <2>2, <2>3, <2>4, <2>5, LoopAsked
  <2>7. /\ UNCHANGED <<options, given, released_vars, free_vars, next_var, script>>
        /\ next_var' >= next_var /\ pc' = next
    BY <2>2, LoopKeeps
  <2> QED
    BY <1>1, <2>3, <2>6, <2>7, QuietSound
<1> QED
  BY <1>3, <1>4

(* Asymmetric branching keeps it. *)
LEMMA asymmSound ==
  ASSUME Right, Sound, asymm \/ asymmDone
  PROVE  Sound'
<1>1. Right' /\ Held_(db, db') /\ Stable(db, db')
  BY asymmRight
<1>2. Quiet(db, db') /\ db.frozen \subseteq db'.frozen
  BY <1>1 DEF Held_
<1>3. pc = "asymm" /\ Picked /\ pc \in Loops /\ UNCHANGED <<elim, was_frozen>>
  BY DEF asymm, asymmDone, Picked, Loops
<1>4. \E next \in {"asymm", "cleanup", "backward"} : Loop(next) /\ (next = "cleanup" => ~db'.ok)
  BY DEF asymm, asymmDone
<1>5. PICK next \in {"asymm", "cleanup", "backward"} : Loop(next) /\ (next = "cleanup" => ~db'.ok)
  BY <1>4
<1>6. next \in Loops \cup {"cleanup"}
  BY DEF Loops
<1> QED
  BY <1>1, <1>2, <1>3, <1>5, <1>6, LoopSound

(* A variable that stays keeps it, and so does collecting garbage. *)
LEMMA KeptSound ==
  ASSUME Right, Sound, Kept \/ Collect
  PROVE  Sound'
<1>1. Right' /\ Quiet(db, db') /\ Stable(db, db') /\ Good(db)
  BY KeptRight DEF Right, DbRight
<1>2. pc \in Loops
  BY DEF Kept, Collect, Loops
<1>3. \E next \in {"collect", "pick"} : Loop(next)
  BY DEF Kept, Collect
<1>4. PICK next \in {"collect", "pick"} : Loop(next)
  BY <1>3
<1>5. next \in Loops /\ next # "cleanup" /\ ~Picked'
  BY <1>4 DEF Loop, Loops, Picked
<1>6. db'.eliminated = db.eliminated
  BY <1>1 DEF Quiet
<1>7. solving => AssumedVars \subseteq db'.frozen
  <2>1. CASE Kept
    <3>1. db'.frozen = (IF was_frozen THEN db.frozen ELSE db.frozen \ {elim}) /\ Picked
      BY <2>1, KeptQuiet DEF Kept, Picked
    <3> QED
      BY <1>2, <3>1 DEF Sound, Asked
  <2>2. CASE Collect
    <3>1. db'.frozen = db.frozen
      BY <1>1, <2>2, CollectQuiet DEF Collect
    <3> QED
      BY <1>2, <3>1 DEF Sound, Asked
  <2> QED
    BY <2>1, <2>2
<1>8. Asked'
  BY <1>2, <1>4, <1>5, <1>6, <1>7, LoopAsked
<1>9. /\ UNCHANGED <<options, given, released_vars, free_vars, next_var, script>>
      /\ next_var' >= next_var /\ pc' = next
  BY <1>4, LoopKeeps
<1> QED
  BY <1>1, <1>5, <1>8, <1>9, QuietSound

(* A variable is eliminated: none was given back while clauses are
   simplified, and none that is assumed is. *)
LEMMA ResolvedOpen ==
  ASSUME NEW d, NEW t, NEW v, Resolved(d, t, v), d.simp, t.ok, OpenDb(d)
  PROVE  OpenDb(t)
<1>1. /\ LearntsOpen(t) /\ t.simp /\ t.fixed \ t.unchecked = d.fixed \ d.unchecked
      /\ LiveVars(t) \subseteq LiveVars(d)
  BY DEF Resolved, OpenDb
<1>2. VarsOf(d.fixed \ d.unchecked) \cap LiveVars(d) = {}
  BY DEF OpenDb
<1>3. VarsOf(t.fixed \ t.unchecked) = VarsOf(d.fixed \ d.unchecked)
  BY <1>1
<1> QED
  BY <1>1, <1>2, <1>3 DEF OpenDb

(* No clause mentions a variable that was not created. *)
LEMMA RoomNext ==
  ASSUME Room, next_var' = next_var, NEW U, U \subseteq 0 .. next_var - 1,
         LiveVars(db') \subseteq LiveVars(db) \cup U
  PROVE  Room'
BY DEF Room

(* eliminateVar keeps it: models change at the eliminated variable only,
   which is neither assumed nor released. *)
LEMMA EliminatedSound ==
  ASSUME Right, Sound, Eliminated
  PROVE  Sound'
<1> DEFINE r == Restored
<1>1. /\ Quiet(db, r) /\ Stable(db, r) /\ r.ok = db.ok
      /\ r.frozen = (IF was_frozen THEN db.frozen ELSE db.frozen \ {elim})
  BY RestoredQuiet
<1>2. /\ Resolved(r, db', elim) /\ (~options.use_rcheck => SameModels(r, db', elim))
      /\ ~was_frozen /\ elim \in Vars \ db.eliminated
  BY EliminatedResolved
<1>3. r.ok /\ r.simp = TRUE
  BY RestoredOk
<1>4. Right' /\ pc = "elim"
  BY EliminatedRight DEF Eliminated
<1>5. Loop(After(db')) /\ back' = "collect"
  BY DEF Eliminated
<1> HIDE DEF r
<1>6. /\ UNCHANGED <<options, given, released_vars, free_vars, next_var, script>>
      /\ next_var' >= next_var /\ pc' = After(db')
  BY <1>5, LoopKeeps
<1>7. db.simp /\ pc \in Loops /\ Picked
  BY <1>1, <1>3, <1>4 DEF Quiet, Loops, Picked
<1>8. /\ db'.eliminated = db.eliminated \cup {elim} /\ LiveVars(db') \subseteq LiveVars(db)
      /\ db'.simp = db.simp /\ db'.frozen = db.frozen \ {elim}
  BY <1>1, <1>2 DEF Quiet, Resolved
<1>9. released_vars = {} /\ free_vars = <<>> /\ Returned = {} /\ FreeLits = {}
  BY <1>7 DEF Sound, Free, Returned, FreeLits
<1>10. solving => elim \notin AssumedVars /\ AssumedVars \subseteq db.frozen /\ AssumedVars \cap db.eliminated = {}
  BY <1>2, <1>7 DEF Sound, Asked, Loops
<1>11. Asked'
  <2>1. After(db') \in Loops \cup {"cleanup"} /\ After(db') \notin {"asymm", "elim"}
    BY AfterFacts
  <2>2. solving => AssumedVars \cap db'.eliminated = {} /\ AssumedVars \subseteq db'.frozen
    BY <1>8, <1>10
  <2>3. ~Picked'
    BY <1>5, <1>6, <2>1 DEF Picked
  <2>4. Assumed' = Assumed /\ AssumedVars' = AssumedVars /\ answer' = answer /\ solving' = solving
    BY <1>5 DEF Loop, Assumed, AssumedVars, resultVars
  <2>5. pc # "idle" /\ pc' # "idle"
    BY <1>6, <1>7, <2>1 DEF Loops
  <2>6. answer' = "none" <=> solving' /\ pc' # "idle"
    BY <2>4, <2>5 DEF Sound, Asked
  <2> HIDE DEF AssumedVars
  <2> QED
    BY <2>2, <2>3, <2>4, <2>6 DEF Asked
<1>12. Plain' /\ (Settled' <=> Settled)
  <2>1. Settled \/ (released_vars' = {} /\ free_vars' = <<>>)
    BY <1>6, <1>9
  <2> QED
    BY <1>6, <2>1, PlainNext DEF Sound
<1>13. Free' /\ Returned' = {} /\ FreeLits' = {}
  <2>1. VarsOf(Returned) \cap db'.eliminated = {} /\ given \subseteq given'
    BY <1>6, <1>9 DEF VarsOf
  <2> QED
    BY <1>6, <1>8, <1>9, <2>1, FreeNext DEF Sound
<1>14. Room'
  BY <1>6, <1>8 DEF Sound, Room
<1>15. Forgotten'
  BY <1>6, <1>9, <1>13 DEF Forgotten, VarsOf
<1>16. Opens'
  <2>1. Settled /\ db'.ok => OpenDb(db')
    <3>1. ASSUME Settled, db'.ok PROVE OpenDb(db')
      <4>1. OpenDb(db)
        BY <1>1, <1>3, <3>1 DEF Sound, Opens
      <4>2. OpenDb(r)
        BY <1>1, <1>3, <4>1 DEF Stable
      <4> QED
        BY <1>2, <1>3, <3>1, <4>2, ResolvedOpen
    <3> QED
      BY <3>1
  <2>2. db'.ok => pc' # "cleanup"
    BY <1>6 DEF After
  <2> QED
    BY <1>12, <2>1, <2>2 DEF Opens
<1>17. Means'
  <2>1. Exact(r, given, {})
    BY <1>1, <1>9, QuietExact DEF Sound, Means
  <2>2. SameModels(r, db', elim)
    BY <1>2 DEF Sound, Plain
  <2>3. db'.eliminated = r.eliminated \cup {elim} /\ {} \in SUBSET Lits /\ elim \notin VarsOf({})
    BY <1>2 DEF Resolved, VarsOf
  <2>4. Exact(db', given, {})
    BY <1>2, <1>3, <2>1, <2>2, <2>3, ResolvedExact
  <2> QED
    BY <1>6, <1>13, <2>4 DEF Means
<1> QED
  BY <1>11, <1>12, <1>13, <1>14, <1>15, <1>16, <1>17 DEF Sound

(* The end of eliminate keeps it. *)
LEMMA CleanupSound ==
  ASSUME Right, Sound, Cleanup
  PROVE  Sound'
<1>1. /\ pc = "cleanup" /\ UNCHANGED <<script, options, given, next_var, released_vars, free_vars>>
      /\ UNCHANGED callVars /\ UNCHANGED resultVars
      /\ pc' = (IF ~solving THEN "idle" ELSE IF db.ok THEN "simplify" ELSE "dead")
      /\ db' = TurnedOff(db) \/ db' \in checkGarbage(db)
  BY DEF Cleanup
<1>2. Right' /\ Good(db) /\ db.simp
  BY <1>1, CleanupRight DEF Right, DbRight, Control
<1>3. Asked' \/ db'.eliminated # db.eliminated
  <2>1. ASSUME db'.eliminated = db.eliminated PROVE Asked'
    <3>1. Assumed' = Assumed /\ AssumedVars' = AssumedVars /\ solving' = solving /\ answer' = answer
      BY <1>1 DEF callVars, resultVars, Assumed, AssumedVars
    <3>2. pc' \notin Loops /\ ~Picked' /\ (pc' # "idle" <=> solving)
      BY <1>1 DEF Loops, Picked
    <3>3. answer = "none" <=> solving
      BY <1>1 DEF Sound, Asked
    <3>4. solving => AssumedVars \cap db.eliminated = {}
      BY <1>1 DEF Sound, Asked
    <3> QED
      BY <2>1, <3>1, <3>2, <3>3, <3>4 DEF Asked
  <2> QED
    BY <2>1
<1>4. next_var' >= next_var /\ pc' # "cleanup"
  BY <1>1, SameNumber
<1>5. CASE db' \in checkGarbage(db)
  <2>1. Quiet(db, db') /\ Stable(db, db')
    BY <1>2, <1>5, CollectQuiet
  <2>2. db'.eliminated = db.eliminated
    BY <2>1 DEF Quiet
  <2> QED
    BY <1>1, <1>2, <1>3, <1>4, <2>1, <2>2, QuietSound
<1>6. CASE db' = TurnedOff(db)
  <2>1. /\ db'.simp = FALSE /\ db'.ok = db.ok /\ db'.learnts = db.learnts /\ db'.fixed = db.fixed
        /\ db'.eliminated = db.eliminated /\ LiveVars(db') = LiveVars(db)
        /\ Full(db') = Full(db) /\ Says(db') = Says(db)
    BY <1>2, <1>6, TurnedOffStep
  <2>2. Known(db') = Known(db)
    BY <2>1 DEF Known
  <2>3. Free' /\ Returned' = Returned /\ FreeLits' = FreeLits
    BY <1>1, <2>1, FreeNext, ReturnedKept DEF Sound
  <2>4. Plain' /\ (Settled' <=> Settled)
    <3>1. Settled \/ (released_vars' = {} /\ free_vars' = <<>>)
      BY <1>1 DEF Sound, Plain
    <3> QED
      BY <1>1, <3>1, PlainNext DEF Sound
  <2>5. Room' /\ Forgotten'
    BY <1>1, <2>1, <2>2, <2>3 DEF Sound, Room, Forgotten
  <2>6. Opens'
    <3>1. ASSUME Settled, db.ok PROVE OpenDb(db')
      <4>1. OpenDb(db) /\ db.unchecked = {}
        BY <1>1, <3>1 DEF Sound, Opens
      <4> QED
        BY <1>2, <1>6, <4>1, TurnedOffOpen
    <3> QED
      BY <1>4, <2>1, <2>4, <3>1 DEF Opens
  <2>7. Means'
    <3>1. Exact(db', given, Returned)
      BY <2>1 DEF Sound, Means, Exact
    <3> QED
      BY <1>1, <2>3, <3>1 DEF Means
  <2> QED
    BY <1>3, <2>1, <2>3, <2>4, <2>5, <2>6, <2>7 DEF Sound
<1> QED
  BY <1>1, <1>5, <1>6

-----------------------------------------------------------------------------
(* Calls that change the clauses. *)

(* A user mentions only variables that are there and were not given back. *)
LEMMA UsableFacts ==
  ASSUME Right, NEW U \in SUBSET Vars, \A v \in U : Usable(v)
  PROVE  U \subseteq 0 .. next_var - 1 /\ U \cap VarsOf(released_vars) = {} /\ U \cap VarsOf(FreeLits) = {}
<1>1. next_var \in Nat /\ Vars = 0 .. NVars - 1
  BY DEF Right, UserTypes, Vars
<1>2. ASSUME NEW v \in U PROVE v \in 0 .. next_var - 1
  BY <1>1 DEF Usable
<1>3. VarsOf(FreeLits) = {Var(free_vars[k]) : k \in DOMAIN free_vars}
  BY DEF VarsOf, FreeLits
<1>4. ASSUME NEW v \in U PROVE v \notin VarsOf(released_vars) /\ v \notin VarsOf(FreeLits)
  BY <1>3 DEF Usable
<1> QED
  BY <1>2, <1>4

(* A clause is added: what the database knows, and what it means. *)
LEMMA MovesParts ==
  ASSUME Right, Sound, NEW c \in SUBSET Lits, \A v \in VarsOf(c) : Usable(v),
         VarsOf(c) \cap db.eliminated = {}, db' = Stored(db, c), Moves(db, db', VarsOf(c)),
         Kept_(db, db', {c}), next_var' = next_var, options' = options, pc' # "cleanup"
  PROVE  /\ Room' /\ Opens' /\ Exact(db', given \cup {c}, Returned)
         /\ Known(db') \subseteq Known(db) \cup VarsOf(c)
         /\ db'.simp = db.simp /\ db'.eliminated = db.eliminated /\ db.fixed \subseteq db'.fixed /\ (db'.ok => db.ok)
<1>1. VarsOf(c) \in SUBSET Vars
  BY LitFacts DEF VarsOf
<1>2. VarsOf(c) \subseteq 0 .. next_var - 1
  BY <1>1, UsableFacts
<1>3. /\ db'.simp = db.simp /\ db'.eliminated = db.eliminated /\ db.fixed \subseteq db'.fixed /\ (db'.ok => db.ok)
      /\ db'.learnts = db.learnts /\ LiveVars(db') \subseteq LiveVars(db) \cup VarsOf(c)
      /\ VarsOf(db'.fixed) \subseteq Known(db) \cup VarsOf(c)
  BY DEF Moves, Held, Narrow
<1>4. Room'
  BY <1>2, <1>3, RoomNext DEF Sound
<1>5. Known(db') \subseteq Known(db) \cup VarsOf(c)
  <2>1. /\ LiveVars(db) \subseteq Known(db) /\ VarsOf(UNION db.learnts) \subseteq Known(db)
        /\ Known(db') = LiveVars(db') \cup VarsOf(UNION db.learnts) \cup VarsOf(db'.fixed)
    BY <1>3 DEF Known
  <2> QED
    BY <1>3, <2>1
<1>6. Opens'
  <2>1. ASSUME Settled, db'.ok PROVE OpenDb(db')
    <3>1. OpenDb(db) /\ Good(db)
      BY <1>3, <2>1 DEF Sound, Opens, Right, DbRight
    <3> QED
      BY <2>1, <3>1, StoredOpen
  <2>2. Settled' <=> Settled
    BY DEF Settled
  <2> QED
    BY <2>1, <2>2 DEF Opens
<1>7. Exact(db', given \cup {c}, Returned)
  BY <1>3, AddExact DEF Sound, Means
<1> QED
  BY <1>3, <1>4, <1>5, <1>6, <1>7

(* addClause keeps it: the clause is about variables that were not
   eliminated. *)
LEMMA addClauseSound ==
  ASSUME Right, Sound, addClause
  PROVE  Sound'
<1> DEFINE c == Call.lits
<1>1. /\ pc = "idle" /\ pc' = pc /\ script # <<>> /\ script' = Tail(script) /\ answer' = answer
      /\ UNCHANGED <<options, next_var, released_vars, free_vars>>
      /\ given' = given \cup {c} /\ db' = addClause_(db, c) /\ \A v \in VarsOf(c) : Usable(v)
  BY DEF addClause, Called, resultVars
<1>2. /\ Right' /\ Moves(db, db', VarsOf(c)) /\ c \in SUBSET Lits /\ VarsOf(c) \cap db.eliminated = {}
      /\ Kept_(db, db', {c})
  BY addClauseRight DEF Sound, Plain
<1>3. db' = Stored(db, c)
  BY <1>1 DEF addClause_, Sound, Plain
<1> HIDE DEF c
<1>4. /\ Room' /\ Opens' /\ Exact(db', given \cup {c}, Returned) /\ Known(db') \subseteq Known(db) \cup VarsOf(c)
      /\ db'.simp = db.simp /\ db'.eliminated = db.eliminated /\ db.fixed \subseteq db'.fixed /\ (db'.ok => db.ok)
  BY <1>1, <1>2, <1>3, MovesParts
<1>5. Free' /\ Returned' = Returned /\ FreeLits' = FreeLits
  BY <1>1, <1>4, FreeNext, ReturnedKept DEF Sound
<1>6. Plain'
  <2>1. Settled \/ (released_vars' = {} /\ free_vars' = <<>>)
    BY <1>1 DEF Sound, Plain
  <2> QED
    BY <1>1, <2>1, PlainNext DEF Sound
<1>7. Forgotten'
  <2>1. VarsOf(c) \in SUBSET Vars
    BY <1>2, LitFacts DEF VarsOf
  <2>2. VarsOf(c) \cap VarsOf(FreeLits) = {}
    BY <1>1, <2>1, UsableFacts
  <2> QED
    BY <1>1, <1>4, <1>5, <2>2 DEF Sound, Forgotten
<1>8. Means' /\ Asked'
  BY <1>1, <1>4, <1>5, IdleAsked DEF Means
<1> QED
  BY <1>4, <1>5, <1>6, <1>7, <1>8 DEF Sound

(* Whoever gives a variable back does so in the calls that are left. *)
LEMMA ReleaseSettled ==
  ASSUME Right, Plain, Called("releaseVar")
  PROVE  Settled
<1>1. script \in Seq(Calls) /\ script # <<>> /\ Head(script).call = "releaseVar"
  BY DEF Right, UserTypes, Called, Call
<1>2. Len(script) \in Nat \ {0} /\ Head(script) = script[1]
  BY <1>1, EmptySeq
<1>3. 1 \in 1 .. Len(script)
  BY <1>2
<1> QED
  BY <1>1, <1>2, <1>3 DEF Plain

(* A variable is given back. *)
LEMMA ReleasedFree ==
  ASSUME Right, Free, NEW p \in Lits, Usable(Var(p)), Var(p) \notin db.eliminated, ~db'.simp,
         db'.eliminated = db.eliminated, given' = given \cup {{p}}, free_vars' = free_vars,
         released_vars' = released_vars \cup {p}
  PROVE  Free' /\ Returned' = Returned \cup {p} /\ FreeLits' = FreeLits
<1>1. FreeLits' = FreeLits /\ Returned' = Returned \cup {p}
  BY DEF FreeLits, Returned
<1>2. Var(p) \notin VarsOf(released_vars) /\ Var(p) \notin VarsOf(FreeLits)
  <2>1. {Var(p)} \in SUBSET Vars
    BY LitFacts
  <2> QED
    BY <2>1, UsableFacts
<1>3. \A q \in Returned : Var(q) # Var(p)
  BY <1>2 DEF Returned, VarsOf
<1>4. p \notin FreeLits
  BY <1>2 DEF VarsOf
<1> QED
  BY <1>1, <1>3, <1>4 DEF Free

(* releaseVar keeps it. *)
LEMMA releaseVarSound ==
  ASSUME Right, Sound, releaseVar
  PROVE  Sound'
<1> DEFINE p == Call.lit
<1>1. /\ pc = "idle" /\ pc' = pc /\ script # <<>> /\ script' = Tail(script) /\ answer' = answer
      /\ UNCHANGED <<options, next_var, free_vars>> /\ Usable(Var(p)) /\ Called("releaseVar")
  BY DEF releaseVar, Called, resultVars
<1>2. /\ Right' /\ p \in Lits /\ Var(p) \notin db.eliminated
      /\ UNCHANGED <<given, db, released_vars>>
            \/ /\ given' = given \cup {{p}} /\ db' = Stored(db, {p})
               /\ Moves(db, db', VarsOf({p})) /\ Kept_(db, db', {{p}})
  BY releaseVarRight
<1>3. \/ UNCHANGED <<given, db, released_vars>>
      \/ released_vars' = (IF MayReuse(Var(p)) THEN released_vars \cup {p} ELSE released_vars)
  BY DEF releaseVar
<1>4. Settled
  BY <1>1, ReleaseSettled DEF Sound
<1> HIDE DEF p
<1>5. Asked'
  BY <1>1, IdleAsked
<1>6. CASE UNCHANGED <<given, db, released_vars>>
  <2>1. Alike_(db, db')
    BY <1>6, SameAlike DEF Right, DbRight
  <2> QED
    BY <1>1, <1>2, <1>5, <1>6, <2>1, SameNumber, AlikeSound
<1>7. CASE /\ given' = given \cup {{p}} /\ db' = Stored(db, {p})
           /\ Moves(db, db', VarsOf({p})) /\ Kept_(db, db', {{p}})
           /\ released_vars' = (IF MayReuse(Var(p)) THEN released_vars \cup {p} ELSE released_vars)
  <2> DEFINE c == {p}
  <2>1. VarsOf(c) = {Var(p)} /\ c \in SUBSET Lits /\ Var(p) \in Vars
    BY <1>2, LitFacts DEF VarsOf
  <2> HIDE DEF c
  <2>2. c = {p}
    BY DEF c
  <2>3. /\ Room' /\ Opens' /\ Exact(db', given \cup {c}, Returned) /\ Known(db') \subseteq Known(db) \cup VarsOf(c)
        /\ db'.simp = db.simp /\ db'.eliminated = db.eliminated /\ db.fixed \subseteq db'.fixed /\ (db'.ok => db.ok)
    <3>1. /\ \A v \in VarsOf(c) : Usable(v)
          /\ VarsOf(c) \cap db.eliminated = {} /\ pc' # "cleanup"
      BY <1>1, <1>2, <2>1
    <3>2. db' = Stored(db, c) /\ Moves(db, db', VarsOf(c)) /\ Kept_(db, db', {c})
      BY <1>7, <2>2
    <3> QED
      BY <1>1, <2>1, <3>1, <3>2, MovesParts
  <2>4. {Var(p)} \cap VarsOf(FreeLits) = {}
    BY <1>1, <2>1, UsableFacts
  <2>5. Plain'
    BY <1>1, <1>4, PlainNext DEF Sound
  <2>6. CASE MayReuse(Var(p))
    <3>1. ~db.simp /\ released_vars' = released_vars \cup {p}
      BY <1>7, <2>6 DEF MayReuse
    <3>2. Free' /\ Returned' = Returned \cup {p} /\ FreeLits' = FreeLits
      BY <1>1, <1>2, <1>7, <2>3, <3>1, ReleasedFree DEF Sound
    <3>3. Forgotten'
      <4>1. db'.ok => p \in db'.fixed
        BY <1>2, <1>7, StoredFixes DEF Right, DbRight
      <4>2. db'.ok => released_vars \subseteq db'.fixed /\ VarsOf(FreeLits) \cap Known(db') = {}
        BY <2>1, <2>3, <2>4 DEF Sound, Forgotten
      <4> QED
        BY <3>1, <3>2, <4>1, <4>2 DEF Forgotten
    <3>4. Means'
      <4>1. {p} \in given'
        BY <1>7
      <4>2. Exact(db', given', Returned) /\ Var(p) \notin db'.eliminated
        BY <1>2, <1>7, <2>2, <2>3
      <4>3. Exact(db', given', Returned \cup {p})
        BY <1>2, <4>1, <4>2, RaiseExact
      <4> QED
        BY <3>2, <4>3 DEF Means
    <3> QED
      BY <1>5, <2>3, <2>5, <3>2, <3>3, <3>4 DEF Sound
  <2>7. CASE ~MayReuse(Var(p))
    <3>1. released_vars' = released_vars /\ given \subseteq given'
      BY <1>7, <2>7
    <3>2. Free' /\ Returned' = Returned /\ FreeLits' = FreeLits
      BY <1>1, <2>3, <3>1, FreeNext, ReturnedKept DEF Sound
    <3>3. Forgotten'
      BY <2>1, <2>3, <2>4, <3>1, <3>2 DEF Sound, Forgotten
    <3>4. Means'
      BY <1>7, <2>2, <2>3, <3>2 DEF Means
    <3> QED
      BY <1>5, <2>3, <2>5, <3>2, <3>3, <3>4 DEF Sound
  <2> QED
    BY <2>6, <2>7
<1> QED
  BY <1>2, <1>3, <1>6, <1>7

-----------------------------------------------------------------------------
(* A variable that was given back is taken again. *)
LEMMA ReuseFree ==
  ASSUME Right, Free, free_vars # <<>>, free_vars' = Front(free_vars), given' = Without(given, Last(free_vars)),
         released_vars' = released_vars, db'.eliminated = db.eliminated, db'.simp = db.simp
  PROVE  LET p == Last(free_vars) IN
         /\ Free' /\ Returned' = Returned \ {p} /\ FreeLits' = FreeLits \ {p} /\ p \in Returned /\ p \in FreeLits
         /\ \A q \in Returned \ {p} : Var(q) # Var(p)
<1> DEFINE s == free_vars
           t == Front(s)
           p == Last(s)
<1>1. s \in Seq(Lits) /\ s # <<>> /\ free_vars' = t /\ FreeLits = {s[k] : k \in DOMAIN s}
  BY DEF Right, UserTypes, FreeLits
<1>2. FreeLits' = {t[k] : k \in DOMAIN t}
  BY DEF FreeLits
<1>3. /\ \A q \in Returned : Var(q) \notin db.eliminated /\ {q} \in given
      /\ \A q, r \in Returned : Var(q) = Var(r) => q = r
      /\ released_vars \cap FreeLits = {} /\ Returned = released_vars \cup FreeLits
      /\ \A k, l \in 1 .. Len(s) : s[k] = s[l] => k = l
      /\ db.simp => released_vars = {} /\ s = <<>>
      /\ given' = Without(given, p) /\ Returned' = released_vars \cup FreeLits'
  BY DEF Free, Returned
<1> HIDE DEF s
<1>4. /\ t \in Seq(Lits) /\ p \in Lits /\ p = s[Len(s)] /\ Len(s) \in Nat \ {0}
      /\ Len(t) = Len(s) - 1 /\ \A k \in 1 .. Len(s) - 1 : t[k] = s[k]
  BY <1>1, LastFacts
<1> HIDE DEF t, p
<1>5. DOMAIN s = 1 .. Len(s) /\ DOMAIN t = 1 .. Len(s) - 1
  BY <1>1, <1>4
<1>6. FreeLits' = FreeLits \ {p} /\ p \in FreeLits
  <2>1. ASSUME NEW k \in DOMAIN t PROVE t[k] \in FreeLits \ {p}
    <3>1. k \in 1 .. Len(s) /\ k # Len(s) /\ t[k] = s[k] /\ Len(s) \in 1 .. Len(s)
      BY <1>4, <1>5
    <3>2. s[k] # s[Len(s)]
      BY <1>3, <3>1
    <3> QED
      BY <1>1, <1>4, <1>5, <3>1, <3>2
  <2>2. ASSUME NEW q \in FreeLits, q # p PROVE \E k \in DOMAIN t : t[k] = q
    <3>1. PICK k \in 1 .. Len(s) : q = s[k]
      BY <1>1, <1>5
    <3>2. k # Len(s)
      BY <1>4, <2>2, <3>1
    <3>3. k \in 1 .. Len(s) - 1
      BY <1>4, <3>1, <3>2
    <3> QED
      BY <1>4, <1>5, <3>1, <3>3
  <2>3. p \in FreeLits
    <3>1. Len(s) \in DOMAIN s
      BY <1>4, <1>5
    <3> QED
      BY <1>1, <1>4, <3>1
  <2> QED
    BY <1>2, <2>1, <2>2, <2>3
<1>7. Returned' = Returned \ {p} /\ p \in Returned
  BY <1>3, <1>6
<1>8. \A q \in Returned \ {p} : Var(q) # Var(p)
  BY <1>3, <1>7
<1>9. ASSUME NEW q \in Returned' PROVE Var(q) \notin db'.eliminated /\ {q} \in given'
  <2>1. q \in Returned /\ q # p /\ {q} \in given /\ Var(q) # Var(p)
    BY <1>3, <1>7, <1>8
  <2>2. Neg(p) # q
    BY <1>4, <2>1, LitFacts
  <2>3. p \notin {q} /\ {q} \ {Neg(p)} = {q}
    BY <2>1, <2>2
  <2>4. {q} \in Without(given, p)
    BY <2>1, <2>3 DEF Without
  <2> QED
    BY <1>3, <2>1, <2>4
<1>10. \A q, r \in Returned' : Var(q) = Var(r) => q = r
  BY <1>3, <1>7
<1>11. released_vars' \cap FreeLits' = {}
  BY <1>3, <1>6
<1>12. \A k, l \in 1 .. Len(free_vars') : free_vars'[k] = free_vars'[l] => k = l
  <2>1. ASSUME NEW k \in 1 .. Len(t), NEW l \in 1 .. Len(t), t[k] = t[l] PROVE k = l
    <3>1. k \in 1 .. Len(s) /\ l \in 1 .. Len(s) /\ t[k] = s[k] /\ t[l] = s[l]
      BY <1>4
    <3> QED
      BY <1>3, <2>1, <3>1
  <2> QED
    BY <1>1, <2>1
<1>13. ~db'.simp
  BY <1>1, <1>3
<1>14. Free'
  BY <1>9, <1>10, <1>11, <1>12, <1>13 DEF Free
<1> QED
  BY <1>6, <1>7, <1>8, <1>14 DEF p, s

(* newVar with a variable that was given back keeps it: nothing mentions
   the variable. *)
LEMMA ReuseSound ==
  ASSUME Right, Sound, ReuseVar
  PROVE  Sound'
<1> DEFINE p == Last(free_vars)
<1>1. /\ pc = "idle" /\ pc' = pc /\ script # <<>> /\ script' = Tail(script) /\ answer' = answer
      /\ UNCHANGED <<options, next_var, released_vars>> /\ free_vars # <<>>
      /\ free_vars' = Front(free_vars) /\ given' = Without(given, p)
  BY DEF ReuseVar, Called, resultVars
<1>2. Right' /\ Alike_(db, db') /\ p \in Lits
  BY ReuseRight
<1>3. /\ Quiet(db, db') /\ Stable(db, db') /\ db'.ok = db.ok /\ db'.fixed = db.fixed
      /\ db'.eliminated = db.eliminated /\ db'.simp = db.simp
      /\ LiveVars(db') \subseteq LiveVars(db) /\ Known(db') \subseteq Known(db)
  BY <1>2 DEF Alike_, Quiet
<1>4. /\ Free' /\ Returned' = Returned \ {p} /\ FreeLits' = FreeLits \ {p} /\ p \in Returned /\ p \in FreeLits
      /\ \A q \in Returned \ {p} : Var(q) # Var(p)
  BY <1>1, <1>3, ReuseFree DEF Sound
<1> HIDE DEF p
<1>5. Settled
  BY <1>1 DEF Sound, Plain
<1>6. Plain' /\ (Settled' <=> Settled)
  BY <1>1, <1>5, PlainNext DEF Sound
<1>7. Room'
  BY <1>1, <1>3 DEF Sound, Room
<1>8. Forgotten'
  <2>1. VarsOf(FreeLits') \subseteq VarsOf(FreeLits)
    BY <1>4 DEF VarsOf
  <2> QED
    BY <1>1, <1>3, <2>1 DEF Sound, Forgotten
<1>9. Opens'
  BY <1>1, <1>3, <1>6 DEF Sound, Opens, Stable
<1>10. Means'
  <2>1. {p} \in given /\ (db.ok => Var(p) \notin Known(db))
    <3>1. Var(p) \in VarsOf(FreeLits)
      BY <1>4 DEF VarsOf
    <3> QED
      BY <1>4, <3>1 DEF Sound, Free, Forgotten
  <2>2. Good(db) /\ given \in SUBSET SUBSET Lits /\ Returned \in SUBSET Lits
    BY FactsType DEF Right, DbRight, UserTypes, Returned
  <2>3. Exact(db, Without(given, p), Returned \ {p})
    BY <1>4, <2>1, <2>2, ReuseExact DEF Sound, Means
  <2>4. Exact(db', Without(given, p), Returned \ {p})
    BY <1>3, <2>3, QuietExact
  <2> QED
    BY <1>1, <1>4, <2>4 DEF Means
<1>11. Asked'
  BY <1>1, IdleAsked
<1> QED
  BY <1>4, <1>6, <1>7, <1>8, <1>9, <1>10, <1>11 DEF Sound

(* The literal takes the place of the variable: none was given back while
   clauses are simplified. *)
LEMMA SubstitutedOpen ==
  ASSUME NEW d, NEW t, NEW v, NEW x, Substituted(d, t, v, x), d.simp, t.ok, OpenDb(d)
  PROVE  OpenDb(t)
<1>1. /\ LearntsOpen(t) /\ t.simp /\ t.fixed \ t.unchecked = d.fixed \ d.unchecked
      /\ LiveVars(t) \subseteq LiveVars(d) \cup ({Var(x)} \ AssignedVars(d))
  BY DEF Substituted, OpenDb
<1>2. VarsOf(d.fixed \ d.unchecked) \cap LiveVars(d) = {}
  BY DEF OpenDb
<1>3. VarsOf(t.fixed \ t.unchecked) = VarsOf(d.fixed \ d.unchecked)
  BY <1>1
<1>4. VarsOf(d.fixed \ d.unchecked) \subseteq AssignedVars(d)
  BY DEF VarsOf, AssignedVars
<1> QED
  BY <1>1, <1>2, <1>3, <1>4 DEF OpenDb

(* substitute keeps it, where the clauses given are read with the literal
   in the place of the variable. *)
LEMMA SubstituteSound ==
  ASSUME Right, Sound, Substitute
  PROVE  Sound'
<1> DEFINE v == Call.var
           x == Call.lit
<1>1. /\ pc = "idle" /\ pc' = pc /\ script # <<>> /\ script' = Tail(script) /\ answer' = answer
      /\ UNCHANGED <<options, next_var, released_vars, free_vars>> /\ Usable(Var(x))
      /\ given' = (IF db.ok THEN Renamed(given, v, x) ELSE given)
      /\ ~db.ok => db' = db
  BY DEF Substitute, Called, resultVars
<1>2. /\ Right' /\ v \in Vars /\ x \in Lits /\ Var(x) # v /\ db.simp
      /\ v \notin db.eliminated /\ Var(x) \notin db.eliminated
      /\ db.ok => /\ Substituted(db, db', v, x)
                  /\ ~options.use_rcheck => TiedModels(db, db', v, x)
  BY SubstituteRight
<1> HIDE DEF v, x
<1>3. Asked'
  BY <1>1, IdleAsked
<1>4. CASE ~db.ok
  <2>1. Alike_(db, db') /\ given' = given
    BY <1>1, <1>4, SameAlike DEF Right, DbRight
  <2> QED
    BY <1>1, <1>2, <1>3, <2>1, SameNumber, AlikeSound
<1>5. CASE db.ok
  <2>1. Substituted(db, db', v, x) /\ TiedModels(db, db', v, x) /\ given' = Renamed(given, v, x)
    BY <1>1, <1>2, <1>5 DEF Sound, Plain
  <2>2. /\ db'.simp = db.simp /\ db'.eliminated = db.eliminated \cup {v}
        /\ LiveVars(db') \subseteq LiveVars(db) \cup {Var(x)}
    BY <2>1 DEF Substituted
  <2>3. released_vars = {} /\ free_vars = <<>> /\ Returned = {} /\ FreeLits = {}
    BY <1>2 DEF Sound, Free, Returned, FreeLits
  <2>4. Returned' = {} /\ FreeLits' = {} /\ released_vars' = {} /\ free_vars' = <<>>
    BY <1>1, <2>3 DEF Returned, FreeLits
  <2>5. Plain' /\ (Settled' <=> Settled)
    BY <1>1, <2>4, PlainNext DEF Sound
  <2>6. Free'
    <3>1. \A k, l \in 1 .. Len(free_vars') : free_vars'[k] = free_vars'[l] => k = l
      BY <1>1 DEF Sound, Free
    <3> QED
      BY <2>4, <3>1 DEF Free
  <2>7. Forgotten'
    BY <2>4 DEF Forgotten, VarsOf
  <2>8. Room'
    <3>1. {Var(x)} \in SUBSET Vars
      BY <1>2, LitFacts
    <3>2. {Var(x)} \subseteq 0 .. next_var - 1
      BY <1>1, <3>1, UsableFacts
    <3> QED
      BY <1>1, <2>2, <3>2, RoomNext DEF Sound
  <2>9. Opens'
    <3>1. ASSUME Settled, db'.ok PROVE OpenDb(db')
      BY <1>2, <1>5, <2>1, <3>1, SubstitutedOpen DEF Sound, Opens
    <3> QED
      BY <1>1, <2>5, <3>1 DEF Opens
  <2>10. Means'
    <3>1. given \in SUBSET SUBSET Lits /\ Exact(db, given, {})
      BY <2>3 DEF Right, UserTypes, Sound, Means
    <3>2. Exact(db', Renamed(given, v, x), {})
      BY <1>2, <1>5, <2>1, <2>2, <3>1, SubstituteExact
    <3> QED
      BY <2>1, <2>4, <3>2 DEF Means
  <2> QED
    BY <1>3, <2>5, <2>6, <2>7, <2>8, <2>9, <2>10 DEF Sound
<1> QED
  BY <1>4, <1>5

-----------------------------------------------------------------------------
(* The end of a search. *)

(* Without a model every assignment is ruled out. *)
LEMMA NoneMeans ==
  ASSUME Right, Sound, db.ok, Solutions({}) = {}
  PROVE  Models(given) = {}
<1>1. ASSUME NEW m \in Models(given) PROVE FALSE
  <2>1. PICK w \in Full(db) : MakesAll(w, Returned)
    BY DEF Sound, Means, Exact
  <2>2. {} \in SUBSET Lits /\ MakesAll(w, {})
    BY DEF MakesAll
  <2>3. \E s \in Solutions({}) : MakesAll(w, s)
    BY <2>1, <2>2, ModelSolves
  <2> QED
    BY <2>3
<1> QED
  BY <1>1

(* The call comes back with what the database says. *)
LEMMA ReturnSound ==
  ASSUME Right, Right', Sound, Alike_(db, db'), NEW ans \in {"sat", "unsat", "undef"}, NEW mod,
         Return(db, ans, mod)
  PROVE  Sound'
<1>1. /\ pc' = "idle" /\ answer' = ans
      /\ UNCHANGED <<options, given, released_vars, free_vars, next_var, script>>
  BY DEF Return, userVars
<1>2. Asked'
  BY <1>1 DEF Asked, Loops, Picked
<1> QED
  BY <1>1, <1>2, SameNumber, AlikeSound

(* A database without models keeps it when it is no longer ok. *)
LEMMA DeadSound ==
  ASSUME Right, Right', Sound, db.ok, Solutions({}) = {}, Return([db EXCEPT !.ok = FALSE], "unsat", model)
  PROVE  Sound'
<1> DEFINE d == [db EXCEPT !.ok = FALSE]
<1>1. Good(db)
  BY DEF Right, DbRight
<1>2. Good(d) /\ d.ok = FALSE /\ Live(d) = Live(db) /\ d.ca = db.ca /\ Moves(db, d, {})
  BY <1>1, DeadStep
<1>3. Return(d, "unsat", model)
  OBVIOUS
<1> HIDE DEF d
<1>4. Alike_(d, db')
  BY <1>2, <1>3, ReturnFacts DEF Right, CallTypes
<1>5. /\ db'.simp = db.simp /\ db'.eliminated = db.eliminated /\ db'.ok = FALSE
      /\ LiveVars(db') \subseteq LiveVars(db)
  <2>1. d.simp = db.simp /\ d.eliminated = db.eliminated /\ d.ca = db.ca
    BY <1>2 DEF Moves, Held
  <2>2. LiveVars(d) = LiveVars(db)
    BY <1>2 DEF LiveVars
  <2> QED
    BY <1>2, <1>4, <2>1, <2>2 DEF Alike_, Quiet
<1>6. /\ pc' = "idle" /\ answer' = "unsat"
      /\ UNCHANGED <<options, given, released_vars, free_vars, next_var, script>>
  BY <1>3 DEF Return, userVars
<1>7. Free' /\ Returned' = Returned /\ FreeLits' = FreeLits
  BY <1>5, <1>6, FreeNext, ReturnedKept DEF Sound
<1>8. Plain'
  <2>1. Settled \/ (released_vars' = {} /\ free_vars' = <<>>)
    BY <1>6 DEF Sound, Plain
  <2> QED
    BY <1>6, <2>1, PlainNext DEF Sound
<1>9. Room' /\ Forgotten' /\ Opens'
  BY <1>5, <1>6 DEF Sound, Room, Forgotten, Opens
<1>10. Means'
  BY <1>5, <1>6, NoneMeans DEF Means, Exact
<1>11. Asked'
  BY <1>6 DEF Asked, Loops, Picked
<1> QED
  BY <1>7, <1>8, <1>9, <1>10, <1>11 DEF Sound

(* An answer keeps it. *)
LEMMA AnswerSound ==
  ASSUME Right, Sound, Dead \/ SearchStopped \/ ModelFound \/ NoModel
  PROVE  Sound'
<1>1. Right' /\ Good(db) /\ (db.ok => Clean(db)) /\ extra_frozen \in SUBSET Vars
  BY AnswerRight DEF Right, DbRight, CallTypes
<1>2. CASE \E ans \in {"sat", "unsat", "undef"} : \E mod : Return(db, ans, mod)
  <2>0. PICK ans \in {"sat", "unsat", "undef"} : \E mod : Return(db, ans, mod)
    BY <1>2
  <2>1. PICK mod : Return(db, ans, mod)
    BY <2>0
  <2>2. Alike_(db, db')
    BY <1>1, <2>1, ReturnFacts
  <2> QED
    BY <1>1, <2>1, <2>2, ReturnSound
<1>3. CASE /\ NoModel /\ Solutions({}) = {}
           /\ Return([db EXCEPT !.ok = FALSE], "unsat", model)
  <2>1. db.ok
    BY <1>3 DEF NoModel, Right, Control
  <2> QED
    BY <1>1, <1>3, <2>1, DeadSound
<1> QED
  BY <1>2, <1>3 DEF Dead, SearchStopped, ModelFound, NoModel

(* What a learnt clause changes. *)
Learnt(d, t, p, q) ==
  /\ t.simp = d.simp /\ t.eliminated = d.eliminated /\ d.fixed \subseteq t.fixed
  /\ t.elimclauses = d.elimclauses
  /\ LiveVars(t) \subseteq LiveVars(d) /\ Known(t) \subseteq Known(d) \cup {Var(p), Var(q)}
  /\ OpenDb(d) => OpenDb(t)
  /\ \A w \in Full(d) : SatisfiesClause(w, {p, q}) => w \in Full(t)
  /\ Says(t) \subseteq Says(d)

(* A fact that is learnt. *)
LEMMA LearntFact ==
  ASSUME NEW d, Good(d), d.ok, NEW p \in Lits, NEW t, t = propagate(d, {p}), t.ok
  PROVE  Learnt(d, t, p, p)
<1>1. {p} \in SUBSET Lits /\ VarsOf({p}) = {Var(p)} /\ Units({p}) = {{p}}
  BY DEF VarsOf, Units
<1>2. Moves(d, t, {Var(p)}) /\ Kept_(d, t, {{p}})
  <2> DEFINE c == {p}
  <2>1. c \in SUBSET Lits /\ VarsOf(c) = {Var(p)} /\ Units(c) = {{p}} /\ t = propagate(d, c)
    BY <1>1
  <2> HIDE DEF c
  <2>2. Moves(d, propagate(d, c), VarsOf(c)) /\ Kept_(d, propagate(d, c), Units(c))
    BY <2>1, PropagateStep
  <2> QED
    BY <2>1, <2>2
<1>3. /\ t.simp = d.simp /\ t.eliminated = d.eliminated /\ d.fixed \subseteq t.fixed /\ t.learnts = d.learnts
      /\ t.elimclauses = d.elimclauses /\ VarsOf(t.fixed) \subseteq Known(d) \cup {Var(p)}
  BY <1>2 DEF Moves, Held, Narrow
<1>4. LiveVars(t) \subseteq LiveVars(d)
  BY <1>1, PropagateStep DEF LiveVars
<1>5. Known(t) \subseteq Known(d) \cup {Var(p), Var(p)}
  <2>1. LiveVars(d) \subseteq Known(d) /\ VarsOf(UNION d.learnts) \subseteq Known(d)
        /\ Known(t) = LiveVars(t) \cup VarsOf(UNION d.learnts) \cup VarsOf(t.fixed)
    BY <1>3 DEF Known
  <2> QED
    BY <1>3, <1>4, <2>1
<1>6. OpenDb(d) => OpenDb(t)
  BY <1>1, PropagateOpen
<1>7. /\ \A w \in Full(d) : SatisfiesClause(w, {p, p}) => w \in Full(t)
      /\ Says(t) \subseteq Says(d)
  <2>1. {p, p} = {p}
    OBVIOUS
  <2>2. \A w : Satisfies(w, {{p}}) <=> SatisfiesClause(w, {p})
    BY DEF Satisfies
  <2> QED
    BY <1>2, <2>1, <2>2 DEF Kept_
<1> QED
  BY <1>3, <1>4, <1>5, <1>6, <1>7 DEF Learnt

(* A clause of two literals that is learnt. *)
LEMMA LearntPair ==
  ASSUME NEW d, Good(d), NEW p \in Lits, NEW q \in Lits, p # q, p # Neg(q),
         Var(p) \notin AssignedVars(d), Var(q) \notin AssignedVars(d),
         NEW t, t = [d EXCEPT !.learnts = {{p, q}}]
  PROVE  Learnt(d, t, p, q)
<1> DEFINE c == {p, q}
           L == {c}
<1>1. c \in SUBSET Lits /\ L \in SUBSET SUBSET Lits /\ VarsOf(c) = {Var(p), Var(q)} /\ UNION L = c
  BY DEF VarsOf
<1>2. Opened(d.fixed, c)
  <2>1. Neg(p) \notin d.fixed /\ Neg(q) \notin d.fixed
    <3>1. ASSUME NEW l \in d.fixed PROVE Var(l) \in AssignedVars(d)
      BY DEF AssignedVars, VarsOf
    <3> QED
      BY <3>1, LitFacts
  <2>2. {l \in c : Neg(l) \notin d.fixed} = c
    BY <2>1
  <2>3. Cardinality(c) > 1
    <3>1. ~\E l \in c : c = {l}
      OBVIOUS
    <3>2. c # {}
      OBVIOUS
    <3> QED
      BY <1>1, <3>1, <3>2, ManyFacts
  <2> QED
    BY <2>2, <2>3 DEF Opened
<1>3. \A w : Satisfies(w, L) <=> SatisfiesClause(w, c)
  BY DEF Satisfies
<1>4. t = [d EXCEPT !.learnts = L]
  OBVIOUS
<1>c. c = {p, q}
  OBVIOUS
<1>L. \A e \in L : e = c
  OBVIOUS
<1> HIDE DEF c, L
<1>5. Good(t) /\ Same(t, d, {"learnts"}) /\ t.learnts = L /\ Live(t) = Live(d)
  <2> DEFINE e == [d EXCEPT !.learnts = L]
  <2>1. Good(e) /\ Same(e, d, {"learnts"}) /\ e.learnts = L /\ Live(e) = Live(d)
    BY <1>1, LearntsGood
  <2>2. t = e
    BY <1>4
  <2> HIDE DEF e
  <2> QED
    BY <2>1, <2>2
<1>6. /\ t.simp = d.simp /\ t.eliminated = d.eliminated /\ t.fixed = d.fixed /\ t.ca = d.ca
      /\ t.unchecked = d.unchecked /\ t.elimclauses = d.elimclauses
  BY <1>5 DEF Same, DbFields
<1>7. LiveVars(t) = LiveVars(d) /\ LiveClauses(t) = LiveClauses(d)
  BY <1>5, <1>6 DEF LiveVars, LiveClauses
<1>8. Known(t) \subseteq Known(d) \cup {Var(p), Var(q)}
  BY <1>1, <1>5, <1>6, <1>7 DEF Known
<1>9. LearntsOpen(t)
  BY <1>2, <1>5, <1>6, <1>L DEF LearntsOpen
<1>10. OpenDb(d) => OpenDb(t)
  BY <1>5, <1>6, <1>7, <1>9 DEF OpenDb
<1>11. Says(t) = Says(d)
  BY <1>6, <1>7 DEF Says
<1>12. ASSUME NEW w \in Full(d), SatisfiesClause(w, c) PROVE w \in Full(t)
  <2>1. w \in Says(d)
    BY SaysFacts
  <2>2. Satisfies(w, t.learnts)
    BY <1>3, <1>5, <1>12
  <2> QED
    BY <1>11, <2>1, <2>2, SaysFacts
<1> QED
  BY <1>6, <1>7, <1>8, <1>10, <1>11, <1>12, <1>c DEF Learnt

(* What is learnt follows, so nothing is lost. *)
LEMMA LearnStep ==
  ASSUME Right, Sound, Learn
  PROVE  \E p, q \in Lits :
           /\ Learnt(db, db', p, q) /\ Var(p) \in Decidable /\ Var(q) \in Decidable
           /\ \A w \in Full(db) : MakesAll(w, Returned) => SatisfiesClause(w, {p, q})
<1>1. Good(db) /\ db.ok
  BY DEF Right, DbRight, Learn, Searching, Control
<1>2. PICK p \in Lits, q \in Lits :
           /\ Var(p) \in Decidable /\ Var(q) \in Decidable /\ p # Neg(q)
           /\ \A m \in Solutions({}) : m \cap {p, q} # {}
           /\ \/ q = p /\ db' = propagate(db, {p}) /\ db'.ok
              \/ q # p /\ db' = [db EXCEPT !.learnts = {{p, q}}]
  BY LearnFacts
<1>3. Var(p) \notin AssignedVars(db) /\ Var(q) \notin AssignedVars(db)
  BY <1>2 DEF Decidable
<1>4. Learnt(db, db', p, q)
  <2>1. CASE q = p /\ db' = propagate(db, {p}) /\ db'.ok
    BY <1>1, <2>1, LearntFact
  <2>2. CASE q # p /\ db' = [db EXCEPT !.learnts = {{p, q}}]
    BY <1>1, <1>2, <1>3, <2>2, LearntPair
  <2> QED
    BY <1>2, <2>1, <2>2
<1>5. ASSUME NEW w \in Full(db), MakesAll(w, Returned) PROVE SatisfiesClause(w, {p, q})
  <2>1. {} \in SUBSET Lits /\ MakesAll(w, {})
    BY DEF MakesAll
  <2>2. PICK m \in Solutions({}) : MakesAll(w, m)
    BY <1>5, <2>1, ModelSolves
  <2>3. PICK l \in m : l \in {p, q}
    BY <1>2
  <2> QED
    BY <2>2, <2>3 DEF SatisfiesClause, MakesAll
<1> QED
  BY <1>2, <1>4, <1>5

(* Learning what the database implies keeps it. *)
LEMMA LearnSound ==
  ASSUME Right, Sound, Learn
  PROVE  Sound'
<1>1. PICK p \in Lits, q \in Lits :
           /\ Learnt(db, db', p, q) /\ Var(p) \in Decidable /\ Var(q) \in Decidable
           /\ \A w \in Full(db) : MakesAll(w, Returned) => SatisfiesClause(w, {p, q})
  BY LearnStep
<1>2. /\ db'.simp = db.simp /\ db'.eliminated = db.eliminated /\ db.fixed \subseteq db'.fixed
      /\ LiveVars(db') \subseteq LiveVars(db) /\ Known(db') \subseteq Known(db) \cup {Var(p), Var(q)}
      /\ OpenDb(db) => OpenDb(db')
      /\ \A w \in Full(db) : SatisfiesClause(w, {p, q}) => w \in Full(db')
      /\ Says(db') \subseteq Says(db)
  BY <1>1 DEF Learnt
<1>3. Right' /\ db'.ok /\ db.ok
  BY SearchRight, LearnRight DEF Right, Control, Learn, Searching
<1>4. /\ pc = "search" /\ pc' = "answer" /\ UNCHANGED userVars /\ UNCHANGED callVars /\ UNCHANGED resultVars
  BY DEF Learn, Searching
<1>5. /\ UNCHANGED <<options, given, released_vars, free_vars, next_var, script>>
      /\ Assumed' = Assumed /\ AssumedVars' = AssumedVars /\ solving' = solving /\ answer' = answer
  BY <1>4 DEF userVars, callVars, resultVars, Assumed, AssumedVars
<1>6. Asked'
  BY <1>2, <1>4, <1>5 DEF Sound, Asked, Loops, Picked
<1>7. Free' /\ Returned' = Returned /\ FreeLits' = FreeLits
  BY <1>2, <1>5, FreeNext, ReturnedKept DEF Sound
<1>8. Plain' /\ (Settled' <=> Settled)
  <2>1. Settled \/ (released_vars' = {} /\ free_vars' = <<>>)
    BY <1>5 DEF Sound, Plain
  <2> QED
    BY <1>5, <2>1, PlainNext DEF Sound
<1>9. Room'
  BY <1>2, <1>5 DEF Sound, Room
<1>10. Forgotten'
  <2>1. {Var(p), Var(q)} \in SUBSET Vars /\ \A v \in {Var(p), Var(q)} : Usable(v)
    BY <1>1 DEF Decidable
  <2>2. {Var(p), Var(q)} \cap VarsOf(FreeLits) = {}
    BY <2>1, UsableFacts
  <2> QED
    BY <1>2, <1>3, <1>5, <1>7, <2>2 DEF Sound, Forgotten
<1>11. Opens'
  BY <1>2, <1>3, <1>4, <1>8 DEF Sound, Opens
<1>12. Means'
  <2>1. Exact(db', given, Returned)
    BY <1>1, <1>2, <1>3 DEF Sound, Means, Exact
  <2> QED
    BY <1>5, <1>7, <2>1 DEF Means
<1> QED
  BY <1>6, <1>7, <1>8, <1>9, <1>10, <1>11, <1>12 DEF Sound

-----------------------------------------------------------------------------
(* Every step keeps what the database means. *)
LEMMA SoundStep ==
  ASSUME Right, Sound, [Next]_vars
  PROVE  Sound'
<1>1. CASE user
  BY <1>1, newVarSound, ReuseSound, addClauseSound, releaseVarSound, FreezeSound, SubstituteSound,
     InterruptSound, EliminateSound, SolveSound DEF user
<1>2. CASE Interrupt
  BY <1>2, InterruptSound
<1>3. CASE backwardSubsumptionCheck
  BY <1>3, backwardSound
<1>4. CASE eliminate
  BY <1>4, MainSound, PickSound, asymmSound, EliminatedSound, KeptSound, CleanupSound DEF eliminate
<1>5. CASE SolveRest \/ NothingLearned \/ Learn
  BY <1>5, SolveRestSound, NothingLearnedSound, LearnSound
<1>6. CASE Dead \/ SearchStopped \/ ModelFound \/ NoModel
  BY <1>6, AnswerSound
<1>7. CASE UNCHANGED vars
  <2>1. /\ UNCHANGED userVars /\ db' = db /\ pc' = pc /\ UNCHANGED loopVars /\ UNCHANGED callVars
        /\ UNCHANGED resultVars
    BY <1>7 DEF vars
  <2>2. UNCHANGED <<options, given, released_vars, free_vars, next_var, script>>
    BY <2>1 DEF userVars
  <2>3. Asked'
    BY <2>1, SameAsked DEF loopVars, callVars, resultVars
  <2>4. Alike_(db, db') /\ Right'
    BY <1>7, <2>1, SameAlike, RightStep DEF Right, DbRight
  <2> QED
    BY <2>1, <2>2, <2>3, <2>4, SameNumber, AlikeSound
<1> QED
  BY <1>1, <1>2, <1>3, <1>4, <1>5, <1>6, <1>7 DEF Next, solver

(* In every reachable state, what is left of the clauses has the models of
   the clauses given, as far as the variables go that are not eliminated.
   Without use_rcheck; with an interrupt or a subsumption limit only for
   users who release no variable. *)
THEOREM MeaningKept ==
  ASSUME NeverChecks, Settles
  PROVE  Spec => []Sound
<1>1. Init => Sound
  BY InitSound
<1>2. Right /\ Sound /\ [Next]_vars => Sound'
  BY SoundStep
<1> QED
  BY <1>1, <1>2, InvariantCorrect, PTL DEF Spec

-----------------------------------------------------------------------------
(* The models of what is left, with the facts. *)
LEMMA LeftModels ==
  ASSUME NEW w
  PROVE  w \in Models(Clauses(db) \cup {{p} : p \in Facts}) <=> w \in Full(db) /\ MakesAll(w, Returned)
<1>1. Facts = db.fixed \cup Returned
  BY DEF Facts, Returned, FreeLits
<1>2. MakesAll(w, Facts) <=> MakesAll(w, db.fixed) /\ MakesAll(w, Returned)
  BY <1>1 DEF MakesAll
<1>3. Satisfies(w, {{p} : p \in Facts}) <=> MakesAll(w, Facts)
  <2>1. \A p : SatisfiesClause(w, {p}) <=> Makes(w, p)
    BY DEF SatisfiesClause
  <2>2. (\A c \in {{p} : p \in Facts} : SatisfiesClause(w, c)) <=> (\A p \in Facts : SatisfiesClause(w, {p}))
    OBVIOUS
  <2> QED
    BY <2>1, <2>2 DEF Satisfies, MakesAll
<1>4. Satisfies(w, Clauses(db) \cup {{p} : p \in Facts})
        <=> Satisfies(w, Clauses(db)) /\ Satisfies(w, {{p} : p \in Facts})
  BY DEF Satisfies
<1> QED
  BY <1>2, <1>3, <1>4 DEF Models, Full

(* Equal models outside the eliminated variables. *)
LEMMA MeansEquivalent ==
  ASSUME Means
  PROVE  Equivalent
<1> DEFINE cs == Clauses(db) \cup {{p} : p \in Facts}
           E == db.eliminated
           part(m) == [v \in Vars \ E |-> m[v]]
<1>1. CASE db.ok
  <2>1. \A w : w \in Models(cs) <=> w \in Full(db) /\ MakesAll(w, Returned)
    BY LeftModels
  <2>2. /\ \A m \in Models(given) : \E w \in Full(db) : MakesAll(w, Returned) /\ Alike(m, w, E)
        /\ \A w \in Says(db) : MakesAll(w, Returned) => \E m \in Models(given) : Alike(m, w, E)
    BY <1>1 DEF Means, Exact
  <2>3. \A w \in Full(db) : w \in Says(db)
    BY SaysFacts
  <2>4. \A m, w : Alike(m, w, E) => part(m) = part(w)
    BY DEF Alike
  <2>5. Projected(cs) = {part(m) : m \in Models(cs)} /\ Projected(given) = {part(m) : m \in Models(given)}
    BY DEF Projected
  <2> HIDE DEF cs, E, part
  <2>6. {part(m) : m \in Models(cs)} \subseteq {part(m) : m \in Models(given)}
    BY <2>1, <2>2, <2>3, <2>4
  <2>7. {part(m) : m \in Models(given)} \subseteq {part(m) : m \in Models(cs)}
    BY <2>1, <2>2, <2>4
  <2>8. Projected(cs) = Projected(given)
    BY <2>5, <2>6, <2>7
  <2> QED
    BY <1>1, <2>8 DEF Equivalent, cs
<1>2. CASE ~db.ok
  BY <1>2 DEF Means, Exact, Equivalent
<1> QED
  BY <1>1, <1>2

(* Clauses, facts and records that simplification leaves are satisfied by
   an extension of an assignment exactly when the clauses given are: no
   order of subsumption, strengthening, elimination, substitution, learning
   and new clauses loses or adds a model (SimpSolver.cc:139-211, 367-575),
   under the hypotheses of MeaningKept. *)
THEOREM EquivalenceCorrect ==
  ASSUME NeverChecks, Settles
  PROVE  Spec => []Equivalent
<1>1. Sound => Equivalent
  BY MeansEquivalent DEF Sound
<1> QED
  BY <1>1, MeaningKept, PTL

-----------------------------------------------------------------------------
(* Answers. *)

(* What is assumed is true in both, or in neither. *)
LEMMA AlikeAssumed ==
  ASSUME Right, NEW m, NEW w, Alike(m, w, db.eliminated), AssumedVars \cap db.eliminated = {}
  PROVE  MakesAll(m, Assumed) <=> MakesAll(w, Assumed)
<1>1. Assumed \in SUBSET Lits
  BY FactsType
<1>2. \A p \in Assumed : Makes(m, p) <=> Makes(w, p)
  BY <1>1, AlikeMakes DEF AssumedVars
<1> QED
  BY <1>2 DEF MakesAll

(* The answer unsat is right. *)
LEMMA UnsatFollows ==
  ASSUME Right, Sound, solving, pc # "idle", db.ok => Solutions(Assumed) = {}
  PROVE  ~Satisfiable(given, Assumed)
<1>1. ASSUME NEW m \in Models(given), MakesAll(m, Assumed) PROVE FALSE
  <2>1. db.ok
    BY <1>1 DEF Sound, Means, Exact
  <2>2. PICK w \in Full(db) : MakesAll(w, Returned) /\ Alike(m, w, db.eliminated)
    BY <2>1 DEF Sound, Means, Exact
  <2>3. AssumedVars \cap db.eliminated = {}
    BY DEF Sound, Asked
  <2>4. MakesAll(w, Assumed) /\ Assumed \in SUBSET Lits
    BY <1>1, <2>2, <2>3, AlikeAssumed, FactsType
  <2>5. \E s \in Solutions(Assumed) : MakesAll(w, s)
    BY <2>2, <2>4, ModelSolves
  <2> QED
    BY <2>1, <2>5
<1> QED
  BY <1>1 DEF Satisfiable, MakesAll

(* A solution is a model, as far as the variables go that are left. *)
LEMMA SolutionModels ==
  ASSUME Right, Sound, db.ok, solving, pc # "idle", NEW m \in Solutions(Assumed)
  PROVE  \E w \in Says(db), u \in Models(given) :
           MakesAll(w, m) /\ MakesAll(u, Assumed) /\ Alike(u, w, db.eliminated)
<1>1. Assumed \in SUBSET Lits /\ Facts = db.fixed \cup released_vars \cup FreeLits
  BY FactsType
<1>2. Facts \subseteq m /\ Assumed \subseteq m
  BY <1>1, SolutionFacts
<1>3. PICK w \in Says(db) : MakesAll(w, m)
  BY <1>1, SolutionSays DEF Sound
<1>4. MakesAll(w, Returned) /\ MakesAll(w, Assumed)
  BY <1>1, <1>2, <1>3 DEF MakesAll, Returned
<1>5. PICK u \in Models(given) : Alike(u, w, db.eliminated)
  BY <1>4 DEF Sound, Means, Exact
<1>6. AssumedVars \cap db.eliminated = {}
  BY DEF Sound, Asked
<1>7. MakesAll(u, Assumed)
  BY <1>4, <1>5, <1>6, AlikeAssumed
<1> QED
  BY <1>3, <1>5, <1>7

(* The answer sat is right. *)
LEMMA SatFollows ==
  ASSUME Right, Sound, db.ok, solving, pc # "idle", NEW m \in Solutions(Assumed)
  PROVE  Satisfiable(given, Assumed)
BY SolutionModels DEF Satisfiable, MakesAll

-----------------------------------------------------------------------------
(* The promise speaks of the same literals and models. *)
LEMMA PromiseMeans ==
  /\ Promise!Lits = Lits /\ Promise!Vars = Vars /\ \A p : Promise!Var(p) = Var(p)
  /\ \A cs, as : Promise!Satisfiable(cs, as) <=> Satisfiable(cs, as)
  /\ \A cs, p : Promise!Without(cs, p) = Without(cs, p)
  /\ \A cs, v, x : Promise!Renamed(cs, v, x) = Renamed(cs, v, x)
<1>1. Promise!Lits = Lits /\ Promise!Vars = Vars
  BY DEF Promise!Lits, Lits, Promise!Vars, Vars
<1>2. Promise!Assignments = Assignments
  BY DEF Promise!Assignments, Assignments, Promise!Vars, Vars
<1>3. \A m, p : Promise!Makes(m, p) <=> Makes(m, p)
  BY ZenonT(60) DEF Promise!Makes, Makes, Promise!sign, sign, Promise!Var, Var
<1>4. \A m, c : Promise!SatisfiesClause(m, c) <=> SatisfiesClause(m, c)
  BY <1>3 DEF Promise!SatisfiesClause, SatisfiesClause
<1>5. \A m, cs : Promise!Satisfies(m, cs) <=> Satisfies(m, cs)
  BY <1>4 DEF Promise!Satisfies, Satisfies
<1>6. \A cs : Promise!Models(cs) = Models(cs)
  BY <1>2, <1>5 DEF Promise!Models, Models
<1>7. \A cs, as : Promise!Satisfiable(cs, as) <=> Satisfiable(cs, as)
  BY <1>3, <1>6 DEF Promise!Satisfiable, Satisfiable
<1>8. /\ \A p : Promise!Var(p) = Var(p)
      /\ \A p : Promise!sign(p) = sign(p)
  BY ZenonT(60) DEF Promise!Var, Var, Promise!sign, sign
<1>9. \A p : Promise!Neg(p) = Neg(p)
  BY <1>8, ZenonT(60) DEF Promise!Neg, Neg
<1>10. \A cs, p : Promise!Without(cs, p) = Without(cs, p)
  BY <1>9 DEF Promise!Without, Without
<1>11. \A cs, v, x : Promise!Renamed(cs, v, x) = Renamed(cs, v, x)
  BY <1>8, <1>9 DEF Promise!Renamed, Renamed
<1> QED
  BY <1>1, <1>7, <1>8, <1>10, <1>11

PromiseOver == Promise!Next \/ UNCHANGED Promise!vars

(* Steps a user does not see. *)
LEMMA HiddenKeeps ==
  ASSUME UNCHANGED <<given, assumptions, answer, options>>
  PROVE  PromiseOver
<1>1. Assumed' = Assumed
  BY DEF Assumed
<1> QED
  BY <1>1 DEF PromiseOver, Promise!vars

(* A call comes back with a right answer. *)
LEMMA ReplyKeeps ==
  ASSUME Right, Sound, NEW d, NEW ans \in {"sat", "unsat"}, NEW mod, Return(d, ans, mod), pc # "idle", solving,
         ans = "sat" <=> Satisfiable(given, Assumed)
  PROVE  PromiseOver
<1>1. answer' = ans /\ UNCHANGED <<given, assumptions, options>> /\ answer = "none"
  BY DEF Return, userVars, callVars, Sound, Asked
<1>2. Assumed' = Assumed
  BY <1>1 DEF Assumed
<1>3. answer' = IF Promise!Satisfiable(given, Assumed) THEN "sat" ELSE "unsat"
  BY <1>1, PromiseMeans
<1>4. Promise!Reply
  BY <1>1, <1>2, <1>3 DEF Promise!Reply
<1> QED
  BY <1>4 DEF PromiseOver, Promise!Next

(* All the ways a search ends give a right answer. *)
LEMMA AnswerKeeps ==
  ASSUME Right, Sound, Dead \/ SearchStopped \/ ModelFound \/ NoModel
  PROVE  PromiseOver
<1>1. pc # "idle" /\ solving
  BY DEF Dead, SearchStopped, ModelFound, NoModel, Right, Control
<1>2. CASE Dead
  <2>1. ~db.ok /\ Return(db, "unsat", model)
    BY <1>2 DEF Dead, Right, Control
  <2>2. ~Satisfiable(given, Assumed)
    BY <1>1, <2>1, UnsatFollows
  <2> QED
    BY <1>1, <2>1, <2>2, ReplyKeeps
<1>3. CASE SearchStopped
  <2>1. options.interruptible /\ Return(db, "undef", model)
    BY <1>3 DEF SearchStopped, Right, Control
  <2>2. answer' = "undef" /\ UNCHANGED <<given, assumptions, options>> /\ answer = "none"
    BY <1>1, <2>1 DEF Return, userVars, callVars, Sound, Asked
  <2>3. Assumed' = Assumed
    BY <2>2 DEF Assumed
  <2>4. Promise!GiveUp
    BY <2>1, <2>2, <2>3 DEF Promise!GiveUp
  <2> QED
    BY <2>4 DEF PromiseOver, Promise!Next
<1>4. CASE ModelFound
  <2>0. PICK m \in Solutions(Assumed) : \E mod : Return(db, "sat", mod)
    BY <1>4 DEF ModelFound
  <2>1. PICK mod : Return(db, "sat", mod)
    BY <2>0
  <2>2. db.ok
    BY <1>4 DEF ModelFound, Right, Control
  <2>3. Satisfiable(given, Assumed)
    BY <1>1, <2>0, <2>2, SatFollows
  <2> QED
    BY <1>1, <2>1, <2>3, ReplyKeeps
<1>5. CASE NoModel
  <2>1. Solutions(Assumed) = {} /\ \E d : Return(d, "unsat", model)
    BY <1>5 DEF NoModel
  <2>2. PICK d : Return(d, "unsat", model)
    BY <2>1
  <2>3. ~Satisfiable(given, Assumed)
    BY <1>1, <2>1, UnsatFollows
  <2> QED
    BY <1>1, <2>2, <2>3, ReplyKeeps
<1> QED
  BY <1>2, <1>3, <1>4, <1>5

(* Calls that change what is given, or ask. *)
LEMMA CallKeeps ==
  ASSUME Right, Sound, addClause \/ releaseVar \/ ReuseVar \/ Substitute \/ Solve
  PROVE  PromiseOver
<1>1. pc = "idle" /\ answer # "none" /\ options' = options
  BY DEF addClause, releaseVar, ReuseVar, Substitute, Solve, Called, Sound, Asked
<1>2. CASE addClause \/ releaseVar
  <2>1. UNCHANGED <<given, assumptions, answer>>
          \/ \E c \in SUBSET Lits : given' = given \cup {c} /\ UNCHANGED <<assumptions, answer>>
    <3>1. CASE addClause
      <4>1. given' = given \cup {Call.lits} /\ UNCHANGED <<assumptions, answer>>
        BY <3>1 DEF addClause, callVars, resultVars
      <4> QED
        BY <3>1, <4>1, addClauseRight
    <3>2. CASE releaseVar
      <4>1. given' \in {given, given \cup {{Call.lit}}} /\ UNCHANGED <<assumptions, answer>>
        BY <3>2 DEF releaseVar, callVars, resultVars
      <4>2. {Call.lit} \in SUBSET Lits
        BY <3>2, releaseVarRight
      <4> QED
        BY <4>1, <4>2
    <3> QED
      BY <1>2, <3>1, <3>2
  <2>2. CASE UNCHANGED <<given, assumptions, answer>>
    BY <1>1, <2>2, HiddenKeeps
  <2>3. CASE \E c \in SUBSET Lits : given' = given \cup {c} /\ UNCHANGED <<assumptions, answer>>
    <3>1. Assumed' = Assumed
      BY <2>3 DEF Assumed
    <3>2. Promise!AddClause
      BY <1>1, <2>3, <3>1, PromiseMeans DEF Promise!AddClause
    <3> QED
      BY <3>2 DEF PromiseOver, Promise!Next
  <2> QED
    BY <2>1, <2>2, <2>3
<1>3. CASE ReuseVar
  <2>1. given' = Without(given, Last(free_vars)) /\ UNCHANGED <<assumptions, answer>> /\ free_vars # <<>>
    BY <1>3 DEF ReuseVar, callVars, resultVars
  <2>2. Last(free_vars) \in Lits /\ {Last(free_vars)} \in given
    <3>1. free_vars \in Seq(Lits)
      BY DEF Right, UserTypes
    <3>2. Last(free_vars) \in Lits /\ Last(free_vars) = free_vars[Len(free_vars)] /\ Len(free_vars) \in DOMAIN free_vars
      BY <2>1, <3>1, LastFacts
    <3>3. Last(free_vars) \in Returned
      BY <3>2 DEF Returned, FreeLits
    <3> QED
      BY <3>2, <3>3 DEF Sound, Free
  <2>3. Assumed' = Assumed
    BY <2>1 DEF Assumed
  <2>4. Promise!Reuse
    BY <1>1, <2>1, <2>2, <2>3, PromiseMeans DEF Promise!Reuse
  <2> QED
    BY <2>4 DEF PromiseOver, Promise!Next
<1>4. CASE Substitute
  <2>1. UNCHANGED <<assumptions, answer>> /\ (given' = given \/ given' = Renamed(given, Call.var, Call.lit))
    BY <1>4 DEF Substitute, callVars, resultVars
  <2>2. Call.var \in Vars /\ Call.lit \in Lits /\ Var(Call.lit) # Call.var
    BY <1>4, SubstituteRight
  <2>3. Assumed' = Assumed
    BY <2>1 DEF Assumed
  <2>4. CASE given' = given
    BY <1>1, <2>1, <2>4, HiddenKeeps
  <2>5. CASE given' = Renamed(given, Call.var, Call.lit)
    <3>1. Promise!Substitute
      BY <1>1, <2>1, <2>2, <2>3, <2>5, PromiseMeans DEF Promise!Substitute
    <3> QED
      BY <3>1 DEF PromiseOver, Promise!Next
  <2> QED
    BY <2>1, <2>4, <2>5
<1>5. CASE Solve
  <2>1. Right' /\ given' = given /\ answer' = "none"
    BY <1>5, SolveRight DEF Solve
  <2>2. Assumed' \in SUBSET Lits
    <3>1. assumptions' \in Seq(Lits)
      BY <2>1 DEF Right, CallTypes
    <3> QED
      BY <3>1 DEF Assumed
  <2>3. Promise!Ask
    BY <1>1, <2>1, <2>2, PromiseMeans DEF Promise!Ask
  <2> QED
    BY <2>3 DEF PromiseOver, Promise!Next
<1> QED
  BY <1>2, <1>3, <1>4, <1>5

(* All other steps leave what a user sees. *)
LEMMA OtherKeeps ==
  ASSUME \/ newVar \/ setFrozen \/ freezeVar \/ thaw \/ clearInterrupt \/ Eliminate \/ Interrupt
         \/ backwardSubsumptionCheck \/ eliminate \/ SolveRest \/ NothingLearned \/ Learn
  PROVE  PromiseOver
<1>1. CASE newVar \/ setFrozen \/ freezeVar \/ thaw \/ clearInterrupt \/ Eliminate \/ Interrupt
  <2>1. UNCHANGED <<given, assumptions, answer, options>>
    BY <1>1 DEF newVar, setFrozen, freezeVar, thaw, clearInterrupt, Eliminate, Interrupt, userVars,
         callVars, resultVars
  <2> QED
    BY <2>1, HiddenKeeps
<1>2. CASE SolveRest \/ NothingLearned \/ Learn
  <2>1. UNCHANGED <<given, assumptions, answer, options>>
    BY <1>2 DEF SolveRest, NothingLearned, Learn, Searching, userVars, callVars, resultVars
  <2> QED
    BY <2>1, HiddenKeeps
<1>3. ASSUME NEW next, Loop(next) PROVE UNCHANGED <<given, assumptions, answer, options>>
  BY <1>3 DEF Loop, userVars, resultVars
<1>4. CASE backwardSubsumptionCheck \/ (eliminate /\ ~Cleanup)
  <2>1. \E next : Loop(next)
    <3>1. CASE backwardSubsumptionCheck
      BY <3>1 DEF backwardSubsumptionCheck, BackwardInterrupted, CheckClause, CheckFact, BackwardDone
    <3>2. CASE eliminate /\ ~Cleanup
      <4>1. (Gather \/ Finished \/ Abandoned \/ Checked \/ PickNone \/ PickInterrupted) => \E next : Loop(next)
        BY DEF Gather, Finished, Abandoned, Checked, PickNone, PickInterrupted
      <4>2. (PickSkip \/ Pick \/ asymm \/ asymmDone \/ Eliminated \/ Kept \/ Collect) => \E next : Loop(next)
        BY DEF PickSkip, Pick, asymm, asymmDone, Eliminated, Kept, Collect
      <4> QED
        BY <3>2, <4>1, <4>2 DEF eliminate
    <3> QED
      BY <1>4, <3>1, <3>2
  <2> QED
    BY <1>3, <2>1, HiddenKeeps
<1>5. CASE Cleanup
  <2>1. UNCHANGED <<given, assumptions, answer, options>>
    BY <1>5 DEF Cleanup, callVars, resultVars
  <2> QED
    BY <2>1, HiddenKeeps
<1> QED
  BY <1>1, <1>2, <1>4, <1>5

(* Every step of the solver is a step of IncrementalSat, or leaves what a
   user sees. *)
LEMMA PromiseStep ==
  ASSUME Right, Sound, [Next]_vars
  PROVE  [Promise!Next]_(Promise!vars)
<1>1. CASE UNCHANGED vars
  <2>1. UNCHANGED <<given, assumptions, answer, options>>
    BY <1>1 DEF vars, userVars, callVars, resultVars
  <2> QED
    BY <2>1, HiddenKeeps DEF PromiseOver
<1>2. CASE Next
  <2>1. PromiseOver
    BY <1>2, AnswerKeeps, CallKeeps, OtherKeeps DEF Next, user, solver
  <2> QED
    BY <2>1 DEF PromiseOver
<1> QED
  BY <1>1, <1>2

(* The simplifying solver implements IncrementalSat, safety part: each call
   of solve answers whether the clauses given so far have a model in which
   its assumptions are true, whatever was eliminated before
   (SimpSolver.cc:94-136), under the hypotheses of MeaningKept. *)
THEOREM PromiseKept ==
  ASSUME NeverChecks, Settles
  PROVE  Spec => Promise!Init /\ [][Promise!Next]_(Promise!vars)
<1>1. ASSUME Init PROVE Promise!Init
  <2>1. options.interruptible \in BOOLEAN
    BY <1>1, InitRight DEF Right, UserTypes, Options
  <2>2. given = {} /\ assumptions = <<>> /\ answer = "idle"
    BY <1>1 DEF Init
  <2>3. Assumed = {}
    BY <2>2 DEF Assumed
  <2> QED
    BY <2>1, <2>2, <2>3 DEF Promise!Init
<1>2. Init => Promise!Init
  BY <1>1
<1>3. Right /\ Sound /\ [Next]_vars => [Promise!Next]_(Promise!vars)
  BY PromiseStep
<1> QED
  BY <1>2, <1>3, InvariantCorrect, MeaningKept, PTL DEF Spec

-----------------------------------------------------------------------------
(* What is left to compare. *)

(* Clauses mention no value that was checked. *)
Bare(d) == VarsOf(d.fixed \ d.unchecked) \cap LiveVars(d) = {}
Touching(d, cr) == VarsOf(d.ca[cr].lits) \cap d.touched # {}
(* A clause that could simplify another one is in Q, or has a variable that
   was touched. *)
Pend(d, Q) ==
  \A cr, o \in Live(d) :
    \/ cr = o \/ cr \in Q \/ Touching(d, cr)
    \/ Silent(d.ca[cr].lits, d.ca[o].lits)
Swept(d, Q) == Bare(d) /\ Pend(d, Q)

(* A larger set, or one without clauses that are gone. *)
LEMMA PendWider ==
  ASSUME NEW d, NEW Q, NEW R, Pend(d, Q), Q \cap Live(d) \subseteq R
  PROVE  Pend(d, R)
BY DEF Pend

(* Lists, and who is frozen, do not matter. *)
LEMMA SweptSame ==
  ASSUME NEW d, NEW t, t.ca = d.ca, t.touched = d.touched, t.fixed = d.fixed, t.unchecked = d.unchecked,
         NEW Q, Swept(d, Q)
  PROVE  Swept(t, Q)
<1>1. Live(t) = Live(d) /\ LiveVars(t) = LiveVars(d)
  BY DEF Live, LiveVars
<1>2. Bare(t)
  BY <1>1 DEF Swept, Bare
<1>3. Pend(t, Q)
  BY <1>1 DEF Swept, Pend, Touching
<1> QED
  BY <1>2, <1>3 DEF Swept

(* The literals of a live clause. *)
LEMMA LiveLits ==
  ASSUME NEW d, Good(d), NEW cr \in Live(d)
  PROVE  d.ca[cr].lits \in SUBSET Lits /\ VarsOf(d.ca[cr].lits) # {}
<1>1. Memory(d) /\ cr \in DOMAIN d.ca /\ Proper(d)
  BY DEF Good, DbType, Live
<1>2. d.ca[cr].lits \in SUBSET Lits /\ Cardinality(d.ca[cr].lits) > 1
  BY <1>1, EntryFacts DEF Proper
<1>3. d.ca[cr].lits # {}
  BY <1>2, ManyFacts
<1> QED
  BY <1>2, <1>3 DEF VarsOf

(* A clause that could simplify one whose variables are touched is touched. *)
LEMMA SpeakingTouches ==
  ASSUME NEW d, Good(d), NEW cr \in Live(d), NEW o \in Live(d),
         VarsOf(d.ca[o].lits) \subseteq d.touched
  PROVE  Touching(d, cr) \/ Silent(d.ca[cr].lits, d.ca[o].lits)
<1> SUFFICES ASSUME ~Silent(d.ca[cr].lits, d.ca[o].lits) PROVE Touching(d, cr)
  OBVIOUS
<1> DEFINE c == d.ca[cr].lits
           e == d.ca[o].lits
<1>1. c \in SUBSET Lits /\ VarsOf(c) # {} /\ e \in SUBSET Lits
  BY LiveLits
<1> HIDE DEF c, e
<1>2. VarsOf(c) \subseteq VarsOf(e)
  BY <1>1, SpeakingVars DEF c, e
<1> QED
  BY <1>1, <1>2 DEF Touching, c, e

(* What says nothing of a clause says nothing of a part of it. *)
LEMMA SilentPart ==
  ASSUME NEW c, NEW e, NEW f, Silent(c, e), f \subseteq e
  PROVE  Silent(c, f)
BY DEF Silent, Flips

(* Clauses that get shorter or come in are queued. *)
LEMMA PendQueues ==
  ASSUME NEW d, NEW t, Good(t), Queues(d, t), NEW X, Pend(d, Waiting(d) \cup X)
  PROVE  Pend(t, Waiting(t) \cup X)
<1> SUFFICES ASSUME NEW cr \in Live(t), NEW o \in Live(t), cr # o, cr \notin Waiting(t), cr \notin X,
                    ~Touching(t, cr)
             PROVE  Silent(t.ca[cr].lits, t.ca[o].lits)
  BY DEF Pend
<1>1. cr \in Live(d) /\ t.ca[cr].lits = d.ca[cr].lits
  BY DEF Queues
<1>2. CASE VarsOf(t.ca[o].lits) \subseteq t.touched
  BY <1>2, SpeakingTouches
<1>3. CASE o \in Live(d) /\ t.ca[o].lits \subseteq d.ca[o].lits
  <2>1. cr \notin Waiting(d) \cup X /\ ~Touching(d, cr)
    BY <1>1 DEF Queues, Touching
  <2>2. Silent(d.ca[cr].lits, d.ca[o].lits)
    BY <1>1, <1>3, <2>1 DEF Pend
  <2> QED
    BY <1>1, <1>3, <2>2, SilentPart
<1> QED
  BY <1>2, <1>3 DEF Queues

(* Clauses that come in are touched. *)
LEMMA PendGrows ==
  ASSUME NEW d, NEW t, Good(t), Grows(d, t), NEW Q, Pend(d, Q)
  PROVE  Pend(t, Q)
<1> SUFFICES ASSUME NEW cr \in Live(t), NEW o \in Live(t), cr # o, cr \notin Q, ~Touching(t, cr)
             PROVE  Silent(t.ca[cr].lits, t.ca[o].lits)
  BY DEF Pend
<1>1. CASE VarsOf(t.ca[cr].lits) \subseteq t.touched
  <2>1. VarsOf(t.ca[cr].lits) # {}
    BY LiveLits
  <2> QED
    BY <1>1, <2>1 DEF Touching
<1>2. CASE VarsOf(t.ca[o].lits) \subseteq t.touched
  BY <1>2, SpeakingTouches
<1>3. CASE /\ cr \in Live(d) /\ t.ca[cr].lits = d.ca[cr].lits
           /\ o \in Live(d) /\ t.ca[o].lits = d.ca[o].lits
  <2>1. ~Touching(d, cr)
    BY <1>3 DEF Grows, Touching
  <2> QED
    BY <1>3, <2>1 DEF Pend
<1> QED
  BY <1>1, <1>2, <1>3 DEF Grows

(* Variables that come in have no value. *)
LEMMA BareMoves ==
  ASSUME NEW d, NEW t, NEW U, LiveVars(t) \subseteq LiveVars(d) \cup (U \ AssignedVars(d)),
         t.fixed \ t.unchecked = d.fixed \ d.unchecked, Bare(d)
  PROVE  Bare(t)
<1>1. VarsOf(d.fixed \ d.unchecked) \subseteq AssignedVars(d)
  BY DEF VarsOf, AssignedVars
<1> QED
  BY <1>1 DEF Bare

(* What the loops still have to compare, and that they end when nothing is
   left. *)
Uncompared == IF pc \in {"backward", "asymm"} THEN Waiting(db) ELSE {}
Thorough ==
  Settled /\ db.simp /\ db.ok =>
    /\ Swept(db, Uncompared)
    /\ pc = "cleanup" => db.touched = {} /\ db.unchecked = {}

(* Nothing is stored yet, so nothing is left to compare. *)
LEMMA InitThorough ==
  ASSUME Init
  PROVE  Thorough
<1>1. db.ca = <<>> /\ db.fixed = {} /\ pc = "idle"
  BY DEF Init
<1>2. Live(db) = {} /\ Waiting(db) = Waiting(db)
  BY <1>1 DEF Live
<1>3. Bare(db)
  BY <1>1 DEF Bare, VarsOf
<1>4. \A Q : Pend(db, Q)
  BY <1>2 DEF Pend
<1> QED
  BY <1>1, <1>3, <1>4 DEF Thorough, Swept

(* Neither the clauses nor what is to be done with them change. *)
Standing(d, t) ==
  /\ t.ca = d.ca /\ t.touched = d.touched /\ t.fixed = d.fixed /\ t.unchecked = d.unchecked
  /\ t.simp = d.simp /\ (t.ok => d.ok)

(* Lists, queues and the heap are none of it. *)
LEMMA SameStanding ==
  ASSUME NEW d, NEW t, Same(t, d, {"frozen", "elim_heap", "occurs", "dirty", "n_occ", "queue", "learnts"})
  PROVE  Standing(d, t)
BY DEF Same, DbFields, Standing

(* Neither is who is frozen. *)
LEMMA AlikeStanding ==
  ASSUME NEW d, NEW t, Alike_(d, t)
  PROVE  Standing(d, t)
BY DEF Alike_, Standing, Quiet

(* Two such steps are one. *)
LEMMA StandingOn ==
  ASSUME NEW d, NEW e, NEW t, Standing(d, e), Standing(e, t)
  PROVE  Standing(d, t)
BY DEF Standing

(* After a step that does not end the loops. *)
LEMMA ThoroughNext ==
  ASSUME options' = options, pc' # "cleanup", NEW Q,
         Settled /\ db'.simp /\ db'.ok => Swept(db', Q),
         Q \cap Live(db') \subseteq Uncompared'
  PROVE  Thorough'
<1>1. Settled' <=> Settled
  BY DEF Settled
<1>2. ASSUME Settled, db'.simp, db'.ok PROVE Bare(db') /\ Pend(db', Uncompared')
  <2>1. Bare(db') /\ Pend(db', Q)
    BY <1>2 DEF Swept
  <2> QED
    BY <2>1, PendWider
<1> QED
  BY <1>1, <1>2 DEF Thorough, Swept

(* A step that leaves the clauses as they are leaves as much to compare. *)
LEMMA StandingThorough ==
  ASSUME Thorough, Standing(db, db'), options' = options, pc' # "cleanup",
         Uncompared \cap Live(db') \subseteq Uncompared'
  PROVE  Thorough'
<1>1. ASSUME Settled, db'.simp, db'.ok PROVE Swept(db', Uncompared)
  <2>1. Swept(db, Uncompared)
    BY <1>1 DEF Thorough, Standing
  <2> QED
    BY <2>1, SweptSame DEF Standing
<1> QED
  BY <1>1, ThoroughNext

(* Calls that leave the clauses as they are. *)
LEMMA CalledThorough ==
  ASSUME Right, Thorough,
         newVar \/ ReuseVar \/ setFrozen \/ freezeVar \/ thaw \/ Solve \/ clearInterrupt
  PROVE  Thorough'
<1>1. pc = "idle" /\ pc' # "cleanup" /\ options' = options
  BY DEF newVar, ReuseVar, setFrozen, freezeVar, thaw, Solve, clearInterrupt, Called
<1>2. Standing(db, db')
  <2>1. CASE clearInterrupt
    BY <2>1 DEF clearInterrupt, Standing
  <2>2. CASE newVar \/ ReuseVar \/ setFrozen \/ freezeVar \/ thaw \/ Solve
    <3>1. Alike_(db, db')
      BY <2>2, newVarRight, ReuseRight, FreezeRight, SolveRight
    <3> QED
      BY <3>1, AlikeStanding
  <2> QED
    BY <2>1, <2>2
<1>3. Uncompared = {}
  BY <1>1 DEF Uncompared
<1> QED
  BY <1>1, <1>2, <1>3, StandingThorough

(* Who may be interrupted is promised nothing. *)
LEMMA InterruptThorough ==
  ASSUME Interrupt
  PROVE  Thorough'
<1>1. options.interruptible /\ options' = options
  BY DEF Interrupt, userVars
<1> QED
  BY <1>1 DEF Thorough, Settled

(* Simplification below is none of what this is about. *)
LEMMA SimplifyThorough ==
  ASSUME Right, Thorough, Eliminate \/ SolveRest
  PROVE  Thorough'
<1>1. options' = options /\ pc \in {"idle", "simplify"} /\ pc' # "cleanup"
  BY DEF Eliminate, SolveRest, Called
<1>2. Uncompared = {}
  BY <1>1 DEF Uncompared
<1>3. db' = db \/ ~db'.simp
  <2>1. CASE db' = db
    BY <2>1
  <2>2. CASE Simplify
    <3>1. db'.simp = db.simp /\ (db' = db \/ ~db.simp)
      BY <2>2, SimplifyFacts
    <3> QED
      BY <3>1
  <2> QED
    BY <2>1, <2>2 DEF Eliminate, SolveRest
<1>4. CASE db' = db
  <2>1. Standing(db, db')
    BY <1>4 DEF Standing
  <2> QED
    BY <1>1, <1>2, <2>1, StandingThorough
<1>5. CASE ~db'.simp
  BY <1>5 DEF Thorough
<1> QED
  BY <1>3, <1>4, <1>5

(* The search comes back, or has learnt something. *)
LEMMA AnswerThorough ==
  ASSUME Right, Thorough, Dead \/ SearchStopped \/ ModelFound \/ NoModel
  PROVE  Thorough'
<1>1. options' = options /\ pc \in {"dead", "search", "answer"} /\ pc' # "cleanup"
  BY DEF Dead, SearchStopped, ModelFound, NoModel, Return, userVars
<1>2. Uncompared = {}
  BY <1>1 DEF Uncompared
<1>3. Good(db) /\ extra_frozen \in SUBSET Vars
  BY DEF Right, DbRight, CallTypes
<1>4. CASE db' = Unfrozen(db, extra_frozen)
  <2>1. Standing(db, db')
    BY <1>3, <1>4, UnfrozenAlike, AlikeStanding
  <2> QED
    BY <1>1, <1>2, <2>1, StandingThorough
<1>5. CASE db' = Unfrozen([db EXCEPT !.ok = FALSE], extra_frozen)
  <2> DEFINE e == [db EXCEPT !.ok = FALSE]
  <2>1. Good(e) /\ e.ok = FALSE
    BY <1>3, DeadStep
  <2>2. db' = Unfrozen(e, extra_frozen)
    BY <1>5
  <2> HIDE DEF e
  <2>3. db'.ok = e.ok
    BY <1>3, <2>1, <2>2, UnfrozenAlike DEF Alike_
  <2> QED
    BY <2>1, <2>3 DEF Thorough
<1> QED
  BY <1>4, <1>5 DEF Dead, SearchStopped, ModelFound, NoModel, Return

(* A search changes no clause; a fact it learns is unchecked. *)
LEMMA SearchThorough ==
  ASSUME Right, Thorough, NothingLearned \/ Learn
  PROVE  Thorough'
<1>1. options' = options /\ pc = "search" /\ pc' # "cleanup"
  BY DEF NothingLearned, Learn, Searching, userVars
<1>2. Uncompared = {}
  BY <1>1 DEF Uncompared
<1>3. CASE NothingLearned
  <2>1. Standing(db, db')
    BY <1>3 DEF NothingLearned, Standing
  <2> QED
    BY <1>1, <1>2, <2>1, StandingThorough
<1>4. CASE Learn
  <2> DEFINE d == db
             t == db'
  <2>0. Good(d)
    BY DEF Right, DbRight
  <2>1. PICK p \in Lits, q \in Lits :
           \/ q = p /\ t = propagate(d, {p}) /\ t.ok
           \/ q # p /\ t = [d EXCEPT !.learnts = {{p, q}}]
    BY <1>4, LearnFacts
  <2> HIDE DEF d, t
  <2>2. CASE t = propagate(d, {p})
    <3> DEFINE new == {p}
    <3>1. new \in SUBSET Lits /\ t = propagate(d, new)
      BY <2>2
    <3> HIDE DEF new
    <3>2. /\ Moves(d, t, VarsOf(new)) /\ Live(t) = Live(d) /\ t.ca = d.ca
          /\ Same(t, d, {"ok", "fixed", "unchecked"})
      BY <2>0, <3>1, PropagateStep, PropagateFacts
    <3>3. /\ t.touched = d.touched /\ t.simp = d.simp /\ t.fixed \ t.unchecked = d.fixed \ d.unchecked
          /\ (t.ok => d.ok) /\ LiveVars(t) = LiveVars(d)
      BY <3>2 DEF Same, DbFields, Moves, Held, LiveVars
    <3>4. ASSUME Settled, t.simp, t.ok PROVE Swept(t, Uncompared)
      <4>1. Bare(d) /\ Pend(d, Uncompared)
        BY <3>3, <3>4 DEF Thorough, Swept, d
      <4>2. Bare(t)
        BY <3>3, <4>1 DEF Bare
      <4>3. Pend(t, Uncompared)
        BY <3>2, <3>3, <4>1 DEF Pend, Touching
      <4> QED
        BY <4>2, <4>3 DEF Swept
    <3> QED
      BY <1>1, <1>2, <3>4, ThoroughNext DEF t
  <2>3. CASE t = [d EXCEPT !.learnts = {{p, q}}]
    <3>1. Rec(d)
      BY <2>0 DEF Good, DbType
    <3> DEFINE L == {{p, q}}
    <3>2. t = [d EXCEPT !.learnts = L]
      BY <2>3
    <3> HIDE DEF L
    <3>3. Same(t, d, {"learnts"})
      BY <3>1, <3>2, FieldFacts
    <3>4. Same(t, d, {"frozen", "elim_heap", "occurs", "dirty", "n_occ", "queue", "learnts"})
      BY <3>3 DEF Same
    <3>5. Standing(d, t)
      BY <3>4, SameStanding
    <3> QED
      BY <1>1, <1>2, <3>5, StandingThorough DEF d, t
  <2> QED
    BY <2>1, <2>2, <2>3
<1> QED
  BY <1>3, <1>4

-----------------------------------------------------------------------------
(* Lists, the heap and who is frozen do not matter in the loops. *)

(* Cleaning a list, taking from the heap, freezing. *)
LEMMA ListsStanding ==
  ASSUME Good(db), NEW v \in Vars, NEW x, NEW y
  PROVE  /\ Standing(db, lookup(db, v))
         /\ Standing(db, [db EXCEPT !.elim_heap = x])
         /\ Standing(db, [db EXCEPT !.frozen = y])
         /\ Standing(db, [[db EXCEPT !.elim_heap = x] EXCEPT !.frozen = y])
<1> DEFINE p == [db EXCEPT !.elim_heap = x]
           u == [db EXCEPT !.frozen = y]
           w == [p EXCEPT !.frozen = y]
           N == {"frozen", "elim_heap", "occurs", "dirty", "n_occ", "queue", "learnts"}
<1>1. Rec(db)
  BY DEF Good, DbType
<1>2. Same(p, db, {"elim_heap"}) /\ Same(u, db, {"frozen"})
  BY <1>1, FieldFacts
<1>3. Same(lookup(db, v), db, {"occurs", "dirty"})
  BY LookupFacts
<1> HIDE DEF p
<1>4. Rec(p)
  BY <1>2 DEF Same
<1>5. Same(w, p, {"frozen"})
  BY <1>4, FieldFacts
<1> HIDE DEF u, w
<1>6. Same(p, db, N) /\ Same(u, db, N) /\ Same(lookup(db, v), db, N) /\ Same(w, p, N)
  BY <1>2, <1>3, <1>5 DEF Same
<1> HIDE DEF N
<1>7. Standing(db, p) /\ Standing(db, u) /\ Standing(db, lookup(db, v)) /\ Standing(p, w)
  BY <1>6, SameStanding DEF N
<1> QED
  BY <1>7, StandingOn DEF p, u, w

(* A list is cleaned when it is looked up. *)
LEMMA LookupStanding ==
  ASSUME NEW d, Good(d), NEW v \in Vars
  PROVE  Standing(d, lookup(d, v))
<1>1. Same(lookup(d, v), d, {"occurs", "dirty"})
  BY LookupFacts
<1>2. Same(lookup(d, v), d, {"frozen", "elim_heap", "occurs", "dirty", "n_occ", "queue", "learnts"})
  BY <1>1 DEF Same
<1> QED
  BY <1>2, SameStanding

(* A variable is picked (SimpSolver.cc:633-651). *)
LEMMA PickStanding ==
  ASSUME Right, Pick
  PROVE  Standing(db, db')
<1>0. Good(db)
  BY DEF Right, DbRight
<1>1. PICK v \in Vars :
        LET tried == options.use_asymm /\ Lists(db, v) # {} IN
          db' = IF ~options.use_asymm THEN Popped(v)
                ELSE lookup([Popped(v) EXCEPT !.frozen = IF tried THEN @ \cup {v} ELSE @], v)
  BY DEF Pick
<1> DEFINE d == db
           b == options.use_asymm /\ Lists(db, v) # {}
           x == d.elim_heap \ {v}
           y == IF b THEN d.frozen \cup {v} ELSE d.frozen
           t == db'
           p == [d EXCEPT !.elim_heap = x]
           w == [p EXCEPT !.frozen = y]
<1>3. Popped(v) = p /\ x \in SUBSET Vars /\ y \in SUBSET Vars
  BY <1>0 DEF Good, DbType, Values, Popped
<1>4. p.frozen = d.frozen
  <2> HIDE DEF x, d
  <2>1. Rec(d)
    BY <1>0 DEF Good, DbType, d
  <2> QED
    BY <2>1 DEF Rec, DbFields
<1>5. t = IF ~options.use_asymm THEN p ELSE lookup(w, v)
  <2> HIDE DEF x, p, b
  <2>1. [p EXCEPT !.frozen = IF b THEN @ \cup {v} ELSE @] = w
    BY <1>4
  <2>2. t = IF ~options.use_asymm THEN Popped(v) ELSE lookup([Popped(v) EXCEPT !.frozen = IF b THEN @ \cup {v} ELSE @], v)
    BY <1>1 DEF b
  <2> QED
    BY <1>3, <2>1, <2>2
<1> HIDE DEF x, y, t, b
<1>6. Standing(d, p) /\ Standing(d, w)
  BY <1>0, ListsStanding
<1>7. Good(w)
  <2>1. Good(d)
    BY <1>0
  <2> HIDE DEF d
  <2>2. Quiet(d, w)
    BY <1>3, <2>1, HeapQuiet
  <2> QED
    BY <2>2 DEF Quiet
<1> HIDE DEF p, w
<1>8. Standing(w, lookup(w, v))
  BY <1>7, LookupStanding
<1> QED
  BY <1>5, <1>6, <1>8, StandingOn DEF d, t

(* A variable is kept, as frozen as before. *)
LEMMA KeptStanding ==
  ASSUME Right, Kept
  PROVE  Standing(db, db')
<1>1. elim \in Vars /\ (db' = Restored \/ db' = lookup(Restored, elim)) /\ Good(db)
  BY DEF Right, Control, Kept, Picked, DbRight
<1> DEFINE r == Restored
           y == IF was_frozen THEN db.frozen ELSE db.frozen \ {elim}
<1>2. r = [db EXCEPT !.frozen = y]
  BY DEF Restored
<1>3. Standing(db, r)
  BY <1>1, <1>2, ListsStanding
<1>4. Good(r)
  BY RestoredQuiet DEF Quiet
<1> HIDE DEF r, y
<1>5. Standing(r, lookup(r, elim))
  BY <1>1, <1>4, LookupStanding
<1> QED
  BY <1>1, <1>3, <1>5, StandingOn DEF r

(* Steps of the loops that leave all clauses. *)
LEMMA LoopThorough ==
  ASSUME Right, Thorough,
         \/ Checked \/ PickNone \/ PickInterrupted \/ PickSkip \/ Pick \/ asymmDone \/ BackwardDone \/ Kept
  PROVE  Thorough'
<1>0. Good(db) /\ (pc = "backward" => back \in {"checked", "elim", "collect"})
  BY DEF Right, DbRight, Control, LoopTypes
<1>1. options' = options
  BY DEF Checked, PickNone, PickInterrupted, PickSkip, Pick, asymmDone, BackwardDone, Kept, Loop, userVars
<1>2. pc' # "cleanup"
  BY <1>0 DEF Checked, PickNone, PickInterrupted, PickSkip, Pick, asymmDone, BackwardDone, Kept, Loop
<1>3. CASE Checked \/ PickNone \/ asymmDone \/ BackwardDone
  <2>1. db' = db
    BY <1>3 DEF Checked, PickNone, asymmDone, BackwardDone
  <2>2. Standing(db, db')
    BY <2>1 DEF Standing
  <2>3. Uncompared \subseteq Uncompared'
    <3>1. CASE Checked \/ PickNone
      BY <3>1 DEF Checked, PickNone, Uncompared
    <3>2. CASE asymmDone
      BY <2>1, <3>2 DEF asymmDone, Loop, Uncompared, Waiting
    <3>3. CASE BackwardDone
      BY <3>3 DEF BackwardDone, ToCheck, Uncompared, Waiting
    <3> QED
      BY <1>3, <3>1, <3>2, <3>3
  <2> QED
    BY <1>1, <1>2, <2>2, <2>3, StandingThorough
<1>4. CASE PickInterrupted \/ PickSkip \/ Pick \/ Kept
  <2>1. Uncompared = {}
    BY <1>4 DEF PickInterrupted, PickSkip, Pick, Kept, Uncompared
  <2>2. Standing(db, db')
    <3>1. CASE Pick
      BY <3>1, PickStanding
    <3>2. CASE Kept
      BY <3>2, KeptStanding
    <3>3. CASE PickInterrupted \/ PickSkip
      <4>1. PICK v \in Vars : db' = Popped(v)
        BY <3>3 DEF PickInterrupted, PickSkip
      <4> DEFINE x == db.elim_heap \ {v}
      <4>2. db' = [db EXCEPT !.elim_heap = x]
        BY <4>1 DEF Popped
      <4> HIDE DEF x
      <4> QED
        BY <1>0, <4>1, <4>2, ListsStanding
    <3> QED
      BY <1>4, <3>1, <3>2, <3>3
  <2> QED
    BY <1>1, <1>2, <2>1, <2>2, StandingThorough
<1> QED
  BY <1>3, <1>4

(* The loops end when nothing is touched and nothing unchecked. *)
LEMMA FinishedThorough ==
  ASSUME Thorough, Finished
  PROVE  Thorough'
<1>1. /\ pc = "main" /\ db.touched = {} /\ db.unchecked = {} /\ db' = db /\ options' = options /\ pc' = "cleanup"
  BY DEF Finished, Remaining, Loop, userVars
<1>2. Uncompared = {} /\ Uncompared' = {}
  BY <1>1 DEF Uncompared
<1> QED
  BY <1>1, <1>2 DEF Thorough, Settled, Swept, Bare, Pend, Touching, Live, LiveVars

(* Only an interrupt leaves something undone. *)
LEMMA InterruptedThorough ==
  ASSUME Right, BackwardInterrupted \/ Abandoned
  PROVE  Thorough'
<1>1. options.interruptible /\ options' = options
  BY DEF Right, Control, BackwardInterrupted, Abandoned, Loop, userVars
<1> QED
  BY <1>1 DEF Thorough, Settled

(* The clauses of touched variables are queued. *)
LEMMA GatherThorough ==
  ASSUME Right, Thorough, Gather
  PROVE  Thorough'
<1> DEFINE d == db
           t == db'
<1>1. /\ pc = "main" /\ t = gatherTouchedClauses(d) /\ options' = options /\ pc' = "backward" /\ d.simp /\ d.ok
  BY DEF Gather, Loop, userVars, Right, Control, Loops
<1>2. Good(d) /\ Clean(d)
  BY <1>1 DEF Right, DbRight
<1>3. Uncompared = {} /\ Uncompared' = Waiting(t)
  BY <1>1 DEF Uncompared, Waiting
<1> HIDE DEF d, t
<1>4. /\ Good(t) /\ Same(t, d, {"occurs", "dirty", "queue", "touched"}) /\ t.touched = {}
      /\ Waiting(d) \subseteq Waiting(t) /\ \A v \in d.touched : Lists(d, v) \subseteq Waiting(t)
  BY <1>1, <1>2, GatherStep
<1>5. t.ca = d.ca /\ t.fixed = d.fixed /\ t.unchecked = d.unchecked /\ t.ok = d.ok /\ t.simp = d.simp
  BY <1>4 DEF Same, DbFields
<1>6. Live(t) = Live(d) /\ LiveVars(t) = LiveVars(d)
  BY <1>5 DEF Live, LiveVars
<1>7. ASSUME NEW cr \in Live(d), Touching(d, cr) PROVE cr \in Waiting(t)
  <2>1. PICK v \in VarsOf(d.ca[cr].lits) : v \in d.touched
    BY <1>7 DEF Touching
  <2>2. v \in Vars /\ v \notin d.eliminated
    BY <1>2, <1>7, <2>1 DEF Good, DbType, Values, Clean
  <2>3. Listed(d)
    BY <1>1, <1>2 DEF Good, d
  <2>4. cr \in d.occurs[v]
    BY <1>7, <2>1, <2>2, <2>3 DEF Listed, Holding
  <2>5. cr \in Lists(d, v)
    BY <1>7, <2>4 DEF Lists, Live
  <2> QED
    BY <1>4, <2>1, <2>5
<1>8. ASSUME Settled, t.simp, t.ok PROVE Swept(t, Waiting(t))
  <2>1. Bare(d) /\ Pend(d, {})
    BY <1>3, <1>5, <1>8 DEF Thorough, Swept, d
  <2>2. Bare(t)
    BY <1>5, <1>6, <2>1 DEF Bare
  <2>3. Pend(t, Waiting(t))
    BY <1>5, <1>6, <1>7, <2>1 DEF Pend
  <2> QED
    BY <2>2, <2>3 DEF Swept
<1> QED
  BY <1>1, <1>3, <1>8, ThoroughNext DEF t

-----------------------------------------------------------------------------
(* Clauses are shortened, removed, or come in and are queued. *)
LEMMA SweptQueues ==
  ASSUME NEW d, NEW t, Good(t), Queues(d, t), t.fixed \ t.unchecked = d.fixed \ d.unchecked,
         LiveVars(t) \subseteq LiveVars(d), NEW X, Swept(d, Waiting(d) \cup X)
  PROVE  Swept(t, Waiting(t) \cup X)
<1>1. Bare(d) /\ Pend(d, Waiting(d) \cup X)
  BY DEF Swept
<1>2. Bare(t)
  BY <1>1 DEF Bare
<1>3. Pend(t, Waiting(t) \cup X)
  BY <1>1, PendQueues
<1> QED
  BY <1>2, <1>3 DEF Swept

(* The steps of strengthenClause and of the comparisons. *)
LEMMA SweptMoves ==
  ASSUME NEW d, d.simp, NEW t, Moves(d, t, {}), NEW X, Swept(d, Waiting(d) \cup X)
  PROVE  Swept(t, Waiting(t) \cup X)
<1>1. /\ Good(t) /\ Queues(d, t) /\ t.fixed \ t.unchecked = d.fixed \ d.unchecked
      /\ LiveVars(t) \subseteq LiveVars(d)
  BY DEF Moves, Held, Narrow
<1> QED
  BY <1>1, SweptQueues

(* Dead databases promise nothing, others go on with what waits. *)
LEMMA AfterThorough ==
  ASSUME options' = options, pc' = After(db'),
         Settled /\ db'.simp /\ db'.ok => Swept(db', Waiting(db'))
  PROVE  Thorough'
<1>1. CASE ~db'.ok
  BY <1>1 DEF Thorough
<1>2. CASE db'.ok
  <2>1. pc' = "backward" /\ pc' # "cleanup"
    BY <1>2 DEF After
  <2>2. Uncompared' = Waiting(db')
    BY <2>1 DEF Uncompared, Waiting
  <2> QED
    BY <2>1, <2>2, ThoroughNext
<1> QED
  BY <1>1, <1>2

(* What waits when the first was taken. *)
LEMMA TailWaits ==
  ASSUME NEW S, NEW q \in Seq(S), q # <<>>
  PROVE  Elems(q) \subseteq {Head(q)} \cup Elems(Tail(q))
<1>1. Len(q) \in Nat /\ Len(q) > 0 /\ DOMAIN q = 1 .. Len(q) /\ Head(q) = q[1]
  OBVIOUS
<1>2. Len(Tail(q)) = Len(q) - 1 /\ DOMAIN Tail(q) = 1 .. Len(q) - 1
      /\ \A k \in 1 .. Len(q) - 1 : Tail(q)[k] = q[k + 1]
  OBVIOUS
<1>3. ASSUME NEW k \in DOMAIN q PROVE q[k] = Head(q) \/ \E j \in DOMAIN Tail(q) : Tail(q)[j] = q[k]
  <2>1. CASE k = 1
    BY <1>1, <2>1
  <2>2. CASE k # 1
    <3>1. k - 1 \in 1 .. Len(q) - 1 /\ (k - 1) + 1 = k
      BY <1>1, <2>2
    <3> QED
      BY <1>2, <3>1
  <2> QED
    BY <2>1, <2>2
<1> QED
  BY <1>3 DEF Elems

(* The clause that was compared has nothing more to say. *)
LEMMA CheckClauseThorough ==
  ASSUME Right, Thorough, CheckClause
  PROVE  Thorough'
<1> DEFINE d == db
           cr == Head(d.queue)
           q == Tail(d.queue)
           e == [d EXCEPT !.queue = q]
           c == d.ca[cr].lits
           t == db'
<1>1. Good(d) /\ Clean(d) /\ d.simp /\ d.ok /\ pc = "backward" /\ options' = options /\ pc' = After(t)
  BY DEF Right, DbRight, CheckClause, Control, Loops, Loop, userVars
<1>2. d.queue # <<>> /\ t = IF d.ca[cr].removed THEN e ELSE Against(e, c, cr)
  BY DEF CheckClause
<1>3. Memory(d) /\ Lists_(d) /\ Proper(d) /\ Rec(d) /\ d.unchecked \in SUBSET d.fixed
  BY <1>1 DEF Good, DbType, Values
<1>4. d.queue \in Seq(DOMAIN d.ca) /\ cr \in DOMAIN d.ca /\ q \in Seq(DOMAIN d.ca)
  <2>1. d.queue \in Seq(DOMAIN d.ca) /\ d.queue # <<>>
    BY <1>2, <1>3 DEF Lists_
  <2> QED
    BY <2>1, HeadTail
<1>5. Waiting(d) \subseteq {cr} \cup Elems(q)
  <2>1. Waiting(d) = Elems(d.queue)
    BY DEF Waiting, Elems
  <2> QED
    BY <1>2, <1>4, <2>1, TailWaits
<1>6. Settled => Swept(d, Waiting(d))
  BY <1>1 DEF Thorough, Uncompared
<1> HIDE DEF d, cr, q, t
<1>7. Same(e, d, {"queue"}) /\ e.queue = q
  BY <1>3, FieldFacts
<1>8. Held_(d, e)
  BY <1>1, <1>3, <1>4, QueueQuiet DEF e
<1> HIDE DEF e
<1>9. /\ e.ca = d.ca /\ e.touched = d.touched /\ e.fixed = d.fixed /\ e.unchecked = d.unchecked
      /\ e.eliminated = d.eliminated /\ e.simp = d.simp /\ Live(e) = Live(d) /\ Waiting(e) = Elems(q)
  BY <1>7 DEF Same, DbFields, Live, Waiting, Elems
<1>10. Settled => Swept(e, Waiting(e) \cup {cr})
  <2>1. Settled => Swept(e, Waiting(d))
    BY <1>6, <1>9, SweptSame
  <2> QED
    BY <1>5, <1>9, <2>1, PendWider DEF Swept
<1>11. CASE d.ca[cr].removed
  <2>1. t = e /\ cr \notin Live(t)
    BY <1>2, <1>9, <1>11 DEF Live
  <2>2. Settled => Swept(t, Waiting(t))
    BY <1>10, <2>1, PendWider DEF Swept
  <2> QED
    BY <1>1, <2>2, AfterThorough DEF t
<1>12. CASE ~d.ca[cr].removed
  <2>1. t = Against(e, c, cr)
    BY <1>2, <1>12
  <2>2. cr \in Live(d) /\ cr # 0
    BY <1>3, <1>4, <1>12, EntryFacts DEF Live
  <2>3. c \in SUBSET Lits /\ Cardinality(c) > 1 /\ ~Contradicts(c)
    BY <1>3, <1>4, <2>2, EntryFacts DEF Proper
  <2>4. c # {}
    BY <2>3, ManyFacts
  <2>5. Saying(e, c, cr)
    BY <1>9, <2>2 DEF Saying
  <2>6. Good(e) /\ e.simp /\ Clean(e)
    BY <1>1, <1>8, <1>9 DEF Held_, Quiet, Clean
  <2>7. e.ca[cr].lits = c
    BY <1>9
  <2> HIDE DEF c
  <2>8. /\ Moves(e, t, {}) /\ Live(t) \subseteq Live(e)
        /\ t.ok /\ options.subsumption_lim = -1 => \A o \in Live(t) \ {cr} : Silent(c, t.ca[o].lits)
    BY <2>1, <2>3, <2>4, <2>5, <2>6, AgainstStep
  <2>9. ASSUME Settled, t.ok PROVE Swept(t, Waiting(t))
    <3>1. Swept(t, Waiting(t) \cup {cr})
      BY <1>10, <2>6, <2>8, <2>9, SweptMoves
    <3>2. ASSUME NEW a \in Live(t), NEW o \in Live(t), a # o, a \notin Waiting(t), ~Touching(t, a)
          PROVE  Silent(t.ca[a].lits, t.ca[o].lits)
      <4>1. CASE a # cr
        BY <3>1, <3>2, <4>1 DEF Swept, Pend
      <4>2. CASE a = cr
        <5>1. t.ca[cr].lits = c
          BY <2>6, <2>7, <2>8, <3>2, <4>2 DEF Moves, Queues
        <5> QED
          BY <2>8, <2>9, <3>2, <4>2, <5>1 DEF Settled
      <4> QED
        BY <4>1, <4>2
    <3>3. Pend(t, Waiting(t))
      BY <3>2 DEF Pend
    <3> QED
      BY <3>1, <3>3 DEF Swept
  <2> QED
    BY <1>1, <2>9, AfterThorough DEF t
<1> QED
  BY <1>11, <1>12

(* The fact that was checked has left all clauses. *)
LEMMA CheckFactThorough ==
  ASSUME Right, Thorough, CheckFact
  PROVE  Thorough'
<1> DEFINE d == db
           t == db'
<1>1. Good(d) /\ Clean(d) /\ d.simp /\ d.ok /\ pc = "backward" /\ options' = options /\ pc' = After(t)
  BY DEF Right, DbRight, CheckFact, Control, Loops, Loop, userVars
<1>2. PICK l \in d.unchecked : t = Against([d EXCEPT !.unchecked = d.unchecked \ {l}], {l}, 0)
  BY DEF CheckFact
<1> DEFINE u == d.unchecked \ {l}
           e == [d EXCEPT !.unchecked = u]
           c == {l}
<1>3. t = Against(e, c, 0)
  BY <1>2
<1>4. /\ d.fixed \in SUBSET Lits /\ d.unchecked \in SUBSET d.fixed /\ d.queue \in Seq(DOMAIN d.ca)
      /\ u \in SUBSET d.fixed /\ l \in d.fixed /\ l \in Lits /\ Rec(d)
  BY <1>1 DEF Good, DbType, Values, Lists_
<1>5. Settled => Swept(d, Waiting(d))
  BY <1>1 DEF Thorough, Uncompared
<1>6. u = d.unchecked \ {l}
  OBVIOUS
<1> HIDE DEF d, t, u
<1>7. Same(e, d, {"unchecked"}) /\ e.unchecked = u
  BY <1>4, FieldFacts
<1>8. Held_(d, e)
  BY <1>1, <1>4, QueueQuiet
<1> HIDE DEF e
<1>9. /\ e.ca = d.ca /\ e.touched = d.touched /\ e.fixed = d.fixed /\ e.queue = d.queue
      /\ e.eliminated = d.eliminated /\ e.simp = d.simp /\ Live(e) = Live(d) /\ Waiting(e) = Waiting(d)
  BY <1>7 DEF Same, DbFields, Live, Waiting
<1>10. /\ c \in SUBSET Lits /\ c # {} /\ ~Contradicts(c) /\ Saying(e, c, 0)
  BY <1>4, <1>9, LitFacts DEF Contradicts, Saying
<1>11. Good(e) /\ e.simp /\ Clean(e)
  BY <1>1, <1>8, <1>9 DEF Held_, Quiet, Clean
<1>12. c = {l}
  OBVIOUS
<1> HIDE DEF c
<1>13. /\ Moves(e, t, {})
       /\ t.ok /\ options.subsumption_lim = -1 => \A o \in Live(t) \ {0} : Silent(c, t.ca[o].lits)
  BY <1>3, <1>10, <1>11, AgainstStep
<1>14. Good(t) /\ Queues(e, t) /\ t.fixed \ t.unchecked = e.fixed \ e.unchecked /\ LiveVars(t) \subseteq LiveVars(e)
  BY <1>11, <1>13 DEF Moves, Held, Narrow
<1>15. ASSUME Settled, t.ok PROVE Swept(t, Waiting(t))
  <2>1. Bare(d) /\ Pend(d, Waiting(d))
    BY <1>5, <1>15 DEF Swept
  <2>2. Pend(e, Waiting(e) \cup {})
    BY <1>9, <2>1 DEF Pend, Touching
  <2>3. Pend(t, Waiting(t) \cup {})
    BY <1>14, <2>2, PendQueues
  <2>4. Var(l) \notin LiveVars(t)
    BY <1>4, <1>12, <1>13, <1>14, <1>15, SilentFact DEF Settled
  <2>5. VarsOf(t.fixed \ t.unchecked) \subseteq VarsOf(d.fixed \ d.unchecked) \cup {Var(l)}
    BY <1>6, <1>7, <1>9, <1>14 DEF VarsOf
  <2>6. LiveVars(t) \subseteq LiveVars(d)
    BY <1>9, <1>14 DEF LiveVars
  <2>7. Bare(t)
    BY <2>1, <2>4, <2>5, <2>6 DEF Bare
  <2> QED
    BY <2>3, <2>7 DEF Swept
<1> QED
  BY <1>1, <1>15, AfterThorough DEF t

(* A clause got shorter and waits, or nothing happened. *)
LEMMA asymmThorough ==
  ASSUME Right, Thorough, asymm
  PROVE  Thorough'
<1> DEFINE d == db
           t == db'
           cr == List[at]
           c == d.ca[cr].lits
<1>1. /\ Good(d) /\ d.simp /\ elim \in Vars /\ at \in Nat /\ at > 0 /\ at <= Len(List)
      /\ options' = options /\ pc = "asymm" /\ pc' = IF t.ok THEN "asymm" ELSE "cleanup"
  BY DEF Right, DbRight, asymm, Control, Loops, LoopTypes, Picked, Loop, userVars
<1>2. t = d \/ Moves(d, t, {})
  BY asymmMoves
<1>3. CASE t = d
  <2>1. d.ok
    BY <1>1 DEF Right, Control, Loops
  <2>2. Standing(db, db') /\ Uncompared' = Uncompared /\ pc' # "cleanup"
    BY <1>1, <1>3, <2>1 DEF Standing, Uncompared, Waiting
  <2> QED
    BY <1>1, <2>2, StandingThorough
<1>4. CASE Moves(d, t, {})
  <2>1. t.ok => d.ok
    BY <1>4 DEF Moves, Held
  <2>2. ASSUME Settled, t.ok PROVE Swept(t, Waiting(t))
    <3>1. Swept(d, Waiting(d))
      BY <1>1, <2>1, <2>2 DEF Thorough, Uncompared
    <3> DEFINE X == {}
    <3>2. Swept(d, Waiting(d) \cup X)
      BY <3>1
    <3> HIDE DEF d, t, X
    <3>3. Swept(t, Waiting(t) \cup X)
      BY <1>1, <1>4, <3>2, SweptMoves
    <3> QED
      BY <3>3 DEF X
  <2>3. CASE ~t.ok
    BY <2>3 DEF Thorough
  <2>4. CASE t.ok
    <3>1. Uncompared' = Waiting(t) /\ pc' # "cleanup"
      BY <1>1, <2>4 DEF Uncompared, Waiting
    <3> QED
      BY <1>1, <2>2, <3>1, ThoroughNext DEF t
  <2> QED
    BY <2>3, <2>4
<1> QED
  BY <1>2, <1>3, <1>4

(* The resolvents of an eliminated variable are queued. *)
LEMMA EliminatedThorough ==
  ASSUME Right, Thorough, Eliminated
  PROVE  Thorough'
<1> DEFINE r == Restored
           t == db'
           y == IF was_frozen THEN db.frozen ELSE db.frozen \ {elim}
           X == {}
<1>1. Good(db) /\ db.ok /\ db.simp /\ options' = options /\ pc = "elim" /\ pc' = After(t) /\ elim \in Vars
  BY EliminatedResolved DEF Right, DbRight, Control, Loops, Eliminated, Loop, userVars
<1>2. Resolved(r, t, elim)
  BY EliminatedResolved
<1>3. r = [db EXCEPT !.frozen = y]
  BY DEF Restored
<1> HIDE DEF r, t, y
<1>4. Standing(db, r)
  BY <1>1, <1>3, ListsStanding
<1>5. /\ Good(t) /\ Queues(r, t) /\ t.fixed \ t.unchecked = r.fixed \ r.unchecked
      /\ LiveVars(t) \subseteq LiveVars(r)
  BY <1>2 DEF Resolved
<1>6. ASSUME Settled PROVE Swept(t, Waiting(t))
  <2>1. Swept(db, X)
    BY <1>1, <1>6 DEF Thorough, Uncompared
  <2>2. Swept(r, X)
    BY <1>4, <2>1, SweptSame DEF Standing
  <2>3. Swept(r, Waiting(r) \cup X)
    BY <2>2, PendWider DEF Swept
  <2> HIDE DEF X
  <2>4. Swept(t, Waiting(t) \cup X)
    BY <1>5, <2>3, SweptQueues
  <2> QED
    BY <2>4 DEF X
<1> QED
  BY <1>1, <1>6, AfterThorough DEF t

(* Garbage collection keeps what is left. *)
LEMMA GarbageSwept ==
  ASSUME NEW d, Good(d), NEW t \in checkGarbage(d), NEW Q, Swept(d, Q)
  PROVE  Swept(t, Q)
<1>1. CASE t = d
  BY <1>1
<1>2. CASE t = garbageCollect(d)
  <2>1. Collected(d, t)
    BY <1>2, CollectStep
  <2>2. /\ t.touched = d.touched /\ t.fixed = d.fixed /\ t.unchecked = d.unchecked
        /\ Live(t) = Live(d) /\ (\A cr \in Live(d) : t.ca[cr].lits = d.ca[cr].lits) /\ LiveVars(t) = LiveVars(d)
    BY <2>1 DEF Collected, Same, DbFields
  <2>3. Bare(t)
    BY <2>2 DEF Swept, Bare
  <2>4. Pend(t, Q)
    BY <2>2 DEF Swept, Pend, Touching
  <2> QED
    BY <2>3, <2>4 DEF Swept
<1> QED
  BY <1>1, <1>2 DEF checkGarbage

(* Garbage collection in the loops and after them. *)
LEMMA GarbageThorough ==
  ASSUME Right, Thorough, Collect \/ Cleanup
  PROVE  Thorough'
<1>1. /\ Good(db) /\ options' = options /\ pc' # "cleanup" /\ Uncompared = {}
  BY DEF Right, DbRight, Collect, Cleanup, Loop, userVars, Uncompared
<1>2. CASE db' \in checkGarbage(db)
  <2>1. db'.simp = db.simp /\ db'.ok = db.ok
    BY <1>1, <1>2, CollectQuiet DEF Quiet
  <2>2. ASSUME Settled, db'.simp, db'.ok PROVE Swept(db', Uncompared)
    <3>1. Swept(db, Uncompared)
      BY <2>1, <2>2 DEF Thorough
    <3> QED
      BY <1>1, <1>2, <3>1, GarbageSwept
  <2> QED
    BY <1>1, <2>2, ThoroughNext
<1>3. CASE db' = TurnedOff(db)
  <2>1. db'.simp = FALSE
    BY <1>1, <1>3, TurnedOffStep
  <2> QED
    BY <2>1 DEF Thorough
<1> QED
  BY <1>2, <1>3 DEF Collect, Cleanup

(* What comes in is touched, and has no value. *)
LEMMA GrowsSwept ==
  ASSUME NEW d, NEW t, Good(t), Grows(d, t), NEW U, LiveVars(t) \subseteq LiveVars(d) \cup (U \ AssignedVars(d)),
         t.fixed \ t.unchecked = d.fixed \ d.unchecked, NEW Q, Swept(d, Q)
  PROVE  Swept(t, Q)
<1>1. Bare(d) /\ Pend(d, Q)
  BY DEF Swept
<1>2. Bare(t)
  BY <1>1, BareMoves
<1>3. Pend(t, Q)
  BY <1>1, PendGrows
<1> QED
  BY <1>2, <1>3 DEF Swept

(* A call that adds clauses. *)
LEMMA GrowsThorough ==
  ASSUME Thorough, pc = "idle", pc' = pc, options' = options, db'.simp = db.simp, db'.ok => db.ok,
         db.simp => Good(db') /\ Grows(db, db'), db'.fixed \ db'.unchecked = db.fixed \ db.unchecked,
         NEW U, LiveVars(db') \subseteq LiveVars(db) \cup (U \ AssignedVars(db))
  PROVE  Thorough'
<1>1. pc' # "cleanup" /\ Uncompared = {}
  BY DEF Uncompared
<1>2. ASSUME Settled, db'.simp, db'.ok PROVE Swept(db', Uncompared)
  <2>1. Swept(db, Uncompared)
    BY <1>2 DEF Thorough
  <2> QED
    BY <1>2, <2>1, GrowsSwept
<1> QED
  BY <1>1, <1>2, ThoroughNext

(* addClause, releaseVar and substitute: what they add is touched. *)
LEMMA AddsThorough ==
  ASSUME Right, Thorough, addClause \/ releaseVar \/ Substitute
  PROVE  Thorough'
<1>1. Good(db) /\ pc = "idle" /\ pc' = pc /\ options' = options
  BY DEF Right, DbRight, addClause, releaseVar, Substitute, Called
<1>2. ASSUME NEW U, Moves(db, db', U), Added(db, db') PROVE Thorough'
  <2>1. db.simp => Grows(db, db')
    BY <1>2, AddGrows
  <2>2. /\ Good(db') /\ db'.simp = db.simp /\ (db'.ok => db.ok)
        /\ db'.fixed \ db'.unchecked = db.fixed \ db.unchecked
        /\ LiveVars(db') \subseteq LiveVars(db) \cup (U \ AssignedVars(db))
    BY <1>2 DEF Moves, Held, Narrow
  <2> QED
    BY <1>1, <2>1, <2>2, GrowsThorough
<1>3. ASSUME db' = db PROVE Thorough'
  <2>1. Standing(db, db') /\ Uncompared = {} /\ pc' # "cleanup"
    BY <1>1, <1>3 DEF Standing, Uncompared
  <2> QED
    BY <1>1, <2>1, StandingThorough
<1>4. CASE addClause
  <2> DEFINE c == Call.lits
  <2>1. c \in SUBSET Lits /\ db' = addClause_(db, c)
    BY <1>4, addClauseRight DEF addClause
  <2> HIDE DEF c
  <2>2. Moves(db, db', VarsOf(c)) /\ Added(db, db')
    BY <1>1, <2>1, AddStep
  <2> QED
    BY <1>2, <2>2
<1>5. CASE releaseVar
  <2> DEFINE c == {Call.lit}
  <2>1. c \in SUBSET Lits /\ (db' = db \/ db' = Stored(db, c))
    BY <1>5, releaseVarRight
  <2> HIDE DEF c
  <2>2. CASE db' = Stored(db, c)
    <3>1. Moves(db, db', VarsOf(c)) /\ Added(db, db')
      BY <1>1, <2>1, <2>2, StoredStep
    <3> QED
      BY <1>2, <3>1
  <2> QED
    BY <1>3, <2>1, <2>2
<1>6. CASE Substitute
  <2>1. CASE ~db.ok
    BY <1>3, <1>6, <2>1 DEF Substitute
  <2>2. CASE db.ok
    <3> DEFINE v == Call.var
               x == Call.lit
               U == {Var(x)}
    <3>1. Substituted(db, db', v, x)
      BY <1>6, <2>2, SubstituteRight
    <3> HIDE DEF v, x
    <3>2. /\ Good(db') /\ db'.simp = db.simp /\ Grows(db, db')
          /\ db'.fixed \ db'.unchecked = db.fixed \ db.unchecked
          /\ LiveVars(db') \subseteq LiveVars(db) \cup (U \ AssignedVars(db))
      BY <3>1 DEF Substituted
    <3> HIDE DEF U
    <3> QED
      BY <1>1, <2>2, <3>2, GrowsThorough
  <2> QED
    BY <2>1, <2>2
<1> QED
  BY <1>4, <1>5, <1>6

(* Every step leaves the loops with no more to compare than what waits or
   is touched. *)
LEMMA ThoroughStep ==
  ASSUME Right, Thorough, [Next]_vars
  PROVE  Thorough'
<1>1. CASE newVar \/ ReuseVar \/ setFrozen \/ freezeVar \/ thaw \/ Solve \/ clearInterrupt
  BY <1>1, CalledThorough
<1>2. CASE addClause \/ releaseVar \/ Substitute
  BY <1>2, AddsThorough
<1>3. CASE Interrupt
  BY <1>3, InterruptThorough
<1>4. CASE Eliminate \/ SolveRest
  BY <1>4, SimplifyThorough
<1>5. CASE Dead \/ SearchStopped \/ ModelFound \/ NoModel
  BY <1>5, AnswerThorough
<1>6. CASE NothingLearned \/ Learn
  BY <1>6, SearchThorough
<1>7. CASE Checked \/ PickNone \/ PickInterrupted \/ PickSkip \/ Pick \/ asymmDone \/ BackwardDone \/ Kept
  BY <1>7, LoopThorough
<1>8. CASE Gather \/ Finished
  BY <1>8, GatherThorough, FinishedThorough
<1>9. CASE BackwardInterrupted \/ Abandoned
  BY <1>9, InterruptedThorough
<1>10. CASE CheckClause \/ CheckFact \/ asymm
  BY <1>10, CheckClauseThorough, CheckFactThorough, asymmThorough
<1>11. CASE Eliminated \/ Collect \/ Cleanup
  BY <1>11, EliminatedThorough, GarbageThorough
<1>12. CASE UNCHANGED vars
  <2>1. UNCHANGED <<options, db, pc>>
    BY <1>12 DEF vars, userVars
  <2>2. Uncompared' = Uncompared /\ (Settled' <=> Settled)
    BY <2>1 DEF Uncompared, Waiting, Settled
  <2> QED
    BY <2>1, <2>2 DEF Thorough
<1>13. CASE user
  BY <1>1, <1>2, <1>4, <1>13 DEF user
<1>14. CASE backwardSubsumptionCheck
  BY <1>7, <1>9, <1>10, <1>14 DEF backwardSubsumptionCheck
<1>15. CASE eliminate
  BY <1>7, <1>8, <1>9, <1>10, <1>11, <1>15 DEF eliminate
<1>16. CASE solver
  BY <1>4, <1>5, <1>6, <1>14, <1>15, <1>16 DEF solver
<1> QED
  BY <1>3, <1>12, <1>13, <1>16 DEF Next

(* After the loops nothing waits and nothing is touched. *)
LEMMA ThoroughDone ==
  ASSUME Right, Thorough
  PROVE  SubsumptionDone
<1> SUFFICES ASSUME pc = "cleanup", db.ok, ~options.interruptible, options.subsumption_lim = -1
             PROVE  \A cr \in Live(db) :
                      LET c == db.ca[cr].lits IN
                        /\ VarsOf(c) \cap AssignedVars(db) = {}
                        /\ \A o \in Live(db) \ {cr} :
                             ~(c \subseteq db.ca[o].lits) /\ Flips(c, db.ca[o].lits) = {}
  BY DEF SubsumptionDone
<1>1. Bare(db) /\ Pend(db, {}) /\ db.touched = {} /\ db.unchecked = {}
  BY DEF Right, Control, Thorough, Settled, Swept, Uncompared
<1>2. AssignedVars(db) \cap LiveVars(db) = {}
  BY <1>1 DEF Bare, AssignedVars, VarsOf
<1>3. ASSUME NEW cr \in Live(db), NEW o \in Live(db) \ {cr}
      PROVE  Silent(db.ca[cr].lits, db.ca[o].lits)
  BY <1>1 DEF Pend, Touching
<1> QED
  BY <1>2, <1>3 DEF LiveVars, Silent

(* SubsumptionDone: when the loops of eliminate have ended by themselves, no
   clause subsumes or shortens another one, and none mentions a variable
   that has a value (SimpSolver.cc:340-404, 594-676). *)
THEOREM SubsumptionCorrect == Spec => []SubsumptionDone
<1>1. Init => Thorough
  BY InitThorough
<1>2. Right /\ Thorough /\ [Next]_vars => Thorough'
  BY ThoroughStep
<1>3. Right /\ Thorough => SubsumptionDone
  BY ThoroughDone
<1> QED
  BY <1>1, <1>2, <1>3, InvariantCorrect, PTL DEF Spec

-----------------------------------------------------------------------------
(* What is recorded of the variables that were eliminated. *)

(* The variables a value is recorded for, and all that the records mention. *)
RecordVars(s) == {Var(s[k].lit) : k \in 1 .. Len(s)}
Named(s) == RecordVars(s) \cup UNION {VarsOf(s[k].others) : k \in 1 .. Len(s)}
(* The records of a variable are clauses, all with the same literal of it,
   and then the opposite literal alone; the records of what the others of a
   record mention come after it. *)
Ordered(s, E) ==
  /\ RecordVars(s) \subseteq E
  /\ \A k \in 1 .. Len(s) : \A i \in 1 .. k - 1 :
       Var(s[i].lit) = Var(s[k].lit) =>
         s[i].others # {} /\ s[i].lit = (IF s[k].others = {} THEN Neg(s[k].lit) ELSE s[k].lit)
  /\ \A i, k \in 1 .. Len(s) : Var(s[i].lit) \in VarsOf(s[k].others) => k < i
  /\ \A k \in 1 .. Len(s) :
       \E j \in k .. Len(s) : s[j].others = {} /\ Var(s[j].lit) = Var(s[k].lit)
(* An assignment that fits makes a recorded literal true where the others
   of its clause are false, and the opposite one where none of them needs
   it. *)
Falsifies(u, c) == \A q \in c : ~Makes(u, q)
Fits(s, u) ==
  \A k \in 1 .. Len(s) :
    IF s[k].others # {} THEN Falsifies(u, s[k].others) => Makes(u, s[k].lit)
    ELSE \/ Makes(u, s[k].lit)
         \/ \E i \in 1 .. k - 1 : Var(s[i].lit) = Var(s[k].lit) /\ Falsifies(u, s[i].others)

(* extendModel, from the last record down to the first. *)
Fires(r, mod) == \A q \in r.others : Neg(q) \in mod
Apply(r, mod) == IF Fires(r, mod) THEN (mod \ {Neg(r.lit)}) \cup {r.lit} ELSE mod
Down(s, m, h) == h[Len(s)] = m /\ \A i \in 1 .. Len(s) : h[i - 1] = Apply(s[i], h[i])

(* What holds of j, and passes from i to i - 1, holds down to 0. *)
LEMMA Descend ==
  ASSUME NEW j \in Nat, NEW G, j \in G, \A i \in 1 .. j : i \in G => i - 1 \in G
  PROVE  \A i \in 0 .. j : i \in G
<1>1. SUFFICES ASSUME NEW i \in 0 .. j PROVE i \in G
  OBVIOUS
<1> DEFINE n == j - i
           H == {k \in 0 .. n : j - k \in G}
<1>2. n \in Nat /\ j - 0 = j
  OBVIOUS
<1>3. 0 \in H
  BY <1>2
<1>4. ASSUME NEW k \in 1 .. n, k - 1 \in H PROVE k \in H
  <2>1. j - (k - 1) \in 1 .. j /\ (j - (k - 1)) - 1 = j - k /\ k \in 0 .. n
    OBVIOUS
  <2>2. j - (k - 1) \in G
    BY <1>4
  <2>3. (j - (k - 1)) - 1 \in G
    BY <2>1, <2>2
  <2> QED
    BY <2>1, <2>3
<1> HIDE DEF H
<1>5. n \in H
  BY <1>2, <1>3, <1>4, Least, Extends_!Climb
<1>6. j - n = i
  OBVIOUS
<1> QED
  BY <1>5, <1>6 DEF H

(* extendModel goes down the records. *)
LEMMA ExtendDown ==
  ASSUME NEW d, d.elimclauses \in Seq(Records), NEW m
  PROVE  \E h : Down(d.elimclauses, m, h) /\ h[0] = extendModel(d, m)
<1> DEFINE s == d.elimclauses
           n == Len(s)
           r == Reverse(s)
<1>1. n \in Nat /\ \A k \in 1 .. n : r[k] = s[n - k + 1]
  BY BackFacts
<1>2. PICK g : Extends_!Trace(r, m, n, g) /\ g[n] = extendModel(d, m)
  BY ExtendTrace
<1> HIDE DEF r, s, n
<1>3. g[0] = m /\ \A k \in 1 .. n : g[k] = ExtendOp(r, g[k - 1], k)
  BY <1>2 DEF Extends_!Trace
<1> DEFINE h == [i \in 0 .. n |-> g[n - i]]
<1>4. h[n] = m /\ h[0] = g[n]
  <2>1. n \in 0 .. n /\ 0 \in 0 .. n /\ n - n = 0 /\ n - 0 = n
    BY <1>1
  <2> QED
    BY <1>3, <2>1
<1>5. ASSUME NEW i \in 1 .. n PROVE h[i - 1] = Apply(s[i], h[i])
  <2> DEFINE k == n - i + 1
  <2>1. k \in 1 .. n /\ n - k + 1 = i /\ n - (i - 1) = k /\ k - 1 = n - i /\ i - 1 \in 0 .. n /\ i \in 0 .. n
    BY <1>1
  <2>2. h[i - 1] = g[k] /\ h[i] = g[k - 1]
    BY <2>1
  <2>3. g[k] = ExtendOp(r, g[k - 1], k) /\ r[k] = s[i]
    BY <1>1, <1>3, <2>1
  <2> HIDE DEF h, k
  <2> QED
    BY <2>2, <2>3 DEF ExtendOp, Apply, Fires
<1> HIDE DEF h
<1>6. Down(s, m, h)
  BY <1>4, <1>5 DEF Down, n
<1> QED
  BY <1>2, <1>4, <1>6 DEF s

(* One record: a set of literals without a contradiction stays one, gains
   only the literal of the record and loses only the opposite one. *)
LEMMA ApplyFacts ==
  ASSUME NEW r \in Records, NEW mod \in SUBSET Lits
  PROVE  LET t == Apply(r, mod) IN
         /\ t \in SUBSET Lits /\ VarsOf(mod) \subseteq VarsOf(t)
         /\ ~Contradicts(mod) => ~Contradicts(t)
         /\ \A p \in Lits : Var(p) # Var(r.lit) => (p \in t <=> p \in mod)
         /\ Fires(r, mod) => r.lit \in t
         /\ \A p \in mod : p \in t \/ (p = Neg(r.lit) /\ Fires(r, mod))
<1> DEFINE l == r.lit
           t == Apply(r, mod)
<1>1. l \in Lits /\ Neg(l) \in Lits /\ Var(Neg(l)) = Var(l) /\ Neg(Neg(l)) = l /\ Neg(l) # l
  BY LitFacts DEF Records
<1>2. CASE ~Fires(r, mod)
  <2>1. t = mod
    BY <1>2 DEF Apply
  <2> QED
    BY <1>2, <2>1
<1>3. CASE Fires(r, mod)
  <2>1. t = (mod \ {Neg(l)}) \cup {l}
    BY <1>3 DEF Apply
  <2> HIDE DEF t, l
  <2>2. t \in SUBSET Lits /\ l \in t /\ \A p \in mod : p \in t \/ p = Neg(l)
    BY <1>1, <2>1
  <2>3. VarsOf(mod) \subseteq VarsOf(t)
    BY <1>1, <2>2 DEF VarsOf
  <2>4. \A p \in Lits : Var(p) # Var(l) => (p \in t <=> p \in mod)
    BY <1>1, <2>1
  <2>5. ASSUME ~Contradicts(mod) PROVE ~Contradicts(t)
    <3>1. SUFFICES ASSUME NEW p \in t, Neg(p) \in t PROVE FALSE
      BY DEF Contradicts
    <3>2. p \in Lits /\ Neg(Neg(p)) = p /\ Neg(p) # p
      BY <2>2, LitFacts
    <3>3. Neg(l) \notin t
      BY <1>1, <2>1
    <3>4. p # l /\ Neg(p) # l
      BY <1>1, <3>1, <3>2, <3>3
    <3>5. p \in mod /\ Neg(p) \in mod
      BY <2>1, <3>1, <3>4
    <3> QED
      BY <2>5, <3>5 DEF Contradicts
  <2> QED
    BY <1>3, <2>2, <2>3, <2>4, <2>5 DEF t, l
<1> QED
  BY <1>2, <1>3

(* On the way down every step is one record. *)
LEMMA DownTypes ==
  ASSUME NEW s \in Seq(Records), NEW m \in SUBSET Lits, ~Contradicts(m), NEW h, Down(s, m, h)
  PROVE  /\ Len(s) \in Nat /\ \A i \in 0 .. Len(s) : h[i] \in SUBSET Lits /\ ~Contradicts(h[i])
         /\ \A i \in 1 .. Len(s) : s[i] \in Records /\ s[i].lit \in Lits /\ s[i].others \in SUBSET Lits
<1> DEFINE n == Len(s)
           G == {i \in 0 .. n : h[i] \in SUBSET Lits /\ ~Contradicts(h[i])}
<1>1. n \in Nat /\ \A i \in 1 .. n : s[i] \in Records
  OBVIOUS
<1>2. h[n] = m /\ \A i \in 1 .. n : h[i - 1] = Apply(s[i], h[i])
  BY DEF Down
<1> HIDE DEF n
<1>3. n \in G
  BY <1>1, <1>2
<1>4. ASSUME NEW i \in 1 .. n, i \in G PROVE i - 1 \in G
  <2>1. h[i] \in SUBSET Lits /\ ~Contradicts(h[i]) /\ s[i] \in Records /\ i - 1 \in 0 .. n
    BY <1>1, <1>4
  <2> DEFINE r == s[i]
             mod == h[i]
  <2> HIDE DEF r, mod
  <2>2. Apply(r, mod) \in SUBSET Lits /\ ~Contradicts(Apply(r, mod))
    <3>1. r \in Records /\ mod \in SUBSET Lits /\ ~Contradicts(mod)
      BY <2>1 DEF r, mod
    <3> QED
      BY ONLY <3>1, ApplyFacts
  <2> QED
    BY <1>2, <2>1, <2>2 DEF r, mod
<1> HIDE DEF G
<1>5. \A i \in 0 .. n : i \in G
  BY <1>1, <1>3, <1>4, Descend
<1>6. \A i \in 1 .. n : s[i].lit \in Lits /\ s[i].others \in SUBSET Lits
  BY <1>1 DEF Records
<1> QED
  BY <1>1, <1>5, <1>6 DEF G, n

(* What has a value keeps one. *)
LEMMA DownVars ==
  ASSUME NEW s \in Seq(Records), NEW m \in SUBSET Lits, ~Contradicts(m), NEW h, Down(s, m, h),
         NEW i \in 0 .. Len(s)
  PROVE  \A j \in 0 .. i : VarsOf(h[i]) \subseteq VarsOf(h[j])
<1> DEFINE n == Len(s)
           G == {j \in 0 .. i : VarsOf(h[i]) \subseteq VarsOf(h[j])}
<1>1. n \in Nat /\ i \in Nat /\ i <= n /\ (\A j \in 0 .. n : h[j] \in SUBSET Lits)
      /\ (\A j \in 1 .. n : s[j] \in Records /\ h[j - 1] = Apply(s[j], h[j]))
  BY DownTypes DEF Down
<1> HIDE DEF n
<1>2. i \in G
  BY <1>1
<1>3. ASSUME NEW j \in 1 .. i, j \in G PROVE j - 1 \in G
  <2>1. j \in 1 .. n /\ j \in 0 .. n /\ j - 1 \in 0 .. i
    BY <1>1
  <2>2. VarsOf(h[j]) \subseteq VarsOf(Apply(s[j], h[j]))
    BY <1>1, <2>1, ApplyFacts
  <2> QED
    BY <1>1, <1>3, <2>1, <2>2
<1> HIDE DEF G
<1>4. \A j \in 0 .. i : j \in G
  BY <1>1, <1>2, <1>3, Descend
<1> QED
  BY <1>4 DEF G

(* A value stays where no record of its variable follows. *)
LEMMA DownSettled ==
  ASSUME NEW s \in Seq(Records), NEW m \in SUBSET Lits, ~Contradicts(m), NEW h, Down(s, m, h),
         NEW i \in 0 .. Len(s), NEW p \in Lits, \A k \in 1 .. i : Var(s[k].lit) # Var(p)
  PROVE  p \in h[0] <=> p \in h[i]
<1> DEFINE n == Len(s)
           G == {j \in 0 .. i : p \in h[j] <=> p \in h[i]}
<1>1. n \in Nat /\ i \in Nat /\ i <= n /\ (\A j \in 0 .. n : h[j] \in SUBSET Lits)
      /\ (\A j \in 1 .. n : s[j] \in Records /\ h[j - 1] = Apply(s[j], h[j]))
  BY DownTypes DEF Down
<1> HIDE DEF n
<1>2. i \in G
  BY <1>1
<1>3. ASSUME NEW j \in 1 .. i, j \in G PROVE j - 1 \in G
  <2>1. j \in 1 .. n /\ j \in 0 .. n /\ j - 1 \in 0 .. i
    BY <1>1
  <2>2. p \in Apply(s[j], h[j]) <=> p \in h[j]
    BY <1>1, <2>1, ApplyFacts
  <2> QED
    BY <1>1, <1>3, <2>1, <2>2
<1> HIDE DEF G
<1>4. \A j \in 0 .. i : j \in G
  BY <1>1, <1>2, <1>3, Descend
<1>5. 0 \in 0 .. i
  BY <1>1
<1> QED
  BY <1>4, <1>5 DEF G

(* A literal that is true stays so unless a record of the opposite literal
   fires. *)
LEMMA DownLost ==
  ASSUME NEW s \in Seq(Records), NEW m \in SUBSET Lits, ~Contradicts(m), NEW h, Down(s, m, h),
         NEW k \in 0 .. Len(s), NEW p \in h[k], p \notin h[0]
  PROVE  \E i \in 1 .. k : p = Neg(s[i].lit) /\ Fires(s[i], h[i])
<1> DEFINE n == Len(s)
           G == {j \in 0 .. k : p \in h[j]}
<1>1. n \in Nat /\ k \in Nat /\ k <= n /\ (\A j \in 0 .. n : h[j] \in SUBSET Lits)
      /\ (\A j \in 1 .. n : s[j] \in Records /\ h[j - 1] = Apply(s[j], h[j]))
  BY DownTypes DEF Down
<1> HIDE DEF n
<1>2. SUFFICES ASSUME \A i \in 1 .. k : ~(p = Neg(s[i].lit) /\ Fires(s[i], h[i])) PROVE FALSE
  OBVIOUS
<1>3. k \in G
  BY <1>1
<1>4. ASSUME NEW j \in 1 .. k, j \in G PROVE j - 1 \in G
  <2>1. j \in 1 .. n /\ j \in 0 .. n /\ j - 1 \in 0 .. k
    BY <1>1
  <2>2. p \in h[j]
    BY <1>4
  <2>3. p \in Apply(s[j], h[j])
    BY <1>1, <1>2, <2>1, <2>2, ApplyFacts
  <2> QED
    BY <1>1, <2>1, <2>3
<1> HIDE DEF G
<1>5. \A j \in 0 .. k : j \in G
  BY <1>1, <1>3, <1>4, Descend
<1>6. 0 \in 0 .. k
  BY <1>1
<1> QED
  BY <1>5, <1>6 DEF G

(* The assignment that a set of literals stands for. *)
Assigned_(mod) == [v \in Vars |-> mkLit(v, 0) \in mod]
LEMMA AssignMakes ==
  ASSUME NEW mod \in SUBSET Lits, ~Contradicts(mod)
  PROVE  /\ Assigned_(mod) \in Assignments
         /\ \A p \in mod : Makes(Assigned_(mod), p)
         /\ \A p \in Lits : Var(p) \in VarsOf(mod) => (~Makes(Assigned_(mod), p) <=> Neg(p) \in mod)
<1> DEFINE w == Assigned_(mod)
<1>1. w \in Assignments
  BY DEF Assignments, Assigned_
<1>2. ASSUME NEW p \in mod PROVE Makes(w, p)
  <2> DEFINE v == Var(p)
  <2>1. v \in Vars /\ p \in Lits
    BY LitFacts
  <2>2. /\ sign(mkLit(v, 0)) = 0 /\ sign(mkLit(v, 1)) = 1 /\ Neg(mkLit(v, 1)) = mkLit(v, 0)
        /\ (p = mkLit(v, 0) \/ p = mkLit(v, 1))
    BY <2>1, MkLitFacts
  <2>3. w[v] <=> mkLit(v, 0) \in mod
    BY <2>1 DEF Assigned_
  <2> HIDE DEF w
  <2>4. CASE p = mkLit(v, 0)
    <3>1. sign(p) # 1 /\ w[Var(p)]
      BY <2>2, <2>3, <2>4
    <3> QED
      BY <3>1 DEF Makes
  <2>5. CASE p = mkLit(v, 1)
    <3>1. sign(p) = 1 /\ mkLit(v, 0) \notin mod
      BY <2>2, <2>5 DEF Contradicts
    <3> QED
      BY <2>3, <3>1 DEF Makes
  <2> QED
    BY <2>2, <2>4, <2>5
<1> HIDE DEF w
<1>3. ASSUME NEW p \in Lits, Var(p) \in VarsOf(mod) PROVE ~Makes(w, p) <=> Neg(p) \in mod
  <2>1. PICK q \in mod : Var(q) = Var(p)
    BY <1>3 DEF VarsOf
  <2>2. q = p \/ q = Neg(p)
    BY <2>1, SameVar
  <2>3. Makes(w, Neg(p)) <=> ~Makes(w, p)
    BY <1>1, MakesNeg
  <2> QED
    BY <1>2, <2>1, <2>2, <2>3
<1> QED
  BY <1>1, <1>2, <1>3 DEF w

(* An extended model fits what is recorded, and gives every variable that
   is recorded a value. *)
LEMMA ExtendedFits ==
  ASSUME NEW s \in Seq(Records), NEW m \in SUBSET Lits, ~Contradicts(m), NEW h, Down(s, m, h),
         NEW E, Ordered(s, E), Named(s) \ E \subseteq VarsOf(m), Named(s) \cap E \subseteq RecordVars(s)
  PROVE  /\ h[0] \in SUBSET Lits /\ ~Contradicts(h[0])
         /\ VarsOf(m) \cup RecordVars(s) \subseteq VarsOf(h[0])
         /\ \A p \in Lits : Var(p) \notin E => (p \in h[0] <=> p \in m)
         /\ Fits(s, Assigned_(h[0]))
<1> DEFINE n == Len(s)
           u == Assigned_(h[0])
<1>1. /\ n \in Nat /\ \A i \in 0 .. n : h[i] \in SUBSET Lits /\ ~Contradicts(h[i])
      /\ \A i \in 1 .. n : s[i] \in Records /\ s[i].lit \in Lits /\ s[i].others \in SUBSET Lits
  BY DownTypes
<1>2. h[n] = m /\ \A i \in 1 .. n : h[i - 1] = Apply(s[i], h[i])
  BY DEF Down
<1>3. \A i \in 0 .. n : \A j \in 0 .. i : VarsOf(h[i]) \subseteq VarsOf(h[j])
  BY DownVars
<1>4. \A i \in 0 .. n : \A p \in Lits :
        (\A k \in 1 .. i : Var(s[k].lit) # Var(p)) => (p \in h[0] <=> p \in h[i])
  BY DownSettled
<1>5. \A k \in 0 .. n : \A p \in h[k] :
        p \notin h[0] => \E i \in 1 .. k : p = Neg(s[i].lit) /\ Fires(s[i], h[i])
  BY DownLost
<1>6. ASSUME NEW k \in 1 .. n, Fires(s[k], h[k]) PROVE s[k].lit \in h[k - 1]
  <2> DEFINE r == s[k]
             mod == h[k]
  <2>1. r \in Records /\ mod \in SUBSET Lits /\ Fires(r, mod) /\ h[k - 1] = Apply(r, mod)
    <3>1. k \in 0 .. n
      BY <1>1
    <3> QED
      BY <1>1, <1>2, <1>6, <3>1
  <2> HIDE DEF r, mod
  <2>2. r.lit \in Apply(r, mod)
    BY <2>1, ApplyFacts
  <2> QED
    BY <2>1, <2>2 DEF r
<1>o. /\ RecordVars(s) \subseteq E
      /\ \A k \in 1 .. n : \A i \in 1 .. k - 1 :
           Var(s[i].lit) = Var(s[k].lit) =>
             s[i].others # {} /\ s[i].lit = (IF s[k].others = {} THEN Neg(s[k].lit) ELSE s[k].lit)
      /\ \A i, k \in 1 .. n : Var(s[i].lit) \in VarsOf(s[k].others) => k < i
      /\ \A k \in 1 .. n : \E j \in k .. n : s[j].others = {} /\ Var(s[j].lit) = Var(s[k].lit)
  BY DEF Ordered
<1> HIDE DEF n
(* The default gives a variable a value. *)
<1>7. ASSUME NEW k \in 1 .. n, NEW i \in 0 .. n, i < k PROVE Var(s[k].lit) \in VarsOf(h[i])
  <2>1. PICK j \in k .. n : s[j].others = {} /\ Var(s[j].lit) = Var(s[k].lit)
    BY <1>o
  <2>2. j \in 1 .. n /\ j - 1 \in 0 .. n /\ i \in 0 .. j - 1
    BY <1>1, <1>7, <2>1
  <2>3. Fires(s[j], h[j])
    BY <2>1 DEF Fires
  <2>4. s[j].lit \in h[j - 1]
    BY <1>6, <2>2, <2>3
  <2>5. Var(s[k].lit) \in VarsOf(h[j - 1])
    BY <2>1, <2>4 DEF VarsOf
  <2> QED
    BY <1>3, <2>2, <2>5
<1>8. 0 \in 0 .. n /\ n \in 0 .. n
  BY <1>1
<1>9. VarsOf(m) \cup RecordVars(s) \subseteq VarsOf(h[0])
  <2>1. VarsOf(m) \subseteq VarsOf(h[0])
    BY <1>2, <1>3, <1>8
  <2>2. ASSUME NEW k \in 1 .. n PROVE Var(s[k].lit) \in VarsOf(h[0])
    <3>1. 0 < k
      OBVIOUS
    <3> QED
      BY <1>7, <1>8, <3>1
  <2> QED
    BY <2>1, <2>2 DEF RecordVars, n
<1>10. ASSUME NEW p \in Lits, Var(p) \notin E PROVE p \in h[0] <=> p \in m
  <2>1. \A k \in 1 .. n : Var(s[k].lit) # Var(p)
    BY <1>10, <1>o DEF RecordVars, n
  <2> QED
    BY <1>2, <1>4, <1>8, <2>1
<1>11. u \in Assignments /\ \A p \in h[0] : Makes(u, p)
  BY <1>1, <1>8, AssignMakes
<1>12. \A p \in Lits : Var(p) \in VarsOf(h[0]) => (~Makes(u, p) <=> Neg(p) \in h[0])
  BY <1>1, <1>8, AssignMakes
<1> HIDE DEF u
(* The others of a record are settled when it is its turn. *)
<1>13. ASSUME NEW k \in 1 .. n PROVE Falsifies(u, s[k].others) <=> Fires(s[k], h[k])
  <2>0. k \in 0 .. n
    BY <1>1
  <2>1. ASSUME NEW q \in s[k].others PROVE ~Makes(u, q) <=> Neg(q) \in h[k]
    <3>1. q \in Lits /\ Neg(q) \in Lits /\ Var(Neg(q)) = Var(q) /\ Var(q) \in VarsOf(s[k].others)
      BY <1>1, LitFacts DEF VarsOf
    <3>2. \A i \in 1 .. k : Var(s[i].lit) # Var(q)
      <4>1. SUFFICES ASSUME NEW i \in 1 .. k, Var(s[i].lit) = Var(q) PROVE FALSE
        OBVIOUS
      <4>2. i \in 1 .. n /\ ~(k < i)
        BY <1>1
      <4> QED
        BY <1>o, <3>1, <4>1, <4>2
    <3>3. Var(q) \in VarsOf(h[k])
      <4>1. Var(q) \in Named(s)
        BY <3>1 DEF Named, n
      <4>2. CASE Var(q) \notin E
        <5>1. Var(q) \in VarsOf(h[n])
          BY <1>2, <4>1, <4>2
        <5>2. k \in 0 .. n
          BY <2>0
        <5> QED
          BY <1>3, <1>8, <5>1, <5>2
      <4>3. CASE Var(q) \in E
        <5>1. PICK j \in 1 .. n : Var(s[j].lit) = Var(q)
          BY <4>1, <4>3 DEF RecordVars, n
        <5>2. k < j
          BY <1>o, <3>1, <5>1
        <5> QED
          BY <1>7, <2>0, <5>1, <5>2
      <4> QED
        BY <4>2, <4>3
    <3>4. Var(q) \in VarsOf(h[0])
      <4>1. 0 \in 0 .. k
        BY <2>0
      <4> QED
        BY <1>3, <2>0, <3>3, <4>1
    <3>5. Neg(q) \in h[0] <=> Neg(q) \in h[k]
      BY <1>4, <2>0, <3>1, <3>2
    <3> QED
      BY <1>12, <3>1, <3>4, <3>5
  <2> QED
    BY <2>1 DEF Falsifies, Fires
<1>14. ASSUME NEW k \in 1 .. n, Fires(s[k], h[k]), s[k].lit \notin h[0]
       PROVE  \E i \in 1 .. k - 1 : s[k].lit = Neg(s[i].lit) /\ Falsifies(u, s[i].others)
  <2>1. k - 1 \in 0 .. n /\ s[k].lit \in h[k - 1]
    BY <1>1, <1>6, <1>14
  <2>2. PICK i \in 1 .. k - 1 : s[k].lit = Neg(s[i].lit) /\ Fires(s[i], h[i])
    BY <1>5, <1>14, <2>1
  <2>3. i \in 1 .. n
    BY <1>1
  <2> QED
    BY <1>13, <2>2, <2>3
<1>15. ASSUME NEW k \in 1 .. n, s[k].others # {}, Falsifies(u, s[k].others) PROVE Makes(u, s[k].lit)
  <2>1. Fires(s[k], h[k])
    BY <1>13, <1>15
  <2>2. SUFFICES ASSUME s[k].lit \notin h[0] PROVE FALSE
    BY <1>11
  <2>3. PICK i \in 1 .. k - 1 : s[k].lit = Neg(s[i].lit)
    BY <1>14, <2>1, <2>2
  <2>4. i \in 1 .. n
    BY <1>1
  <2>5. Var(Neg(s[i].lit)) = Var(s[i].lit) /\ Neg(s[i].lit) # s[i].lit
    BY <1>1, <2>4, LitFacts
  <2>6. s[i].lit = s[k].lit
    BY <1>15, <1>o, <2>3, <2>5
  <2> QED
    BY <2>3, <2>5, <2>6
<1>16. ASSUME NEW k \in 1 .. n, s[k].others = {}
       PROVE  \/ Makes(u, s[k].lit)
              \/ \E i \in 1 .. k - 1 : Var(s[i].lit) = Var(s[k].lit) /\ Falsifies(u, s[i].others)
  <2>1. Fires(s[k], h[k])
    BY <1>16 DEF Fires
  <2>2. CASE s[k].lit \in h[0]
    BY <1>11, <2>2
  <2>3. CASE s[k].lit \notin h[0]
    <3>1. PICK i \in 1 .. k - 1 : s[k].lit = Neg(s[i].lit) /\ Falsifies(u, s[i].others)
      BY <1>14, <2>1, <2>3
    <3>2. i \in 1 .. n
      BY <1>1
    <3>3. Var(Neg(s[i].lit)) = Var(s[i].lit)
      BY <1>1, <3>2, LitFacts
    <3> QED
      BY <3>1, <3>3
  <2> QED
    BY <2>2, <2>3
<1>17. Fits(s, u)
  BY <1>15, <1>16 DEF Fits, n
<1> QED
  BY <1>1, <1>8, <1>9, <1>10, <1>17 DEF u

-----------------------------------------------------------------------------
(* What is recorded of one variable. *)

(* The records of one variable follow those before. *)
LEMMA JoinedRecords ==
  ASSUME NEW s \in Seq(Records), NEW r \in Seq(Records)
  PROVE  /\ s \o r \in Seq(Records) /\ Len(s \o r) = Len(s) + Len(r) /\ Len(s) \in Nat /\ Len(r) \in Nat
         /\ \A k \in 1 .. Len(s) : (s \o r)[k] = s[k]
         /\ \A k \in 1 .. Len(r) : (s \o r)[Len(s) + k] = r[k] /\ Len(s) + k \in 1 .. Len(s \o r)
         /\ \A k \in 1 .. Len(s \o r) : k \in 1 .. Len(s) \/ (k - Len(s) \in 1 .. Len(r) /\ (s \o r)[k] = r[k - Len(s)])
OBVIOUS

(* r holds, for each clause of crs, the literal p of it with its others,
   and then the opposite literal alone. *)
Tells_(r, d, p, crs) ==
  LET n == Len(r) - 1 IN
    /\ r \in Seq(Records) /\ n \in Nat
    /\ r[n + 1].lit = Neg(p) /\ r[n + 1].others = {}
    /\ \A k \in 1 .. n : /\ r[k].lit = p /\ r[k].others # {}
                         /\ \E cr \in crs : r[k].others = d.ca[cr].lits \ {p}
    /\ \A cr \in crs : \E k \in 1 .. n : r[k].others = d.ca[cr].lits \ {p}

(* What eliminateVar records. *)
LEMMA RecordedFacts ==
  ASSUME NEW d, Good(d), NEW v, NEW p \in Lits, NEW crs, crs \in SUBSET Live(d),
         \A cr \in crs : p \in d.ca[cr].lits
  PROVE  Tells_(Recorded(d, v, p, crs), d, p, crs)
<1> DEFINE o == InOrder(crs)
           n == Cardinality(crs)
           a == [k \in 1 .. n |-> [lit |-> p, others |-> d.ca[o[k]].lits \ {p}]]
           b == <<[lit |-> Neg(p), others |-> {}]>>
           r == Recorded(d, v, p, crs)
<1>1. crs \in SUBSET DOMAIN d.ca /\ Memory(d) /\ Proper(d)
  BY DEF Live, Good, DbType
<1>2. crs \in SUBSET Nat /\ IsFiniteSet(crs) /\ Neg(p) \in Lits
  BY <1>1, LitFacts, FS_Subset DEF Memory, CRefs
<1>3. n \in Nat /\ (\A k \in 1 .. n : o[k] \in crs) /\ \A cr \in crs : \E k \in 1 .. n : o[k] = cr
  BY <1>2, InOrderFacts
<1>4. r \in Seq(Records)
  BY <1>1, RecordedType
<1>5. r = a \o b
  BY DEF Recorded
<1> HIDE DEF o, n
<1>6. \A k \in 1 .. n : a[k] \in Records /\ a[k].lit = p /\ a[k].others = d.ca[o[k]].lits \ {p}
  <2>1. ASSUME NEW k \in 1 .. n PROVE d.ca[o[k]].lits \in SUBSET Lits
    BY <1>1, <1>3, EntryFacts
  <2> QED
    BY <2>1 DEF Records
<1>7. a \in Seq(Records) /\ Len(a) = n
  <2>1. a \in [1 .. n -> Records]
    BY <1>6
  <2>2. n \in Nat
    BY <1>3
  <2> HIDE DEF a
  <2>3. a \in Seq(Records)
    BY <2>1, <2>2
  <2>4. Len(a) = n
    BY <2>1, <2>2
  <2> QED
    BY <2>3, <2>4
<1>8. b \in Seq(Records) /\ Len(b) = 1 /\ b[1].lit = Neg(p) /\ b[1].others = {}
  BY <1>2 DEF Records
<1> HIDE DEF a, b, r
<1>9. Len(r) = n + 1 /\ (\A k \in 1 .. n : r[k] = a[k]) /\ r[n + 1] = b[1]
  <2>1. 1 \in 1 .. 1
    OBVIOUS
  <2>2. /\ Len(a \o b) = Len(a) + Len(b) /\ (\A k \in 1 .. Len(a) : (a \o b)[k] = a[k])
        /\ (\A k \in 1 .. Len(b) : (a \o b)[Len(a) + k] = b[k])
    BY <1>7, <1>8, JoinedRecords
  <2> QED
    BY <1>5, <1>7, <1>8, <2>1, <2>2
<1>10. \A cr \in crs : d.ca[cr].lits \ {p} # {}
  <2>1. ASSUME NEW cr \in crs PROVE d.ca[cr].lits \ {p} # {}
    <3>1. d.ca[cr].lits \in SUBSET Lits /\ Cardinality(d.ca[cr].lits) > 1
      BY <1>1, EntryFacts DEF Proper
    <3>2. Cardinality(d.ca[cr].lits \ {p}) = Cardinality(d.ca[cr].lits) - 1 /\ Cardinality(d.ca[cr].lits) \in Nat
      BY <3>1, ManyFacts
    <3>3. d.ca[cr].lits \ {p} \in SUBSET Lits /\ Cardinality(d.ca[cr].lits \ {p}) # 0
      BY <3>1, <3>2
    <3> QED
      BY <3>3, ManyFacts
  <2> QED
    BY <2>1
<1>11. Len(r) - 1 = n
  BY <1>3, <1>9
<1>12. \A k \in 1 .. n : /\ r[k].lit = p /\ r[k].others # {}
                         /\ \E cr \in crs : r[k].others = d.ca[cr].lits \ {p}
  <2>1. ASSUME NEW k \in 1 .. n
        PROVE  r[k].lit = p /\ o[k] \in crs /\ r[k].others = d.ca[o[k]].lits \ {p}
    BY <1>3, <1>6, <1>9
  <2> QED
    BY <1>10, <2>1
<1>13. \A cr \in crs : \E k \in 1 .. n : r[k].others = d.ca[cr].lits \ {p}
  BY <1>3, <1>6, <1>9
<1> QED
  BY <1>3, <1>4, <1>8, <1>9, <1>11, <1>12, <1>13 DEF Tells_, r

(* The variables of the clauses at these references. *)
NamedIn(d, crs) == UNION {VarsOf(d.ca[cr].lits) : cr \in crs}

(* These clauses hold the literal and no eliminated variable. *)
Holders(d, p, crs, E) ==
  \A cr \in crs : /\ d.ca[cr].lits \in SUBSET Lits /\ VarsOf(d.ca[cr].lits) \cap E = {}
                  /\ p \in d.ca[cr].lits /\ ~Contradicts(d.ca[cr].lits)

(* The records s, with those r of the literal's variable behind them. *)
RecordedAfter(s, r, d, p, crs, E) ==
  /\ Ordered(s \o r, E \cup {Var(p)}) /\ RecordVars(s \o r) = RecordVars(s) \cup {Var(p)}
  /\ Named(s \o r) = Named(s) \cup {Var(p)} \cup NamedIn(d, crs)

(* The records of a variable keep the order, when the variable is new and
   nothing that is eliminated is mentioned. *)
LEMMA RecordsOrdered ==
  ASSUME NEW s \in Seq(Records), NEW E, Ordered(s, E), NEW d, NEW p \in Lits, NEW crs, NEW r, Tells_(r, d, p, crs),
         Var(p) \notin E, Holders(d, p, crs, E)
  PROVE  RecordedAfter(s, r, d, p, crs, E)
<1> USE DEF Holders
<1> DEFINE v == Var(p)
           t == s \o r
           m == Len(s)
           n == Len(r) - 1
<1>1. /\ r \in Seq(Records) /\ n \in Nat
      /\ r[n + 1].lit = Neg(p) /\ r[n + 1].others = {}
      /\ \A k \in 1 .. n : /\ r[k].lit = p /\ r[k].others # {}
                           /\ \E cr \in crs : r[k].others = d.ca[cr].lits \ {p}
      /\ \A cr \in crs : \E k \in 1 .. n : r[k].others = d.ca[cr].lits \ {p}
  BY DEF Tells_
<1>2. Len(r) = n + 1
  BY <1>1
<1>3. /\ t \in Seq(Records) /\ Len(t) = m + (n + 1) /\ m \in Nat
      /\ \A k \in 1 .. m : t[k] = s[k]
      /\ \A k \in 1 .. n + 1 : t[m + k] = r[k] /\ m + k \in 1 .. Len(t)
      /\ \A k \in 1 .. Len(t) : k \in 1 .. m \/ (k - m \in 1 .. n + 1 /\ t[k] = r[k - m])
  BY <1>1, <1>2, JoinedRecords
<1>4. Neg(p) \in Lits /\ Var(Neg(p)) = v /\ Neg(Neg(p)) = p /\ v \in Vars
  BY LitFacts
<1>o. /\ RecordVars(s) \subseteq E
      /\ \A k \in 1 .. m : \A i \in 1 .. k - 1 :
           Var(s[i].lit) = Var(s[k].lit) =>
             s[i].others # {} /\ s[i].lit = (IF s[k].others = {} THEN Neg(s[k].lit) ELSE s[k].lit)
      /\ \A i, k \in 1 .. m : Var(s[i].lit) \in VarsOf(s[k].others) => k < i
      /\ \A k \in 1 .. m : \E j \in k .. m : s[j].others = {} /\ Var(s[j].lit) = Var(s[k].lit)
  BY DEF Ordered
<1>5. \A k \in 1 .. m : Var(s[k].lit) \in E
  BY <1>o DEF RecordVars
<1> HIDE DEF v, t, m, n
<1>6. \A k \in 1 .. n + 1 : Var(r[k].lit) = v
  <2>1. ASSUME NEW k \in 1 .. n + 1 PROVE Var(r[k].lit) = v
    <3>1. k \in 1 .. n \/ k = n + 1
      BY <1>1
    <3> QED
      BY <1>1, <1>4, <3>1 DEF v
  <2> QED
    BY <2>1
<1>7. ASSUME NEW cr \in crs PROVE v \notin VarsOf(d.ca[cr].lits \ {p}) /\ VarsOf(d.ca[cr].lits) = VarsOf(d.ca[cr].lits \ {p}) \cup {v}
  <2> DEFINE c == d.ca[cr].lits
  <2>1. c \in SUBSET Lits /\ p \in c /\ ~Contradicts(c)
    OBVIOUS
  <2> HIDE DEF c
  <2>2. ASSUME NEW q \in c \ {p}, Var(q) = v PROVE FALSE
    <3>1. q = Neg(p)
      BY <2>1, <2>2, SameVar DEF v
    <3> QED
      BY <2>1, <2>2, <3>1 DEF Contradicts
  <2> QED
    BY <2>1, <2>2 DEF VarsOf, v, c
<1>8. \A k \in 1 .. n + 1 : VarsOf(r[k].others) \cap (E \cup {v}) = {}
  <2>1. ASSUME NEW k \in 1 .. n PROVE VarsOf(r[k].others) \cap (E \cup {v}) = {}
    <3>1. PICK cr \in crs : r[k].others = d.ca[cr].lits \ {p}
      BY <1>1
    <3> QED
      BY <1>7, <3>1
  <2>2. VarsOf(r[n + 1].others) = {}
    BY <1>1 DEF VarsOf
  <2>3. \A k \in 1 .. n + 1 : k \in 1 .. n \/ k = n + 1
    BY <1>1
  <2> QED
    BY <2>1, <2>2, <2>3
<1>9. RecordVars(t) = RecordVars(s) \cup {v}
  <2>1. ASSUME NEW k \in 1 .. Len(t) PROVE Var(t[k].lit) \in RecordVars(s) \cup {v}
    BY <1>3, <1>6 DEF RecordVars, m
  <2>2. ASSUME NEW k \in 1 .. m PROVE Var(s[k].lit) \in RecordVars(t)
    <3>1. k \in 1 .. Len(t) /\ t[k] = s[k]
      BY <1>1, <1>3
    <3> QED
      BY <3>1 DEF RecordVars
  <2>3. v \in RecordVars(t)
    <3>1. n + 1 \in 1 .. n + 1
      BY <1>1
    <3> QED
      BY <1>3, <1>6, <3>1 DEF RecordVars
  <2> QED
    BY <2>1, <2>2, <2>3 DEF RecordVars, m
<1> DEFINE A == UNION {VarsOf(t[k].others) : k \in 1 .. Len(t)}
           B == UNION {VarsOf(s[k].others) : k \in 1 .. m}
           C == UNION {VarsOf(d.ca[cr].lits \ {p}) : cr \in crs}
<1>10. A = B \cup C
  <2>1. ASSUME NEW k \in 1 .. Len(t) PROVE VarsOf(t[k].others) \subseteq B \cup C
    <3>1. CASE k \in 1 .. m
      BY <1>3, <3>1
    <3>2. CASE k - m \in 1 .. n + 1 /\ t[k] = r[k - m]
      <4>1. k - m \in 1 .. n \/ k - m = n + 1
        BY <1>1, <3>2
      <4>2. CASE k - m \in 1 .. n
        <5>1. PICK cr \in crs : r[k - m].others = d.ca[cr].lits \ {p}
          BY <1>1, <4>2
        <5> QED
          BY <3>2, <5>1
      <4>3. CASE k - m = n + 1
        <5>1. VarsOf(t[k].others) = {}
          BY <1>1, <3>2, <4>3 DEF VarsOf
        <5> QED
          BY <5>1
      <4> QED
        BY <4>1, <4>2, <4>3
    <3> QED
      BY <1>3, <3>1, <3>2
  <2>2. ASSUME NEW k \in 1 .. m PROVE VarsOf(s[k].others) \subseteq A
    <3>1. k \in 1 .. Len(t) /\ t[k] = s[k]
      BY <1>1, <1>3
    <3> QED
      BY <3>1
  <2>3. ASSUME NEW cr \in crs PROVE VarsOf(d.ca[cr].lits \ {p}) \subseteq A
    <3>1. PICK k \in 1 .. n : r[k].others = d.ca[cr].lits \ {p}
      BY <1>1
    <3>2. k \in 1 .. n + 1
      BY <1>1
    <3>3. m + k \in 1 .. Len(t) /\ t[m + k].others = d.ca[cr].lits \ {p}
      BY <1>3, <3>1, <3>2
    <3> QED
      BY <3>3
  <2>4. A \subseteq B \cup C
    BY <2>1
  <2>5. B \subseteq A /\ C \subseteq A
    BY <2>2, <2>3
  <2> HIDE DEF A, B, C
  <2> QED
    BY <2>4, <2>5
<1>11. Named(t) = Named(s) \cup {v} \cup UNION {VarsOf(d.ca[cr].lits) : cr \in crs}
  <2> DEFINE D == UNION {VarsOf(d.ca[cr].lits) : cr \in crs}
  <2>1. C \subseteq D /\ D \subseteq C \cup {v}
    <3>1. ASSUME NEW cr \in crs
          PROVE  VarsOf(d.ca[cr].lits \ {p}) \subseteq D /\ VarsOf(d.ca[cr].lits) \subseteq C \cup {v}
      <4>1. VarsOf(d.ca[cr].lits) = VarsOf(d.ca[cr].lits \ {p}) \cup {v}
        BY <1>7
      <4>2. VarsOf(d.ca[cr].lits) \subseteq D /\ VarsOf(d.ca[cr].lits \ {p}) \subseteq C
        OBVIOUS
      <4> HIDE DEF C, D
      <4> QED
        BY <4>1, <4>2
    <3> QED
      BY <3>1
  <2>2. Named(t) = RecordVars(t) \cup A /\ Named(s) = RecordVars(s) \cup B
    BY DEF Named, m
  <2> HIDE DEF A, B, C, D
  <2>3. Named(t) = Named(s) \cup {v} \cup D
    BY <1>9, <1>10, <2>1, <2>2
  <2> QED
    BY <2>3 DEF D
<1>12. ASSUME NEW k \in 1 .. Len(t), NEW i \in 1 .. k - 1, Var(t[i].lit) = Var(t[k].lit)
       PROVE  t[i].others # {} /\ t[i].lit = (IF t[k].others = {} THEN Neg(t[k].lit) ELSE t[k].lit)
  <2>1. i \in 1 .. Len(t)
    BY <1>1, <1>3
  <2>2. CASE k \in 1 .. m
    <3>1. i \in 1 .. m /\ t[k] = s[k] /\ t[i] = s[i]
      BY <1>3, <2>2
    <3> QED
      BY <1>12, <1>o, <2>2, <3>1
  <2>3. CASE k - m \in 1 .. n + 1 /\ t[k] = r[k - m]
    <3>1. i \notin 1 .. m
      <4>1. ASSUME i \in 1 .. m PROVE FALSE
        <5>1. Var(t[i].lit) \in E /\ Var(t[k].lit) = v
          BY <1>3, <1>5, <1>6, <2>3, <4>1
        <5> QED
          BY <1>12, <5>1 DEF v
      <4> QED
        BY <4>1
    <3>2. i - m \in 1 .. n + 1 /\ t[i] = r[i - m]
      BY <1>3, <2>1, <3>1
    <3>3. i - m \in 1 .. n /\ (k - m \in 1 .. n \/ k - m = n + 1)
      BY <1>1, <1>3, <2>3, <3>2
    <3> QED
      BY <1>1, <1>4, <2>3, <3>2, <3>3
  <2> QED
    BY <1>3, <2>2, <2>3
<1>13. ASSUME NEW i \in 1 .. Len(t), NEW k \in 1 .. Len(t), Var(t[i].lit) \in VarsOf(t[k].others) PROVE k < i
  <2>1. k \in 1 .. m
    <3>1. ASSUME k - m \in 1 .. n + 1, t[k] = r[k - m] PROVE FALSE
      <4>1. Var(t[i].lit) \in E \cup {v}
        BY <1>3, <1>5, <1>6
      <4> QED
        BY <1>13, <1>8, <3>1, <4>1
    <3> QED
      BY <1>3, <3>1
  <2>2. CASE i \in 1 .. m
    BY <1>13, <1>3, <1>o, <2>1, <2>2
  <2>3. CASE i - m \in 1 .. n + 1
    BY <1>3, <2>1, <2>3
  <2> QED
    BY <1>3, <2>2, <2>3
<1>14. ASSUME NEW k \in 1 .. Len(t)
       PROVE  \E j \in k .. Len(t) : t[j].others = {} /\ Var(t[j].lit) = Var(t[k].lit)
  <2>1. CASE k \in 1 .. m
    <3>1. PICK j \in k .. m : s[j].others = {} /\ Var(s[j].lit) = Var(s[k].lit)
      BY <1>o, <2>1
    <3>2. j \in 1 .. m /\ j \in k .. Len(t)
      BY <1>1, <1>3, <2>1
    <3> QED
      BY <1>3, <2>1, <3>1, <3>2
  <2>2. CASE k - m \in 1 .. n + 1 /\ t[k] = r[k - m]
    <3>1. n + 1 \in 1 .. n + 1 /\ m + (n + 1) \in k .. Len(t)
      BY <1>1, <1>3, <2>2
    <3>2. t[m + (n + 1)] = r[n + 1]
      BY <1>3, <3>1
    <3> QED
      BY <1>1, <1>6, <2>2, <3>1, <3>2
  <2> QED
    BY <1>3, <2>1, <2>2
<1>15. RecordVars(t) \subseteq E \cup {v}
  BY <1>9, <1>o
<1>16. Ordered(t, E \cup {v})
  BY <1>12, <1>13, <1>14, <1>15 DEF Ordered
<1> QED
  BY <1>9, <1>11, <1>16 DEF t, v, NamedIn, RecordedAfter

(* What fits the longer records fits the shorter ones, makes the clauses
   that were recorded true, and the other literal only if it must. *)
LEMMA RecordsFit ==
  ASSUME NEW s \in Seq(Records), NEW E, Ordered(s, E), NEW d, NEW p \in Lits, NEW crs, NEW r, Tells_(r, d, p, crs),
         Var(p) \notin E, NEW u \in Assignments, Fits(s \o r, u), \A cr \in crs : p \in d.ca[cr].lits
  PROVE  /\ Fits(s, u)
         /\ \A cr \in crs : SatisfiesClause(u, d.ca[cr].lits)
         /\ Makes(u, Neg(p)) \/ \E cr \in crs : \A q \in d.ca[cr].lits : q = p \/ ~Makes(u, q)
<1> DEFINE t == s \o r
           m == Len(s)
           n == Len(r) - 1
<1>1. /\ r \in Seq(Records) /\ n \in Nat
      /\ r[n + 1].lit = Neg(p) /\ r[n + 1].others = {}
      /\ \A k \in 1 .. n : /\ r[k].lit = p /\ r[k].others # {}
                           /\ \E cr \in crs : r[k].others = d.ca[cr].lits \ {p}
      /\ \A cr \in crs : \E k \in 1 .. n : r[k].others = d.ca[cr].lits \ {p}
  BY DEF Tells_
<1>2. Len(r) = n + 1
  BY <1>1
<1>3. /\ t \in Seq(Records) /\ Len(t) = m + (n + 1) /\ m \in Nat
      /\ \A k \in 1 .. m : t[k] = s[k]
      /\ \A k \in 1 .. n + 1 : t[m + k] = r[k] /\ m + k \in 1 .. Len(t)
      /\ \A k \in 1 .. Len(t) : k \in 1 .. m \/ (k - m \in 1 .. n + 1 /\ t[k] = r[k - m])
  BY <1>1, <1>2, JoinedRecords
<1>4. Var(Neg(p)) = Var(p)
  BY LitFacts
<1>5. \A k \in 1 .. m : Var(s[k].lit) \in E
  BY DEF Ordered, RecordVars
<1>6. \A k \in 1 .. Len(t) :
        IF t[k].others # {} THEN Falsifies(u, t[k].others) => Makes(u, t[k].lit)
        ELSE \/ Makes(u, t[k].lit)
             \/ \E i \in 1 .. k - 1 : Var(t[i].lit) = Var(t[k].lit) /\ Falsifies(u, t[i].others)
  BY DEF Fits
<1> HIDE DEF t, m, n
<1>7. ASSUME NEW k \in 1 .. m
      PROVE  IF s[k].others # {} THEN Falsifies(u, s[k].others) => Makes(u, s[k].lit)
             ELSE \/ Makes(u, s[k].lit)
                  \/ \E i \in 1 .. k - 1 : Var(s[i].lit) = Var(s[k].lit) /\ Falsifies(u, s[i].others)
  <2>1. k \in 1 .. Len(t) /\ t[k] = s[k]
    BY <1>1, <1>3
  <2>2. \A i \in 1 .. k - 1 : t[i] = s[i]
    BY <1>3
  <2> QED
    BY <1>6, <2>1, <2>2
<1>8. Fits(s, u)
  BY <1>7 DEF Fits, m
<1>9. ASSUME NEW cr \in crs PROVE SatisfiesClause(u, d.ca[cr].lits)
  <2>1. PICK k \in 1 .. n : r[k].others = d.ca[cr].lits \ {p}
    BY <1>1
  <2>2. k \in 1 .. n + 1
    BY <1>1
  <2>3. m + k \in 1 .. Len(t) /\ t[m + k] = r[k] /\ r[k].lit = p /\ r[k].others # {}
    BY <1>1, <1>3, <2>2
  <2>4. Falsifies(u, r[k].others) => Makes(u, p)
    BY <1>6, <2>3
  <2> QED
    BY <2>1, <2>4 DEF Falsifies, SatisfiesClause
<1>10. ASSUME ~Makes(u, Neg(p)) PROVE \E cr \in crs : \A q \in d.ca[cr].lits : q = p \/ ~Makes(u, q)
  <2>1. n + 1 \in 1 .. n + 1
    BY <1>1
  <2>2. m + (n + 1) \in 1 .. Len(t) /\ t[m + (n + 1)] = r[n + 1]
    BY <1>3, <2>1
  <2>3. PICK i \in 1 .. (m + (n + 1)) - 1 : Var(t[i].lit) = Var(p) /\ Falsifies(u, t[i].others)
    BY <1>1, <1>10, <1>4, <1>6, <2>2
  <2>4. i \notin 1 .. m
    BY <1>3, <1>5, <2>3
  <2>5. i \in 1 .. Len(t) /\ i - m \in 1 .. n
    BY <1>1, <1>3, <2>4
  <2>6. t[i] = r[i - m]
    BY <1>3, <2>4, <2>5
  <2>7. PICK cr \in crs : r[i - m].others = d.ca[cr].lits \ {p}
    BY <1>1, <2>5
  <2> QED
    BY <2>3, <2>6, <2>7 DEF Falsifies
<1> QED
  BY <1>8, <1>9, <1>10

-----------------------------------------------------------------------------
(* How a model of what is left becomes one of what was given. *)

(* A user substitutes before anything is eliminated. *)
Substitutes(calls) == \E k \in 1 .. Len(calls) : calls[k].call = "substitute"
Early(calls) ==
  \A i, j \in 1 .. Len(calls) :
    i < j /\ calls[j].call = "substitute" => calls[i].call \notin {"eliminate", "solve"}
SubstitutesFirst == \A s \in Scripts : Early(s.calls)

(* From what the database says and what is recorded follows what was given. *)
Recovers(d, g, R) ==
  \A w \in Says(d), u \in Assignments :
    MakesAll(w, R) /\ Alike(u, w, d.eliminated) /\ Fits(d.elimclauses, u) => Satisfies(u, g)

(* What is still to be called substitutes first. *)
Timely == Early(script) /\ (Substitutes(script) => pc = "idle" /\ db.elimclauses = <<>>)
(* What was given or recorded and is not eliminated is a variable of the
   user's; what is eliminated was recorded. *)
Mentioned == VarsOf(UNION given) \cup Named(db.elimclauses)
Naming ==
  /\ Mentioned \ db.eliminated \subseteq 0 .. next_var - 1
  /\ Mentioned \cap db.eliminated \subseteq RecordVars(db.elimclauses)
(* No variable that is recorded can be given back or taken again. *)
Numbering == ~db.simp => Named(db.elimclauses) \ db.eliminated \subseteq 0 .. max_simp_var - 1
Apart == VarsOf(Returned) \cap Named(db.elimclauses) = {}
(* The records undo what elimination took away. *)
Recovery == db.ok => Recovers(db, given, Returned)
Extensible ==
  Timely /\ Ordered(db.elimclauses, db.eliminated) /\ Naming /\ Numbering /\ Apart /\ Recovery

(* Nothing is recorded at first. *)
LEMMA InitExtensible ==
  ASSUME SubstitutesFirst, Init
  PROVE  Extensible
<1>1. PICK s \in Scripts : script = s.calls
  BY DEF Init
<1>2. db.elimclauses = <<>> /\ db.eliminated = {} /\ db.simp = TRUE /\ given = {} /\ pc = "idle"
  BY DEF Init
<1>3. Len(db.elimclauses) = 0
  BY <1>2
<1>4. RecordVars(db.elimclauses) = {} /\ Named(db.elimclauses) = {}
  BY <1>3 DEF RecordVars, Named
<1>5. Ordered(db.elimclauses, db.eliminated)
  BY <1>3, <1>4 DEF Ordered
<1>6. Mentioned = {}
  BY <1>2, <1>4 DEF Mentioned, VarsOf
<1>7. \A u : Satisfies(u, given)
  BY <1>2 DEF Satisfies
<1>8. Naming /\ Numbering /\ Apart
  BY <1>4, <1>6 DEF Naming, Numbering, Apart
<1> QED
  BY <1>1, <1>2, <1>5, <1>7, <1>8 DEF SubstitutesFirst, Extensible, Timely, Recovery, Recovers

(* The calls that are left are in this order too. *)
LEMMA TimelyNext ==
  ASSUME Right, Timely, pc = "idle" => db'.elimclauses = db.elimclauses,
         \/ script' = script /\ (pc = "idle" => pc' = "idle")
         \/ /\ script # <<>> /\ script' = Tail(script) /\ pc = "idle"
            /\ pc' = "idle" \/ Call.call \in {"eliminate", "solve"}
  PROVE  Timely'
<1>1. script \in Seq(Calls)
  BY DEF Right, UserTypes
<1>2. CASE script' = script /\ (pc = "idle" => pc' = "idle")
  BY <1>2 DEF Timely
<1>3. CASE /\ script # <<>> /\ script' = Tail(script) /\ pc = "idle"
           /\ pc' = "idle" \/ Call.call \in {"eliminate", "solve"}
  <2> DEFINE s == script
             t == Tail(script)
             n == Len(s)
  <2>1. Len(t) = n - 1 /\ (\A k \in 1 .. Len(t) : t[k] = s[k + 1]) /\ Head(s) = s[1]
    BY <1>1, <1>3, HeadTailProperties
  <2>2. n \in Nat \ {0}
    BY <1>1, <1>3, EmptySeq
  <2>3. Call = s[1]
    BY <2>1 DEF Call
  <2>4. Early(s) /\ (Substitutes(s) => db.elimclauses = <<>>)
    BY DEF Timely
  <2> HIDE DEF n, t, s
  <2>5. \A k \in 1 .. Len(t) : k + 1 \in 1 .. n /\ t[k] = s[k + 1] /\ 1 < k + 1
    BY <2>1, <2>2
  <2>6. Early(t)
    <3>1. SUFFICES ASSUME NEW i \in 1 .. Len(t), NEW j \in 1 .. Len(t), i < j, t[j].call = "substitute"
                   PROVE  t[i].call \notin {"eliminate", "solve"}
      BY DEF Early
    <3>2. i + 1 < j + 1
      BY <3>1
    <3> QED
      BY <2>4, <2>5, <3>1, <3>2 DEF Early, n
  <2>7. Substitutes(t) => Substitutes(s)
    BY <2>5 DEF Substitutes, n
  <2>8. Substitutes(t) => s[1].call \notin {"eliminate", "solve"}
    <3>1. 1 \in 1 .. n
      BY <2>2
    <3> QED
      BY <2>4, <2>5, <3>1 DEF Early, Substitutes, n
  <2>9. script' = t
    BY <1>3 DEF t
  <2> QED
    BY <1>3, <2>3, <2>4, <2>6, <2>7, <2>8, <2>9 DEF Timely
<1> QED
  BY <1>2, <1>3

(* A step that changes neither the clauses given nor what is recorded, and
   by which the database says no less. *)
LEMMA SameRecords ==
  ASSUME Right, Right', Extensible, Timely', UNCHANGED given, Returned' = Returned, next_var' >= next_var,
         db'.elimclauses = db.elimclauses, db'.eliminated = db.eliminated, db'.ok => db.ok,
         db'.ok => \A w \in Says(db') : MakesAll(w, Returned) => w \in Says(db),
         (db'.simp = db.simp /\ max_simp_var' = max_simp_var) \/ max_simp_var' = next_var'
  PROVE  Extensible'
<1>1. Mentioned' = Mentioned
  BY DEF Mentioned
<1>2. Ordered(db.elimclauses, db.eliminated)'
  BY DEF Extensible
<1>3. Naming'
  <2>1. next_var \in Nat /\ next_var' \in Nat
    BY DEF Right, UserTypes
  <2>2. 0 .. next_var - 1 \subseteq 0 .. next_var' - 1
    BY <2>1, LongerRange
  <2> QED
    BY <1>1, <2>2 DEF Extensible, Naming
<1>4. Numbering'
  BY <1>1, <1>3 DEF Extensible, Naming, Numbering, Mentioned
<1>5. Apart'
  BY DEF Extensible, Apart
<1>6. Recovery'
  BY DEF Extensible, Recovery, Recovers
<1> QED
  BY <1>2, <1>3, <1>4, <1>5, <1>6 DEF Extensible

(* A quiet step. *)
LEMMA QuietRecords ==
  ASSUME Right, Right', Extensible, Timely', Quiet(db, db'), next_var' >= next_var,
         UNCHANGED <<given, released_vars, free_vars, max_simp_var>>
  PROVE  Extensible'
<1>1. /\ db'.elimclauses = db.elimclauses /\ db'.eliminated = db.eliminated /\ db'.simp = db.simp
      /\ (db'.ok => db.ok) /\ (db'.ok => \A w \in Says(db') : w \in Says(db))
  BY DEF Quiet, Kept_
<1>2. Returned' = Returned
  BY DEF Returned, FreeLits
<1> QED
  BY <1>1, <1>2, SameRecords

(* Calls that change no clause. *)
LEMMA CallExtensible ==
  ASSUME Right, Extensible, newVar \/ setFrozen \/ freezeVar \/ thaw \/ clearInterrupt \/ Interrupt \/ Solve
  PROVE  Extensible'
<1>1. CASE newVar \/ setFrozen \/ freezeVar \/ thaw \/ Solve
  <2>1. Right' /\ Quiet(db, db')
    BY <1>1, newVarRight, FreezeRight, SolveRight DEF Alike_
  <2>2. /\ script # <<>> /\ script' = Tail(script) /\ pc = "idle"
        /\ pc' = "idle" \/ Call.call \in {"eliminate", "solve"}
        /\ UNCHANGED <<given, released_vars, free_vars, max_simp_var>>
        /\ next_var' = next_var + 1 \/ next_var' = next_var
    BY <1>1 DEF newVar, setFrozen, freezeVar, thaw, Solve, Called
  <2>3. next_var' >= next_var
    BY <2>2 DEF Right, UserTypes
  <2>4. Timely'
    BY <2>1, <2>2, TimelyNext DEF Extensible, Quiet
  <2> QED
    BY <2>1, <2>2, <2>3, <2>4, QuietRecords
<1>2. CASE clearInterrupt \/ Interrupt
  <2>1. Right' /\ db' = db /\ UNCHANGED <<given, next_var, released_vars, free_vars, pc>>
    BY <1>2, InterruptRight
  <2>2. /\ max_simp_var' = max_simp_var
        /\ script' = script \/ (script # <<>> /\ script' = Tail(script) /\ pc = "idle")
    BY <1>2 DEF clearInterrupt, Interrupt, Called, userVars
  <2>3. Quiet(db, db')
    BY <2>1, SameAlike DEF Alike_, Right, DbRight
  <2>4. Timely'
    BY <2>1, <2>2, TimelyNext DEF Extensible
  <2> QED
    BY <2>1, <2>2, <2>3, <2>4, SameNumber, QuietRecords
<1> QED
  BY <1>1, <1>2

(* The loops of eliminate, but for eliminating. *)
LEMMA LoopExtensible ==
  ASSUME Right, Extensible,
         \/ backwardSubsumptionCheck \/ Gather \/ Finished \/ Abandoned \/ Checked
         \/ PickNone \/ PickInterrupted \/ PickSkip \/ Pick \/ asymm \/ asymmDone \/ Kept \/ Collect
  PROVE  Extensible'
<1>1. Right' /\ Quiet(db, db')
  <2>1. CASE backwardSubsumptionCheck
    <3>1. CASE BackwardDone
      <4>1. db' = db
        BY <3>1 DEF BackwardDone
      <4> QED
        BY <2>1, <4>1, backwardRight, SameAlike DEF Alike_, Right, DbRight
    <3>2. CASE BackwardInterrupted \/ CheckClause \/ CheckFact
      BY <2>1, <3>2, backwardRight, BackwardInterruptedQuiet, CheckClauseQuiet, CheckFactQuiet DEF Held_
    <3> QED
      BY <2>1, <3>1, <3>2 DEF backwardSubsumptionCheck
  <2>2. CASE asymm \/ asymmDone
    BY <2>2, asymmRight DEF Held_
  <2>3. CASE \/ Gather \/ Finished \/ Abandoned \/ Checked \/ PickNone \/ PickInterrupted \/ PickSkip
             \/ Pick \/ Kept \/ Collect
    BY <2>3, MainRight, PickRight, KeptRight
  <2> QED
    BY <2>1, <2>2, <2>3
<1>2. pc # "idle" /\ \E next : Loop(next)
  BY DEF backwardSubsumptionCheck, BackwardInterrupted, CheckClause, CheckFact, BackwardDone, Gather, Finished,
         Abandoned, Checked, PickNone, PickInterrupted, PickSkip, Pick, asymm, asymmDone, Kept, Collect
<1>3. UNCHANGED <<script, given, released_vars, free_vars, max_simp_var, next_var>>
  BY <1>2 DEF Loop, userVars
<1>4. Timely'
  BY <1>2, <1>3, TimelyNext DEF Extensible
<1> QED
  BY <1>1, <1>3, <1>4, SameNumber, QuietRecords

(* The end of eliminate: when it turns simplification off it notes which
   variables may be recorded. *)
LEMMA CleanupExtensible ==
  ASSUME Right, Extensible, Cleanup
  PROVE  Extensible'
<1>1. /\ pc = "cleanup" /\ UNCHANGED <<script, options, given, next_var, released_vars, free_vars>>
      /\ max_simp_var' = (IF turn_off THEN next_var ELSE max_simp_var)
      /\ IF turn_off THEN db' = TurnedOff(db) ELSE db' \in checkGarbage(db)
  BY DEF Cleanup
<1>2. Right' /\ Good(db)
  BY CleanupRight DEF Right, DbRight
<1>3. Timely'
  BY <1>1, TimelyNext DEF Extensible
<1>4. CASE ~turn_off
  <2>1. Quiet(db, db')
    BY <1>1, <1>2, <1>4, CollectQuiet
  <2> QED
    BY <1>1, <1>2, <1>3, <1>4, <2>1, SameNumber, QuietRecords
<1>5. CASE turn_off
  <2>1. /\ db'.ok = db.ok /\ db'.elimclauses = db.elimclauses /\ db'.eliminated = db.eliminated
        /\ Says(db') = Says(db)
    BY <1>1, <1>2, <1>5, TurnedOffStep
  <2>2. Returned' = Returned
    BY <1>1 DEF Returned, FreeLits
  <2> QED
    BY <1>1, <1>2, <1>3, <1>5, <2>1, <2>2, SameNumber, SameRecords
<1> QED
  BY <1>4, <1>5

(* simplify, which forgets the values of released variables. *)
LEMMA SimplifyExtensible ==
  ASSUME Right, Right', Sound, Extensible, Timely', Simplify, UNCHANGED <<given, next_var, max_simp_var>>
  PROVE  Extensible'
<1>1. CASE UNCHANGED <<db, released_vars, free_vars>>
  <2>1. Quiet(db, db')
    BY <1>1, SameAlike DEF Alike_, Right, DbRight
  <2> QED
    BY <1>1, <2>1, SameNumber, QuietRecords
<1>2. CASE /\ Lessened(db, db', released_vars) /\ db.ok /\ ~db.simp
           /\ released_vars' = {} /\ free_vars' = free_vars \o InOrder(released_vars)
  <2>1. /\ Good(db') /\ db'.simp = db.simp /\ db'.ok = db.ok /\ db'.eliminated = db.eliminated
        /\ db'.elimclauses = db.elimclauses /\ db'.fixed = db.fixed \ released_vars
        /\ \A w \in Assignments : MakesAll(w, db.fixed) =>
             (Satisfies(w, LiveClauses(db)) <=> Satisfies(w, LiveClauses(db')))
    BY <1>2 DEF Lessened
  <2>2. Returned' = Returned
    BY <1>2, <2>1, LessenedFree DEF Sound
  <2>3. ASSUME NEW w \in Says(db'), MakesAll(w, Returned) PROVE w \in Says(db)
    <3>1. w \in Assignments /\ Satisfies(w, LiveClauses(db')) /\ MakesAll(w, db'.fixed)
      BY DEF Says
    <3>2. MakesAll(w, db.fixed)
      BY <2>1, <2>3, <3>1 DEF MakesAll, Returned
    <3> QED
      BY <2>1, <3>1, <3>2 DEF Says
  <2> QED
    BY <1>2, <2>1, <2>2, <2>3, SameNumber, SameRecords
<1> QED
  BY <1>1, <1>2, SimplifyFacts

(* The calls that simplify. *)
LEMMA RestExtensible ==
  ASSUME Right, Sound, Extensible, Eliminate \/ SolveRest
  PROVE  Extensible'
<1>1. CASE Eliminate
  <2>1. Right' /\ Simplify
    BY <1>1, EliminateRight DEF Simplify
  <2>2. /\ script # <<>> /\ script' = Tail(script) /\ Call.call = "eliminate" /\ pc = "idle"
        /\ UNCHANGED <<given, next_var, max_simp_var>>
    BY <1>1 DEF Eliminate, Called
  <2>3. db'.elimclauses = db.elimclauses
    BY <2>1, SimplifyFacts DEF Lessened
  <2>4. Timely'
    BY <2>2, <2>3, TimelyNext DEF Extensible
  <2> QED
    BY <2>1, <2>2, <2>4, SimplifyExtensible
<1>2. CASE SolveRest
  <2>1. /\ Right' /\ Simplify /\ pc = "simplify" /\ UNCHANGED <<script, given, next_var, max_simp_var>>
    BY <1>2, SolveRestRight DEF SolveRest
  <2>2. Timely'
    BY <2>1, TimelyNext DEF Extensible
  <2> QED
    BY <2>1, <2>2, SimplifyExtensible
<1> QED
  BY <1>1, <1>2

(* The search and its end. *)
LEMMA SearchExtensible ==
  ASSUME Right, Sound, Extensible,
         NothingLearned \/ Learn \/ Dead \/ SearchStopped \/ ModelFound \/ NoModel
  PROVE  Extensible'
<1>1. Right' /\ Good(db) /\ (db.ok => Clean(db)) /\ extra_frozen \in SUBSET Vars
  BY SearchRight, AnswerRight DEF Right, DbRight, CallTypes
<1>2. /\ pc # "idle" /\ UNCHANGED <<script, given, next_var, max_simp_var, released_vars, free_vars>>
  BY DEF NothingLearned, Learn, Searching, Dead, SearchStopped, ModelFound, NoModel, Return, userVars
<1>3. Timely'
  BY <1>2, TimelyNext DEF Extensible
<1>4. CASE NothingLearned
  <2>1. Quiet(db, db')
    BY <1>1, <1>4, SameAlike DEF Alike_, NothingLearned
  <2> QED
    BY <1>1, <1>2, <1>3, <2>1, SameNumber, QuietRecords
<1>5. CASE Learn
  <2>1. PICK p \in Lits, q \in Lits : Learnt(db, db', p, q)
    BY <1>5, LearnStep
  <2>2. /\ db'.elimclauses = db.elimclauses /\ db'.eliminated = db.eliminated /\ db'.simp = db.simp
        /\ Says(db') \subseteq Says(db) /\ db.ok
    BY <1>5, <2>1 DEF Learnt, Right, Control, Learn, Searching
  <2>3. Returned' = Returned
    BY <1>2 DEF Returned, FreeLits
  <2> QED
    BY <1>1, <1>2, <1>3, <2>2, <2>3, SameNumber, SameRecords
<1>6. CASE \E ans, mod : Return(db, ans, mod)
  <2>1. Quiet(db, db')
    BY <1>1, <1>6, ReturnFacts DEF Alike_
  <2> QED
    BY <1>1, <1>2, <1>3, <2>1, SameNumber, QuietRecords
<1>7. CASE \E ans, mod : Return([db EXCEPT !.ok = FALSE], ans, mod)
  <2> DEFINE d == [db EXCEPT !.ok = FALSE]
  <2>1. Good(d) /\ d.ok = FALSE /\ Moves(db, d, {})
    BY <1>1, DeadStep
  <2>2. PICK ans, mod : Return(d, ans, mod)
    BY <1>7
  <2> HIDE DEF d
  <2>3. Alike_(d, db')
    BY <1>1, <2>1, <2>2, ReturnFacts
  <2>4. /\ db'.elimclauses = db.elimclauses /\ db'.eliminated = db.eliminated /\ db'.simp = db.simp
        /\ db'.ok = FALSE
    BY <2>1, <2>3 DEF Alike_, Quiet, Moves, Held
  <2>5. Returned' = Returned
    BY <1>2 DEF Returned, FreeLits
  <2> QED
    BY <1>1, <1>2, <1>3, <2>4, <2>5, SameNumber, SameRecords
<1> QED
  BY <1>4, <1>5, <1>6, <1>7 DEF Dead, SearchStopped, ModelFound, NoModel

-----------------------------------------------------------------------------
(* Calls that change what was given. *)

(* A clause is added. *)
LEMMA AddRecords ==
  ASSUME Right, Right', Extensible, Timely', NEW c \in SUBSET Lits, VarsOf(c) \cap db.eliminated = {},
         \A v \in VarsOf(c) : Usable(v), given' = given \cup {c}, Moves(db, db', VarsOf(c)), Kept_(db, db', {c}),
         UNCHANGED <<next_var, max_simp_var>>, Returned \subseteq Returned', Apart'
  PROVE  Extensible'
<1>1. /\ db'.elimclauses = db.elimclauses /\ db'.eliminated = db.eliminated /\ db'.simp = db.simp
      /\ (db'.ok => db.ok)
  BY DEF Moves, Held
<1>2. Mentioned' = Mentioned \cup VarsOf(c)
  <2>1. VarsOf(UNION (given \cup {c})) = VarsOf(UNION given) \cup VarsOf(c)
    BY DEF VarsOf
  <2> QED
    BY <1>1, <2>1 DEF Mentioned
<1>3. VarsOf(c) \subseteq 0 .. next_var - 1
  <2>1. VarsOf(c) \in SUBSET Vars
    BY VarsOfFacts
  <2> QED
    BY <2>1, UsableFacts
<1>4. Naming' /\ Numbering' /\ Ordered(db.elimclauses, db.eliminated)'
  BY <1>1, <1>2, <1>3 DEF Extensible, Naming, Numbering
<1>5. Recovery'
  <2>1. SUFFICES ASSUME db'.ok, NEW w \in Says(db'), NEW u \in Assignments, MakesAll(w, Returned'),
                        Alike(u, w, db'.eliminated), Fits(db'.elimclauses, u)
                 PROVE  Satisfies(u, given')
    BY DEF Recovery, Recovers
  <2>2. w \in Says(db) /\ Satisfies(w, {c})
    BY <2>1 DEF Kept_
  <2>3. MakesAll(w, Returned)
    BY <2>1 DEF MakesAll
  <2>4. Satisfies(u, given)
    BY <1>1, <2>1, <2>2, <2>3 DEF Extensible, Recovery, Recovers
  <2>5. SatisfiesClause(u, c) <=> SatisfiesClause(w, c)
    BY <1>1, <2>1, AlikeMakes
  <2> QED
    BY <2>2, <2>4, <2>5 DEF Satisfies
<1> QED
  BY <1>4, <1>5 DEF Extensible

(* addClause of the user. *)
LEMMA addClauseExtensible ==
  ASSUME Right, Sound, Extensible, addClause
  PROVE  Extensible'
<1> DEFINE c == Call.lits
<1>1. /\ pc = "idle" /\ pc' = pc /\ script # <<>> /\ script' = Tail(script)
      /\ UNCHANGED <<next_var, max_simp_var, released_vars, free_vars>>
      /\ given' = given \cup {c} /\ \A v \in VarsOf(c) : Usable(v)
  BY DEF addClause, Called
<1>2. /\ Right' /\ Moves(db, db', VarsOf(c)) /\ c \in SUBSET Lits /\ VarsOf(c) \cap db.eliminated = {}
      /\ Kept_(db, db', {c})
  BY addClauseRight DEF Sound, Plain
<1> HIDE DEF c
<1>3. db'.elimclauses = db.elimclauses
  BY <1>2 DEF Moves, Held
<1>4. Returned' = Returned
  BY <1>1 DEF Returned, FreeLits
<1>5. Apart'
  BY <1>3, <1>4 DEF Extensible, Apart
<1>6. Timely'
  BY <1>1, <1>3, TimelyNext DEF Extensible
<1> QED
  BY <1>1, <1>2, <1>4, <1>5, <1>6, AddRecords

(* A variable that is given back is recorded nowhere. *)
LEMMA releaseVarExtensible ==
  ASSUME Right, Extensible, releaseVar
  PROVE  Extensible'
<1> DEFINE p == Call.lit
           c == {p}
<1>1. /\ pc = "idle" /\ pc' = pc /\ script # <<>> /\ script' = Tail(script)
      /\ UNCHANGED <<next_var, max_simp_var, free_vars>> /\ Usable(Var(p))
  BY DEF releaseVar, Called
<1>2. /\ Right' /\ p \in Lits /\ Var(p) \notin db.eliminated
      /\ UNCHANGED <<given, db, released_vars>>
            \/ /\ given' = given \cup {{p}} /\ db' = Stored(db, {p})
               /\ Moves(db, db', VarsOf({p})) /\ Kept_(db, db', {{p}})
  BY releaseVarRight
<1>3. \/ UNCHANGED <<given, db, released_vars>>
      \/ released_vars' = (IF MayReuse(Var(p)) THEN released_vars \cup {p} ELSE released_vars)
  BY DEF releaseVar
<1> HIDE DEF p
<1>4. CASE UNCHANGED <<given, db, released_vars>>
  <2>1. Quiet(db, db')
    BY <1>4, SameAlike DEF Alike_, Right, DbRight
  <2>2. Timely'
    BY <1>1, <1>4, TimelyNext DEF Extensible
  <2> QED
    BY <1>1, <1>2, <1>4, <2>1, <2>2, SameNumber, QuietRecords
<1>5. CASE /\ given' = given \cup {c} /\ Moves(db, db', VarsOf(c)) /\ Kept_(db, db', {c})
           /\ released_vars' = (IF MayReuse(Var(p)) THEN released_vars \cup {p} ELSE released_vars)
  <2>1. VarsOf(c) = {Var(p)} /\ c \in SUBSET Lits /\ Var(p) \in Vars
    BY <1>2, LitFacts DEF VarsOf
  <2>2. db'.elimclauses = db.elimclauses
    BY <1>5 DEF Moves, Held
  <2>3. /\ Returned \subseteq Returned' /\ Returned' \subseteq Returned \cup {p}
        /\ ~MayReuse(Var(p)) => Returned' = Returned
    BY <1>1, <1>5 DEF Returned, FreeLits
  <2>4. MayReuse(Var(p)) => Var(p) \notin Named(db.elimclauses)
    <3>1. ASSUME MayReuse(Var(p)), Var(p) \in Named(db.elimclauses) PROVE FALSE
      <4>1. ~db.simp /\ Var(p) >= max_simp_var /\ max_simp_var \in Nat /\ Var(p) \in Nat
        BY <2>1, <3>1 DEF MayReuse, Right, UserTypes, Vars
      <4>2. Var(p) \in 0 .. max_simp_var - 1
        BY <1>2, <3>1, <4>1 DEF Extensible, Numbering
      <4> QED
        BY <4>1, <4>2
    <3> QED
      BY <3>1
  <2>5. VarsOf(Returned') \subseteq VarsOf(Returned) \cup {Var(p)} /\ (~MayReuse(Var(p)) => VarsOf(Returned') = VarsOf(Returned))
    BY <2>3 DEF VarsOf
  <2>6. Apart'
    <3>1. VarsOf(Returned) \cap Named(db.elimclauses) = {}
      BY DEF Extensible, Apart
    <3>2. VarsOf(Returned') \cap Named(db.elimclauses) = {}
      BY <2>4, <2>5, <3>1
    <3> QED
      BY <2>2, <3>2 DEF Apart, VarsOf
  <2>7. Timely'
    BY <1>1, <2>2, TimelyNext DEF Extensible
  <2>8. VarsOf(c) \cap db.eliminated = {} /\ \A v \in VarsOf(c) : Usable(v)
    BY <1>1, <1>2, <2>1
  <2> HIDE DEF c
  <2> QED
    BY <1>1, <1>2, <1>5, <2>1, <2>3, <2>6, <2>7, <2>8, AddRecords
<1> QED
  BY <1>2, <1>3, <1>4, <1>5

(* A variable that is taken again is recorded nowhere. *)
LEMMA ReuseExtensible ==
  ASSUME Right, Sound, Extensible, ReuseVar
  PROVE  Extensible'
<1> DEFINE p == Last(free_vars)
<1>1. /\ pc = "idle" /\ pc' = pc /\ script # <<>> /\ script' = Tail(script)
      /\ UNCHANGED <<next_var, max_simp_var, released_vars>> /\ free_vars # <<>>
      /\ free_vars' = Front(free_vars) /\ given' = Without(given, p)
  BY DEF ReuseVar, Called
<1>2. Right' /\ Alike_(db, db') /\ p \in Lits
  BY ReuseRight
<1>3. /\ db'.ok = db.ok /\ db'.eliminated = db.eliminated /\ db'.simp = db.simp
      /\ db'.elimclauses = db.elimclauses /\ (db'.ok => \A w \in Says(db') : w \in Says(db))
  BY <1>2 DEF Alike_, Quiet, Kept_
<1>4. /\ Free' /\ Returned' = Returned \ {p} /\ p \in Returned /\ p \in FreeLits
      /\ \A q \in Returned \ {p} : Var(q) # Var(p)
  BY <1>1, <1>3, ReuseFree DEF Sound
<1> HIDE DEF p
<1>5. Timely'
  BY <1>1, <1>3, TimelyNext DEF Extensible
<1>6. Mentioned' \subseteq Mentioned
  <2>1. UNION Without(given, p) \subseteq UNION given
    BY DEF Without
  <2>2. VarsOf(UNION Without(given, p)) \subseteq VarsOf(UNION given)
    BY <2>1 DEF VarsOf
  <2> QED
    BY <1>1, <1>3, <2>2 DEF Mentioned
<1>7. Naming' /\ Numbering' /\ Ordered(db.elimclauses, db.eliminated)'
  BY <1>1, <1>3, <1>6 DEF Extensible, Naming, Numbering
<1>8. Var(p) \notin Named(db.elimclauses)
  <2>1. Var(p) \in VarsOf(Returned)
    BY <1>4 DEF VarsOf
  <2> QED
    BY <2>1 DEF Extensible, Apart
<1>9. Apart'
  <2>1. VarsOf(Returned \ {p}) \subseteq VarsOf(Returned)
    BY DEF VarsOf
  <2> QED
    BY <1>3, <1>4, <2>1 DEF Extensible, Apart
<1>10. Recovery'
  <2>1. SUFFICES ASSUME db'.ok, NEW w \in Says(db'), NEW u \in Assignments, MakesAll(w, Returned'),
                        Alike(u, w, db'.eliminated), Fits(db'.elimclauses, u)
                 PROVE  Satisfies(u, given')
    BY DEF Recovery, Recovers
  <2>2. w \in Says(db) /\ w \in Assignments /\ db.ok /\ Good(db) /\ Var(p) \in Vars
    BY <1>2, <1>3, <2>1, LitFacts DEF Says, Right, DbRight
  <2>3. Var(p) \notin Known(db) /\ {p} \in given /\ Var(p) \notin db.eliminated
    <3>1. Var(p) \in VarsOf(FreeLits)
      BY <1>4 DEF VarsOf
    <3> QED
      BY <1>4, <2>2, <3>1 DEF Sound, Free, Forgotten
  <2>4. PICK w1 \in Assignments : AgreeBut(w1, w, Var(p)) /\ Makes(w1, p)
    BY <1>2, <2>2, ChangedVar
  <2>5. PICK u1 \in Assignments : AgreeBut(u1, u, Var(p)) /\ u1[Var(p)] = w1[Var(p)]
    BY <1>2, <2>1, <2>4, ChangedVar
  <2>6. w1 \in Says(db)
    BY <2>2, <2>3, <2>4, UnknownVar
  <2>7. MakesAll(w1, Returned)
    <3>1. ASSUME NEW q \in Returned PROVE Makes(w1, q)
      <4>1. CASE q = p
        BY <2>4, <4>1
      <4>2. CASE q # p
        <5>1. Var(q) # Var(p) /\ q \in Lits /\ Makes(w, q)
          BY <1>4, <2>1, <4>2, FactsType DEF MakesAll, Returned
        <5> QED
          BY <2>4, <5>1, MakesElsewhere
      <4> QED
        BY <4>1, <4>2
    <3> QED
      BY <3>1 DEF MakesAll
  <2>8. Alike(u1, w1, db.eliminated)
    <3>1. ASSUME NEW v \in Vars \ db.eliminated PROVE u1[v] = w1[v]
      <4>1. CASE v = Var(p)
        BY <2>5, <4>1
      <4>2. CASE v # Var(p)
        BY <1>3, <2>1, <2>4, <2>5, <4>2 DEF AgreeBut, Alike
      <4> QED
        BY <4>1, <4>2
    <3> QED
      BY <3>1 DEF Alike
  <2>9. Fits(db.elimclauses, u1)
    <3> DEFINE s == db.elimclauses
    <3>1. s \in Seq(Records)
      BY <2>2 DEF Good, DbType, Values
    <3>2. Fits(s, u)
      BY <1>3, <2>1
    <3>3. ASSUME NEW k \in 1 .. Len(s), NEW q, q = s[k].lit \/ q \in s[k].others PROVE Makes(u1, q) <=> Makes(u, q)
      <4>1. s[k] \in Records
        BY <3>1
      <4>2. q \in Lits
        BY <3>3, <4>1 DEF Records
      <4>3. Var(q) \in Named(s)
        BY <3>3 DEF Named, RecordVars, VarsOf
      <4> QED
        BY <1>8, <2>5, <4>2, <4>3, MakesElsewhere
    <3>4. Len(s) \in Nat
      BY <3>1
    <3> HIDE DEF s
    <3>5. \A k \in 1 .. Len(s) : (Makes(u1, s[k].lit) <=> Makes(u, s[k].lit)) /\ (Falsifies(u1, s[k].others) <=> Falsifies(u, s[k].others))
      BY <3>3 DEF Falsifies
    <3>6. \A k \in 1 .. Len(s) : \A i \in 1 .. k - 1 : i \in 1 .. Len(s)
      BY <3>4
    <3>7. Fits(s, u1)
      BY <3>2, <3>5, <3>6 DEF Fits
    <3> QED
      BY <3>7 DEF s
  <2>10. Satisfies(u1, given)
    BY <2>2, <2>6, <2>7, <2>8, <2>9 DEF Extensible, Recovery, Recovers
  <2>11. given \in SUBSET SUBSET Lits /\ u1 \in Models(given) /\ AgreeBut(u, u1, Var(p))
    BY <2>5, <2>10 DEF Right, UserTypes, Models, AgreeBut
  <2>12. u \in Models(Without(given, p))
    BY <1>2, <2>1, <2>3, <2>11, GivenAgain
  <2> QED
    BY <1>1, <2>12 DEF Models
<1> QED
  BY <1>5, <1>7, <1>9, <1>10 DEF Extensible

(* A literal is substituted while nothing is recorded yet. *)
LEMMA SubstituteExtensible ==
  ASSUME Right, Sound, Extensible, Substitute
  PROVE  Extensible'
<1> DEFINE v == Call.var
           x == Call.lit
<1>1. /\ pc = "idle" /\ pc' = pc /\ script # <<>> /\ script' = Tail(script) /\ Call.call = "substitute"
      /\ UNCHANGED <<next_var, max_simp_var, released_vars, free_vars>> /\ Usable(Var(x))
      /\ given' = (IF db.ok THEN Renamed(given, v, x) ELSE given)
      /\ ~db.ok => db' = db
  BY DEF Substitute, Called
<1>2. /\ Right' /\ v \in Vars /\ x \in Lits /\ Var(x) # v /\ db.simp
      /\ v \notin db.eliminated /\ Var(x) \notin db.eliminated
      /\ db.ok => /\ Substituted(db, db', v, x)
                  /\ ~options.use_rcheck => TiedModels(db, db', v, x)
      /\ db'.elimclauses = db.elimclauses
  BY SubstituteRight
<1> HIDE DEF v, x
<1>3. Timely'
  BY <1>1, <1>2, TimelyNext DEF Extensible
<1>4. db.elimclauses = <<>>
  <2>1. script \in Seq(Calls)
    BY DEF Right, UserTypes
  <2>2. 1 \in 1 .. Len(script) /\ Call = script[1]
    <3>1. Len(script) \in Nat \ {0} /\ Head(script) = script[1]
      BY <1>1, <2>1, EmptySeq, HeadTailProperties
    <3> QED
      BY <3>1 DEF Call
  <2> QED
    BY <1>1, <2>2 DEF Extensible, Timely, Substitutes
<1>5. CASE ~db.ok
  <2>1. Quiet(db, db') /\ given' = given
    BY <1>1, <1>5, SameAlike DEF Alike_, Right, DbRight
  <2> QED
    BY <1>1, <1>2, <1>3, <2>1, SameNumber, QuietRecords
<1>6. CASE db.ok
  <2>1. TiedModels(db, db', v, x) /\ given' = Renamed(given, v, x) /\ db'.eliminated = db.eliminated \cup {v}
    BY <1>1, <1>2, <1>6 DEF Sound, Plain, Substituted
  <2>2. Len(db.elimclauses) = 0 /\ db'.elimclauses = <<>> /\ Len(db'.elimclauses) = 0
    BY <1>2, <1>4
  <2>3. /\ RecordVars(db.elimclauses) = {} /\ Named(db.elimclauses) = {}
        /\ RecordVars(db'.elimclauses) = {} /\ Named(db'.elimclauses) = {}
    BY <2>2 DEF RecordVars, Named
  <2>4. Ordered(db.elimclauses, db.eliminated)'
    BY <2>2, <2>3 DEF Ordered
  <2>5. given \in SUBSET SUBSET Lits /\ Renamed(given, v, x) = {RenClause(c, v, x) : c \in given}
    BY DEF Right, UserTypes, Renamed, RenClause, RenLit
  <2>6. VarsOf(UNION Renamed(given, v, x)) \subseteq (VarsOf(UNION given) \cup {Var(x)}) \ {v}
    <3>1. ASSUME NEW c \in given PROVE VarsOf(RenClause(c, v, x)) \subseteq (VarsOf(UNION given) \cup {Var(x)}) \ {v}
      <4>1. c \in SUBSET Lits /\ VarsOf(c) \subseteq VarsOf(UNION given)
        BY <2>5 DEF VarsOf
      <4>2. v \notin VarsOf(RenClause(c, v, x)) /\ VarsOf(RenClause(c, v, x)) \subseteq VarsOf(c) \cup {Var(x)}
        BY <1>2, <4>1, RenFacts
      <4> QED
        BY <4>1, <4>2
    <3>2. ASSUME NEW z \in VarsOf(UNION Renamed(given, v, x)) PROVE \E c \in given : z \in VarsOf(RenClause(c, v, x))
      BY <2>5 DEF VarsOf
    <3> QED
      BY <3>1, <3>2
  <2>7. Naming'
    <3>1. {Var(x)} \in SUBSET Vars
      BY <1>2, LitFacts
    <3>2. {Var(x)} \subseteq 0 .. next_var - 1
      BY <1>1, <3>1, UsableFacts
    <3>3. Mentioned = VarsOf(UNION given) /\ Mentioned' = VarsOf(UNION given')
      BY <2>3 DEF Mentioned
    <3>4. Mentioned \cap db.eliminated = {} /\ Mentioned \ db.eliminated \subseteq 0 .. next_var - 1
      BY <2>3 DEF Extensible, Naming
    <3>5. Mentioned' \subseteq 0 .. next_var - 1 /\ Mentioned' \cap db'.eliminated = {}
      BY <1>2, <2>1, <2>6, <3>2, <3>3, <3>4
    <3> QED
      BY <1>1, <3>5 DEF Naming
  <2>8. Numbering' /\ Apart'
    BY <2>3 DEF Numbering, Apart
  <2>9. Recovery'
    <3>1. SUFFICES ASSUME db'.ok, NEW w \in Says(db'), NEW u \in Assignments, Alike(u, w, db'.eliminated)
                   PROVE  Satisfies(u, given')
      BY DEF Recovery, Recovers
    <3>2. w \in Assignments /\ Tie(w, v, x) \in Says(db)
      BY <2>1, <3>1 DEF TiedModels, Says
    <3>3. /\ Tied(Tie(w, v, x), v, x) /\ AgreeBut(Tie(w, v, x), w, v)
          /\ \A p \in Lits : Var(p) # v => (Makes(Tie(w, v, x), p) <=> Makes(w, p))
      BY <1>2, <3>2, TieFacts
    <3>4. /\ Tie(u, v, x) \in Assignments /\ Tied(Tie(u, v, x), v, x) /\ AgreeBut(Tie(u, v, x), u, v)
          /\ \A p \in Lits : Var(p) # v => (Makes(Tie(u, v, x), p) <=> Makes(u, p))
          /\ \A c \in SUBSET Lits : SatisfiesClause(u, RenClause(c, v, x)) <=> SatisfiesClause(Tie(u, v, x), c)
      BY <1>2, <3>1, TieFacts
    <3>5. Makes(u, x) = Makes(w, x)
      <4>1. Var(x) \in Vars \ db'.eliminated
        BY <1>2, <2>1, LitFacts
      <4>2. u[Var(x)] = w[Var(x)]
        BY <3>1, <4>1 DEF Alike
      <4> QED
        BY <4>2 DEF Makes
    <3>6. Alike(Tie(u, v, x), Tie(w, v, x), db.eliminated)
      <4>1. ASSUME NEW z \in Vars \ db.eliminated PROVE Tie(u, v, x)[z] = Tie(w, v, x)[z]
        <5>1. CASE z = v
          <6>1. Tie(u, v, x)[v] = Makes(u, x) /\ Tie(w, v, x)[v] = Makes(w, x)
            BY <1>2, <3>1, <3>2 DEF Tie, Assignments
          <6> QED
            BY <3>5, <5>1, <6>1
        <5>2. CASE z # v
          <6>1. z \in Vars \ {v} /\ z \in Vars \ db'.eliminated
            BY <2>1, <5>2
          <6> QED
            BY <3>1, <3>3, <3>4, <6>1 DEF AgreeBut, Alike
        <5> QED
          BY <5>1, <5>2
      <4> QED
        BY <4>1 DEF Alike
    <3>7. Returned = {} /\ MakesAll(Tie(w, v, x), Returned)
      BY <1>2 DEF Sound, Free, Returned, FreeLits, MakesAll
    <3>8. Fits(db.elimclauses, Tie(u, v, x))
      BY <2>2 DEF Fits
    <3>9. Satisfies(Tie(u, v, x), given)
      BY <1>6, <3>2, <3>4, <3>6, <3>7, <3>8 DEF Extensible, Recovery, Recovers
    <3> QED
      BY <2>1, <2>5, <3>4, <3>9 DEF Satisfies
  <2> QED
    BY <1>3, <2>4, <2>7, <2>8, <2>9 DEF Extensible
<1> QED
  BY <1>5, <1>6

-----------------------------------------------------------------------------
(* A variable is resolved away. *)

(* An assignment that satisfies the clauses recorded agrees with what was
   said before, if the clauses of the other sign were right about it. *)
LEMMA SaidBefore ==
  ASSUME NEW d, Good(d), Clean(d), NEW v \in Vars, v \notin VarsOf(d.fixed), NEW p \in Lits, Var(p) = v,
         NEW crs, crs \in SUBSET Live(d), \A o \in Live(d) : p \in d.ca[o].lits <=> o \in crs,
         NEW u \in Assignments, NEW m \in Says(d), Alike(u, m, d.eliminated \cup {v}),
         \A o \in crs : SatisfiesClause(u, d.ca[o].lits),
         Makes(u, Neg(p)) \/ \E o \in crs : \A q \in d.ca[o].lits : q = p \/ ~Makes(u, q)
  PROVE  \E w \in Says(d) : Alike(u, w, d.eliminated)
<1>1. PICK w \in Assignments : AgreeBut(w, m, v) /\ w[v] = u[v]
  <2>1. m \in Assignments
    BY DEF Says
  <2> QED
    BY <2>1, ChangedVar
<1>2. Alike(u, w, d.eliminated)
  <2>1. ASSUME NEW z \in Vars \ d.eliminated PROVE u[z] = w[z]
    <3>1. CASE z = v
      BY <1>1, <3>1
    <3>2. CASE z # v
      BY <1>1, <3>2 DEF AgreeBut, Alike
    <3> QED
      BY <3>1, <3>2
  <2> QED
    BY <2>1 DEF Alike
<1>3. \A o \in Live(d) : d.ca[o].lits \in SUBSET Lits /\ VarsOf(d.ca[o].lits) \cap d.eliminated = {}
  BY EntryFacts DEF Good, DbType, Live, Clean
<1>4. \A o \in Live(d) : \A q \in d.ca[o].lits : Makes(u, q) <=> Makes(w, q)
  BY <1>2, <1>3, AlikeMakes
<1>5. \A q \in Lits : Var(q) # v => (Makes(w, q) <=> Makes(m, q))
  BY <1>1, MakesElsewhere
<1>6. ASSUME NEW q \in d.fixed PROVE Makes(w, q)
  <2>1. q \in Lits /\ Var(q) # v /\ Makes(m, q)
    BY DEF Says, MakesAll, VarsOf, Good, DbType, Values
  <2> QED
    BY <1>5, <2>1
<1>7. ASSUME NEW o \in Live(d) PROVE SatisfiesClause(w, d.ca[o].lits)
  <2>1. CASE o \in crs
    <3>1. PICK q \in d.ca[o].lits : Makes(u, q)
      BY <2>1 DEF SatisfiesClause
    <3> QED
      BY <1>4, <3>1 DEF SatisfiesClause
  <2>2. CASE o \notin crs
    <3>1. p \notin d.ca[o].lits
      BY <2>2
    <3>2. PICK q \in d.ca[o].lits : Makes(m, q)
      BY SaysFacts DEF SatisfiesClause, Says
    <3>3. q \in Lits
      BY <1>3, <3>2
    <3>4. CASE Var(q) # v
      BY <1>5, <3>2, <3>3, <3>4 DEF SatisfiesClause
    <3>5. CASE Var(q) = v
      <4>1. q = Neg(p)
        BY <3>1, <3>2, <3>3, <3>5, SameVar
      <4>2. CASE Makes(u, Neg(p))
        BY <1>4, <3>2, <4>1, <4>2 DEF SatisfiesClause
      <4>3. CASE \E b \in crs : \A x \in d.ca[b].lits : x = p \/ ~Makes(u, x)
        <5>1. PICK b \in crs : \A x \in d.ca[b].lits : x = p \/ ~Makes(u, x)
          BY <4>3
        <5>2. b \in Live(d)
          BY <5>1
        <5>3. PICK x \in d.ca[b].lits : Makes(m, x)
          BY <5>2, SaysFacts DEF SatisfiesClause, Says
        <5>4. x \in Lits
          BY <1>3, <5>2, <5>3
        <5>5. x # p
          <6>1. Makes(m, Neg(p)) /\ m \in Assignments
            BY <3>2, <4>1 DEF Says
          <6>2. ~Makes(m, p)
            BY <6>1, MakesNeg
          <6> QED
            BY <5>3, <6>2
        <5>6. ~Makes(u, x)
          BY <5>1, <5>3, <5>5
        <5>7. Var(x) = v
          <6>1. ~Makes(w, x)
            BY <1>4, <5>2, <5>3, <5>6
          <6> QED
            BY <1>5, <5>3, <5>4, <6>1
        <5>8. x = Neg(p) /\ Neg(p) \in d.ca[b].lits /\ p \in d.ca[b].lits
          BY <5>2, <5>1, <5>3, <5>4, <5>5, <5>7, SameVar
        <5>9. ~Contradicts(d.ca[b].lits)
          BY <5>2 DEF Good, Proper
        <5> QED
          BY <5>8, <5>9 DEF Contradicts
      <4> QED
        BY <4>2, <4>3
    <3> QED
      BY <3>4, <3>5
  <2> QED
    BY <2>1, <2>2
<1>8. w \in Says(d)
  BY <1>1, <1>6, <1>7, SaysFacts DEF MakesAll
<1> QED
  BY <1>2, <1>8

(* Resolving a variable away records what its values followed from. *)
LEMMA EliminatedExtensible ==
  ASSUME Right, Sound, Extensible, Eliminated
  PROVE  Extensible'
<1> DEFINE r == Restored
           v == elim
           pos == WithLit(r, v, mkLit(v, 0))
           neg == WithLit(r, v, mkLit(v, 1))
           s == db.elimclauses
           E == db.eliminated
<1>1. /\ Quiet(db, r) /\ r.ok = db.ok /\ r.fixed = db.fixed /\ r.ca = db.ca /\ r.elimclauses = s /\ r.eliminated = E
      /\ Good(r) /\ Clean(r) /\ r.ok /\ r.simp /\ db.simp
  BY RestoredQuiet, RestoredOk DEF Quiet
<1>2. /\ Resolved(r, db', v) /\ SameModels(r, db', v) /\ v \in Vars \ E
      /\ db'.elimclauses = s \o RecordsOf(r, v)
  BY EliminatedResolved DEF Sound, Plain
<1>3. /\ Right' /\ pc = "elim" /\ Loop(After(db')) /\ v \notin VarsOf(db.fixed)
      /\ UNCHANGED <<script, given, next_var, released_vars, free_vars>>
  BY EliminatedRight DEF Eliminated, MayEliminate, AssignedVars, Loop, userVars
<1>4. Returned = {} /\ Returned' = {}
  BY <1>1, <1>3 DEF Sound, Free, Returned, FreeLits
<1>5. db'.eliminated = E \cup {v} /\ db'.simp
  BY <1>1, <1>2 DEF Resolved
<1>6. /\ pos \in SUBSET Live(r) /\ neg \in SUBSET Live(r)
      /\ \A o \in Live(r) : v \in VarsOf(r.ca[o].lits) <=> o \in pos \cup neg
      /\ \A o \in pos : mkLit(v, 0) \in r.ca[o].lits
      /\ \A o \in neg : mkLit(v, 1) \in r.ca[o].lits
  BY <1>1, <1>2, SplitFacts
<1>7. /\ mkLit(v, 0) \in Lits /\ mkLit(v, 1) \in Lits /\ Var(mkLit(v, 0)) = v /\ Var(mkLit(v, 1)) = v
      /\ Neg(mkLit(v, 0)) = mkLit(v, 1) /\ Neg(mkLit(v, 1)) = mkLit(v, 0)
  BY <1>2, MkLitFacts
<1>8. \A o \in Live(r) : /\ r.ca[o].lits \in SUBSET Lits /\ VarsOf(r.ca[o].lits) \cap E = {}
                         /\ ~Contradicts(r.ca[o].lits) /\ VarsOf(r.ca[o].lits) \subseteq LiveVars(db)
  <2>1. Memory(r) /\ Proper(r) /\ Clean(r) /\ Live(r) = Live(db)
    BY <1>1 DEF Good, DbType, Live
  <2>2. SUFFICES ASSUME NEW o \in Live(r)
                 PROVE  /\ r.ca[o].lits \in SUBSET Lits /\ VarsOf(r.ca[o].lits) \cap E = {}
                        /\ ~Contradicts(r.ca[o].lits) /\ VarsOf(r.ca[o].lits) \subseteq LiveVars(db)
    OBVIOUS
  <2>3. r.ca[o] = db.ca[o] /\ r.eliminated = E
    BY <1>1
  <2> HIDE DEF r, E
  <2>4. o \in DOMAIN r.ca
    BY <2>2 DEF Live
  <2>5. r.ca[o].lits \in SUBSET Lits
    BY <2>1, <2>4, EntryFacts
  <2>6. VarsOf(r.ca[o].lits) \subseteq LiveVars(db)
    BY <2>1, <2>2, <2>3 DEF LiveVars
  <2> QED
    BY <2>1, <2>2, <2>3, <2>5, <2>6 DEF Proper, Clean
<1>9. /\ \A o \in Live(r) : mkLit(v, 0) \in r.ca[o].lits <=> o \in pos
      /\ \A o \in Live(r) : mkLit(v, 1) \in r.ca[o].lits <=> o \in neg
  <2>1. ASSUME NEW o \in Live(r), NEW p \in {mkLit(v, 0), mkLit(v, 1)}, p \in r.ca[o].lits
        PROVE  o \in pos \cup neg /\ Neg(p) \notin r.ca[o].lits
    <3>1. v \in VarsOf(r.ca[o].lits)
      BY <1>7, <2>1 DEF VarsOf
    <3>2. Neg(p) \notin r.ca[o].lits
      BY <1>8, <2>1 DEF Contradicts
    <3> QED
      BY <1>6, <3>1, <3>2
  <2> HIDE DEF pos, neg, r, v
  <2> QED
    BY <1>6, <1>7, <2>1
<1>10. \E p \in Lits, crs \in SUBSET Live(r) :
         /\ Var(p) = v /\ Tells_(RecordsOf(r, v), r, p, crs)
         /\ \A o \in Live(r) : p \in r.ca[o].lits <=> o \in crs
  <2>1. RecordsOf(r, v) = Recorded(r, v, mkLit(v, 1), neg) \/ RecordsOf(r, v) = Recorded(r, v, mkLit(v, 0), pos)
    BY DEF RecordsOf
  <2>2. Tells_(Recorded(r, v, mkLit(v, 1), neg), r, mkLit(v, 1), neg)
    BY <1>1, <1>6, <1>7, RecordedFacts
  <2>3. Tells_(Recorded(r, v, mkLit(v, 0), pos), r, mkLit(v, 0), pos)
    BY <1>1, <1>6, <1>7, RecordedFacts
  <2> HIDE DEF pos, neg, r, v
  <2> QED
    BY <1>6, <1>7, <1>9, <2>1, <2>2, <2>3
<1> DEFINE new == RecordsOf(r, v)
<1>11. PICK p \in Lits, crs \in SUBSET Live(r) :
         /\ Var(p) = v /\ Tells_(new, r, p, crs)
         /\ \A o \in Live(r) : p \in r.ca[o].lits <=> o \in crs
  BY <1>10
<1>12. s \in Seq(Records) /\ Ordered(s, E)
  BY DEF Extensible, Right, DbRight, Good, DbType, Values
<1> HIDE DEF r, v, s, E, pos, neg, new
<1>13. /\ Ordered(s \o new, E \cup {v}) /\ RecordVars(s \o new) = RecordVars(s) \cup {v}
       /\ Named(s \o new) = Named(s) \cup {v} \cup NamedIn(r, crs)
  <2>1. Var(p) \notin E
    BY <1>2, <1>11
  <2>2. Holders(r, p, crs, E)
    BY <1>8, <1>11 DEF Holders
  <2>3. Tells_(new, r, p, crs)
    BY <1>11
  <2>4. RecordedAfter(s, new, r, p, crs, E)
    BY <1>12, <2>1, <2>2, <2>3, RecordsOrdered
  <2> QED
    BY <1>11, <2>4 DEF RecordedAfter
<1>14. db'.elimclauses = s \o new
  BY <1>2 DEF new
<1>15. Timely'
  <2>1. pc # "idle" /\ UNCHANGED script
    BY <1>3
  <2> QED
    BY <2>1, TimelyNext DEF Extensible
<1>16. Naming'
  <2>1. NamedIn(r, crs) \subseteq LiveVars(db) \ E
    BY <1>8, <1>11 DEF NamedIn
  <2>2. Mentioned' \subseteq Mentioned \cup {v} \cup (LiveVars(db) \ E)
    BY <1>3, <1>13, <1>14, <2>1 DEF Mentioned, s
  <2>3. LiveVars(db) \subseteq 0 .. next_var - 1 /\ Mentioned \ E \subseteq 0 .. next_var - 1
        /\ Mentioned \cap E \subseteq RecordVars(s)
    BY DEF Sound, Room, Extensible, Naming, E, s
  <2>4. Mentioned' \ (E \cup {v}) \subseteq 0 .. next_var - 1
    BY <2>2, <2>3
  <2>5. Mentioned' \cap (E \cup {v}) \subseteq RecordVars(s \o new)
    BY <1>13, <2>2, <2>3
  <2> QED
    BY <1>3, <1>5, <1>14, <2>4, <2>5 DEF Naming
<1>17. Numbering' /\ Apart'
  BY <1>4, <1>5 DEF Numbering, Apart, VarsOf
<1>18. Recovery'
  <2>1. SUFFICES ASSUME db'.ok, NEW w \in Says(db'), NEW u \in Assignments,
                        Alike(u, w, db'.eliminated), Fits(db'.elimclauses, u)
                 PROVE  Satisfies(u, given')
    BY DEF Recovery, Recovers
  <2>2. PICK m \in Says(r) : AgreeBut(m, w, v)
    BY <1>2, <2>1 DEF SameModels
  <2>3. Alike(u, m, E \cup {v})
    BY <1>5, <2>1, <2>2 DEF Alike, AgreeBut
  <2>4. /\ Fits(s, u) /\ \A o \in crs : SatisfiesClause(u, r.ca[o].lits)
        /\ Makes(u, Neg(p)) \/ \E o \in crs : \A q \in r.ca[o].lits : q = p \/ ~Makes(u, q)
    <3>1. Fits(s \o new, u) /\ \A o \in crs : p \in r.ca[o].lits
      BY <1>11, <1>14, <2>1
    <3>2. Var(p) \notin E
      BY <1>2, <1>11
    <3> QED
      BY <1>11, <1>12, <3>1, <3>2, RecordsFit
  <2>5. PICK w1 \in Says(r) : Alike(u, w1, E)
    <3>1. v \notin VarsOf(r.fixed) /\ v \in Vars /\ r.eliminated = E
      BY <1>1, <1>2, <1>3
    <3> QED
      BY <1>1, <1>11, <2>2, <2>3, <2>4, <3>1, SaidBefore
  <2>6. w1 \in Says(db)
    BY <1>1, <2>5 DEF Says, LiveClauses, Live
  <2>7. MakesAll(w1, Returned) /\ db.ok
    BY <1>1, <1>4 DEF MakesAll
  <2> QED
    BY <1>3, <2>4, <2>5, <2>6, <2>7 DEF Extensible, Recovery, Recovers, s, E
<1> QED
  BY <1>5, <1>13, <1>14, <1>15, <1>16, <1>17, <1>18 DEF Extensible

-----------------------------------------------------------------------------
(* Every model that is given out satisfies what was given. *)

(* Extensible is kept. *)
LEMMA ExtensibleStep ==
  ASSUME Right, Sound, Extensible, [Next]_vars
  PROVE  Extensible'
<1>1. CASE newVar \/ setFrozen \/ freezeVar \/ thaw \/ clearInterrupt \/ Interrupt \/ Solve
  BY <1>1, CallExtensible
<1>2. CASE addClause \/ releaseVar \/ ReuseVar \/ Substitute
  BY <1>2, addClauseExtensible, releaseVarExtensible, ReuseExtensible, SubstituteExtensible
<1>3. CASE Eliminate \/ SolveRest
  BY <1>3, RestExtensible
<1>4. CASE backwardSubsumptionCheck
  BY <1>4, LoopExtensible
<1>5. CASE eliminate
  BY <1>5, LoopExtensible, EliminatedExtensible, CleanupExtensible DEF eliminate
<1>6. CASE NothingLearned \/ Learn \/ Dead \/ SearchStopped \/ ModelFound \/ NoModel
  BY <1>6, SearchExtensible
<1>7. CASE UNCHANGED vars
  <2>1. /\ UNCHANGED <<script, given, next_var, released_vars, free_vars, max_simp_var>>
        /\ db' = db /\ pc' = pc
    BY <1>7 DEF vars, userVars
  <2>2. Right' /\ Quiet(db, db')
    BY <1>7, <2>1, SameAlike, RightStep DEF Alike_, Right, DbRight
  <2>3. Timely'
    BY <2>1, TimelyNext DEF Extensible
  <2> QED
    BY <2>1, <2>2, <2>3, SameNumber, QuietRecords
<1>8. CASE Next
  BY <1>1, <1>2, <1>3, <1>4, <1>5, <1>6, <1>8 DEF Next, user, solver
<1> QED
  BY <1>7, <1>8

(* While a call of solve runs, only a model that is found answers "sat". *)
LEMMA OnlyFound ==
  ASSUME Right, Sound, Next, answer = "none", answer' = "sat"
  PROVE  ModelFound
<1>1. pc # "idle"
  BY DEF Sound, Asked
<1>2. ~user
  <2>1. ~(newVar \/ ReuseVar \/ addClause \/ releaseVar \/ setFrozen)
    BY <1>1 DEF newVar, ReuseVar, addClause, releaseVar, setFrozen, Called
  <2>2. ~(freezeVar \/ thaw \/ Substitute \/ Eliminate \/ Solve)
    BY <1>1 DEF freezeVar, thaw, Substitute, Eliminate, Solve, Called
  <2>3. ~clearInterrupt
    BY <1>1 DEF clearInterrupt, Called
  <2> QED
    BY <2>1, <2>2, <2>3 DEF user
<1>3. ~(Interrupt \/ SolveRest \/ NothingLearned \/ Learn \/ Cleanup)
  BY DEF Interrupt, SolveRest, NothingLearned, Learn, Searching, Cleanup, resultVars
<1>4. ASSUME NEW next PROVE ~Loop(next)
  BY DEF Loop, resultVars
<1>5. ~(backwardSubsumptionCheck \/ (eliminate /\ ~Cleanup))
  <2>1. backwardSubsumptionCheck \/ (eliminate /\ ~Cleanup) => \E next : Loop(next)
    BY DEF backwardSubsumptionCheck, BackwardInterrupted, CheckClause, CheckFact, BackwardDone,
       eliminate, Gather, Finished, Abandoned, Checked, PickNone, PickInterrupted, PickSkip, Pick,
       asymm, asymmDone, Eliminated, Kept, Collect
  <2> QED
    BY <1>4, <2>1
<1>6. ~(Dead \/ SearchStopped \/ NoModel)
  BY DEF Dead, SearchStopped, NoModel, Return
<1> QED
  BY <1>2, <1>3, <1>5, <1>6 DEF Next, solver

(* A model gives a value to every variable that is neither eliminated nor
   new. *)
LEMMA GivesValues ==
  ASSUME Right, NEW m \in Solutions(Assumed), NEW v \in 0 .. next_var - 1, v \notin db.eliminated
  PROVE  v \in Vars /\ v \in VarsOf(m)
<1>1. /\ m \in SUBSET Lits /\ Facts \subseteq m
      /\ \A x \in Decidable : mkLit(x, 0) \in m \/ mkLit(x, 1) \in m
  BY SolutionFacts, FactsType
<1>2. v \in Vars /\ v < next_var
  <2>1. next_var \in 0 .. NVars /\ NVars \in Nat
    BY NVarsAssumption DEF Right, UserTypes
  <2> QED
    BY <2>1 DEF Vars
<1>3. CASE v \in VarsOf(Facts)
  BY <1>1, <1>2, <1>3 DEF VarsOf
<1>4. CASE v \notin VarsOf(Facts)
  <2>1. Usable(v) /\ v \notin AssignedVars(db)
    BY <1>2, <1>4 DEF Usable, AssignedVars, VarsOf, Facts
  <2>2. v \in Decidable
    BY <1>2, <2>1 DEF Decidable
  <2>3. mkLit(v, 0) \in m \/ mkLit(v, 1) \in m
    BY <1>1, <2>2
  <2>4. Var(mkLit(v, 0)) = v /\ Var(mkLit(v, 1)) = v
    BY <1>2, MkLitFacts
  <2> QED
    BY <1>2, <2>3, <2>4 DEF VarsOf
<1> QED
  BY <1>2, <1>3, <1>4

(* The model that is given out, extended to the eliminated variables, is
   right. *)
LEMMA ExtendedRight ==
  ASSUME Right, Sound, Extensible, db.ok, solving, pc # "idle", NEW m \in Solutions(Assumed)
  PROVE  ModelRight(extendModel(db, m))
<1> DEFINE s == db.elimclauses
           E == db.eliminated
           mod == extendModel(db, m)
           w == Assigned_(m)
           u == Assigned_(mod)
<1>1. /\ m \in SUBSET Lits /\ ~Contradicts(m) /\ Facts \subseteq m /\ Assumed \subseteq m
      /\ Assumed \in SUBSET Lits /\ Facts = db.fixed \cup released_vars \cup FreeLits
  BY SolutionFacts, FactsType
<1>2. w \in Says(db) /\ MakesAll(w, m)
  BY <1>1, SolutionSays DEF Sound, Assigned_
<1>3. MakesAll(w, Returned)
  BY <1>1, <1>2 DEF MakesAll, Returned
<1>4. s \in Seq(Records) /\ Ordered(s, E)
  BY DEF Extensible, Right, DbRight, Good, DbType, Values
<1>5. PICK h : Down(s, m, h) /\ h[0] = mod
  BY <1>4, ExtendDown
<1>6. Mentioned \ E \subseteq VarsOf(m) /\ Mentioned \cap E \subseteq RecordVars(s)
  BY GivesValues DEF Extensible, Naming
<1>7. Named(s) \subseteq Mentioned /\ VarsOf(UNION given) \subseteq Mentioned
  BY DEF Mentioned
<1> HIDE DEF s, mod
<1>8. /\ mod \in SUBSET Lits /\ ~Contradicts(mod)
      /\ VarsOf(m) \cup RecordVars(s) \subseteq VarsOf(mod)
      /\ \A p \in Lits : Var(p) \notin E => (p \in mod <=> p \in m)
      /\ Fits(s, u)
  <2>1. Named(s) \ E \subseteq VarsOf(m) /\ Named(s) \cap E \subseteq RecordVars(s)
    BY <1>6, <1>7
  <2> HIDE DEF E
  <2> QED
    BY <1>1, <1>4, <1>5, <2>1, ExtendedFits
<1>9. u \in Assignments /\ \A p \in mod : Makes(u, p)
  BY <1>8, AssignMakes
<1>10. Alike(u, w, E)
  <2>1. ASSUME NEW v \in Vars \ E PROVE mkLit(v, 0) \in mod <=> mkLit(v, 0) \in m
    BY <1>8, <2>1, MkLitFacts
  <2>2. ASSUME NEW v \in Vars \ E PROVE u[v] = w[v]
    <3>1. u[v] = (mkLit(v, 0) \in mod) /\ w[v] = (mkLit(v, 0) \in m)
      BY DEF Assigned_
    <3> QED
      BY <2>1, <3>1
  <2> QED
    BY <2>2 DEF Alike
<1>11. Satisfies(u, given)
  <2> HIDE DEF u, w
  <2> QED
    BY <1>2, <1>3, <1>8, <1>9, <1>10 DEF Extensible, Recovery, Recovers, s
<1>12. VarsOf(UNION given) \subseteq VarsOf(mod)
  BY <1>6, <1>7, <1>8
<1>13. ASSUME NEW p \in Assumed PROVE Makes(u, p)
  <2>1. Var(p) \notin E /\ p \in m /\ p \in Lits
    BY <1>1 DEF Sound, Asked, AssumedVars, VarsOf
  <2> QED
    BY <1>8, <1>9, <2>1
<1>14. u = [v \in Vars |-> mkLit(v, 0) \in mod]
  BY DEF Assigned_
<1> HIDE DEF u
<1> QED
  BY <1>8, <1>11, <1>12, <1>13, <1>14 DEF ModelRight, mod

(* Whatever step gives a model out gives a right one. *)
LEMMA ModelsStep ==
  ASSUME Right, Sound, Extensible, [Next]_vars
  PROVE  [options.extend_model /\ answer = "none" /\ answer' = "sat" => ModelRight(model')]_vars
<1>1. SUFFICES ASSUME Next, options.extend_model, answer = "none", answer' = "sat"
               PROVE  ModelRight(model')
  OBVIOUS
<1>2. ModelFound
  BY <1>1, OnlyFound
<1>3. PICK m \in Solutions(Assumed) : model' = extendModel(db, m)
  BY <1>1, <1>2 DEF ModelFound, Return
<1>4. db.ok /\ solving /\ pc # "idle"
  BY <1>1, <1>2 DEF ModelFound, Right, Control, Sound, Asked
<1>5. ModelRight(extendModel(db, m))
  BY <1>4, ExtendedRight
<1> QED
  BY <1>3, <1>5

(* A model that solve gives out with extend_model gives every variable of
   the clauses given a value, satisfies these clauses and the assumptions,
   whatever was eliminated, added, given back or taken again before
   (SimpSolver.cc:577-595), for users who substitute before anything is
   eliminated: a literal that was recorded and substituted later has no
   value in the model. *)
THEOREM ModelsCorrect ==
  ASSUME NeverChecks, Settles, SubstitutesFirst
  PROVE  Spec => ModelsRight
<1>1. Init => Extensible
  BY InitExtensible
<1>2. Right /\ Sound /\ Extensible /\ [Next]_vars => Extensible'
  BY ExtensibleStep
<1>3. Right /\ Sound /\ Extensible /\ [Next]_vars
        => [options.extend_model /\ answer = "none" /\ answer' = "sat" => ModelRight(model')]_vars
  BY ModelsStep
<1> QED
  BY <1>1, <1>2, <1>3, InvariantCorrect, MeaningKept, PTL DEF Spec, ModelsRight
=============================================================================
