----------------------------- MODULE Elimination -----------------------------
(***************************************************************************)
(* minisat/simp/SimpSolver.cc: the solver that simplifies the clauses      *)
(* before it searches.  It removes subsumed clauses, shortens others, and  *)
(* eliminates variables by resolution; models are extended to these        *)
(* afterwards.  Module Cdcl has the search, of which only the result is    *)
(* here: a model of what is left, or none.                                 *)
(*                                                                         *)
(* The clause database is one record d; the helpers of the code are        *)
(* operators from it to the next one, and each step of the solver is one   *)
(* iteration of a loop of the code.  Propagation at level 0 is a closure:  *)
(* the order of the trail is left open.                                    *)
(***************************************************************************)
EXTENDS SatLits, SequencesExt

CONSTANT Scripts   \* what users do: the options they set and the calls they make

Calls == [call : {"newVar", "thaw", "clearInterrupt"}]
           \cup [call : {"addClause"}, lits : SUBSET Lits]
           \cup [call : {"releaseVar"}, lit : Lits]
           \cup [call : {"setFrozen"}, var : Vars, frozen : BOOLEAN]
           \cup [call : {"freezeVar"}, var : Vars]
           \cup [call : {"substitute"}, var : Vars, lit : Lits]
           \cup [call : {"eliminate"}, turn_off : BOOLEAN]
           \cup [call : {"solve"}, assumps : Seq(Lits), do_simp : BOOLEAN,
                 turn_off : BOOLEAN]

(* The mode of operation; interruptible says whether another thread may      *)
(* interrupt the solver.                                                     *)
Options == [grow : Nat, clause_lim : Nat \cup {-1}, subsumption_lim : Nat \cup {-1},
            use_asymm : BOOLEAN, use_rcheck : BOOLEAN, use_elim : BOOLEAN,
            extend_model : BOOLEAN, interruptible : BOOLEAN]

ASSUME ScriptsAssumption ==
  \A s \in Scripts : s.calls \in Seq(Calls) /\ s.options \in Options

VARIABLES
  script, options,
  given,        \* clauses added so far, as the user gave them
  next_var,
  released_vars, free_vars,
  max_simp_var, \* first variable that no recorded clause mentions
  frozen_vars,  \* those freezeVar froze and thaw has not thawed
  db,           \* the clause database
  interrupt,    \* asynch_interrupt
  pc, back,     \* the loop that is running, and where the backward check returns
  elim, at,     \* the variable being simplified, and the position in its list
  was_frozen,
  turn_off,     \* of the call of eliminate
  solving,      \* whether solve called it
  assumptions, extra_frozen,
  answer, model

userVars == <<script, options, given, next_var, released_vars, free_vars, max_simp_var,
              frozen_vars>>
loopVars == <<back, elim, at, was_frozen>>
callVars == <<turn_off, solving, assumptions, extra_frozen>>
resultVars == <<answer, model>>
vars == <<userVars, db, interrupt, pc, loopVars, callVars, resultVars>>

-----------------------------------------------------------------------------
(* The database.  A clause that is removed stays in memory until garbage is  *)
(* collected.                                                                *)

Live(d) == {cr \in DOMAIN d.ca : ~d.ca[cr].removed}
Lists(d, v) == {cr \in d.occurs[v] : ~d.ca[cr].removed}
Falsified(d, p) == Neg(p) \in d.fixed
AssignedVars(d) == VarsOf(d.fixed)
satisfied(d, c) == c \cap d.fixed # {}

(* occurs.lookup: a list that was smudged is cleaned first.                  *)
lookup(d, v) ==
  IF v \in d.dirty THEN [d EXCEPT !.occurs[v] = Lists(d, v), !.dirty = @ \ {v}] ELSE d

Clauses(d) == {d.ca[cr].lits : cr \in Live(d)} \cup d.learnts

(* Op for each element of a sequence in turn; the database is bound, not     *)
(* substituted, so that it is computed once.                                 *)
Each(Op(_, _), base, seq) ==
  LET upTo[k \in 0 .. Len(seq)] ==
        IF k = 0 THEN base ELSE CHOOSE d \in {Op(e, seq[k]) : e \in {upTo[k - 1]}} : TRUE
  IN  upTo[Len(seq)]

(* A set of numbers as a sequence, the least first.                          *)
InOrder(S) ==
  [k \in 1 .. Cardinality(S) |-> CHOOSE x \in S : Cardinality({y \in S : y < x}) = k - 1]

(* enqueue and propagate; every caller gives up after a conflict.            *)
propagate(d, new) ==
  LET all == Closure(Clauses(d), d.fixed \cup new) IN
    IF Contradicts(all) THEN [d EXCEPT !.ok = FALSE]
    ELSE [d EXCEPT !.fixed = all, !.unchecked = @ \cup (all \ d.fixed)]

(* updateElimHeap, for each of vs.                                           *)
Eliminable(d, v) == v \notin d.frozen \cup d.eliminated \cup AssignedVars(d)
updateElimHeap(d, vs) == [d EXCEPT !.elim_heap = @ \cup {v \in vs : Eliminable(d, v)}]

(* Mutant: the lists of a removed clause are not smudged.                    *)
removeClauses_NotSmudged(d, crs) ==
  LET gone(p) == Cardinality({cr \in crs : p \in d.ca[cr].lits}) IN
    [d EXCEPT !.ca = [cr \in DOMAIN d.ca |->
                        [d.ca[cr] EXCEPT !.removed = @ \/ cr \in crs]],
              !.n_occ = [p \in Lits |-> d.n_occ[p] - gone(p)]]
removeClauses(d, crs) ==
  LET gone(p) == Cardinality({cr \in crs : p \in d.ca[cr].lits})
      touchedVars == UNION {VarsOf(d.ca[cr].lits) : cr \in crs}
      removed == [d EXCEPT !.ca = [cr \in DOMAIN d.ca |->
                                     [d.ca[cr] EXCEPT !.removed = @ \/ cr \in crs]]]
  IN  IF ~d.simp THEN removed
      ELSE updateElimHeap([removed EXCEPT !.dirty = @ \cup touchedVars,
                             !.n_occ = [p \in Lits |-> d.n_occ[p] - gone(p)]],
                          touchedVars)

(* Mutant: a clause of one literal stays a clause.                           *)
strengthenClause_Unit(d, cr, l) ==
  updateElimHeap([d EXCEPT !.queue = Append(@, cr), !.ca[cr].lits = @ \ {l},
                           !.occurs[Var(l)] = @ \ {cr}, !.n_occ[l] = @ - 1],
                 {Var(l)})
strengthenClause(d, cr, l) ==
  LET c == d.ca[cr].lits \ {l}
      queued == [d EXCEPT !.queue = Append(@, cr)]
  IN  IF Cardinality(c) = 1 THEN propagate(removeClauses(queued, {cr}), c)
      ELSE updateElimHeap([queued EXCEPT !.ca[cr].lits = c,
                                         !.occurs[Var(l)] = @ \ {cr},
                                         !.n_occ[l] = @ - 1],
                          {Var(l)})

(* References grow, so lists hold their clauses in the order of references.  *)
Fresh(d) == Max(DOMAIN d.ca \cup {0}) + 1
WithClause(ca, cr, c) ==
  [o \in DOMAIN ca \cup {cr} |-> IF o = cr THEN [lits |-> c, removed |-> FALSE] ELSE ca[o]]

(* Mutant: the variables of a new clause are not marked as touched.          *)
Allocated_NotTouched(d, c) ==
  [d EXCEPT !.ca = WithClause(@, Fresh(d), c),
            !.queue = Append(@, Fresh(d)),
            !.occurs = [v \in Vars |-> IF v \in VarsOf(c) THEN @[v] \cup {Fresh(d)} ELSE @[v]],
            !.n_occ = [p \in Lits |-> IF p \in c THEN @[p] + 1 ELSE @[p]]]
Allocated(d, c) ==
  LET cr == Fresh(d)
      stored == [d EXCEPT !.ca = WithClause(@, cr, c)]
  IN  IF ~d.simp THEN stored
      ELSE [stored EXCEPT
              !.queue = Append(@, cr),
              !.occurs = [v \in Vars |-> IF v \in VarsOf(c) THEN @[v] \cup {cr} ELSE @[v]],
              !.n_occ = [p \in Lits |-> IF p \in c THEN @[p] + 1 ELSE @[p]],
              !.touched = @ \cup VarsOf(c)]

(* Solver::addClause_.                                                       *)
Stored(d, c) ==
  LET rest == {p \in c : ~Falsified(d, p)} IN
    IF ~d.ok \/ satisfied(d, c) \/ Contradicts(c) THEN d
    ELSE IF rest = {} THEN [d EXCEPT !.ok = FALSE]
    ELSE IF Cardinality(rest) = 1 THEN propagate(d, rest)
    ELSE Allocated(d, rest)

implied(d, c) ==
  satisfied(d, c) \/ Contradicts(Closure(Clauses(d), d.fixed \cup {Neg(p) : p \in c}))

addClause_(d, c) == IF options.use_rcheck /\ implied(d, c) THEN d ELSE Stored(d, c)

-----------------------------------------------------------------------------
(* Subsumption.                                                              *)

(* gatherTouchedClauses: the clauses of touched variables are queued, those  *)
(* that are in the queue already left out.                                   *)
Queued(d, v) ==
  [lookup(d, v) EXCEPT
     !.queue = @ \o InOrder(Lists(d, v) \ {@[k] : k \in DOMAIN @})]
gatherTouchedClauses(d) ==
  LET all == Each(Queued, d, InOrder(d.touched)) IN [all EXCEPT !.touched = {}]

(* Clause::subsumes: the literals of e that c makes superfluous.             *)
Flips(c, e) == {l \in c : Neg(l) \in e /\ c \ {l} \subseteq e}

Simplified(d, c, cr) ==
  IF d.ca[cr].removed \/ ~d.ok THEN d
  ELSE IF c \subseteq d.ca[cr].lits THEN removeClauses(d, {cr})
  ELSE IF Flips(c, d.ca[cr].lits) # {}
       THEN strengthenClause(d, cr, Neg(CHOOSE l \in Flips(c, d.ca[cr].lits) : TRUE))
  ELSE d

(* A clause, or a fact when cr is 0, is compared with all that share the     *)
(* variable of it that occurs least.                                         *)
best(d, c) ==
  CHOOSE v \in VarsOf(c) :
    \A w \in VarsOf(c) : Cardinality(d.occurs[v]) <= Cardinality(d.occurs[w])
SmallEnough(c) == options.subsumption_lim = -1 \/ Cardinality(c) < options.subsumption_lim
Against(d0, c, cr) ==
  LET d == lookup(d0, best(d0, c))
      others == {o \in d.occurs[best(d0, c)] \ {cr} : SmallEnough(d.ca[o].lits)}
  IN  Each(LAMBDA e, o : Simplified(e, c, o), d, InOrder(others))

-----------------------------------------------------------------------------
(* Elimination.                                                              *)

(* Mutant: clauses that share a literal have no resolvent.                   *)
Resolvable_Shared(c, e, v) == \A p \in c : Var(p) \in VarsOf(e) => Var(p) = v
(* merge: no resolvent when it is always true.                               *)
Resolvable(c, e, v) == \A p \in c : Neg(p) \in e => Var(p) = v
Resolvent(c, e, v) == {p \in c \cup e : Var(p) # v}

(* mkElimClause: the clauses of p, the literal of v, and after them the      *)
(* opposite literal alone.                                                   *)
Recorded(d, v, p, crs) ==
  [k \in 1 .. Cardinality(crs) |->
     LET c == d.ca[InOrder(crs)[k]].lits IN [lit |-> p, others |-> c \ {p}]]
    \o <<[lit |-> Neg(p), others |-> {}]>>

WithLit(d, v, p) == {cr \in Lists(d, v) : p \in d.ca[cr].lits}
Pairs(d, v) ==
  {ij \in WithLit(d, v, mkLit(v, 0)) \X WithLit(d, v, mkLit(v, 1)) :
     Resolvable(d.ca[ij[1]].lits, d.ca[ij[2]].lits, v)}
TooCostly(d, v) ==
  \/ Cardinality(Pairs(d, v)) > Cardinality(Lists(d, v)) + options.grow
  \/ /\ options.clause_lim # -1
     /\ \E ij \in Pairs(d, v) :
          Cardinality(Resolvent(d.ca[ij[1]].lits, d.ca[ij[2]].lits, v)) > options.clause_lim

(* The clause i is merged with each of neg.                                  *)
Merged(e, d, v, i, neg) ==
  Each(LAMBDA f, j : IF <<i, j>> \in Pairs(d, v)
                     THEN addClause_(f, Resolvent(d.ca[i].lits, d.ca[j].lits, v)) ELSE f,
       e, InOrder(neg))

(* eliminateVar, after it was found worth while: clauses are recorded and    *)
(* removed, and their resolvents are added one by one.                       *)
eliminateVar(d, v) ==
  LET pos == WithLit(d, v, mkLit(v, 0))
      neg == WithLit(d, v, mkLit(v, 1))
      recorded == IF Cardinality(pos) > Cardinality(neg)
                  THEN Recorded(d, v, mkLit(v, 1), neg) ELSE Recorded(d, v, mkLit(v, 0), pos)
      removed == removeClauses([lookup(d, v) EXCEPT !.eliminated = @ \cup {v},
                                                    !.elimclauses = @ \o recorded],
                               pos \cup neg)
      added == Each(LAMBDA e, i : Merged(e, d, v, i, neg), removed, InOrder(pos))
  IN  IF added.ok THEN [added EXCEPT !.occurs[v] = {}] ELSE added

(* substitute: clause by clause, x takes the place of v.                     *)
Replaced(e, cr, v, x) ==
  IF ~e.ok THEN e
  ELSE LET c == CHOOSE c \in Renamed({e.ca[cr].lits}, v, x) : TRUE
       IN  addClause_(removeClauses(e, {cr}), c)
substitute(d, v, x) ==
  LET clean == lookup([d EXCEPT !.eliminated = @ \cup {v}], v)
  IN  Each(LAMBDA e, cr : Replaced(e, cr, v, x), clean, InOrder(clean.occurs[v]))

(* extendModel: from the last record to the first, a literal is made true    *)
(* when the others of its clause are false.                                  *)
extendModel(d, m) ==
  LET Extended(mod, r) ==
        IF \A q \in r.others : Neg(q) \in mod THEN (mod \ {Neg(r.lit)}) \cup {r.lit} ELSE mod
  IN  Each(Extended, m, Reverse(d.elimclauses))

(* garbageCollect: what is removed leaves the memory, the lists and the queue. *)
garbageCollect(d) ==
  [d EXCEPT !.ca = [cr \in Live(d) |-> d.ca[cr]],
            !.occurs = [v \in Vars |-> Lists(d, v)],
            !.dirty = {},
            !.queue = Each(LAMBDA kept, cr : IF d.ca[cr].removed THEN kept ELSE Append(kept, cr),
                           <<>>, @)]
checkGarbage(d) == {d, garbageCollect(d)}

(* Simplification is turned off for good.                                    *)
TurnedOff(d) ==
  garbageCollect([d EXCEPT !.touched = {}, !.queue = <<>>, !.elim_heap = {},
                           !.occurs = [v \in Vars |-> {}], !.dirty = {},
                           !.n_occ = [p \in Lits |-> 0], !.simp = FALSE])

-----------------------------------------------------------------------------
(* What users call.                                                          *)

Init ==
  /\ \E s \in Scripts : script = s.calls /\ options = s.options
  /\ given = {} /\ next_var = 0 /\ released_vars = {} /\ free_vars = <<>>
  /\ max_simp_var = 0 /\ frozen_vars = {}
  /\ db = [ok |-> TRUE, ca |-> <<>>, learnts |-> {}, fixed |-> {}, unchecked |-> {},
           occurs |-> [v \in Vars |-> {}], dirty |-> {}, n_occ |-> [p \in Lits |-> 0],
           touched |-> {}, queue |-> <<>>, elim_heap |-> {}, frozen |-> {},
           eliminated |-> {}, elimclauses |-> <<>>, simp |-> TRUE]
  /\ interrupt = FALSE
  /\ pc = "idle" /\ back = "none" /\ elim = 0 /\ at = 0 /\ was_frozen = FALSE
  /\ turn_off = FALSE /\ solving = FALSE /\ assumptions = <<>> /\ extra_frozen = {}
  /\ answer = "idle" /\ model = {}

Call == Head(script)
Called(name) ==
  /\ pc = "idle"
  /\ script # <<>>
  /\ Call.call = name
  /\ script' = Tail(script)

(* A user refers to variables that were created and not given back.          *)
Usable(v) ==
  /\ v < next_var
  /\ v \notin VarsOf(released_vars)
  /\ v \notin {Var(free_vars[k]) : k \in DOMAIN free_vars}

newVar ==
  /\ Called("newVar")
  /\ free_vars = <<>>
  /\ next_var < NVars
  /\ next_var' = next_var + 1
  /\ db' = IF db.simp THEN [db EXCEPT !.elim_heap = @ \cup {next_var}] ELSE db
  /\ UNCHANGED <<options, given, released_vars, free_vars, max_simp_var, frozen_vars,
                 interrupt, pc, loopVars, callVars, resultVars>>

(* A variable that was given back has no value any more.                     *)
ReuseVar ==
  /\ Called("newVar")
  /\ free_vars # <<>>
  /\ given' = Without(given, Last(free_vars))
  /\ free_vars' = Front(free_vars)
  /\ db' = [db EXCEPT !.frozen = @ \ {Var(Last(free_vars))}]
  /\ UNCHANGED <<options, next_var, released_vars, max_simp_var, frozen_vars, interrupt, pc,
                 loopVars, callVars, resultVars>>

addClause ==
  /\ Called("addClause")
  /\ \A v \in VarsOf(Call.lits) : Usable(v) /\ v \notin db.eliminated
  /\ given' = given \cup {Call.lits}
  /\ db' = addClause_(db, Call.lits)
  /\ UNCHANGED <<options, next_var, released_vars, free_vars, max_simp_var, frozen_vars,
                 interrupt, pc, loopVars, callVars, resultVars>>

(* Mutant: a variable may be used again although records mention it.         *)
MayReuse_Recorded(v) == ~db.simp
(* Only a variable that no record mentions is given back.                    *)
MayReuse(v) == ~db.simp /\ v >= max_simp_var

releaseVar ==
  /\ Called("releaseVar")
  /\ LET v == Var(Call.lit) IN
       /\ Usable(v) /\ v \notin db.eliminated
       /\ IF MayReuse(v) /\ v \in AssignedVars(db) THEN UNCHANGED <<given, db, released_vars>>
          ELSE /\ given' = given \cup {{Call.lit}}
               /\ db' = Stored(db, {Call.lit})
               /\ released_vars' = IF MayReuse(v) THEN released_vars \cup {Call.lit}
                                   ELSE released_vars
  /\ UNCHANGED <<options, next_var, free_vars, max_simp_var, frozen_vars, interrupt, pc,
                 loopVars, callVars, resultVars>>

Unfrozen(d, vs) ==
  IF d.simp THEN updateElimHeap([d EXCEPT !.frozen = @ \ vs], vs)
  ELSE [d EXCEPT !.frozen = @ \ vs]

setFrozen ==
  /\ Called("setFrozen")
  /\ Usable(Call.var)
  /\ db' = IF Call.frozen THEN [db EXCEPT !.frozen = @ \cup {Call.var}]
           ELSE Unfrozen(db, {Call.var})
  /\ UNCHANGED <<options, given, next_var, released_vars, free_vars, max_simp_var, frozen_vars,
                 interrupt, pc, loopVars, callVars, resultVars>>

freezeVar ==
  /\ Called("freezeVar")
  /\ Usable(Call.var)
  /\ db' = [db EXCEPT !.frozen = @ \cup {Call.var}]
  /\ frozen_vars' = frozen_vars \cup ({Call.var} \ db.frozen)
  /\ UNCHANGED <<options, given, next_var, released_vars, free_vars, max_simp_var, interrupt,
                 pc, loopVars, callVars, resultVars>>

thaw ==
  /\ Called("thaw")
  /\ db' = Unfrozen(db, frozen_vars)
  /\ frozen_vars' = {}
  /\ UNCHANGED <<options, given, next_var, released_vars, free_vars, max_simp_var, interrupt,
                 pc, loopVars, callVars, resultVars>>

Substitute ==
  /\ Called("substitute")
  /\ db.simp
  /\ Usable(Call.var) /\ Usable(Var(Call.lit)) /\ Var(Call.lit) # Call.var
  /\ Call.var \notin db.frozen \cup AssignedVars(db)
  /\ {Call.var, Var(Call.lit)} \cap db.eliminated = {}
  /\ given' = IF db.ok THEN Renamed(given, Call.var, Call.lit) ELSE given
  /\ db' = IF db.ok THEN substitute(db, Call.var, Call.lit) ELSE db
  /\ UNCHANGED <<options, next_var, released_vars, free_vars, max_simp_var, frozen_vars,
                 interrupt, pc, loopVars, callVars, resultVars>>

clearInterrupt ==
  /\ Called("clearInterrupt")
  /\ interrupt' = FALSE
  /\ UNCHANGED <<options, given, next_var, released_vars, free_vars, max_simp_var, frozen_vars,
                 db, pc, loopVars, callVars, resultVars>>

(* Another thread, at any time.                                              *)
Interrupt ==
  /\ options.interruptible
  /\ ~interrupt
  /\ interrupt' = TRUE
  /\ UNCHANGED <<userVars, db, pc, loopVars, callVars, resultVars>>

-----------------------------------------------------------------------------
(* Solver::simplify.  Satisfied clauses are only removed once simplification *)
(* is off, and then released variables become free.  A clause keeps the two   *)
(* literals it watches, also when an interrupt has left them false.           *)
Trimmed(d, c) ==
  LET open == {p \in c : ~Falsified(d, p)} IN IF Cardinality(open) > 1 THEN open ELSE c
Reduced(d) ==
  LET left == removeClauses(d, {cr \in Live(d) : satisfied(d, d.ca[cr].lits)}) IN
    [left EXCEPT
       !.ca = [cr \in DOMAIN left.ca |-> [left.ca[cr] EXCEPT !.lits = Trimmed(d, @)]],
       !.learnts = {Trimmed(d, c) : c \in {e \in d.learnts : ~satisfied(d, e)}},
       !.fixed = d.fixed \ released_vars, !.unchecked = {}]

Simplify ==
  \/ UNCHANGED <<db, released_vars, free_vars>>
  \/ /\ db.ok
     /\ ~db.simp
     /\ db' = garbageCollect(Reduced(db))
     /\ free_vars' = free_vars \o InOrder(released_vars)
     /\ released_vars' = {}

(* eliminate, called by itself.                                              *)
Eliminate ==
  /\ Called("eliminate")
  /\ IF db.simp THEN UNCHANGED <<db, released_vars, free_vars>> ELSE Simplify
  /\ turn_off' = Call.turn_off
  /\ solving' = FALSE
  /\ pc' = IF db.ok /\ db.simp THEN "main" ELSE "idle"
  /\ UNCHANGED <<options, given, next_var, max_simp_var, frozen_vars, interrupt, loopVars,
                 assumptions, extra_frozen, resultVars>>

(* Mutant: assumptions are not frozen.                                       *)
ToFreeze_None(as) == {}
ToFreeze(as) == {Var(as[k]) : k \in DOMAIN as} \ db.frozen

(* solve_ freezes the assumptions while it simplifies.                       *)
Solve ==
  /\ Called("solve")
  /\ \A k \in DOMAIN Call.assumps :
       LET v == Var(Call.assumps[k]) IN Usable(v) /\ v \notin db.eliminated
  /\ LET simp == Call.do_simp /\ db.simp IN
       /\ extra_frozen' = IF simp THEN ToFreeze(Call.assumps) ELSE {}
       /\ db' = [db EXCEPT !.frozen = @ \cup extra_frozen']
       /\ pc' = IF ~simp THEN "simplify" ELSE IF db.ok THEN "main" ELSE "dead"
  /\ turn_off' = Call.turn_off
  /\ solving' = TRUE
  /\ assumptions' = Call.assumps
  /\ answer' = "none"
  /\ UNCHANGED <<options, given, next_var, released_vars, free_vars, max_simp_var,
                 frozen_vars, interrupt, loopVars, model>>

-----------------------------------------------------------------------------
(* The loops of eliminate.                                                   *)

Loop(next) ==
  /\ pc' = next
  /\ UNCHANGED <<userVars, interrupt, turn_off, solving, assumptions, extra_frozen, resultVars>>

ToCheck(d) == d.queue # <<>> \/ d.unchecked # {}
Remaining == db.touched # {} \/ db.unchecked # {} \/ db.elim_heap # {}

Gather ==
  /\ pc = "main"
  /\ Remaining
  /\ db' = gatherTouchedClauses(db)
  /\ back' = "checked"
  /\ Loop("backward")
  /\ UNCHANGED <<elim, at, was_frozen>>

Finished ==
  /\ pc = "main"
  /\ ~Remaining
  /\ Loop("cleanup")
  /\ UNCHANGED <<db, loopVars>>

(* backwardSubsumptionCheck.  After an interrupt nothing is left to check.   *)
BackwardInterrupted ==
  /\ pc = "backward"
  /\ ToCheck(db)
  /\ interrupt
  /\ db' = [db EXCEPT !.queue = <<>>, !.unchecked = {}]
  /\ Loop(back)
  /\ UNCHANGED loopVars

After(d) == IF d.ok THEN "backward" ELSE "cleanup"

CheckClause ==
  /\ pc = "backward"
  /\ db.queue # <<>>
  /\ ~interrupt
  /\ LET cr == Head(db.queue)
         popped == [db EXCEPT !.queue = Tail(@)]
     IN  db' = IF db.ca[cr].removed THEN popped ELSE Against(popped, db.ca[cr].lits, cr)
  /\ Loop(After(db'))
  /\ UNCHANGED loopVars

CheckFact ==
  /\ pc = "backward"
  /\ db.queue = <<>>
  /\ ~interrupt
  /\ \E l \in db.unchecked : db' = Against([db EXCEPT !.unchecked = @ \ {l}], {l}, 0)
  /\ Loop(After(db'))
  /\ UNCHANGED loopVars

BackwardDone ==
  /\ pc = "backward"
  /\ ~ToCheck(db)
  /\ Loop(back)
  /\ UNCHANGED <<db, loopVars>>

Abandoned ==
  /\ pc = "checked"
  /\ interrupt
  /\ db' = [db EXCEPT !.elim_heap = {}]
  /\ Loop("cleanup")
  /\ UNCHANGED loopVars

Checked ==
  /\ pc = "checked"
  /\ ~interrupt
  /\ Loop("pick")
  /\ UNCHANGED <<db, loopVars>>

cost(v) == db.n_occ[mkLit(v, 0)] * db.n_occ[mkLit(v, 1)]
Cheapest(v) == v \in db.elim_heap /\ \A w \in db.elim_heap : cost(v) <= cost(w)
Popped(v) == [db EXCEPT !.elim_heap = @ \ {v}]
Skipped(v) == v \in db.eliminated \cup AssignedVars(db)

PickNone ==
  /\ pc = "pick"
  /\ db.elim_heap = {}
  /\ Loop("main")
  /\ UNCHANGED <<db, loopVars>>

PickInterrupted ==
  /\ pc = "pick"
  /\ interrupt
  /\ \E v \in Vars : Cheapest(v) /\ db' = Popped(v)
  /\ Loop("main")
  /\ UNCHANGED loopVars

PickSkip ==
  /\ pc = "pick"
  /\ ~interrupt
  /\ \E v \in Vars : Cheapest(v) /\ Skipped(v) /\ db' = Popped(v)
  /\ Loop("pick")
  /\ UNCHANGED loopVars

(* With asymmetric branching the variable is frozen meanwhile, or it would   *)
(* be on the heap again.                                                     *)
Pick ==
  /\ pc = "pick"
  /\ ~interrupt
  /\ \E v \in Vars :
       LET tried == options.use_asymm /\ Lists(db, v) # {} IN
         /\ Cheapest(v) /\ ~Skipped(v)
         /\ db' = IF ~options.use_asymm THEN Popped(v)
                  ELSE lookup([Popped(v) EXCEPT !.frozen = IF tried THEN @ \cup {v} ELSE @], v)
         /\ elim' = v
         /\ was_frozen' = (v \in db.frozen)
         /\ Loop(IF tried THEN "asymm" ELSE "elim")
  /\ at' = 1
  /\ UNCHANGED back

(* asymm: when the clause without v (and without what is false already)      *)
(* cannot be falsified, v or a false literal leaves it, whichever is last.   *)
(* A clause that leaves the list moves the ones behind it forward.           *)
List == InOrder(db.occurs[elim])
Others(c) == {p \in c : Var(p) # elim /\ ~Falsified(db, p)}
Superfluous(c) ==
  /\ ~satisfied(db, c)
  /\ Contradicts(Closure(Clauses(db), db.fixed \cup {Neg(p) : p \in Others(c)}))

asymm ==
  /\ pc = "asymm"
  /\ at <= Len(List)
  /\ LET cr == List[at]
         c == db.ca[cr].lits
     IN  IF ~db.ca[cr].removed /\ Superfluous(c)
         THEN \E l \in c \ Others(c) : db' = strengthenClause(db, cr, l)
         ELSE db' = db
  /\ at' = at + 1
  /\ Loop(IF db'.ok THEN "asymm" ELSE "cleanup")
  /\ UNCHANGED <<back, elim, was_frozen>>

asymmDone ==
  /\ pc = "asymm"
  /\ at > Len(List)
  /\ back' = "elim"
  /\ Loop("backward")
  /\ UNCHANGED <<db, elim, at, was_frozen>>

(* The variable is as frozen as before.                                      *)
Restored == [db EXCEPT !.frozen = IF was_frozen THEN @ ELSE @ \ {elim}]
MayEliminate == options.use_elim /\ elim \notin AssignedVars(db) /\ ~was_frozen

Eliminated ==
  /\ pc = "elim"
  /\ MayEliminate
  /\ ~TooCostly(db, elim)
  /\ db' = eliminateVar(Restored, elim)
  /\ back' = "collect"
  /\ Loop(After(db'))
  /\ UNCHANGED <<elim, at, was_frozen>>

Kept ==
  /\ pc = "elim"
  /\ ~MayEliminate \/ TooCostly(db, elim)
  /\ db' = IF MayEliminate THEN lookup(Restored, elim) ELSE Restored
  /\ Loop("collect")
  /\ UNCHANGED loopVars

Collect ==
  /\ pc = "collect"
  /\ db' \in checkGarbage(db)
  /\ Loop("pick")
  /\ UNCHANGED loopVars

Cleanup ==
  /\ pc = "cleanup"
  /\ IF turn_off THEN db' = TurnedOff(db) ELSE db' \in checkGarbage(db)
  /\ max_simp_var' = IF turn_off THEN next_var ELSE max_simp_var
  /\ pc' = IF ~solving THEN "idle" ELSE IF db.ok THEN "simplify" ELSE "dead"
  /\ UNCHANGED <<script, options, given, next_var, released_vars, free_vars, frozen_vars,
                 interrupt, loopVars, callVars, resultVars>>

-----------------------------------------------------------------------------
(* Solver::solve_ on what is left.                                           *)

SolveRest ==
  /\ pc = "simplify"
  /\ Simplify
  /\ model' = {}
  /\ pc' = IF db.ok THEN "search" ELSE "dead"
  /\ UNCHANGED <<script, options, given, next_var, max_simp_var, frozen_vars, interrupt,
                 loopVars, callVars, answer>>

Decidable ==
  {v \in Vars : Usable(v)} \ (db.eliminated \cup AssignedVars(db))

Facts == db.fixed \cup released_vars \cup {free_vars[k] : k \in DOMAIN free_vars}

(* The assignments with which a search may end: eliminated variables have    *)
(* only the values that learnt clauses force.                                *)
FullAssignments(as) ==
  {Closure(Clauses(db), Facts \cup as \cup {mkLit(v, f[v]) : v \in Decidable}) :
     f \in [Decidable -> {0, 1}]}
Solutions(as) == {m \in FullAssignments(as) : ~Contradicts(m)}

Assumed == {assumptions[k] : k \in DOMAIN assumptions}
Learned(c) == IF Cardinality(c) = 1 THEN propagate(db, c) ELSE [db EXCEPT !.learnts = {c}]

Searching ==
  /\ pc = "search"
  /\ ~interrupt
  /\ pc' = "answer"
  /\ UNCHANGED <<userVars, interrupt, loopVars, callVars, resultVars>>

NothingLearned == Searching /\ UNCHANGED db

(* A search may keep a clause that follows, of at most two literals.         *)
Learn ==
  /\ Searching
  /\ LET open == {p \in Lits : Var(p) \in Decidable}
         solutions == Solutions({})
     IN  \E p, q \in open :
           /\ p # Neg(q)
           /\ \A m \in solutions : m \cap {p, q} # {}
           /\ solutions # {}
           /\ db' = Learned({p, q})

Return(d, ans, mod) ==
  /\ db' = Unfrozen(d, extra_frozen)
  /\ answer' = ans
  /\ model' = mod
  /\ pc' = "idle"
  /\ UNCHANGED <<userVars, interrupt, loopVars, callVars>>

Dead == pc = "dead" /\ Return(db, "unsat", model)

SearchStopped ==
  /\ pc \in {"search", "answer"}
  /\ interrupt
  /\ Return(db, "undef", model)

ModelFound ==
  /\ pc = "answer"
  /\ ~interrupt
  /\ \E m \in Solutions(Assumed) :
       Return(db, "sat", IF options.extend_model THEN extendModel(db, m) ELSE m)

(* Without a model at all the solver may find out that it is dead; it does   *)
(* when nothing is assumed.                                                  *)
NoModel ==
  /\ pc = "answer"
  /\ ~interrupt
  /\ Solutions(Assumed) = {}
  /\ \/ Solutions({}) = {} /\ Return([db EXCEPT !.ok = FALSE], "unsat", model)
     \/ assumptions # <<>> /\ Return(db, "unsat", model)

-----------------------------------------------------------------------------
user ==
  \/ newVar \/ ReuseVar \/ addClause \/ releaseVar \/ setFrozen \/ freezeVar \/ thaw
  \/ Substitute \/ clearInterrupt \/ Eliminate \/ Solve
backwardSubsumptionCheck ==
  BackwardInterrupted \/ CheckClause \/ CheckFact \/ BackwardDone
eliminate ==
  \/ Gather \/ Finished \/ Abandoned \/ Checked
  \/ PickNone \/ PickInterrupted \/ PickSkip \/ Pick
  \/ asymm \/ asymmDone \/ Eliminated \/ Kept \/ Collect \/ Cleanup
solver ==
  backwardSubsumptionCheck \/ eliminate \/ SolveRest \/ NothingLearned \/ Learn
    \/ Dead \/ SearchStopped \/ ModelFound \/ NoModel

Next == user \/ Interrupt \/ solver

(* The solver is one thread that keeps running; nothing makes the user call. *)
Spec == Init /\ [][Next]_vars /\ WF_vars(solver)

-----------------------------------------------------------------------------
(* Types.                                                                    *)

CRefs == Nat \ {0}
TypeOK ==
  /\ script \in Seq(Calls) /\ options \in Options
  /\ given \in SUBSET SUBSET Lits /\ next_var \in 0 .. NVars
  /\ released_vars \in SUBSET Lits /\ free_vars \in Seq(Lits)
  /\ max_simp_var \in 0 .. NVars /\ frozen_vars \in SUBSET Vars
  /\ db.ok \in BOOLEAN /\ db.simp \in BOOLEAN
  /\ DOMAIN db.ca \subseteq CRefs
  /\ \A cr \in DOMAIN db.ca : db.ca[cr] \in [lits : SUBSET Lits, removed : BOOLEAN]
  /\ \A cr \in Live(db) : Cardinality(db.ca[cr].lits) > 1
  /\ db.learnts \in SUBSET SUBSET Lits
  /\ db.fixed \in SUBSET Lits /\ ~Contradicts(db.fixed) /\ db.unchecked \subseteq db.fixed
  /\ \A v \in Vars : db.occurs[v] \subseteq DOMAIN db.ca
  /\ db.dirty \in SUBSET Vars /\ \A p \in Lits : db.n_occ[p] \in Nat
  /\ db.touched \in SUBSET Vars /\ db.queue \in Seq(DOMAIN db.ca)
  /\ db.elim_heap \in SUBSET Vars /\ db.frozen \in SUBSET Vars
  /\ db.eliminated \in SUBSET Vars
  /\ db.elimclauses \in Seq([lit : Lits, others : SUBSET Lits])
  /\ interrupt \in BOOLEAN
  /\ pc \in {"idle", "main", "backward", "checked", "pick", "asymm", "elim", "collect",
             "cleanup", "simplify", "search", "answer", "dead"}
  /\ back \in {"none", "checked", "elim", "collect"}
  /\ elim \in 0 .. NVars /\ at \in Nat /\ was_frozen \in BOOLEAN
  /\ turn_off \in BOOLEAN /\ solving \in BOOLEAN
  /\ assumptions \in Seq(Lits) /\ extra_frozen \in SUBSET Vars
  /\ answer \in {"idle", "none", "sat", "unsat", "undef"} /\ model \in SUBSET Lits

-----------------------------------------------------------------------------
(* The lists by which clauses are found are complete at any time: each has   *)
(* the clauses of its variable, with none that was removed unless it was     *)
(* smudged, the counts behind the order of elimination are exact, and no     *)
(* clause mentions a variable that was eliminated.                           *)
OccurrencesRight ==
  db.ok =>
    /\ db.simp =>
         /\ \A v \in Vars \ db.eliminated :
              Lists(db, v) = {cr \in Live(db) : v \in VarsOf(db.ca[cr].lits)}
         /\ \A v \in Vars \ db.dirty : db.occurs[v] \subseteq Live(db)
         /\ \A p \in Lits :
              db.n_occ[p] = Cardinality({cr \in Live(db) : p \in db.ca[cr].lits})
    /\ \A cr \in Live(db) : VarsOf(db.ca[cr].lits) \cap db.eliminated = {}

(* Whatever was subsumed, shortened, eliminated, learnt or left undone by an *)
(* interrupt, the clauses that are left have exactly the models of those the *)
(* user gave, as far as the variables that are not eliminated go.            *)
Projected(cs) == {[v \in Vars \ db.eliminated |-> m[v]] : m \in Models(cs)}
Equivalent ==
  IF db.ok THEN Projected(Clauses(db) \cup {{p} : p \in Facts}) = Projected(given)
  ELSE Models(given) = {}

(* A model that was extended satisfies every clause the user ever gave,      *)
(* those of eliminated variables included, and the assumptions, and it gives *)
(* each variable that a clause mentions one value.                           *)
ModelRight(mod) ==
  LET m == [v \in Vars |-> mkLit(v, 0) \in mod] IN
    /\ ~Contradicts(mod)
    /\ VarsOf(UNION given) \subseteq VarsOf(mod)
    /\ Satisfies(m, given)
    /\ \A p \in Assumed : Makes(m, p)
ModelsRight ==
  [][options.extend_model /\ answer = "none" /\ answer' = "sat" => ModelRight(model')]_vars

(* When the loops of eliminate end by themselves there is nothing left to    *)
(* simplify: no clause subsumes another or could shorten it, and none        *)
(* mentions a variable that has a value.                                     *)
SubsumptionDone ==
  pc = "cleanup" /\ db.ok /\ ~options.interruptible /\ options.subsumption_lim = -1 =>
    \A cr \in Live(db) :
      LET c == db.ca[cr].lits IN
        /\ VarsOf(c) \cap AssignedVars(db) = {}
        /\ \A o \in Live(db) \ {cr} :
             ~(c \subseteq db.ca[o].lits) /\ Flips(c, db.ca[o].lits) = {}

(* The solver keeps the promise, and every call of solve comes back.         *)
Promise == INSTANCE IncrementalSat WITH
  assumed <- Assumed,
  interruptible <- options.interruptible

KeepsPromise == Promise!Spec
=============================================================================
