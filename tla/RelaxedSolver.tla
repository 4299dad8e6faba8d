--------------------------- MODULE RelaxedSolver ---------------------------
(***************************************************************************)
(* relaxedNewTech/ipasir.cc and Solver.cc: the solver behind the ipasir    *)
(* interface, in which restarts of a clause learning search take turns     *)
(* with the local search of module LocalSearch.  Of the clause learning    *)
(* search only what the other parts see is here: the literals that hold at *)
(* level 0, a trail, clauses it has learnt, and its answer, a model or     *)
(* none.  Module Cdcl has such a search in full.                           *)
(***************************************************************************)
EXTENDS LocalSearch

CONSTANTS
  Scripts,       \* the calls a user makes
  StateChange,   \* state_change_time: local search begins after so many restarts
  RestartsGap,   \* restarts_gap: restarts between two local searches
  MaxStarts,     \* bound on the restarts
  MaxLearnts,    \* bound on the learnt clauses of the core and of tier 2
  MaxLits        \* bound on their length

ASSUME StartsAssumption ==
  /\ StateChange \in Nat /\ RestartsGap \in Nat /\ MaxStarts \in Nat /\ MaxLearnts \in Nat
  /\ MaxLits \in Nat

Calls == [call : {"add"}, lits : Seq(Lits)] \cup [call : {"solve"}, assumps : Seq(Lits)]

ASSUME ScriptsAssumption == Scripts \subseteq Seq(Calls)

VARIABLES
  pc, script,    \* what search_relaxed does next, and the calls still to come
  given,         \* clauses added so far, as the user gave them
  nVars, ok,
  clauses,
  learnts,       \* learnts_core and learnts_tier2
  facts,         \* literals that are true at level 0
  late,          \* those of them that are on the trail above trail_lim[0]
  assumptions,
  starts, freeze_ls_restart_num, mediation_used, can_call_ls,
  solved_by_ls,
  ls_mediation_soln, ls_best_soln, ls_best_unsat_num,
  trail,         \* the literals of the trail when call_ls is called
  viewList, idx, \* literals chosen for the first solution, and how many were visited
  model, last_result

dbVars == <<script, given, nVars, ok, clauses, facts, assumptions>>
restartVars == <<starts, freeze_ls_restart_num, mediation_used, can_call_ls>>
solnVars == <<solved_by_ls, ls_mediation_soln, ls_best_soln, ls_best_unsat_num>>
buildVars == <<trail, viewList, idx>>
resultVars == <<model, last_result>>
vars == <<dbVars, late, learnts, restartVars, solnVars, buildVars, resultVars, pc, lsVars>>

-----------------------------------------------------------------------------
AsSet(cs) == {ToSet(cs[k]) : k \in DOMAIN cs}
Kept == learnts.core \o learnts.tier2
KeptLits == [k \in DOMAIN Kept |-> Kept[k].lits]
Database == AsSet(clauses) \cup AsSet(KeptLits) \cup {{p} : p \in facts}
Units(ps) == [k \in DOMAIN ps |-> <<ps[k]>>]
Used == 0 .. nVars - 1
UsedLits == {p \in Lits : Var(p) < nVars}

(* ls_best_unsat_num is INT_MAX until a local search was done.               *)
IntMax == 2147483647

Init ==
  /\ script \in Scripts
  /\ given = {} /\ nVars = 0 /\ ok = TRUE /\ clauses = <<>> /\ facts = {} /\ late = {}
  /\ learnts = [core |-> <<>>, tier2 |-> <<>>]
  /\ assumptions = <<>>
  /\ starts = 0 /\ freeze_ls_restart_num = 0 /\ mediation_used = FALSE /\ can_call_ls = FALSE
  /\ solved_by_ls = FALSE /\ ls_mediation_soln = <<>> /\ ls_best_soln = <<>>
  /\ ls_best_unsat_num = IntMax
  /\ trail = {} /\ viewList = <<>> /\ idx = 0
  /\ model = <<>> /\ last_result = 0 /\ pc = "idle"
  /\ LocalInit

-----------------------------------------------------------------------------
(* The calls of a user.                                                      *)

Called(name) == pc = "idle" /\ script # <<>> /\ Head(script).call = name
Call == Head(script)

(* transLit creates the variables up to that of each literal.                *)
(* Mutant: the last of them is not created.                                  *)
transLit_Last(ps) == Max({nVars} \cup {Var(p) : p \in ToSet(ps)})
transLit(ps) == Max({nVars} \cup {Var(p) + 1 : p \in ToSet(ps)})

(* addClause_: literals that are false or repeated go, and a clause that is   *)
(* true or a tautology is not kept.                                          *)
Shortened(ps) ==
  LET kept == {p \in ToSet(ps) : Neg(p) \notin facts} IN Sorted(kept)
Redundant(ps) == Contradicts(ToSet(ps)) \/ ToSet(ps) \cap facts # {}

(* Mutant: a clause whose literals are all false is dropped.                  *)
addClause_Emptied(ps) ==
  LET c == Shortened(ps) new == Closure(Database, facts \cup ToSet(c)) IN
    IF ~ok \/ Redundant(ps) \/ c = <<>> THEN UNCHANGED <<ok, clauses, facts>>
    ELSE IF Len(c) = 1
         THEN ok' = ~Contradicts(new) /\ facts' = (IF ok' THEN new ELSE facts) /\ UNCHANGED clauses
         ELSE clauses' = Append(clauses, c) /\ UNCHANGED <<ok, facts>>
addClause_(ps) ==
  LET c == Shortened(ps) new == Closure(Database, facts \cup ToSet(c)) IN
    IF ~ok \/ Redundant(ps) THEN UNCHANGED <<ok, clauses, facts>>
    ELSE IF Len(c) > 1 THEN clauses' = Append(clauses, c) /\ UNCHANGED <<ok, facts>>
    ELSE /\ ok' = (c # <<>> /\ ~Contradicts(new))
         /\ facts' = IF ok' THEN new ELSE facts
         /\ UNCHANGED clauses

add ==
  /\ Called("add")
  /\ script' = Tail(script)
  /\ given' = given \cup {ToSet(Call.lits)}
  /\ nVars' = transLit(Call.lits)
  /\ last_result' = 0
  /\ addClause_(Call.lits)
  /\ UNCHANGED <<assumptions, late, learnts, restartVars, solnVars, buildVars, model, pc, lsVars>>

Resized(soln, n) == [v \in 0 .. n - 1 |-> v \in DOMAIN soln /\ soln[v]]

(* assume, for each assumption, and call_solver up to the loop of solve_.     *)
solve ==
  /\ Called("solve")
  /\ script' = Tail(script)
  /\ assumptions' = Call.assumps
  /\ nVars' = transLit(Call.assumps)
  /\ last_result' = 0
  /\ model' = <<>>
  /\ IF ok THEN /\ ls_mediation_soln' = Resized(ls_mediation_soln, nVars')
                /\ ls_best_soln' = Resized(ls_best_soln, nVars')
     ELSE UNCHANGED <<ls_mediation_soln, ls_best_soln>>
  /\ pc' = "solve"
  /\ UNCHANGED <<given, ok, clauses, facts, late, learnts, restartVars, solved_by_ls,
                 ls_best_unsat_num, buildVars, lsVars>>

-----------------------------------------------------------------------------
(* search: one call of it is one restart.                                    *)

(* Phases are any; those of ls_mediation_soln are remembered to have been used *)
(* when rand_based_rephase takes them.                                        *)
rephase == UNCHANGED mediation_used \/ (starts' > StateChange /\ mediation_used' = TRUE)

Restart ==
  /\ pc = "solve" /\ ok
  /\ starts' = starts + 1
  /\ freeze_ls_restart_num' = freeze_ls_restart_num - 1
  /\ can_call_ls' = TRUE
  /\ rephase
  /\ \/ pc' = "search"
     \/ pc' = "vivify" /\ \E k \in DOMAIN Kept : ~Kept[k].simplified
  /\ UNCHANGED <<dbVars, late, learnts, solnVars, buildVars, resultVars, lsVars>>


(* simplifyAll, at the beginning of some restarts, tries to shorten the learnt   *)
(* clauses it has not tried yet.  The literals of a clause are assumed to be     *)
(* false, one after the other, until one is true or there is a conflict; those  *)
(* that are false already are left out.                                       *)
simplePropagate(cs, ps) == Closure(cs, ps)

AssumeFalse(others, ps) ==
  LET step(s, p) ==
        IF s.stopped \/ Neg(p) \in s.true THEN s
        ELSE LET now == simplePropagate(others, s.true \cup {Neg(p)}) IN
               [kept |-> s.kept \cup {p}, true |-> now, stopped |-> Contradicts(now)]
  IN  FoldLeft(step, [kept |-> {}, true |-> facts, stopped |-> FALSE], ps)

(* Of the literals up to that point those that the conflict needs are kept;     *)
(* which, depends on the reasons it is traced back to.                        *)
simpleAnalyze(others, kept) ==
  {S \in SUBSET kept : Contradicts(simplePropagate(others, facts \cup {Neg(p) : p \in S}))}

simplifyLearnt(others, c) ==
  UNION {LET s == AssumeFalse(others, ps) IN
           IF s.stopped THEN simpleAnalyze(others, s.kept) ELSE {s.kept} : ps \in SetToSeqs(c)}

(* A clause of tier 2 that was seen before moves to the core, and one that was  *)
(* seen even more often is not attached again.  The table counts clauses that    *)
(* are gone, and all those of the same hash, so any count is possible.         *)
is_duplicate == {"tier2", "core", "dropped"}

Untried(tier) == Selected(learnts[tier], {d \in ToSet(learnts[tier]) : ~d.simplified})

(* One clause: it goes if it is true, becomes shorter, or is a new fact.        *)
Simplify(c, Tiers) ==
  LET rest == [t \in DOMAIN learnts |-> Selected(learnts[t], ToSet(learnts[t]) \ {c})]
      others == Database \ {ToSet(c.lits)}
      Store(S, t) == learnts' = IF t = "dropped" THEN rest
        ELSE [rest EXCEPT ![t] = Append(@, [lits |-> Sorted(S), simplified |-> TRUE])]
      Enqueue(S) == LET new == Closure(others, facts \cup S) IN
                      IF Contradicts(new) THEN ok' = FALSE /\ UNCHANGED facts
                      ELSE facts' = new /\ UNCHANGED ok
  IN  /\ \/ /\ ToSet(c.lits) \cap facts # {}
            /\ learnts' = rest /\ UNCHANGED <<facts, ok, pc, last_result>>
         \/ /\ ToSet(c.lits) \cap facts = {}
            /\ \E S \in simplifyLearnt(others, {p \in ToSet(c.lits) : Neg(p) \notin facts}) :
                 IF Cardinality(S) > 1
                 THEN (\E t \in Tiers : Store(S, t)) /\ UNCHANGED <<facts, ok, pc, last_result>>
                 ELSE /\ learnts' = rest /\ Enqueue(S)
                      /\ pc' = IF ok' THEN pc ELSE "idle"
                      /\ last_result' = IF ok' THEN last_result ELSE 20
      /\ UNCHANGED <<script, given, nVars, clauses, assumptions, late, restartVars, solnVars,
                     buildVars, model, lsVars>>

simplifyLearnt_core ==
  /\ pc = "vivify" /\ Untried("core") # <<>>
  /\ Simplify(Head(Untried("core")), {"core"})

simplifyLearnt_tier2 ==
  /\ pc = "vivify" /\ Untried("core") = <<>> /\ Untried("tier2") # <<>>
  /\ Simplify(Head(Untried("tier2")), is_duplicate)

simplifyAll ==
  /\ pc = "vivify" /\ Untried("core") = <<>> /\ Untried("tier2") = <<>>
  /\ pc' = "search"
  /\ UNCHANGED <<dbVars, late, learnts, restartVars, solnVars, buildVars, resultVars, lsVars>>

(* A conflict: what is learnt follows, by way of any number of local clauses,    *)
(* which only this search uses.  It goes to the core, to tier 2, or is a new    *)
(* fact.  That is late when the solver backtracks to another level than 0.     *)
Learn ==
  /\ pc = "search"
  /\ Len(Kept) < MaxLearnts
  /\ \E c \in UNION {kSubset(n, Lits) : n \in 1 .. MaxLits} :
       /\ VarsOf(c) \subseteq (0 .. nVars - 1) \ VarsOf(facts)
       /\ ~Contradicts(c) /\ c \notin Database
       /\ \A m \in Models(Database) : SatisfiesClause(m, c)
       /\ LET new == Closure(Database, facts \cup c) IN
            IF Cardinality(c) > 1
            THEN /\ \E tier \in {"core", "tier2"} :
                      learnts' = [learnts EXCEPT ![tier] =
                                    Append(@, [lits |-> Sorted(c), simplified |-> FALSE])]
                 /\ UNCHANGED facts
            ELSE ~Contradicts(new) /\ facts' = new /\ UNCHANGED learnts
  /\ late' \in {{}, late \cup (facts' \ facts)}
  /\ UNCHANGED <<script, given, nVars, ok, clauses, assumptions, restartVars, solnVars,
                 buildVars, resultVars, pc, lsVars>>

(* At level 0 clauses that are true are removed.                              *)
simplify ==
  /\ pc = "search"
  /\ LET open(c) == ToSet(c) \cap facts = {} IN
       /\ clauses' = Selected(clauses, {c \in ToSet(clauses) : open(c)})
       /\ learnts' = [t \in DOMAIN learnts |->
                        Selected(learnts[t], {d \in ToSet(learnts[t]) : open(d.lits)})]
  /\ late' = {}
  /\ UNCHANGED <<script, given, nVars, ok, facts, assumptions, restartVars, solnVars,
                 buildVars, resultVars, pc, lsVars>>

(* Clauses of tier 2 that were of no use for long become local ones.           *)
reduceDB_Tier2 ==
  /\ pc = "search"
  /\ \E unused \in SUBSET ToSet(learnts.tier2) \ {{}} :
       learnts' = [learnts EXCEPT !.tier2 = Selected(@, ToSet(@) \ unused)]
  /\ UNCHANGED <<dbVars, late, restartVars, solnVars, buildVars, resultVars, pc, lsVars>>

(* The bound on conflicts of this restart is reached, and level 0 with it.     *)
GiveUp ==
  /\ pc = "search"
  /\ starts < MaxStarts
  /\ pc' = "solve"
  /\ late' = {}
  /\ UNCHANGED <<dbVars, learnts, restartVars, solnVars, buildVars, resultVars, lsVars>>

(* The end of solve_: the model is copied from where it was found.            *)
Satisfied(m) ==
  /\ model' = IF solved_by_ls' THEN ls_mediation_soln' ELSE m
  /\ last_result' = 10
  /\ pc' = "idle"
  /\ late' = {}

FindModel ==
  /\ pc = "search"
  /\ UNCHANGED solnVars
  /\ \E m \in Models(Database) :
       /\ \A p \in ToSet(assumptions) : Makes(m, p)
       /\ Satisfied([v \in Used |-> m[v]])
  /\ UNCHANGED <<dbVars, learnts, restartVars, buildVars, lsVars>>

(* The conflict at the end may be with the assumptions or without; in the     *)
(* second case there will never be a model.                                   *)
FindConflict ==
  /\ \/ pc = "solve" /\ ~ok
     \/ pc = "search" /\ ~Satisfiable(Database, ToSet(assumptions))
  /\ \/ Models(Database) # {} /\ UNCHANGED ok
     \/ Models(Database) = {} /\ ok' \in {ok, FALSE}
  /\ last_result' = 20
  /\ pc' = "idle"
  /\ late' = {}
  /\ UNCHANGED <<script, given, nVars, clauses, facts, assumptions, learnts, restartVars,
                 solnVars, buildVars, model, lsVars>>

-----------------------------------------------------------------------------
(* call_ls.                                                                  *)

(* What is on the trail: assumptions are decided first, in their order.       *)
Trails ==
  LET Decided == {ToSet(as) : as \in Prefixes(assumptions)}
                   \cup {ToSet(assumptions) \cup S : S \in SUBSET UsedLits}
  IN  {t \in {Closure(Database, facts \cup S) : S \in Decided} : ~Contradicts(t)}

(* Of the facts those up to trail_lim[0] are in it.                           *)
Early == facts \ late

(* Mutant: the assumptions are left out.                                      *)
Instance_Free == clauses \o KeptLits \o Units(Sorted(Early))
Instance == clauses \o KeptLits \o Units(Sorted(Early)) \o Units(assumptions)

Undefined(view) == Used \ VarsOf(trail \cup ToSet(view))
Extend(view, p) == IF Var(p) \in Undefined(view) THEN Append(view, p) ELSE view

(* The trail has at least one literal; how many more it must have depends on   *)
(* the longest one so far.                                                    *)
CallLs ==
  /\ pc = "search"
  /\ starts > StateChange
  /\ can_call_ls /\ freeze_ls_restart_num < 1 /\ mediation_used
  /\ \E t \in Trails \ {{}} :
       IF Instance = <<>> THEN pc' = "search" /\ UNCHANGED buildVars   \* make_space
       ELSE pc' = "build" /\ trail' = t /\ viewList' = <<>> /\ idx' = Cardinality(t)
  /\ can_call_ls' = FALSE
  /\ mediation_used' = FALSE
  /\ freeze_ls_restart_num' = RestartsGap
  /\ UNCHANGED <<dbVars, late, learnts, starts, solnVars, resultVars, lsVars>>

(* A clause that has one literal left which is not false makes that literal true. *)
Open(view, c) == {q \in ToSet(c) : Neg(q) \notin trail \cup ToSet(view)}
Imply(view, c) ==
  IF Cardinality(Open(view, c)) = 1 THEN Extend(view, CHOOSE q \in Open(view, c) : TRUE) ELSE view

(* The next literal of the view is visited: what binary clauses say of it, and  *)
(* those longer clauses that are watched there.  Visits begin at the position   *)
(* at which the trail ended, though the view begins at the first.              *)
Visit ==
  /\ pc = "build"
  /\ Undefined(viewList) # {}
  /\ idx < Len(viewList)
  /\ LET false == Neg(viewList[idx + 1])
         attached == clauses \o KeptLits
         about == {c \in ToSet(attached) : false \in ToSet(c)}
         binary == Selected(attached, {c \in about : Len(c) = 2})
         long == Selected(attached, {c \in about : Len(c) > 2})
         others == [k \in DOMAIN binary |-> CHOOSE q \in ToSet(binary[k]) : q # false]
     IN  \E watched \in SUBSET ToSet(long) :
           viewList' = FoldLeft(Imply, FoldLeft(Extend, viewList, others), Selected(long, watched))
  /\ idx' = idx + 1
  /\ UNCHANGED <<dbVars, late, learnts, restartVars, solnVars, trail, resultVars, pc, lsVars>>

Choose ==
  /\ pc = "build"
  /\ idx >= Len(viewList)
  /\ \E v \in Undefined(viewList), s \in 0 .. 1 : viewList' = Append(viewList, mkLit(v, s))
  /\ UNCHANGED <<dbVars, late, learnts, restartVars, solnVars, trail, idx, resultVars, pc, lsVars>>

StartSearch ==
  /\ pc = "build"
  /\ Undefined(viewList) = {}
  /\ ls_mediation_soln' = [v \in Used |-> mkLit(v, 0) \in trail \cup ToSet(viewList)]
  /\ Start(Instance, ls_mediation_soln')
  /\ pc' = "local"
  /\ trail' = {} /\ viewList' = <<>> /\ idx' = 0
  /\ UNCHANGED <<dbVars, late, learnts, restartVars, solved_by_ls, ls_best_soln, ls_best_unsat_num,
                 resultVars>>

SearchLocally ==
  /\ pc = "local"
  /\ Greedy \/ Aspire \/ Diversify \/ Conclude
  /\ UNCHANGED <<dbVars, late, learnts, restartVars, solnVars, buildVars, resultVars, pc>>

(* The best solution is taken back.                                           *)
Reload ==
  /\ pc = "local"
  /\ ls_mode \in {"true", "false"}
  /\ ls_mediation_soln' = ls_best.solution
  /\ IF ls_best.cost <= ls_best_unsat_num
     THEN ls_best_soln' = ls_best.solution /\ ls_best_unsat_num' = ls_best.cost
     ELSE UNCHANGED <<ls_best_soln, ls_best_unsat_num>>
  /\ solved_by_ls' = (solved_by_ls \/ ls_mode = "true")
  /\ IF ls_mode = "true" THEN Satisfied(ls_best.solution)
     ELSE pc' = "search" /\ UNCHANGED <<resultVars, late>>
  /\ ls' = Idle /\ ls_mode' = "idle" /\ ls_step' = 0
  /\ ls_best' = [solution |-> <<>>, cost |-> 0]
  /\ UNCHANGED <<dbVars, learnts, restartVars, buildVars>>

-----------------------------------------------------------------------------
Next ==
  \/ add \/ solve
  \/ Restart \/ simplifyLearnt_core \/ simplifyLearnt_tier2 \/ simplifyAll
  \/ Learn \/ simplify \/ reduceDB_Tier2 \/ GiveUp \/ FindModel \/ FindConflict
  \/ CallLs \/ Visit \/ Choose \/ StartSearch \/ SearchLocally \/ Reload

Spec == Init /\ [][Next]_vars

TypeOK ==
  /\ script \in Seq(Calls) /\ given \in SUBSET SUBSET Lits
  /\ nVars \in 0 .. NVars /\ ok \in BOOLEAN
  /\ learnts \in [{"core", "tier2"} -> Seq([lits : Seq(UsedLits), simplified : BOOLEAN])]
  /\ \A cs \in {clauses, KeptLits} :
       /\ cs \in Seq(Seq(UsedLits))
       /\ \A k \in DOMAIN cs : Len(cs[k]) > 1 /\ ~Contradicts(ToSet(cs[k]))
  /\ facts \in SUBSET UsedLits /\ ~Contradicts(facts) /\ late \in SUBSET facts
  /\ pc \in {"idle", "solve", "vivify"} => late = {}
  /\ assumptions \in Seq(UsedLits)
  /\ starts \in Nat /\ freeze_ls_restart_num \in Int
  /\ mediation_used \in BOOLEAN /\ can_call_ls \in BOOLEAN /\ solved_by_ls \in BOOLEAN
  /\ \A soln \in {ls_mediation_soln, ls_best_soln} :
       soln \in [DOMAIN soln -> BOOLEAN] /\ DOMAIN soln \subseteq Used
  /\ ls_best_unsat_num \in 0 .. IntMax
  /\ trail \in SUBSET UsedLits /\ viewList \in Seq(UsedLits) /\ idx \in Nat
  /\ pc = "local" => /\ ls.solution \in [Used -> BOOLEAN] /\ ls_best.solution \in [Used -> BOOLEAN]
                     /\ ls_best.cost \in 0 .. Len(ls.clauses)
                     /\ \A c \in ClausesOf(ls) : ls.weight[c] > 0
                     /\ \A v \in Used : ls.last_flip_step[v] \in 0 .. MaxSteps
  /\ last_result \in {0, 10, 20}
  /\ pc \in {"idle", "solve", "vivify", "search", "build", "local"}

-----------------------------------------------------------------------------
(* Models and assignments of the variables that are in use.                    *)
Total(soln) == [v \in Vars |-> v \in DOMAIN soln /\ soln[v]]
Solves(soln) == /\ Satisfies(Total(soln), given)
                /\ \A p \in ToSet(assumptions) : Makes(Total(soln), p)
Falsifies(soln) == Cardinality({c \in ClausesOf(ls) : \A p \in ToSet(ls.clauses[c]) :
                                                    ~Makes(Total(soln), p)})

(* When the local search claims a solution, the one that is taken back makes    *)
(* every clause the user ever gave true, and the assumptions, though the        *)
(* instance was built from what simplification and learning left, from facts    *)
(* and from assumptions; and the best solution has the cost it is said to have,  *)
(* unless no step was cheaper than failing every clause.                        *)
SolutionsRight ==
  pc = "local" =>
    /\ ls_mode = "true" => Solves(ls_best.solution)
    /\ ls_best.cost \in {Falsifies(ls_best.solution), Len(ls.clauses)}

(* ipasir.h: ipasir_solve answers 10 when the clauses and assumptions have a     *)
(* model and 20 when not, whichever search found it and however many restarts    *)
(* it took; it is never interrupted and so never answers 0.                     *)
Answer ==
  IF pc # "idle" THEN "none"
  ELSE CASE last_result = 10 -> "sat"
         [] last_result = 20 -> "unsat"
         [] OTHER -> "idle"

Promise == INSTANCE IncrementalSat WITH
  assumed <- ToSet(assumptions),
  answer <- Answer,
  interruptible <- FALSE

KeepsPromise == Promise!Init /\ [][Promise!Next]_(Promise!vars)

(* ipasir.h:73, "the truth value of the given literal in the found satisfying    *)
(* assignment": what ipasir_val reads after an answer of 10 is a model.          *)
ValuesRight == pc = "idle" /\ last_result = 10 => Solves(model)
=============================================================================
