-------------------------------- MODULE Cdcl --------------------------------
(***************************************************************************)
(* minisat/core/Solver.cc: the conflict-driven solver, from the clauses a  *)
(* user adds to the answer of solve under assumptions.  Each step is one   *)
(* iteration of a loop of the code: a watcher visited by propagate, a      *)
(* resolution of analyze, a decision, a literal visited by analyzeFinal.   *)
(*                                                                         *)
(* The heuristics (activities, saved phases, the order of watch lists and  *)
(* of the literals a clause does not watch) are left open: any choice they *)
(* could make is taken.  The resource limits that depend on them are kept. *)
(***************************************************************************)
EXTENDS SatLits

CONSTANT Scripts   \* what users do: the options they set and the calls they make

(* What a user calls; newVar gives out variables by itself.                  *)
Calls == [call : {"newVar", "simplify"}]
           \cup [call : {"addClause"}, lits : SUBSET Lits]
           \cup [call : {"releaseVar"}, lit : Lits]
           \cup [call : {"solve"}, assumps : Seq(Lits)]

(* restart_first is -rfirst, ccmin_mode is -ccmin-mode (0 none, 1 basic,     *)
(* 2 deep), learntsize_factor counts thirds, and interruptible says whether  *)
(* a budget or an interrupt may end a search.                                *)
Options == [restart_first : Nat \ {0}, ccmin_mode : 0 .. 2, learntsize_factor : Nat,
            interruptible : BOOLEAN]

ASSUME ScriptsAssumption ==
  \A s \in Scripts : s.calls \in Seq(Calls) /\ s.options \in Options

CRef_Undef == 0

VARIABLES
  script,        \* calls still to come
  given,         \* clauses added so far, as the user gave them
  next_var,      \* variables created
  released_vars, \* literals whose variables the user gave back
  free_vars,     \* those newVar may give out again; they keep their value
  ok,            \* FALSE once the clauses are known to be unsatisfiable
  ca,            \* the clauses in memory, by reference
  clauses, learnts,
  watches, dirty,
  trail, trail_lim, vardata, qhead,
  order_heap,
  pc, caller,    \* the loop that is running, and who called propagate
  todo,          \* watchers of the present literal propagate has not visited
  confl,         \* clause analyze looks at
  seen, out_learnt, index,
  options,       \* public members, set before the first call
  conflictC, curr_restarts,
  max_learnts,   \* in thirds; it does not grow before 100 conflicts
  assumptions,
  answer, model, conflict

userVars == <<script, given, next_var, released_vars, free_vars, assumptions>>
dbVars == <<clauses, learnts>>
memVars == <<ca, watches, dirty>>
trailVars == <<trail, trail_lim, vardata, qhead>>
analyzeVars == <<confl, seen, out_learnt, index>>
limitVars == <<options, conflictC, curr_restarts, max_learnts>>
resultVars == <<answer, model, conflict>>
vars == <<userVars, ok, dbVars, memVars, trailVars, order_heap, pc, caller, todo,
          analyzeVars, limitVars, resultVars>>

-----------------------------------------------------------------------------
(* A clause watches its first two literals; w0 is the one it implies when    *)
(* it is the reason of an assignment.                                        *)
Clause == [w0 : Lits, w1 : Lits, rest : SUBSET Lits, learnt : BOOLEAN, mark : BOOLEAN]
Watcher(cr, blocker) == [cref |-> cr, blocker |-> blocker]

LitsOf(c) == {c.w0, c.w1} \cup c.rest
Live == clauses \cup learnts

TrueLits == {trail[k] : k \in DOMAIN trail} \cup {free_vars[k] : k \in DOMAIN free_vars}
Assigned == {Var(p) : p \in TrueLits}
IsTrue(p) == p \in TrueLits
IsFalse(p) == Neg(p) \in TrueLits
Unset(p) == ~IsTrue(p) /\ ~IsFalse(p)
satisfied(c) == \E q \in LitsOf(c) : IsTrue(q)

decisionLevel == Len(trail_lim)
level(x) == vardata[x].level
reason(x) == vardata[x].reason
locked(cr) == IsTrue(ca[cr].w0) /\ reason(Var(ca[cr].w0)) = cr

(* The smallest reference that is not in use.                                *)
Fresh ==
  CHOOSE cr \in 1 .. Cardinality(DOMAIN ca) + 1 :
    /\ cr \notin DOMAIN ca
    /\ \A s \in 1 .. cr - 1 : s \in DOMAIN ca

(* ca.alloc and attachClause.                                                *)
Attach(c) ==
  /\ ca' = [cr \in DOMAIN ca \cup {Fresh} |-> IF cr = Fresh THEN c ELSE ca[cr]]
  /\ watches' = [watches EXCEPT ![Neg(c.w0)] = @ \cup {Watcher(Fresh, c.w1)},
                                ![Neg(c.w1)] = @ \cup {Watcher(Fresh, c.w0)}]
  /\ UNCHANGED dirty

Extended(x, from, lev, old) ==
  [y \in DOMAIN old \cup {x} |->
     IF y = x THEN [reason |-> from, level |-> lev] ELSE old[y]]

uncheckedEnqueue(p, from) ==
  /\ trail' = Append(trail, p)
  /\ vardata' = Extended(Var(p), from, decisionLevel, vardata)

(* How many literals cancelUntil(lev) keeps, and the variables it frees.     *)
Cut(lev) == IF decisionLevel > lev THEN trail_lim[lev + 1] ELSE Len(trail)
Undone(lev) == {Var(trail[k]) : k \in Cut(lev) + 1 .. Len(trail)}
KeptData(lev) == [x \in Assigned \ Undone(lev) |-> vardata[x]]

(* Mutant: the queue is not reset.                                           *)
QheadAfter_NotReset(lev) == qhead
QheadAfter(lev) == IF decisionLevel > lev THEN Cut(lev) ELSE qhead

HeapAfter(lev, heap) == heap \cup Undone(lev)

cancelUntil(lev, heap) ==
  /\ trail' = SubSeq(trail, 1, Cut(lev))
  /\ trail_lim' = SubSeq(trail_lim, 1, lev)
  /\ vardata' = KeptData(lev)
  /\ qhead' = QheadAfter(lev)
  /\ order_heap' = HeapAfter(lev, heap)

-----------------------------------------------------------------------------
Init ==
  /\ \E s \in Scripts : script = s.calls /\ options = s.options
  /\ given = {} /\ next_var = 0 /\ ok = TRUE
  /\ released_vars = {} /\ free_vars = <<>>
  /\ ca = <<>> /\ clauses = {} /\ learnts = {}
  /\ watches = [p \in Lits |-> {}] /\ dirty = {}
  /\ trail = <<>> /\ trail_lim = <<>> /\ vardata = <<>> /\ qhead = 0
  /\ order_heap = {}
  /\ pc = "idle" /\ caller = "user" /\ todo = {}
  /\ confl = CRef_Undef /\ seen = {} /\ out_learnt = {} /\ index = 0
  /\ conflictC = 0 /\ curr_restarts = 0 /\ max_learnts = 0
  /\ assumptions = <<>>
  /\ answer = "idle" /\ model = {} /\ conflict = {}

Called(name) ==
  /\ pc = "idle"
  /\ script # <<>>
  /\ Head(script).call = name
  /\ script' = Tail(script)

(* The user promises never to refer to a variable that was released.         *)
Usable(p) ==
  /\ Var(p) < next_var
  /\ p \notin released_vars /\ Neg(p) \notin released_vars
  /\ \A k \in DOMAIN free_vars : Var(free_vars[k]) # Var(p)

newVar ==
  /\ Called("newVar")
  /\ free_vars = <<>>
  /\ next_var < NVars
  /\ next_var' = next_var + 1
  /\ order_heap' = order_heap \cup {next_var}
  /\ UNCHANGED <<given, ok, dbVars, memVars, trailVars, released_vars, free_vars, pc, caller,
                 todo, analyzeVars, limitVars, assumptions, resultVars>>

(* A free variable is given out again, with empty lists and no value.  The   *)
(* clauses the user gave keep what they said of the other variables.         *)
ReuseVar ==
  /\ Called("newVar")
  /\ free_vars # <<>>
  /\ LET p == free_vars[Len(free_vars)] IN
       /\ given' = Without(given, p)
       /\ watches' = [watches EXCEPT ![p] = {}, ![Neg(p)] = {}]
       /\ vardata' = [x \in DOMAIN vardata \ {Var(p)} |-> vardata[x]]
       /\ order_heap' = order_heap \cup {Var(p)}
  /\ free_vars' = SubSeq(free_vars, 1, Len(free_vars) - 1)
  /\ UNCHANGED <<next_var, ok, dbVars, ca, dirty, trail, trail_lim, qhead, released_vars,
                 pc, caller, todo, analyzeVars, limitVars, assumptions, resultVars>>

(* addClause_.                                                               *)
Input == Head(script).lits
Remaining == {p \in Input : ~IsFalse(p)}
Storable == ok /\ \A p \in Input : ~IsTrue(p) /\ Neg(p) \notin Input

AddCall ==
  /\ Called("addClause")
  /\ \A p \in Input : Usable(p)
  /\ given' = given \cup {Input}
  /\ UNCHANGED <<next_var, released_vars, free_vars, assumptions, trail_lim, qhead,
                 order_heap, todo, analyzeVars, limitVars, resultVars>>

(* Nothing is stored: the solver is dead, or the clause holds already.       *)
AddNothing ==
  /\ AddCall
  /\ ~Storable
  /\ UNCHANGED <<ok, dbVars, memVars, trail, vardata, pc, caller>>

AddEmpty ==
  /\ AddCall
  /\ Storable
  /\ Remaining = {}
  /\ ok' = FALSE
  /\ UNCHANGED <<dbVars, memVars, trail, vardata, pc, caller>>

AddUnit ==
  /\ AddCall
  /\ Storable
  /\ \E p \in Lits : Remaining = {p} /\ uncheckedEnqueue(p, CRef_Undef)
  /\ pc' = "propagate"
  /\ caller' = "addClause"
  /\ UNCHANGED <<ok, dbVars, memVars>>

(* The literals are sorted, so the two smallest are watched.                 *)
AddLong ==
  /\ AddCall
  /\ Storable
  /\ \E p, q \in Remaining :
       /\ p < q
       /\ \A r \in Remaining \ {p} : q <= r
       /\ Attach([w0 |-> p, w1 |-> q, rest |-> Remaining \ {p, q},
                  learnt |-> FALSE, mark |-> FALSE])
  /\ clauses' = clauses \cup {Fresh}
  /\ UNCHANGED <<ok, learnts, trail, vardata, pc, caller>>

(* releaseVar: the literal is made true, and its variable is given back.     *)
releaseVar ==
  /\ Called("releaseVar")
  /\ LET p == Head(script).lit IN
       /\ Usable(p)
       /\ IF Unset(p)
          THEN /\ given' = given \cup {{p}}
               /\ released_vars' = released_vars \cup {p}
               /\ ok => uncheckedEnqueue(p, CRef_Undef)
               /\ ~ok => UNCHANGED <<trail, vardata>>
               /\ pc' = IF ok THEN "propagate" ELSE "idle"
          ELSE UNCHANGED <<given, released_vars, trail, vardata, pc>>
  /\ caller' = "addClause"
  /\ UNCHANGED <<next_var, free_vars, ok, dbVars, memVars, trail_lim, qhead, order_heap,
                 todo, analyzeVars, limitVars, assumptions, resultVars>>

(* solve and solve_, up to the first call of search.                         *)
Solve ==
  /\ Called("solve")
  /\ \A k \in DOMAIN Head(script).assumps : Usable(Head(script).assumps[k])
  /\ assumptions' = Head(script).assumps
  /\ model' = {} /\ conflict' = {} /\ answer' = "none"
  /\ max_learnts' = options.learntsize_factor * Cardinality(clauses)
  /\ conflictC' = 0 /\ curr_restarts' = 0
  /\ pc' = IF ok THEN "propagate" ELSE "dead"
  /\ caller' = "search"
  /\ UNCHANGED <<given, next_var, released_vars, free_vars, ok, dbVars, memVars, trailVars,
                 order_heap, todo, analyzeVars, options>>

(* What a call of solve ends with; cancelUntil(0) is part of it.             *)
Return(ans, mod, confs, heap) ==
  /\ answer' = ans
  /\ model' = mod
  /\ conflict' = confs
  /\ cancelUntil(0, heap)
  /\ pc' = "idle"
  /\ UNCHANGED <<userVars, dbVars, memVars, caller, todo, limitVars>>

SolveDead ==
  /\ pc = "dead"
  /\ Return("unsat", {}, {}, order_heap)
  /\ UNCHANGED <<ok, analyzeVars>>

-----------------------------------------------------------------------------
(* propagate.  The literal being propagated is trail[qhead].                 *)

Propagating == trail[qhead]
false_lit == Neg(Propagating)

(* lookup: a list with removed clauses in it is cleaned first.               *)
Cleaned(p) == IF p \in dirty THEN {w \in watches[p] : ~ca[w.cref].mark} ELSE watches[p]

NextFact ==
  /\ pc = "propagate"
  /\ todo = {}
  /\ qhead < Len(trail)
  /\ LET p == trail[qhead + 1] IN
       /\ watches' = [watches EXCEPT ![p] = Cleaned(p)]
       /\ dirty' = dirty \ {p}
       /\ todo' = Cleaned(p)
  /\ qhead' = qhead + 1
  /\ UNCHANGED <<userVars, ok, dbVars, ca, trail, trail_lim, vardata, order_heap, pc,
                 caller, analyzeVars, limitVars, resultVars>>

(* The clause with its false literal second, and its other watched literal.  *)
First(c) == IF c.w0 = false_lit THEN c.w1 ELSE c.w0
Swapped(c) == [c EXCEPT !.w0 = First(c), !.w1 = false_lit]

Replaced(w) == (watches[Propagating] \ {w}) \cup {Watcher(w.cref, First(ca[w.cref]))}

Visit(w) ==
  /\ todo' = todo \ {w}
  /\ UNCHANGED <<userVars, dbVars, dirty, trail_lim, order_heap, caller, limitVars,
                 resultVars>>

(* Mutant: a clause is also skipped when its blocker is not assigned.        *)
Skipped_Unset(w) == ~IsFalse(w.blocker)
Skipped(w) == IsTrue(w.blocker)

(* The blocker is true: the clause is not looked at.                         *)
Blocked ==
  /\ pc = "propagate"
  /\ \E w \in todo : Skipped(w) /\ Visit(w)
  /\ UNCHANGED <<ok, ca, watches, trail, vardata, qhead, pc, analyzeVars>>

(* The other watched literal is true.                                        *)
FirstTrue ==
  /\ pc = "propagate"
  /\ \E w \in todo :
       /\ ~Skipped(w)
       /\ IsTrue(First(ca[w.cref]))
       /\ ca' = [ca EXCEPT ![w.cref] = Swapped(@)]
       /\ watches' = [watches EXCEPT ![Propagating] = Replaced(w)]
       /\ Visit(w)
  /\ UNCHANGED <<ok, trail, vardata, qhead, pc, analyzeVars>>

(* Mutant: the moved watch is filed under the literal instead of its negation *)
ListFor_Itself(q) == q
ListFor(q) == Neg(q)

(* Mutant: any literal may be watched instead.                               *)
NewWatches_Any(c) == c.rest
NewWatches(c) == {q \in c.rest : ~IsFalse(q)}

(* Another literal that is not false is watched instead.                     *)
MoveWatch ==
  /\ pc = "propagate"
  /\ \E w \in todo : LET c == ca[w.cref] IN
       /\ ~Skipped(w)
       /\ ~IsTrue(First(c))
       /\ \E q \in NewWatches(c) :
            /\ ca' = [ca EXCEPT ![w.cref] =
                        [c EXCEPT !.w0 = First(c), !.w1 = q,
                                  !.rest = (@ \ {q}) \cup {false_lit}]]
            /\ watches' = [watches EXCEPT
                             ![Propagating] = @ \ {w},
                             ![ListFor(q)] = @ \cup {Watcher(w.cref, First(c))}]
       /\ Visit(w)
  /\ UNCHANGED <<ok, trail, vardata, qhead, pc, analyzeVars>>

(* All but the first literal are false: it is implied.                       *)
Imply ==
  /\ pc = "propagate"
  /\ \E w \in todo : LET c == ca[w.cref] IN
       /\ ~Skipped(w)
       /\ NewWatches(c) = {}
       /\ Unset(First(c))
       /\ ca' = [ca EXCEPT ![w.cref] = Swapped(c)]
       /\ watches' = [watches EXCEPT ![Propagating] = Replaced(w)]
       /\ uncheckedEnqueue(First(c), w.cref)
       /\ Visit(w)
  /\ UNCHANGED <<ok, qhead, pc, analyzeVars>>

(* All literals are false.  addClause then gives up; search analyses.        *)
Clash ==
  /\ pc = "propagate"
  /\ \E w \in todo : LET c == ca[w.cref] IN
       /\ ~Skipped(w)
       /\ NewWatches(c) = {}
       /\ IsFalse(First(c))
       /\ ca' = [ca EXCEPT ![w.cref] = Swapped(c)]
       /\ watches' = [watches EXCEPT ![Propagating] = Replaced(w)]
       /\ confl' = w.cref
  /\ todo' = {}
  /\ qhead' = Len(trail)
  /\ index' = Len(trail) + 1
  /\ ok' = (caller # "addClause")
  /\ pc' = IF caller = "addClause" THEN "idle" ELSE "conflict"
  /\ UNCHANGED <<userVars, dbVars, dirty, trail, trail_lim, vardata, order_heap, caller,
                 seen, out_learnt, limitVars, resultVars>>

Propagated ==
  /\ pc = "propagate"
  /\ todo = {}
  /\ qhead = Len(trail)
  /\ pc' = IF caller = "addClause" THEN "idle" ELSE "decide"
  /\ UNCHANGED <<userVars, ok, dbVars, memVars, trailVars, order_heap, caller, todo,
                 analyzeVars, limitVars, resultVars>>

propagate ==
  NextFact \/ Blocked \/ FirstTrue \/ MoveWatch \/ Imply \/ Clash \/ Propagated

-----------------------------------------------------------------------------
(* analyze.  Literals of the conflict and of reasons are marked in seen,     *)
(* those of earlier levels go to out_learnt; the present level is resolved   *)
(* backwards along the trail until one literal of it is left.                *)

Parents(cr) == LitsOf(ca[cr]) \ {ca[cr].w0}
Present(xs) == {x \in xs : level(x) = decisionLevel}

(* A conflict without any decision refutes the clauses.                      *)
RootConflict ==
  /\ pc = "conflict"
  /\ decisionLevel = 0
  /\ ok' = FALSE
  /\ Return("unsat", {}, {}, order_heap)
  /\ UNCHANGED analyzeVars

Resolve ==
  /\ pc = "conflict"
  /\ decisionLevel > 0
  /\ LET looked == IF index > Len(trail) THEN LitsOf(ca[confl]) ELSE Parents(confl)
         new == {q \in looked : Var(q) \notin seen /\ level(Var(q)) > 0}
         marked == seen \cup {Var(q) : q \in new}
         next == CHOOSE k \in 1 .. index - 1 :
                   /\ Var(trail[k]) \in marked
                   /\ \A i \in k + 1 .. index - 1 : Var(trail[i]) \notin marked
         p == trail[next]
     IN  /\ out_learnt' = out_learnt \cup {q \in new : level(Var(q)) < decisionLevel}
         /\ index' = next
         /\ confl' = reason(Var(p))
         /\ seen' = marked \ {Var(p)}
         /\ pc' = IF Present(marked) = {Var(p)} THEN "learn" ELSE "conflict"
  /\ UNCHANGED <<userVars, ok, dbVars, memVars, trailVars, order_heap, caller, todo,
                 limitVars, resultVars>>

(* Mutant: the reason of a literal is not looked at below its parents.       *)
Redundant_Shallow(l) == reason(Var(l)) # CRef_Undef

(* litRedundant: l follows from the other literals of the learnt clause.     *)
(* Removable is what its depth-first search over reasons finds removable.    *)
Redundant(l) ==
  LET Covered(x, R) ==
        /\ reason(x) # CRef_Undef
        /\ \A q \in Parents(reason(x)) : level(Var(q)) = 0 \/ Var(q) \in seen \cup R
  IN  CASE options.ccmin_mode = 0 -> FALSE
        [] options.ccmin_mode = 1 -> Covered(Var(l), {})
        [] options.ccmin_mode = 2 -> \E R \in SUBSET Assigned :
                               Var(l) \in R /\ \A x \in R : Covered(x, R)

(* The literals of the greatest level: one of them is watched.               *)
SecondWatch(ls) == {q \in ls : \A r \in ls : level(Var(r)) <= level(Var(q))}

(* The rest of analyze, cancelUntil and the recording of the learnt clause.  *)
AfterConflict(bt, asserting, from) ==
  /\ trail' = Append(SubSeq(trail, 1, Cut(bt)), asserting)
  /\ trail_lim' = SubSeq(trail_lim, 1, bt)
  /\ vardata' = Extended(Var(asserting), from, bt, KeptData(bt))
  /\ qhead' = QheadAfter(bt)
  /\ order_heap' = HeapAfter(bt, order_heap)

LearnUnit(p) ==
  /\ AfterConflict(0, p, CRef_Undef)
  /\ UNCHANGED <<learnts, memVars>>

LearnClause(p, kept) ==
  /\ \E q \in SecondWatch(kept) :
       /\ Attach([w0 |-> p, w1 |-> q, rest |-> kept \ {q}, learnt |-> TRUE, mark |-> FALSE])
       /\ AfterConflict(level(Var(q)), p, Fresh)
  /\ learnts' = learnts \cup {Fresh}

Learn ==
  /\ pc = "learn"
  /\ LET p == Neg(trail[index])
         kept == {l \in out_learnt : ~Redundant(l)}
     IN  IF kept = {} THEN LearnUnit(p) ELSE LearnClause(p, kept)
  /\ seen' = {} /\ out_learnt' = {} /\ index' = 0 /\ confl' = CRef_Undef
  /\ conflictC' = conflictC + 1
  /\ pc' = "propagate"
  /\ UNCHANGED <<userVars, ok, clauses, caller, todo, options, curr_restarts,
                 max_learnts, resultVars>>

-----------------------------------------------------------------------------
(* search between two calls of propagate: restart, simplify, reduce, decide. *)

(* The position in the luby sequence 1 1 2 1 1 2 4 ...                       *)
luby[x \in Nat] ==
  LET k == CHOOSE i \in 0 .. x : 2^(i+1) > x + 1 /\ 2^i <= x + 1
  IN  IF 2^(k+1) = x + 2 THEN 2^k ELSE luby[x - 2^k + 1]

nof_conflicts == luby[curr_restarts] * options.restart_first

Restart ==
  /\ pc = "decide"
  /\ conflictC >= nof_conflicts
  /\ cancelUntil(0, order_heap)
  /\ conflictC' = 0
  /\ curr_restarts' = curr_restarts + 1
  /\ pc' = "propagate"
  /\ UNCHANGED <<userVars, ok, dbVars, memVars, caller, todo, analyzeVars, options,
                 max_learnts, resultVars>>

(* A budget is used up, or another thread called interrupt.                  *)
Interrupted ==
  /\ pc = "decide"
  /\ options.interruptible
  /\ Return("undef", {}, {}, order_heap)
  /\ UNCHANGED <<ok, analyzeVars>>

(* removeClause: the lists of a clause are only marked as dirty, and a       *)
(* reason that points to it is forgotten.                                    *)
Smudged(gone) == {Neg(ca[cr].w0) : cr \in gone} \cup {Neg(ca[cr].w1) : cr \in gone}

(* Mutant: the reasons are left as they are.                                 *)
Unlocked_Forgotten(gone) == vardata
Unlocked(gone) ==
  [x \in DOMAIN vardata |->
     IF \E cr \in gone : locked(cr) /\ Var(ca[cr].w0) = x
     THEN [vardata[x] EXCEPT !.reason = CRef_Undef]
     ELSE vardata[x]]

(* checkGarbage: the memory of removed clauses is reclaimed now or later.    *)
Reclaimed(mem) == [cr \in {r \in DOMAIN mem : ~mem[r].mark} |-> mem[cr]]
checkGarbage(mem, lists) ==
  \/ /\ ca' = mem /\ dirty' = lists
     /\ UNCHANGED watches
  \/ /\ ca' = Reclaimed(mem) /\ dirty' = {}
     /\ watches' = [p \in Lits |->
                      IF p \in lists THEN {w \in watches[p] : ~mem[w.cref].mark}
                      ELSE watches[p]]

(* removeSatisfied: a clause that holds is removed, and others lose the      *)
(* literals that are false and not watched.                                  *)
Trimmed(c) == [c EXCEPT !.rest = {q \in @ : ~IsFalse(q)}]

(* The elements of a sequence at the positions ks.                           *)
Picked(seq, ks) ==
  [i \in 1 .. Cardinality(ks) |->
     seq[CHOOSE k \in ks : Cardinality({j \in ks : j <= k}) = i]]

(* Released variables leave the trail and become free.                       *)
Released == {k \in DOMAIN trail : trail[k] \in released_vars}

Simplified ==
  /\ LET gone == {cr \in Live : satisfied(ca[cr])} IN
       /\ checkGarbage([cr \in DOMAIN ca |->
                          IF cr \in gone THEN [ca[cr] EXCEPT !.mark = TRUE]
                          ELSE IF cr \in Live THEN Trimmed(ca[cr]) ELSE ca[cr]],
                       dirty \cup Smudged(gone))
       /\ vardata' = Unlocked(gone)
       /\ clauses' = clauses \ gone
       /\ learnts' = learnts \ gone
  /\ trail' = Picked(trail, DOMAIN trail \ Released)
  /\ qhead' = Len(trail')
  /\ free_vars' = free_vars \o Picked(trail, Released)
  /\ released_vars' = {}
  /\ order_heap' = 0 .. next_var - 1 \ Assigned
  /\ UNCHANGED <<given, next_var, assumptions, ok, trail_lim, caller, todo, analyzeVars,
                 limitVars, resultVars>>

simplify ==
  /\ pc = "decide"
  /\ conflictC < nof_conflicts
  /\ decisionLevel = 0
  /\ Simplified
  /\ pc' = "reduce"
  /\ UNCHANGED script

(* The user may call it too; nothing is left to propagate then.              *)
SimplifyCall ==
  /\ Called("simplify")
  /\ ok
  /\ Simplified
  /\ UNCHANGED pc

(* It returns at once if the solver is dead or little has changed.           *)
SimplifySkipped ==
  /\ Called("simplify")
  /\ UNCHANGED <<given, next_var, released_vars, free_vars, assumptions, ok, dbVars, memVars,
                 trailVars, order_heap, pc, caller, todo, analyzeVars, limitVars, resultVars>>

(* Above level 0 search does not call it, and here too it may do nothing.    *)
NotSimplified ==
  /\ pc = "decide"
  /\ conflictC < nof_conflicts
  /\ pc' = "reduce"
  /\ UNCHANGED <<userVars, ok, dbVars, memVars, trailVars, order_heap, caller, todo,
                 analyzeVars, limitVars, resultVars>>

(* Mutant: reasons of assignments are removed like other clauses.            *)
Removable_Locked == {cr \in learnts : ca[cr].rest # {}}
(* Neither binary clauses nor reasons are ever removed.                      *)
Removable == {cr \in learnts : ca[cr].rest # {} /\ ~locked(cr)}

TooManyLearnts == 3 * (Cardinality(learnts) - Len(trail)) >= max_learnts

(* Which of the removable clauses go depends on their activities.            *)
reduceDB ==
  /\ pc = "reduce"
  /\ TooManyLearnts
  /\ \E gone \in SUBSET Removable :
       /\ checkGarbage([cr \in DOMAIN ca |->
                          IF cr \in gone THEN [ca[cr] EXCEPT !.mark = TRUE] ELSE ca[cr]],
                       dirty \cup Smudged(gone))
       /\ vardata' = Unlocked(gone)
       /\ learnts' = learnts \ gone
  /\ pc' = "pick"
  /\ UNCHANGED <<userVars, ok, clauses, trail, trail_lim, qhead, order_heap, caller, todo, analyzeVars,
                 limitVars, resultVars>>

NotReduced ==
  /\ pc = "reduce"
  /\ ~TooManyLearnts
  /\ pc' = "pick"
  /\ UNCHANGED <<userVars, ok, dbVars, memVars, trailVars, order_heap, caller, todo,
                 analyzeVars, limitVars, resultVars>>

-----------------------------------------------------------------------------
(* The first assumptions are the first decisions, one level each.            *)

Pending == pc = "pick" /\ decisionLevel < Len(assumptions)
NextAssumption == assumptions[decisionLevel + 1]

(* Decision levels begin where trail_lim says.                               *)
newDecisionLevel == trail_lim' = Append(trail_lim, Len(trail))

Decide(p) ==
  /\ newDecisionLevel
  /\ trail' = Append(trail, p)
  /\ vardata' = Extended(Var(p), CRef_Undef, decisionLevel + 1, vardata)

DummyLevel ==
  /\ Pending
  /\ IsTrue(NextAssumption)
  /\ newDecisionLevel
  /\ UNCHANGED <<userVars, ok, dbVars, memVars, trail, vardata, qhead, order_heap, pc,
                 caller, todo, analyzeVars, limitVars, resultVars>>

Assume ==
  /\ Pending
  /\ Unset(NextAssumption)
  /\ Decide(NextAssumption)
  /\ pc' = "propagate"
  /\ UNCHANGED <<userVars, ok, dbVars, memVars, qhead, order_heap, caller, todo,
                 analyzeVars, limitVars, resultVars>>

(* analyzeFinal: which assumptions made this one false.                      *)
AssumptionFalse ==
  /\ Pending
  /\ IsFalse(NextAssumption)
  /\ conflict' = {Neg(NextAssumption)}
  /\ seen' = IF decisionLevel = 0 THEN {} ELSE {Var(NextAssumption)}
  /\ index' = Len(trail) + 1
  /\ pc' = "final"
  /\ UNCHANGED <<userVars, ok, dbVars, memVars, trailVars, order_heap, caller, todo,
                 confl, out_learnt, limitVars, answer, model>>

(* Mutant: the walk stops one position early.                                *)
Decided_OffByOne == IF decisionLevel = 0 THEN Len(trail) ELSE trail_lim[1] + 1
(* The positions of the trail it still has to visit.                         *)
Decided == IF decisionLevel = 0 THEN Len(trail) ELSE trail_lim[1]
ToVisit == {k \in Decided + 1 .. index - 1 : Var(trail[k]) \in seen}

(* Mutant: literals of level 0, which are never visited, are marked too.     *)
MarkedBy_Root(from) ==
  IF from = CRef_Undef THEN {} ELSE {Var(q) : q \in Parents(from)}
MarkedBy(from) ==
  IF from = CRef_Undef THEN {}
  ELSE {Var(q) : q \in {r \in Parents(from) : level(Var(r)) > 0}}

(* Only assumptions have no reason here: no other decision was made yet.     *)
FinalStep ==
  /\ pc = "final"
  /\ \E k \in ToVisit :
       /\ \A i \in ToVisit : i <= k
       /\ LET p == trail[k]
              from == reason(Var(p))
          IN  /\ conflict' = IF from = CRef_Undef THEN conflict \cup {Neg(p)} ELSE conflict
              /\ seen' = (seen \ {Var(p)}) \cup MarkedBy(from)
       /\ index' = k
  /\ UNCHANGED <<userVars, ok, dbVars, memVars, trailVars, order_heap, pc, caller, todo,
                 confl, out_learnt, limitVars, answer, model>>

FinalDone ==
  /\ pc = "final"
  /\ ToVisit = {}
  /\ Return("unsat", {}, conflict, order_heap)
  /\ seen' = seen \ {Var(NextAssumption)}
  /\ index' = 0
  /\ UNCHANGED <<ok, confl, out_learnt>>

(* pickBranchLit: assigned variables met on the heap leave it.               *)
Free == {x \in order_heap : x \notin Assigned}

Branch ==
  /\ pc = "pick"
  /\ decisionLevel >= Len(assumptions)
  /\ \E x \in Free, s \in {0, 1}, gone \in SUBSET (order_heap \cap Assigned) :
       /\ Decide(mkLit(x, s))
       /\ order_heap' = order_heap \ (gone \cup {x})
  /\ pc' = "propagate"
  /\ UNCHANGED <<userVars, ok, dbVars, memVars, qhead, caller, todo, analyzeVars,
                 limitVars, resultVars>>

(* Nothing is left to decide: the assignment is the model.                   *)
ModelFound ==
  /\ pc = "pick"
  /\ decisionLevel >= Len(assumptions)
  /\ Free = {}
  /\ Return("sat", TrueLits, {}, {})
  /\ UNCHANGED <<ok, analyzeVars>>

-----------------------------------------------------------------------------
user ==
  \/ newVar \/ ReuseVar \/ releaseVar
  \/ AddNothing \/ AddEmpty \/ AddUnit \/ AddLong
  \/ SimplifyCall \/ SimplifySkipped \/ Solve
analyze == RootConflict \/ Resolve \/ Learn
search ==
  \/ Restart \/ Interrupted \/ simplify \/ NotSimplified \/ reduceDB \/ NotReduced
  \/ DummyLevel \/ Assume \/ AssumptionFalse \/ FinalStep \/ FinalDone
  \/ Branch \/ ModelFound

solver == SolveDead \/ propagate \/ analyze \/ search

Next == user \/ solver

(* The solver is one thread that keeps running; nothing makes the user call. *)
Spec == Init /\ [][Next]_vars /\ WF_vars(solver)

-----------------------------------------------------------------------------
(* Types.                                                                    *)

CRefs == Nat \ {CRef_Undef}
TypeOK ==
  /\ script \in Seq(Calls) /\ options \in Options
  /\ given \in SUBSET SUBSET Lits
  /\ next_var \in 0 .. NVars
  /\ released_vars \in SUBSET Lits /\ free_vars \in Seq(Lits)
  /\ ok \in BOOLEAN
  /\ DOMAIN ca \subseteq CRefs /\ \A cr \in DOMAIN ca : ca[cr] \in Clause
  /\ clauses \subseteq DOMAIN ca /\ learnts \subseteq DOMAIN ca
  /\ \A p \in Lits : watches[p] \subseteq [cref : DOMAIN ca, blocker : Lits]
  /\ dirty \in SUBSET Lits
  /\ trail \in Seq(Lits) /\ trail_lim \in Seq(Nat)
  /\ DOMAIN vardata = Assigned
  /\ \A x \in Assigned : vardata[x] \in [reason : DOMAIN ca \cup {CRef_Undef}, level : Nat]
  /\ qhead \in 0 .. Len(trail)
  /\ order_heap \in SUBSET (0 .. next_var - 1)
  /\ pc \in {"idle", "dead", "propagate", "conflict", "learn", "decide", "reduce",
             "pick", "final"}
  /\ caller \in {"user", "addClause", "search"}
  /\ pc = "propagate" => todo \subseteq UNION {watches[p] : p \in Lits}
  /\ seen \subseteq Assigned /\ out_learnt \in SUBSET Lits
  /\ index \in 0 .. Len(trail) + 1
  /\ conflictC \in Nat /\ curr_restarts \in Nat /\ max_learnts \in Nat
  /\ assumptions \in Seq(Lits)
  /\ answer \in {"idle", "none", "sat", "unsat", "undef"}
  /\ model \in SUBSET Lits /\ conflict \in SUBSET Lits

-----------------------------------------------------------------------------
(* The trail.                                                                *)

Earlier(p, k) == \E i \in 1 .. k - 1 : trail[i] = p
Opens(k) == \E i \in DOMAIN trail_lim : trail_lim[i] = k - 1

(* No variable is assigned twice (the assertion of uncheckedEnqueue), levels *)
(* follow the trail, and above level 0 a literal without a reason is the     *)
(* decision its level begins with, as the walks of analyze and analyzeFinal  *)
(* rely on.                                                                  *)
TrailOrdered ==
  /\ \A i, k \in DOMAIN trail : Var(trail[i]) = Var(trail[k]) => i = k
  /\ \A k \in DOMAIN trail :
       LET x == Var(trail[k]) IN
         /\ level(x) = Cardinality({i \in DOMAIN trail_lim : trail_lim[i] < k})
         /\ level(x) > 0 => (reason(x) = CRef_Undef <=> Opens(k))

(* A reason is a clause still in memory and not removed, whose first literal *)
(* is the one it implied and whose other literals were false before: what    *)
(* reduceDB, simplify and the collection of garbage must not break while an  *)
(* assignment points to the clause.                                          *)
ReasonsLive ==
  \A k \in DOMAIN trail :
    LET cr == reason(Var(trail[k])) IN
      cr # CRef_Undef =>
        /\ cr \in Live
        /\ ca[cr].w0 = trail[k]
        /\ \A q \in Parents(cr) : Earlier(Neg(q), k)

-----------------------------------------------------------------------------
(* Watched literals.                                                         *)

WatchersOf(cr, p) == {w \in watches[p] : w.cref = cr}

(* A clause is found, once, from each of the two literals it watches, with a *)
(* blocker that is one of its literals or was trimmed from it; a list that   *)
(* is not marked as dirty holds nothing else.                                *)
WatchersFound ==
  /\ \A cr \in Live : \A p \in {Neg(ca[cr].w0), Neg(ca[cr].w1)} :
       /\ Cardinality(WatchersOf(cr, p)) = 1
       /\ \A w \in WatchersOf(cr, p) :
            w.blocker \in LitsOf(ca[cr]) \/ (IsFalse(w.blocker) /\ level(Var(w.blocker)) = 0)
  /\ \A p \in Lits \ dirty : \A w \in watches[p] :
       w.cref \in Live /\ Neg(p) \in {ca[w.cref].w0, ca[w.cref].w1}

(* The facts propagate is done with: todo is what is left of the last one.   *)
Done(k, w) == k < qhead \/ (k = qhead /\ w \notin todo)

(* When propagate is done with a fact, every clause that watches its         *)
(* negation has a blocker that is true and was so no later than the fact:    *)
(* the clause needs no other watch until cancelUntil takes the fact back.    *)
WatchesHold ==
  ok /\ pc \notin {"conflict", "learn"} =>
    \A k \in 1 .. qhead : \A w \in watches[trail[k]] :
      w.cref \in Live /\ Done(k, w) =>
        IsTrue(w.blocker) /\ level(Var(w.blocker)) <= level(Var(trail[k]))

(* When search decides and between the calls of a user, nothing is left to   *)
(* propagate, no clause is falsified or unit, and a clause that is not       *)
(* satisfied has its two watched literals unassigned (the assertion of       *)
(* removeSatisfied).                                                         *)
NothingImplied ==
  ok /\ pc \in {"idle", "decide", "reduce", "pick"} =>
    /\ qhead = Len(trail)
    /\ \A cr \in Live : satisfied(ca[cr]) \/ (Unset(ca[cr].w0) /\ Unset(ca[cr].w1))

-----------------------------------------------------------------------------
(* Conflict analysis.                                                        *)

(* What the solver derives follows from the clauses it was given: a model of *)
(* them satisfies the clauses it keeps and has the assignments of level 0,   *)
(* and a solver that is no longer ok has no model.                           *)
Entailed ==
  \A m \in Models(given) :
    /\ \A cr \in Live : SatisfiesClause(m, LitsOf(ca[cr]))
    /\ \A k \in DOMAIN trail : level(Var(trail[k])) = 0 => Makes(m, trail[k])
    /\ ok

(* No mark survives an analysis: analyze, litRedundant and analyzeFinal all  *)
(* start from seen being clear.                                              *)
SeenClean ==
  pc \notin {"conflict", "learn", "final"} => seen = {} /\ out_learnt = {}

-----------------------------------------------------------------------------
(* Answers.                                                                  *)

(* A model decides every variable and satisfies all clauses and assumptions. *)
(* A final conflict consists of negated assumptions, follows from the        *)
(* clauses, and is empty when the clauses alone are unsatisfiable.           *)
AnswerJustified ==
  CASE answer' = "sat" ->
         LET m == [x \in Vars |-> mkLit(x, 0) \in model'] IN
           /\ \A x \in 0 .. next_var - 1 :
                mkLit(x, 0) \in model' <=> mkLit(x, 1) \notin model'
           /\ Satisfies(m, given)
           /\ \A k \in DOMAIN assumptions : Makes(m, assumptions[k])
    [] answer' = "unsat" ->
         /\ Entails(given, conflict')
         /\ \A p \in conflict' : \E k \in DOMAIN assumptions : assumptions[k] = Neg(p)
         /\ conflict' = {} <=> ~ok'
    [] OTHER -> TRUE

AnswersJustified == [][answer = "none" => AnswerJustified]_vars

(* The assertion of removeSatisfied by itself: a clause that simplify keeps  *)
(* has its first two literals unassigned.  Code that trims the others relies *)
(* on it.                                                                    *)
TrimsOpenClauses ==
  [][simplify \/ SimplifyCall =>
       \A cr \in Live : satisfied(ca[cr]) \/ (Unset(ca[cr].w0) /\ Unset(ca[cr].w1))]_vars

(* The solver keeps the promise, and every call of solve comes back.         *)
Promise == INSTANCE IncrementalSat WITH
  assumed <- {assumptions[k] : k \in DOMAIN assumptions},
  interruptible <- options.interruptible

KeepsPromise == Promise!Spec
=============================================================================
