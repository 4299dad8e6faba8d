---------------------------- MODULE LocalSearch ----------------------------
(***************************************************************************)
(* relaxedNewTech/ccnr.cc: the local search that the solver calls now and  *)
(* then.  It starts from a solution it is given and flips one variable at  *)
(* a time.  Counts, scores and lists that say which flip is best are kept  *)
(* up to date by each flip and never computed again; that they stay right  *)
(* is what the invariants are about.                                       *)
(*                                                                         *)
(* A clause is a sequence of literals, whose order decides ties.           *)
(* Positions are counted from one, and variables from zero: the code's     *)
(* variable v + 1 is v.                                                    *)
(***************************************************************************)
EXTENDS SatLits, SequencesExt

CONSTANTS
  MaxMems,     \* _max_mems
  MaxSteps,    \* _max_steps
  Threshold    \* _swt_threshold

ASSUME BudgetAssumption == MaxMems \in Nat /\ MaxSteps \in Nat /\ Threshold \in Nat

VARIABLES
  ls,          \* the data of ls_solver
  ls_best,     \* _best_solution and _best_found_cost
  ls_step,     \* _step
  ls_mode      \* "idle", "flip" in the loop of local_search, then "true" or "false"

lsVars == <<ls, ls_best, ls_step, ls_mode>>

-----------------------------------------------------------------------------
(* The elements of a sequence that are in T, in their order, and the literals *)
(* of a set in order.                                                        *)
Selected(seq, T) ==
  FoldLeft(LAMBDA kept, x : IF x \in T THEN Append(kept, x) ELSE kept, <<>>, seq)
Sorted(S) == Selected([k \in 1 .. NVars + NVars |-> k - 1], S)

-----------------------------------------------------------------------------
(* What the lists and the counts are of.  TrueAt are the positions of the     *)
(* literals of a clause that are true.                                       *)

ClausesOf(s) == DOMAIN s.clauses
VarsIn(s) == DOMAIN s.solution
TrueAt(s, c) == {i \in DOMAIN s.clauses[c] : Makes(s.solution, s.clauses[c][i])}
TrueVars(s, c) == {Var(s.clauses[c][i]) : i \in TrueAt(s, c)}
ClauseVars(s, c) == [i \in DOMAIN s.clauses[c] |-> Var(s.clauses[c][i])]
Mentions(s, c, v) == v \in ToSet(ClauseVars(s, c))
Positions(seq) == [k \in DOMAIN seq |-> k]
OccursIn(s, v) == Selected(Positions(s.clauses), {c \in ClausesOf(s) : Mentions(s, c, v)})

(* build_neighborhood: the other variables of v's clauses, as they come.      *)
Neighbours(s, v) ==
  LET met(us, u) == IF u = v \/ u \in ToSet(us) THEN us ELSE Append(us, u)
  IN  FoldLeft(LAMBDA us, c : FoldLeft(met, us, ClauseVars(s, c)), <<>>, OccursIn(s, v))

(* What a flip of v would win: the weight of the clauses it satisfies less   *)
(* that of the clauses that only v satisfies.                                *)
Gain(s, v) ==
  LET worth == [c \in ClausesOf(s) |->
                  CASE s.sat_count[c] = 0 -> s.weight[c]
                    [] s.sat_count[c] = 1 /\ v \in TrueVars(s, c) -> -s.weight[c]
                    [] OTHER -> 0]
  IN  MapThenSumSet(LAMBDA c : worth[c], ToSet(OccursIn(s, v)))

-----------------------------------------------------------------------------
(* A list with the position of each of its elements; the last element takes  *)
(* the place of one that leaves.                                             *)

Push(l, x) == [items |-> Append(l.items, x), at |-> [l.at EXCEPT ![x] = Len(l.items) + 1]]

(* Mutant: the element that moves keeps its old position.                    *)
Drop_Unmoved(l, x) ==
  LET left == Front(l.items) IN
    [l EXCEPT !.items = IF l.at[x] \in DOMAIN left THEN [left EXCEPT ![l.at[x]] = Last(l.items)]
                        ELSE left]
Drop(l, x) ==
  LET left == Front(l.items) IN
    [items |-> IF l.at[x] \in DOMAIN left THEN [left EXCEPT ![l.at[x]] = Last(l.items)]
               ELSE left,
     at |-> [l.at EXCEPT ![Last(l.items)] = l.at[x]]]

Appears(s, v, n) == [s EXCEPT !.unsat_appear[v] = @ + n]

unsat_a_clause(s, c) ==
  LET Appear(t, v) == LET u == Appears(t, v, 1) IN
        IF u.unsat_appear[v] = 1 THEN [u EXCEPT !.unsat_vars = Push(@, v)] ELSE u
  IN  FoldLeft(Appear, [s EXCEPT !.unsat_clauses = Push(@, c)], ClauseVars(s, c))

sat_a_clause(s, c) ==
  LET Vanish(t, v) == LET u == Appears(t, v, -1) IN
        IF u.unsat_appear[v] = 0 THEN [u EXCEPT !.unsat_vars = Drop(@, v)] ELSE u
  IN  FoldLeft(Vanish, [s EXCEPT !.unsat_clauses = Drop(@, c)], ClauseVars(s, c))

-----------------------------------------------------------------------------
(* initialize, on clauses and the solution to start from.                    *)

Empty(s, S) == [items |-> <<>>, at |-> [x \in S |-> 0]]

initialize_clause(s, c) ==
  LET trues == TrueAt(s, c)
      t == [s EXCEPT !.sat_count[c] = Cardinality(trues),
                     !.sat_var[c] = IF trues = {} THEN -1 ELSE Var(s.clauses[c][Max(trues)])]
  IN  IF trues = {} THEN unsat_a_clause(t, c) ELSE t

(* The variables worth flipping: their neighbours changed since they did.    *)
Wanted(s) == {v \in VarsIn(s) : s.score[v] > 0 /\ s.cc_value[v]}
WithCcd(s) == [s EXCEPT !.ccd_vars = Sorted(Wanted(s)),
                        !.in_ccd = [v \in VarsIn(s) |-> v \in Wanted(s)]]

initialize_variable_datas(s) ==
  WithCcd([s EXCEPT !.score = [v \in VarsIn(s) |-> Gain(s, v)],
                    !.last_flip_step = [v \in VarsIn(s) |-> 0],
                    !.cc_value = [v \in VarsIn(s) |-> TRUE]])

clear_prev_data(cs, soln) ==
  LET vs == DOMAIN soln IN
    [clauses |-> cs, solution |-> soln,
     sat_count |-> [c \in DOMAIN cs |-> 0], sat_var |-> [c \in DOMAIN cs |-> -1],
     weight |-> [c \in DOMAIN cs |-> 1],
     unsat_clauses |-> Empty(cs, DOMAIN cs), unsat_vars |-> Empty(soln, vs),
     unsat_appear |-> [v \in vs |-> 0], score |-> [v \in vs |-> 0],
     last_flip_step |-> [v \in vs |-> 0], cc_value |-> [v \in vs |-> TRUE],
     in_ccd |-> [v \in vs |-> FALSE], ccd_vars |-> <<>>, avg |-> 1, delta |-> 0, mems |-> 0]

initialize(cs, soln) ==
  initialize_variable_datas(
    FoldLeft(initialize_clause, clear_prev_data(cs, soln), Positions(cs)))

-----------------------------------------------------------------------------
(* Which variable is best: the first of those with the highest score, and     *)
(* among them with the oldest flip.                                          *)

Better(s, v, u) ==
  \/ s.score[v] > s.score[u]
  \/ s.score[v] = s.score[u] /\ s.last_flip_step[v] < s.last_flip_step[u]
BestOf(s, seq) ==
  LET better(u, v) == IF Better(s, v, u) THEN v ELSE u IN FoldLeft(better, Head(seq), seq)

(* The weight of c is w from now on: the total, kept as an average and what   *)
(* is left over, grows by it.                                                *)
(* Mutant: the average takes nothing from what is left over.                  *)
Smoothed_NotTaken(s, c, w) ==
  LET n == Len(s.clauses) d == s.delta + w IN
    [s EXCEPT !.weight[c] = w, !.avg = IF d >= n THEN @ + 1 ELSE @, !.delta = d]
Smoothed(s, c, w) ==
  LET n == Len(s.clauses) d == s.delta + w IN
    [s EXCEPT !.weight[c] = w,
              !.avg = IF d >= n THEN @ + 1 ELSE @,
              !.delta = IF d >= n THEN d - n ELSE d]

Rescored(s, vs, w) ==
  [s EXCEPT !.score = [v \in VarsIn(s) |-> IF v \in vs THEN @[v] + w ELSE @[v]]]

(* Weights drift back to their average: 0.3 of each and 0.7 of that.          *)
smooth_clause_weights(s) ==
  LET scale_avg == (s.avg * 7) \div 10
      smooth(t, c) ==
        LET w == Max({1, (t.weight[c] * 3) \div 10 + scale_avg})
            u == Smoothed(t, c, w)
        IN  CASE u.sat_count[c] = 0 -> Rescored(u, ToSet(ClauseVars(u, c)), w)
              [] u.sat_count[c] = 1 -> Rescored(u, {u.sat_var[c]}, -w)
              [] OTHER -> u
      unscored == [s EXCEPT !.score = [v \in VarsIn(s) |-> 0], !.avg = 0, !.delta = 0]
  IN  WithCcd(FoldLeft(smooth, unscored, Positions(s.clauses)))

Enlist(s, v) == [s EXCEPT !.ccd_vars = Append(@, v), !.in_ccd[v] = TRUE]

update_clause_weights(s) ==
  LET n == Len(s.clauses)
      unsat == s.unsat_clauses.items
      Raise(t, v) ==
        LET u == [t EXCEPT !.score[v] = @ + t.unsat_appear[v]] IN
          IF u.score[v] > 0 /\ u.cc_value[v] /\ ~u.in_ccd[v] THEN Enlist(u, v) ELSE u
      heavier == [s EXCEPT !.weight = [c \in ClausesOf(s) |->
                                         IF c \in ToSet(unsat) THEN @[c] + 1 ELSE @[c]],
                           !.mems = @ + Len(s.unsat_vars.items)]
      raised == FoldLeft(Raise, heavier, s.unsat_vars.items)
      d == s.delta + Len(unsat)
      full == [raised EXCEPT !.avg = @ + 1, !.delta = d - n]
  IN  IF d < n THEN [raised EXCEPT !.delta = d]
      ELSE IF full.avg > Threshold THEN smooth_clause_weights(full)
      ELSE full

-----------------------------------------------------------------------------
(* flip.                                                                     *)

(* The first variable that makes the clause true.                            *)
SoleVar(s, c) == Var(s.clauses[c][Min(TrueAt(s, c))])

flip_clause(s, v, c) ==
  LET vs == ToSet(ClauseVars(s, c))
      gained == [s EXCEPT !.sat_count[c] = @ + 1]
      lost == [s EXCEPT !.sat_count[c] = @ - 1]
      made == v \in TrueVars(s, c)
  IN  CASE made /\ s.sat_count[c] = 0 ->
             Rescored([sat_a_clause(gained, c) EXCEPT !.sat_var[c] = v], vs, -s.weight[c])
        [] made /\ s.sat_count[c] = 1 -> Rescored(gained, {s.sat_var[c]}, s.weight[c])
        [] ~made /\ s.sat_count[c] = 1 -> Rescored(unsat_a_clause(lost, c), vs, s.weight[c])
        [] ~made /\ s.sat_count[c] = 2 ->
             [Rescored(lost, {SoleVar(s, c)}, -s.weight[c]) EXCEPT !.sat_var[c] = SoleVar(s, c)]
        [] OTHER -> IF made THEN gained ELSE lost

(* The k-th of ccd_vars leaves when a flip of it would win nothing.          *)
Leave(s, k) ==
  LET v == s.ccd_vars[k] left == Front(s.ccd_vars) IN
    IF s.score[v] > 0 THEN s
    ELSE [s EXCEPT !.ccd_vars = IF k \in DOMAIN left
                                THEN [left EXCEPT ![k] = Last(s.ccd_vars)] ELSE left,
                   !.in_ccd[v] = FALSE, !.mems = @ + 1]

(* A neighbour of the flipped variable.                                      *)
(* Mutant: it joins ccd_vars a second time.                                  *)
Join_Twice(s, v) ==
  LET t == [s EXCEPT !.cc_value[v] = TRUE] IN
    IF t.score[v] > 0 THEN [Enlist(t, v) EXCEPT !.mems = @ + 1] ELSE t
Join(s, v) ==
  LET t == [s EXCEPT !.cc_value[v] = TRUE] IN
    IF t.score[v] > 0 /\ ~t.in_ccd[v] THEN [Enlist(t, v) EXCEPT !.mems = @ + 1] ELSE t

update_cc_after_flip(s, flipv) ==
  LET positions == Reverse(Positions(s.ccd_vars))
      kept == FoldLeft(Leave, [s EXCEPT !.cc_value[flipv] = FALSE], positions)
  IN  FoldLeft(Join, kept, Neighbours(s, flipv))

flip(s, v) ==
  LET mine == OccursIn(s, v)
      turned == [s EXCEPT !.solution[v] = ~@, !.mems = @ + Len(mine)]
      counted == FoldLeft(LAMBDA t, c : flip_clause(t, v, c), turned, mine)
  IN  update_cc_after_flip([counted EXCEPT !.score[v] = -s.score[v],
                                           !.last_flip_step[v] = ls_step], v)

-----------------------------------------------------------------------------
(* local_search: one action per way of picking the variable to flip.          *)

Cost(s) == Len(s.unsat_clauses.items)
Going == ls_mode = "flip" /\ Cost(ls) > 0 /\ ls_step < MaxSteps /\ ls.mems <= MaxMems

Idle == clear_prev_data(<<>>, <<>>)

Start(cs, soln) ==
  /\ ls_mode = "idle"
  /\ ls' = initialize(cs, soln)
  /\ ls_best' = [solution |-> soln, cost |-> Len(cs)]
  /\ ls_step' = 0
  /\ ls_mode' = "flip"

Flip(s, v) ==
  /\ ls' = flip(s, v)
  /\ ls_best' = IF Cost(ls') < ls_best.cost
                THEN [solution |-> ls'.solution, cost |-> Cost(ls')] ELSE ls_best
  /\ ls_step' = ls_step + 1
  /\ UNCHANGED ls_mode

Greedy ==
  /\ Going
  /\ ls.ccd_vars # <<>>
  /\ Flip([ls EXCEPT !.mems = @ + Len(ls.ccd_vars)], BestOf(ls, ls.ccd_vars))

HighScore == \E v \in ToSet(ls.unsat_vars.items) : ls.score[v] > ls.avg

Aspire ==
  /\ Going
  /\ ls.ccd_vars = <<>>
  /\ HighScore
  /\ Flip(ls, BestOf(ls, ls.unsat_vars.items))

Diversify ==
  /\ Going
  /\ ls.ccd_vars = <<>>
  /\ ~HighScore
  /\ LET s == update_clause_weights(ls) IN
       \E c \in ToSet(s.unsat_clauses.items) : Flip(s, BestOf(s, ClauseVars(s, c)))

Conclude ==
  /\ ls_mode = "flip"
  /\ ~Going
  /\ ls_mode' = IF Cost(ls) = 0 THEN "true" ELSE "false"
  /\ UNCHANGED <<ls, ls_best, ls_step>>

LocalInit ==
  /\ ls = Idle
  /\ ls_best = [solution |-> <<>>, cost |-> 0]
  /\ ls_step = 0
  /\ ls_mode = "idle"

-----------------------------------------------------------------------------
(* Properties of the search.                                                 *)

Searching == ls_mode # "idle"
Listed(l, S) ==
  /\ ToSet(l.items) = S
  /\ Len(l.items) = Cardinality(S)
  /\ \A i \in DOMAIN l.items : l.at[l.items[i]] = i

(* However many flips, the counts of sat_a_clause and unsat_a_clause are those *)
(* of the solution: each clause's true literals and, when there is one, its    *)
(* variable; the clauses with none, and the variables in these, each once and   *)
(* at the position that is kept for it.                                        *)
CountsRight ==
  Searching =>
    /\ \A c \in ClausesOf(ls) :
         /\ ls.sat_count[c] = Cardinality(TrueAt(ls, c))
         /\ ls.sat_count[c] = 1 => ls.sat_var[c] = SoleVar(ls, c)
    /\ Listed(ls.unsat_clauses, {c \in ClausesOf(ls) : TrueAt(ls, c) = {}})
    /\ Listed(ls.unsat_vars, {v \in VarsIn(ls) : ls.unsat_appear[v] > 0})
    /\ \A v \in VarsIn(ls) :
         ls.unsat_appear[v] = Cardinality({c \in ToSet(ls.unsat_clauses.items) : Mentions(ls, c, v)})

(* The scores that flip and the changes of weights keep up to date are what a   *)
(* flip of each variable would win now, and ccd_vars has exactly the variables  *)
(* that greedy steps may pick, each once.                                      *)
ScoresRight ==
  Searching =>
    /\ \A v \in VarsIn(ls) : ls.score[v] = Gain(ls, v)
    /\ ToSet(ls.ccd_vars) = Wanted(ls)
    /\ Len(ls.ccd_vars) = Cardinality(Wanted(ls))
    /\ \A v \in VarsIn(ls) : ls.in_ccd[v] <=> v \in Wanted(ls)

(* The average weight is kept without a division: the average and what is left  *)
(* over are the total weight, through increments and smoothing.                 *)
AverageExact ==
  Searching =>
    ls.avg * Len(ls.clauses) + ls.delta = MapThenSumSet(LAMBDA c : ls.weight[c], ClausesOf(ls))
=============================================================================
