--------------------------- MODULE CdclInvariant ----------------------------
(***************************************************************************)
(* What holds of the solver of module Cdcl at every step, when no variable *)
(* is released: an inductive invariant in named parts.                     *)
(***************************************************************************)
EXTENDS Cdcl

(* No script of the user calls releaseVar, as bmc.cpp never does: the        *)
(* assumption of the theorems.                                               *)
NeverReleases ==
  \A s \in Scripts : \A k \in DOMAIN s.calls : s.calls[k].call # "releaseVar"

(* So far no variable was released, and the rest of the script releases      *)
(* none.                                                                     *)
Unreleased ==
  /\ free_vars = <<>> /\ released_vars = {}
  /\ \A k \in DOMAIN script : script[k].call # "releaseVar"

-----------------------------------------------------------------------------
(* No call of the solver is running.                                         *)
Idle == pc \in {"idle", "dead"}
(* analyze is running or has just computed a learnt clause.                  *)
Analysing == pc \in {"conflict", "learn"}

(* Types of what the user passes and gets.                                   *)
UserTyped ==
  /\ script \in Seq(Calls) /\ options \in Options
  /\ given \in SUBSET SUBSET Lits
  /\ next_var \in 0 .. NVars
  /\ assumptions \in Seq(Lits)
  /\ answer \in {"idle", "none", "sat", "unsat", "undef"}
  /\ model \in SUBSET Lits /\ conflict \in SUBSET Lits
  /\ conflictC \in Nat /\ curr_restarts \in Nat /\ max_learnts \in Nat

(* Types of the clauses in memory and their watch lists.                     *)
DatabaseTyped ==
  /\ DOMAIN ca \subseteq CRefs /\ IsFiniteSet(DOMAIN ca) /\ ca \in [DOMAIN ca -> Clause]
  /\ clauses \subseteq DOMAIN ca /\ learnts \subseteq DOMAIN ca
  /\ watches \in [Lits -> SUBSET [cref : CRefs, blocker : Lits]]
  /\ dirty \in SUBSET Lits

(* Types of the trail, its levels, reasons and the heap.                     *)
TrailTyped ==
  /\ trail \in Seq(Lits) /\ trail_lim \in Seq(Nat)
  /\ vardata \in [Assigned -> [reason : Nat, level : Nat]]
  /\ qhead \in 0 .. Len(trail)
  /\ order_heap \in SUBSET (0 .. next_var - 1)

(* Types of what the loops keep between iterations.                          *)
LoopTyped ==
  /\ ok \in BOOLEAN
  /\ pc \in {"idle", "dead", "propagate", "conflict", "learn", "decide", "reduce",
             "pick", "final"}
  /\ caller \in {"user", "addClause", "search"}
  /\ confl \in Nat /\ index \in Nat
  /\ seen \in SUBSET Vars /\ out_learnt \in SUBSET Lits

(* How the point that control has reached goes with the rest. *)
Control ==
  /\ ~Idle => ok
  /\ pc = "dead" => ~ok
  /\ ~Idle => caller \in {"addClause", "search"}
  /\ ~Idle /\ pc # "propagate" => caller = "search"
  /\ Idle \/ caller = "addClause" => decisionLevel = 0
  /\ pc # "propagate" => qhead = Len(trail) /\ todo = {}
  /\ ok /\ ~Analysing /\ pc # "final" => index = 0
  /\ ~Analysing => out_learnt = {}
  /\ ~Analysing /\ pc # "final" => seen = {}
  /\ pc = "final" => decisionLevel < Len(assumptions) /\ IsFalse(NextAssumption)

(* Literals of created variables only. *)
Known(lits) == \A p \in lits : Var(p) < next_var
(* Everything is over variables the user created, and one without a value is *)
(* on the heap.                                                              *)
Created ==
  /\ \A k \in DOMAIN trail : Var(trail[k]) < next_var
  /\ \A k \in DOMAIN assumptions : Var(assumptions[k]) < next_var
  /\ \A cr \in Live : Known(LitsOf(ca[cr]))
  /\ \A c \in given : Known(c)
  /\ \A x \in 0 .. next_var - 1 : x \in order_heap \cup Assigned

(* The literals of a clause are pairwise different.                          *)
Distinct(c) == c.w0 # c.w1 /\ c.w0 \notin c.rest /\ c.w1 \notin c.rest
(* The two watched literals of a clause.                                     *)
Watched(cr) == {ca[cr].w0, ca[cr].w1}
(* What ca holds: clauses without repetitions; those in use are not marked   *)
(* as removed.                                                               *)
Stored ==
  /\ \A cr \in DOMAIN ca : Distinct(ca[cr])
  /\ \A cr \in Live : ~ca[cr].mark
  /\ clauses \cap learnts = {}

(* A watcher belongs to a clause in use that watches the negation of the     *)
(* list's literal, or to a removed clause in a dirty list; a clause is at    *)
(* most once in a list, and is in the lists of both its watched literals.    *)
Listed ==
  /\ \A p \in Lits : \A w \in watches[p] :
       \/ w.cref \in Live /\ Neg(p) \in Watched(w.cref)
       \/ p \in dirty /\ w.cref \in DOMAIN ca /\ ca[w.cref].mark
  /\ \A p \in Lits : \A w, v \in watches[p] : w.cref = v.cref => w = v
  /\ \A cr \in Live : \A q \in Watched(cr) : \E w \in watches[Neg(q)] : w.cref = cr

(* What propagate has still to visit is in the list of the literal that it   *)
(* propagates.                                                               *)
Visiting ==
  todo # {} =>
    /\ pc = "propagate"
    /\ qhead > 0
    /\ todo \subseteq watches[Propagating]
    /\ Propagating \notin dirty

-----------------------------------------------------------------------------
(* The trail, as a property of a sequence of literals, of the lengths at     *)
(* which its levels begin, and of the reasons and levels of variables.       *)
OrderedIn(tr, lim, data) ==
  /\ \A i, k \in DOMAIN tr : Var(tr[i]) = Var(tr[k]) => i = k
  /\ \A i \in DOMAIN lim : lim[i] <= Len(tr)
  /\ \A i, j \in DOMAIN lim : i <= j => lim[i] <= lim[j]
  /\ \A k \in DOMAIN tr :
       /\ data[Var(tr[k])].level \in 0 .. Len(lim)
       /\ \A i \in DOMAIN lim : i <= data[Var(tr[k])].level <=> lim[i] < k
(* The trail of the solver.                                                  *)
Ordered == OrderedIn(trail, trail_lim, vardata)

(* A reason is a clause in use whose first literal is what it implied and    *)
(* whose other literals are false further down the trail.                    *)
ReasonsIn(tr, data, mem, live) ==
  \A k \in DOMAIN tr :
    LET cr == data[Var(tr[k])].reason IN
      cr # CRef_Undef =>
        /\ cr \in live
        /\ mem[cr].w0 = tr[k]
        /\ \A q \in LitsOf(mem[cr]) \ {tr[k]} : \E i \in 1 .. k - 1 : tr[i] = Neg(q)
(* The reasons of the solver.                                                *)
Reasoned == ReasonsIn(trail, vardata, ca, Live)

(* Above level 0 the literals without a reason are those that open a level,  *)
(* and those of the first levels are assumptions.                            *)
OpenedIn(tr, lim, data, as) ==
  \A k \in DOMAIN tr :
    LET d == data[Var(tr[k])] IN
      d.level > 0 =>
        /\ d.reason = CRef_Undef <=> \E i \in DOMAIN lim : lim[i] = k - 1
        /\ d.reason = CRef_Undef /\ d.level <= Len(as) =>
             \E j \in DOMAIN as : as[j] = tr[k]
(* The levels of the solver.                                                 *)
Opened == OpenedIn(trail, trail_lim, vardata, assumptions)

(* While literals are propagated the present level is not empty.             *)
Queued ==
  pc = "propagate" =>
    \A i \in DOMAIN trail_lim :
      /\ trail_lim[i] < Len(trail) /\ trail_lim[i] <= qhead
      /\ todo # {} => trail_lim[i] < qhead

-----------------------------------------------------------------------------
(* Conflict analysis. *)
AtPresent(k) == level(Var(trail[k])) = decisionLevel

(* What analyze keeps from one resolution to the next: marks above level 0   *)
(* and before index, out_learnt the marked literals of earlier levels, and a *)
(* marked literal of the present level until it stops.                       *)
Analysed ==
  Analysing =>
    /\ \A x \in seen : x \in Assigned /\ level(x) > 0
    /\ \A k \in DOMAIN trail : Var(trail[k]) \in seen => k < index
    /\ \A q \in Lits :
         q \in out_learnt <=>
           IsFalse(q) /\ Var(q) \in seen /\ level(Var(q)) < decisionLevel
    /\ \/ /\ pc = "conflict" /\ index = Len(trail) + 1
          /\ seen = {} /\ confl \in Live
          /\ \A q \in LitsOf(ca[confl]) : IsFalse(q)
          /\ decisionLevel > 0 =>
               \E q \in LitsOf(ca[confl]) : level(Var(q)) = decisionLevel
       \/ /\ index \in DOMAIN trail /\ AtPresent(index) /\ decisionLevel > 0
          /\ pc = "conflict" =>
               /\ Present(seen) # {}
               /\ confl = reason(Var(trail[index])) /\ confl # CRef_Undef
          /\ pc = "learn" => Present(seen) = {}

(* What analyzeFinal keeps from one literal to the next.                     *)
Finalised ==
  pc = "final" =>
    /\ \A x \in seen : x \in Assigned /\ (level(x) > 0 \/ x = Var(NextAssumption))
    /\ decisionLevel = 0 => seen = {}
    /\ \A k \in DOMAIN trail : Var(trail[k]) \in seen => k < index
    /\ index <= Len(trail) + 1
    /\ Neg(NextAssumption) \in conflict
    /\ \A p \in conflict : \E j \in DOMAIN assumptions : assumptions[j] = Neg(p)

-----------------------------------------------------------------------------
(* Watched literals. *)
Blockers ==
  \A p \in Lits : \A w \in watches[p] :
    w.cref \in Live =>
      w.blocker \in LitsOf(ca[w.cref]) \/ (IsFalse(w.blocker) /\ level(Var(w.blocker)) = 0)

(* The blocker of a watcher is true, at a level no later than that of the    *)
(* fact at k.                                                                *)
Held(k, w) == IsTrue(w.blocker) /\ level(Var(w.blocker)) <= level(Var(trail[k]))
(* Every watcher that propagate is done with is held, so that cancelUntil    *)
(* takes back the fact before the blocker.                                   *)
Guarded ==
  ok => \A k \in 1 .. qhead : \A w \in watches[trail[k]] :
          /\ w.cref \in Live /\ Done(k, w)
          /\ Analysing => ~AtPresent(k)
          => Held(k, w)

-----------------------------------------------------------------------------
(* Meaning. *)
FactsHold(m) == \A k \in DOMAIN trail : level(Var(trail[k])) = 0 => Makes(m, trail[k])
(* The marked literals of the trail hold in m.                               *)
MarkedHold(m) == \A k \in DOMAIN trail : Var(trail[k]) \in seen => Makes(m, trail[k])

(* What the solver keeps follows from what it was given.                     *)
Sound ==
  \A m \in Models(given) :
    /\ ok
    /\ \A cr \in Live : SatisfiesClause(m, LitsOf(ca[cr]))
    /\ FactsHold(m)

(* No model makes all marked literals true.                                  *)
Refuted ==
  Analysing /\ index \in DOMAIN trail =>
    \A m \in Models(given) : MarkedHold(m) => ~Makes(m, trail[index])
(* What analyzeFinal has marked, and the negations of the conflict so far,   *)
(* cannot hold together.                                                     *)
Concluded ==
  pc = "final" =>
    \A m \in Models(given) : MarkedHold(m) => SatisfiesClause(m, conflict)

(* The clauses lose nothing.                                                 *)
Complete ==
  ok => \A m \in Assignments :
          (\A cr \in clauses : SatisfiesClause(m, LitsOf(ca[cr]))) /\ FactsHold(m)
            => Satisfies(m, given)

(* The inductive invariant about memory, trail and control. Blockers to      *)
(* Concluded and Assumed are shown on top of it, in layers.                  *)
IInv ==
  /\ Unreleased /\ UserTyped /\ DatabaseTyped /\ TrailTyped /\ LoopTyped
  /\ Control /\ Created /\ Stored /\ Listed /\ Visiting
  /\ Ordered /\ Reasoned /\ Opened /\ Queued /\ Analysed /\ Finalised

(* A solver that is no longer ok keeps its trail.                            *)
Bounded == ~ok => index <= Len(trail) + 1

(* The first levels hold the assumptions.                                    *)
Assumed ==
  \A j \in DOMAIN assumptions :
    j <= decisionLevel => IsTrue(assumptions[j]) /\ level(Var(assumptions[j])) <= j

(* A call of solve has not answered exactly while search runs.               *)
Awaiting ==
  /\ answer = "none" <=> (pc # "idle" /\ caller = "search")
  /\ pc = "dead" => caller = "search"

(* All parts of the invariant.                                               *)
Layers == IInv /\ Blockers /\ Guarded /\ Sound /\ Refuted /\ Complete /\ Concluded /\ Assumed
=============================================================================
