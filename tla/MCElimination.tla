--------------------------- MODULE MCElimination ---------------------------
(***************************************************************************)
(* Instances of Elimination for TLC: scripts in which clauses are          *)
(* subsumed and shortened, variables are eliminated, frozen, replaced and  *)
(* given back, and solve is called in between.                             *)
(***************************************************************************)
EXTENDS Elimination

(* Literals as users write them: 1, -1, 2, ... are variables 0, 0, 1, ...   *)
Lit(n) == IF n > 0 THEN n + n - 2 ELSE -(n + n) - 1
Add(cs) == [k \in DOMAIN cs |-> [call |-> "addClause",
                                 lits |-> {Lit(cs[k][i]) : i \in DOMAIN cs[k]}]]
Asked(as, simp, off) ==
  <<[call |-> "solve", assumps |-> [i \in DOMAIN as |-> Lit(as[i])], do_simp |-> simp,
     turn_off |-> off]>>
Ask(as) == Asked(as, TRUE, FALSE)
AskPlain(as) == Asked(as, FALSE, FALSE)
AskLast(as) == Asked(as, TRUE, TRUE)
Reduce(off) == <<[call |-> "eliminate", turn_off |-> off]>>
Freeze(n) == <<[call |-> "setFrozen", var |-> n - 1, frozen |-> TRUE]>>
Unfreeze(n) == <<[call |-> "setFrozen", var |-> n - 1, frozen |-> FALSE]>>
FreezeVar(n) == <<[call |-> "freezeVar", var |-> n - 1]>>
Thaw == <<[call |-> "thaw"]>>
Clear == <<[call |-> "clearInterrupt"]>>
Release(n) == <<[call |-> "releaseVar", lit |-> Lit(n)]>>
Replace(v, n) == <<[call |-> "substitute", var |-> v - 1, lit |-> Lit(n)]>>
NewVars(n) == [i \in 1 .. n |-> [call |-> "newVar"]]

Default == [grow |-> 0, clause_lim |-> 20, subsumption_lim |-> -1, use_asymm |-> FALSE,
            use_rcheck |-> FALSE, use_elim |-> TRUE, extend_model |-> TRUE,
            interruptible |-> FALSE]
With(opts, calls) == [options |-> opts, calls |-> calls]

(* A gate 3 = 1 & 2 and a use of it; 3 is kept for a clause that comes later. *)
Gate == <<<<-3, 1>>, <<-3, 2>>, <<3, -1, -2>>, <<3, 4>>>>
Later ==
  NewVars(4) \o Add(Gate) \o Freeze(3) \o Ask(<<>>)
    \o Add(<<<<-3>>>>) \o Ask(<<>>) \o Unfreeze(3) \o Ask(<<>>)

Assumes ==
  NewVars(4) \o Add(Gate) \o FreezeVar(1) \o FreezeVar(2) \o Ask(<<3>>)
    \o Thaw \o AskPlain(<<1>>) \o Add(<<<<-1, -2>>>>) \o Ask(<<1, 2>>)

(* Clauses that subsume and shorten one another, down to facts.             *)
Chain ==
  NewVars(4)
    \o Add(<<<<1, 2, 3>>, <<1, 2, -3>>, <<1, -2, 4>>, <<-1, 3, 4>>, <<1, -2>>>>)
    \o Freeze(4) \o Reduce(FALSE) \o Add(<<<<-4>>>>) \o Ask(<<>>)

Unsat ==
  NewVars(3)
    \o Add(<<<<1, 2>>, <<1, -2>>, <<-1, 3>>, <<-1, -3>>>>)
    \o AskPlain(<<3>>) \o AskPlain(<<>>) \o Ask(<<1>>)

(* Asymmetric branching shortens 1 2 3 and makes 4 a fact.                  *)
Branches ==
  NewVars(5)
    \o Add(<<<<1, 2, 3>>, <<-1, 4>>, <<-2, 4>>, <<-4, 5, 3>>, <<-5, 3, 1>>, <<4, 5>>, <<4, -5, -3>>>>)
    \o Ask(<<>>) \o Reduce(FALSE)

(* With redundancy checks a clause that propagation implies is not stored.  *)
Implied ==
  NewVars(4)
    \o Add(<<<<1, 2>>, <<-2, 3>>, <<1, 3>>, <<-3, 4>>, <<-4, -1, 2>>>>) \o Freeze(1) \o Ask(<<-1>>)
    \o Ask(<<1>>)

(* 2 is replaced by -3 before anything is eliminated.                       *)
Replaces ==
  NewVars(4)
    \o Add(<<<<1, 2>>, <<-1, 2, 4>>, <<-2, 3>>, <<2, 3, -4>>, <<-2, -3>>>>)
    \o Replace(2, -3) \o Ask(<<>>) \o Ask(<<>>)

(* Simplification ends with 3 and 4 in records; 5 is created and given back, *)
(* and so is 2.                                                             *)
Ends ==
  NewVars(4) \o Add(<<<<1, 2, 3>>, <<-1, -2, 4>>, <<1, -3, -4>>>>) \o Freeze(1) \o Freeze(2)
    \o AskLast(<<>>)
    \o NewVars(1) \o Add(<<<<5, 1>>, <<-5, 2>>>>) \o Release(5) \o Release(2) \o AskPlain(<<>>)
    \o Reduce(FALSE) \o NewVars(1) \o Add(<<<<-5, -1>>>>) \o Ask(<<>>)

(* Here 2 is given back, but a record of 4 mentions it: newVar takes another. *)
Mentioned ==
  NewVars(4) \o Add(<<<<1, 2, 3>>, <<-1, -2, 4>>, <<1, -3, -4>>>>) \o Freeze(1) \o Freeze(2)
    \o AskLast(<<>>) \o Release(2) \o AskPlain(<<>>) \o NewVars(1) \o Ask(<<1>>)

(* The second clause is subsumed by one that was checked long before.       *)
Old ==
  NewVars(3) \o Freeze(1) \o Freeze(2) \o Freeze(3) \o Add(<<<<1, 2>>>>) \o Reduce(FALSE)
    \o Add(<<<<1, 2, 3>>>>) \o Ask(<<3>>)

(* Interrupted, and asked again.                                            *)
Again ==
  NewVars(4) \o Add(<<<<1, 2, 3>>, <<-1, 2>>, <<-2, 3, 4>>, <<1, -4>>>>) \o Freeze(4) \o Ask(<<4>>)
    \o Clear \o Add(<<<<-4>>>>) \o Ask(<<>>) \o Clear \o Ask(<<>>)

Asymm == [Default EXCEPT !.use_asymm = TRUE]
Checked_ == [Default EXCEPT !.use_rcheck = TRUE, !.grow = 1]
Stopped == [Default EXCEPT !.interruptible = TRUE, !.use_asymm = TRUE]
Short == [Default EXCEPT !.clause_lim = 2, !.subsumption_lim = 3]
NoElim == [Default EXCEPT !.use_elim = FALSE, !.extend_model = FALSE]

MCScripts ==
  {With(Default, s) : s \in {Later, Assumes, Chain, Unsat, Replaces, Ends, Mentioned, Old}}
    \cup {With(Asymm, s) : s \in {Branches, Chain, Unsat}}
    \cup {With(Checked_, Implied), With(Stopped, Again), With(Short, Chain),
          With(NoElim, Chain), With(Short, Ends)}
=============================================================================
