------------------------------ MODULE MCCdcl ------------------------------
(***************************************************************************)
(* Instances of Cdcl for TLC: a few scripts of calls, chosen so that small *)
(* searches meet conflicts above level 0, learnt clauses with literals to  *)
(* minimise, restarts, reasons that could be removed, and dead solvers.    *)
(***************************************************************************)
EXTENDS Cdcl, SequencesExt

(* Literals as users write them: 1, -1, 2, ... are variables 0, 0, 1, ...   *)
Lit(n) == IF n > 0 THEN n + n - 2 ELSE -(n + n) - 1
Clauses(cs) == [k \in DOMAIN cs |-> [call |-> "addClause",
                                    lits |-> {Lit(cs[k][i]) : i \in DOMAIN cs[k]}]]
Ask(as) == [call |-> "solve", assumps |-> [i \in DOMAIN as |-> Lit(as[i])]]
Release(n) == [call |-> "releaseVar", lit |-> Lit(n)]
Simplify == [call |-> "simplify"]
NewVars(n) == [i \in 1 .. n |-> [call |-> "newVar"]]

(* Conflicts at several levels and no model: all clauses over 1, 2 and 3.   *)
AllSigns ==
  Clauses(<<<<1, 2, 3>>, <<1, 2, -3>>, <<1, -2, 3>>, <<1, -2, -3>>,
            <<-1, 2, 3>>, <<-1, 2, -3>>, <<-1, -2, 3>>, <<-1, -2, -3>>>>)

Deep == [restart_first |-> 1, ccmin_mode |-> 2, learntsize_factor |-> 0,
         interruptible |-> FALSE]
Basic == [restart_first |-> 1, ccmin_mode |-> 1, learntsize_factor |-> 1,
          interruptible |-> TRUE]
Default == [restart_first |-> 100, ccmin_mode |-> 2, learntsize_factor |-> 1,
            interruptible |-> FALSE]
With(opts, calls) == [options |-> opts, calls |-> calls]

Search == NewVars(3) \o AllSigns \o <<Ask(<<>>), Ask(<<1>>)>>

(* 1 implies 2 implies 3.  In the conflict of 1, 3 and 4, 3 is redundant.   *)
DeepChain ==
  NewVars(5)
    \o Clauses(<<<<-1, 2>>, <<-2, 3>>, <<-1, -3, -4, 5>>, <<-1, -3, -4, -5>>>>)
    \o <<Ask(<<1, 4>>)>>

(* In the conflict of 3 and 4, it is not.  Then 1 holds without assumption. *)
Chain ==
  NewVars(5)
    \o Clauses(<<<<-1, 2>>, <<-2, 3>>, <<-3, -4, 5>>, <<-3, -4, -5>>>>)
    \o <<Ask(<<1, 4>>)>>
    \o Clauses(<<<<1>>>>)
    \o <<Ask(<<5>>)>>

(* First an assumption that holds already, and a clause whose watch moved   *)
(* to a literal that is true.  Then 2 implies 3 because of 1, which holds   *)
(* without assumption.                                                      *)
Root ==
  NewVars(3)
    \o Clauses(<<<<1, 2, 3>>>>) \o <<Ask(<<-2, 3, 3, -1>>)>>
    \o Clauses(<<<<-1, -2, 3>>, <<1>>>>) \o <<Ask(<<2, -3>>)>>

(* Three learnt clauses, of which the last, over 1, 2 and 3, is a reason     *)
(* when there are as many learnt clauses as assignments.                     *)
Reasons ==
  NewVars(4)
    \o Clauses(<<<<-1, -2, 4>>, <<-1, -2, -4>>, <<-1, 3, 4>>, <<-1, 3, -4>>,
                <<1, 2, 3, 4>>, <<1, 2, 3, -4>>>>)
    \o <<Ask(<<1, 2>>), Ask(<<1, -3>>), Ask(<<-1, -2, -3>>)>>

(* A variable that no clause watches is released and used again.            *)
Reuses ==
  NewVars(3)
    \o Clauses(<<<<1, 2, 3>>, <<-1, -3>>>>)
    \o <<Release(-3), Simplify>> \o NewVars(1)
    \o Clauses(<<<<3, -1>>, <<-2, -3>>>>)
    \o <<Ask(<<3>>), Ask(<<-1>>)>> \o Clauses(<<<<-1>>, <<-2>>, <<1>>>>) \o <<Simplify, Ask(<<>>)>>

SolverScripts ==
  {With(Basic, Search)}
    \cup {With(Deep, s) : s \in {DeepChain, Chain, Root, Reasons, Reuses}}

(* The variables of a clause are released one after the other.              *)
ReleaseScripts ==
  {With(Default,
        NewVars(3) \o Clauses(<<<<1, 2, 3>>>>)
          \o <<Release(-2), Simplify>> \o NewVars(1) \o Clauses(<<<<2>>>>)
          \o <<Release(-1), Simplify>> \o NewVars(1) \o <<Ask(<<-3>>)>>)}
=============================================================================
