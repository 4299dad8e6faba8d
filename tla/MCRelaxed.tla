----------------------------- MODULE MCRelaxed -----------------------------
(***************************************************************************)
(* Instances of RelaxedSolver for TLC.  Literals are written as users      *)
(* write them: 1, -1, 2, ...                                               *)
(***************************************************************************)
EXTENDS RelaxedSolver

Lit(n) == IF n > 0 THEN n + n - 2 ELSE -(n + n) - 1
Numbers(ns) == [i \in DOMAIN ns |-> Lit(ns[i])]
Add(cs) == [k \in DOMAIN cs |-> [call |-> "add", lits |-> Numbers(cs[k])]]
Ask(as) == <<[call |-> "solve", assumps |-> Numbers(as)]>>

(* No model: local search never ends by itself, and weights grow.              *)
Square == <<<<1, 2>>, <<1, -2>>, <<-1, 2>>, <<-1, -2>>>>
Hopeless == Add(Square) \o Ask(<<>>) \o Ask(<<1>>)

(* Two that have nothing to do with one another.                              *)
Squares == Add(Square \o <<<<3, 4>>, <<3, -4>>, <<-3, 4>>, <<-3, -4>>>>) \o Ask(<<>>)

(* Models under an assumption, with clauses to learn and to shorten.           *)
Chain == Add(<<<<1, 2, 3>>, <<-1, 2>>, <<-2, 3>>, <<-3, 4>>>>) \o Ask(<<1>>)

(* An assumption that cannot be met, then one that can.                        *)
Refused == Add(<<<<1, 2>>, <<-1, 2>>, <<-2, 3>>>>) \o Ask(<<-3>>) \o Ask(<<1>>)

(* Clauses that become shorter, and one that is empty.                         *)
Facts ==
  Add(<<<<1, 2>>, <<-1>>, <<1, -1>>, <<2, 3>>>>) \o Ask(<<>>)
    \o Add(<<<<-3, -2>>, <<3, 1>>>>) \o Ask(<<3>>) \o Ask(<<>>)

(* A second question whose answer is another.                                  *)
Twice == Add(<<<<1, 2>>>>) \o Ask(<<>>) \o Add(<<<<-1>>>>) \o Ask(<<2>>)

NoClause == Add(<<<<1, -1>>>>) \o Ask(<<>>)

MCScripts == {Hopeless, Squares, Chain, Refused, Facts, Twice, NoClause}
TwoQuestions == {Twice}
=============================================================================
