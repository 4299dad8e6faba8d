------------------------------ MODULE SatLits ------------------------------
(***************************************************************************)
(* minisat/core/SolverTypes.h: literals and what a set of clauses means.   *)
(* Variables are 0, 1, ...; the literals of variable v are v + v and, for  *)
(* its negation, v + v + 1.  A clause is a set of literals.                *)
(***************************************************************************)
EXTENDS Integers, Sequences, FiniteSets

CONSTANT NVars   \* how many variables a user may create

ASSUME NVarsAssumption == NVars \in Nat

Vars == 0 .. NVars - 1
Lits == 0 .. NVars + NVars - 1

mkLit(v, s) == v + v + s
Var(p) == p \div 2
sign(p) == p % 2
Neg(p) == IF sign(p) = 0 THEN p + 1 ELSE p - 1
VarsOf(c) == {Var(p) : p \in c}
Contradicts(S) == \E p \in S : Neg(p) \in S

-----------------------------------------------------------------------------
(* Assignments of the variables, and what follows from clauses.             *)

Assignments == [Vars -> BOOLEAN]
Makes(m, p) == IF sign(p) = 1 THEN ~m[Var(p)] ELSE m[Var(p)]
SatisfiesClause(m, c) == \E p \in c : Makes(m, p)
Satisfies(m, cs) == \A c \in cs : SatisfiesClause(m, c)

Models(cs) == {m \in Assignments : Satisfies(m, cs)}
Satisfiable(cs, as) == \E m \in Models(cs) : \A a \in as : Makes(m, a)
Entails(cs, c) == \A m \in Models(cs) : SatisfiesClause(m, c)

(* The literals that cs forces once those of S are true.                     *)
Closure(cs, S) ==
  LET Forced(T) == {p \in UNION cs : \E c \in cs :
                      p \in c /\ \A q \in c \ {p} : Neg(q) \in T}
      close[T \in SUBSET Lits] ==
        IF Forced(T) \subseteq T THEN T ELSE close[T \cup Forced(T)]
  IN  close[S]

(* What clauses say of the other variables once p is true, and what they say *)
(* with the literal x in the place of v.                                     *)
Without(cs, p) == {c \ {Neg(p)} : c \in {d \in cs : p \notin d}}
Renamed(cs, v, x) ==
  {{IF Var(p) # v THEN p ELSE IF sign(p) = 1 THEN Neg(x) ELSE x : p \in c} : c \in cs}
=============================================================================
