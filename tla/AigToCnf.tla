------------------------------ MODULE AigToCnf ------------------------------
(***************************************************************************)
(* aigtocnf/aigtocnf.cpp: the translation of an and-inverter graph into    *)
(* clauses over the variables of time step 0.  A clause is a set of        *)
(* non-zero integers, -x standing for the negation of x.  AIG variable v   *)
(* becomes solver variable v + 1, so the AIG constant is variable 1.       *)
(***************************************************************************)
EXTENDS Aiger

(* int2lit, bmc.cpp: mkLit(abs(x), x < 0).                                  *)
LitVar(x) == IF x < 0 THEN -x ELSE x

(* l/2+1 as it is applied to inputs, latches, gate outputs and bad literals *)
UnsignedLit(l) == l \div 2 + 1

(* Mutant: the sign of a next state or a gate input is dropped.             *)
SignedLit_SignDropped(l) == l \div 2 + 1

(* The same, with the sign taken from the low bit: next states and the      *)
(* inputs of gates.                                                         *)
SignedLit(l) == IF l % 2 = 1 THEN -(l \div 2 + 1) ELSE l \div 2 + 1

(* p = l & r                                                                *)
equal_and2cnf(p, l, r) == {{-p, l}, {-p, r}, {p, -l, -r}}

(* l = r                                                                    *)
equal2cnf(l, r) == {{l, -r}, {-l, r}}

(* Mutant: a reset value of 1 is taken for 0.                               *)
InitLiteral_AlwaysZero(latch) == -UnsignedLit(latch.lit)

InitLiteral(latch) == IF latch.reset = 1 THEN UnsignedLit(latch.lit)
                                         ELSE -UnsignedLit(latch.lit)

GateClauses(g) ==
  UNION {equal_and2cnf(UnsignedLit(g.ands[k].lhs),
                       SignedLit(g.ands[k].rhs0),
                       SignedLit(g.ands[k].rhs1)) : k \in DOMAIN g.ands}

BadVars(g) == [k \in 1 .. Len(BadLiterals(g)) |-> UnsignedLit(BadLiterals(g)[k])]

aigtocnf(g) ==
  [inputs    |-> [k \in 1 .. Len(g.inputs) |-> UnsignedLit(g.inputs[k])],
   in_latch  |-> [k \in 1 .. Len(g.latches) |-> UnsignedLit(g.latches[k].lit)],
   out_latch |-> [k \in 1 .. Len(g.latches) |-> SignedLit(g.latches[k].next)],
   inits     |-> [k \in 1 .. Len(g.latches) |-> InitLiteral(g.latches[k])],
   ands      |-> GateClauses(g),
   bads      |-> BadVars(g)]

-----------------------------------------------------------------------------
(* What the clauses say of an assignment m of solver variables.             *)

Holds(m, x) == IF x < 0 THEN ~m[-x] ELSE m[x]
SatisfiesClause(m, c) == \E x \in c : Holds(m, x)
Satisfies(m, cs) == \A c \in cs : SatisfiesClause(m, c)

Satisfiable(cs, as) ==
  \E m \in [Nat -> BOOLEAN] : Satisfies(m, cs) /\ \A a \in as : m[a]
=============================================================================
