------------------------------- MODULE Aiger -------------------------------
(***************************************************************************)
(* The and-inverter graph that aiger/aiger.h hands to the program: its     *)
(* shape, what the reader guarantees about a graph it returns, what is     *)
(* left in the structure when the reader stops half way, and the meaning   *)
(* of the graph as a transition system.                                    *)
(*                                                                         *)
(* A literal is a natural number; its variable is lit \div 2, its sign the *)
(* low bit, and variable 0 is the constant FALSE.                          *)
(***************************************************************************)
EXTENDS Integers, Sequences

aiger_sign(l) == l % 2
aiger_lit2var(l) == l \div 2

Latch == [lit : Nat, next : Nat, reset : Nat]
And == [lhs : Nat, rhs0 : Nat, rhs1 : Nat]

(* Of struct aiger what bmc looks at, which are not the constraints and the  *)
(* sections for justice and fairness.                                       *)
AigerType ==
  [maxvar : Nat, inputs : Seq(Nat), latches : Seq(Latch),
   outputs : Seq(Nat), bad : Seq(Nat), ands : Seq(And)]

Graph(mv, ins, lats, outs, bs, as) ==
  [maxvar |-> mv, inputs |-> ins, latches |-> lats,
   outputs |-> outs, bad |-> bs, ands |-> as]

EmptyAiger == Graph(0, <<>>, <<>>, <<>>, <<>>, <<>>)

(* What the reader enforces on a literal before it stores it: every literal *)
(* is within maxvar, and one that is defined is a variable of its own.      *)
InRange(g, l) == aiger_lit2var(l) <= g.maxvar
Definable(g, l) == l > 1 /\ aiger_sign(l) = 0 /\ InRange(g, l)

LiteralsInRange(g) ==
  /\ \A k \in DOMAIN g.inputs : Definable(g, g.inputs[k])
  /\ \A k \in DOMAIN g.latches : /\ Definable(g, g.latches[k].lit)
                                 /\ InRange(g, g.latches[k].next)
  /\ \A k \in DOMAIN g.outputs : InRange(g, g.outputs[k])
  /\ \A k \in DOMAIN g.bad : InRange(g, g.bad[k])
  /\ \A k \in DOMAIN g.ands : /\ Definable(g, g.ands[k].lhs)
                              /\ InRange(g, g.ands[k].rhs0)
                              /\ InRange(g, g.ands[k].rhs1)

-----------------------------------------------------------------------------
(* aiger_check: what holds of a graph that was read without an error.       *)

Leaves(g) == {aiger_lit2var(g.inputs[k]) : k \in DOMAIN g.inputs}
               \cup {aiger_lit2var(g.latches[k].lit) : k \in DOMAIN g.latches}
AndVars(g) == {aiger_lit2var(g.ands[k].lhs) : k \in DOMAIN g.ands}

LiteralDefined(g, l) == aiger_lit2var(l) \in {0} \cup Leaves(g) \cup AndVars(g)

(* No AND gate is its own ancestor: the gates can be numbered so that every *)
(* gate comes after the gates it reads.                                     *)
NoCycles(g) ==
  \E rank \in [DOMAIN g.ands -> DOMAIN g.ands] :
    \A k, m \in DOMAIN g.ands :
      aiger_lit2var(g.ands[m].lhs)
          \in {aiger_lit2var(g.ands[k].rhs0), aiger_lit2var(g.ands[k].rhs1)}
        => rank[m] < rank[k]

NextDefined(g) ==
  \A k \in DOMAIN g.latches : LiteralDefined(g, g.latches[k].next)
OutputsDefined(g) ==
  \A k \in DOMAIN g.outputs : LiteralDefined(g, g.outputs[k])
BadDefined(g) == \A k \in DOMAIN g.bad : LiteralDefined(g, g.bad[k])
RightHandSidesDefined(g) ==
  \A k \in DOMAIN g.ands : /\ LiteralDefined(g, g.ands[k].rhs0)
                           /\ LiteralDefined(g, g.ands[k].rhs1)

(* For a file without those sections; AigerLib checks them too.             *)
aiger_check(g) ==
  NextDefined(g) /\ OutputsDefined(g) /\ BadDefined(g)
    /\ RightHandSidesDefined(g) /\ NoCycles(g)

-----------------------------------------------------------------------------
(* What a reader that stops with an error leaves in the structure: the      *)
(* sections are filled in file order, each item added before the next is    *)
(* parsed, and maxvar comes from the header.                                *)

Prefixes(s) == {SubSeq(s, 1, k) : k \in 0 .. Len(s)}

(* A latch is stored before its reset value is parsed.                      *)
ResetLost(s) == IF s = <<>> THEN s ELSE [s EXCEPT ![Len(s)].reset = 0]

CutLatches(s) == Prefixes(s) \cup {ResetLost(p) : p \in Prefixes(s)}

(* Mutant: maxvar is stored only when the whole file has been read.          *)
CutShort_NoMaxvar(g) ==
  {Graph(0, s, <<>>, <<>>, <<>>, <<>>) : s \in Prefixes(g.inputs)}

CutShort(g) ==
  {EmptyAiger}
    \cup {Graph(g.maxvar, s, <<>>, <<>>, <<>>, <<>>) : s \in Prefixes(g.inputs)}
    \cup {Graph(g.maxvar, g.inputs, s, <<>>, <<>>, <<>>) :
            s \in CutLatches(g.latches)}
    \cup {Graph(g.maxvar, g.inputs, g.latches, s, <<>>, <<>>) :
            s \in Prefixes(g.outputs)}
    \cup {Graph(g.maxvar, g.inputs, g.latches, g.outputs, s, <<>>) :
            s \in Prefixes(g.bad)}
    \cup {Graph(g.maxvar, g.inputs, g.latches, g.outputs, g.bad, s) :
            s \in Prefixes(g.ands)}

-----------------------------------------------------------------------------
(* The meaning of a graph.  A valuation gives a value to every variable;    *)
(* the constant variable is FALSE, every AND gate has the value of its      *)
(* inputs' conjunction, and inputs are free.                                *)

Value(v, l) == IF aiger_sign(l) = 1 THEN ~v[aiger_lit2var(l)]
                                    ELSE v[aiger_lit2var(l)]

GatesHold(g, v) ==
  \A k \in DOMAIN g.ands :
    Value(v, g.ands[k].lhs)
      <=> (Value(v, g.ands[k].rhs0) /\ Value(v, g.ands[k].rhs1))

Valuations(g) ==
  {v \in [0 .. g.maxvar -> BOOLEAN] : ~v[0] /\ GatesHold(g, v)}

(* A latch whose reset is its own literal starts with any value.            *)
StartsAt(g, v) ==
  \A k \in DOMAIN g.latches :
    g.latches[k].reset \in {0, 1}
      => (Value(v, g.latches[k].lit) <=> g.latches[k].reset = 1)

Steps(g, v, w) ==
  \A k \in DOMAIN g.latches :
    Value(w, g.latches[k].lit) <=> Value(v, g.latches[k].next)

(* The literals the properties speak about: the bad section, or the outputs *)
(* of a graph in the older format, which has none.                          *)
BadLiterals(g) == IF g.bad = <<>> THEN g.outputs ELSE g.bad

AllBad(g, v) == \A k \in DOMAIN BadLiterals(g) : Value(v, BadLiterals(g)[k])

(* A run of the graph that ends, at time step n, with all bad literals true. *)
IsRun(g, run, n) ==
  /\ StartsAt(g, run[0])
  /\ \A f \in 1 .. n : Steps(g, run[f - 1], run[f])

ReachesBad(g, n) ==
  \E run \in [0 .. n -> Valuations(g)] : IsRun(g, run, n) /\ AllBad(g, run[n])
=============================================================================
