------------------------------- MODULE MCBmc -------------------------------
(***************************************************************************)
(* Instances of Bmc for TLC: small graphs, and a solver oracle that TLC    *)
(* can evaluate on a few dozen variables.                                  *)
(***************************************************************************)
EXTENDS Bmc, FiniteSetsExt

(* Whether a set of clauses has a model: unit clauses first, then a split.  *)
Assume(cs, x) == {c \ {-x} : c \in {d \in cs : x \notin d}}

HasModel[cs \in SUBSET (SUBSET Int)] ==
  IF cs = {} THEN TRUE
  ELSE IF {} \in cs THEN FALSE
  ELSE LET units == {c \in cs : Cardinality(c) = 1}
           c == IF units # {} THEN CHOOSE u \in units : TRUE
                              ELSE CHOOSE d \in cs : TRUE
           x == CHOOSE y \in c : TRUE
       IN HasModel[Assume(cs, x)]
            \/ (units = {} /\ HasModel[Assume(cs, -x)])

Oracle(cs, as) == HasModel[cs \cup {{a} : a \in as}]

-----------------------------------------------------------------------------
MkLatch(l, n, r) == [lit |-> l, next |-> n, reset |-> r]
MkAnd(l, r0, r1) == [lhs |-> l, rhs0 |-> r0, rhs1 |-> r1]

(* One input (2), one latch (4), one gate (6).                              *)
OneLatch(next, reset, rhs, bad) ==
  [maxvar |-> 3, inputs |-> <<2>>, latches |-> <<MkLatch(4, next, reset)>>,
   outputs |-> <<>>, bad |-> bad, ands |-> <<MkAnd(6, rhs[1], rhs[2])>>]

(* Two latches (2, 4) and one gate (6).                                     *)
TwoLatches(nexts, resets, rhs, bad) ==
  [maxvar |-> 3, inputs |-> <<>>,
   latches |-> <<MkLatch(2, nexts[1], resets[1]), MkLatch(4, nexts[2], resets[2])>>,
   outputs |-> <<>>, bad |-> bad, ands |-> <<MkAnd(6, rhs[1], rhs[2])>>]

(* A three-bit shift register whose last bit is bad: depth 3.               *)
ShiftRegister(last) ==
  [maxvar |-> 5, inputs |-> <<2>>,
   latches |-> <<MkLatch(4, 2, 0), MkLatch(6, 4, 0), MkLatch(8, 6, 0)>>,
   outputs |-> <<last>>, bad |-> <<>>, ands |-> <<MkAnd(10, 8, 5)>>]

(* A two-bit counter (bits 2 and 4, gates 6, 8, 10) that reaches 3 at step 3.*)
Counter(bad) ==
  [maxvar |-> 5, inputs |-> <<>>,
   latches |-> <<MkLatch(2, 3, 0), MkLatch(4, 10, 0)>>,
   outputs |-> <<>>, bad |-> <<bad>>,
   ands |-> <<MkAnd(6, 2, 4), MkAnd(8, 3, 5), MkAnd(10, 7, 9)>>]

Lits == 2 .. 7
Rhss == {<<a, b>> \in (2 .. 5) \X (2 .. 5) : a >= b}

SupportedFiles ==
  {OneLatch(n, r, rhs, <<b>>) : n \in Lits, r \in {0, 1}, rhs \in Rhss, b \in {2, 4, 6}}
    \cup {TwoLatches(<<n, m>>, <<0, r>>, rhs, <<b>>) :
            n \in Lits, m \in Lits, r \in {0, 1}, rhs \in {<<4, 2>>, <<5, 2>>}, b \in {4, 6}}
    \cup {ShiftRegister(8), ShiftRegister(10)}
    \cup {Counter(6), Counter(8), Counter(10)}

(* Everything the reader may hand over: constants, undefined resets, signed, *)
(* several or no bad literals, outputs instead of bad, a cyclic gate.        *)
AnyFiles ==
  {OneLatch(n, r, rhs, b) :
     n \in {0, 3, 4, 7}, r \in {0, 1, 4}, rhs \in {<<2, 1>>, <<5, 2>>, <<6, 4>>},
     b \in {<<>>, <<4>>, <<7>>, <<4, 6>>, <<3, 5, 0>>}}
    \cup {TwoLatches(<<n, m>>, <<0, 2>>, rhs, b) :
            n \in {1, 5}, m \in {2, 7}, rhs \in {<<4, 3>>}, b \in {<<6>>, <<5, 1>>}}
    \cup {ShiftRegister(1), ShiftRegister(9), Counter(7)}

AllFiles == SupportedFiles \cup AnyFiles

(* A latch whose next state is the constant FALSE.                           *)
ConstantFile == {OneLatch(0, 0, <<5, 2>>, <<4>>)}
(* A latch without a reset value that keeps what it starts with.             *)
UndefinedReset == {OneLatch(4, 4, <<5, 2>>, <<4>>)}
(* The bad literal is the negation of a latch that stays 0.                  *)
NegatedBad == {OneLatch(4, 0, <<5, 2>>, <<5>>)}
(* A graph whose only gate reads itself, and what is left of a broken file.  *)
BrokenFile == {OneLatch(2, 0, <<6, 4>>, <<4>>)}
=============================================================================
