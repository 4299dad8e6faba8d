------------------------------ MODULE AigerLib ------------------------------
(***************************************************************************)
(* aiger/aiger.c as a library: the structure behind the graph, the calls   *)
(* that build it, the depth-first search with which aiger_check looks for  *)
(* cycles, and the one with which aiger_reencode renumbers the variables.  *)
(*                                                                         *)
(* A client makes one call after another.  A call that has work to do      *)
(* leaves the routines still to run in `run` and control comes back when   *)
(* it is empty; a search takes one step per entry of its stack.            *)
(***************************************************************************)
EXTENDS Integers, SequencesExt

AG == INSTANCE Aiger   \* literals and the meaning of a graph

CONSTANTS
  Texts,    \* names of symbols and lines of comments
  NoName    \* the empty one, the name of a symbol that has none

ASSUME NamesAssumption == NoName \in Texts

VARIABLES
  lib,      \* the structure, its public and its private part
  calls,    \* the calls that the client still makes
  run,      \* routines to run before the present call returns
  stack,    \* of the search, innermost entry last; 0 is the postfix mark
  root,     \* next variable from which the cycle check searches
  code,     \* new literal of an old one, 0 when it has none yet
  new,      \* next new literal
  todo,     \* places whose literal is still to be renumbered
  before    \* the structure when the present call was made

search == <<stack, root, code, new, todo>>
libVars == <<lib, calls, run, search, before>>

-----------------------------------------------------------------------------
(* The structure.  Positions count from 1, a missing or empty name is       *)
(* NoName.  The type table keeps its entries when maxvar is lowered.        *)

Var(l) == AG!aiger_lit2var(l)
aiger_var2lit(v) == v + v
aiger_not(l) == IF AG!aiger_sign(l) = 1 THEN l - 1 ELSE l + 1

NoType == [kind |-> "none", idx |-> 0, mark |-> FALSE, onstack |-> FALSE]

aiger_init ==
  [maxvar |-> 0, inputs |-> <<>>, latches |-> <<>>, outputs |-> <<>>,
   bad |-> <<>>, constraints |-> <<>>, justice |-> <<>>, fairness |-> <<>>,
   ands |-> <<>>, comments |-> <<>>, num_comments |-> 1,
   types |-> [v \in {0} |-> NoType], error |-> "none"]

(* Mutant: the table is one entry short.                                    *)
Fit_Short(types, n) ==
  [v \in DOMAIN types \cup 0 .. n - 1 |-> IF v \in DOMAIN types THEN types[v] ELSE NoType]

Fit(types, n) ==
  [v \in DOMAIN types \cup 0 .. n |-> IF v \in DOMAIN types THEN types[v] ELSE NoType]

aiger_import_literal(l, lits) ==
  LET m == Max({l.maxvar} \cup {Var(x) : x \in lits})
  IN [l EXCEPT !.maxvar = m, !.types = Fit(@, m)]

(* The assertions on a literal that an input, a latch or a gate defines.    *)
Undefined(l, lit) ==
  /\ lit > 1 /\ AG!aiger_sign(lit) = 0
  /\ Var(lit) \in DOMAIN l.types => l.types[Var(lit)].kind = "none"

Define(l, lit, kind, k) ==
  [l EXCEPT !.types[Var(lit)].kind = kind, !.types[Var(lit)].idx = k]

aiger_add_input(l, lit, name) ==
  LET m == Define(aiger_import_literal(l, {lit}), lit, "input", Len(l.inputs) + 1)
  IN [m EXCEPT !.inputs = Append(@, [lit |-> lit, name |-> name])]

aiger_add_latch(l, lit, next, name) ==
  LET m == Define(aiger_import_literal(l, {lit, next}), lit, "latch", Len(l.latches) + 1)
  IN [m EXCEPT !.latches =
        Append(@, [lit |-> lit, next |-> next, reset |-> 0, name |-> name])]

CanReset(l, lit, reset) ==
  reset \in {0, 1, lit} /\ aiger_import_literal(l, {lit}).types[Var(lit)].kind = "latch"

aiger_add_reset(l, lit, reset) ==
  [aiger_import_literal(l, {lit}) EXCEPT
     !.latches[l.types[Var(lit)].idx].reset = reset]

(* aiger_add_output, aiger_add_bad and aiger_add_constraint.                *)
AddSymbol(l, section, lit, name) ==
  [aiger_import_literal(l, {lit}) EXCEPT
     ![section] = Append(@, [lit |-> lit, name |-> name])]

aiger_add_fairness(l, lit, name) == AddSymbol(l, "fairness", lit, name)

aiger_add_justice(l, lits, name) ==
  [aiger_import_literal(l, ToSet(lits)) EXCEPT
     !.justice = Append(@, [lits |-> lits, name |-> name])]

aiger_add_and(l, lhs, rhs0, rhs1) ==
  LET m == Define(aiger_import_literal(l, {lhs, rhs0, rhs1}), lhs, "and", Len(l.ands) + 1)
  IN [m EXCEPT !.ands = Append(@, [lhs |-> lhs, rhs0 |-> rhs0, rhs1 |-> rhs1])]

aiger_add_comment(l, line) ==
  [l EXCEPT !.comments = Append(@, line), !.num_comments = @ + 1]

Plain == {"outputs", "bad", "constraints", "fairness"}   \* sections of bare literals
Sections == {"inputs", "latches", "justice"} \cup Plain

Nameless(symbols) == [k \in DOMAIN symbols |-> [symbols[k] EXCEPT !.name = NoName]]

(* The entry that ends the list of comments is forgotten with the comments, *)
(* so that the next call of aiger_add_comment fails its assertion.          *)
aiger_strip_symbols_and_comments(l) ==
  [l EXCEPT !.inputs = Nameless(@), !.latches = Nameless(@), !.outputs = Nameless(@),
            !.bad = Nameless(@), !.constraints = Nameless(@), !.justice = Nameless(@),
            !.fairness = Nameless(@), !.comments = <<>>, !.num_comments = 0]

-----------------------------------------------------------------------------
(* What the library says of a literal.                                      *)

aiger_lit2tag(l, lit) ==
  IF Var(lit) = 0 THEN 0
  ELSE CASE l.types[Var(lit)].kind = "input" -> 1
         [] l.types[Var(lit)].kind = "latch" -> 2
         [] OTHER -> 3

(* Positions in inputs, latches and ands, and 0 for none.                   *)
PositionOf(l, lit, kind) ==
  IF l.types[Var(lit)].kind = kind THEN l.types[Var(lit)].idx ELSE 0

aiger_is_input(l, lit) == PositionOf(l, lit, "input")
aiger_is_latch(l, lit) == PositionOf(l, lit, "latch")
aiger_is_and(l, lit) == PositionOf(l, lit, "and")

aiger_get_symbol(l, lit) ==
  CASE l.types[Var(lit)].kind = "input" -> l.inputs[aiger_is_input(l, lit)].name
    [] l.types[Var(lit)].kind = "latch" -> l.latches[aiger_is_latch(l, lit)].name
    [] OTHER -> NoName

aiger_literal_defined(l, lit) ==
  Var(lit) = 0 \/ l.types[Var(lit)].kind # "none"

-----------------------------------------------------------------------------
(* Calls and routines.                                                      *)

Call ==
  [call : {"aiger_add_input"}, lit : Nat, name : Texts]
    \cup [call : {"aiger_add_latch"}, lit : Nat, next : Nat, name : Texts]
    \cup [call : {"aiger_add_reset"}, lit : Nat, reset : Nat]
    \cup [call : {"aiger_add_literal"}, section : Plain, lit : Nat, name : Texts]
    \cup [call : {"aiger_add_justice"}, lits : Seq(Nat), name : Texts]
    \cup [call : {"aiger_add_and"}, lhs : Nat, rhs0 : Nat, rhs1 : Nat]
    \cup [call : {"aiger_add_comment"}, line : Texts]
    \cup [call : {"aiger_write"}, mode : {"ascii", "binary"}]
    \cup [call : {"aiger_strip_symbols_and_comments", "aiger_check",
                  "aiger_reencode", "aiger_read"}]

Calling(f) ==
  run = <<>> /\ lib.error = "none" /\ calls # <<>> /\ Head(calls).call = f
Arg == Head(calls)

Return(l) ==
  /\ lib' = l
  /\ calls' = Tail(calls)
  /\ before' = lib
  /\ UNCHANGED <<run, search>>

StartRoutines(rs) ==
  /\ run' = rs
  /\ calls' = Tail(calls)
  /\ before' = lib
  /\ UNCHANGED search

Running(r) == run # <<>> /\ Head(run) = r
Finish == run' = Tail(run)
Abort == run' = <<"abort">>
Continue == UNCHANGED <<calls, before>>

(* A client keeps to what the calls assert of their arguments: a call whose  *)
(* assertion would fail is not made.                                        *)

AddInput ==
  /\ Calling("aiger_add_input")
  /\ Undefined(lib, Arg.lit)
  /\ Return(aiger_add_input(lib, Arg.lit, Arg.name))

AddLatch ==
  /\ Calling("aiger_add_latch")
  /\ Undefined(lib, Arg.lit)
  /\ Return(aiger_add_latch(lib, Arg.lit, Arg.next, Arg.name))

AddReset ==
  /\ Calling("aiger_add_reset")
  /\ CanReset(lib, Arg.lit, Arg.reset)
  /\ Return(aiger_add_reset(lib, Arg.lit, Arg.reset))

AddLiteral ==
  /\ Calling("aiger_add_literal")
  /\ Return(AddSymbol(lib, Arg.section, Arg.lit, Arg.name))

AddJustice ==
  /\ Calling("aiger_add_justice")
  /\ Return(aiger_add_justice(lib, Arg.lits, Arg.name))

AddAnd ==
  /\ Calling("aiger_add_and")
  /\ Undefined(lib, Arg.lhs)
  /\ Return(aiger_add_and(lib, Arg.lhs, Arg.rhs0, Arg.rhs1))

AddComment ==
  /\ Calling("aiger_add_comment")
  /\ lib.num_comments > 0
  /\ Return(aiger_add_comment(lib, Arg.line))

StripSymbols ==
  /\ Calling("aiger_strip_symbols_and_comments")
  /\ Return(aiger_strip_symbols_and_comments(lib))

(* After an error the client may only give the structure back.              *)
Reset ==
  /\ run = <<>>
  /\ lib.error # "none"
  /\ lib' = aiger_init
  /\ calls' = <<>>
  /\ before' = aiger_init
  /\ UNCHANGED <<run, search>>

CallCheck ==
  Calling("aiger_check") /\ StartRoutines(<<"check">>) /\ UNCHANGED lib
CallReencode ==
  Calling("aiger_reencode") /\ StartRoutines(<<"reencode">>) /\ UNCHANGED lib

(* assert (!aiger_check (...)): the check runs, and an error ends the        *)
(* program.                                                                 *)
AssertOk ==
  /\ Running("assert")
  /\ IF lib.error = "none" THEN Finish ELSE Abort
  /\ Continue /\ UNCHANGED <<lib, search>>

-----------------------------------------------------------------------------
(* aiger_check.                                                             *)

(* The literals that the tables other than the gates' mention.              *)
SymbolLits(l) ==
  {l.latches[k].next : k \in DOMAIN l.latches}
    \cup (UNION {{l[s][k].lit : k \in DOMAIN l[s]} : s \in Plain})
    \cup (UNION {ToSet(l.justice[k].lits) : k \in DOMAIN l.justice})

RightHandSides(l) ==
  UNION {{l.ands[k].rhs0, l.ands[k].rhs1} : k \in DOMAIN l.ands}

(* Mutant: only the inputs of gates are looked at.                          *)
CheckDefined_Gates ==
  /\ Running("check")
  /\ Continue
  /\ IF \A x \in RightHandSides(lib) : aiger_literal_defined(lib, x)
     THEN /\ run' = <<"cycles">> \o Tail(run)
          /\ root' = 1 /\ stack' = <<>>
          /\ UNCHANGED <<lib, code, new, todo>>
     ELSE /\ lib' = [lib EXCEPT !.error = "undefined"]
          /\ Finish
          /\ UNCHANGED search

(* The checks before the one for cycles; the first that fails is reported   *)
(* and stops the others.                                                    *)
CheckDefined ==
  /\ Running("check")
  /\ Continue
  /\ IF \A x \in SymbolLits(lib) \cup RightHandSides(lib) :
          aiger_literal_defined(lib, x)
     THEN /\ run' = <<"cycles">> \o Tail(run)
          /\ root' = 1 /\ stack' = <<>>
          /\ UNCHANGED <<lib, code, new, todo>>
     ELSE /\ lib' = [lib EXCEPT !.error = "undefined"]
          /\ Finish
          /\ UNCHANGED search

Type(v) == lib.types[v]
GateOf(v) == lib.ands[lib.types[v].idx]
NonZero(c) == IF c = 0 THEN <<>> ELSE <<c>>
Children(v) == NonZero(Var(GateOf(v).rhs0)) \o NonZero(Var(GateOf(v).rhs1))

CycleSearch ==
  Running("cycles") /\ Continue /\ UNCHANGED <<code, new, todo>>

NextRoot ==
  /\ CycleSearch
  /\ stack = <<>> /\ root <= lib.maxvar
  /\ root' = root + 1
  /\ stack' = IF Type(root).kind # "and" \/ Type(root).mark THEN <<>> ELSE <<root>>
  /\ UNCHANGED <<lib, run>>

CycleFound ==
  /\ CycleSearch
  /\ stack # <<>>
  /\ LET j == Last(stack)
     IN /\ j # 0 /\ Type(j).mark /\ Type(j).onstack
        /\ lib' = [lib EXCEPT !.error = "cyclic"]
  /\ stack' = <<>>
  /\ Finish
  /\ UNCHANGED root

(* Mutant: the entry is looked at and stays on the stack.                   *)
Visited_Stays ==
  /\ CycleSearch
  /\ stack # <<>>
  /\ LET j == Last(stack)
     IN /\ j # 0
        /\ ~(Type(j).mark /\ Type(j).onstack)
        /\ Type(j).kind # "and" \/ Type(j).mark
  /\ UNCHANGED <<lib, run, root, stack>>

Visited ==
  /\ CycleSearch
  /\ stack # <<>>
  /\ LET j == Last(stack)
     IN /\ j # 0
        /\ ~(Type(j).mark /\ Type(j).onstack)
        /\ Type(j).kind # "and" \/ Type(j).mark
  /\ stack' = Front(stack)
  /\ UNCHANGED <<lib, run, root>>

(* Mutant: a gate is marked when it is left, not when it is entered.        *)
Descend_NoMark ==
  /\ CycleSearch
  /\ stack # <<>>
  /\ LET j == Last(stack)
     IN /\ j # 0 /\ Type(j).kind = "and" /\ ~Type(j).mark
        /\ lib' = [lib EXCEPT !.types[j].mark = TRUE]
        /\ stack' = stack \o <<0>> \o Children(j)
  /\ UNCHANGED <<run, root>>

Descend ==
  /\ CycleSearch
  /\ stack # <<>>
  /\ LET j == Last(stack)
     IN /\ j # 0 /\ Type(j).kind = "and" /\ ~Type(j).mark
        /\ lib' = [lib EXCEPT !.types[j].mark = TRUE, !.types[j].onstack = TRUE]
        /\ stack' = stack \o <<0>> \o Children(j)
  /\ UNCHANGED <<run, root>>

(* Mutant: the gate that is left stays marked as being on the stack.        *)
Leave_OnStack ==
  /\ CycleSearch
  /\ stack # <<>> /\ Last(stack) = 0
  /\ stack' = Front(Front(stack))
  /\ UNCHANGED <<lib, run, root>>

Leave ==
  /\ CycleSearch
  /\ stack # <<>> /\ Last(stack) = 0
  /\ LET j == Last(Front(stack))
     IN lib' = [lib EXCEPT !.types[j].onstack = FALSE]
  /\ stack' = Front(Front(stack))
  /\ UNCHANGED <<run, root>>

Checked ==
  /\ CycleSearch
  /\ stack = <<>> /\ root > lib.maxvar
  /\ Finish
  /\ UNCHANGED <<lib, stack, root>>

CheckSteps ==
  \/ CheckDefined \/ NextRoot \/ CycleFound \/ Visited \/ Descend \/ Leave
  \/ Checked

-----------------------------------------------------------------------------
(* aiger_reencode.                                                          *)

aiger_max_input_or_latch(l) ==
  Max({0} \cup {l.inputs[k].lit : k \in DOMAIN l.inputs}
          \cup {l.latches[k].lit : k \in DOMAIN l.latches})

aiger_is_reencoded(l) ==
  LET leaves == Len(l.inputs) + Len(l.latches)
      first == aiger_max_input_or_latch(l) + 2
  IN /\ \A k \in DOMAIN l.inputs : l.inputs[k].lit = 2 * k
     /\ \A k \in DOMAIN l.latches : l.latches[k].lit = 2 * (Len(l.inputs) + k)
     /\ \A k \in DOMAIN l.ands : /\ l.ands[k].lhs > 2 * leaves
                                 /\ l.ands[k].lhs = first + 2 * (k - 1)
                                 /\ l.ands[k].lhs >= l.ands[k].rhs0
                                 /\ l.ands[k].rhs0 >= l.ands[k].rhs1

(* Where literals are stored, in the order in which they are rewritten.     *)
SymbolPlaces(l, s) == [k \in DOMAIN l[s] |-> <<s, k, "lit">>]
Places(l) ==
  FlattenSeq([k \in DOMAIN l.latches |->
                <<<<"latches", k, "next">>, <<"latches", k, "reset">>>>])
    \o SymbolPlaces(l, "outputs") \o SymbolPlaces(l, "bad")
    \o SymbolPlaces(l, "constraints")
    \o FlattenSeq([k \in DOMAIN l.justice |->
         [j \in DOMAIN l.justice[k].lits |-> <<"justice", k, "lits", j>>]])
    \o SymbolPlaces(l, "fairness")

LitAt(l, p) ==
  IF Len(p) = 3 THEN l[p[1]][p[2]][p[3]] ELSE l[p[1]][p[2]][p[3]][p[4]]
PutAt(l, p, x) ==
  IF Len(p) = 3 THEN [l EXCEPT ![p[1]][p[2]][p[3]] = x]
                ELSE [l EXCEPT ![p[1]][p[2]][p[3]][p[4]] = x]

(* Inputs come first, latches second; the literal 1 keeps its code.         *)
LeafCodes(l) ==
  [x \in 0 .. 2 * l.maxvar + 1 |->
     IF x < 2 THEN x
     ELSE CASE \E k \in DOMAIN l.inputs : Var(l.inputs[k].lit) = Var(x) ->
                 2 * aiger_is_input(l, x) + AG!aiger_sign(x)
            [] \E k \in DOMAIN l.latches : Var(l.latches[k].lit) = Var(x) ->
                 2 * (Len(l.inputs) + aiger_is_latch(l, x)) + AG!aiger_sign(x)
            [] OTHER -> 0]

ReencodeStart ==
  /\ Running("reencode") /\ Continue
  /\ IF aiger_is_reencoded(lib)
     THEN Finish /\ UNCHANGED search
     ELSE /\ run' = <<"rewrite">> \o Tail(run)
          /\ code' = LeafCodes(lib)
          /\ new' = 2 * (Len(lib.inputs) + Len(lib.latches) + 1)
          /\ todo' = Places(lib)
          /\ stack' = <<>>
          /\ UNCHANGED root
  /\ UNCHANGED lib

Rewriting == Running("rewrite") /\ Continue /\ UNCHANGED root

RewriteLiteral ==
  /\ Rewriting
  /\ stack = <<>> /\ todo # <<>>
  /\ LET lit == LitAt(lib, Head(todo))
     IN IF lit < 2 \/ code[lit] # 0
        THEN /\ lib' = PutAt(lib, Head(todo), IF lit < 2 THEN lit ELSE code[lit])
             /\ todo' = Tail(todo)
             /\ UNCHANGED stack
        ELSE /\ Type(Var(lit)).kind = "and"
             /\ stack' = <<Var(lit)>>
             /\ UNCHANGED <<lib, todo>>
  /\ UNCHANGED <<run, code, new>>

(* Mutant: only the larger input of a gate is numbered before the gate.     *)
NumberedChildren_One(v) ==
  LET c == Max({Var(GateOf(v).rhs0), Var(GateOf(v).rhs1)})
  IN IF c = 0 \/ Type(c).kind \in {"input", "latch"} THEN <<>> ELSE <<c>>

(* The search of aiger_reencode_lit: the smaller child is numbered first.   *)
NumberedChildren(v) ==
  LET a == Var(GateOf(v).rhs0)
      b == Var(GateOf(v).rhs1)
  IN SelectSeq(<<Max({a, b}), Min({a, b})>>,
               LAMBDA c : /\ c # 0 /\ c # v
                          /\ Type(c).kind \notin {"input", "latch"}
                          /\ ~Type(c).onstack)

EnterGate ==
  /\ Rewriting
  /\ stack # <<>> /\ Last(stack) # 0
  /\ LET old == Last(stack)
     IN IF code[aiger_var2lit(old)] # 0 \/ Type(old).onstack
        THEN stack' = Front(stack) /\ UNCHANGED lib
        ELSE /\ lib' = [lib EXCEPT !.types[old].onstack = TRUE]
             /\ stack' = stack \o <<0>> \o NumberedChildren(old)
  /\ UNCHANGED <<run, code, new, todo>>

(* Mutant: both literals of a variable get the same number.                 *)
NumberGate_NoSign ==
  /\ Rewriting
  /\ stack # <<>> /\ Last(stack) = 0
  /\ LET old == Last(Front(stack))
         lit == aiger_var2lit(old)
     IN /\ lib' = [lib EXCEPT !.types[old].onstack = FALSE]
        /\ code' = [code EXCEPT ![lit] = new, ![aiger_not(lit)] = new]
  /\ stack' = Front(Front(stack))
  /\ new' = new + 2
  /\ UNCHANGED <<run, todo>>

NumberGate ==
  /\ Rewriting
  /\ stack # <<>> /\ Last(stack) = 0
  /\ LET old == Last(Front(stack))
         lit == aiger_var2lit(old)
     IN /\ lib' = [lib EXCEPT !.types[old].onstack = FALSE]
        /\ code' = [code EXCEPT ![lit] = new, ![aiger_not(lit)] = new + 1]
  /\ stack' = Front(Front(stack))
  /\ new' = new + 2
  /\ UNCHANGED <<run, todo>>

(* The gates that have a code, with their inputs in order, sorted by their  *)
(* left hand side.                                                          *)
CodedGates(l) ==
  LET kept == {k \in DOMAIN l.ands : code[l.ands[k].lhs] # 0}
      Gate(a) == [lhs |-> code[a.lhs],
                  rhs0 |-> Max({code[a.rhs0], code[a.rhs1]}),
                  rhs1 |-> Min({code[a.rhs0], code[a.rhs1]})]
  IN SetToSortSeq({Gate(l.ands[k]) : k \in kept}, LAMBDA a, b : a.lhs < b.lhs)

Recode(symbols) ==
  [k \in DOMAIN symbols |-> [symbols[k] EXCEPT !.lit = code[@]]]

(* Mutant: a gate keeps its kind and position.                              *)
RetypeTable_Gates(l, ands, inputs, latches) ==
  [v \in DOMAIN l.types |->
     IF \E k \in DOMAIN ands : Var(ands[k].lhs) = v
     THEN [l.types[v] EXCEPT !.kind = "and"] ELSE l.types[v]]

(* The kind and position of every variable up to the old maxvar are written *)
(* anew; marks stay what they are.                                          *)
RetypeTable(l, ands, inputs, latches) ==
  LET Position(s, v) == {k \in DOMAIN s : Var(s[k].lit) = v}
      Gates(v) == {k \in DOMAIN ands : Var(ands[k].lhs) = v}
      Retyped(v, kind, ks) ==
        [l.types[v] EXCEPT !.kind = kind, !.idx = CHOOSE k \in ks : TRUE]
  IN [v \in DOMAIN l.types |->
        CASE v = 0 \/ v > l.maxvar -> l.types[v]
          [] Gates(v) # {} -> Retyped(v, "and", Gates(v))
          [] Position(inputs, v) # {} -> Retyped(v, "input", Position(inputs, v))
          [] Position(latches, v) # {} -> Retyped(v, "latch", Position(latches, v))
          [] OTHER -> [l.types[v] EXCEPT !.kind = "none", !.idx = 0]]

Renumbered(l) ==
  LET ands == CodedGates(l)
      inputs == Recode(l.inputs)
      latches == Recode(l.latches)
  IN [l EXCEPT !.ands = ands, !.inputs = inputs, !.latches = latches,
               !.types = RetypeTable(l, ands, inputs, latches),
               !.maxvar = Var(new - 1)]

Reencoded ==
  /\ Rewriting
  /\ stack = <<>> /\ todo = <<>>
  /\ lib' = Renumbered(lib)
  /\ IF aiger_is_reencoded(lib') THEN run' = <<"check", "assert">> \o Tail(run)
                                 ELSE Abort
  /\ UNCHANGED <<stack, code, new, todo>>

ReencodeSteps ==
  ReencodeStart \/ RewriteLiteral \/ EnterGate \/ NumberGate \/ Reencoded

-----------------------------------------------------------------------------
LibInit ==
  /\ lib = aiger_init
  /\ run = <<>>
  /\ stack = <<>> /\ root = 1
  /\ code = <<>> /\ new = 2 /\ todo = <<>>
  /\ before = aiger_init

ClientCall ==
  \/ AddInput \/ AddLatch \/ AddReset \/ AddLiteral \/ AddJustice \/ AddAnd
  \/ AddComment \/ StripSymbols \/ Reset \/ CallCheck \/ CallReencode

LibStep == ClientCall \/ AssertOk \/ CheckSteps \/ ReencodeSteps
=============================================================================
