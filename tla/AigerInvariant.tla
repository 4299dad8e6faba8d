--------------------------- MODULE AigerInvariant ---------------------------
(***************************************************************************)
(* The inductive invariant of the AIGER library for a client that never    *)
(* renumbers a graph, which is what bmc.cpp is: it reads one file.  The    *)
(* proofs that use it are in AigerProofs.                                  *)
(***************************************************************************)
EXTENDS AigerIO

-----------------------------------------------------------------------------
(* Types.                                                                   *)

SymbolEntry == [lit : Nat, name : Texts]
LatchEntry == [lit : Nat, next : Nat, reset : Nat, name : Texts]
JusticeEntry == [lits : Seq(Nat), name : Texts]
TypeEntry ==
  [kind : {"none", "input", "latch", "and"}, idx : Nat,
   mark : BOOLEAN, onstack : BOOLEAN]

Errors ==
  {"none", "undefined", "cyclic", "open", "format", "literal", "range", "defined",
   "delta", "code", "eof", "symbol", "comment"}

(* The table of types has one entry for every variable up to maxvar.        *)
Library(m) ==
  [maxvar : Nat, inputs : Seq(SymbolEntry), latches : Seq(LatchEntry),
   outputs : Seq(SymbolEntry), bad : Seq(SymbolEntry),
   constraints : Seq(SymbolEntry), justice : Seq(JusticeEntry),
   fairness : Seq(SymbolEntry), ands : Seq(AG!And), comments : Seq(Texts),
   num_comments : Nat, types : [0 .. m -> TypeEntry], error : Errors]
IsLibrary(l) == l \in Library(l.maxvar)

Header ==
  [mode : {"none", "ascii", "binary"}, maxvar : Nat, inputs : Nat, latches : Nat, outputs : Nat,
   ands : Nat, bad : Nat, constraints : Nat, justice : Nat, fairness : Nat,
   sizes : Seq(Nat)]

(* What a client does that leaves the numbers of the variables alone.       *)
Harmless(c) ==
  c.call # "aiger_reencode" /\ (c.call = "aiger_write" => c.mode = "ascii")
NeverRenumbers ==
  \A job \in Jobs : \A i \in DOMAIN job.calls : Harmless(job.calls[i])

Types ==
  /\ IsLibrary(lib)
  /\ calls \in Seq(Call)
  /\ \A i \in DOMAIN calls : Harmless(calls[i])
  /\ stack \in Seq(0 .. lib.maxvar)
  /\ root \in Nat
  /\ file \in [there : BOOLEAN, tokens : Seq(Token)]
  /\ rest \in Seq(Token)
  /\ rd \in Header
  /\ result \in {"none", "ok", "failed"}
  /\ origin \in {"client", "file", "copy"}

-----------------------------------------------------------------------------
(* Every literal is in range, and the table of types and the other tables   *)
(* say the same of every variable.                                          *)

Within(l, x) == Var(x) <= l.maxvar
Defines(l, x, kind, k) ==
  /\ x > 1 /\ AG!aiger_sign(x) = 0 /\ Within(l, x)
  /\ l.types[Var(x)].kind = kind /\ l.types[Var(x)].idx = k

InputsDefined(l) == \A k \in DOMAIN l.inputs : Defines(l, l.inputs[k].lit, "input", k)
LatchesDefined(l) ==
  \A k \in DOMAIN l.latches : Defines(l, l.latches[k].lit, "latch", k)
GatesDefined(l) == \A k \in DOMAIN l.ands : Defines(l, l.ands[k].lhs, "and", k)

KindsRight(l) ==
  /\ l.types[0].kind = "none"
  /\ \A v \in 0 .. l.maxvar :
       LET k == l.types[v].idx
       IN /\ l.types[v].kind = "input" =>
               k \in DOMAIN l.inputs /\ Var(l.inputs[k].lit) = v
          /\ l.types[v].kind = "latch" =>
               k \in DOMAIN l.latches /\ Var(l.latches[k].lit) = v
          /\ l.types[v].kind = "and" =>
               k \in DOMAIN l.ands /\ Var(l.ands[k].lhs) = v

LitsWithin(l) ==
  /\ \A k \in DOMAIN l.latches : Within(l, l.latches[k].next)
  /\ \A k \in DOMAIN l.outputs : Within(l, l.outputs[k].lit)
  /\ \A k \in DOMAIN l.bad : Within(l, l.bad[k].lit)
  /\ \A k \in DOMAIN l.constraints : Within(l, l.constraints[k].lit)
  /\ \A k \in DOMAIN l.fairness : Within(l, l.fairness[k].lit)
  /\ \A k \in DOMAIN l.justice :
       \A j \in DOMAIN l.justice[k].lits : Within(l, l.justice[k].lits[j])
  /\ \A k \in DOMAIN l.ands : Within(l, l.ands[k].rhs0) /\ Within(l, l.ands[k].rhs1)

Built(l) ==
  /\ InputsDefined(l) /\ LatchesDefined(l) /\ GatesDefined(l)
  /\ KindsRight(l) /\ LitsWithin(l)

-----------------------------------------------------------------------------
(* Marks.  A gate is done when a check has left it.                         *)

IsGate(l, v) == v \in 0 .. l.maxvar /\ l.types[v].kind = "and"
Read(l, v) == l.ands[l.types[v].idx]
Kids(l, v) == {Var(Read(l, v).rhs0), Var(Read(l, v).rhs1)} \ {0}
Done(l) ==
  {v \in 0 .. l.maxvar :
     l.types[v].kind = "and" /\ l.types[v].mark /\ ~l.types[v].onstack}

MarksOnGates(l) ==
  \A v \in 0 .. l.maxvar :
    /\ l.types[v].mark => l.types[v].kind = "and"
    /\ l.types[v].onstack => l.types[v].mark

DoneClosed(l) ==
  \A v \in Done(l) : \A c \in Kids(l, v) :
    /\ l.types[c].kind # "none"
    /\ l.types[c].kind = "and" => c \in Done(l)

DoneRanked(l) ==
  \E rank \in [Done(l) -> 1 .. Cardinality(Done(l))] :
    \A v \in Done(l) : \A c \in Kids(l, v) \cap Done(l) : rank[c] < rank[v]

Marked(l) == MarksOnGates(l) /\ DoneClosed(l) /\ DoneRanked(l)
Quiet(l) == \A v \in 0 .. l.maxvar : ~l.types[v].onstack

AllDefined(l) ==
  \A x \in SymbolLits(l) \cup RightHandSides(l) : aiger_literal_defined(l, x)

-----------------------------------------------------------------------------
(* The stack of the cycle check.  OpenAt are the positions of the gates     *)
(* that have been entered and not left.                                     *)

(* i is the last position of an entered gate before p.                      *)
Under(i, p) == i \in OpenAt /\ i < p /\ \A k \in OpenAt : k < p => k <= i

ZerosApart ==
  /\ stack # <<>> => stack[1] # 0
  /\ \A i \in 1 .. Len(stack) - 1 : stack[i] # 0 \/ stack[i + 1] # 0

OpenOnStack ==
  /\ \A i \in OpenAt : IsGate(lib, stack[i]) /\ Type(stack[i]).mark /\ Type(stack[i]).onstack
  /\ \A i, j \in OpenAt : stack[i] = stack[j] => i = j
  /\ \A v \in 0 .. lib.maxvar : Type(v).onstack => \E i \in OpenAt : stack[i] = v

(* Whatever is above another entry is read by the gate entered last below.  *)
ReadByParent ==
  \A p \in 2 .. Len(stack) :
    stack[p] # 0 => \E i \in OpenAt : Under(i, p) /\ stack[p] \in Kids(lib, stack[i])

(* What an entered gate reads still waits above it, or is done.             *)
ChildrenWait ==
  \A i \in OpenAt : \A c \in Kids(lib, stack[i]) :
    \/ Type(c).kind # "and" \/ c \in Done(lib)
    \/ \E p \in i + 1 .. Len(stack) : stack[p] = c

(* The gates below the next root have been entered, or the one on the       *)
(* bottom of the stack is about to be.                                      *)
RootsEntered ==
  /\ root >= 1
  /\ \A v \in 1 .. lib.maxvar :
       v < root /\ Type(v).kind = "and" =>
         Type(v).mark \/ (stack # <<>> /\ stack[1] = v)

SearchState ==
  /\ lib.error = "none" /\ AllDefined(lib)
  /\ ZerosApart /\ OpenOnStack /\ ReadByParent /\ ChildrenWait /\ RootsEntered

Searching == Running("cycles") => SearchState

(* Outside a search nothing is left on the stack.                           *)
SearchOver == ~Running("cycles") => stack = <<>>

-----------------------------------------------------------------------------
(* Which routines run, and how far the reader is.                           *)

ReadingFrom(n) == origin # "client" /\ run = SubSeq(ReadRoutines, n, 12)

RoutinesRight ==
  \/ run = <<>>
  \/ run = <<"abort">>
  \/ origin # "client" /\ (run = <<"cycles">> \/ \E n \in 1 .. 12 : ReadingFrom(n))
  \/ /\ origin = "client"
     /\ run \in {<<"check">>, <<"cycles">>, <<"check", "assert", "ascii">>,
                 <<"cycles", "assert", "ascii">>, <<"assert", "ascii">>, <<"ascii">>}

ErrorsStop ==
  lib.error # "none" => run \in {<<>>, <<"abort">>, <<"assert", "ascii">>}

(* Variables are the next literals of a binary file.                        *)
InOrder(l) ==
  /\ \A k \in DOMAIN l.inputs : l.inputs[k].lit = 2 * k
  /\ \A k \in DOMAIN l.latches : l.latches[k].lit = 2 * (rd.inputs + k)
  /\ \A k \in DOMAIN l.ands : l.ands[k].lhs = 2 * (rd.inputs + rd.latches + k)

ReaderAt(n) ==
  /\ n = 1 => lib = aiger_init
  /\ n > 1 => rd.mode \in {"ascii", "binary"}
  /\ n < 3 => lib.latches = <<>>
  /\ n < 10 => lib.ands = <<>>
  /\ n > 2 => Len(lib.inputs) = rd.inputs
  /\ n > 3 => Len(lib.latches) = rd.latches
  /\ n < 8 => lib.justice = <<>>
  /\ n = 8 => Len(lib.justice) <= rd.justice
  /\ n > 7 => Len(rd.sizes) = rd.justice
  /\ n > 1 /\ rd.mode = "binary" => InOrder(lib)

ReaderRight == \A n \in 1 .. 12 : ReadingFrom(n) => ReaderAt(n)

HandedOver ==
  run = <<>> /\ origin # "client" /\ lib.error = "none" => Consistent(lib)

-----------------------------------------------------------------------------
IInv ==
  /\ Types /\ Built(lib)
  /\ lib.error = "none" => Marked(lib) /\ (Running("cycles") \/ Quiet(lib))
  /\ Searching
  /\ RoutinesRight /\ ErrorsStop /\ ReaderRight /\ HandedOver
=============================================================================
