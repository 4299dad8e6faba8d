------------------------------ MODULE AigerIO ------------------------------
(***************************************************************************)
(* aiger/aiger.c: writing the graph to a file and reading one, in the      *)
(* ASCII and in the binary format, and the library with its client as a    *)
(* whole.  A file is a sequence of tokens: numbers with the character that *)
(* follows them, bytes of the binary section, and the parts of the symbol  *)
(* table and of the comments.                                              *)
(***************************************************************************)
EXTENDS AigerLib

CONSTANT Jobs   \* what clients do: [calls, file] with the file that is there

VARIABLES
  file,     \* the file on disk: whether it is there, and its tokens
  result,   \* of the last write: "none", "ok" or "failed"
  written,  \* the structure whose text the last successful write made
  origin,   \* where lib comes from: "client", "file", or "copy" of a write
  rest,     \* tokens that the reader has not read yet
  rd        \* what the reader has read of the header

ioVars == <<file, result, written, origin, rest, rd>>
vars == <<libVars, ioVars>>

-----------------------------------------------------------------------------
(* Tokens.                                                                  *)

Magic(m) == [kind |-> "magic", mode |-> m]
Num(n, c) == [kind |-> "num", n |-> n, next |-> c]
Byte(b) == [kind |-> "byte", b |-> b]
SymbolKey(t) == [kind |-> "sym", section |-> t]
Text(s, ended) == [kind |-> "text", s |-> s, ended |-> ended]
CommentKey == [kind |-> "c"]

Token ==
  [kind : {"magic"}, mode : {"ascii", "binary"}]
    \cup [kind : {"num"}, n : Nat, next : {"space", "newline", "other"}]
    \cup [kind : {"byte"}, b : 0 .. 255]
    \cup [kind : {"sym"}, section : Sections]
    \cup [kind : {"text"}, s : Texts, ended : BOOLEAN]
    \cup [kind : {"c"}]

ASSUME JobsAssumption ==
  \A job \in Jobs : job \in [calls : Seq(Call), file : Seq(Token)]

Line(ns) ==
  [i \in DOMAIN ns |-> Num(ns[i], IF i = Len(ns) THEN "newline" ELSE "space")]
Lines(f) == FlattenSeq([k \in DOMAIN f |-> Line(f[k])])

-----------------------------------------------------------------------------
(* Numbers of the binary section: seven bits a byte, low bits first.        *)

aiger_write_delta[d \in Nat] ==
  IF d < 128 THEN <<d>> ELSE <<128 + (d % 128)>> \o aiger_write_delta[d \div 128]

(* Seven bits of each of the first four bytes, and four of the fifth, for    *)
(* the value has 32.                                                         *)
SevenBits(bs, i) == IF i \in DOMAIN bs THEN bs[i] % 128 ELSE 0
FourBits(bs) == IF 5 \in DOMAIN bs THEN bs[5] % 16 ELSE 0
Large == 128 * 128 * 128 * 128
LowBits(bs) ==
  SevenBits(bs, 1) + 128 * SevenBits(bs, 2) + 128 * 128 * SevenBits(bs, 3)
    + 128 * 128 * 128 * SevenBits(bs, 4) + Large * FourBits(bs)

(* What aiger_read_delta may return for the bytes up to the first without   *)
(* the high bit.  A sixth byte is shifted by more than the width, which C   *)
(* leaves open.                                                             *)
DeltaValues(bs) ==
  IF Len(bs) < 6 THEN {LowBits(bs)}
  ELSE {LowBits(bs), Large} \cup LowBits(bs) .. LowBits(bs) + 8 * bs[6]

(* A character of another token is read as a byte that is no small number.  *)
ByteAt(t) == IF t.kind = "byte" THEN t.b ELSE 48

DeltaLength(ts) ==
  Min({Len(ts) + 1} \cup {i \in DOMAIN ts : ByteAt(ts[i]) < 128})

(* Error, or the bytes of one number.                                       *)
aiger_read_delta(ts) ==
  LET n == DeltaLength(ts)
      bs == [i \in 1 .. Min({n, Len(ts)}) |-> ByteAt(ts[i])]
  IN CASE n > 6 /\ Len(ts) >= 6 -> [error |-> "code", bytes |-> bs]
       [] n > Len(ts) /\ Len(ts) < 6 -> [error |-> "eof", bytes |-> bs]
       [] n = 6 /\ bs[6] >= 8 -> [error |-> "code", bytes |-> bs]
       [] OTHER -> [error |-> "none", bytes |-> bs]

-----------------------------------------------------------------------------
(* The text of a graph.                                                     *)

(* Of the last four counts those up to the last that is not 0.              *)
HeaderCounts(l) ==
  LET later == <<Len(l.bad), Len(l.constraints), Len(l.justice), Len(l.fairness)>>
      last == Max({0} \cup {i \in DOMAIN later : later[i] > 0})
  IN <<l.maxvar, Len(l.inputs), Len(l.latches), Len(l.outputs), Len(l.ands)>>
       \o SubSeq(later, 1, last)

LitLines(symbols) == Lines([k \in DOMAIN symbols |-> <<symbols[k].lit>>])

LatchLine(latch, compact) ==
  (IF compact THEN <<>> ELSE <<latch.lit>>) \o <<latch.next>>
    \o (IF latch.reset = 0 THEN <<>> ELSE <<latch.reset>>)

JusticeLines(justice) ==
  Lines([k \in DOMAIN justice |-> <<Len(justice[k].lits)>>])
    \o FlattenSeq([k \in DOMAIN justice |->
         Lines([j \in DOMAIN justice[k].lits |-> <<justice[k].lits[j]>>])])

aiger_write_header(l, mode) ==
  LET compact == mode = "binary"
  IN <<Magic(mode)>> \o Line(HeaderCounts(l))
       \o (IF compact THEN <<>> ELSE LitLines(l.inputs))
       \o Lines([k \in DOMAIN l.latches |-> LatchLine(l.latches[k], compact)])
       \o LitLines(l.outputs) \o LitLines(l.bad) \o LitLines(l.constraints)
       \o JusticeLines(l.justice) \o LitLines(l.fairness)

GateLines(l) ==
  Lines([k \in DOMAIN l.ands |->
           <<l.ands[k].lhs, l.ands[k].rhs0, l.ands[k].rhs1>>])

(* Mutant: the second number of a gate is taken from the left hand side.    *)
GateDeltas_FromLhs(l) ==
  FlattenSeq([k \in DOMAIN l.ands |->
    LET a == l.ands[k]
        bytes == aiger_write_delta[a.lhs - a.rhs0] \o aiger_write_delta[a.lhs - a.rhs1]
    IN [i \in DOMAIN bytes |-> Byte(bytes[i])]])

GateDeltas(l) ==
  FlattenSeq([k \in DOMAIN l.ands |->
    LET a == l.ands[k]
        bytes == aiger_write_delta[a.lhs - a.rhs0] \o aiger_write_delta[a.rhs0 - a.rhs1]
    IN [i \in DOMAIN bytes |-> Byte(bytes[i])]])

SectionOrder ==
  <<"inputs", "latches", "outputs", "bad", "constraints", "justice", "fairness">>

SymbolEntries(l, s) ==
  FlattenSeq([k \in DOMAIN l[s] |->
    IF l[s][k].name = NoName THEN <<>>
    ELSE <<SymbolKey(s), Num(k - 1, "space"), Text(l[s][k].name, TRUE)>>])

aiger_write_symbols(l) ==
  FlattenSeq([i \in DOMAIN SectionOrder |-> SymbolEntries(l, SectionOrder[i])])

aiger_write_comments(l) ==
  IF l.comments = <<>> THEN <<>>
  ELSE <<CommentKey>> \o [k \in DOMAIN l.comments |-> Text(l.comments[k], TRUE)]

aiger_write_generic(l, mode) ==
  aiger_write_header(l, mode)
    \o (IF mode = "ascii" THEN GateLines(l) ELSE GateDeltas(l))
    \o aiger_write_symbols(l) \o aiger_write_comments(l)

-----------------------------------------------------------------------------
(* aiger_open_and_write_to_file.  The file is opened first; a write that    *)
(* fails at any point ends with the file removed.                           *)

NoTokens == [there |-> FALSE, tokens |-> <<>>]

CannotOpen ==
  /\ Calling("aiger_write")
  /\ result' = "failed"
  /\ calls' = Tail(calls) /\ before' = lib
  /\ origin' = "client"
  /\ UNCHANGED <<lib, run, search, file, written, rest, rd>>

OpenForWriting ==
  /\ Calling("aiger_write")
  /\ file' = [there |-> TRUE, tokens |-> <<>>]
  /\ StartRoutines(IF Arg.mode = "ascii"
                   THEN <<"check", "assert", "ascii">>
                   ELSE <<"check", "assert", "reencode", "binary">>)
  /\ origin' = "client"
  /\ UNCHANGED <<lib, result, written, rest, rd>>

(* The first thing that a failed write leaves is removed by unlink.         *)
Write(mode) ==
  /\ Running(mode) /\ Continue
  /\ Finish
  /\ \/ /\ file' = [there |-> TRUE, tokens |-> aiger_write_generic(lib, mode)]
        /\ result' = "ok"
        /\ written' = lib
     \/ /\ file' = NoTokens
        /\ result' = "failed"
        /\ UNCHANGED written
  /\ UNCHANGED <<lib, search, origin, rest, rd>>

WriteAscii == Write("ascii")
WriteBinary == Write("binary")

-----------------------------------------------------------------------------
(* Reading.                                                                 *)

NoHeader ==
  [mode |-> "none", maxvar |-> 0, inputs |-> 0, latches |-> 0, outputs |-> 0,
   ands |-> 0, bad |-> 0, constraints |-> 0, justice |-> 0, fairness |-> 0,
   sizes |-> <<>>]

ReadRoutines ==
  <<"header", "inputs", "latches", "outputs", "bad", "constraints", "sizes",
    "justice", "fairness", "ands", "symbols", "check">>

(* The client takes a new structure for every file that it reads.           *)
OpenForReading ==
  /\ Calling("aiger_read")
  /\ IF file.there
     THEN lib' = aiger_init /\ run' = ReadRoutines
     ELSE lib' = [aiger_init EXCEPT !.error = "open"] /\ UNCHANGED run
  /\ rest' = file.tokens
  /\ rd' = NoHeader
  /\ origin' = IF result = "ok" THEN "copy" ELSE "file"
  /\ calls' = Tail(calls) /\ before' = lib
  /\ UNCHANGED <<search, file, result, written>>

(* A number at the start of ts, followed by one of the given characters.    *)
aiger_read_literal(ts, ends) ==
  /\ ts # <<>>
  /\ Head(ts).kind = "num"
  /\ Head(ts).next \in ends

NumbersAt(ts, ends) ==
  Len(ts) >= Len(ends) /\ \A i \in DOMAIN ends : aiger_read_literal(SubSeq(ts, i, i), ends[i])

Skip(n) == SubSeq(rest, n + 1, Len(rest))

Reading(routine) ==
  /\ Running(routine) /\ Continue
  /\ UNCHANGED <<search, file, result, written, origin>>

(* An error ends the call.                                                  *)
Fail(e) ==
  /\ lib' = [lib EXCEPT !.error = e]
  /\ run' = <<>>
  /\ UNCHANGED <<rest, rd>>

Store(l, n) ==
  /\ lib' = l
  /\ rest' = Skip(n)
  /\ UNCHANGED <<run, rd>>

SectionRead ==
  Finish /\ UNCHANGED <<lib, rest, rd>>

(* Five to nine numbers; the one that a newline follows is the last.        *)
HeaderLengths(ts) ==
  {k \in 5 .. 9 :
     NumbersAt(ts, [i \in 1 .. k |-> IF i = k THEN {"newline"} ELSE {"space"}])}

ReadHeader ==
  /\ Reading("header")
  /\ IF rest = <<>> THEN Fail("format")
     ELSE IF Head(rest).kind # "magic" \/ HeaderLengths(Tail(rest)) = {} THEN Fail("format")
     ELSE LET k == CHOOSE x \in HeaderLengths(Tail(rest)) : TRUE
              count(i) == IF i <= k THEN rest[i + 1].n ELSE 0
              h == [mode |-> Head(rest).mode, maxvar |-> count(1),
                    inputs |-> count(2), latches |-> count(3), outputs |-> count(4),
                    ands |-> count(5), bad |-> count(6), constraints |-> count(7),
                    justice |-> count(8), fairness |-> count(9), sizes |-> <<>>]
          IN IF h.mode = "binary" /\ h.inputs + h.latches + h.ands # h.maxvar
             THEN Fail("format")
             ELSE /\ lib' = [lib EXCEPT !.maxvar = h.maxvar, !.types = Fit(@, h.maxvar)]
                  /\ rd' = h
                  /\ rest' = Skip(k + 1)
                  /\ Finish

InRange(lit) == Var(lit) <= lib.maxvar

(* What is wrong with a literal that is to be defined.                      *)
DefinesNothing(lit) == lit = 0 \/ AG!aiger_sign(lit) = 1 \/ ~InRange(lit)

ReadInput ==
  /\ Reading("inputs")
  /\ IF Len(lib.inputs) = rd.inputs THEN SectionRead
     ELSE IF rd.mode = "binary"
     THEN Store(aiger_add_input(lib, 2 * (Len(lib.inputs) + 1), NoName), 0)
     ELSE IF ~aiger_read_literal(rest, {"newline"}) THEN Fail("literal")
     ELSE LET lit == Head(rest).n
          IN IF DefinesNothing(lit) THEN Fail("range")
             ELSE IF ~Undefined(lib, lit) THEN Fail("defined")
             ELSE Store(aiger_add_input(lib, lit, NoName), 1)

(* The latch is stored before its reset value is read, and the value is     *)
(* only asserted to be one that a latch may have.                           *)
LatchReset(l, lit, skip, end) ==
  LET ts == Skip(skip)
  IN IF end = "newline" THEN Store(l, skip)
     ELSE IF ~aiger_read_literal(ts, {"newline"})
     THEN lib' = [l EXCEPT !.error = "literal"] /\ run' = <<>> /\ UNCHANGED <<rest, rd>>
     ELSE IF ~CanReset(l, lit, Head(ts).n) THEN Abort /\ UNCHANGED <<lib, rest, rd>>
     ELSE Store(aiger_add_reset(l, lit, Head(ts).n), skip + 1)

ReadLatch ==
  /\ Reading("latches")
  /\ LET k == IF rd.mode = "ascii" THEN 1 ELSE 0   \* tokens before the next state
         lit == IF k = 1 THEN Head(rest).n ELSE 2 * (rd.inputs + Len(lib.latches) + 1)
         ts == Skip(k)
     IN IF Len(lib.latches) = rd.latches THEN SectionRead
        ELSE IF k = 1 /\ ~aiger_read_literal(rest, {"space"}) THEN Fail("literal")
        ELSE IF k = 1 /\ DefinesNothing(lit) THEN Fail("range")
        ELSE IF k = 1 /\ ~Undefined(lib, lit) THEN Fail("defined")
        ELSE IF ~aiger_read_literal(ts, {"space", "newline"}) THEN Fail("literal")
        ELSE IF ~InRange(Head(ts).n) THEN Fail("range")
        ELSE LatchReset(aiger_add_latch(lib, lit, Head(ts).n, NoName), lit, k + 1, Head(ts).next)

ReadLits(section) ==
  /\ Reading(section)
  /\ IF Len(lib[section]) = rd[section] THEN SectionRead
     ELSE IF ~aiger_read_literal(rest, {"newline"}) THEN Fail("literal")
     ELSE IF ~InRange(Head(rest).n) THEN Fail("range")
     ELSE Store(AddSymbol(lib, section, Head(rest).n, NoName), 1)

ReadOutput == ReadLits("outputs")
ReadBad == ReadLits("bad")
ReadConstraint == ReadLits("constraints")
ReadFairness == ReadLits("fairness")

ReadSizes ==
  /\ Reading("sizes")
  /\ IF ~NumbersAt(rest, [i \in 1 .. rd.justice |-> {"newline"}]) THEN Fail("literal")
     ELSE /\ rd' = [rd EXCEPT !.sizes = [i \in 1 .. rd.justice |-> rest[i].n]]
          /\ rest' = Skip(rd.justice)
          /\ Finish
          /\ UNCHANGED lib

(* The literals of a justice property are not compared with maxvar.         *)
ReadJustice ==
  /\ Reading("justice")
  /\ IF Len(lib.justice) = rd.justice THEN SectionRead
     ELSE LET n == rd.sizes[Len(lib.justice) + 1]
          IN IF ~NumbersAt(rest, [i \in 1 .. n |-> {"newline"}]) THEN Fail("literal")
             ELSE Store(aiger_add_justice(lib, [i \in 1 .. n |-> rest[i].n], NoName), n)

AsciiGate ==
  IF ~aiger_read_literal(rest, {"space"}) THEN Fail("literal")
  ELSE LET lhs == Head(rest).n
       IN IF DefinesNothing(lhs) THEN Fail("range")
          ELSE IF ~Undefined(lib, lhs) THEN Fail("defined")
          ELSE IF ~NumbersAt(rest, <<{"space"}, {"space"}>>) THEN Fail("literal")
          ELSE IF ~InRange(rest[2].n) THEN Fail("range")
          ELSE IF ~NumbersAt(rest, <<{"space"}, {"space"}, {"newline"}>>) THEN Fail("literal")
          ELSE IF ~InRange(rest[3].n) THEN Fail("range")
          ELSE Store(aiger_add_and(lib, lhs, rest[2].n, rest[3].n), 3)

(* Every gate is the next literal; its inputs are differences, the first to *)
(* the gate and the second to the first.                                    *)
BinaryGate ==
  LET lhs == aiger_max_input_or_latch(lib) + 2 * (Len(lib.ands) + 1)
      one == aiger_read_delta(rest)
      after == Skip(Len(one.bytes))
      two == aiger_read_delta(after)
  IN IF one.error # "none" THEN Fail(one.error)
     ELSE \E d \in DeltaValues(one.bytes) :
       IF d > lhs THEN Fail("delta")
       ELSE IF two.error # "none" THEN Fail(two.error)
       ELSE \E e \in DeltaValues(two.bytes) :
         IF e > lhs - d THEN Fail("delta")
         ELSE Store(aiger_add_and(lib, lhs, lhs - d, lhs - d - e),
                    Len(one.bytes) + Len(two.bytes))

ReadAnd ==
  /\ Reading("ands")
  /\ IF Len(lib.ands) = rd.ands THEN SectionRead
     ELSE IF rd.mode = "ascii" THEN AsciiGate ELSE BinaryGate

EndedText(t) == IF t.kind = "text" THEN t.ended ELSE FALSE

(* One entry of the symbol table; a comment section ends the file.          *)
ReadSymbol ==
  /\ Reading("symbols")
  /\ IF rest = <<>> THEN SectionRead
     ELSE CASE Head(rest).kind = "c" ->
            LET texts == Tail(rest)
                n == Min({Len(texts) + 1} \cup {i \in DOMAIN texts : ~EndedText(texts[i])}) - 1
            IN /\ lib' = [lib EXCEPT !.comments = @ \o [i \in 1 .. n |-> texts[i].s],
                                    !.num_comments = @ + n,
                                    !.error = IF n = Len(texts) THEN "none" ELSE "comment"]
               /\ run' = IF n = Len(texts) THEN Tail(run) ELSE <<>>
               /\ rest' = Skip(n + 1) /\ UNCHANGED rd
          [] Head(rest).kind = "sym" ->
            LET s == Head(rest).section
                ts == Tail(rest)
            IN IF ~aiger_read_literal(ts, {"space"}) THEN Fail("literal")
               ELSE IF Head(ts).n >= Len(lib[s]) THEN Fail("symbol")
               ELSE IF lib[s][Head(ts).n + 1].name # NoName THEN Fail("symbol")
               ELSE IF Len(ts) < 2 \/ ~EndedText(ts[2]) THEN Fail("symbol")
               ELSE Store([lib EXCEPT ![s][Head(ts).n + 1].name = ts[2].s], 3)
          [] OTHER -> Fail("symbol")

ReadSteps ==
  \/ ReadHeader \/ ReadInput \/ ReadLatch \/ ReadOutput \/ ReadBad
  \/ ReadConstraint \/ ReadSizes \/ ReadJustice \/ ReadFairness \/ ReadAnd
  \/ ReadSymbol

-----------------------------------------------------------------------------
Init ==
  /\ LibInit
  /\ \E job \in Jobs : calls = job.calls /\ file = [there |-> TRUE, tokens |-> job.file]
  /\ result = "none"
  /\ written = aiger_init
  /\ origin = "client"
  /\ rest = <<>>
  /\ rd = NoHeader

IOStep ==
  \/ CannotOpen \/ OpenForWriting \/ WriteAscii \/ WriteBinary
  \/ OpenForReading \/ ReadSteps

(* A call that builds or renumbers makes the graph the client's own.        *)
InMemoryStep ==
  /\ LibStep
  /\ origin' = IF run = <<>> THEN "client" ELSE origin
  /\ UNCHANGED <<file, result, written, rest, rd>>

Next == InMemoryStep \/ IOStep

(* The library is sequential: a call that is running goes on.               *)
Spec == Init /\ [][Next]_vars /\ WF_vars(Next)

-----------------------------------------------------------------------------
(* What the library promises.                                               *)

Idle == run = <<>>
Ready == Idle /\ lib.error = "none"

(* The part of the structure that bmc.cpp looks at.                         *)
LitsOf(symbols) == [k \in DOMAIN symbols |-> symbols[k].lit]
View(l) ==
  AG!Graph(l.maxvar, LitsOf(l.inputs),
           [k \in DOMAIN l.latches |-> [lit |-> l.latches[k].lit,
                                        next |-> l.latches[k].next,
                                        reset |-> l.latches[k].reset]],
           LitsOf(l.outputs), LitsOf(l.bad), l.ands)

(* Types of the variables, and of the structure without its tables.         *)
TypeOK ==
  /\ View(lib) \in AG!AigerType
  /\ lib.types \in [DOMAIN lib.types -> [kind : {"none", "input", "latch", "and"}, idx : Nat,
                                    mark : BOOLEAN, onstack : BOOLEAN]]
  /\ 0 .. lib.maxvar \subseteq DOMAIN lib.types
  /\ result \in {"none", "ok", "failed"}
  /\ origin \in {"client", "file", "copy"}
  /\ stack \in Seq(DOMAIN lib.types)

(* Whenever the client has control, what the library says of a literal is   *)
(* what its tables say: aiger_is_input, aiger_is_latch, aiger_is_and and    *)
(* aiger_get_symbol find the entry that defines the literal, and a variable *)
(* that has a kind is defined by the entry at its position.                 *)
LookupsRight ==
  Ready =>
    /\ \A k \in DOMAIN lib.inputs :
         /\ aiger_is_input(lib, lib.inputs[k].lit) = k
         /\ aiger_get_symbol(lib, lib.inputs[k].lit) = lib.inputs[k].name
         /\ aiger_lit2tag(lib, lib.inputs[k].lit) = 1
    /\ \A k \in DOMAIN lib.latches :
         /\ aiger_is_latch(lib, lib.latches[k].lit) = k
         /\ aiger_get_symbol(lib, lib.latches[k].lit) = lib.latches[k].name
         /\ aiger_lit2tag(lib, lib.latches[k].lit) = 2
    /\ \A k \in DOMAIN lib.ands : aiger_is_and(lib, lib.ands[k].lhs) = k
    /\ {v \in 1 .. lib.maxvar : lib.types[v].kind # "none"}
         = AG!Leaves(View(lib)) \cup AG!AndVars(View(lib))

Consistent(l) ==
  /\ \A x \in SymbolLits(l) \cup RightHandSides(l) : AG!LiteralDefined(View(l), x)
  /\ AG!NoCycles(View(l))

Checking == Running("check") \/ Running("cycles")

(* aiger_check ends with an error exactly when some literal is not defined  *)
(* or some gate is its own ancestor.                                        *)
CheckExact ==
  [][Checking /\ ~Checking' => (lib'.error = "none" <=> Consistent(lib))]_vars

(* While the cycle check searches, the gates on its stack that a 0 follows  *)
(* are the ones marked as being on the stack, each reads the next, and no   *)
(* gate is there twice: meeting one of them again is a cycle.               *)
OpenAt == {i \in DOMAIN stack : i < Len(stack) /\ stack[i + 1] = 0}

OnStackIsPath ==
  Running("cycles") =>
    /\ {stack[i] : i \in OpenAt} = {v \in 1 .. lib.maxvar : Type(v).onstack}
    /\ \A i, j \in OpenAt :
         i < j /\ (\A k \in OpenAt : k <= i \/ j <= k)
           => stack[j] \in ToSet(Children(stack[i]))
    /\ \A i, j \in OpenAt : stack[i] = stack[j] => i = j

(* While aiger_reencode numbers the gates, a gate that has a number has a   *)
(* larger one than its inputs, and no two variables share a number.         *)
ChildrenFirst ==
  Running("rewrite") =>
    \A k \in DOMAIN lib.ands :
      LET a == lib.ands[k]
      IN code[a.lhs] # 0 =>
           /\ \A x \in {a.rhs0, a.rhs1} :
                code[x] < code[a.lhs] /\ (x > 1 => code[x] # 0)
           /\ \A x \in DOMAIN code : code[x] = code[a.lhs] => x = a.lhs

(* The value of every literal that the graph stores, for given values of    *)
(* the inputs and latches.                                                  *)
Observed(l, leaf) ==
  LET value[v \in 0 .. l.maxvar] ==
        CASE l.types[v].kind = "input" -> leaf[aiger_is_input(l, 2 * v)]
          [] l.types[v].kind = "latch" -> leaf[Len(l.inputs) + aiger_is_latch(l, 2 * v)]
          [] l.types[v].kind = "and" ->
               /\ AG!Value(value, l.ands[aiger_is_and(l, 2 * v)].rhs0)
               /\ AG!Value(value, l.ands[aiger_is_and(l, 2 * v)].rhs1)
          [] OTHER -> FALSE
  IN [p \in ToSet(Places(l)) |-> AG!Value(value, LitAt(l, p))]

Meaning(l) ==
  [leaf \in [1 .. Len(l.inputs) + Len(l.latches) -> BOOLEAN] |-> Observed(l, leaf)]

Names(l) ==
  [s \in Sections |-> [k \in DOMAIN l[s] |-> l[s][k].name]]

(* Gates in the cone of a literal that the graph stores.                    *)
Cone(l) ==
  LET roots == {Var(LitAt(l, p)) : p \in ToSet(Places(l))}
      reach[n \in 0 .. Len(l.ands)] ==
        IF n = 0 THEN roots
        ELSE reach[n - 1] \cup
               UNION {{Var(a.rhs0), Var(a.rhs1)} :
                        a \in {b \in ToSet(l.ands) : Var(b.lhs) \in reach[n - 1]}}
  IN {k \in DOMAIN l.ands : Var(l.ands[k].lhs) \in reach[Len(l.ands)]}

(* Renumbering keeps every function of the graph and every name, and of the *)
(* gates exactly those in a cone.                                           *)
ReencodePreserves ==
  [][Running("rewrite") /\ ~(Running("rewrite"))' =>
       /\ Meaning(lib') = Meaning(before)
       /\ Names(lib') = Names(before)
       /\ Len(lib'.ands) = Cardinality(Cone(before))]_vars

(* What a file holds of a graph.                                            *)
Content(l) == [l EXCEPT !.types = <<>>, !.num_comments = 0]

(* A file that the library reported as written is read back without an      *)
(* error, as the graph that was written.                                    *)
RoundTrip ==
  Idle /\ origin = "copy" => Content(lib) = Content(written)

(* Whatever the file, what the reader leaves behind is a graph whose        *)
(* literals are in range, which is what bmc.cpp is proved to work on, and   *)
(* one that is returned without an error passes aiger_check.                *)
HandsOverGraph ==
  Idle /\ origin # "client" =>
    /\ AG!LiteralsInRange(View(lib))
    /\ lib.error = "none" => AG!aiger_check(View(lib)) /\ Consistent(lib)

(* A call comes back to the client: it neither runs forever nor ends in a   *)
(* failed assertion.                                                        *)
CallsReturn == [](~Idle => <>Idle)
=============================================================================
