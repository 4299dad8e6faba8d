------------------------------ MODULE MCAiger ------------------------------
(***************************************************************************)
(* Instances of AigerIO for TLC: clients that build a small graph, check,  *)
(* renumber, write it and read it back, and files that are broken in one   *)
(* place.                                                                  *)
(***************************************************************************)
EXTENDS AigerIO

Input(l, n) == [call |-> "aiger_add_input", lit |-> l, name |-> n]
Latch(l, x, n) == [call |-> "aiger_add_latch", lit |-> l, next |-> x, name |-> n]
ResetTo(l, r) == [call |-> "aiger_add_reset", lit |-> l, reset |-> r]
Lit(s, l, n) == [call |-> "aiger_add_literal", section |-> s, lit |-> l, name |-> n]
Justice(ls, n) == [call |-> "aiger_add_justice", lits |-> ls, name |-> n]
Gate(l, a, b) == [call |-> "aiger_add_and", lhs |-> l, rhs0 |-> a, rhs1 |-> b]
Comment(c) == [call |-> "aiger_add_comment", line |-> c]
Strip == [call |-> "aiger_strip_symbols_and_comments"]
DoCheck == [call |-> "aiger_check"]
DoReencode == [call |-> "aiger_reencode"]
DoWrite(m) == [call |-> "aiger_write", mode |-> m]
DoRead == [call |-> "aiger_read"]

MCTexts == {"", "b", "c", "c1", "c2", "f", "j", "l", "o", "x"}

Job(cs) == [calls |-> cs, file |-> <<>>]

-----------------------------------------------------------------------------
(* Two gates over a latch and an input, which come in this order, and an    *)
(* output; the gates may read each other, themselves, or literal 10, which  *)
(* nothing defines.                                                         *)
TwoGates(a, b, c, d, out) ==
  <<Latch(2, out, "l"), ResetTo(2, 2), Input(4, ""), Gate(6, a, b), Gate(8, c, d),
    Lit("outputs", out, "o")>>

GateJobs ==
  {Job(TwoGates(a, b, c, d, out) \o <<DoCheck, DoWrite("binary"), DoRead>>) :
     a \in {1, 3, 8, 9}, b \in {4, 9}, c \in {2, 6, 7}, d \in {5, 7, 8, 10},
     out \in {7, 8}}

(* Three gates in the wrong order, all sections, names and comments, and a  *)
(* gate in no cone.                                                         *)
AllSections ==
  <<Gate(10, 9, 13), Gate(12, 4, 6), Gate(8, 13, 6), Input(6, "x"), Input(4, ""),
    Latch(2, 11, ""), ResetTo(2, 1), Lit("outputs", 3, ""), Lit("bad", 9, "b"),
    Lit("constraints", 12, ""), Justice(<<2, 8>>, ""), Justice(<<>>, "j"),
    Lit("fairness", 0, "f"), Comment("c1"), Comment("c2")>>

SectionJobs ==
  {Job(AllSections \o cs) :
     cs \in {<<DoWrite("ascii"), DoRead, DoWrite("binary"), DoRead>>,
             <<DoCheck, DoReencode, DoWrite("ascii"), DoRead, DoCheck>>,
             <<DoReencode, DoReencode, Strip, DoWrite("binary"), DoRead, DoWrite("ascii"), DoRead>>}}

(* Many inputs, so that a difference takes two bytes.                       *)
WideJobs ==
  {Job([k \in 1 .. 70 |-> Input(2 * k, "")]
         \o <<Gate(142, 4, 3), Gate(144, 143, 9), Lit("outputs", 145, "")>>
         \o <<DoWrite("binary"), DoRead>>)}

-----------------------------------------------------------------------------
(* Files.  A good one in either format, and every file that differs from it *)
(* in one number or stops early.                                            *)
GoodAscii ==
  <<Magic("ascii")>> \o Line(<<4, 1, 1, 1, 2, 1, 0, 1, 1>>) \o Line(<<2>>)
    \o Line(<<4, 6, 1>>) \o Line(<<7>>) \o Line(<<4>>) \o Line(<<2>>)
    \o Line(<<5>>) \o Line(<<8>>) \o Line(<<3>>)
    \o Line(<<8, 5, 2>>) \o Line(<<6, 8, 3>>)
    \o <<SymbolKey("bad"), Num(0, "space"), Text("b", TRUE), CommentKey, Text("c", TRUE)>>

GoodBinary ==
  <<Magic("binary")>> \o Line(<<4, 1, 1, 1, 2, 1>>)
    \o Line(<<6, 4>>) \o Line(<<7>>) \o Line(<<4>>)
    \o <<Byte(1), Byte(3), Byte(2), Byte(3)>>
    \o <<SymbolKey("latches"), Num(0, "space"), Text("l", TRUE)>>

Cut(ts) == {SubSeq(ts, 1, n) : n \in 0 .. Len(ts)}

Numbers(ts) == {i \in DOMAIN ts : ts[i].kind = "num"}
Changed(ts, resetAt, ns) ==
  {[ts EXCEPT ![i].n = n] : i \in Numbers(ts) \ {resetAt}, n \in ns}
    \cup {[ts EXCEPT ![i].next = c] : i \in Numbers(ts), c \in {"space", "newline", "other"}}

Longer(ts, i, bs) == SubSeq(ts, 1, i - 1) \o bs \o SubSeq(ts, i + 1, Len(ts))
Bytes(bs) == [i \in DOMAIN bs |-> Byte(bs[i])]
OtherDeltas ==
  {Longer(GoodBinary, i, Bytes(bs)) :
     i \in {14, 15, 16, 17},
     bs \in {<<0>>, <<40>>, <<129, 0>>, <<129, 1>>, <<130, 128, 128, 128, 0>>,
             <<129, 128, 128, 128, 1>>, <<130, 128, 128, 128, 128, 1>>,
             <<130, 128, 128, 128, 128, 8>>, <<130, 128, 128, 128, 128, 128, 1>>}}

FileJobs ==
  {[calls |-> <<DoRead, DoWrite("ascii"), DoRead>>, file |-> f] :
     f \in Cut(GoodAscii) \cup Cut(GoodBinary) \cup Changed(GoodAscii, 14, {0, 3, 5, 6, 12})
          \cup Changed(GoodBinary, 9, {0, 1, 2, 5}) \cup OtherDeltas}

LibraryJobs == GateJobs \cup SectionJobs \cup WideJobs \cup FileJobs

-----------------------------------------------------------------------------
(* After renumbering, a gate is added at a variable that was dropped.       *)
MarkJobs ==
  {Job(<<Input(4, ""), Gate(6, 4, 2), Input(2, ""), Gate(8, 4, 3), Lit("outputs", 8, ""),
         DoCheck, DoReencode, Gate(8, 9, 2), Lit("outputs", 8, ""), DoCheck>>)}
=============================================================================
