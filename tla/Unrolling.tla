----------------------------- MODULE Unrolling -----------------------------
(***************************************************************************)
(* The clause set that bounded model checking is meant to build: a graph   *)
(* unrolled over the time steps 0 .. n, written down directly rather than  *)
(* by renaming the copy before.  Bmc is compared with it.                  *)
(*                                                                         *)
(* Time step f owns the solver variables Base(g, f) .. Base(g, f) + maxvar *)
(* and, after them, one activation variable per bad literal.               *)
(***************************************************************************)
EXTENDS AigToCnf

Stride(g) == g.maxvar + 1 + Len(aigtocnf(g).bads)
Offset(g, f) == f * Stride(g)
Base(g, f) == 1 + Offset(g, f)
FirstAct(g, f) == Base(g, f) + g.maxvar + 1

(* A step-0 literal moved to step f.                                        *)
Shift(g, x, f) == IF x > 0 THEN x + Offset(g, f) ELSE x - Offset(g, f)
ShiftSeq(g, s, f) == [k \in DOMAIN s |-> Shift(g, s[k], f)]
ShiftClauses(g, cs, f) == {{Shift(g, x, f) : x \in c} : c \in cs}

(* One activation variable per bad literal, taken from first upwards.       *)
Act(first, k) == first + k - 1
ActClauses(bs, first) == {{bs[k], -Act(first, k)} : k \in DOMAIN bs}
ActLits(bs, first) == {Act(first, k) : k \in DOMAIN bs}

(* x = y, for the new name of a latch and its next-state literal in the     *)
(* step before.                                                             *)
LinkClauses(news, olds) ==
  UNION {{{-news[k], olds[k]}, {news[k], -olds[k]}} : k \in DOMAIN news}

InitClauses(g) == {{aigtocnf(g).inits[k]} : k \in DOMAIN aigtocnf(g).inits}
GatesAt(g, f) == ShiftClauses(g, aigtocnf(g).ands, f)
LinksAt(g, f) == LinkClauses(ShiftSeq(g, aigtocnf(g).in_latch, f),
                             ShiftSeq(g, aigtocnf(g).out_latch, f - 1))
ActsAt(g, f) == ActClauses(ShiftSeq(g, aigtocnf(g).bads, f), FirstAct(g, f))

(* Gates up to step n, links up to step m, guarded bad literals up to k.    *)
Unrolled(g, n, m, k) ==
  InitClauses(g) \cup (UNION {GatesAt(g, f) : f \in 0 .. n})
                 \cup (UNION {LinksAt(g, f) : f \in 1 .. m})
                 \cup (UNION {ActsAt(g, f) : f \in 0 .. k})

-----------------------------------------------------------------------------
(* The fragment of the format the translation covers: no use of the         *)
(* constant, every latch reset to 0 or 1, one bad literal and that one      *)
(* without a sign.                                                          *)
Supported(g) ==
  /\ \A k \in DOMAIN g.latches :
       g.latches[k].next > 1 /\ g.latches[k].reset \in {0, 1}
  /\ \A k \in DOMAIN g.ands : g.ands[k].rhs0 > 1 /\ g.ands[k].rhs1 > 1
  /\ Len(BadLiterals(g)) = 1
  /\ BadLiterals(g)[1] > 1
  /\ aiger_sign(BadLiterals(g)[1]) = 0
=============================================================================
