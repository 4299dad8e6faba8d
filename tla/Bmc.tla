-------------------------------- MODULE Bmc --------------------------------
(***************************************************************************)
(* bmc.cpp: main and the bounded model checking loop.  The file is read,   *)
(* translated to clauses, and unrolled one time step at a time into one    *)
(* incremental solver; the graph's literals are renumbered at every step   *)
(* through the global map cur2nxt, and the bad literals of a step are      *)
(* guarded by activation variables that are assumed only at that step.     *)
(*                                                                         *)
(* The solver is the operator Solve(cs, as): whether the clauses cs have a *)
(* model in which every literal of as is true.                             *)
(***************************************************************************)
EXTENDS Unrolling, FiniteSets

CONSTANTS
  Files,        \* graphs a file may hold
  FileFaults,   \* whether reading may fail half way
  Kmax,         \* -k: the last time step that is tried
  Solve(_, _)   \* the answer of Solver::solve

ASSUME FilesAssumption == \A f \in Files : f \in AigerType /\ LiteralsInRange(f)
ASSUME FaultsAssumption == FileFaults \in BOOLEAN
ASSUME KmaxAssumption == Kmax \in Int

VARIABLES
  pc,           \* the operation the program is about to perform
  file,         \* what the file holds
  aig, error,   \* the structure the reader filled in, and whether it failed
  inputs, inits, in_latch, out_latch, ands, bads,
  start_idx, vars_nums, cur_idx, cur2nxt,
  nVars,        \* variables the solver knows; it numbers them from 0
  clauses,      \* clauses handed to the solver so far
  v_act,        \* assumptions of the next call of solve
  i,            \* time step
  input_at_time_t,
  result        \* "none" until the program prints its answer

graphVars == <<file, aig, error, inits, vars_nums>>
indexVars == <<start_idx, cur_idx, cur2nxt, nVars>>
circuitVars == <<inputs, in_latch, out_latch, ands, bads, input_at_time_t>>
vars == <<pc, graphVars, indexVars, circuitVars, clauses, v_act, i, result>>

-----------------------------------------------------------------------------
(* update_vars: the literal's variable is looked up in cur2nxt, which        *)
(* answers 0 for a key it does not have; the sign is kept.                   *)
Lookup(x) == IF LitVar(x) \in DOMAIN cur2nxt THEN cur2nxt[LitVar(x)] ELSE 0
Renamed(x) == IF x > 0 THEN Lookup(x) ELSE -Lookup(x)

RenamedSeq(s) == [k \in DOMAIN s |-> Renamed(s[k])]
RenamedClauses(cs) == {{Renamed(x) : x \in c} : c \in cs}

(* while (S->nVars() <= cur_idx) S->newVar();                                *)
GrownTo(n, idx) == IF n <= idx THEN idx + 1 ELSE n

-----------------------------------------------------------------------------
Init ==
  /\ pc = "read"
  /\ file \in Files
  /\ aig = EmptyAiger
  /\ error = FALSE
  /\ inputs = <<>> /\ inits = <<>> /\ in_latch = <<>> /\ out_latch = <<>>
  /\ ands = {} /\ bads = <<>> /\ input_at_time_t = <<>>
  /\ start_idx = 1 /\ vars_nums = 0 /\ cur_idx = 0 /\ cur2nxt = <<>>
  /\ nVars = 0
  /\ clauses = {}
  /\ v_act = {}
  /\ i = 0
  /\ result = "none"

(* aiger_open_and_read_from_file succeeds, fails its final check on a graph  *)
(* it has read completely, or stops half way.                                *)
ReadWhole ==
  /\ aig' = file
  /\ error' = ~aiger_check(file)

ReadPart ==
  /\ FileFaults
  /\ aig' \in CutShort(file)
  /\ error' = TRUE

(* main only prints the error and goes on.                                   *)
Read ==
  /\ pc = "read"
  /\ ReadWhole \/ ReadPart
  /\ pc' = "translate"
  /\ UNCHANGED <<file, inits, vars_nums, indexVars, circuitVars,
                 clauses, v_act, i, result>>

Translate ==
  /\ pc = "translate"
  /\ LET cnf == aigtocnf(aig) IN
       /\ inputs' = cnf.inputs
       /\ inits' = cnf.inits
       /\ in_latch' = cnf.in_latch
       /\ out_latch' = cnf.out_latch
       /\ ands' = cnf.ands
       /\ bads' = cnf.bads
  /\ start_idx' = 1
  /\ vars_nums' = aig.maxvar
  /\ cur_idx' = aig.maxvar + 1 + 1
  /\ pc' = "encode"
  /\ UNCHANGED <<file, aig, error, cur2nxt, nVars, clauses, v_act, i,
                 input_at_time_t, result>>

(* Step 0: reset values, gates, and the guarded bad literals.                *)
Encode ==
  /\ pc = "encode"
  /\ clauses' = clauses \cup {{inits[k]} : k \in DOMAIN inits}
                        \cup ands
                        \cup ActClauses(bads, cur_idx)
  /\ v_act' = ActLits(bads, cur_idx)
  /\ nVars' = GrownTo(nVars, cur_idx) + Len(bads)
  /\ cur_idx' = cur_idx + Len(bads)
  /\ pc' = "check"
  /\ UNCHANGED <<graphVars, circuitVars, start_idx, cur2nxt, i, result>>

(* S->solve(v_act) at step i, and what the loop does with the answer.        *)
Found ==
  /\ pc = "check"
  /\ Solve(clauses, v_act)
  /\ v_act' = {}
  /\ result' = "found"
  /\ pc' = "done"
  /\ UNCHANGED <<graphVars, indexVars, circuitVars, clauses, i>>

(* Mutant: the assumptions are not cleared after the call.                   *)
NextStep_ActsKept ==
  /\ pc = "check"
  /\ ~Solve(clauses, v_act)
  /\ i < Kmax
  /\ i' = i + 1
  /\ pc' = "renumber"
  /\ UNCHANGED <<graphVars, indexVars, circuitVars, clauses, v_act, result>>

NextStep ==
  /\ pc = "check"
  /\ ~Solve(clauses, v_act)
  /\ i < Kmax
  /\ v_act' = {}
  /\ i' = i + 1
  /\ pc' = "renumber"
  /\ UNCHANGED <<graphVars, indexVars, circuitVars, clauses, result>>

(* Mutant: the last step ends without printing the answer.                   *)
CantFind_Silent ==
  /\ pc = "check"
  /\ ~Solve(clauses, v_act)
  /\ i >= Kmax
  /\ v_act' = {}
  /\ pc' = "done"
  /\ UNCHANGED <<graphVars, indexVars, circuitVars, clauses, i, result>>

CantFind ==
  /\ pc = "check"
  /\ ~Solve(clauses, v_act)
  /\ i >= Kmax
  /\ v_act' = {}
  /\ result' = "not_found"
  /\ pc' = "done"
  /\ UNCHANGED <<graphVars, indexVars, circuitVars, clauses, i>>

(* Mutant: i < end_idx instead of i <= end_idx, the last variable is missed. *)
NewNumbers_LastMissed ==
  [v \in start_idx .. start_idx + vars_nums - 1 |-> cur_idx + (v - start_idx)]

(* Mutant: the new step is numbered right after the old one, over its        *)
(* activation variables.                                                     *)
NewNumbers_ActsReused ==
  [v \in start_idx .. start_idx + vars_nums |-> v + vars_nums + 1]

(* The loop of update_cur2nxt.                                               *)
NewNumbers ==
  [v \in start_idx .. start_idx + vars_nums |-> cur_idx + (v - start_idx)]

(* update_cur2nxt, and the solver variables for the new step.                *)
Renumber ==
  /\ pc = "renumber"
  /\ cur2nxt' = NewNumbers
  /\ cur_idx' = cur_idx + vars_nums + 1
  /\ start_idx' = cur_idx
  /\ nVars' = GrownTo(nVars, cur_idx')
  /\ pc' = "link"
  /\ UNCHANGED <<graphVars, circuitVars, clauses, v_act, i, result>>

(* Mutant: the next states are renamed before they are linked.               *)
LinkLatches_RenamedFirst ==
  /\ pc = "link"
  /\ in_latch' = RenamedSeq(in_latch)
  /\ out_latch' = RenamedSeq(out_latch)
  /\ clauses' = clauses \cup LinkClauses(in_latch', out_latch')
  /\ pc' = "gates"
  /\ UNCHANGED <<graphVars, indexVars, inputs, ands, bads, input_at_time_t,
                 v_act, i, result>>

(* Each latch of the new step equals its next state of the step before.      *)
LinkLatches ==
  /\ pc = "link"
  /\ LET new_in_latch == RenamedSeq(in_latch) IN
       /\ clauses' = clauses \cup LinkClauses(new_in_latch, out_latch)
       /\ in_latch' = new_in_latch
  /\ out_latch' = RenamedSeq(out_latch)
  /\ pc' = "gates"
  /\ UNCHANGED <<graphVars, indexVars, inputs, ands, bads, input_at_time_t,
                 v_act, i, result>>

CopyGates ==
  /\ pc = "gates"
  /\ ands' = RenamedClauses(ands)
  /\ clauses' = clauses \cup ands'
  /\ pc' = "bads"
  /\ UNCHANGED <<graphVars, indexVars, inputs, in_latch, out_latch, bads,
                 input_at_time_t, v_act, i, result>>

(* Mutant: the inputs are kept after they have been renamed.                 *)
CopyBads_InputsLate ==
  /\ pc = "bads"
  /\ bads' = RenamedSeq(bads)
  /\ clauses' = clauses \cup ActClauses(bads', cur_idx)
  /\ v_act' = ActLits(bads', cur_idx)
  /\ cur_idx' = cur_idx + Len(bads)
  /\ nVars' = nVars + Len(bads)
  /\ inputs' = RenamedSeq(inputs)
  /\ input_at_time_t' = Append(input_at_time_t, inputs')
  /\ pc' = "check"
  /\ UNCHANGED <<graphVars, start_idx, cur2nxt, in_latch, out_latch, ands,
                 i, result>>

CopyBads ==
  /\ pc = "bads"
  /\ bads' = RenamedSeq(bads)
  /\ clauses' = clauses \cup ActClauses(bads', cur_idx)
  /\ v_act' = ActLits(bads', cur_idx)
  /\ cur_idx' = cur_idx + Len(bads)
  /\ nVars' = nVars + Len(bads)
  /\ input_at_time_t' = Append(input_at_time_t, inputs)
  /\ inputs' = RenamedSeq(inputs)
  /\ pc' = "check"
  /\ UNCHANGED <<graphVars, start_idx, cur2nxt, in_latch, out_latch, ands,
                 i, result>>

Next ==
  \/ Read \/ Translate \/ Encode
  \/ Found \/ NextStep \/ CantFind
  \/ Renumber \/ LinkLatches \/ CopyGates \/ CopyBads

(* The program is one thread: it takes its next step as long as it has one.  *)
Spec == Init /\ [][Next]_vars /\ WF_vars(Next)

-----------------------------------------------------------------------------
PCs == {"read", "translate", "encode", "check", "renumber", "link", "gates",
        "bads", "done"}
InFrame == {"check", "renumber", "link", "gates", "bads", "done"}

(* Type invariant.                                                           *)
TypeOK ==
  /\ pc \in PCs
  /\ file \in Files
  /\ aig \in AigerType /\ LiteralsInRange(aig)
  /\ error \in BOOLEAN
  /\ inputs \in Seq(Int) /\ inits \in Seq(Int)
  /\ in_latch \in Seq(Int) /\ out_latch \in Seq(Int)
  /\ DOMAIN out_latch = DOMAIN in_latch
  /\ bads \in Seq(Int)
  /\ ands \in SUBSET (SUBSET Int)
  /\ start_idx \in Nat /\ vars_nums \in Nat /\ cur_idx \in Nat /\ nVars \in Nat
  /\ \A v \in DOMAIN cur2nxt : cur2nxt[v] \in Nat
  /\ clauses \in SUBSET (SUBSET Int)
  /\ v_act \in SUBSET Nat
  /\ i \in Nat
  /\ result \in {"none", "found", "not_found"}

-----------------------------------------------------------------------------
(* While step i is being built the parts not yet renumbered are still those *)
(* of step i - 1.                                                           *)
StepOf(pending) == IF pc \in pending THEN i - 1 ELSE i

Numbered == StepOf({"renumber"})
Linked == StepOf({"renumber", "link"})
Gated == StepOf({"renumber", "link", "gates"})
Guarded == StepOf({"renumber", "link", "gates", "bads"})

(* The clause database is exactly the unrolling: the reset values of step   *)
(* 0, a copy of the gates for every step, the links between neighbouring    *)
(* steps and the guarded bad literals of every step, each copy over         *)
(* variables of its own.                                                    *)
ClausesLaidOut ==
  pc \in InFrame => clauses = Unrolled(aig, Gated, Linked, Guarded)

(* Only the activation variables of the step being checked are assumed, and *)
(* none is left over when the solver has answered.                          *)
OnlyThisStepAssumed ==
  v_act = IF pc = "check" THEN ActLits(aigtocnf(aig).bads, FirstAct(aig, i)) ELSE {}

(* Every literal handed to the solver is over a variable the solver knows,  *)
(* and none is over variable 0, which a missing key of cur2nxt would give.  *)
VarsAllocated ==
  /\ \A c \in clauses : \A x \in c : LitVar(x) \in 1 .. nVars - 1
  /\ v_act \subseteq 1 .. nVars - 1

(* The inputs kept for the trace are those of the steps before the present  *)
(* one, in order.                                                           *)
InputHistory ==
  pc \in InFrame =>
    input_at_time_t =
      [t \in 1 .. Guarded |-> ShiftSeq(aig, aigtocnf(aig).inputs, t - 1)]

(* A new time step is numbered with variables no clause mentions yet.       *)
FreshNumbering ==
  [][cur2nxt' # cur2nxt =>
       \A c \in clauses : \A x \in c : \A v \in DOMAIN cur2nxt' :
         LitVar(x) # cur2nxt'[v]]_vars

(* The program prints an answer.                                            *)
Terminates == <>(result # "none")

-----------------------------------------------------------------------------
(* The answer for the graph in memory: "found" at the first step at which   *)
(* the bad literal can be true, "not_found" when there is no such step up   *)
(* to the bound.                                                            *)
AnswerExact ==
  Supported(aig) =>
    /\ result = "found" => ReachesBad(aig, i)
    /\ result # "none" => \A n \in 0 .. i - 1 : ~ReachesBad(aig, n)
    /\ result = "not_found" => i >= Kmax /\ ~ReachesBad(aig, i)

(* What the format says of any graph, supported or not.                     *)

(* "found" means that a run of the graph ends, at that step, with the bad   *)
(* literals true: the constant 0 is FALSE in the format.                    *)
FoundIsReachable == result = "found" => ReachesBad(aig, i)

(* "can't find" means that no run up to the bound does, whatever the        *)
(* initial value of a latch whose reset is undefined and whatever the sign  *)
(* of the bad literal.                                                      *)
NotFoundIsUnreachable ==
  result = "not_found" => \A n \in 0 .. i : ~ReachesBad(aig, n)

(* The structure is not used after the reader has failed, so no answer is   *)
(* given for it.                                                            *)
NoAnswerAfterError == error => result = "none"

(* On supported files that are read without an error the program implements *)
(* the abstract search; that an answer comes is Terminates.                  *)
Promise ==
  INSTANCE Reachability WITH
    Graphs <- {f \in Files : aiger_check(f)},
    graph <- file, depth <- i, verdict <- result

Handled == Supported(file) /\ aiger_check(file) /\ ~error

ImplementsPromise ==
  /\ Handled => Promise!Init
  /\ [][Handled' => [Promise!Next]_(Promise!vars)]_vars

-----------------------------------------------------------------------------
(* What the theorems about answers assume of the solver: that it decides    *)
(* whether the clauses have a model that makes every assumption true.       *)
SolverCorrect ==
  \A cs \in SUBSET (SUBSET Int), as \in SUBSET Nat :
    Solve(cs, as) <=> Satisfiable(cs, as)
=============================================================================
