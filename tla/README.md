# Verification of sat-bmc

The program reads an and-inverter graph in the AIGER format, unrolls it one
time step at a time into one incremental SAT solver, and prints the first step
at which the bad literals can be true, or that there is none up to `-k`.  This
directory holds TLA+ models of it, the TLC instances that check them and
machine-checked proofs about them.

## Inventory

| Component | State | Operations | How it interacts |
|---|---|---|---|
| BMC loop, `bmc.cpp` | globals `cur_idx`, `start_idx`, `vars_nums`, `cur2nxt`; the vectors `inputs`, `inits`, `in_latch`, `out_latch`, `ands`, `bads`; `v_act`, `input_at_time_t` | `main`, `bmc`, `update_cur2nxt`, `update_vars` | calls the reader once, the translation once, then `addClause`, `newVar` and `solve` of one solver for the whole run |
| Translation, `aigtocnf/aigtocnf.cpp` | none | `aigtocnf`, `equal_and2cnf`, `equal2cnf` | reads the graph, fills the vectors of `bmc` |
| AIGER reader and check, `aiger/aiger.[ch]` | the graph (`maxvar`, inputs, latches, outputs, bad, ANDs), a type table per variable with a mark, an error string | `aiger_read_*`, `aiger_check` | the reader calls the builder and ends with `aiger_check`; `main` uses the graph whether or not there was an error |
| AIGER builder, re-encoding, writers, same file | the same structure | `aiger_add_*`, `aiger_reencode`, look-ups, `aiger_write_*` | the binary writer renumbers first; `bmc` reaches only the builder, through the reader |
| CDCL solver, `minisat/core` | assignment, trail, levels, reasons, watch lists, clause databases, `ok`, `conflict`, `model`, variable heap, released variables | `newVar`, `addClause_`, `propagate`, `analyze`, `search`, `simplify`, `reduceDB`, `solve_`, garbage collection | called by `bmc` at decision level 0 only; keeps learnt clauses between calls |
| Simplifying solver, `minisat/simp` | occurrence lists, elimination heap, eliminated clauses | subsumption, variable elimination, model extension | wraps the core solver; reached through `sat-switch` only |
| Containers, `minisat/mtl` | heap, region allocator, queue, maps | | used by both solvers |
| Solver interface, `sat-switch` | a solver behind an abstract class | `newVar`, `addClause`, `solve`, `modelValue` | not used by `bmc`, which takes Minisat's `Solver` itself |
| RelaxedNewTech, `relaxedNewTech` | a clause learning solver with a local search inside (`ccnr.cc`): counts, scores and weights of the clauses, a solution for each search, the model handed over | `ipasir_add`, `ipasir_assume`, `ipasir_solve`, `ipasir_val` | the two searches take turns and share assignments; linked into `bmc`, not called |

Everything runs in one thread.  What is hard is not interleaving but long
sequences of steps that share state: the same vectors are renumbered in place
at every time step through one global map, the solver keeps the clauses and the
activation variables of every earlier step, and a mistake in one step shows
many steps later as a wrong answer and nothing else.  The other hard part is
what reaches the loop at all: broken files, constants, undefined resets and
signs.

What makes each component correct:

* BMC loop: the clauses in the solver are the unrolling of the graph, and the
  answer is the one the graph's runs give.
* Translation: the clauses have exactly the valuations of the graph as models.
* Reader: a graph that is returned without an error is well formed; after an
  error it is not used.
* Builder, re-encoding, writers: the look-ups agree with the lists, the cycle
  check says yes exactly when there is a cycle, renumbering keeps what every
  output computes, and what was written is what is read.
* CDCL solver: whatever was learnt, removed or restarted in between, an answer
  is right for the clauses and assumptions given so far, and every call ends.
  Below that: every clause can be found from the two literals it watches, no
  unit clause is missed, learnt clauses follow from the clauses given, reasons
  are not removed while they are needed.
* Simplifying solver: elimination keeps satisfiability and models extend to
  the variables that were eliminated; the occurrence lists, counts, queue and
  heap agree with the clauses.
* RelaxedNewTech: what the local search counts is what a recount would give, a
  solution it claims satisfies every clause the user gave, and the values read
  after a call are those of that call's model.

`PROJECT.json` lists under `hazards` what is hard to test in this code, at the
line where it bites, with the properties that cover it or the reason why none
does yet.

## The models

Each arrow goes from the module that describes less to the one that it is
compared with or written in terms of:

    Reachability   <-- Bmc --> Unrolling --> AigToCnf --> Aiger
                       AigerIO --> AigerLib --------------> Aiger
    IncrementalSat <-- Cdcl ----------------------------> SatLits
    IncrementalSat <-- Elimination ---------------------> SatLits
    IncrementalSat <-- RelaxedSolver --> LocalSearch ---> SatLits

`Bmc` uses the solver as an operator `Solve(cs, as)`; `Cdcl` is that solver.
The three solvers implement one abstract specification, `IncrementalSat`, whose
`Reply` answers what `Solve` is assumed to.  `AigerIO` is the reader that `Bmc`
takes as a choice among whole and cut short graphs.

### Graph and translation

`Aiger` is the structure that the reader fills: `AigerType` has the fields of
`struct aiger` that matter to `bmc`, `aiger_check` is what the function of that
name decides (next states, gates, outputs and bad literals defined, no cycle
through gates), and `CutShort(g)` the structures a reader leaves behind that
stops half way.  The module also gives a graph its meaning (`ReachesBad(g, n)`:
a run of `n` steps ends with the bad literals true), which is the reference
that answers are compared with.  `AigToCnf` is `aigtocnf.cpp` as a function
from graphs to the six vectors that `bmc` works on; it does to constants,
undefined resets and signs what the code does.  Invariant constraints, justice
and fairness are not in `AigerType`: the program ignores them (`bmc.cpp:260` says
that constraints are still to be done, and `aigtocnf.cpp:104` reads the bad
literals or the outputs only).  So whatever is said about exact answers
(`AnswerExact`, `ImplementsPromise` and their theorems) holds for files without
those sections; a file with constraints is answered as if it had none.
`AigerLib` has the sections and checks them.  `Unrolling` writes down what
the clause database should hold at step `n`, directly and not by renaming the
step before, so that the renaming loop has something to be compared with.

### The AIGER library

`AigerLib` has the structure in memory and every call that changes it or checks
it; `AigerIO` adds the two file formats, both readers and both writers.  The
client is a script of calls (`calls`); a call that has work to do leaves its
routines in `run`, and the client goes on when `run` is empty:


| Part | Steps |
|---|---|
| `aiger_add_input`, `_latch`, `_reset`, `_and`, `_output`, `_bad` ... | one step, with the type table; a client keeps to what the calls assert, so one whose assertion would fail is not made |
| `aiger_check` | one step for the definedness checks, then one entry of the explicit stack per step for the cycle check, with the marks as they are left |
| `aiger_reencode` | one place or stack entry per step for the numbering (`RewriteLiteral`, `EnterGate`, `NumberGate`), then one step for the dropped gates, the sort, the type table and the new `maxvar` (`Reencoded`) |
| look-ups, `aiger_strip_symbols_and_comments` | operators; one step |
| readers | one line of a section per step, on tokens (a number with the character behind it, a byte, a name), with every error return |
| writers | check, renumbering for the binary format, then one step that writes the file or fails and removes it; the file may also not open |

`Texts` are the names and comments there are and `NoName` the empty one; `Jobs`
are the scripts with the file that is there at the start.

A file is a sequence of tokens, so spelling is left out and everything that
depends on which token comes next is kept: early end, wrong separator, literals
out of range, sections shorter or longer than the header says.  The deltas of
the binary format are written and read in groups of seven bits.

An assertion that fails inside the library, in a reader, a writer or
`aiger_reencode`, leaves `abort` in `run` for good.  A client that breaks what an
`aiger_add_` call asserts of its arguments is not modelled, so no property,
`CallsReturn` included, speaks about it.

### The loop

`Bmc` has one action per stretch of `bmc.cpp` between two loops over the
vectors:

| Action | Code |
|---|---|
| `Read` | `main`: the reader, which may fail; the error is printed and nothing else |
| `Translate` | `main` calls `aigtocnf`, sets `start_idx`, `vars_nums`, `cur_idx` |
| `Encode` | step 0: `newVar` loop, resets, gates, guarded bad literals |
| `Found`, `NextStep`, `CantFind` | `solve`, and what the loop does with the answer |
| `Renumber` | `update_cur2nxt` |
| `LinkLatches`, `CopyGates`, `CopyBads` | the three loops that rename the vectors through `cur2nxt` and add their clauses |

The variables have the names of the code's.  `cur2nxt` is a function, and a
key it does not have gives 0 as `std::map::operator[]` does.  The clauses in
the solver are a set of sets of signed variables.

### The solver

`SatLits` has literals as `SolverTypes.h` packs them (`v + v + s`) and the
meaning of clauses.  `Cdcl` is `Solver.cc` with one iteration of a loop per
step:

| Actions | Code |
|---|---|
| `newVar`, `ReuseVar`, `releaseVar` | the functions; `ReuseVar` is `newVar` when a released variable is free |
| `AddNothing`, `AddEmpty`, `AddUnit`, `AddLong` | the ways out of `addClause_` |
| `Solve`, `SolveDead`, and `Return` in several actions | `solve_` before and after its loop |
| `NextFact`, `Blocked`, `FirstTrue`, `MoveWatch`, `Imply`, `Clash`, `Propagated` | `propagate`: the outer loop and the five ways through a watcher |
| `RootConflict`, `Resolve`, `Learn` | conflict at level 0; one resolution of `analyze`; minimisation, `cancelUntil` and the learnt clause |
| `Restart`, `Interrupted`, `simplify`, `NotSimplified`, `reduceDB`, `NotReduced` | the branches of `search` without a conflict |
| `DummyLevel`, `Assume`, `AssumptionFalse`, `FinalStep`, `FinalDone` | the assumption loop and `analyzeFinal` |
| `Branch`, `ModelFound` | `pickBranchLit` and what follows |
| `SimplifyCall`, `SimplifySkipped` | `simplify` called by the user |

What is kept exactly: which two literals a clause watches and in which order,
blockers, clauses that are removed but still in memory and in lists (`dirty`),
the trail with its levels and reasons, the propagation queue, the marks in
`seen`, the Luby restarts and the limit on learnt clauses.  What is any choice:
activities, saved phases, the order of watch lists (and so which watcher is
visited next) and of the literals a clause does not watch, which learnt clauses
`reduceDB` drops among those it may, whether `simplify` finds enough to do, and
whether memory is collected.  The clause minimisation of `-ccmin-mode` 1 and 2
is the set of literals that the search over reasons can remove, not the search.

Two things in `Cdcl` stand for the user: `script`, the calls still to come, and
`given`, the clauses as they were given.  The user keeps the promise of
`Solver.h:48` never to refer to a released variable (`Usable`).  When a
released variable is given out again, `given` keeps what the old clauses said
about the other variables (`Without`).

### The simplifying solver

`Elimination` is `simp/SimpSolver.cc`: one iteration of a loop per step, with
one record `db` for the clause database (clauses in memory, occurrence lists
that are cleaned when they are looked up, literal counts, touched and frozen
marks, the subsumption queue, the elimination heap, the clauses kept for
extending models).  It has `addClause_`, `freezeVar`, `setFrozen`, `substitute`,
`eliminate` with gathering, backward subsumption, strengthening, asymmetric
branching and `eliminateVar`, `removeClause`, interrupts between any two
steps, turning simplification off for good, `solve_` with assumptions frozen
for the call, `extendModel`, and garbage collection.  What the core solver
does below it is abstract: propagation is its closure, a search adds at most one learnt clause that follows and returns a right answer.  The next
variable of the heap is any of them, lists are in the order of references.

### The solver with local search

`LocalSearch` is `ccnr.cc` as operators on one record `ls`: building the
instance, initialisation, picking a variable (in the order of candidates,
configuration checking and aspiration, or from a random unsatisfied clause),
`flip` with every count, score and list it updates, the weights and their
average, and the end of a search.  `RelaxedSolver` is the part of
`relaxedNewTech/Solver.cc` that surrounds it: `ipasir` calls, restarts with the
shortening of learnt clauses (`simplifyLearnt`), the instance built from what is
left of the clauses, the three-way choice of a first solution, and how the
result becomes phases or the model.  The clause learning between two restarts
is abstract: it may decide anything, what it learns is any clause that follows,
and the answer it ends with is taken to be right; `Cdcl` has such a search in
full.  Local learnt clauses are not in the state, since the local search is not
given them: a learnt clause may still have been derived from some, but they
take no part in the shortening of others.  The solver backtracks
chronologically, so a literal of level 0 may be on the trail above decisions
(`Solver.cc:2034`); `late` has those facts, and the instance is built without
them (`Solver.cc:2585`, 2614).

## What is checked

| Run | What it asks | States |
|---|---|---|
| `layout` | on anything the reader may leave behind: are the clauses, assumptions, variables and stored inputs those of the unrolling, is the answer exact for what is in memory and supported, does `bmc` end, and on supported files is it the abstract search `Reachability` | 36,751 |
| `search` | a whole search without a model, with every choice of decisions, watch order, restart, minimisation and interrupt, and scripts of clauses, assumptions, simplification and released variables | 83,663 |
| `library` | graphs built in any order, checked, renumbered, written with writes that may fail, read back; and broken files | 16,649 |
| `elimination` | clauses subsumed, shortened and eliminated, with every option of the solver, interrupts and later calls | 16,758 |
| `relaxed` | restarts that take turns with local search on shrinking, satisfiable and unsatisfiable clauses, over several calls | 45,899 |
| `constant`, `reset`, `sign`, `error`, `release`, `marks`, `stale` | the seven findings below; TLC finds the violation | |

Bounds, and why they are enough for these questions:

* `layout` has the graphs with one input, one latch and a gate over the two,
  with every next state that is not constant, a family with two latches, a
  shift register that is bad at step 3 and a two-bit counter; then constants,
  undefined resets, signs, no, several and repeated bad literals, outputs used
  as bad literals, a cyclic gate, and all prefixes of a file as the structure
  after an error.  `Kmax` is 3, so every graph is renamed three times.  The
  renaming of one step reads only the step before, and what a graph of any
  size and any bound needs is proved, not extrapolated.
* `search` has the eight clauses over three variables: conflicts at levels 0
  to 2, learnt clauses of one and two literals, watches that move, and
  restarts, because `restart_first` is 1.  `Interruptible` lets every search be
  given up between two decisions; the second call must then be answered from
  whatever state the interrupt left.  Its other scripts are chosen for what
  random clauses of this size do not meet: a learnt clause from which only the
  deep minimisation may remove a literal (`DeepChain`), one from which none may
  (`Chain`), assumptions that are repeated, already true, and false at level 0
  (`Root`), a learnt clause that is the reason of an assignment when there are
  as many learnt clauses as assignments (`Reasons`; `learntsize_factor` is 0 so
  that `reduceDB` runs), and a variable that is released and used again
  (`Reuses`).  The limit on learnt clauses does not grow in the model: the code
  lets it grow after 100 conflicts, which no instance reaches.
* `library` has clients with two gates that may read each other, themselves or
  an undefined literal, with all sections, names and comments and gates in the
  wrong order, and with 70 inputs, so that a difference takes two bytes in the
  binary format; and files that differ from a good one in one number or
  separator, in one difference (up to six bytes, with one that does not fit),
  or are cut after any token.  The reset value in a broken file stays as it is:
  the reader passes it to an assertion, which a broken file makes fail (see the
  hazards).
* `elimination` has five variables, and at most one learnt clause of at most
  two literals per search: what elimination has to get right about learnt
  clauses (they are removed with the variable, they are shortened by facts)
  needs one.  Each script is chosen for one thing: clauses that subsume and
  shorten one another down to facts, a variable that is frozen and mentioned
  again, assumptions that are frozen for one call, asymmetric branching that
  shortens a clause, a clause that propagation implies, a variable that is
  replaced, released variables that a record still mentions, an old clause
  that subsumes a new one, limits that are met, and an interrupt anywhere.
* `relaxed` has `NVars` 4, at most 60 memory accesses and 12 steps for each
  local search, restarts after one change of state (`StateChange` 1) two apart
  (`RestartsGap`), up to 4 of them (`MaxStarts`), the threshold for smoothing
  weights at 1 so that it is passed, one learnt clause of up to 3 literals.
  The code's own numbers are larger by factors of hundreds; they only decide
  when something happens, which is a choice in the model.

Every property of a passing run has a mutant in the module it is about: a
definition that is changed the way a slip in the code would change it (a queue
that is not reset, a watch filed under the wrong literal, an off-by-one in a
loop), for which TLC finds the property violated.

The runs say `CHECK_DEADLOCK FALSE` because the program really stops: `bmc`
after its answer, a library or solver when its client has no more calls.  A
program that stops where it should not is caught by the liveness properties:
`Terminates` and `ImplementsPromise` for `bmc`, `CallsReturn` for the library,
`KeepsPromise` for the solvers.

Properties of the loop:

* `ClausesLaidOut`, `OnlyThisStepAssumed`, `InputHistory`, `VarsAllocated` and
  `FreshNumbering` say that the in-place renaming of a step gives what the
  unrolling written down directly has;
* `AnswerExact` compares the answer with the runs of the graph;
* `ImplementsPromise` is the refinement of `Reachability`, on supported files
  that are read without an error.

Properties of the AIGER library:

* `CheckExact`: `aiger_check` says "cyclic" exactly when a gate reaches itself,
  whatever was checked and renumbered before; `OnStackIsPath` is why: the
  entries that are on the stack for the second time form a path;
* `ChildrenFirst`: renumbering gives a gate a larger number than its inputs, on
  which the binary format rests; `ReencodePreserves`: every output, next state
  and reset computes what it did;
* `LookupsRight`: kinds and indices in the type table agree with the lists;
* `RoundTrip`: a file written without a failed write is read back as the graph
  in memory; `HandsOverGraph`: what a reader returns without an error is a
  graph in the sense of `Aiger`, which is what `Bmc` assumes of its files;
* `CallsReturn`: every call comes back.

Properties of the solver:

* `TrailOrdered` and `ReasonsLive`: what the backward walks over the trail rely
  on;
* `WatchersFound`, `WatchesHold` and `NothingImplied`: the invariant of the
  watched literals with blockers, during propagation, after `cancelUntil` and
  between calls;
* `Entailed`, `SeenClean`: conflict analysis;
* `AnswersJustified`: models are models; final conflicts are made of
  assumptions, follow from the clauses, and are empty exactly when the clauses
  alone are unsatisfiable;
* `KeepsPromise`: the refinement of `IncrementalSat`.

Properties of the simplifying solver:

* `OccurrencesRight`: lists, counts, queue and heap against the clauses;
* `Equivalent`: the clauses that are left say the same about the variables that
  are left as what was given; `ModelsRight`: an extended model satisfies
  everything that was given;
* `SubsumptionDone`: when the loop of `eliminate` ends with an empty queue, no
  clause that went through it subsumes or strengthens another one;
* `KeepsPromise`: the same refinement, now with frozen assumptions, calls
  after elimination and simplification turned off.

Properties of the solver with local search:

* `CountsRight`, `ScoresRight`, `AverageExact`: what each flip updates is what
  counting again would give, and the average weight, kept as quotient and
  remainder, is the average;
* `SolutionsRight`: a solution that local search claims satisfies every clause
  given and agrees with the facts;
* `KeepsPromise`: the same refinement, about answers.

### Fairness

Every program here is one thread that keeps running once it was called, so the
fairness is weak fairness of the steps of the program and nothing stronger:
`Bmc` of its whole next-state relation; `Cdcl` and `Elimination` of `solver`,
the steps inside a call, and none of `user`, since nothing makes a user call;
`AigerIO` of `Next`, since its clients are scripts that end.  `RelaxedSolver`
has none: its restarts go on until chance or learning ends them, in the model
up to a bound, and only the answers are compared.  Within a call the choices of
the heuristics are not fair in any way; that a search of `Cdcl` ends all the
same is a consequence of learning and of the restart bounds that grow.
`Reachability` and `IncrementalSat` ask for an answer under the same weak
fairness.

### Findings

1. `constant`: the AIG constant is translated to solver variable 1, which no
   clause fixes, so a step can be reported that no run reaches
   (`aigtocnf.cpp:65` against `aiger.h:48`).
2. `reset`: a latch with an undefined reset starts at 0 (`aigtocnf.cpp:72`
   against `aiger.h:204`).
3. `sign`: the sign of a bad literal or an output is dropped
   (`aigtocnf.cpp:100` against `aiger.h:47`).
4. `error`: after a reader error `main` goes on with what is in memory
   (`bmc.cpp:249` against `aiger.h:287`).
5. `release`: after a variable was released and used again, a watcher may still
   have it as its blocker.  A unit clause is missed and the assertion of
   `removeSatisfied` (`Solver.cc:610`) fails.  With exactly the calls that TLC
   prints the code's second `simplify` returns early: its limit `simpDB_props`
   (`Solver.cc:648`), which the model leaves out, has to be used up first, and a
   few more unit clauses between the two calls do that.  With them the calls
   were repeated on the compiled solver: with assertions it aborts there,
   without them a later `solve` answers true for an assumption that contradicts
   the clauses.  `bmc` never releases a variable.
6. `marks`: `aiger_reencode` leaves the marks of an earlier `aiger_check` in
   the types of the variables it drops; a gate added there later is skipped by
   the cycle check (`aiger.c:1607` against `aiger.h:228`).
7. `stale`: `solve_` of `relaxedNewTech` copies the model of the local search
   when a flag is set that nothing ever sets back, so later calls hand out the
   values of an old model (`Solver.cc:2412` against `ipasir.h:73`).  The calls
   were repeated on the compiled solver with `state_change_time` 0: for 31 of
   200 seeds the second model was wrong.  With the default of 2000 restarts the
   first call has to be a hard one.

The definition `Supported` names the fragment of the format to which 1 to 3 do
not apply (and no graph of `AigerType` has constraints); the properties of the passing runs and the theorems about answers
speak about that fragment, the properties about clauses about every graph.

## What is proved

The proofs are about the loop and the translation, for every set of files,
every bound and every size of graph; about the AIGER library, for every file
and every client that does not renumber a graph; about the CDCL solver, for
every number of variables and every sequence of calls that releases none;
about the simplifying solver, for every number of variables, every sequence of
calls and almost every choice of options; and about the solver with local
search, for every number of variables and every sequence of calls.

### The loop and the translation

`BmcProofs` goes from the ranges of the translation and of its copies (the
literals of step `f` are those of step 0 plus an offset, and the variables of
two steps do not meet), over the meaning of the clauses (`UnrollingExact`: the
clauses of `n` steps with the activation variable of step `n` have a model
exactly when a run of `n` steps ends in a bad state), to the invariants of the
loop, the exact answer and the step simulation of `Reachability`.

Theorems of `BmcProofs`: `UnrollingExact`, `TypeCorrect`, `InductiveInvariant`, `LayoutCorrect`,
`AssumptionsCorrect`, `TraceCorrect`, `AllocationCorrect`, `FreshVariables`,
`AnswerCorrect`, `SearchImplemented`.

*Assumptions.*  `FilesAssumption`: a file holds a graph whose literals are at
most `2 * maxvar + 1`, which the reader enforces before it stores a literal.
`KmaxAssumption`: the bound is an integer, negative ones included.  Nothing is
assumed of `Solve` for the layout.  `AnswerCorrect` and `SearchImplemented`
also assume `SolverCorrect`, that `Solve` decides satisfiability under
assumptions; `SearchImplemented` assumes that files are read completely and are
supported.  Integers are unbounded: the 32-bit counter of the code would need
about 2^31 variables.

*The argument.*  `ClausesLaidOut` is not inductive: whether the clauses added
next are those of the right step depends on the vectors, the map and the
counters.  `IInv` adds to it `Moved` (the vectors are those of the translation,
moved by the offset of the step they belong to at this point of the loop),
`Indexed` (`start_idx`, `cur_idx` and `nVars` as functions of the step) and
`Mapped` (`cur2nxt` is defined on exactly the variables of the step before and
adds one stride).  There is one lemma per group of actions, `RenamingMoves`
being the one they share: with `Mapped`, renaming a vector of step `i - 1`
gives the vector of step `i`.  `VarsAllocated` and `FreshNumbering` follow from
`IInv` and those ranges.

`UnrollingExact` goes from a model to a run by reading each step's variables
(`AgreeingAssignment` is the other direction: a run gives each variable a
value, which is possible since no variable belongs to two steps).
`AnswerCorrect` puts the two together: at `check` the clauses are the unrolling
by `IInv`, so the solver's answer is the answer about runs.

### The AIGER library

`AigerInvariant` has the invariant in named parts.  `AigerProofs` is first about
the structure: what each `aiger_add_` call does to the tables, what the look-ups
return, the marks, and one step of the search for cycles.  Then it takes
that to every step of the library: the calls, each section of both formats as
it is read, the ASCII writer, and the theorems.

*Assumptions.*  `NeverRenumbers`: no client calls `aiger_reencode`, directly or
by writing the binary format.  `bmc.cpp` makes one call, to the reader.
`JobsAssumption`: what clients pass and what is in a file has the types of the
calls and of tokens.  `NamesAssumption`: the empty name is a name.  Files are
any sequences of tokens, in either format; the other calls come in any order,
with any arguments, and may fail their assertions.

*Theorems.*  `LibraryInvariant` and, from it, `LibraryTyped`, `LookupsFind`,
`StackIsPath`, `ReaderHandsOverGraph` and `CheckIsExact`.  The last two meet the
loop: `FilesAssumption` of `BmcProofs` asks that the literals of what is read
are in range, which `ReaderHandsOverGraph` shows of whatever the reader leaves
behind, with an error or without.

*The argument.*  That `aiger_check` is exact depends on all that happened to
the type table since the structure was made, since marks stay from one check to
the next and a marked gate is not searched again.

* `Built`: the tables define each literal at the place the type table names,
  and nothing else has a kind (`KindsRight`); all literals are in range.  Each
  call of the builder keeps this, including the calls of a reader that stops
  with an error in between.
* `Marked`: the gates that a search has left (`Done`) read only leaves and gates
  that were left as well, and they have a rank that falls from a gate to what it
  reads.  So marks of earlier checks hide no cycle, also when gates were added
  in between; when the search ends without an error, all gates are left and
  there is no cycle.  Renumbering breaks this (run `marks`), and so the theorems
  leave it out.
* `Searching`: the entered gates on the stack are those that are marked as on
  it, each once (`OpenOnStack`); what is above an entered gate is read by it
  (`ReadByParent`), so the stack is a path and what closes it is a cycle; what an
  entered gate reads waits above it or is done (`ChildrenWait`), so a gate that
  is left may be ranked above its children; no gate below the next root has
  been passed over (`RootsEntered`).
* `ReaderRight`: at each section the tables have the lengths the reader has
  counted, and in the binary format the variables are numbered in order
  (`InOrder`), so that the implied literals of inputs, latches and gates are new.
* `RoutinesRight`, `ErrorsStop`, `HandedOver` and `SearchOver`: which routines
  can be pending, that an error ends the call, that a reader ends with a check,
  and that no search leaves its stack to the next.

That a rank exists is a statement about the whole graph, not about a step: a
gate that is left gets the next number, and a least or greatest element of the
numbers (`LeastNatural`, `GreatestNatural`) turns a rank into the absence of
cycles and a path on the stack into a cycle.  The type of a written file is that of a
flattened sequence, which the library defines by recursion; the proof takes the
least prefix at which it could fail.

TLC checked the invariant on the clients of `LibraryJobs` that do not renumber,
with all broken files (16,559 states), before it was proved.

### The solver

`CdclInvariant` has the invariant in named parts, and `CdclProofs` proves it and
what follows from it.  Its first half is about what a step may do to memory
(`MemorySteps`: one of six things) and to the trail (`TrailSteps`: one of seven):
types, the watch lists, order of the trail, the heap, what `analyze` resolves
with, the point that control has reached, marks, levels and reasons, with
`Inductive`, `TypeCorrect`, `Trail`, `ReasonsKept` and `MarksCleared`.  Its second
half is about blockers and the meaning of clauses, with `Watching`, `AllFound`,
`Watches`, `NothingMissed`, `Trimming`, `Layered`, `Soundness`, `Answers` and
`PromiseKept`.

*Assumption.*  `NeverReleases`: no script calls `releaseVar`.  `bmc.cpp` never
calls it.  After a call of it the assertion in `removeSatisfied` can fail (run
`release`); `Trimming` shows that it holds for every other user.  The scripts
are otherwise arbitrary sequences of the other calls.  As in the
model, numbers have no width and any choice stands for every heuristic.

*The argument.*  None of the properties is inductive by itself.  That a
resolution of `analyze` finds a marked literal of the present level, for
instance, needs the order of the trail; that its reason is a clause needs that
removal spares the reasons; that the reason's literals are before it on the
trail needs that `propagate` keeps the implied literal first; and that the
present level is not empty needs to know where propagation was when the
conflict was found.  `IInv` is the conjunction that is inductive:

* `Stored`, `Listed`, `Visiting`: clauses in use have no repeated literal, are
  in the lists of exactly the two literals they watch, once, and a list that
  still names a removed clause is marked as dirty.
* `Ordered`, `Reasoned`, `Opened`, `Queued`: levels follow the trail; reasons
  are in use, have what they implied first and their other literals false
  before it; a literal above level 0 without a reason opens its level.
* `Control`, `Created`, `Analysed`, `Finalised`: which level, queue, marks and
  partial results go with each point of the loops.

The rest is proved in layers on top of it, each using those below:

* `Blockers` and `Guarded`: when `propagate` is done with a watcher, its
  blocker is true at a level no later than the fact's.  The comparison of
  levels is what `cancelUntil` needs: it takes back the fact before the
  blocker, so no clause has to be visited again.  From this `NothingImplied`:
  with an empty queue, no clause in use is falsified or unit.
* `Sound` and `Refuted`: what is kept follows from what was given, and no model
  makes all marked literals true.  For minimisation, let a dropped
  literal be false in a model of the kept clauses and take the one that stands
  first on the trail: its reason has only facts, marked literals and dropped
  ones before it, so it is implied after all.  The graph of reasons needs no
  induction of its own.
* `Complete`: `simplify` and `addClause_` drop only what the facts of level 0
  imply, so an assignment that satisfies what is left satisfies what was given.
* `Assumed` and `Concluded`: the levels search has opened make the
  assumptions true; what `analyzeFinal` has marked cannot hold together with
  the negation of the conflict it has so far.
* `Awaiting`: a call has no answer exactly while search runs.

`Answers` and `PromiseKept` read the answers off these: a total assignment with
nothing left to propagate falsifies no clause, so it is a model; a conflict
that `analyzeFinal` returns follows from the clauses alone; a solver that
gives up has no model to miss.  `PromiseKept` is the safety part of
`KeepsPromise`, initial states and steps.  The parts of the invariant were
checked with TLC on the scripts of the search run before they were proved.

### The simplifying solver

| Module | Contents |
|---|---|
| `EliminationTheorems` | literals and propagation; then each operator of `SimpSolver.cc`: a lemma for what it does to the memory, the lists, the queue and the facts, and one for what the clauses mean afterwards; then each action, as far as the invariant `Right` goes; theorems `EliminateStep`, `SubstituteStep`, `InvariantCorrect`, `TypeCorrect`, `OccurrencesCorrect` |
| `EliminationProofs` | what the clauses mean, what the answers are worth, what the loops of `eliminate` leave to do, and what the models that are given out are worth; theorems `MeaningKept`, `EquivalenceCorrect`, `PromiseKept`, `SubsumptionCorrect`, `ModelsCorrect` |

*Assumptions.*  `TypeCorrect`, `OccurrencesCorrect` and `SubsumptionCorrect` have
none but `NVarsAssumption` and `ScriptsAssumption`: they hold for all calls,
options, limits and interrupts (the property of the last one excludes limits and
interrupts itself).  `EquivalenceCorrect` and `PromiseKept` have two, and
for each of them TLC has an execution of the model without it that ends badly:

* `NeverChecks`: the option `-rcheck` is off, which is its default.  With it
  `addClause_` drops a resolvent that propagation implies, and propagation uses
  learnt clauses too.  After the clauses of the eliminated variable are gone
  nothing else need imply the resolvent, and the next `reduceDB` may drop the learnt
  clause (`SimpSolver.cc:156`, `319-336`): then the clauses that are left have more
  models than those that were given.
* `Settles`: a script that releases variables is not interruptible and has no
  subsumption limit.  An interrupt discards the queue, facts included
  (`SimpSolver.cc:351-356`), so clauses keep literals that are false already,
  among them the two that are watched.  Once simplification is off,
  `removeSatisfied` then meets a clause whose watched literals are false, where
  the assertion `core/Solver.cc:610` says it has none, and a released variable
  can stay in a clause when `newVar` gives it out again.  `bmc.cpp` neither
  releases nor interrupts.

The number of variables, the clauses, the order of the heap, what a search learns
and when it stops are arbitrary, and so are freezing, substitution, further
clauses after an elimination and turning simplification off.

*The structure.*  `Right` is the invariant behind types and lists.  `Good` says of
the database that the list of a variable, cleaned of removed clauses, is the set of
live clauses that mention it; that lists of variables without the dirty mark
need no cleaning; that `n_occ` counts live clauses; that live clauses have two
literals at least and none with its negation; and that the queue refers to what
is in memory.  `DbRight` adds that no live clause mentions an eliminated variable,
as long as the solver is `ok`.  Lists are read lazily (`lookup`), clauses are
removed lazily, and garbage is collected between two eliminations, so each operator
has a lemma that it keeps `Good` wherever it starts, and the loops over lists are
followed element by element with `FoldTheorems`.

*The meaning.*  `Equivalent` compares models by what they say of the variables that are
left, and is not inductive: the clauses in memory include learnt ones, which may
be dropped, and released variables.  `Means` says that each model of the clauses
given agrees, but for eliminated variables, with one that satisfies everything in
memory, learnt clauses included (`Full`), and each assignment that satisfies the
live clauses and the facts, without the learnt ones (`Says`), agrees with a model
of the clauses given.  The weaker hypothesis in one direction and the stronger
conclusion in the other make dropping and adding learnt clauses harmless.
`Sound` adds what the steps need:

* `Free`, `Forgotten`, `Room`: a released literal was given as a clause, is of one
  sign, of no eliminated variable and distinct from the others; when `newVar` may
  return its variable, no clause mentions it any more.
* `Opens`: a clause that was checked mentions no variable that has a value while
  clauses are simplified, and has two literals that are not false or a true one
  afterwards; this is what fails after an interrupt.
* `Asked`: the variables that are assumed are frozen during a call, so none of
  them is eliminated; the user sees no answer before the call returns.

The operators are where the reasoning is.  `EliminateStep`: `eliminateVar` leaves
an assignment with a value for the variable whenever all resolvents hold, because
either all clauses with the variable or all with its negation hold without it.
`SubstituteStep`: what is left has the models in which variable and literal
agree.  `AgainstStep`: subsumption and strengthening drop only what the other clause
and this one say together.  `ReducedStep`: `simplify` drops satisfied clauses and false
literals, and with them every mention of a released variable.  `asymmQuiet`: the
literal that asymmetric branching drops is refuted by the rest.

*The end of the loops.*  `SubsumptionDone` speaks of one moment, and what makes it true is
spread over the loops.  `Thorough` says for every moment what is still to be
compared: a clause that could simplify another one waits in the queue (in
`backwardSubsumptionCheck` and `asymm`) or has a variable that is touched, and no
clause mentions a variable whose value was checked.  `Pend` is that condition, with
the set of clauses that wait as a parameter.  It survives a step because a clause
that becomes shorter is queued and one that comes in is touched (`Queues`,
`Grows`): whatever could now simplify it shares a variable with it
(`SpeakingTouches`).  `gatherTouchedClauses` turns touched variables into waiting clauses
(`GatherThorough`), a clause that was compared has nothing more to say
(`CheckClauseThorough`), and the loops are left with both sets empty
(`FinishedThorough`).  `eliminate` returns early where the solver is no longer `ok`.

`PromiseKept` is the safety part of `KeepsPromise`, initial states and steps: a
solution of what is left is a model of the clauses given, as far as the variables
go that are left (`SolutionModels`), the assumptions are among those, and without a
solution there is no such model (`UnsatFollows`), whatever the records of
eliminated variables say.

*The models that are given out.*  `ModelsRight` speaks of variables that are gone
from the database: `extendModel` has to find values for them in the records that
`eliminateVar` left, read from the last one back, on top of a model of what is left.
The invariant behind it is `Extensible`:

* `Ordered`: the records of a variable are the clauses with one of its literals,
  then the opposite literal alone; and a record mentions no variable that was
  eliminated before it, since clauses in memory mention none (`Clean`).  So when
  `extendModel` reaches the records of a variable, the values they depend on are
  settled, and the extended model `Fits` them: the literal is true where the
  others of one of its clauses are false, else the opposite one is
  (`ExtendedFits`, from `h[k - 1] = Apply(s[k], h[k])` down to `h[0]`);
* `Recovery`: an assignment that agrees with a model of what is left, and fits the
  records, satisfies every clause ever given.  Eliminating a variable keeps this
  although only the smaller half of its clauses is recorded: if none of the recorded
  clauses needs the literal, the assignment has the opposite one, which satisfies the
  other half; if one of them needs it, its resolvent with each clause of the other
  half makes another literal of that clause true (`SaidBefore`);
* `Naming`, `Numbering` and `Apart`: what is given or recorded has a value, from the
  search or from a record, and no variable of a record is ever given back and taken
  again, which would change what the record means.  This is what `releaseVar` compares
  with `max_simp_var` for (`SimpSolver.cc:96-98`);
* `Timely`: users substitute before anything is eliminated.

`ModelsCorrect` has this as a third assumption on the scripts, `SubstitutesFirst`,
next to the two above; it leaves open how many clauses are added, variables
eliminated, given back or taken again between two calls.

TLC has `Right` and `Thorough` as invariants of the 16,758 states of the run
`elimination`, and `Sound` and `Extensible` of the 16,222 of them that belong to
scripts with the assumptions.

Proving this corrected the model in one place: `Trimmed` keeps a clause with at most
one literal that is not false whole, as `removeSatisfied` does, which keeps the two
watched literals in any case.  It also showed what `extend_model` does not do: when a
variable is substituted after another one was eliminated with clauses about it,
`extendModel` has no record of the substitution, and the extended model gives the
substituted variable no value.  `IncrementalSat` does not promise one, and
`ModelsRight` is checked on scripts that substitute before they eliminate.

### The solver with local search

| Module | Contents |
|---|---|
| `FoldTheorems` | folds over a finite set, for any operator and any order of picking: the function that the community modules define by recursion exists (`MeasuredFold`, `SequenceFold`), it can be followed element by element (`SequenceTrace`), and what each element keeps is kept by the whole (`SequenceKeeps`); `EachTrace` says the same of the operator `Each` of `Elimination`; that a set of naturals has a least element is a premise here, proved as lemma `Least` in each module that cites them |
| `LocalSearchProofs` | every operator of `ccnr.cc`, from a single count to a step of the search, and its invariant `LocalInv` |
| `RelaxedProofs` | propagation, the database, restarts, the first solution, and the answers; theorems `Invariant`, `TypeCorrect`, `CountsCorrect`, `ScoresCorrect`, `AverageCorrect`, `SolutionsCorrect`, `PromiseKept` |

*Assumptions.*  Only those that say what the constants are: `NVarsAssumption`,
`StartsAssumption` and `BudgetAssumption` (natural numbers, zero included) and
`ScriptsAssumption` (scripts are sequences of calls on literals; clauses may be
empty, repeat a literal or contain both signs of a variable).  The number of
variables, clauses and calls, the restarts, the learnt clauses, the memory
accesses and the threshold for smoothing are arbitrary.

*The search itself.*  `CountsRight`, `ScoresRight` and `AverageExact` compare
what `flip` and the changes of weights update one by one with what counting
again would give.  `Good` is the invariant of the data:

* `CountsOk`: number and variable of the true literals of each clause, the two
  lists of what is unsatisfied and their index tables, which a removal keeps by
  moving the last element into the hole;
* `Scored`: each score is what a flip would win now.  `flip` visits the clauses
  of its variable one after the other and fixes the scores of their other
  variables on the way, so halfway some clauses count as before the flip and
  some as after it; the lemma about one visit speaks of both;
* `CcdRight`: the candidates are exactly the variables with a positive score
  whose neighbours have changed.  Between the update of the scores and that of
  the candidates this is not so; the lemmas say which variables can be wrong at
  each point;
* `Averaged`: quotient and remainder of the total weight, also through
  smoothing, which replaces every weight and starts the remainder again;
* `Stepped`: no variable was flipped later than now.

`BestRight` adds what the best solution so far costs: as many clauses as it
falsifies, or, before the first step, the number of all clauses; and that the
present solution costs no less unless it is the best one.  So when the search
says that it has found a solution, no clause is falsified.

*The solver around it.*  `SolutionsRight` is not inductive, since it speaks of the
clauses as the user gave them and the search of what was made of them.  `IInv`
adds:

* `Sound`: an assignment that satisfies the clauses that are left and the facts
  that are not late satisfies what was given, and one that satisfies what was given satisfies
  these, the learnt clauses and the facts; `ok` is false only if there is none.
  Both directions have to pass through `addClause_`, propagation, shortened
  learnt clauses and `removeSatisfied`, each of which drops or changes clauses
  for a reason that lies in the others;
* `LocalOK`: the instance of the search is made of exactly the clauses, learnt
  clauses, facts (the late ones apart) and assumptions that there are while it runs, over the
  variables in use; the search runs exactly when control is in it; and it is never started
  on no clauses at all, where the average would divide by zero;
* `DbOK`, `RestartsOK`, `SolnsOK`, `BuildOK`, `ControlOK`: what is well formed,
  and that no search goes on once `ok` is false.

`Closure` is propagation by a recursive function on sets of literals; that
there is one (`CloseExists`) is shown for sets with fewer and fewer literals
left, and what it keeps by following it to its end.  `PromiseKept` is the
refinement of `IncrementalSat`, initial states and every step: whichever of the
two searches ends a call, the answer is the one that the clauses and
assumptions have.  Writing it, the definition of `Answer` turned out to have
overlapping cases, of which TLC takes the first and the logic any; it now
says which.  It says that an answer is right, not that one comes: the restarts
of the model are bounded, and no return of the calls is stated.

The theorems say nothing of the values read after a call, since those may be
wrong (run `stale`): the code hands out a model of an earlier call although
its answer is right.

TLC checked `IInv` on the 45,899 states of the run `relaxed` before it was
proved.

## What is only model-checked

* Liveness (`Terminates`, `CallsReturn`, the fairness part of
  `ImplementsPromise` and of `KeepsPromise`): proofs of liveness under fairness
  are out of the prover's reach.
* The AIGER library for clients that renumber: `ReencodePreserves` and
  `ChildrenFirst`, and the binary writer.  `RoundTrip` compares a file with the
  structure it came from through both formats and is recursive in both.
* The simplifying solver with `-rcheck`, and with interrupts or a subsumption
  limit for users who release variables: types and occurrence lists are proved,
  the answers and models are checked on the scripts of the run.
* The CDCL solver for users who release variables (`ReuseVar`, `releaseVar`):
  the search run has scripts that do, and its properties hold there.
* The `luby` function, the deep minimisation and resolution as functions of
  their inputs.

## What is not modelled

* In the AIGER library: memory management, the pipes through gzip, the digits
  of a number and the wording of errors.
* In the solver: `implies`, `setDecisionVar`, `setPolarity`, DIMACS output,
  statistics, the growth of the limit on learnt clauses after 100 conflicts,
  `-rnd-freq` above 0 (its default is 0; a variable picked at random would stay
  on the heap, which `Branch` takes it from).
* In `relaxedNewTech`: the clause learning search between two restarts, which
  is abstract; heuristics (`info_based_rephase`, activities, the three tiers
  of learnt clauses as far as they only decide what to drop); failed
  assumptions (`ipasir_failed`), proof output, and `SimpSolver.cc` of that
  directory, which the ipasir calls do not reach.
* `mtl`: generic containers, used by their meaning (a set, a sequence, a
  function).  The occurrence lists, whose lazy cleaning shows in the solvers,
  are in `Cdcl` and `Elimination`.
* `sat-switch`: one-line forwarding to solvers that are modelled, without state
  of its own.  `aig2cnf.cpp` and `RelaxedNewTechSolver.cpp` are not built.
* `parser_args`, option parsing, memory statistics: input and output.

## Plan

1. The loop over `IncrementalSat` instead of the operator `Solve`, so that
   `SearchImplemented` and `PromiseKept` meet.
2. Proofs about `Cdcl` for users who release variables, under the condition on
   blockers that the release run shows to be missing in the code.
