--------------------------- MODULE IncrementalSat ---------------------------
(***************************************************************************)
(* What a user of the solver is promised: clauses are added between calls  *)
(* of solve, and each call answers whether the clauses added so far have a *)
(* model in which the assumptions of the call are true.                    *)
(***************************************************************************)
EXTENDS SatLits

VARIABLES
  given,     \* clauses added so far
  assumed,   \* assumptions of the call
  answer,    \* of the last call; "none" while a call is running
  interruptible   \* whether a call may end without an answer

vars == <<given, assumed, answer, interruptible>>

-----------------------------------------------------------------------------
Init ==
  /\ given = {}
  /\ assumed = {}
  /\ answer = "idle"
  /\ interruptible \in BOOLEAN

AddClause ==
  /\ answer # "none"
  /\ \E c \in SUBSET Lits : given' = given \cup {c}
  /\ answer' \in {answer, "idle"}
  /\ UNCHANGED <<assumed, interruptible>>

(* A variable that was fixed and given back is new again.                    *)
Reuse ==
  /\ answer # "none"
  /\ \E p \in Lits :
       /\ {p} \in given
       /\ given' = Without(given, p)
  /\ UNCHANGED <<assumed, answer, interruptible>>

(* A variable is replaced by a literal everywhere.                           *)
Substitute ==
  /\ answer # "none"
  /\ \E v \in Vars, x \in Lits : Var(x) # v /\ given' = Renamed(given, v, x)
  /\ UNCHANGED <<assumed, answer, interruptible>>

Ask ==
  /\ answer # "none"
  /\ assumed' \in SUBSET Lits
  /\ answer' = "none"
  /\ UNCHANGED <<given, interruptible>>

Reply ==
  /\ answer = "none"
  /\ answer' = IF Satisfiable(given, assumed) THEN "sat" ELSE "unsat"
  /\ UNCHANGED <<given, assumed, interruptible>>

GiveUp ==
  /\ interruptible
  /\ answer = "none"
  /\ answer' = "undef"
  /\ UNCHANGED <<given, assumed, interruptible>>

Next == AddClause \/ Reuse \/ Substitute \/ Ask \/ Reply \/ GiveUp

(* A call comes back.                                                       *)
Spec == Init /\ [][Next]_vars /\ WF_vars(Reply \/ GiveUp)
=============================================================================
