---------------------------- MODULE Reachability ----------------------------
(***************************************************************************)
(* What the program promises: for a graph and a bound Kmax, the depth of   *)
(* the shallowest state within the bound in which the bad literals hold,   *)
(* or the answer that there is none.  Nothing is said about clauses.       *)
(***************************************************************************)
EXTENDS Aiger

CONSTANTS Graphs,   \* the graphs the program may be given
          Kmax      \* deepest time step to look at

VARIABLES graph, depth, verdict

vars == <<graph, depth, verdict>>

-----------------------------------------------------------------------------
Init ==
  /\ graph \in Graphs
  /\ depth = 0
  /\ verdict = "none"

Find ==
  /\ verdict = "none"
  /\ ReachesBad(graph, depth)
  /\ verdict' = "found"
  /\ UNCHANGED <<graph, depth>>

Deepen ==
  /\ verdict = "none"
  /\ depth < Kmax
  /\ ~ReachesBad(graph, depth)
  /\ depth' = depth + 1
  /\ UNCHANGED <<graph, verdict>>

GiveUp ==
  /\ verdict = "none"
  /\ depth >= Kmax
  /\ ~ReachesBad(graph, depth)
  /\ verdict' = "not_found"
  /\ UNCHANGED <<graph, depth>>

Next == Find \/ Deepen \/ GiveUp

Spec == Init /\ [][Next]_vars /\ WF_vars(Next)
=============================================================================
