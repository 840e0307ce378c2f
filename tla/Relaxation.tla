----------------------------- MODULE Relaxation -----------------------------
(***************************************************************************)
(* What the three shortest-path engines promise, whatever their schedule.  *)
(* While an engine runs, distances only fall, and only to values that some *)
(* admitted edge accounts for.  It may stop without an answer at any time  *)
(* (round limit, full queue, failure), and it may report convergence only  *)
(* when no admitted edge can lower any distance.                           *)
(***************************************************************************)
EXTENDS RoutingProblem

VARIABLES
  distances,
  outcome         \* "running", "converged" or "stopped"

relaxationVars == <<distances, outcome>>

\* A decrease of v that an admitted edge accounts for.  The edge may have been
\* read long before its result is written, so the value may be stale: too
\* high, never too low.
Justified(v, d) ==
  /\ d < distances[v]
  /\ \E e \in Admitted : /\ Destination[e] = v
                         /\ Plus(distances[Source[e]], Weight[e]) <= d

Init ==
  /\ distances = InitialDistance
  /\ outcome = "running"

Relax ==
  /\ outcome = "running"
  /\ distances' \in [Vertices -> Distances]
  /\ \A v \in Vertices :
       distances'[v] = distances[v] \/ Justified(v, distances'[v])
  /\ UNCHANGED outcome

Converge ==
  /\ outcome = "running"
  /\ \A e \in Admitted : Relaxed(distances, e)
  /\ outcome' = "converged"
  /\ UNCHANGED distances

Stop ==
  /\ outcome = "running"
  /\ outcome' = "stopped"
  /\ UNCHANGED distances

Next == Relax \/ Converge \/ Stop

Spec == Init /\ [][Next]_relaxationVars

-----------------------------------------------------------------------------
TypeOK ==
  /\ distances \in [Vertices -> Distances]
  /\ outcome \in {"running", "converged", "stopped"}

\* No schedule takes a distance below the shortest one: every potential stays
\* a lower bound.
NeverBelowShortest ==
  \A p \in Potentials : \A v \in Vertices : p[v] <= distances[v]

\* A converged result is the shortest-distance function.
ConvergedIsShortest == outcome = "converged" => IsShortest(distances)
=============================================================================
