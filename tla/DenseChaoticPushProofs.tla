------------------------ MODULE DenseChaoticPushProofs ------------------------
(***************************************************************************)
(* Proofs about DenseChaoticPush for every graph, query, grid size and     *)
(* control mode: no schedule of the atomic operations in a round leaves    *)
(* the distances behind as many rounds of synchronous Bellman-Ford, and a  *)
(* round nobody saw a change in has relaxed every edge.                    *)
(***************************************************************************)
EXTENDS DenseChaoticPush, SweepEngineProofs

-----------------------------------------------------------------------------
(***************************************************************************)
(* The inductive invariant                                                 *)
(***************************************************************************)
Round == controller.rounds_completed

\* The thread that owns a vertex and the edges of its row.
Owner(v) == v % ThreadCount

\* Edge e has had its turn in the round.
Tried(e) ==
  LET t == Owner(Source[e])
  IN \/ pc[t] \in {"reduce", "sync"}
     \/ Working(t) /\ Source[e] < vertex[t]
     \/ Working(t) /\ Source[e] = vertex[t] /\ e < edge[t]
     \/ pc[t] = "scan" /\ Source[e] = vertex[t] /\ e = edge[t]

\* No thread has lowered a distance in the round.
Quiet == controller.changed_lane_mask = {} /\ \A t \in Threads : ~changed[t]

\* What the source of an edge had to offer when the round began.
Offer(e) == Plus(BellmanFord[Round][Source[e]], Weight[e])

TypeInv ==
  /\ run_options.engine = "dense_chaotic_push"
  /\ distance_bits \in Assignments
  /\ edge \in [Threads -> Nat]
  /\ candidate \in [Threads -> Distances]
  /\ observed \in [Threads -> Distances]

\* A thread that has left the initialization has reset its vertices and marked
\* their rows, and no other thread touches them.
StartInv ==
  stage = "initialize" =>
    /\ run_lane_masks = {e \in Admitted : pc[Owner(Source[e])] = "sync"}
    /\ \A v \in Vertices :
         pc[Owner(v)] = "sync" => distance_bits[v] = InitialDistance[v]

\* The edge a thread is at belongs to the row it is at.
EdgeOf(t) ==
  /\ edge[t] # 0 => /\ Working(t) /\ edge[t] \in Admitted
                    /\ Source[edge[t]] = vertex[t]
  /\ pc[t] \in {"load", "cas"} => edge[t] # 0

EdgeInv == \A t \in Threads : EdgeOf(t)

\* A candidate on its way is no worse than the offer at the start of the round
\* and no better than the source's distance allows, which it equals as long as
\* nobody lowered anything.
Flight(t) ==
  pc[t] \in {"load", "cas"} =>
    LET e == edge[t]
        now == Plus(distance_bits[Source[e]], Weight[e])
    IN /\ candidate[t] <= Offer(e)
       /\ now <= candidate[t]
       /\ Quiet => candidate[t] = now
       /\ pc[t] = "cas" => candidate[t] < observed[t]

\* What an edge's turn achieves.
Settled(e) ==
  /\ distance_bits[Destination[e]] <= Offer(e)
  /\ Quiet => Relaxed(distance_bits, e)

\* The distances lie between the shortest ones and those of the rounds that
\* are complete; an edge that had its turn has offered its round's distance,
\* and is relaxed as long as nobody lowered anything.  Nothing is lowered once
\* every vertex of the box has had its round.
RoundInv ==
  stage # "initialize" =>
    /\ run_lane_masks = Admitted
    /\ \A p \in Potentials : \A v \in Vertices : p[v] <= distance_bits[v]
    /\ \A v \in Vertices : distance_bits[v] <= BellmanFord[Round][v]
    /\ \A t \in Threads : Flight(t)
    /\ ~controller.done => \A e \in Admitted : Tried(e) => Settled(e)
    /\ ~controller.done /\ Round >= SelectedVertexCount - 1 => Quiet

\* What the run leaves behind, and how many rounds it takes.
EndInv ==
  /\ Round <= SelectedVertexCount
  /\ ~controller.done => Round < SelectedVertexCount
  /\ controller.stop_reason = "converged" =>
       stage # "initialize" /\ IsShortest(distance_bits)
  /\ controller.stop_reason = "maximum_rounds" =>
       controller.maximum_rounds < SelectedVertexCount
  /\ stage = "exit" => status = CompletedStatus(distance_bits, Targets)

IInv == GridInv /\ TypeInv /\ StartInv /\ EdgeInv /\ RoundInv /\ EndInv

-----------------------------------------------------------------------------
\* The owner of an edge's row is a thread.
LEMMA OwnerFacts ==
  /\ \A v \in Vertices : Owner(v) \in Threads /\ v \in Nat /\ v < VertexCount
  /\ \A e \in Admitted : Owner(Source[e]) \in Threads /\ Source[e] \in Nat
                          /\ e \in Nat /\ e # 0
<1>1. \A v \in Vertices : Owner(v) \in Threads /\ v \in Nat /\ v < VertexCount
  <2>1. \A v \in Vertices : Owner(v) \in Threads
    BY ThreadFacts DEF Owner
  <2>2. \A v \in Vertices : v \in Nat /\ v < VertexCount
    BY GraphAssumption DEF Vertices
  <2>3. QED
    BY <2>1, <2>2
<1>2. \A e \in Admitted : e \in Nat /\ e # 0 /\ Source[e] \in Vertices
  <2>1. \A e \in Edges : e \in Nat /\ e # 0
    BY GraphAssumption DEF Edges
  <2>2. QED
    BY <2>1, AdmittedEdge
<1>3. QED
  BY <1>1, <1>2

\* The distances that lie between the shortest ones and some round's, and that
\* no edge can lower, are the shortest.
LEMMA SqueezedIsShortest ==
  ASSUME NEW d \in Assignments, NEW k \in Nat,
         \A v \in Vertices : d[v] <= BellmanFord[k][v],
         \A p \in Potentials : \A v \in Vertices : p[v] <= d[v],
         \A e \in Admitted : Relaxed(d, e)
  PROVE  IsShortest(d)
<1>1. \A v \in Sources : d[v] = 0
  <2>1. ASSUME NEW v \in Sources PROVE d[v] = 0
    <3>1. v \in Vertices /\ InitialDistance[v] = 0
      BY SourcesAreVertices DEF InitialDistance
    <3>2. BellmanFord[k][v] <= 0
      BY <3>1, BellmanFordFalls
    <3>3. BellmanFord[k] \in Assignments
      BY BellmanFordRounds
    <3>4. d[v] \in Nat /\ BellmanFord[k][v] \in Nat /\ d[v] <= BellmanFord[k][v]
      BY <3>1, <3>3, GraphAssumption DEF Assignments, Distances
    <3>5. QED
      BY <3>2, <3>4
  <2>2. QED
    BY <2>1
<1>2. QED
  BY <1>1 DEF IsShortest, Potentials, Assignments

\* Once every vertex of the box has had its round the distances are final.
LEMMA LateIsShortest ==
  ASSUME NEW d \in Assignments, NEW k \in Nat, k >= SelectedVertexCount - 1,
         \A v \in Vertices : d[v] <= BellmanFord[k][v],
         \A p \in Potentials : \A v \in Vertices : p[v] <= d[v]
  PROVE  IsShortest(d)
<1>1. PICK s : IsShortest(s)
  BY ShortestExists
<1>2. BellmanFord[k] = s /\ s \in Potentials /\ s \in Assignments
  BY <1>1, SelectedRoundsSuffice DEF IsShortest, Potentials, Assignments
<1>3. ASSUME NEW v \in Vertices PROVE d[v] = s[v]
  <2>1. d[v] <= s[v] /\ s[v] <= d[v] /\ d[v] \in Int /\ s[v] \in Int
    BY <1>2, GraphAssumption DEF Assignments, Distances
  <2>2. QED
    BY <2>1
<1>4. d = s
  BY <1>2, <1>3 DEF Assignments
<1>5. QED
  BY <1>1, <1>4

-----------------------------------------------------------------------------
(***************************************************************************)
(* The invariant holds initially                                           *)
(***************************************************************************)
LEMMA InitHolds == Init => IInv
<1> SUFFICES ASSUME Init PROVE IInv
  OBVIOUS
<1>1. GridInit /\ GridInv /\ stage = "initialize"
  BY GridStart DEF Init, GridInit
<1>2. 0 \in Distances /\ TypeInv
  <2>1. 0 \in Distances
    BY GraphAssumption DEF Distances
  <2>2. QED
    BY <2>1 DEF Init, GridInit, TypeInv, Assignments
<1>3. StartInv
  BY OwnerFacts DEF Init, GridInit, StartInv
<1>4. EdgeInv
  BY DEF Init, GridInit, EdgeInv, EdgeOf
<1>5. controller.stop_reason = "none" /\ Round < SelectedVertexCount
        /\ Round <= SelectedVertexCount
  BY <1>1, FreshIsSound, SelectedCountFacts DEF GridInit, Round
<1>6. QED
  BY <1>1, <1>2, <1>3, <1>4, <1>5 DEF IInv, RoundInv, EndInv

-----------------------------------------------------------------------------
(***************************************************************************)
(* Initialization                                                          *)
(***************************************************************************)
LEMMA InitializePreserves ==
  ASSUME IInv, NEW t \in Threads, InitializeVertices(t) PROVE IInv'
<1>1. /\ stage = "initialize" /\ stage' = stage /\ pc[t] = "enter"
      /\ pc' = [pc EXCEPT ![t] = "sync"]
      /\ run_options' = run_options
      /\ InitializeController(t)
      /\ UNCHANGED <<vertex, edge, candidate, observed>>
  BY DEF InitializeVertices, InitializeController, hostVars
<1>2. GridInv'
  BY <1>1, GridInitialize DEF IInv
<1>3. \A v \in Vertices : v \in Stride(t) <=> Owner(v) = t
  BY DEF Stride, Owner
<1>4. \A v \in Vertices : Owner(v) \in Threads
  BY OwnerFacts
<1>5. pc \in [Threads -> Operations]
  BY DEF IInv, GridInv
<1>6. distance_bits' = [v \in Vertices |-> IF v \in Stride(t) THEN InitialDistance[v]
                                                              ELSE distance_bits[v]]
  BY DEF InitializeVertices
<1>7. TypeInv'
  <2>1. distance_bits' \in Assignments
    BY <1>6, InitialDistanceType DEF IInv, TypeInv, Assignments
  <2>2. QED
    BY <1>1, <2>1 DEF IInv, TypeInv
<1>8. run_lane_masks' = {e \in Admitted : pc'[Owner(Source[e])] = "sync"}
  <2>1. run_lane_masks' = {e \in Edges : IF Source[e] \in Stride(t)
                                           THEN RunMarked(e)
                                           ELSE e \in run_lane_masks}
    BY DEF InitializeVertices
  <2>2. run_lane_masks = {e \in Admitted : pc[Owner(Source[e])] = "sync"}
    BY <1>1 DEF IInv, StartInv
  <2>3. ASSUME NEW e \in Edges
        PROVE  e \in run_lane_masks' <=>
                 e \in Admitted /\ pc'[Owner(Source[e])] = "sync"
    <3>1. Source[e] \in Vertices
      BY EdgeType
    <3>2. CASE Owner(Source[e]) = t
      BY <1>1, <1>3, <1>5, <2>1, <3>1, <3>2 DEF RunMarked, Admitted
    <3>3. CASE Owner(Source[e]) # t
      BY <1>1, <1>3, <1>4, <1>5, <2>1, <2>2, <3>1, <3>3
    <3>4. QED
      BY <3>2, <3>3
  <2>4. QED
    BY <2>1, <2>3 DEF Admitted
<1>9. ASSUME NEW v \in Vertices, pc'[Owner(v)] = "sync"
      PROVE  distance_bits'[v] = InitialDistance[v]
  <2>1. CASE Owner(v) = t
    BY <1>3, <1>6, <2>1
  <2>2. CASE Owner(v) # t
    <3>1. pc[Owner(v)] = "sync"
      BY <1>1, <1>4, <1>5, <1>9, <2>2
    <3>2. distance_bits[v] = InitialDistance[v]
      BY <1>1, <3>1 DEF IInv, StartInv
    <3>3. QED
      BY <1>3, <1>6, <2>2, <3>2
  <2>3. QED
    BY <2>1, <2>2
<1>10. StartInv'
  BY <1>8, <1>9 DEF StartInv
<1>11. EdgeInv'
  <2>1. \A s \in Threads : ~Working(s) /\ edge[s] = 0
    BY <1>1 DEF IInv, GridInv, EdgeInv, EdgeOf, Working
  <2>2. QED
    BY <1>1, <1>5, <2>1 DEF EdgeInv, EdgeOf, Working
<1>12. controller'.stop_reason = "none" /\ Round' = 0
  <2>1. controller' = FreshController
    BY <1>1 DEF IInv, GridInv, InitializeController
  <2>2. QED
    BY <2>1, FreshIsSound DEF IInv, GridInv, Round
<1>13. QED
  BY <1>1, <1>2, <1>7, <1>10, <1>11, <1>12, SelectedCountFacts
  DEF IInv, RoundInv, EndInv

LEMMA FinishInitializePreserves ==
  ASSUME IInv, FinishInitialize PROVE IInv'
<1>1. /\ stage = "initialize" /\ stage' = "round"
      /\ \A t \in Threads : pc[t] = "sync"
      /\ pc' = [t \in Threads |-> "enter"]
      /\ UNCHANGED <<run_lane_masks, controller, run_options, vertex, changed,
                     distance_bits, edge, candidate, observed>>
  BY DEF FinishInitialize, BarrierAfterInitialize, hostVars, relaxVars
<1>2. GridInv'
  BY GridBarrier DEF IInv, FinishInitialize
<1>3. TypeInv'
  BY <1>1 DEF IInv, TypeInv
<1>4. /\ Round = 0 /\ controller.changed_lane_mask = {}
      /\ controller.stop_reason = "none"
  BY <1>1, FreshIsSound DEF IInv, GridInv, Round
<1>5. run_lane_masks = Admitted
  BY <1>1, OwnerFacts DEF IInv, StartInv
<1>6. distance_bits = InitialDistance
  <2>1. \A v \in Vertices : distance_bits[v] = InitialDistance[v]
    BY <1>1, OwnerFacts DEF IInv, StartInv
  <2>2. QED
    BY <2>1, InitialDistanceType DEF IInv, TypeInv, Assignments
<1>7. \A t \in Threads : ~changed[t] /\ edge[t] = 0
  BY <1>1 DEF IInv, GridInv, EdgeInv, EdgeOf, Working
<1>8. Quiet'
  BY <1>1, <1>4, <1>7 DEF Quiet
<1>9. EdgeInv'
  BY <1>1, <1>7 DEF EdgeInv, EdgeOf, Working
<1>10. \A e \in Admitted : ~Tried(e)'
  <2>1. \A e \in Admitted : Owner(Source[e])' = Owner(Source[e])
    BY DEF Owner
  <2>2. QED
    BY <1>1, <2>1, OwnerFacts DEF Tried, Working
<1>11. \A t \in Threads : Flight(t)'
  BY <1>1 DEF Flight
<1>12. \A v \in Vertices : distance_bits[v] <= BellmanFord[Round][v]
  BY <1>4, <1>6, BellmanFordRounds, InitialDistanceType, GraphAssumption
  DEF Distances
<1>13. RoundInv'
  BY <1>1, <1>5, <1>6, <1>8, <1>10, <1>11, <1>12, InitialDistanceAbove
  DEF RoundInv, Round
<1>14. QED
  BY <1>1, <1>2, <1>3, <1>4, <1>9, <1>13 DEF IInv, StartInv, EndInv, Round

-----------------------------------------------------------------------------
(***************************************************************************)
(* Steps that lower no distance                                            *)
(***************************************************************************)
LEMMA Carried ==
  ASSUME IInv, stage # "initialize", stage' # "initialize",
         UNCHANGED <<run_lane_masks, distance_bits>>,
         Round' = Round,
         controller'.done <=> controller.done,
         controller'.stop_reason = controller.stop_reason,
         controller'.maximum_rounds = controller.maximum_rounds,
         ~controller.done => (Quiet' <=> Quiet),
         \A t \in Threads : Flight(t)',
         \A e \in Admitted : ~controller.done /\ Tried(e)' => Tried(e) \/ Settled(e),
         stage' = "exit" => status' = CompletedStatus(distance_bits, Targets)'
  PROVE  StartInv' /\ RoundInv' /\ EndInv'
<1>1. StartInv'
  BY DEF StartInv
<1>2. RoundInv
  BY DEF IInv
<1>3. ASSUME NEW e \in Admitted, ~controller.done, Tried(e)' PROVE Settled(e)'
  <2>1. Settled(e)
    BY <1>2, <1>3 DEF RoundInv
  <2>2. Offer(e)' = Offer(e)
    BY DEF Offer
  <2>3. QED
    BY <1>3, <2>1, <2>2 DEF Settled, Relaxed
<1>4. RoundInv'
  BY <1>2, <1>3 DEF RoundInv
<1>5. EndInv'
  BY DEF IInv, EndInv
<1>6. QED
  BY <1>1, <1>4, <1>5

\* Thread s has no part in a step.
Untouched(s) == UNCHANGED <<pc[s], vertex[s], edge[s], candidate[s], observed[s]>>

LEMMA UntouchedFacts ==
  ASSUME NEW s \in Threads, Untouched(s)
  PROVE  /\ EdgeOf(s)' <=> EdgeOf(s)
         /\ Working(s)' <=> Working(s)
         /\ \A e : Owner(Source[e]) = s => (Tried(e)' <=> Tried(e))
<1>1. /\ pc'[s] = pc[s] /\ vertex'[s] = vertex[s] /\ edge'[s] = edge[s]
      /\ Working(s)' <=> Working(s)
  BY DEF Untouched, Working
<1>2. \A e : Owner(Source[e])' = Owner(Source[e])
  BY DEF Owner
<1>3. QED
  BY <1>1, <1>2 DEF EdgeOf, Tried

LEMMA UntouchedFlight ==
  ASSUME NEW s \in Threads, Untouched(s), Flight(s),
         UNCHANGED <<distance_bits, controller>>, Quiet' => Quiet
  PROVE  Flight(s)'
<1>1. /\ pc'[s] = pc[s] /\ edge'[s] = edge[s] /\ candidate'[s] = candidate[s]
      /\ observed'[s] = observed[s] /\ distance_bits' = distance_bits
  BY DEF Untouched
<1>2. \A e : Offer(e)' = Offer(e)
  BY DEF Offer, Round
<1>3. QED
  BY <1>1, <1>2 DEF Flight

\* A step of one thread at work that lowers nothing.
LEMMA LocalStep ==
  ASSUME IInv, NEW t \in Threads, stage = "round",
         UNCHANGED <<stage, controller, run_lane_masks, distance_bits, changed>>,
         \A s \in Threads : s # t => Untouched(s),
         EdgeOf(t)', Flight(t)',
         \A e \in Admitted : /\ Owner(Source[e]) = t /\ Tried(e)'
                             => Tried(e) \/ Settled(e)
  PROVE  StartInv' /\ EdgeInv' /\ RoundInv' /\ EndInv'
<1>1. Quiet' <=> Quiet
  BY DEF Quiet
<1>2. \A s \in Threads : EdgeOf(s)'
  BY UntouchedFacts DEF IInv, EdgeInv
<1>3. \A s \in Threads : Flight(s)'
  BY <1>1, UntouchedFlight DEF IInv, RoundInv
<1>4. \A e \in Admitted : Tried(e)' => Tried(e) \/ Settled(e)
  BY UntouchedFacts, OwnerFacts
<1>5. StartInv' /\ RoundInv' /\ EndInv'
  BY <1>1, <1>3, <1>4, Carried DEF Round
<1>6. QED
  BY <1>2, <1>5 DEF EdgeInv

\* What the thread's own position says.
LEMMA AtWork ==
  ASSUME IInv, NEW t \in Threads, Working(t)
  PROVE  /\ stage = "round" /\ ~controller.done
         /\ vertex[t] \in Nat /\ edge[t] \in Nat /\ vertex[t] % ThreadCount = t
         /\ run_lane_masks = Admitted
         /\ pc \in [Threads -> Operations] /\ vertex \in [Threads -> Nat]
         /\ changed \in [Threads -> BOOLEAN]
         /\ edge \in [Threads -> Nat] /\ candidate \in [Threads -> Distances]
         /\ observed \in [Threads -> Distances] /\ distance_bits \in Assignments
         /\ EdgeOf(t) /\ Flight(t)
         /\ Round \in Nat /\ BellmanFord[Round] \in Assignments
<1>1. stage = "round" /\ ~controller.done /\ vertex[t] % ThreadCount = t
  BY DEF IInv, GridInv
<1>2. Round \in Nat
  BY DEF IInv, GridInv, SoundController, DeviceControllers, Round
<1>3. BellmanFord[Round] \in Assignments
  BY <1>2, BellmanFordRounds
<1>4. QED
  BY <1>1, <1>2, <1>3 DEF IInv, GridInv, TypeInv, EdgeInv, RoundInv

LEMMA EnterPreserves ==
  ASSUME IInv, NEW t \in Threads, EnterRound(t) PROVE IInv'
<1>1. /\ stage = "round" /\ stage' = "round" /\ pc[t] = "enter"
      /\ pc' = [pc EXCEPT ![t] = IF Execute THEN "scan" ELSE "reduce"]
      /\ vertex' = [vertex EXCEPT ![t] = IF Execute THEN t ELSE 0]
      /\ changed' = [changed EXCEPT ![t] = FALSE]
      /\ UNCHANGED <<run_lane_masks, controller, run_options, distance_bits, edge,
                     candidate, observed>>
  BY DEF EnterRound, EnterSweep, AtOperation, Goto, hostVars, relaxVars
<1>2. GridInv'
  BY GridEnter DEF IInv, EnterRound
<1>3. Execute <=> ~controller.done
  BY ExecuteMeaning DEF IInv
<1> HIDE DEF Execute
<1>4. /\ pc \in [Threads -> Operations] /\ vertex \in [Threads -> Nat]
      /\ changed \in [Threads -> BOOLEAN] /\ ~changed[t] /\ edge[t] = 0
  BY <1>1 DEF IInv, GridInv, EdgeInv, EdgeOf, Working
<1>5. TypeInv'
  BY <1>1, <1>4 DEF IInv, TypeInv
<1>6. \A s \in Threads : s # t => Untouched(s)
  BY <1>1, <1>4 DEF Untouched
<1>7. Quiet' <=> Quiet
  BY <1>1, <1>4 DEF Quiet
<1>8. pc'[t] \in {"scan", "reduce"} /\ edge'[t] = 0
  BY <1>1, <1>4
<1>9. \A s \in Threads : EdgeOf(s)'
  <2>1. EdgeOf(t)'
    BY <1>8 DEF EdgeOf
  <2>2. QED
    BY <1>6, <2>1, UntouchedFacts DEF IInv, EdgeInv
<1>10. \A s \in Threads : Flight(s)'
  <2>1. Flight(t)'
    BY <1>8 DEF Flight
  <2>2. QED
    BY <1>1, <1>6, <1>7, <2>1, UntouchedFlight DEF IInv, RoundInv
<1>11. ASSUME NEW e \in Admitted, ~controller.done, Tried(e)' PROVE Tried(e)
  <2>1. CASE Owner(Source[e]) # t
    BY <1>6, <1>11, <2>1, UntouchedFacts, OwnerFacts
  <2>2. CASE Owner(Source[e]) = t
    <3>1. pc'[t] = "scan" /\ vertex'[t] = t
      BY <1>1, <1>3, <1>4, <1>11
    <3>2. Source[e] \in Nat /\ Source[e] % ThreadCount = t /\ e \in Nat /\ e # 0
      BY <2>2, OwnerFacts DEF Owner
    <3>3. t <= Source[e] /\ t \in Nat
      BY <3>2, ShareStarts, ThreadFacts DEF Threads
    <3>4. Owner(Source[e])' = t
      BY <2>2 DEF Owner
    <3>5. ~Tried(e)'
      BY <1>8, <3>1, <3>2, <3>3, <3>4 DEF Tried
    <3>6. QED
      BY <1>11, <3>5
  <2>3. QED
    BY <2>1, <2>2
<1>12. StartInv' /\ RoundInv' /\ EndInv'
  BY <1>1, <1>7, <1>10, <1>11, Carried DEF Round
<1>13. QED
  BY <1>2, <1>5, <1>9, <1>12 DEF IInv, EdgeInv

\* The edges of the row that have had their turn are those up to the last one.
LEMMA RowTried ==
  ASSUME IInv, NEW t \in Threads, pc[t] = "scan", NEW e \in Admitted,
         Source[e] = vertex[t], e \notin Remaining(t)
  PROVE  Tried(e)
<1>1. run_lane_masks = Admitted /\ edge[t] \in Nat /\ vertex[t] % ThreadCount = t
  BY AtWork DEF Working
<1>2. InSelectedTile(vertex[t])
  BY DEF Admitted
<1>3. e \in Nat /\ ~(e > edge[t])
  BY <1>1, <1>2, OwnerFacts DEF Remaining
<1>4. Owner(Source[e]) = t
  BY <1>1 DEF Owner
<1>5. e < edge[t] \/ e = edge[t]
  BY <1>1, <1>3
<1>6. QED
  BY <1>4, <1>5 DEF Tried, Working

LEMMA LoadSourcePreserves ==
  ASSUME IInv, NEW t \in Threads, LoadSource(t) PROVE IInv'
<1>1. PICK e \in Remaining(t) :
        /\ \A f \in Remaining(t) : e <= f
        /\ edge' = [edge EXCEPT ![t] = e]
        /\ candidate' = [candidate EXCEPT
                           ![t] = Plus(distance_bits[vertex[t]], Weight[e])]
  BY DEF LoadSource
<1>2. /\ pc[t] = "scan" /\ pc' = [pc EXCEPT ![t] = "load"]
      /\ UNCHANGED <<run_lane_masks, controller, run_options, stage, vertex, changed,
                     distance_bits, observed>>
  BY DEF LoadSource, AtOperation, Goto, hostVars
<1>3. /\ stage = "round" /\ ~controller.done
      /\ vertex[t] \in Nat /\ edge[t] \in Nat /\ vertex[t] % ThreadCount = t
      /\ run_lane_masks = Admitted
      /\ pc \in [Threads -> Operations] /\ vertex \in [Threads -> Nat]
      /\ changed \in [Threads -> BOOLEAN]
      /\ edge \in [Threads -> Nat] /\ candidate \in [Threads -> Distances]
      /\ observed \in [Threads -> Distances] /\ distance_bits \in Assignments
      /\ Round \in Nat /\ BellmanFord[Round] \in Assignments
  BY <1>2, AtWork DEF Working
<1>4. /\ e \in Admitted /\ Source[e] = vertex[t] /\ e \in Nat /\ e # 0
      /\ vertex[t] \in Vertices /\ Weight[e] \in 0 .. Infinity - 1
  BY <1>1, <1>3, OwnerFacts, AdmittedEdge DEF Remaining
<1>5. /\ distance_bits[vertex[t]] \in Distances
      /\ BellmanFord[Round][vertex[t]] \in Distances
      /\ distance_bits[vertex[t]] <= BellmanFord[Round][vertex[t]]
  BY <1>3, <1>4 DEF Assignments, IInv, RoundInv
<1>6. /\ Plus(distance_bits[vertex[t]], Weight[e]) \in Distances
      /\ Plus(distance_bits[vertex[t]], Weight[e]) <= Offer(e)
  BY <1>4, <1>5, PlusType, PlusMonotone DEF Offer
<1>7. WorkStep(t)
  <2>1. vertex' = [vertex EXCEPT ![t] = vertex[t]] /\ changed' = [changed EXCEPT ![t] = changed[t]]
    BY <1>2, <1>3
  <2>2. QED
    BY <1>2, <1>3, <2>1 DEF WorkStep, Working
<1>8. GridInv'
  BY <1>7, GridWork DEF IInv
<1>9. TypeInv'
  BY <1>1, <1>2, <1>3, <1>4, <1>6 DEF IInv, TypeInv
<1>10. \A s \in Threads : s # t => Untouched(s)
  BY <1>1, <1>2, <1>3 DEF Untouched
<1>11. /\ pc'[t] = "load" /\ edge'[t] = e /\ vertex'[t] = vertex[t]
       /\ candidate'[t] = Plus(distance_bits[vertex[t]], Weight[e])
  BY <1>1, <1>2, <1>3
<1>12. EdgeOf(t)'
  BY <1>4, <1>11 DEF EdgeOf, Working
<1>13. Flight(t)'
  <2>1. Offer(e)' = Offer(e) /\ distance_bits' = distance_bits
    BY <1>2 DEF Offer, Round
  <2>2. Plus(distance_bits[vertex[t]], Weight[e]) \in Int
    BY <1>6 DEF Distances
  <2>3. QED
    BY <1>4, <1>6, <1>11, <2>1, <2>2 DEF Flight
<1>14. ASSUME NEW f \in Admitted, Owner(Source[f]) = t, Tried(f)' PROVE Tried(f)
  <2>1. Owner(Source[f])' = t /\ f \in Nat
    BY <1>14, OwnerFacts DEF Owner
  <2>2. Source[f] < vertex[t] \/ (Source[f] = vertex[t] /\ f < e)
    BY <1>11, <1>14, <2>1 DEF Tried, Working
  <2>3. CASE Source[f] < vertex[t]
    BY <1>2, <1>14, <2>3 DEF Tried, Working
  <2>4. CASE Source[f] = vertex[t] /\ f < e
    <3>1. f \notin Remaining(t)
      BY <1>1, <1>4, <2>1, <2>4
    <3>2. QED
      BY <1>2, <2>4, <3>1, RowTried
  <2>5. QED
    BY <2>2, <2>3, <2>4
<1>15. StartInv' /\ EdgeInv' /\ RoundInv' /\ EndInv'
  BY <1>2, <1>3, <1>10, <1>12, <1>13, <1>14, LocalStep
<1>16. QED
  BY <1>8, <1>9, <1>15 DEF IInv

LEMMA FinishRowPreserves ==
  ASSUME IInv, NEW t \in Threads, FinishRow(t) PROVE IInv'
<1>1. /\ pc[t] = "scan" /\ vertex[t] < VertexCount /\ Remaining(t) = {}
      /\ vertex' = [vertex EXCEPT ![t] = vertex[t] + ThreadCount]
      /\ edge' = [edge EXCEPT ![t] = 0]
      /\ UNCHANGED <<run_lane_masks, controller, run_options, stage, pc, changed,
                     distance_bits, candidate, observed>>
  BY DEF FinishRow, AtOperation, hostVars
<1>2. /\ stage = "round" /\ ~controller.done
      /\ vertex[t] \in Nat /\ vertex[t] % ThreadCount = t
      /\ pc \in [Threads -> Operations] /\ vertex \in [Threads -> Nat]
      /\ changed \in [Threads -> BOOLEAN]
      /\ edge \in [Threads -> Nat] /\ candidate \in [Threads -> Distances]
      /\ observed \in [Threads -> Distances] /\ distance_bits \in Assignments
  BY <1>1, AtWork DEF Working
<1>3. /\ ThreadCount \in Nat \ {0} /\ vertex[t] + ThreadCount \in Nat
      /\ (vertex[t] + ThreadCount) % ThreadCount = t
  <2>1. ThreadCount \in Nat \ {0}
    BY ThreadFacts
  <2>2. (vertex[t] + ThreadCount) % ThreadCount = vertex[t] % ThreadCount
    BY <1>2, <2>1, ShareSteps
  <2>3. QED
    BY <1>2, <2>1, <2>2
<1>4. WorkStep(t)
  <2>1. pc' = [pc EXCEPT ![t] = "scan"] /\ changed' = [changed EXCEPT ![t] = changed[t]]
    BY <1>1, <1>2
  <2>2. QED
    BY <1>1, <1>2, <1>3, <2>1 DEF WorkStep, Working
<1>5. GridInv'
  BY <1>4, GridWork DEF IInv
<1>6. TypeInv'
  BY <1>1, <1>2 DEF IInv, TypeInv
<1>7. \A s \in Threads : s # t => Untouched(s)
  BY <1>1, <1>2 DEF Untouched
<1>8. pc'[t] = "scan" /\ edge'[t] = 0 /\ vertex'[t] = vertex[t] + ThreadCount
  BY <1>1, <1>2
<1>9. EdgeOf(t)' /\ Flight(t)'
  BY <1>8 DEF EdgeOf, Flight
<1>10. ASSUME NEW f \in Admitted, Owner(Source[f]) = t, Tried(f)' PROVE Tried(f)
  <2>1. Owner(Source[f])' = t /\ f \in Nat /\ f # 0 /\ Source[f] \in Nat
          /\ Source[f] % ThreadCount = t
    BY <1>10, OwnerFacts DEF Owner
  <2>2. Source[f] < vertex[t] + ThreadCount
    BY <1>8, <1>10, <2>1 DEF Tried, Working
  <2>3. ~(vertex[t] < Source[f])
    <3>1. vertex[t] < Source[f] => vertex[t] + ThreadCount <= Source[f]
      BY <1>2, <1>3, <2>1, ShareHasGaps
    <3>2. QED
      BY <1>2, <1>3, <2>1, <2>2, <3>1
  <2>4. CASE Source[f] < vertex[t]
    BY <1>1, <1>10, <2>4 DEF Tried, Working
  <2>5. CASE Source[f] = vertex[t]
    BY <1>1, <2>5, RowTried
  <2>6. QED
    BY <1>2, <2>1, <2>3, <2>4, <2>5
<1>11. StartInv' /\ EdgeInv' /\ RoundInv' /\ EndInv'
  BY <1>1, <1>2, <1>7, <1>9, <1>10, LocalStep
<1>12. QED
  BY <1>5, <1>6, <1>11 DEF IInv

LEMMA FinishStridePreserves ==
  ASSUME IInv, NEW t \in Threads, FinishStride(t) PROVE IInv'
<1>1. /\ pc[t] = "scan" /\ vertex[t] >= VertexCount
      /\ pc' = [pc EXCEPT ![t] = "reduce"]
      /\ vertex' = [vertex EXCEPT ![t] = 0]
      /\ UNCHANGED <<run_lane_masks, controller, run_options, stage, changed,
                     distance_bits, edge, candidate, observed>>
  BY DEF FinishStride, AtOperation, Goto, hostVars, relaxVars
<1>2. /\ stage = "round" /\ ~controller.done
      /\ vertex[t] \in Nat /\ EdgeOf(t)
      /\ pc \in [Threads -> Operations] /\ vertex \in [Threads -> Nat]
      /\ changed \in [Threads -> BOOLEAN]
  BY <1>1, AtWork DEF Working
<1>3. edge[t] = 0
  <2>1. edge[t] # 0 => vertex[t] \in Vertices
    BY <1>2, AdmittedEdge DEF EdgeOf
  <2>2. vertex[t] \notin Vertices
    BY <1>1, <1>2, GraphAssumption DEF Vertices
  <2>3. QED
    BY <2>1, <2>2
<1>4. WorkStep(t)
  <2>1. changed' = [changed EXCEPT ![t] = changed[t]]
    BY <1>1, <1>2
  <2>2. QED
    BY <1>1, <1>2, <2>1 DEF WorkStep, Working
<1>5. GridInv'
  BY <1>4, GridWork DEF IInv
<1>6. TypeInv'
  BY <1>1 DEF IInv, TypeInv
<1>7. \A s \in Threads : s # t => Untouched(s)
  BY <1>1, <1>2 DEF Untouched
<1>8. EdgeOf(t)' /\ Flight(t)'
  BY <1>1, <1>2, <1>3 DEF EdgeOf, Flight
<1>9. ASSUME NEW f \in Admitted, Owner(Source[f]) = t PROVE Tried(f)
  <2>1. Source[f] < vertex[t]
    BY <1>1, <1>2, OwnerFacts, AdmittedEdge, GraphAssumption
  <2>2. QED
    BY <1>1, <1>9, <2>1 DEF Tried, Working
<1>10. StartInv' /\ EdgeInv' /\ RoundInv' /\ EndInv'
  BY <1>1, <1>2, <1>7, <1>8, <1>9, LocalStep
<1>11. QED
  BY <1>5, <1>6, <1>10 DEF IInv

-----------------------------------------------------------------------------
(***************************************************************************)
(* The atomic minimum                                                      *)
(***************************************************************************)
\* A thread that finds the destination at or below its candidate is done with
\* the edge.
LEMMA FutileSettles ==
  ASSUME IInv, NEW t \in Threads, pc[t] \in {"load", "cas"},
         distance_bits[Destination[edge[t]]] <= candidate[t]
  PROVE  Settled(edge[t])
<1>1. /\ distance_bits \in Assignments /\ candidate[t] \in Distances
      /\ Round \in Nat /\ BellmanFord[Round] \in Assignments
      /\ EdgeOf(t) /\ Flight(t)
  BY AtWork DEF Working
<1>2. edge[t] \in Admitted
  BY <1>1 DEF EdgeOf
<1> DEFINE e   == edge[t]
           now == Plus(distance_bits[Source[e]], Weight[e])
<1>3. /\ Source[e] \in Vertices /\ Destination[e] \in Vertices
      /\ Weight[e] \in 0 .. Infinity - 1
  BY <1>2, AdmittedEdge
<1>4. /\ candidate[t] <= Offer(e)
      /\ Quiet => candidate[t] = now
  BY <1>1 DEF Flight
<1>5. /\ distance_bits[Destination[e]] \in Int /\ Offer(e) \in Int
      /\ candidate[t] \in Int
  BY <1>1, <1>3, PlusType DEF Offer, Assignments, Distances
<1> HIDE DEF e
<1>6. distance_bits[Destination[e]] <= Offer(e)
  BY <1>4, <1>5 DEF e
<1>7. Quiet => Relaxed(distance_bits, e)
  BY <1>4 DEF Relaxed, e
<1>8. QED
  BY <1>6, <1>7 DEF Settled, e

\* The thread leaves the edge; whoever lowered it, it has had its turn.
LEMMA FutilePreserves ==
  ASSUME IInv, NEW t \in Threads, pc[t] \in {"load", "cas"},
         distance_bits[Destination[edge[t]]] <= candidate[t],
         LeaveEdge(t),
         UNCHANGED <<run_lane_masks, controller, run_options, stage, vertex,
                     changed, distance_bits, edge>>
  PROVE  IInv'
<1>1. /\ stage = "round"
      /\ vertex[t] \in Nat /\ vertex[t] % ThreadCount = t
      /\ pc \in [Threads -> Operations] /\ vertex \in [Threads -> Nat]
      /\ changed \in [Threads -> BOOLEAN]
      /\ candidate \in [Threads -> Distances]
      /\ observed \in [Threads -> Distances] /\ EdgeOf(t)
  BY AtWork DEF Working
<1>2. /\ pc' = [pc EXCEPT ![t] = "scan"]
      /\ candidate' = [candidate EXCEPT ![t] = 0]
      /\ observed' = [observed EXCEPT ![t] = 0]
  BY DEF LeaveEdge, Goto
<1>3. WorkStep(t)
  <2>1. vertex' = [vertex EXCEPT ![t] = vertex[t]]
          /\ changed' = [changed EXCEPT ![t] = changed[t]]
    BY <1>1
  <2>2. QED
    BY <1>1, <1>2, <2>1 DEF WorkStep, Working
<1>4. GridInv'
  BY <1>3, GridWork DEF IInv
<1>5. TypeInv'
  <2>1. 0 \in Distances
    BY GraphAssumption DEF Distances
  <2>2. QED
    BY <1>1, <1>2, <2>1 DEF IInv, TypeInv
<1>6. \A s \in Threads : s # t => Untouched(s)
  BY <1>1, <1>2 DEF Untouched
<1>7. pc'[t] = "scan"
  BY <1>1, <1>2
<1>8. EdgeOf(t)' /\ Flight(t)'
  BY <1>1, <1>7 DEF EdgeOf, Flight, Working
<1>9. ASSUME NEW f \in Admitted, Owner(Source[f]) = t, Tried(f)'
      PROVE  Tried(f) \/ Settled(f)
  <2>1. Owner(Source[f])' = t
    BY <1>9 DEF Owner
  <2>2. CASE f = edge[t]
    BY <2>2, FutileSettles
  <2>3. CASE f # edge[t]
    BY <1>7, <1>9, <2>1, <2>3 DEF Tried, Working
  <2>4. QED
    BY <2>2, <2>3
<1>10. StartInv' /\ EdgeInv' /\ RoundInv' /\ EndInv'
  BY <1>1, <1>6, <1>8, <1>9, LocalStep
<1>11. QED
  BY <1>4, <1>5, <1>10 DEF IInv

\* The thread has seen a value above its candidate and will try to replace it.
LEMMA AttemptPreserves ==
  ASSUME IInv, NEW t \in Threads, pc[t] \in {"load", "cas"},
         candidate[t] < distance_bits[Destination[edge[t]]],
         pc' = [pc EXCEPT ![t] = "cas"],
         observed' = [observed EXCEPT ![t] = distance_bits[Destination[edge[t]]]],
         UNCHANGED <<run_lane_masks, controller, run_options, stage, vertex,
                     changed, distance_bits, edge, candidate>>
  PROVE  IInv'
<1>1. /\ stage = "round"
      /\ vertex[t] \in Nat /\ vertex[t] % ThreadCount = t
      /\ pc \in [Threads -> Operations] /\ vertex \in [Threads -> Nat]
      /\ changed \in [Threads -> BOOLEAN]
      /\ observed \in [Threads -> Distances] /\ distance_bits \in Assignments
      /\ EdgeOf(t) /\ Flight(t)
  BY AtWork DEF Working
<1>2. edge[t] \in Admitted /\ distance_bits[Destination[edge[t]]] \in Distances
  BY <1>1, AdmittedEdge DEF EdgeOf, Assignments
<1>3. WorkStep(t)
  <2>1. vertex' = [vertex EXCEPT ![t] = vertex[t]]
          /\ changed' = [changed EXCEPT ![t] = changed[t]]
    BY <1>1
  <2>2. QED
    BY <1>1, <2>1 DEF WorkStep, Working
<1>4. GridInv'
  BY <1>3, GridWork DEF IInv
<1>5. TypeInv'
  BY <1>1, <1>2 DEF IInv, TypeInv
<1>6. \A s \in Threads : s # t => Untouched(s)
  BY <1>1 DEF Untouched
<1>7. pc'[t] = "cas" /\ observed'[t] = distance_bits[Destination[edge[t]]]
  BY <1>1
<1>8. EdgeOf(t)'
  BY <1>1, <1>7 DEF EdgeOf, Working
<1>9. Flight(t)'
  <2>1. Offer(edge[t])' = Offer(edge[t]) /\ (Quiet' <=> Quiet)
    BY DEF Offer, Round, Quiet
  <2>2. QED
    BY <1>1, <1>7, <2>1 DEF Flight
<1>10. ASSUME NEW f \in Admitted, Owner(Source[f]) = t, Tried(f)' PROVE Tried(f)
  <2>1. Owner(Source[f])' = t
    BY <1>10 DEF Owner
  <2>2. QED
    BY <1>7, <1>10, <2>1 DEF Tried, Working
<1>11. StartInv' /\ EdgeInv' /\ RoundInv' /\ EndInv'
  BY <1>1, <1>6, <1>8, <1>9, <1>10, LocalStep
<1>12. QED
  BY <1>4, <1>5, <1>11 DEF IInv

LEMMA LoadDestinationPreserves ==
  ASSUME IInv, NEW t \in Threads, LoadDestination(t) PROVE IInv'
<1> DEFINE value == distance_bits[Destination[edge[t]]]
<1>1. /\ pc[t] = "load"
      /\ IF candidate[t] < value
           THEN /\ observed' = [observed EXCEPT ![t] = value]
                /\ pc' = [pc EXCEPT ![t] = "cas"]
                /\ UNCHANGED candidate
           ELSE LeaveEdge(t)
      /\ UNCHANGED <<run_lane_masks, controller, run_options, stage, vertex, changed,
                     distance_bits, edge>>
  BY DEF LoadDestination, AtOperation, Goto, hostVars
<1>2. candidate[t] \in Int /\ value \in Int
  <2>1. /\ distance_bits \in Assignments /\ candidate \in [Threads -> Distances]
        /\ EdgeOf(t)
    BY <1>1, AtWork DEF Working
  <2>2. Destination[edge[t]] \in Vertices
    BY <1>1, <2>1, AdmittedEdge DEF EdgeOf
  <2>3. QED
    BY <2>1, <2>2 DEF Assignments, Distances
<1>3. CASE candidate[t] < value
  BY <1>1, <1>3, AttemptPreserves
<1>4. CASE ~(candidate[t] < value)
  <2>1. value <= candidate[t]
    BY <1>2, <1>4
  <2>2. QED
    BY <1>1, <1>4, <2>1, FutilePreserves
<1>5. QED
  BY <1>3, <1>4

\* What a successful compare-and-swap of thread t does.
Lowering(t) ==
  /\ pc[t] = "cas"
  /\ distance_bits[Destination[edge[t]]] = observed[t]
  /\ distance_bits' = [distance_bits EXCEPT ![Destination[edge[t]]] = candidate[t]]
  /\ changed' = [changed EXCEPT ![t] = TRUE]
  /\ LeaveEdge(t)
  /\ UNCHANGED <<run_lane_masks, controller, run_options, status, stage, vertex, edge>>

\* It lowers the one distance to a value between the offer of the source now
\* and that at the start of the round.
LEMMA LoweringFacts ==
  ASSUME IInv, NEW t \in Threads, Lowering(t)
  PROVE  LET e == edge[t]
             v == Destination[e]
         IN /\ e \in Admitted /\ Source[e] = vertex[t]
            /\ v \in Vertices /\ Source[e] \in Vertices
            /\ Weight[e] \in 0 .. Infinity - 1
            /\ candidate[t] \in Distances
            /\ candidate[t] < distance_bits[v]
            /\ candidate[t] <= Offer(e)
            /\ Plus(distance_bits[Source[e]], Weight[e]) <= candidate[t]
            /\ distance_bits' \in Assignments
            /\ distance_bits'[v] = candidate[t]
            /\ \A x \in Vertices : x # v => distance_bits'[x] = distance_bits[x]
            /\ \A x \in Vertices : distance_bits'[x] <= distance_bits[x]
<1> DEFINE e == edge[t]
           v == Destination[e]
<1>1. /\ pc[t] = "cas" /\ distance_bits[v] = observed[t]
      /\ distance_bits' = [distance_bits EXCEPT ![v] = candidate[t]]
  BY DEF Lowering
<1>2. /\ distance_bits \in Assignments /\ candidate \in [Threads -> Distances]
      /\ EdgeOf(t) /\ Flight(t)
  BY <1>1, AtWork DEF Working
<1>3. /\ e \in Admitted /\ Source[e] = vertex[t]
      /\ candidate[t] <= Offer(e)
      /\ Plus(distance_bits[Source[e]], Weight[e]) <= candidate[t]
      /\ candidate[t] < distance_bits[v]
  BY <1>1, <1>2 DEF EdgeOf, Flight
<1>4. /\ v \in Vertices /\ Source[e] \in Vertices
      /\ Weight[e] \in 0 .. Infinity - 1
  BY <1>3, AdmittedEdge
<1> HIDE DEF v
<1>5. /\ distance_bits' \in Assignments
      /\ distance_bits'[v] = candidate[t]
      /\ \A x \in Vertices : x # v => distance_bits'[x] = distance_bits[x]
  BY <1>1, <1>2, <1>4 DEF Assignments
<1>6. ASSUME NEW x \in Vertices PROVE distance_bits'[x] <= distance_bits[x]
  <2>1. distance_bits[x] \in Int /\ candidate[t] \in Int
    BY <1>2 DEF Assignments, Distances
  <2>2. QED
    BY <1>3, <1>5, <2>1
<1>7. QED
  BY <1>2, <1>3, <1>4, <1>5, <1>6 DEF v

\* An in-flight candidate survives a lowering of distances.
LEMMA FlightSurvives ==
  ASSUME IInv, NEW s \in Threads, Untouched(s), UNCHANGED controller,
         distance_bits' \in Assignments, ~Quiet',
         \A x \in Vertices : distance_bits'[x] <= distance_bits[x]
  PROVE  Flight(s)'
<1> SUFFICES ASSUME pc'[s] \in {"load", "cas"} PROVE Flight(s)'
  BY DEF Flight
<1> DEFINE e   == edge[s]
           now == Plus(distance_bits[Source[e]], Weight[e])
           low == Plus(distance_bits'[Source[e]], Weight[e])
<1>1. /\ pc'[s] = pc[s] /\ edge'[s] = e /\ candidate'[s] = candidate[s]
      /\ observed'[s] = observed[s]
  BY DEF Untouched
<1>2. /\ distance_bits \in Assignments /\ candidate \in [Threads -> Distances]
      /\ EdgeOf(s) /\ Flight(s)
  BY <1>1, AtWork DEF Working
<1>3. e \in Admitted /\ now <= candidate[s] /\ candidate[s] <= Offer(e)
        /\ (pc[s] = "cas" => candidate[s] < observed[s])
  BY <1>1, <1>2 DEF EdgeOf, Flight
<1>4. Source[e] \in Vertices /\ Weight[e] \in 0 .. Infinity - 1
  BY <1>3, AdmittedEdge
<1>5. /\ distance_bits[Source[e]] \in Distances
      /\ distance_bits'[Source[e]] \in Distances
      /\ distance_bits'[Source[e]] <= distance_bits[Source[e]]
  BY <1>2, <1>4 DEF Assignments
<1>6. low <= now /\ low \in Distances /\ now \in Distances
  BY <1>4, <1>5, PlusMonotone, PlusType
<1>7. low <= candidate[s]
  <2>1. low \in Int /\ now \in Int /\ candidate[s] \in Int
    BY <1>2, <1>6 DEF Distances
  <2>2. QED
    BY <1>3, <1>6, <2>1
<1>8. \A f : Offer(f)' = Offer(f)
  BY DEF Offer, Round
<1>9. QED
  BY <1>1, <1>3, <1>7, <1>8 DEF Flight

LEMMA LoweringPreserves ==
  ASSUME IInv, NEW t \in Threads, Lowering(t) PROVE IInv'
<1> DEFINE e == edge[t]
           v == Destination[e]
<1>0. pc[t] = "cas"
  BY DEF Lowering
<1>1. /\ changed' = [changed EXCEPT ![t] = TRUE]
      /\ pc' = [pc EXCEPT ![t] = "scan"]
      /\ candidate' = [candidate EXCEPT ![t] = 0]
      /\ observed' = [observed EXCEPT ![t] = 0]
      /\ UNCHANGED <<run_lane_masks, controller, run_options, status, stage, vertex,
                     edge>>
  BY DEF Lowering, LeaveEdge, Goto
<1>2. /\ stage = "round" /\ ~controller.done
      /\ vertex[t] \in Nat /\ vertex[t] % ThreadCount = t
      /\ pc \in [Threads -> Operations] /\ vertex \in [Threads -> Nat]
      /\ changed \in [Threads -> BOOLEAN]
      /\ edge \in [Threads -> Nat] /\ candidate \in [Threads -> Distances]
      /\ observed \in [Threads -> Distances] /\ distance_bits \in Assignments
      /\ EdgeOf(t) /\ Round \in Nat /\ BellmanFord[Round] \in Assignments
  BY <1>0, AtWork DEF Working
<1>3. /\ e \in Admitted /\ Source[e] = vertex[t]
      /\ v \in Vertices /\ Source[e] \in Vertices
      /\ Weight[e] \in 0 .. Infinity - 1
      /\ candidate[t] \in Distances
      /\ candidate[t] < distance_bits[v]
      /\ candidate[t] <= Offer(e)
      /\ Plus(distance_bits[Source[e]], Weight[e]) <= candidate[t]
      /\ distance_bits' \in Assignments
      /\ distance_bits'[v] = candidate[t]
      /\ \A x \in Vertices : x # v => distance_bits'[x] = distance_bits[x]
      /\ \A x \in Vertices : distance_bits'[x] <= distance_bits[x]
  BY LoweringFacts
<1>4. WorkStep(t)
  <2>1. vertex' = [vertex EXCEPT ![t] = vertex[t]]
    BY <1>1, <1>2
  <2>2. QED
    BY <1>0, <1>1, <1>2, <2>1 DEF WorkStep, Working
<1>5. GridInv'
  BY <1>4, GridWork DEF IInv
<1>6. TypeInv'
  <2>1. 0 \in Distances
    BY GraphAssumption DEF Distances
  <2>2. QED
    BY <1>1, <1>2, <1>3, <2>1 DEF IInv, TypeInv
<1>7. StartInv'
  BY <1>1, <1>2 DEF StartInv
<1>8. \A s \in Threads : s # t => Untouched(s)
  BY <1>1, <1>2 DEF Untouched
<1>9. pc'[t] = "scan" /\ edge'[t] = e /\ vertex'[t] = vertex[t]
  BY <1>1, <1>2
<1>10. EdgeInv'
  <2>1. EdgeOf(t)'
    BY <1>2, <1>0, <1>9 DEF EdgeOf, Working
  <2>2. \A s \in Threads : EdgeOf(s)'
    BY <1>8, <2>1, UntouchedFacts DEF IInv, EdgeInv
  <2>3. QED
    BY <2>2 DEF EdgeInv
<1>11. ~Quiet'
  BY <1>1, <1>2 DEF Quiet
<1>12. \A s \in Threads : Flight(s)'
  <2>1. Flight(t)'
    BY <1>9 DEF Flight
  <2>2. ASSUME NEW s \in Threads, s # t PROVE Flight(s)'
    BY <1>1, <1>3, <1>8, <1>11, <2>2, FlightSurvives
  <2>3. QED
    BY <2>1, <2>2
<1> HIDE DEF e
<1>13. ASSUME NEW p \in Potentials, NEW x \in Vertices
       PROVE  p[x] <= distance_bits'[x]
  <2>1. /\ p \in Assignments /\ Relaxed(p, e)
        /\ p[Source[e]] <= distance_bits[Source[e]]
        /\ p[x] <= distance_bits[x]
    BY <1>2, <1>3 DEF IInv, RoundInv, Potentials, Assignments
  <2>2. /\ p[Source[e]] \in Distances /\ distance_bits[Source[e]] \in Distances
        /\ p[v] \in Int /\ candidate[t] \in Int
    BY <1>2, <1>3, <2>1 DEF Assignments, Distances
  <2>3. /\ Plus(p[Source[e]], Weight[e]) <= Plus(distance_bits[Source[e]], Weight[e])
        /\ Plus(p[Source[e]], Weight[e]) \in Int
        /\ Plus(distance_bits[Source[e]], Weight[e]) \in Int
    BY <1>3, <2>1, <2>2, PlusMonotone, PlusType DEF Distances
  <2>4. p[v] <= candidate[t]
    BY <1>3, <2>1, <2>2, <2>3 DEF Relaxed
  <2>5. QED
    BY <1>3, <2>1, <2>4
<1>14. ASSUME NEW x \in Vertices PROVE distance_bits'[x] <= BellmanFord[Round][x]
  <2>1. distance_bits[x] <= BellmanFord[Round][x]
    BY <1>2 DEF IInv, RoundInv
  <2>2. /\ distance_bits[x] \in Int /\ distance_bits'[x] \in Int
        /\ BellmanFord[Round][x] \in Int
    BY <1>2, <1>3 DEF Assignments, Distances
  <2>3. QED
    BY <1>3, <2>1, <2>2
<1>15. ASSUME NEW f \in Admitted, Tried(f)' PROVE Settled(f)'
  <2>1. Offer(f)' = Offer(f)
    BY <1>1 DEF Offer, Round
  <2>2. distance_bits'[Destination[f]] <= Offer(f)
    <3>1. CASE f = e
      BY <1>3, <3>1
    <3>2. CASE f # e
      <4>1. Tried(f)
        <5>1. CASE Owner(Source[f]) # t
          BY <1>8, <1>15, <5>1, UntouchedFacts, OwnerFacts
        <5>2. CASE Owner(Source[f]) = t
          <6>1. Owner(Source[f])' = t
            BY <5>2 DEF Owner
          <6>2. QED
            BY <1>0, <1>9, <1>15, <3>2, <5>2, <6>1 DEF Tried, Working, e
        <5>3. QED
          BY <5>1, <5>2
      <4>2. distance_bits[Destination[f]] <= Offer(f)
        BY <1>2, <4>1 DEF IInv, RoundInv, Settled
      <4>3. /\ Destination[f] \in Vertices
            /\ distance_bits[Destination[f]] \in Int
            /\ distance_bits'[Destination[f]] \in Int
            /\ Offer(f) \in Int
        BY <1>2, <1>3, AdmittedEdge, PlusType DEF Offer, Assignments, Distances
      <4>4. QED
        BY <1>3, <4>2, <4>3
    <3>3. QED
      BY <3>1, <3>2
  <2>3. QED
    BY <1>11, <2>1, <2>2 DEF Settled
\* Nothing is left to lower once every vertex of the box has had its round.
<1>16. ~(Round >= SelectedVertexCount - 1)
  <2> SUFFICES ASSUME Round >= SelectedVertexCount - 1 PROVE FALSE
    OBVIOUS
  <2>1. IsShortest(distance_bits)
    BY <1>2, LateIsShortest DEF IInv, RoundInv
  <2>2. distance_bits[v] <= Plus(distance_bits[Source[e]], Weight[e])
    BY <1>3, <2>1 DEF IsShortest, Potentials, Relaxed
  <2>3. /\ distance_bits[v] \in Int /\ candidate[t] \in Int
        /\ Plus(distance_bits[Source[e]], Weight[e]) \in Int
    BY <1>2, <1>3, PlusType DEF Assignments, Distances
  <2>4. QED
    BY <1>3, <2>2, <2>3
<1>17. RoundInv'
  <2>1. Round' = Round /\ run_lane_masks' = Admitted
    BY <1>1, <1>2 DEF Round, IInv, RoundInv
  <2>2. QED
    BY <1>12, <1>13, <1>14, <1>15, <1>16, <2>1 DEF RoundInv
<1>18. EndInv'
  <2>1. controller.stop_reason = "none"
    BY <1>2 DEF IInv, GridInv, SoundController, RunningSound
  <2>2. QED
    BY <1>1, <1>2, <2>1 DEF IInv, EndInv, Round
<1>19. QED
  BY <1>5, <1>6, <1>7, <1>10, <1>17, <1>18 DEF IInv

LEMMA CompareAndSwapPreserves ==
  ASSUME IInv, NEW t \in Threads, CompareAndSwap(t) PROVE IInv'
<1> DEFINE preceding == distance_bits[Destination[edge[t]]]
<1>1. /\ pc[t] = "cas"
      /\ UNCHANGED <<run_lane_masks, controller, run_options, status, stage, vertex,
                     edge>>
      /\ \/ /\ preceding = observed[t]
            /\ distance_bits' = [distance_bits EXCEPT
                                   ![Destination[edge[t]]] = candidate[t]]
            /\ changed' = [changed EXCEPT ![t] = TRUE]
            /\ LeaveEdge(t)
         \/ /\ candidate[t] < preceding
            /\ observed' = [observed EXCEPT ![t] = preceding]
            /\ UNCHANGED <<distance_bits, pc, candidate, changed>>
         \/ /\ candidate[t] >= preceding
            /\ LeaveEdge(t)
            /\ UNCHANGED <<distance_bits, changed>>
  BY DEF CompareAndSwap, AtOperation, hostVars
<1>2. CASE Lowering(t)
  BY <1>2, LoweringPreserves
<1>3. CASE /\ candidate[t] < preceding
           /\ observed' = [observed EXCEPT ![t] = preceding]
           /\ UNCHANGED <<distance_bits, pc, candidate, changed>>
  <2>1. pc' = [pc EXCEPT ![t] = "cas"]
    BY <1>1, <1>3 DEF IInv, GridInv
  <2>2. QED
    BY <1>1, <1>3, <2>1, AttemptPreserves
<1>4. CASE /\ candidate[t] >= preceding
           /\ LeaveEdge(t)
           /\ UNCHANGED <<distance_bits, changed>>
  <2>1. candidate[t] \in Int /\ preceding \in Int
    <3>1. /\ distance_bits \in Assignments /\ candidate \in [Threads -> Distances]
          /\ EdgeOf(t)
      BY <1>1, AtWork DEF Working
    <3>2. Destination[edge[t]] \in Vertices
      BY <1>1, <3>1, AdmittedEdge DEF EdgeOf
    <3>3. QED
      BY <3>1, <3>2 DEF Assignments, Distances
  <2>2. preceding <= candidate[t]
    BY <1>4, <2>1
  <2>3. QED
    BY <1>1, <1>4, <2>2, FutilePreserves
<1>5. QED
  BY <1>1, <1>2, <1>3, <1>4 DEF Lowering

-----------------------------------------------------------------------------
(***************************************************************************)
(* Blocks, the barrier and the host                                        *)
(***************************************************************************)
\* A thread between strides has nothing in flight.
LEMMA Resting ==
  ASSUME NEW t \in Threads, pc[t] \notin {"scan", "load", "cas"}
  PROVE  /\ Flight(t)
         /\ EdgeOf(t) <=> edge[t] = 0
BY DEF Flight, EdgeOf, Working

LEMMA ReducePreserves ==
  ASSUME IInv, NEW b \in Blocks, Reduce(b) PROVE IInv'
<1>1. /\ stage = "round" /\ stage' = "round"
      /\ \A t \in Members(b) : pc[t] = "reduce"
      /\ pc' = [t \in Threads |-> IF t \in Members(b) THEN "sync" ELSE pc[t]]
      /\ changed' = [t \in Threads |-> IF t \in Members(b) THEN FALSE
                                                           ELSE changed[t]]
      /\ UNCHANGED <<run_lane_masks, run_options, vertex, distance_bits, edge,
                     candidate, observed>>
  BY DEF Reduce, ReduceBlock, hostVars, relaxVars
<1>2. GridInv'
  BY GridReduce DEF IInv, Reduce
<1>3. RaisedBy(controller, controller', BlockChanged(b))
  BY ReduceEffect DEF IInv, Reduce
<1>4. TypeInv'
  BY <1>1 DEF IInv, TypeInv
<1>5. /\ controller'.done <=> controller.done
      /\ controller'.rounds_completed = controller.rounds_completed
      /\ controller'.stop_reason = controller.stop_reason
      /\ controller'.maximum_rounds = controller.maximum_rounds
      /\ controller'.changed_lane_mask =
           IF BlockChanged(b) THEN {0} ELSE controller.changed_lane_mask
  BY <1>3 DEF RaisedBy, SameSetup
<1>6. Quiet' <=> Quiet
  <2>1. CASE BlockChanged(b)
    BY <1>1, <1>5, <2>1 DEF Quiet, BlockChanged, Members
  <2>2. CASE ~BlockChanged(b)
    BY <1>1, <1>5, <2>2 DEF Quiet, BlockChanged, Members
  <2>3. QED
    BY <2>1, <2>2
<1>7. \A t \in Threads : t \notin Members(b) => Untouched(t)
  BY <1>1 DEF Untouched
<1>8. ASSUME NEW t \in Threads PROVE EdgeOf(t)' /\ Flight(t)'
  <2>1. CASE t \in Members(b)
    <3>1. pc'[t] = "sync" /\ edge'[t] = 0
      BY <1>1, <2>1 DEF IInv, EdgeInv, EdgeOf, Working
    <3>2. QED
      BY <3>1 DEF EdgeOf, Flight
  <2>2. CASE t \notin Members(b)
    <3>1. EdgeOf(t)'
      BY <1>7, <2>2, UntouchedFacts DEF IInv, EdgeInv
    <3>2. Flight(t)'
      <4>1. \A e : Offer(e)' = Offer(e)
        BY <1>5 DEF Offer, Round
      <4>2. Flight(t)
        BY <1>1 DEF IInv, RoundInv
      <4>3. /\ pc'[t] = pc[t] /\ edge'[t] = edge[t] /\ candidate'[t] = candidate[t]
            /\ observed'[t] = observed[t] /\ distance_bits' = distance_bits
        BY <1>1, <2>2
      <4>4. QED
        BY <1>6, <4>1, <4>2, <4>3 DEF Flight
    <3>3. QED
      BY <3>1, <3>2
  <2>3. QED
    BY <2>1, <2>2
<1>9. ASSUME NEW e \in Admitted, Tried(e)' PROVE Tried(e)
  <2>1. Owner(Source[e])' = Owner(Source[e])
    BY DEF Owner
  <2>2. CASE Owner(Source[e]) \in Members(b)
    BY <1>1, <2>2 DEF Tried
  <2>3. CASE Owner(Source[e]) \notin Members(b)
    BY <1>7, <1>9, <2>3, OwnerFacts, UntouchedFacts
  <2>4. QED
    BY <2>2, <2>3
<1>10. StartInv' /\ RoundInv' /\ EndInv'
  BY <1>1, <1>5, <1>6, <1>8, <1>9, Carried DEF Round
<1>11. QED
  BY <1>2, <1>4, <1>8, <1>10 DEF IInv, EdgeInv

\* Between rounds, and after the last one, all threads rest.
LEMMA RestingPreserves ==
  ASSUME IInv, stage # "initialize", stage' # "initialize",
         \A t \in Threads : pc[t] \in {"enter", "sync"} /\ pc'[t] = "enter",
         UNCHANGED <<run_lane_masks, controller, run_options, distance_bits, edge,
                     candidate, observed, changed>>,
         stage' = "exit" => status' = CompletedStatus(distance_bits, Targets)
  PROVE  TypeInv' /\ StartInv' /\ EdgeInv' /\ RoundInv' /\ EndInv'
<1>1. TypeInv'
  BY DEF IInv, TypeInv
<1>2. \A t \in Threads : edge[t] = 0
  BY DEF IInv, EdgeInv, EdgeOf, Working
<1>3. \A t \in Threads : EdgeOf(t)' /\ Flight(t)'
  BY <1>2 DEF EdgeOf, Flight
<1>4. \A e \in Admitted : ~Tried(e)'
  <2>1. \A e \in Admitted : Owner(Source[e])' = Owner(Source[e])
    BY DEF Owner
  <2>2. QED
    BY <2>1, OwnerFacts DEF Tried, Working
<1>5. Quiet' <=> Quiet
  BY DEF Quiet
<1>6. CompletedStatus(distance_bits, Targets)' = CompletedStatus(distance_bits, Targets)
  BY DEF CompletedStatus
<1>7. StartInv' /\ RoundInv' /\ EndInv'
  BY <1>3, <1>4, <1>5, <1>6, Carried DEF Round
<1>8. QED
  BY <1>1, <1>3, <1>7 DEF EdgeInv

LEMMA PollPreserves ==
  ASSUME IInv, Poll PROVE IInv'
<1>1. /\ stage = "poll" /\ stage' \in {"finalize", "round"}
      /\ UNCHANGED <<run_lane_masks, controller, run_options, pc, changed,
                     distance_bits, edge, candidate, observed>>
  BY DEF Poll, HostPoll, relaxVars
<1>2. \A t \in Threads : pc[t] = "enter"
  BY <1>1 DEF IInv, GridInv
<1>3. TypeInv' /\ StartInv' /\ EdgeInv' /\ RoundInv' /\ EndInv'
  BY <1>1, <1>2, RestingPreserves
<1>4. QED
  BY <1>3, GridPoll DEF IInv, Poll

LEMMA FinalizePreserves ==
  ASSUME IInv, Finalize PROVE IInv'
<1>1. /\ stage = "finalize" /\ stage' = "exit"
      /\ status' = CompletedStatus(distance_bits, Targets)
      /\ UNCHANGED <<run_lane_masks, controller, run_options, pc, changed,
                     distance_bits, edge, candidate, observed>>
  BY DEF Finalize, FinalizeWith, relaxVars
<1>2. \A t \in Threads : pc[t] = "enter"
  BY <1>1 DEF IInv, GridInv
<1>3. TypeInv' /\ StartInv' /\ EdgeInv' /\ RoundInv' /\ EndInv'
  BY <1>1, <1>2, RestingPreserves
<1>4. QED
  BY <1>3, GridFinalize DEF IInv, Finalize

LEMMA StutterPreserves ==
  ASSUME IInv, UNCHANGED vars PROVE IInv'
<1>1. UNCHANGED <<run_options, run_lane_masks, controller, status, stage, pc,
                  vertex, changed, distance_bits, edge, candidate, observed>>
  BY DEF vars, gridVars, relaxVars
<1>2. GridInv'
  BY <1>1, GridStutter DEF IInv
<1>3. TypeInv'
  BY <1>1 DEF IInv, TypeInv
<1>4. StartInv'
  BY <1>1 DEF IInv, StartInv, Owner
<1>5. \A t \in Threads : Untouched(t) /\ EdgeOf(t)'
  BY <1>1, UntouchedFacts DEF IInv, EdgeInv, Untouched
<1>6. Quiet' <=> Quiet
  BY <1>1 DEF Quiet
<1>7. RoundInv'
  <2> SUFFICES ASSUME stage # "initialize" PROVE RoundInv'
    BY <1>1 DEF RoundInv
  <2>1. \A t \in Threads : Flight(t)'
    BY <1>1, <1>5, <1>6, UntouchedFlight DEF IInv, RoundInv
  <2>2. \A e \in Admitted : Tried(e)' => Tried(e)
    BY <1>5, UntouchedFacts, OwnerFacts
  <2>3. \A e \in Admitted : Settled(e) => Settled(e)'
    BY <1>1, <1>6 DEF Settled, Offer, Round, Relaxed
  <2>4. QED
    BY <1>1, <1>6, <2>1, <2>2, <2>3 DEF IInv, RoundInv, Round
<1>8. EndInv'
  BY <1>1 DEF IInv, EndInv, CompletedStatus, Round
<1>9. QED
  BY <1>2, <1>3, <1>4, <1>5, <1>7, <1>8 DEF IInv, EdgeInv

-----------------------------------------------------------------------------
(***************************************************************************)
(* The end of a round                                                      *)
(***************************************************************************)
\* At the barrier every edge has had its turn.
LEMMA RoundIsComplete ==
  ASSUME IInv, stage = "round", ~controller.done,
         \A t \in Threads : pc[t] = "sync"
  PROVE  /\ controller.changed_lane_mask = {} <=> Quiet
         /\ \A v \in Vertices : distance_bits[v] <= BellmanFord[Round + 1][v]
         /\ Quiet => \A e \in Admitted : Relaxed(distance_bits, e)
<1>1. \A e \in Admitted : Settled(e)
  BY OwnerFacts DEF Tried, IInv, RoundInv
<1>2. \A t \in Threads : ~changed[t]
  BY DEF IInv, GridInv, Working
<1>3. Round \in Nat
  BY DEF IInv, GridInv, SoundController, DeviceControllers, Round
<1>4. /\ BellmanFord[Round] \in Assignments
      /\ BellmanFord[Round + 1] = BellmanFordRound(BellmanFord[Round])
  BY <1>3, BellmanFordRounds
<1>5. ASSUME NEW v \in Vertices PROVE distance_bits[v] <= BellmanFord[Round + 1][v]
  <2>1. \/ BellmanFord[Round + 1][v] = BellmanFord[Round][v]
        \/ \E e \in Admitted : /\ Destination[e] = v
                               /\ BellmanFord[Round + 1][v] = Offer(e)
    BY <1>4, RoundFacts DEF Offer
  <2>2. distance_bits[v] <= BellmanFord[Round][v]
    BY DEF IInv, RoundInv
  <2>3. QED
    BY <1>1, <2>1, <2>2 DEF Settled
<1>6. QED
  BY <1>1, <1>2, <1>5 DEF Quiet, Settled

LEMMA AdvanceFacts ==
  ASSUME IInv, AdvanceController
  PROVE  /\ stage = "round" /\ stage' # "initialize" /\ stage' # "exit"
         /\ \A t \in Threads : pc[t] = "sync" /\ pc'[t] = "enter"
         /\ UNCHANGED <<run_lane_masks, run_options, status, changed, distance_bits,
                        edge, candidate, observed>>
         /\ GridInv'
         /\ controller.done => controller' = controller
         /\ ~controller.done => Advanced(controller, controller')
<1> DEFINE next == AdvanceDenseController(controller)
<1>1. /\ stage = "round" /\ stage' \in {"finalize", "round", "poll"}
      /\ \A t \in Threads : pc[t] = "sync"
      /\ controller' = next
      /\ pc' = [t \in Threads |-> "enter"]
      /\ UNCHANGED <<run_lane_masks, run_options, status, changed, distance_bits,
                     edge, candidate, observed>>
  BY DEF AdvanceController, AdvanceTo, relaxVars
<1>2. SoundController(controller) /\ controller.engine_kind = "dense_chaotic_push"
  BY DEF IInv, GridInv, TypeInv
<1>3. controller.done => next = controller
  BY DEF AdvanceDenseController
<1>4. ~controller.done => Advanced(controller, next) /\ SameSlots(controller, next)
  BY <1>2, DenseAdvance
<1> HIDE DEF next
<1>5. ~controller.done => SoundSlots(next)
  BY <1>2, <1>4 DEF SoundController, SoundSlots, Advanced, SameSetup, SameSlots
<1>6. GridInv'
  BY <1>3, <1>4, <1>5, GridAdvance DEF IInv, AdvanceController, next
<1>7. QED
  BY <1>1, <1>3, <1>4, <1>6

LEMMA AdvancePreserves ==
  ASSUME IInv, AdvanceController PROVE IInv'
<1>1. /\ stage = "round" /\ stage' # "initialize" /\ stage' # "exit"
      /\ \A t \in Threads : pc[t] = "sync" /\ pc'[t] = "enter"
      /\ UNCHANGED <<run_lane_masks, run_options, status, changed, distance_bits,
                     edge, candidate, observed>>
      /\ GridInv'
      /\ controller.done => controller' = controller
      /\ ~controller.done => Advanced(controller, controller')
  BY AdvanceFacts
<1>2. CASE controller.done
  <2>1. controller' = controller
    BY <1>1, <1>2
  <2>2. TypeInv' /\ StartInv' /\ EdgeInv' /\ RoundInv' /\ EndInv'
    BY <1>1, <2>1, RestingPreserves
  <2>3. QED
    BY <1>1, <2>2 DEF IInv
<1>3. CASE ~controller.done
  <2>1. /\ Round \in Nat /\ Round' = Round + 1
        /\ controller'.changed_lane_mask = {}
        /\ controller'.maximum_rounds = controller.maximum_rounds
        /\ controller'.stop_reason \in {"converged", "maximum_rounds", "none"}
        /\ controller'.stop_reason = "converged" <=>
             controller.changed_lane_mask = {}
        /\ controller'.stop_reason = "maximum_rounds" =>
             Round' = controller.maximum_rounds
    BY <1>1, <1>3
    DEF IInv, GridInv, SoundController, DeviceControllers, Advanced, SameSetup, Round
  <2>2. /\ controller.changed_lane_mask = {} <=> Quiet
        /\ \A v \in Vertices : distance_bits[v] <= BellmanFord[Round + 1][v]
        /\ Quiet => \A e \in Admitted : Relaxed(distance_bits, e)
    BY <1>1, <1>3, RoundIsComplete
  <2>3. TypeInv'
    BY <1>1 DEF IInv, TypeInv
  <2>4. StartInv'
    BY <1>1 DEF StartInv
  <2>5. \A t \in Threads : edge[t] = 0 /\ ~changed[t]
    BY <1>1 DEF IInv, GridInv, EdgeInv, EdgeOf, Working
  <2>6. \A t \in Threads : EdgeOf(t)' /\ Flight(t)'
    BY <1>1, <2>5 DEF EdgeOf, Flight
  <2>7. \A e \in Admitted : ~Tried(e)'
    <3>1. \A e \in Admitted : Owner(Source[e])' = Owner(Source[e])
      BY DEF Owner
    <3>2. QED
      BY <1>1, <3>1, OwnerFacts DEF Tried, Working
  <2>8. Quiet'
    BY <1>1, <2>1, <2>5 DEF Quiet
  <2>9. RoundInv'
    BY <1>1, <2>1, <2>2, <2>6, <2>7, <2>8 DEF IInv, RoundInv
  <2>10. controller'.stop_reason = "converged" => IsShortest(distance_bits)
    BY <1>1, <2>1, <2>2, SqueezedIsShortest DEF IInv, RoundInv, TypeInv
  <2>11. ASSUME controller'.stop_reason = "maximum_rounds"
         PROVE  controller.maximum_rounds < SelectedVertexCount
    <3>1. ~Quiet /\ Round + 1 = controller.maximum_rounds
      BY <2>1, <2>2, <2>11
    <3>2. ~(Round >= SelectedVertexCount - 1)
      BY <1>1, <1>3, <3>1 DEF IInv, RoundInv
    <3>3. QED
      BY <2>1, <3>1, <3>2, SelectedCountFacts
  <2>12. EndInv'
    <3>1. controller'.stop_reason = "converged" => IsShortest(distance_bits)'
      BY <1>1, <2>10
    <3>2. /\ Round' <= SelectedVertexCount
          /\ ~controller'.done => Round' < SelectedVertexCount
      <4>1. Round < SelectedVertexCount
        BY <1>3 DEF IInv, EndInv
      <4>2. ~controller'.done => ~(Round >= SelectedVertexCount - 1)
        BY <1>1, <1>3, <2>2 DEF IInv, RoundInv, Advanced
      <4>3. QED
        BY <2>1, <4>1, <4>2, SelectedCountFacts
    <3>3. QED
      BY <1>1, <2>1, <2>11, <3>1, <3>2 DEF EndInv
  <2>13. QED
    BY <1>1, <2>3, <2>4, <2>6, <2>9, <2>12 DEF IInv, EdgeInv
<1>4. QED
  BY <1>2, <1>3

-----------------------------------------------------------------------------
(***************************************************************************)
(* The theorems about the states of a run                                  *)
(***************************************************************************)
LEMMA NextPreserves ==
  ASSUME IInv, [Next]_vars PROVE IInv'
<1>1. CASE UNCHANGED vars
  BY <1>1, StutterPreserves
<1>2. ASSUME NEW t \in Threads, ThreadStep(t) PROVE IInv'
  BY <1>2, InitializePreserves, EnterPreserves, LoadSourcePreserves,
     FinishRowPreserves, FinishStridePreserves, LoadDestinationPreserves,
     CompareAndSwapPreserves DEF ThreadStep
<1>3. CASE GridStep
  BY <1>3, ReducePreserves, FinishInitializePreserves, AdvancePreserves,
     PollPreserves, FinalizePreserves DEF GridStep
<1>4. CASE Terminated
  BY <1>4, StutterPreserves DEF Terminated
<1>5. QED
  BY <1>1, <1>2, <1>3, <1>4 DEF Next

\* The invariant holds in every run, whatever the order in which the atomic
\* operations of the threads take effect.
THEOREM Invariant == Spec => []IInv
BY InitHolds, NextPreserves, PTL DEF Spec

\* No interleaving of the atomic minima leaves a distance behind the round of
\* synchronous Bellman-Ford the controller has counted
\* (perform_dense_round_thread_work).
THEOREM RoundsAreDominated == Spec => []RoundsDominateBellmanFord
<1>1. IInv => RoundsDominateBellmanFord
  BY DEF IInv, RoundInv, RoundsDominateBellmanFord, AtRoundBoundary, Round
<1>2. QED
  BY <1>1, Invariant, PTL

\* A run that reports convergence holds the shortest distances, and its status
\* calls a query reached, or cut off by the bounding box, exactly when the
\* reference distances do, whatever its targets
\* (finalize_dense_status).
THEOREM StatusIsTrue == Spec => []StatusTellsTheTruth
<1>1. ASSUME IInv PROVE StatusTellsTheTruth
  <2>1. controller.stop_reason = "converged" => IsShortest(distance_bits)
    BY <1>1 DEF IInv, EndInv
  <2>2. stage = "exit" => status = CompletedStatus(distance_bits, Targets)
    BY <1>1 DEF IInv, EndInv
  <2>3. QED
    BY <1>1, <2>1, <2>2, TruthfulStatus DEF IInv, StatusTellsTheTruth
<1>2. QED
  BY <1>1, Invariant, PTL

\* The engine's own checks never fail, what the host validates is valid, and a
\* run takes at most one round per vertex of the bounding box
\* (advance_dense_controller, validate_device_controller).
THEOREM ControllerIsSound == Spec => []ControllerSound
<1>1. ASSUME IInv PROVE ControllerSound
  <2>1. SoundController(controller) /\ controller.error_bits = {}
    BY <1>1 DEF IInv, GridInv, SoundController
  <2>2. stage \in {"poll", "finalize", "exit"} => controller.changed_lane_mask = {}
    BY <1>1 DEF IInv, GridInv, SoundController, FinishedSound
  <2>3. stage \in {"poll", "finalize", "exit"} => ValidDeviceController(controller)
    BY <2>1, <2>2, SoundIsValid
  <2>4. /\ controller.rounds_completed <= SelectedVertexCount
        /\ controller.stop_reason = "maximum_rounds" =>
             controller.maximum_rounds < SelectedVertexCount
    BY <1>1 DEF IInv, EndInv, Round
  <2>5. QED
    BY <2>1, <2>3, <2>4 DEF ControllerSound
<1>2. QED
  BY <1>1, Invariant, PTL

-----------------------------------------------------------------------------
(***************************************************************************)
(* The engine implements Relaxation.                                       *)
(***************************************************************************)
Kept == UNCHANGED <<RelaxationDistances, RelaxationOutcome>>

\* The instance speaks of the same query.
LEMMA SameProblem ==
  /\ R!Vertices = Vertices /\ R!Distances = Distances
  /\ R!InitialDistance = InitialDistance
  /\ R!Admitted = Admitted
  /\ \A d, e : R!Relaxed(d, e) <=> Relaxed(d, e)
  /\ \A a, b : R!Plus(a, b) = Plus(a, b)
<1>1. R!Vertices = Vertices /\ R!Distances = Distances /\ R!Sources = Sources
  BY DEF R!Vertices, Vertices, R!Distances, Distances, R!Sources, Sources
<1>2. R!InitialDistance = InitialDistance
  BY <1>1 DEF R!InitialDistance, InitialDistance
<1>3. R!Admitted = Admitted
  BY DEF R!Admitted, Admitted, R!Edges, Edges, R!InSelectedTile, InSelectedTile
<1>4. \A d, e : R!Relaxed(d, e) <=> Relaxed(d, e)
  BY DEF R!Relaxed, Relaxed, R!Plus, Plus
<1>5. \A a, b : R!Plus(a, b) = Plus(a, b)
  BY DEF R!Plus, Plus
<1>6. QED
  BY <1>1, <1>2, <1>3, <1>4, <1>5

\* A successful compare-and-swap is a decrease its edge justifies.
LEMMA RelaxationLowering ==
  ASSUME IInv, NEW t \in Threads, Lowering(t) PROVE R!Relax
<1> DEFINE e == edge[t]
           v == Destination[e]
<1>1. pc[t] = "cas" /\ UNCHANGED <<controller, stage>>
  BY DEF Lowering
<1>2. stage = "round" /\ ~controller.done
  BY <1>1, AtWork DEF Working
<1>3. /\ RelaxationDistances = distance_bits /\ RelaxationDistances' = distance_bits'
      /\ RelaxationOutcome = "running" /\ RelaxationOutcome' = "running"
  BY <1>1, <1>2 DEF RelaxationDistances, RelaxationOutcome
<1>4. /\ e \in Admitted /\ v \in Vertices
      /\ candidate[t] < distance_bits[v]
      /\ Plus(distance_bits[Source[e]], Weight[e]) <= candidate[t]
      /\ distance_bits' \in Assignments
      /\ distance_bits'[v] = candidate[t]
      /\ \A x \in Vertices : x # v => distance_bits'[x] = distance_bits[x]
  BY LoweringFacts
<1>5. \A x \in Vertices : \/ distance_bits'[x] = distance_bits[x]
                          \/ R!Justified(x, distance_bits'[x])
  BY <1>3, <1>4, SameProblem DEF R!Justified
<1>6. distance_bits' \in [Vertices -> Distances]
  BY <1>4 DEF Assignments
<1>7. QED
  BY <1>3, <1>5, <1>6, SameProblem DEF R!Relax

\* Between two rounds the engine goes on, reports convergence when no edge can
\* lower a distance, or gives up.
LEMMA RelaxationAdvance ==
  ASSUME IInv, AdvanceController PROVE R!Converge \/ R!Stop \/ Kept
<1>1. /\ stage = "round" /\ stage' # "initialize"
      /\ \A t \in Threads : pc[t] = "sync"
      /\ distance_bits' = distance_bits
      /\ controller.done => controller' = controller
      /\ ~controller.done => Advanced(controller, controller')
  BY AdvanceFacts
<1>2. RelaxationDistances = distance_bits /\ RelaxationDistances' = distance_bits
  BY <1>1 DEF RelaxationDistances
<1>3. CASE controller.done \/ ~controller'.done
  <2>1. RelaxationOutcome' = RelaxationOutcome
    BY <1>1, <1>3 DEF RelaxationOutcome
  <2>2. QED
    BY <1>2, <2>1 DEF Kept
<1>4. CASE ~controller.done /\ controller'.done
  <2>1. RelaxationOutcome = "running"
    BY <1>4 DEF RelaxationOutcome
  <2>2. CASE controller.changed_lane_mask = {}
    <3>1. RelaxationOutcome' = "converged"
      BY <1>1, <1>4, <2>2 DEF RelaxationOutcome, Advanced
    <3>2. \A e \in Admitted : Relaxed(distance_bits, e)
      BY <1>1, <1>4, <2>2, RoundIsComplete
    <3>3. QED
      BY <1>2, <2>1, <3>1, <3>2, SameProblem DEF R!Converge
  <2>3. CASE controller.changed_lane_mask # {}
    <3>1. RelaxationOutcome' = "stopped"
      BY <1>1, <1>4, <2>3 DEF RelaxationOutcome, Advanced
    <3>2. QED
      BY <1>2, <2>1, <3>1 DEF R!Stop
  <2>4. QED
    BY <2>2, <2>3
<1>5. QED
  BY <1>3, <1>4

\* After the barrier the reset distances are the initial ones.
LEMMA RelaxationStart ==
  ASSUME IInv, FinishInitialize PROVE Kept
<1>1. /\ stage = "initialize" /\ stage' = "round"
      /\ \A t \in Threads : pc[t] = "sync"
      /\ controller' = controller /\ distance_bits' = distance_bits
  BY DEF FinishInitialize, BarrierAfterInitialize, relaxVars
<1>2. ~controller.done
  BY <1>1, FreshIsSound DEF IInv, GridInv
<1>3. distance_bits = InitialDistance
  <2>1. \A v \in Vertices : distance_bits[v] = InitialDistance[v]
    BY <1>1, OwnerFacts DEF IInv, StartInv
  <2>2. QED
    BY <2>1, InitialDistanceType DEF IInv, TypeInv, Assignments
<1>4. QED
  BY <1>1, <1>2, <1>3 DEF Kept, RelaxationDistances, RelaxationOutcome

LEMMA RelaxationStep ==
  ASSUME IInv, [Next]_vars PROVE R!Next \/ Kept
<1>1. ASSUME NEW t \in Threads, ThreadStep(t) PROVE R!Next \/ Kept
  <2>1. CASE InitializeVertices(t)
    BY <2>1 DEF InitializeVertices, InitializeController, Kept,
                RelaxationDistances, RelaxationOutcome
  <2>2. CASE CompareAndSwap(t) /\ Lowering(t)
    BY <2>2, RelaxationLowering DEF R!Next
  <2>3. CASE CompareAndSwap(t) /\ ~Lowering(t)
    <3>1. UNCHANGED <<distance_bits, controller, stage>>
      BY <2>3 DEF CompareAndSwap, Lowering, AtOperation, hostVars
    <3>2. QED
      BY <3>1 DEF Kept, RelaxationDistances, RelaxationOutcome
  <2>4. CASE \/ EnterRound(t) \/ LoadSource(t) \/ FinishRow(t) \/ FinishStride(t)
             \/ LoadDestination(t)
    <3>1. UNCHANGED <<distance_bits, controller, stage>>
      BY <2>4 DEF EnterRound, EnterSweep, LoadSource, FinishRow, FinishStride,
                  LoadDestination, relaxVars
    <3>2. QED
      BY <3>1 DEF Kept, RelaxationDistances, RelaxationOutcome
  <2>5. QED
    BY <1>1, <2>1, <2>2, <2>3, <2>4 DEF ThreadStep
<1>2. ASSUME NEW b \in Blocks, Reduce(b) PROVE Kept
  <2>1. /\ controller'.done <=> controller.done
        /\ controller'.stop_reason = controller.stop_reason
    BY <1>2, ReduceEffect DEF IInv, Reduce, RaisedBy
  <2>2. UNCHANGED <<stage, distance_bits>>
    BY <1>2 DEF Reduce, ReduceBlock, relaxVars
  <2>3. QED
    BY <2>1, <2>2 DEF Kept, RelaxationDistances, RelaxationOutcome
<1>3. CASE FinishInitialize
  BY <1>3, RelaxationStart
<1>4. CASE AdvanceController
  BY <1>4, RelaxationAdvance DEF R!Next
<1>5. CASE Poll \/ Finalize
  <2>1. /\ stage # "initialize" /\ stage' # "initialize"
        /\ UNCHANGED <<controller, distance_bits>>
    BY <1>5 DEF Poll, HostPoll, Finalize, FinalizeWith, relaxVars
  <2>2. QED
    BY <2>1 DEF Kept, RelaxationDistances, RelaxationOutcome
<1>6. CASE UNCHANGED vars
  BY <1>6 DEF vars, gridVars, relaxVars, Kept, RelaxationDistances,
              RelaxationOutcome
<1>7. QED
  BY <1>1, <1>2, <1>3, <1>4, <1>5, <1>6 DEF Next, GridStep, Terminated

\* The engine implements Relaxation: its atomic minima lower distances only to
\* values an admitted edge accounts for, and the controller reports convergence
\* only when no admitted edge can lower a distance.
THEOREM EngineIsRelaxation == Spec => ImplementsRelaxation
<1>1. Init => R!Init
  <2> SUFFICES ASSUME Init
               PROVE  RelaxationDistances = InitialDistance
                        /\ RelaxationOutcome = "running"
    BY SameProblem DEF R!Init
  <2>1. QED
    BY DEF Init, GridInit, RelaxationDistances, RelaxationOutcome
<1>2. IInv /\ [Next]_vars => [R!Next]_(R!relaxationVars)
  BY RelaxationStep DEF Kept, R!relaxationVars
<1>3. QED
  BY <1>1, <1>2, Invariant, PTL DEF Spec, ImplementsRelaxation, R!Spec

-----------------------------------------------------------------------------
(***************************************************************************)
(* What implementing Relaxation is worth: theorems about every behaviour   *)
(* of Relaxation, of this engine, of the frontier engine or of any other.  *)
(***************************************************************************)
VARIABLES any_distances, any_outcome

Any == INSTANCE Relaxation WITH distances <- any_distances,
                                outcome   <- any_outcome

LEMMA AnyIsSameProblem ==
  /\ Any!Vertices = Vertices /\ Any!Distances = Distances
  /\ Any!Sources = Sources /\ Any!Potentials = Potentials
  /\ Any!InitialDistance = InitialDistance
  /\ Any!Admitted = Admitted
  /\ \A d, e : Any!Relaxed(d, e) <=> Relaxed(d, e)
  /\ \A a, b : Any!Plus(a, b) = Plus(a, b)
<1>1. /\ Any!Vertices = Vertices /\ Any!Distances = Distances
      /\ Any!Sources = Sources
  BY DEF Any!Vertices, Vertices, Any!Distances, Distances, Any!Sources, Sources
<1>2. Any!InitialDistance = InitialDistance
  BY <1>1 DEF Any!InitialDistance, InitialDistance
<1>3. Any!Admitted = Admitted
  BY DEF Any!Admitted, Admitted, Any!Edges, Edges, Any!InSelectedTile, InSelectedTile
<1>4. \A d, e : Any!Relaxed(d, e) <=> Relaxed(d, e)
  BY DEF Any!Relaxed, Relaxed, Any!Plus, Plus
<1>5. \A a, b : Any!Plus(a, b) = Plus(a, b)
  BY DEF Any!Plus, Plus
<1>6. Any!Potentials = Potentials
  BY <1>1, <1>3, <1>4 DEF Any!Potentials, Potentials
<1>7. QED
  BY <1>1, <1>2, <1>3, <1>4, <1>5, <1>6

\* The distances stay distances and the outcome an outcome.
THEOREM RelaxationTypeCorrect == Any!Spec => []Any!TypeOK
<1>1. Any!Init => Any!TypeOK
  BY InitialDistanceType, AnyIsSameProblem DEF Any!Init, Any!TypeOK
<1>2. Any!TypeOK /\ [Any!Next]_(Any!relaxationVars) => Any!TypeOK'
  BY DEF Any!TypeOK, Any!Next, Any!Relax, Any!Converge, Any!Stop, Any!relaxationVars
<1>3. QED
  BY <1>1, <1>2, PTL DEF Any!Spec

\* A justified decrease stays above every potential.
LEMMA JustifiedAbove ==
  ASSUME Any!TypeOK, Any!NeverBelowShortest,
         NEW v \in Vertices, NEW d \in Distances, Any!Justified(v, d),
         NEW p \in Potentials
  PROVE  p[v] <= d
<1>1. PICK e \in Admitted : /\ Destination[e] = v
                            /\ Plus(any_distances[Source[e]], Weight[e]) <= d
  BY AnyIsSameProblem DEF Any!Justified
<1> DEFINE u == Source[e]
           w == Weight[e]
<1>2. u \in Vertices /\ w \in 0 .. Infinity - 1
  BY AdmittedEdge
<1>3. p \in [Vertices -> Distances]
  BY DEF Potentials
<1>4. /\ any_distances[u] \in Distances
      /\ p[u] \in Distances /\ p[v] \in Distances
  BY <1>2, <1>3, AnyIsSameProblem DEF Any!TypeOK
<1>5. p[u] <= any_distances[u]
  BY <1>2, AnyIsSameProblem DEF Any!NeverBelowShortest
<1>6. Plus(p[u], w) <= Plus(any_distances[u], w)
  BY <1>2, <1>4, <1>5, PlusMonotone
<1>7. p[v] <= Plus(p[u], w)
  BY <1>1 DEF Potentials, Relaxed
<1>8. Plus(p[u], w) \in Distances /\ Plus(any_distances[u], w) \in Distances
  BY <1>2, <1>4, PlusType
<1>9. Plus(any_distances[u], w) <= d
  BY <1>1
<1> HIDE DEF u, w
<1>10. QED
  BY <1>4, <1>6, <1>7, <1>8, <1>9 DEF Distances

\* Whatever the schedule, no distance falls below a potential, hence none
\* falls below the shortest distance.
THEOREM RelaxationNeverBelow == Any!Spec => []Any!NeverBelowShortest
<1>1. Any!Init => Any!NeverBelowShortest
  BY InitialDistanceAbove, AnyIsSameProblem DEF Any!Init, Any!NeverBelowShortest
<1>2. Any!TypeOK /\ Any!TypeOK' /\ Any!NeverBelowShortest
        /\ [Any!Next]_(Any!relaxationVars) => Any!NeverBelowShortest'
  <2>1. ASSUME Any!TypeOK, Any!TypeOK', Any!NeverBelowShortest,
               [Any!Next]_(Any!relaxationVars),
               NEW p \in Potentials, NEW v \in Vertices
        PROVE  p[v] <= any_distances'[v]
    <3>1. p[v] <= any_distances[v]
      BY <2>1, AnyIsSameProblem DEF Any!NeverBelowShortest
    <3>2. CASE Any!Relax
      <4>1. CASE Any!Justified(v, any_distances'[v])
        <5>1. any_distances'[v] \in Distances
          BY <2>1, AnyIsSameProblem DEF Any!TypeOK
        <5>2. QED
          BY <2>1, <4>1, <5>1, JustifiedAbove
      <4>2. QED
        BY <3>1, <3>2, <4>1, AnyIsSameProblem DEF Any!Relax
    <3>3. CASE UNCHANGED any_distances
      BY <3>1, <3>3
    <3>4. QED
      BY <2>1, <3>2, <3>3 DEF Any!Next, Any!Converge, Any!Stop, Any!relaxationVars
  <2>2. QED
    BY <2>1, AnyIsSameProblem DEF Any!NeverBelowShortest
<1>3. QED
  BY <1>1, <1>2, RelaxationTypeCorrect, PTL DEF Any!Spec

\* What the theorem below needs beside the lower bound: the sources keep
\* distance 0, and a converged result has no edge left to relax.
ConvergenceInvariant ==
  /\ \A v \in Sources : any_distances[v] = 0
  /\ any_outcome = "converged" => \A e \in Admitted : Relaxed(any_distances, e)

LEMMA ConvergenceInvariantHolds == Any!Spec => []ConvergenceInvariant
<1>1. Any!Init => ConvergenceInvariant
  BY SourcesAreVertices, AnyIsSameProblem
     DEF Any!Init, ConvergenceInvariant, InitialDistance
<1>2. Any!TypeOK /\ ConvergenceInvariant /\ [Any!Next]_(Any!relaxationVars)
        => ConvergenceInvariant'
  <2> SUFFICES ASSUME Any!TypeOK, ConvergenceInvariant,
                      [Any!Next]_(Any!relaxationVars)
               PROVE  ConvergenceInvariant'
    OBVIOUS
  <2>1. CASE Any!Relax
    <3>1. ASSUME NEW v \in Sources PROVE any_distances'[v] = 0
      <4>1. v \in Vertices /\ any_distances[v] = 0
        BY SourcesAreVertices DEF ConvergenceInvariant
      <4>2. any_distances'[v] \in Distances
        BY <2>1, <4>1, AnyIsSameProblem DEF Any!Relax
      <4>3. ~Any!Justified(v, any_distances'[v])
        BY <4>1, <4>2, GraphAssumption DEF Any!Justified, Distances
      <4>4. QED
        BY <2>1, <4>1, <4>3, AnyIsSameProblem DEF Any!Relax
    <3>2. QED
      BY <2>1, <3>1 DEF ConvergenceInvariant, Any!Relax
  <2>2. CASE Any!Converge
    BY <2>2, AnyIsSameProblem DEF Any!Converge, ConvergenceInvariant, Relaxed
  <2>3. CASE Any!Stop
    BY <2>3 DEF Any!Stop, ConvergenceInvariant
  <2>4. CASE UNCHANGED Any!relaxationVars
    BY <2>4 DEF Any!relaxationVars, ConvergenceInvariant, Relaxed
  <2>5. QED
    BY <2>1, <2>2, <2>3, <2>4 DEF Any!Next
<1>3. QED
  BY <1>1, <1>2, RelaxationTypeCorrect, PTL DEF Any!Spec

\* An engine that implements Relaxation reports convergence only with the
\* shortest distances in place.
THEOREM RelaxationConvergedCorrect == Any!Spec => []Any!ConvergedIsShortest
<1>1. Any!TypeOK /\ Any!NeverBelowShortest /\ ConvergenceInvariant
        => Any!ConvergedIsShortest
  BY AnyIsSameProblem
     DEF Any!TypeOK, Any!NeverBelowShortest, ConvergenceInvariant,
         Any!ConvergedIsShortest, Any!IsShortest, Potentials
<1>2. QED
  BY <1>1, RelaxationTypeCorrect, RelaxationNeverBelow, ConvergenceInvariantHolds, PTL
=============================================================================
