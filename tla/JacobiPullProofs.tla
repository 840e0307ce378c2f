--------------------------- MODULE JacobiPullProofs ---------------------------
(***************************************************************************)
(* Proofs about JacobiPull for every graph, query, grid size and control   *)
(* mode: a round of the engine is a round of synchronous Bellman-Ford.     *)
(***************************************************************************)
EXTENDS JacobiPull, SweepEngineProofs

-----------------------------------------------------------------------------
(***************************************************************************)
(* The inductive invariant                                                 *)
(***************************************************************************)
Round   == controller.rounds_completed
ReadOf  == controller.distance_read_slot
WriteOf == controller.distance_write_slot

\* The thread that owns a vertex.
Owner(v) == v % ThreadCount

\* Vertex v has had its turn in the round.
Passed(v) ==
  \/ pc[Owner(v)] \in {"reduce", "sync"}
  \/ pc[Owner(v)] = "scan" /\ v < vertex[Owner(v)]

Computing == stage = "round" /\ ~controller.done

\* No thread has seen a distance change in the round.
Quiet == controller.changed_lane_mask = {} /\ \A t \in Threads : ~changed[t]

TypeInv ==
  /\ run_options.engine = "jacobi_pull"
  /\ distance_slots \in [Slots -> Assignments]
  /\ \A t \in Threads : pc[t] \notin {"load", "cas"}

\* A thread that has left the initialization has seeded its vertices and marked
\* their columns, and no other thread touches them.
StartInv ==
  stage = "initialize" =>
    /\ run_lane_masks =
         {e \in Admitted : pc[Owner(Destination[e])] = "sync"}
    /\ \A v \in Vertices : pc[Owner(v)] = "sync" =>
         \A slot \in Slots : distance_slots[slot][v] = InitialDistance[v]

\* The read slot holds the round that is complete, the write slot as much of
\* the next one as the threads have got to; vertices outside the bounding box
\* are never written.  Nothing was improved unless a flag says so, and nothing
\* is once every vertex of the box has had its round.
RoundInv ==
  stage # "initialize" =>
    /\ run_lane_masks = Admitted
    /\ \A slot \in Slots : \A v \in Vertices :
         ~InSelectedTile(v) => distance_slots[slot][v] = InitialDistance[v]
    /\ ReadDistances = BellmanFord[Round]
    /\ Computing => \A v \in Vertices : Passed(v) =>
         /\ distance_slots[WriteOf][v] = BellmanFord[Round + 1][v]
         /\ Quiet => BellmanFord[Round + 1][v] = BellmanFord[Round][v]
    /\ ~controller.done /\ Round >= SelectedVertexCount - 1 => Quiet

\* What the run leaves behind, and how many rounds it takes.
EndInv ==
  /\ Round <= SelectedVertexCount
  /\ ~controller.done => Round < SelectedVertexCount
  /\ controller.stop_reason = "converged" =>
       /\ stage # "initialize"
       /\ IsShortest(ReadDistances)
       /\ distance_slots[0] = distance_slots[1]
  /\ controller.stop_reason = "maximum_rounds" =>
       controller.maximum_rounds < SelectedVertexCount
  /\ stage = "exit" => status = CompletedStatus(ReadDistances, Targets)

IInv == GridInv /\ TypeInv /\ StartInv /\ RoundInv /\ EndInv

-----------------------------------------------------------------------------
LEMMA SlotFacts ==
  ASSUME GridInv, TypeInv
  PROVE  /\ ReadOf \in Slots /\ WriteOf \in Slots /\ ReadOf # WriteOf
         /\ Slots = {ReadOf, WriteOf}
         /\ Round \in Nat
         /\ controller.engine_kind = "jacobi_pull"
         /\ ReadDistances = distance_slots[ReadOf]
BY DEF GridInv, TypeInv, SoundController, SoundSlots, DeviceControllers, Slots,
       ReadOf, WriteOf, Round, ReadDistances

\* Outside the bounding box no round changes anything.
LEMMA OutsideStays ==
  ASSUME NEW d \in Assignments, NEW v \in Vertices, ~InSelectedTile(v)
  PROVE  BellmanFordRound(d)[v] = d[v]
BY RoundFacts DEF Admitted

\* A round that changes nothing has found the shortest distances.
LEMMA StableIsShortest ==
  ASSUME NEW k \in Nat, BellmanFord[k + 1] = BellmanFord[k]
  PROVE  IsShortest(BellmanFord[k])
<1> DEFINE d == BellmanFord[k]
<1>1. d \in Assignments /\ BellmanFordRound(d) = d
  BY BellmanFordRounds
<1>2. \A p \in Potentials : \A v \in Vertices : p[v] <= d[v]
  BY BellmanFordAbove
<1> HIDE DEF d
<1>3. \A e \in Admitted : Relaxed(d, e)
  BY <1>1, RoundFacts, AdmittedEdge DEF Relaxed
<1>4. \A v \in Sources : d[v] = 0
  <2>1. \A v \in Sources : d[v] <= InitialDistance[v]
    BY BellmanFordFalls, SourcesAreVertices DEF d
  <2>2. \A v \in Sources : d[v] \in Nat /\ InitialDistance[v] = 0
    BY <1>1, SourcesAreVertices DEF Assignments, Distances, InitialDistance
  <2>3. QED
    BY <2>1, <2>2
<1>5. QED
  BY <1>1, <1>2, <1>3, <1>4 DEF IsShortest, Potentials, Assignments, d

-----------------------------------------------------------------------------
(***************************************************************************)
(* The invariant holds initially                                           *)
(***************************************************************************)
LEMMA InitHolds == Init => IInv
<1> SUFFICES ASSUME Init PROVE IInv
  OBVIOUS
<1>1. GridInit /\ GridInv /\ stage = "initialize"
  BY GridStart DEF Init, GridInit
<1>2. TypeInv
  <2>1. [v \in Vertices |-> 0] \in Assignments
    BY GraphAssumption DEF Assignments, Distances
  <2>2. QED
    BY <2>1 DEF Init, GridInit, TypeInv
<1>3. StartInv
  BY ThreadFacts, AdmittedEdge DEF Init, GridInit, StartInv, Owner
<1>4. controller.stop_reason = "none" /\ Round < SelectedVertexCount
        /\ Round <= SelectedVertexCount
  BY <1>1, FreshIsSound, SelectedCountFacts DEF GridInit, Round
<1>5. QED
  BY <1>1, <1>2, <1>3, <1>4 DEF IInv, RoundInv, EndInv

-----------------------------------------------------------------------------
(***************************************************************************)
(* Initialization                                                          *)
(***************************************************************************)
LEMMA InitializePreserves ==
  ASSUME IInv, NEW t \in Threads, InitializeVertices(t) PROVE IInv'
<1>1. /\ stage = "initialize" /\ stage' = stage /\ pc[t] = "enter"
      /\ pc' = [pc EXCEPT ![t] = "sync"]
      /\ run_options' = run_options
      /\ InitializeController(t)
  BY DEF InitializeVertices, InitializeController, hostVars
<1>2. GridInv'
  BY <1>1, GridInitialize DEF IInv
<1>3. \A v \in Vertices : v \in Stride(t) <=> Owner(v) = t
  BY DEF Stride, Owner
<1>4. \A v \in Vertices : Owner(v) \in Threads
  BY ThreadFacts DEF Owner
<1>5. pc \in [Threads -> Operations]
  BY DEF IInv, GridInv
<1>6. distance_slots' =
        [slot \in Slots |->
           [v \in Vertices |-> IF v \in Stride(t) THEN InitialDistance[v]
                                                  ELSE distance_slots[slot][v]]]
  BY DEF InitializeVertices
<1>7. TypeInv'
  <2>1. distance_slots' \in [Slots -> Assignments]
    BY <1>6, InitialDistanceType DEF IInv, TypeInv, Assignments
  <2>2. QED
    BY <1>1, <1>5, <2>1 DEF IInv, TypeInv
<1>8. run_lane_masks' = {e \in Admitted : pc'[Owner(Destination[e])] = "sync"}
  <2>1. run_lane_masks' = {e \in Edges : IF Destination[e] \in Stride(t)
                                           THEN RunMarked(e)
                                           ELSE e \in run_lane_masks}
    BY DEF InitializeVertices
  <2>2. run_lane_masks =
          {e \in Admitted : pc[Owner(Destination[e])] = "sync"}
    BY <1>1 DEF IInv, StartInv
  <2>3. ASSUME NEW e \in Edges
        PROVE  e \in run_lane_masks' <=>
                 e \in Admitted /\ pc'[Owner(Destination[e])] = "sync"
    <3>1. Destination[e] \in Vertices
      BY EdgeType
    <3>2. CASE Owner(Destination[e]) = t
      BY <1>1, <1>3, <1>5, <2>1, <3>1, <3>2 DEF RunMarked, Admitted
    <3>3. CASE Owner(Destination[e]) # t
      BY <1>1, <1>3, <1>4, <1>5, <2>1, <2>2, <3>1, <3>3
    <3>4. QED
      BY <3>2, <3>3
  <2>4. QED
    BY <2>1, <2>3 DEF Admitted
<1>9. ASSUME NEW v \in Vertices, pc'[Owner(v)] = "sync", NEW slot \in Slots
      PROVE  distance_slots'[slot][v] = InitialDistance[v]
  <2>1. CASE Owner(v) = t
    BY <1>3, <1>6, <2>1
  <2>2. CASE Owner(v) # t
    <3>1. pc[Owner(v)] = "sync"
      BY <1>1, <1>4, <1>5, <1>9, <2>2
    <3>2. distance_slots[slot][v] = InitialDistance[v]
      BY <1>1, <3>1 DEF IInv, StartInv
    <3>3. QED
      BY <1>3, <1>6, <2>2, <3>2
  <2>3. QED
    BY <2>1, <2>2
<1>10. StartInv'
  BY <1>8, <1>9 DEF StartInv
<1>11. controller'.stop_reason = "none" /\ Round' = 0
  <2>1. controller' = FreshController
    BY <1>1 DEF IInv, GridInv, InitializeController
  <2>2. QED
    BY <2>1, FreshIsSound DEF IInv, GridInv, Round
<1>12. QED
  BY <1>1, <1>2, <1>7, <1>10, <1>11, SelectedCountFacts DEF IInv, RoundInv, EndInv

LEMMA FinishInitializePreserves ==
  ASSUME IInv, FinishInitialize PROVE IInv'
<1>1. /\ stage = "initialize" /\ stage' = "round"
      /\ \A t \in Threads : pc[t] = "sync"
      /\ pc' = [t \in Threads |-> "enter"]
      /\ UNCHANGED <<run_lane_masks, controller, run_options, changed, distance_slots>>
  BY DEF FinishInitialize, BarrierAfterInitialize, hostVars
<1>2. GridInv'
  BY GridBarrier DEF IInv, FinishInitialize
<1>3. TypeInv'
  BY <1>1 DEF IInv, TypeInv
<1>4. /\ Round = 0 /\ controller.changed_lane_mask = {}
      /\ controller.stop_reason = "none"
  BY <1>1, FreshIsSound DEF IInv, GridInv, Round
<1>5. \A v \in Vertices : Owner(v) \in Threads
  BY ThreadFacts DEF Owner
<1>6. run_lane_masks = Admitted
  BY <1>1, <1>5, AdmittedEdge DEF IInv, StartInv
<1>7. \A slot \in Slots : \A v \in Vertices :
        distance_slots[slot][v] = InitialDistance[v]
  BY <1>1, <1>5 DEF IInv, StartInv
<1>8. ReadDistances = BellmanFord[Round]
  <2>1. ReadDistances \in Assignments
    BY SlotFacts DEF IInv, TypeInv
  <2>2. \A v \in Vertices : ReadDistances[v] = InitialDistance[v]
    BY <1>7, SlotFacts DEF IInv
  <2>3. ReadDistances = InitialDistance
    BY <2>1, <2>2, InitialDistanceType DEF Assignments
  <2>4. QED
    BY <1>4, <2>3, BellmanFordRounds
<1>9. Quiet'
  <2>1. \A t \in Threads : ~changed[t]
    BY <1>1 DEF IInv, GridInv, Working
  <2>2. QED
    BY <1>1, <1>4, <2>1 DEF Quiet
<1>10. \A v \in Vertices : ~Passed(v)'
  BY <1>1, <1>5 DEF Passed, Owner
<1>11. RoundInv'
  BY <1>1, <1>6, <1>7, <1>8, <1>9, <1>10 DEF RoundInv, ReadDistances, Round
<1>12. QED
  BY <1>1, <1>2, <1>3, <1>4, <1>11 DEF IInv, StartInv, EndInv, Round

-----------------------------------------------------------------------------
(***************************************************************************)
(* Rounds                                                                  *)
(***************************************************************************)
\* A step that touches no distance, and gets no vertex its turn, keeps what
\* the invariant says of the round.
LEMMA Carried ==
  ASSUME IInv, stage # "initialize", stage' # "initialize",
         UNCHANGED <<run_lane_masks, distance_slots>>,
         Round' = Round, ReadOf' = ReadOf, WriteOf' = WriteOf,
         controller'.done <=> controller.done,
         controller'.stop_reason = controller.stop_reason,
         controller'.maximum_rounds = controller.maximum_rounds,
         \A v \in Vertices : Computing' /\ Passed(v)' => Computing /\ Passed(v),
         ~controller.done => (Quiet' <=> Quiet),
         stage' = "exit" => status' = CompletedStatus(ReadDistances, Targets)'
  PROVE  StartInv' /\ RoundInv' /\ EndInv'
<1>1. ReadDistances' = ReadDistances
  BY DEF ReadDistances, ReadOf
<1>2. StartInv'
  BY DEF StartInv
<1>3. RoundInv
  BY DEF IInv
<1>4. ASSUME NEW v \in Vertices, Computing', Passed(v)'
      PROVE  /\ distance_slots'[WriteOf'][v] = BellmanFord[Round' + 1][v]
             /\ Quiet' => BellmanFord[Round' + 1][v] = BellmanFord[Round'][v]
  <2>1. Computing /\ Passed(v) /\ ~controller.done
    BY <1>4 DEF Computing
  <2>2. QED
    BY <1>3, <2>1 DEF RoundInv
<1>5. RoundInv'
  BY <1>1, <1>3, <1>4 DEF RoundInv
<1>6. EndInv'
  BY <1>1 DEF IInv, EndInv
<1>7. QED
  BY <1>2, <1>5, <1>6

LEMMA EnterPreserves ==
  ASSUME IInv, NEW t \in Threads, EnterRound(t) PROVE IInv'
<1>1. /\ stage = "round" /\ stage' = "round" /\ pc[t] = "enter"
      /\ pc' = [pc EXCEPT ![t] = IF Execute THEN "scan" ELSE "reduce"]
      /\ vertex' = [vertex EXCEPT ![t] = IF Execute THEN t ELSE 0]
      /\ changed' = [changed EXCEPT ![t] = FALSE]
      /\ UNCHANGED <<run_lane_masks, controller, run_options, distance_slots>>
  BY DEF EnterRound, EnterSweep, AtOperation, Goto, hostVars
<1>2. GridInv'
  BY GridEnter DEF IInv, EnterRound
<1>3. Execute <=> ~controller.done
  BY ExecuteMeaning DEF IInv
<1> HIDE DEF Execute
<1>4. /\ pc \in [Threads -> Operations] /\ vertex \in [Threads -> Nat]
      /\ changed \in [Threads -> BOOLEAN] /\ ~changed[t]
  BY <1>1 DEF IInv, GridInv, Working
<1>5. TypeInv'
  BY <1>1, <1>4 DEF IInv, TypeInv
<1>6. ASSUME NEW v \in Vertices, Computing', Passed(v)' PROVE Computing /\ Passed(v)
  <2>1. Computing /\ v \in Nat /\ Owner(v) \in Threads /\ ThreadCount \in Nat \ {0}
    BY <1>1, <1>6, ThreadFacts DEF Computing, Owner
  <2>2. CASE Owner(v) = t
    <3>1. pc'[t] = "scan" /\ vertex'[t] = t
      BY <1>1, <1>3, <1>4, <2>1 DEF Computing
    <3>2. t <= v
      BY <2>1, <2>2, ShareStarts DEF Owner, Threads
    <3>3. t \in Nat /\ ~(v < t)
      BY <2>1, <3>2, ThreadFacts
    <3>4. QED
      BY <1>6, <2>2, <3>1, <3>3 DEF Passed, Owner
  <2>3. CASE Owner(v) # t
    BY <1>1, <1>4, <1>6, <2>1, <2>3 DEF Passed, Owner
  <2>4. QED
    BY <2>2, <2>3
<1>7. Quiet' <=> Quiet
  BY <1>1, <1>4 DEF Quiet
<1>8. StartInv' /\ RoundInv' /\ EndInv'
  BY <1>1, <1>6, <1>7, Carried DEF Round, ReadOf, WriteOf
<1>9. QED
  BY <1>2, <1>5, <1>8 DEF IInv

LEMMA FinishStridePreserves ==
  ASSUME IInv, NEW t \in Threads, FinishStride(t) PROVE IInv'
<1>1. /\ stage = "round" /\ stage' = "round" /\ pc[t] = "scan"
      /\ vertex[t] >= VertexCount
      /\ pc' = [pc EXCEPT ![t] = "reduce"]
      /\ vertex' = [vertex EXCEPT ![t] = 0]
      /\ UNCHANGED <<run_lane_masks, controller, run_options, changed, distance_slots>>
  BY DEF FinishStride, AtOperation, Goto, hostVars
<1>2. /\ pc \in [Threads -> Operations] /\ vertex \in [Threads -> Nat]
      /\ changed \in [Threads -> BOOLEAN]
  BY DEF IInv, GridInv
<1>3. WorkStep(t)
  BY <1>1, <1>2 DEF WorkStep, Working
<1>4. GridInv'
  BY <1>3, GridWork DEF IInv
<1>5. TypeInv'
  BY <1>1, <1>2 DEF IInv, TypeInv
<1>6. ASSUME NEW v \in Vertices, Computing', Passed(v)' PROVE Computing /\ Passed(v)
  <2>1. Computing /\ Owner(v) \in Threads
    BY <1>1, <1>6, ThreadFacts DEF Computing, Owner
  <2>2. CASE Owner(v) = t
    <3>1. v < vertex[t]
      BY <1>1, <1>2, GraphAssumption DEF Vertices
    <3>2. QED
      BY <1>1, <2>1, <2>2, <3>1 DEF Passed
  <2>3. CASE Owner(v) # t
    BY <1>1, <1>2, <1>6, <2>1, <2>3 DEF Passed, Owner
  <2>4. QED
    BY <2>2, <2>3
<1>7. Quiet' <=> Quiet
  BY <1>1 DEF Quiet
<1>8. StartInv' /\ RoundInv' /\ EndInv'
  BY <1>1, <1>6, <1>7, Carried DEF Round, ReadOf, WriteOf
<1>9. QED
  BY <1>4, <1>5, <1>8 DEF IInv

LEMMA ReducePreserves ==
  ASSUME IInv, NEW b \in Blocks, Reduce(b) PROVE IInv'
<1>1. /\ stage = "round" /\ stage' = "round"
      /\ \A t \in Members(b) : pc[t] = "reduce"
      /\ pc' = [t \in Threads |-> IF t \in Members(b) THEN "sync" ELSE pc[t]]
      /\ changed' = [t \in Threads |-> IF t \in Members(b) THEN FALSE
                                                           ELSE changed[t]]
      /\ UNCHANGED <<run_lane_masks, run_options, vertex, distance_slots>>
  BY DEF Reduce, ReduceBlock, hostVars
<1>2. GridInv'
  BY GridReduce DEF IInv, Reduce
<1>3. RaisedBy(controller, controller', BlockChanged(b))
  BY ReduceEffect DEF IInv, Reduce
<1>4. TypeInv'
  BY <1>1 DEF IInv, TypeInv
<1>5. /\ controller'.done <=> controller.done
      /\ controller'.rounds_completed = controller.rounds_completed
      /\ controller'.distance_read_slot = controller.distance_read_slot
      /\ controller'.distance_write_slot = controller.distance_write_slot
      /\ controller'.stop_reason = controller.stop_reason
      /\ controller'.maximum_rounds = controller.maximum_rounds
      /\ controller'.changed_lane_mask =
           IF BlockChanged(b) THEN {0} ELSE controller.changed_lane_mask
  BY <1>3 DEF RaisedBy, SameSetup, SameSlots
<1>6. ASSUME NEW v \in Vertices, Computing', Passed(v)' PROVE Computing /\ Passed(v)
  <2>1. Computing /\ Owner(v) \in Threads
    BY <1>1, <1>5, <1>6, ThreadFacts DEF Computing, Owner
  <2>2. CASE Owner(v) \in Members(b)
    BY <1>1, <2>1, <2>2 DEF Passed
  <2>3. CASE Owner(v) \notin Members(b)
    BY <1>1, <1>6, <2>1, <2>3 DEF Passed, Owner
  <2>4. QED
    BY <2>2, <2>3
<1>7. Quiet' <=> Quiet
  <2>1. CASE BlockChanged(b)
    BY <1>1, <1>5, <2>1 DEF Quiet, BlockChanged, Members
  <2>2. CASE ~BlockChanged(b)
    BY <1>1, <1>5, <2>2 DEF Quiet, BlockChanged, Members
  <2>3. QED
    BY <2>1, <2>2
<1>8. StartInv' /\ RoundInv' /\ EndInv'
  BY <1>1, <1>5, <1>6, <1>7, Carried DEF Round, ReadOf, WriteOf
<1>9. QED
  BY <1>2, <1>4, <1>8 DEF IInv

LEMMA PollPreserves ==
  ASSUME IInv, Poll PROVE IInv'
<1>1. /\ stage = "poll" /\ stage' \in {"finalize", "round"}
      /\ UNCHANGED <<run_lane_masks, controller, run_options, pc, vertex, changed,
                     distance_slots>>
  BY DEF Poll, HostPoll
<1>2. GridInv'
  BY GridPoll DEF IInv, Poll
<1>3. TypeInv'
  BY <1>1 DEF IInv, TypeInv
<1>4. ASSUME NEW v \in Vertices PROVE ~Passed(v)'
  <2>1. Owner(v) \in Threads /\ Owner(v)' = Owner(v)
    BY ThreadFacts DEF Owner
  <2>2. pc'[Owner(v)] = "enter"
    BY <1>1, <2>1 DEF IInv, GridInv
  <2>3. QED
    BY <2>1, <2>2 DEF Passed
<1>5. Quiet' <=> Quiet
  BY <1>1 DEF Quiet
<1>6. StartInv' /\ RoundInv' /\ EndInv'
  BY <1>1, <1>4, <1>5, Carried DEF Round, ReadOf, WriteOf
<1>7. QED
  BY <1>2, <1>3, <1>6 DEF IInv

LEMMA FinalizePreserves ==
  ASSUME IInv, Finalize PROVE IInv'
<1>1. /\ stage = "finalize" /\ stage' = "exit"
      /\ status' = CompletedStatus(ReadDistances, Targets)
      /\ UNCHANGED <<run_lane_masks, controller, run_options, pc, vertex, changed,
                     distance_slots>>
  BY DEF Finalize, FinalizeWith
<1>2. GridInv'
  BY GridFinalize DEF IInv, Finalize
<1>3. TypeInv'
  BY <1>1 DEF IInv, TypeInv
<1>4. CompletedStatus(ReadDistances, Targets)' = CompletedStatus(ReadDistances, Targets)
  BY <1>1 DEF CompletedStatus, ReadDistances
<1>5. Quiet' <=> Quiet
  BY <1>1 DEF Quiet
<1>6. ~Computing'
  BY <1>1 DEF Computing
<1>7. StartInv' /\ RoundInv' /\ EndInv'
  BY <1>1, <1>4, <1>5, <1>6, Carried DEF Round, ReadOf, WriteOf
<1>8. QED
  BY <1>2, <1>3, <1>7 DEF IInv

LEMMA StutterPreserves ==
  ASSUME IInv, UNCHANGED vars PROVE IInv'
<1>1. UNCHANGED <<run_options, run_lane_masks, controller, status, stage, pc,
                  vertex, changed, distance_slots>>
  BY DEF vars, gridVars
<1>2. GridInv'
  BY <1>1, GridStutter DEF IInv
<1>3. TypeInv'
  BY <1>1 DEF IInv, TypeInv
<1>4. StartInv'
  BY <1>1 DEF IInv, StartInv, Owner
<1>5. RoundInv'
  BY <1>1 DEF IInv, RoundInv, ReadDistances, Computing, Passed, Quiet, Round,
              WriteOf, Owner
<1>6. EndInv'
  BY <1>1 DEF IInv, EndInv, ReadDistances, CompletedStatus, Round
<1>7. QED
  BY <1>2, <1>3, <1>4, <1>5, <1>6 DEF IInv

\* What a vertex finds in a round that has not ended is its next distance.
LEMMA BestIsNext ==
  ASSUME IInv, stage # "initialize", NEW v \in Vertices
  PROVE  Best(v) = BellmanFord[Round + 1][v]
<1>1. run_lane_masks = Admitted /\ ReadDistances = BellmanFord[Round]
  BY DEF IInv, RoundInv
<1>2. BellmanFord[Round + 1] = BellmanFordRound(BellmanFord[Round])
  BY SlotFacts, BellmanFordRounds DEF IInv
<1>3. QED
  BY <1>1, <1>2 DEF Best, BellmanFordRound

\* Once every vertex of the box has had its round, nothing falls any more.
LEMMA LateIsStable ==
  ASSUME NEW k \in Nat, k >= SelectedVertexCount - 1
  PROVE  BellmanFord[k + 1] = BellmanFord[k]
<1>1. PICK d : IsShortest(d)
  BY ShortestExists
<1>2. k + 1 \in Nat /\ k + 1 >= SelectedVertexCount - 1
  BY SelectedCountFacts
<1>3. BellmanFord[k] = d /\ BellmanFord[k + 1] = d
  BY <1>1, <1>2, SelectedRoundsSuffice
<1>4. QED
  BY <1>3

LEMMA PullPreserves ==
  ASSUME IInv, NEW t \in Threads, PullVertex(t) PROVE IInv'
<1> DEFINE v == vertex[t]
<1>1. /\ stage = "round" /\ stage' = "round" /\ pc[t] = "scan" /\ v < VertexCount
      /\ IF InSelectedTile(v)
           THEN /\ distance_slots' = [distance_slots EXCEPT ![WriteOf][v] = Best(v)]
                /\ changed' = [changed EXCEPT
                                 ![t] = @ \/ Best(v) < ReadDistances[v]]
           ELSE UNCHANGED <<distance_slots, changed>>
      /\ vertex' = [vertex EXCEPT ![t] = @ + ThreadCount]
      /\ UNCHANGED <<run_lane_masks, controller, run_options, status, pc>>
  BY DEF PullVertex, AtOperation, hostVars, WriteOf
<1>2. /\ pc \in [Threads -> Operations] /\ vertex \in [Threads -> Nat]
      /\ changed \in [Threads -> BOOLEAN]
      /\ ~controller.done /\ v % ThreadCount = t
  BY <1>1 DEF IInv, GridInv, Working
<1>3. /\ v \in Vertices /\ v \in Nat /\ Owner(v) = t
      /\ ThreadCount \in Nat \ {0} /\ (v + ThreadCount) % ThreadCount = t
  BY <1>1, <1>2, ShareSteps, ThreadFacts, GraphAssumption DEF Vertices, Owner
<1>4. /\ ReadOf \in Slots /\ WriteOf \in Slots /\ ReadOf # WriteOf
      /\ Round \in Nat /\ ReadDistances = distance_slots[ReadOf]
      /\ distance_slots \in [Slots -> Assignments]
  BY SlotFacts DEF IInv, TypeInv
<1>5. /\ Best(v) = BellmanFord[Round + 1][v]
      /\ ReadDistances[v] = BellmanFord[Round][v]
      /\ BellmanFord[Round + 1] \in Assignments /\ BellmanFord[Round] \in Assignments
      /\ BellmanFord[Round + 1] = BellmanFordRound(BellmanFord[Round])
      /\ run_lane_masks = Admitted
  <2>1. ReadDistances = BellmanFord[Round] /\ run_lane_masks = Admitted
    BY <1>1 DEF IInv, RoundInv
  <2>2. Best(v) = BellmanFord[Round + 1][v]
    BY <1>1, <1>3, BestIsNext
  <2>3. QED
    BY <1>4, <2>1, <2>2, BellmanFordRounds
<1>6. \A x \in Vertices : ~InSelectedTile(x) =>
        BellmanFord[Round + 1][x] = BellmanFord[Round][x]
  BY <1>5, OutsideStays
<1>7. BellmanFord[Round + 1][v] <= BellmanFord[Round][v]
  BY <1>3, <1>5, RoundFacts
<1> HIDE DEF v
<1>8. /\ Best(v) \in Distances /\ Best(v) \in Int /\ ReadDistances[v] \in Int
  BY <1>3, <1>5, GraphAssumption DEF Assignments, Distances
<1>9. WorkStep(t)
  <2>1. changed' \in [Threads -> BOOLEAN] /\ changed' = [changed EXCEPT ![t] = changed'[t]]
    BY <1>1, <1>2
  <2>2. pc' = [pc EXCEPT ![t] = "scan"]
    BY <1>1, <1>2
  <2>3. vertex' = [vertex EXCEPT ![t] = v + ThreadCount] /\ v + ThreadCount \in Nat
    BY <1>1, <1>3 DEF v
  <2>4. QED
    BY <1>1, <1>3, <2>1, <2>2, <2>3 DEF WorkStep, Working
<1>10. GridInv'
  BY <1>9, GridWork DEF IInv
\* The read slot and the vertices outside the box are untouched; the vertex has
\* its next distance in the write slot.
<1>11. /\ distance_slots' \in [Slots -> Assignments]
       /\ ReadDistances' = ReadDistances
       /\ \A slot \in Slots : \A x \in Vertices :
            x # v \/ ~InSelectedTile(x) =>
              distance_slots'[slot][x] = distance_slots[slot][x]
       /\ InSelectedTile(v) => distance_slots'[WriteOf][v] = Best(v)
  <2>1. CASE InSelectedTile(v)
    <3>1. distance_slots' = [distance_slots EXCEPT ![WriteOf][v] = Best(v)]
      BY <1>1, <2>1 DEF v
    <3>2. distance_slots' \in [Slots -> Assignments]
      BY <1>3, <1>4, <1>8, <3>1 DEF Assignments
    <3>3. distance_slots'[ReadOf] = distance_slots[ReadOf]
      BY <1>4, <3>1
    <3>4. distance_slots'[WriteOf] = [distance_slots[WriteOf] EXCEPT ![v] = Best(v)]
      BY <1>4, <3>1
    <3>5. ReadDistances' = ReadDistances
      BY <1>1, <1>4, <3>3 DEF ReadDistances, ReadOf
    <3>6. distance_slots[WriteOf] \in [Vertices -> Distances]
      BY <1>4 DEF Assignments
    <3>7. distance_slots'[WriteOf][v] = Best(v)
      BY <1>3, <3>4, <3>6
    <3>8. ASSUME NEW x \in Vertices, x # v
          PROVE  distance_slots'[WriteOf][x] = distance_slots[WriteOf][x]
      BY <3>4, <3>6, <3>8
    <3>9. \A slot \in Slots : slot = ReadOf \/ slot = WriteOf
      BY SlotFacts DEF IInv
    <3>10. QED
      BY <2>1, <3>2, <3>3, <3>5, <3>7, <3>8, <3>9
  <2>2. CASE ~InSelectedTile(v)
    <3>1. UNCHANGED <<distance_slots, controller>>
      BY <1>1, <2>2 DEF v
    <3>2. QED
      BY <1>4, <2>2, <3>1 DEF ReadDistances
  <2>3. QED
    BY <2>1, <2>2
<1>12. TypeInv'
  BY <1>1, <1>11 DEF IInv, TypeInv
<1>13. StartInv'
  BY <1>1 DEF StartInv
<1>14. Round' = Round /\ WriteOf' = WriteOf /\ ~controller'.done /\ Computing
  BY <1>1, <1>2 DEF Round, WriteOf, Computing
\* The flag of the thread tells whether the vertex fell.
<1>15. Quiet' => Quiet /\ BellmanFord[Round + 1][v] = BellmanFord[Round][v]
  <2>1. CASE InSelectedTile(v)
    <3>1. changed' = [changed EXCEPT ![t] = changed[t] \/ Best(v) < ReadDistances[v]]
      BY <1>1, <2>1 DEF v
    <3>2. ~changed'[t] => ~changed[t] /\ ~(Best(v) < ReadDistances[v])
      BY <1>2, <3>1
    <3>3. \A s \in Threads : ~changed'[s] => ~changed[s]
      BY <1>2, <3>1, <3>2
    <3>4. Quiet' => Quiet /\ ~(Best(v) < ReadDistances[v])
      BY <1>1, <3>2, <3>3 DEF Quiet
    <3>5. QED
      BY <1>5, <1>7, <1>8, <3>4
  <2>2. CASE ~InSelectedTile(v)
    <3>1. UNCHANGED <<changed, controller>>
      BY <1>1, <2>2 DEF v
    <3>2. QED
      BY <1>3, <1>6, <2>2, <3>1 DEF Quiet
  <2>3. QED
    BY <2>1, <2>2
<1>16. ASSUME NEW x \in Vertices, Passed(x)'
       PROVE  /\ distance_slots'[WriteOf][x] = BellmanFord[Round + 1][x]
              /\ Quiet' => BellmanFord[Round + 1][x] = BellmanFord[Round][x]
  <2>1. x \in Nat /\ Owner(x) \in Threads /\ Owner(x)' = Owner(x)
    BY ThreadFacts DEF Owner
  <2>2. CASE x = v
    <3>1. ~InSelectedTile(v) =>
            distance_slots[WriteOf][v] = BellmanFord[Round][v]
      BY <1>1, <1>3, <1>4, <1>5 DEF IInv, RoundInv
    <3>2. distance_slots'[WriteOf][v] = BellmanFord[Round + 1][v]
      BY <1>3, <1>4, <1>5, <1>6, <1>11, <3>1
    <3>3. QED
      BY <1>15, <2>2, <3>2
  <2>3. CASE x # v
    <3>1. Passed(x)
      <4>1. CASE Owner(x) # t
        BY <1>1, <1>2, <1>16, <2>1, <4>1 DEF Passed
      <4>2. CASE Owner(x) = t
        <5>1. pc'[t] = "scan" /\ vertex'[t] = v + ThreadCount
          BY <1>1, <1>2 DEF v
        <5>2. x < v + ThreadCount
          BY <1>16, <2>1, <4>2, <5>1 DEF Passed
        <5>3. ~(v < x)
          <6>1. v % ThreadCount = x % ThreadCount
            BY <1>3, <4>2 DEF Owner
          <6>2. v < x => v + ThreadCount <= x
            BY <1>3, <2>1, <6>1, ShareHasGaps
          <6>3. QED
            BY <1>3, <2>1, <5>2, <6>2
        <5>4. x < v
          BY <1>3, <2>1, <2>3, <5>3
        <5>5. QED
          BY <1>1, <4>2, <5>4 DEF Passed, v
      <4>3. QED
        BY <4>1, <4>2
    <3>2. /\ distance_slots[WriteOf][x] = BellmanFord[Round + 1][x]
          /\ Quiet => BellmanFord[Round + 1][x] = BellmanFord[Round][x]
      BY <1>1, <1>14, <3>1 DEF IInv, RoundInv
    <3>3. QED
      BY <1>4, <1>11, <1>15, <2>3, <3>2
  <2>4. QED
    BY <2>2, <2>3
<1>17. Round >= SelectedVertexCount - 1 => Quiet'
  <2> SUFFICES ASSUME Round >= SelectedVertexCount - 1 PROVE Quiet'
    OBVIOUS
  <2>1. Quiet
    BY <1>1, <1>2 DEF IInv, RoundInv
  <2>2. ~(Best(v) < ReadDistances[v])
    BY <1>4, <1>5, <1>8, LateIsStable
  <2>3. \A s \in Threads : ~changed'[s]
    <3>1. CASE InSelectedTile(v)
      BY <1>1, <1>2, <2>1, <2>2, <3>1 DEF Quiet, v
    <3>2. CASE ~InSelectedTile(v)
      BY <1>1, <2>1, <3>2 DEF Quiet, v
    <3>3. QED
      BY <3>1, <3>2
  <2>4. QED
    BY <1>1, <2>1, <2>3 DEF Quiet
<1>18. RoundInv'
  <2>1. /\ run_lane_masks' = Admitted
        /\ ReadDistances' = BellmanFord[Round']
        /\ \A slot \in Slots : \A x \in Vertices :
             ~InSelectedTile(x) => distance_slots'[slot][x] = InitialDistance[x]
    BY <1>1, <1>11, <1>14 DEF IInv, RoundInv
  <2>2. QED
    BY <1>14, <1>16, <1>17, <2>1 DEF RoundInv
<1>19. EndInv'
  <2>1. controller.stop_reason = "none"
    BY <1>2 DEF IInv, GridInv, SoundController, RunningSound
  <2>2. QED
    BY <1>1, <1>14, <2>1 DEF IInv, EndInv
<1>20. QED
  BY <1>10, <1>12, <1>13, <1>18, <1>19 DEF IInv

-----------------------------------------------------------------------------
(***************************************************************************)
(* The end of a round                                                      *)
(***************************************************************************)
\* At the barrier every vertex has had its turn: the write slot holds the next
\* round, and the changed bit tells whether it differs from this one.
LEMMA RoundIsComplete ==
  ASSUME IInv, stage = "round", ~controller.done,
         \A t \in Threads : pc[t] = "sync"
  PROVE  /\ distance_slots[WriteOf] = BellmanFord[Round + 1]
         /\ controller.changed_lane_mask = {} <=> Quiet
         /\ Quiet => BellmanFord[Round + 1] = BellmanFord[Round]
<1>1. \A v \in Vertices : Passed(v)
  BY ThreadFacts DEF Passed, Owner
<1>2. \A v \in Vertices :
        /\ distance_slots[WriteOf][v] = BellmanFord[Round + 1][v]
        /\ Quiet => BellmanFord[Round + 1][v] = BellmanFord[Round][v]
  BY <1>1 DEF IInv, RoundInv, Computing
<1>3. /\ distance_slots[WriteOf] \in [Vertices -> Distances]
      /\ BellmanFord[Round + 1] \in [Vertices -> Distances]
      /\ BellmanFord[Round] \in [Vertices -> Distances]
  BY SlotFacts, BellmanFordRounds DEF IInv, TypeInv, Assignments
<1>4. \A t \in Threads : ~changed[t]
  BY DEF IInv, GridInv, Working
<1>5. distance_slots[WriteOf] = BellmanFord[Round + 1]
  BY <1>2, <1>3
<1>6. Quiet => BellmanFord[Round + 1] = BellmanFord[Round]
  BY <1>2, <1>3
<1>7. QED
  BY <1>4, <1>5, <1>6 DEF Quiet

LEMMA AdvancePreserves ==
  ASSUME IInv, AdvanceController PROVE IInv'
<1> DEFINE next == AdvanceJacobiController(controller)
<1>1. /\ stage = "round" /\ stage' \in {"finalize", "round", "poll"}
      /\ \A t \in Threads : pc[t] = "sync"
      /\ controller' = next
      /\ pc' = [t \in Threads |-> "enter"]
      /\ UNCHANGED <<run_lane_masks, run_options, status, vertex, changed,
                     distance_slots>>
  BY DEF AdvanceController, AdvanceTo
<1>2. SoundController(controller) /\ controller.engine_kind = "jacobi_pull"
  BY SlotFacts DEF IInv, GridInv
<1>3. controller.done => next = controller
  BY DEF AdvanceJacobiController
<1>4. ~controller.done =>
        /\ Advanced(controller, next)
        /\ next.distance_read_slot = controller.distance_write_slot
        /\ next.distance_write_slot = controller.distance_read_slot
  BY <1>2, JacobiAdvance
<1> HIDE DEF next
<1>5. ~controller.done => SoundSlots(next)
  BY <1>2, <1>4 DEF SoundController, SoundSlots, Advanced, SameSetup
<1>6. GridInv'
  BY <1>3, <1>4, <1>5, GridAdvance DEF IInv, AdvanceController, next
<1>7. TypeInv'
  BY <1>1 DEF IInv, TypeInv
<1>8. \A v \in Vertices : ~Passed(v)'
  <2>1. \A v \in Vertices : Owner(v) \in Threads /\ Owner(v)' = Owner(v)
    BY ThreadFacts DEF Owner
  <2>2. QED
    BY <1>1, <2>1 DEF Passed
<1>9. \A t \in Threads : ~changed'[t]
  BY <1>1 DEF IInv, GridInv, Working
<1>10. CASE controller.done
  <2>1. controller' = controller
    BY <1>1, <1>3, <1>10
  <2>2. Quiet' <=> Quiet
    BY <1>1, <2>1 DEF Quiet
  <2>3. StartInv' /\ RoundInv' /\ EndInv'
    BY <1>1, <1>8, <2>1, <2>2, Carried DEF Round, ReadOf, WriteOf
  <2>4. QED
    BY <1>6, <1>7, <2>3 DEF IInv
<1>11. CASE ~controller.done
  <2>1. /\ Round \in Nat /\ Round' = Round + 1
        /\ ReadOf' = WriteOf
        /\ controller'.changed_lane_mask = {}
        /\ controller'.maximum_rounds = controller.maximum_rounds
        /\ controller'.stop_reason \in {"converged", "maximum_rounds", "none"}
        /\ controller'.stop_reason = "converged" <=>
             controller.changed_lane_mask = {}
        /\ controller'.stop_reason = "maximum_rounds" =>
             Round' = controller.maximum_rounds
    BY <1>1, <1>4, <1>11, SlotFacts
    DEF IInv, Advanced, SameSetup, Round, ReadOf, WriteOf
  <2>2. /\ distance_slots[WriteOf] = BellmanFord[Round + 1]
        /\ controller.changed_lane_mask = {} <=> Quiet
        /\ Quiet => BellmanFord[Round + 1] = BellmanFord[Round]
    BY <1>1, <1>11, RoundIsComplete
  <2>3. ReadDistances' = BellmanFord[Round + 1]
    BY <1>1, <2>1, <2>2 DEF ReadDistances, ReadOf
  <2>4. Quiet'
    BY <1>9, <2>1 DEF Quiet
  <2>5. RoundInv'
    BY <1>1, <1>8, <2>1, <2>3, <2>4 DEF IInv, RoundInv
  <2>6. ASSUME controller'.stop_reason = "converged"
        PROVE  IsShortest(ReadDistances') /\ distance_slots'[0] = distance_slots'[1]
    <3>1. BellmanFord[Round + 1] = BellmanFord[Round]
      BY <2>1, <2>2, <2>6
    <3>2. IsShortest(BellmanFord[Round])
      BY <2>1, <3>1, StableIsShortest
    <3>3. distance_slots[ReadOf] = BellmanFord[Round]
      BY <1>1, SlotFacts DEF IInv, RoundInv
    <3>4. distance_slots[0] = distance_slots[1]
      BY <2>2, <3>1, <3>3, SlotFacts DEF IInv, Slots
    <3>5. QED
      BY <1>1, <2>3, <3>1, <3>2, <3>4
  <2>7. ASSUME controller'.stop_reason = "maximum_rounds"
        PROVE  controller.maximum_rounds < SelectedVertexCount
    <3>1. ~Quiet /\ Round + 1 = controller.maximum_rounds
      BY <2>1, <2>2, <2>7
    <3>2. ~(Round >= SelectedVertexCount - 1)
      BY <1>1, <1>11, <3>1 DEF IInv, RoundInv
    <3>3. QED
      BY <2>1, <3>1, <3>2, SelectedCountFacts
  <2>8. EndInv'
    <3>1. controller'.stop_reason = "converged" => IsShortest(ReadDistances)'
      BY <2>6
    <3>2. /\ Round' <= SelectedVertexCount
          /\ ~controller'.done => Round' < SelectedVertexCount
      <4>1. Round < SelectedVertexCount
        BY <1>11 DEF IInv, EndInv
      <4>2. ~controller'.done => ~(Round >= SelectedVertexCount - 1)
        BY <1>1, <1>4, <1>11, <2>2 DEF IInv, RoundInv, Advanced
      <4>3. QED
        BY <2>1, <4>1, <4>2, SelectedCountFacts
    <3>3. QED
      BY <1>1, <2>1, <2>6, <2>7, <3>1, <3>2 DEF EndInv
  <2>9. StartInv'
    BY <1>1 DEF StartInv
  <2>10. QED
    BY <1>6, <1>7, <2>5, <2>8, <2>9 DEF IInv
<1>12. QED
  BY <1>10, <1>11

-----------------------------------------------------------------------------
(***************************************************************************)
(* The theorems                                                            *)
(***************************************************************************)
\* The invariant holds in every run, whatever the order in which the threads
\* take their turns.
THEOREM Invariant == Spec => []IInv
<1>1. ASSUME IInv, [Next]_vars PROVE IInv'
  <2>1. CASE UNCHANGED vars
    BY <1>1, <2>1, StutterPreserves
  <2>2. ASSUME NEW t \in Threads, ThreadStep(t) PROVE IInv'
    BY <1>1, <2>2, InitializePreserves, EnterPreserves, PullPreserves,
       FinishStridePreserves DEF ThreadStep
  <2>3. CASE GridStep
    BY <1>1, <2>3, ReducePreserves, FinishInitializePreserves, AdvancePreserves,
       PollPreserves, FinalizePreserves DEF GridStep
  <2>4. CASE Terminated
    BY <1>1, <2>4, StutterPreserves DEF Terminated
  <2>5. QED
    BY <1>1, <2>1, <2>2, <2>3, <2>4 DEF Next
<1>2. QED
  BY <1>1, InitHolds, PTL DEF Spec

\* Between rounds the read slot holds exactly as many synchronous Bellman-Ford
\* rounds as the controller has counted, in every interleaving of the threads
\* and for every grid (perform_jacobi_round_thread_work, the slot exchange of
\* the controller advance).
THEOREM RoundsAreBellmanFord == Spec => []RoundIsBellmanFord
<1>1. ASSUME IInv PROVE RoundIsBellmanFord
  <2>1. AtRoundBoundary => ReadDistances = BellmanFord[controller.rounds_completed]
    BY <1>1 DEF IInv, RoundInv, AtRoundBoundary, Round
  <2>2. ASSUME stage = "exit"
        PROVE  distance_slots[status.final_distance_slot]
                 = BellmanFord[status.rounds_completed]
    <3>1. /\ status.final_distance_slot = controller.distance_read_slot
          /\ status.rounds_completed = controller.rounds_completed
      BY <1>1, <2>2 DEF IInv, EndInv, CompletedStatus, MakeRunStatus
    <3>2. QED
      BY <1>1, <2>2, <3>1 DEF IInv, RoundInv, Round, ReadDistances
  <2>3. controller.stop_reason = "converged" =>
          IsShortest(ReadDistances) /\ distance_slots[0] = distance_slots[1]
    BY <1>1 DEF IInv, EndInv
  <2>4. QED
    BY <2>1, <2>2, <2>3 DEF RoundIsBellmanFord
<1>2. QED
  BY <1>1, Invariant, PTL

\* A run that reports convergence holds the shortest distances, and its status
\* calls a query reached, or cut off by the bounding box, exactly when the
\* reference distances do, whatever its targets
\* (finalize_jacobi_status).
THEOREM StatusIsTrue == Spec => []StatusTruthful(ReadDistances)
<1>1. ASSUME IInv PROVE StatusTruthful(ReadDistances)
  <2>1. controller.stop_reason = "converged" => IsShortest(ReadDistances)
    BY <1>1 DEF IInv, EndInv
  <2>2. stage = "exit" => status = CompletedStatus(ReadDistances, Targets)
    BY <1>1 DEF IInv, EndInv
  <2>3. QED
    BY <1>1, <2>1, <2>2, TruthfulStatus DEF IInv
<1>2. QED
  BY <1>1, Invariant, PTL

\* The engine's own checks never fail, what the host validates is valid, and a
\* run takes at most one round per vertex of the bounding box
\* (advance_jacobi_controller, validate_device_controller).
THEOREM ControllerIsSound == Spec => []ControllerSound
<1>1. ASSUME IInv PROVE ControllerSound
  <2>1. SoundController(controller) /\ controller.error_bits = {}
    BY <1>1 DEF IInv, GridInv, SoundController
  <2>2. stage \in {"poll", "finalize", "exit"} => controller.changed_lane_mask = {}
    BY <1>1 DEF IInv, GridInv, SoundController, FinishedSound
  <2>3. stage \in {"poll", "finalize", "exit"} => ValidDeviceController(controller)
    BY <2>1, <2>2, SoundIsValid
  <2>4. /\ controller.rounds_completed <= SelectedVertexCount
        /\ controller.stop_reason = "maximum_rounds" =>
             controller.maximum_rounds < SelectedVertexCount
    BY <1>1 DEF IInv, EndInv, Round
  <2>5. QED
    BY <2>1, <2>3, <2>4 DEF ControllerSound
<1>2. QED
  BY <1>1, Invariant, PTL
=============================================================================
