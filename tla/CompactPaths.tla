---------------------------- MODULE CompactPaths ----------------------------
(***************************************************************************)
(* What happens to the distances of a finished batch: the device walks     *)
(* back from each target along tight edges, once to count and once to      *)
(* write (src/src/hip/compact_path_results.hip.cpp); the host does the     *)
(* same from its own copy and validates what is published                  *)
(* (src/src/compact_paths.cpp); and the quality sample compares each path  *)
(* with one found by Dijkstra on the whole graph                           *)
(* (src/src/no_congestion_pipeline.cpp, src/src/path_reconstruct.cpp).     *)
(*                                                                         *)
(* Everything here is sequential: one action is one turn of a loop.        *)
(***************************************************************************)
EXTENDS BatchProblem, SequencesExt

CONSTANTS
  EdgeId,       \* edge_ids: the stable id of each edge of the CSR order
  StaleLabels,  \* what a word that no lane of the batch owns may hold
  ClaimLength   \* bound on the edge sequences ValidatorIsExact tries

ASSUME EdgeIdAssumption ==
  /\ EdgeId \in [Edges -> 0 .. EdgeCount - 1]
  /\ IsInjective(EdgeId)

VARIABLES
  job,        \* the finished run
  stage,
  item,       \* target_cursor, and the index of every later target loop
  search,     \* the three stacks of search_tight_path
  summaries, ranges, arena, error_bits,
  device,     \* the targets reconstruct() returns
  frames,     \* the stack of reconstruct_target
  host,       \* the targets of the host's payload
  dijkstra,
  samples     \* the unbounded path of every complete target

kernelVars == <<search, summaries, ranges, arena, error_bits, device>>
hostVars   == <<frames, host, dijkstra, samples>>
vars       == <<job, stage, item, kernelVars, hostVars>>

None   == -1
NoPath == [vertices |-> <<>>, labels |-> <<>>, edge_ids |-> <<>>]

Summary(distance, reached, reconstruction, source, length) ==
  [distance |-> distance, reached |-> reached,
   reconstruction |-> reconstruction, selected_source |-> source,
   path_length |-> length]

\* SetToSortSeq, without a choice among all the sequences of S.
InOrder(S, Before(_, _)) ==
  [i \in 1 .. Cardinality(S) |->
     CHOOSE x \in S : Cardinality({y \in S : Before(y, x)}) = i - 1]

\* targets, lane after lane, each lane's sorted.
OrderedTargets ==
  [b \in BatchIds |->
     InOrder(UNION {[lane : {l}, vertex : Batches[b].targets[l]] :
                           l \in Lanes},
                  LAMBDA s, t : \/ s.lane < t.lane
                                \/ s.lane = t.lane /\ s.vertex < t.vertex)]

\* A lane's query with every tile selected, which the quality sample uses.
Unbounded(b, l) == INSTANCE RoutingProblem
                     WITH SelectedTiles <- {OwnerTile[v] : v \in Vertices},
                          SourceList    <- LaneSources(b, l),
                          Targets       <- Batches[b].targets[l]

UnboundedReference ==
  [b \in BatchIds |->
     [l \in Batches[b].valid_lane_mask |-> Unbounded(b, l)!ReferenceDistance]]

(***************************************************************************)
(* A run that converged leaves the shortest distances of every lane in the *)
(* words of the lane's vertices.  After any other run no label is read.    *)
(***************************************************************************)
FinalImage(b, stale) ==
  [v \in Vertices |->
     [l \in Lanes |-> IF l \in VertexLanes(b, v) THEN LaneReference[b][l][v]
                                                 ELSE stale]]

Jobs == {[batch |-> b, clean |-> c, image |-> FinalImage(b, s)] :
           b \in BatchIds, c \in BOOLEAN, s \in StaleLabels}

AllTargets == OrderedTargets[job.batch]
Target     == AllTargets[item]
AtTarget(s) == stage = s /\ item <= Len(AllTargets)
PastTargets(s) == stage = s /\ item > Len(AllTargets)

Admits(v)   == Target.lane \in VertexLanes(job.batch, v)
Label(v)    == job.image[v][Target.lane]
IsSource(v) == v \in ToSet(LaneSources(job.batch, Target.lane))

Init ==
  /\ job \in Jobs
  /\ stage = "count"
  /\ item = 1
  /\ search = [running    |-> FALSE,
               depth      |-> 0,
               vertices   |-> [p \in 0 .. VertexCount - 1 |-> 0],
               edge_ids   |-> [p \in 0 .. VertexCount - 1 |-> 0],
               thresholds |-> [p \in 0 .. VertexCount - 1 |-> 0]]
  /\ summaries = <<>>
  /\ ranges = <<>>
  /\ arena = NoPath
  /\ error_bits = {}
  /\ device = <<>>
  /\ frames = <<>>
  /\ host = <<>>
  /\ dijkstra = [lane |-> None, distances |-> <<>>, queue |-> {}]
  /\ samples = <<>>

(***************************************************************************)
(* search_tight_path.  The stacks are device buffers and are never         *)
(* cleared: a search finds what the one before it left.                    *)
(***************************************************************************)
Current == search.vertices[search.depth]

OnStack(v) == \E p \in 0 .. search.depth : search.vertices[p] = v

\* A fault variant, which no specification uses: any tile may be crossed.
FaultAnyTile ==
  {e \in Edges :
     /\ Destination[e] = Current
     /\ EdgeId[e] >= search.thresholds[search.depth]
     /\ ~OnStack(Source[e])
     /\ Label(Source[e]) # Infinity
     /\ Plus(Label(Source[e]), Weight[e]) = Label(Current)}

\* The edges of the column that the loop over it does not skip.
NextEdges ==
  {e \in Edges :
     /\ Destination[e] = Current
     /\ EdgeId[e] >= search.thresholds[search.depth]
     /\ Admits(Source[e])
     /\ ~OnStack(Source[e])
     /\ Label(Source[e]) # Infinity
     /\ Plus(Label(Source[e]), Weight[e]) = Label(Current)}

\* A fault variant, which no specification uses: the first of the row order.
FaultFirstInRow(S) == CHOOSE e \in S : \A f \in S : e <= f

FirstById(S) == CHOOSE e \in S : \A f \in S : EdgeId[e] <= EdgeId[f]

SearchResult ==
  CASE IsSource(Current)                             -> "complete"
    [] ~IsSource(Current) /\ NextEdges = {}
         /\ search.depth = 0                         -> "no_tight_path"
    [] ~IsSource(Current) /\ NextEdges # {}
         /\ search.depth + 1 >= VertexCount          -> "path_length_overflow"
    [] OTHER                                         -> "searching"

BeginSearch ==
  search' = [search EXCEPT !.running = TRUE, !.depth = 0,
                           !.vertices[0] = Target.vertex, !.thresholds[0] = 0]

\* A fault variant, which no specification uses: the threshold an earlier
\* search left at this depth stays.
FaultKeepThreshold ==
  /\ search.running
  /\ SearchResult = "searching"
  /\ NextEdges # {}
  /\ LET e == FirstById(NextEdges)
         d == search.depth
     IN search' = [search EXCEPT !.depth = d + 1,
                                 !.vertices[d + 1] = Source[e],
                                 !.edge_ids[d] = EdgeId[e],
                                 !.thresholds[d] = EdgeId[e] + 1]
  /\ UNCHANGED <<job, stage, item, summaries, ranges, arena, error_bits,
                 device, hostVars>>

Descend ==
  /\ search.running
  /\ SearchResult = "searching"
  /\ NextEdges # {}
  /\ LET e == FirstById(NextEdges)
         d == search.depth
     IN search' = [search EXCEPT !.depth = d + 1,
                                 !.vertices[d + 1] = Source[e],
                                 !.edge_ids[d] = EdgeId[e],
                                 !.thresholds = [@ EXCEPT ![d] = EdgeId[e] + 1,
                                                          ![d + 1] = 0]]
  /\ UNCHANGED <<job, stage, item, summaries, ranges, arena, error_bits,
                 device, hostVars>>

Backtrack ==
  /\ search.running
  /\ SearchResult = "searching"
  /\ NextEdges = {}
  /\ search' = [search EXCEPT !.depth = @ - 1]
  /\ UNCHANGED <<job, stage, item, summaries, ranges, arena, error_bits,
                 device, hostVars>>

(***************************************************************************)
(* compact_path_reconstruction_kernel, first with emit_paths = 0.          *)
(***************************************************************************)
NextTarget == item' = item + 1

Unanswered(reconstruction) ==
  Summary(Infinity, FALSE, reconstruction, None, 0)

CountTarget ==
  /\ AtTarget("count")
  /\ ~search.running
  /\ IF job.clean /\ Label(Target.vertex) # Infinity
       THEN BeginSearch /\ UNCHANGED <<item, summaries>>
       ELSE /\ summaries' =
                 Append(summaries, Unanswered(IF job.clean
                                                THEN "unreachable"
                                                ELSE "query_terminal_failure"))
            /\ NextTarget
            /\ UNCHANGED search
  /\ UNCHANGED <<job, stage, ranges, arena, error_bits, device, hostVars>>

Summarize ==
  /\ stage = "count"
  /\ search.running
  /\ SearchResult # "searching"
  /\ summaries' =
       Append(summaries,
              IF SearchResult = "complete"
                THEN Summary(Label(Target.vertex), TRUE, "complete", Current,
                             search.depth)
                ELSE Summary(Label(Target.vertex), TRUE, SearchResult, None, 0))
  /\ search' = [search EXCEPT !.running = FALSE]
  /\ NextTarget
  /\ UNCHANGED <<job, stage, ranges, arena, error_bits, device, hostVars>>

(***************************************************************************)
(* Between the passes the host gives every complete target its range of    *)
(* the arenas, whose words then hold whatever they held.                   *)
(***************************************************************************)
CompleteBefore(i) ==
  {j \in 1 .. i - 1 : summaries[j].reconstruction = "complete"}

VertexOffset(i) ==
  MapThenSumSet(LAMBDA j : summaries[j].path_length + 1, CompleteBefore(i))
EdgeOffset(i) ==
  MapThenSumSet(LAMBDA j : summaries[j].path_length, CompleteBefore(i))

PlanRanges ==
  /\ PastTargets("count")
  /\ IF \E i \in 1 .. Len(summaries) : summaries[i].path_length >= VertexCount
       THEN stage' = "thrown" /\ UNCHANGED <<item, ranges, arena>>
       ELSE LET past == Len(AllTargets) + 1
            IN /\ stage' = IF VertexOffset(past) = 0 THEN "collect" ELSE "emit"
               /\ ranges' = [i \in 1 .. Len(summaries) |->
                               [vertex_offset |-> VertexOffset(i),
                                edge_offset   |-> EdgeOffset(i)]]
               /\ arena' = [vertices |-> [i \in 1 .. VertexOffset(past) |-> 0],
                            labels   |-> [i \in 1 .. VertexOffset(past) |-> 0],
                            edge_ids |-> [i \in 1 .. EdgeOffset(past) |-> 0]]
               /\ item' = 1
  /\ UNCHANGED <<job, search, summaries, error_bits, device, hostVars>>

\* The second pass, emit_paths = 1.
EmitTarget ==
  /\ AtTarget("emit")
  /\ ~search.running
  /\ IF summaries[item].reconstruction = "complete"
       THEN BeginSearch /\ UNCHANGED item
       ELSE NextTarget /\ UNCHANGED search
  /\ UNCHANGED <<job, stage, summaries, ranges, arena, error_bits, device,
                 hostVars>>

ReplayAgrees ==
  /\ SearchResult = "complete"
  /\ search.depth = summaries[item].path_length
  /\ Current = summaries[item].selected_source

FitsArena ==
  /\ ranges[item].vertex_offset + search.depth + 1 <= Len(arena.vertices)
  /\ ranges[item].edge_offset + search.depth <= Len(arena.edge_ids)

\* Write(a, o, n, W): words o + 1 .. o + n of the arena a become W(1) .. W(n).
Write(a, o, n, W(_)) ==
  [i \in 1 .. Len(a) |-> IF i - o \in 1 .. n THEN W(i - o) ELSE a[i]]

Emit ==
  /\ stage = "emit"
  /\ search.running
  /\ SearchResult # "searching"
  /\ IF ReplayAgrees /\ FitsArena
       THEN LET n == search.depth
                r == ranges[item]
            IN /\ arena' =
                    [vertices |-> Write(arena.vertices, r.vertex_offset, n + 1,
                                    LAMBDA i : search.vertices[n + 1 - i]),
                     labels   |-> Write(arena.labels, r.vertex_offset, n + 1,
                                    LAMBDA i : Label(search.vertices[n + 1 - i])),
                     edge_ids |-> Write(arena.edge_ids, r.edge_offset, n,
                                    LAMBDA i : search.edge_ids[n - i])]
               /\ UNCHANGED error_bits
       ELSE /\ error_bits' =
                 error_bits \union {IF ReplayAgrees THEN "arena_overflow"
                                                    ELSE "replay_mismatch"}
            /\ UNCHANGED arena
  /\ search' = [search EXCEPT !.running = FALSE]
  /\ NextTarget
  /\ UNCHANGED <<job, stage, summaries, ranges, device, hostVars>>

FinishEmit ==
  /\ PastTargets("emit")
  /\ stage' = IF error_bits # {} THEN "thrown" ELSE "collect"
  /\ UNCHANGED <<job, item, kernelVars, hostVars>>

CollectedPath(i) ==
  LET n == summaries[i].path_length
      v == ranges[i].vertex_offset
      e == ranges[i].edge_offset
  IN [vertices |-> SubSeq(arena.vertices, v + 1, v + n + 1),
      labels   |-> SubSeq(arena.labels, v + 1, v + n + 1),
      edge_ids |-> SubSeq(arena.edge_ids, e + 1, e + n)]

Collect ==
  /\ stage = "collect"
  /\ device' = [i \in 1 .. Len(summaries) |->
                  [summary |-> summaries[i],
                   path |-> IF summaries[i].reconstruction = "complete"
                              THEN CollectedPath(i) ELSE NoPath]]
  /\ stage' = "host"
  /\ item' = 1
  /\ UNCHANGED <<job, search, summaries, ranges, arena, error_bits, hostVars>>

(***************************************************************************)
(* reconstruct_target, on the lane's own distances and tiles, and          *)
(* reconstruct_path_from_distances, which differs in that it runs on the   *)
(* whole graph with Dijkstra's distances.                                  *)
(***************************************************************************)
HostRegion ==
  IF stage = "host" THEN {v \in Vertices : Admits(v)} ELSE Vertices

HostLabels ==
  IF stage = "host" THEN LaneDistances(job.batch, Target.lane, job.image)
                    ELSE dijkstra.distances

TightChoices(v) ==
  InOrder({e \in Edges : /\ Destination[e] = v
                              /\ Source[e] \in HostRegion
                              /\ HostLabels[Source[e]] # Infinity
                              /\ Plus(HostLabels[Source[e]], Weight[e])
                                   = HostLabels[v]},
               LAMBDA e, f : EdgeId[e] < EdgeId[f])

Frame(v, edge) ==
  [vertex |-> v, edge |-> edge, choices |-> TightChoices(v), cursor |-> 1]

Top == Last(frames)

OnPath(v) == \E i \in 1 .. Len(frames) : frames[i].vertex = v

OpenChoices ==
  {c \in Top.cursor .. Len(Top.choices) : ~OnPath(Source[Top.choices[c]])}

HostAdvance ==
  /\ frames # <<>>
  /\ ~IsSource(Top.vertex)
  /\ OpenChoices # {}
  /\ LET c == Min(OpenChoices)
         e == Top.choices[c]
     IN frames' = Append([frames EXCEPT ![Len(frames)].cursor = c + 1],
                         Frame(Source[e], e))
  /\ UNCHANGED <<job, stage, item, kernelVars, host, dijkstra, samples>>

HostAbandon ==
  /\ Len(frames) > 1
  /\ ~IsSource(Top.vertex)
  /\ OpenChoices = {}
  /\ frames' = Front(frames)
  /\ UNCHANGED <<job, stage, item, kernelVars, host, dijkstra, samples>>

\* The path from the source on top of the stack to the target at its bottom.
HostPath ==
  LET n == Len(frames)
  IN [vertices |-> [i \in 1 .. n |-> frames[n + 1 - i].vertex],
      labels   |-> [i \in 1 .. n |-> HostLabels[frames[n + 1 - i].vertex]],
      edge_ids |-> [i \in 1 .. n - 1 |-> EdgeId[frames[n + 1 - i].edge]]]

HostFound  == frames # <<>> /\ IsSource(Top.vertex)
HostFailed == Len(frames) = 1 /\ ~IsSource(Top.vertex) /\ OpenChoices = {}

HostTarget ==
  /\ AtTarget("host")
  /\ frames = <<>>
  /\ IF job.clean /\ Label(Target.vertex) # Infinity
       THEN /\ frames' = <<Frame(Target.vertex, None)>>
            /\ UNCHANGED <<item, host>>
       ELSE /\ host' = Append(host,
                 [summary |-> Unanswered(IF job.clean
                                           THEN "unreachable"
                                           ELSE "query_terminal_failure"),
                  path    |-> NoPath])
            /\ NextTarget
            /\ UNCHANGED frames
  /\ UNCHANGED <<job, stage, kernelVars, dijkstra, samples>>

HostAnswer ==
  /\ stage = "host"
  /\ HostFound \/ HostFailed
  /\ host' = Append(host,
       LET distance == HostLabels[Target.vertex]
       IN IF HostFound
            THEN [summary |-> Summary(distance, TRUE, "complete", Top.vertex,
                                      Len(frames) - 1),
                  path    |-> HostPath]
            ELSE [summary |-> Summary(distance, TRUE, "no_tight_path", None, 0),
                  path    |-> NoPath])
  /\ frames' = <<>>
  /\ NextTarget
  /\ UNCHANGED <<job, stage, kernelVars, dijkstra, samples>>

FinishHost ==
  /\ PastTargets("host")
  /\ stage' = "sample"
  /\ item' = 1
  /\ UNCHANGED <<job, kernelVars, hostVars>>

(***************************************************************************)
(* dijkstra_oracle, once for each query.  An entry is pushed only when it  *)
(* lowers a distance, so no two entries are equal.                         *)
(***************************************************************************)
StartDijkstra ==
  /\ AtTarget("sample")
  /\ dijkstra.lane # Target.lane
  /\ LET sources == ToSet(LaneSources(job.batch, Target.lane))
     IN dijkstra' =
          [lane      |-> Target.lane,
           distances |-> [v \in Vertices |-> IF v \in sources THEN 0
                                                              ELSE Infinity],
           queue     |-> {[distance |-> 0, vertex |-> v] : v \in sources}]
  /\ UNCHANGED <<job, stage, item, kernelVars, frames, host, samples>>

\* A fault variant, which no specification uses: the order forgets distances.
FaultQueueTop ==
  CHOOSE x \in dijkstra.queue : \A y \in dijkstra.queue : x.vertex <= y.vertex

QueueTop ==
  CHOOSE x \in dijkstra.queue :
    \A y \in dijkstra.queue :
      \/ x.distance < y.distance
      \/ x.distance = y.distance /\ x.vertex <= y.vertex

Row(v) == InOrder({e \in Edges : Source[e] = v}, LAMBDA e, f : e < f)

RelaxEdge(d, e) ==
  LET candidate == Plus(QueueTop.distance, Weight[e])
      v         == Destination[e]
  IN IF candidate < d.distances[v]
       THEN [d EXCEPT !.distances[v] = candidate,
                      !.queue = @ \union {[distance |-> candidate,
                                           vertex   |-> v]}]
       ELSE d

Settle ==
  /\ stage = "sample"
  /\ dijkstra.queue # {}
  /\ LET popped == [dijkstra EXCEPT !.queue = @ \ {QueueTop}]
     IN dijkstra' = IF QueueTop.distance # dijkstra.distances[QueueTop.vertex]
                      THEN popped
                      ELSE FoldLeft(RelaxEdge, popped, Row(QueueTop.vertex))
  /\ UNCHANGED <<job, stage, item, kernelVars, frames, host, samples>>

\* sample_compact_path_quality for one target of a query.
SampleTarget ==
  /\ AtTarget("sample")
  /\ dijkstra.lane = Target.lane
  /\ dijkstra.queue = {}
  /\ frames = <<>>
  /\ IF device[item].summary.reconstruction # "complete"
       THEN /\ samples' = Append(samples, NoPath)
            /\ NextTarget
            /\ UNCHANGED <<stage, frames>>
       ELSE IF dijkstra.distances[Target.vertex] = Infinity
       THEN stage' = "thrown" /\ UNCHANGED <<item, frames, samples>>
       ELSE /\ frames' = <<Frame(Target.vertex, None)>>
            /\ UNCHANGED <<stage, item, samples>>
  /\ UNCHANGED <<job, kernelVars, host, dijkstra>>

SampleAnswer ==
  /\ stage = "sample"
  /\ HostFound \/ HostFailed
  /\ IF HostFound
       THEN /\ samples' = Append(samples, HostPath)
            /\ NextTarget
            /\ UNCHANGED stage
       ELSE stage' = "thrown" /\ UNCHANGED <<item, samples>>
  /\ frames' = <<>>
  /\ UNCHANGED <<job, kernelVars, host, dijkstra>>

(***************************************************************************)
(* validate_payload_impl for one target of lane l, in the order its tests  *)
(* run; the path's shape first, because the later tests index by it.       *)
(***************************************************************************)
EdgeOf(id) == CHOOSE e \in Edges : EdgeId[e] = id

\* A fault variant, which no specification uses: a path may leave the tiles.
FaultValidPath(b, l, target, summary, path) ==
  LET n == Len(path.edge_ids)
  IN /\ summary.reached /\ summary.distance # Infinity
     /\ summary.selected_source \in ToSet(LaneSources(b, l))
     /\ Len(path.vertices) = Len(path.labels)
     /\ Len(path.vertices) = n + 1
     /\ n = summary.path_length
     /\ path.vertices[1] = summary.selected_source
     /\ path.vertices[n + 1] = target
     /\ IsInjective(path.vertices)
     /\ \A i \in 1 .. n + 1 : path.labels[i] # Infinity
     /\ path.labels[1] = 0
     /\ path.labels[n + 1] = summary.distance
     /\ \A i \in 1 .. n :
          LET e == EdgeOf(path.edge_ids[i])
          IN /\ Source[e] = path.vertices[i]
             /\ Destination[e] = path.vertices[i + 1]
             /\ Plus(path.labels[i], Weight[e]) = path.labels[i + 1]
     /\ FoldLeft(LAMBDA cost, id : Plus(cost, Weight[EdgeOf(id)]), 0,
                 path.edge_ids) = summary.distance

ValidPath(b, l, target, summary, path) ==
  LET n == Len(path.edge_ids)
  IN /\ summary.reached /\ summary.distance # Infinity
     /\ summary.selected_source \in ToSet(LaneSources(b, l))
     /\ Len(path.vertices) = Len(path.labels)
     /\ Len(path.vertices) = n + 1
     /\ n = summary.path_length
     /\ path.vertices[1] = summary.selected_source
     /\ path.vertices[n + 1] = target
     /\ IsInjective(path.vertices)
     /\ \A i \in 1 .. n + 1 : /\ l \in VertexLanes(b, path.vertices[i])
                              /\ path.labels[i] # Infinity
     /\ path.labels[1] = 0
     /\ path.labels[n + 1] = summary.distance
     /\ \A i \in 1 .. n :
          LET e == EdgeOf(path.edge_ids[i])
          IN /\ Source[e] = path.vertices[i]
             /\ Destination[e] = path.vertices[i + 1]
             /\ Plus(path.labels[i], Weight[e]) = path.labels[i + 1]
     /\ FoldLeft(LAMBDA cost, id : Plus(cost, Weight[EdgeOf(id)]), 0,
                 path.edge_ids) = summary.distance

ValidTarget(b, l, target, answer) ==
  LET summary == answer.summary
  IN IF summary.reconstruction = "complete"
       THEN ValidPath(b, l, target, summary, answer.path)
       ELSE /\ summary.reached <=> summary.reconstruction
                                     \in {"no_tight_path", "path_length_overflow"}
            /\ summary.reached <=> summary.distance # Infinity
            /\ summary.selected_source = None
            /\ summary.path_length = 0
            /\ answer.path = NoPath

\* validate_compact_query_result for the targets of one lane.
ValidQueryResult(b, l, answers, disposition) ==
  LET mine   == {i \in 1 .. Len(answers) : OrderedTargets[b][i].lane = l}
      status == {answers[i].summary.reconstruction : i \in mine}
  IN /\ \A i \in mine : ValidTarget(b, l, OrderedTargets[b][i].vertex, answers[i])
     /\ CASE disposition = "reached" -> status = {"complete"}
          [] disposition = "unreachable_in_full_region" ->
               "unreachable" \in status
                 /\ status \subseteq {"complete", "unreachable"}
          [] disposition = "engine_failure" ->
               status \intersect {"query_terminal_failure", "no_tight_path",
                                  "path_length_overflow"} # {}

\* ..._against_distances: what it adds for one target.
AgreesWithDistances(target, answer, distances) ==
  LET summary == answer.summary
  IN CASE summary.reconstruction = "complete" ->
            \A i \in 1 .. Len(answer.path.vertices) :
              answer.path.labels[i] = distances[answer.path.vertices[i]]
       [] summary.reconstruction = "unreachable" -> distances[target] = Infinity
       [] summary.reconstruction = "query_terminal_failure" -> TRUE
       [] OTHER -> summary.distance = distances[target]

\* The disposition under which the expansion publishes a lane of this run.
Disposition(b, l) ==
  IF ~job.clean THEN "engine_failure"
  ELSE IF \A v \in Batches[b].targets[l] : job.image[v][l] # Infinity
         THEN "reached" ELSE "unreachable_in_full_region"

Publish ==
  LET b == job.batch
  IN /\ PastTargets("sample")
     /\ stage' =
          IF \A answers \in {device, host} :
               /\ \A l \in Batches[b].valid_lane_mask :
                    ValidQueryResult(b, l, answers, Disposition(b, l))
               /\ \A i \in 1 .. Len(answers) :
                    AgreesWithDistances(AllTargets[i].vertex, answers[i],
                      LaneDistances(b, AllTargets[i].lane, job.image))
            THEN "published" ELSE "thrown"
     /\ UNCHANGED <<job, item, kernelVars, hostVars>>

Stopped == stage \in {"published", "thrown"} /\ UNCHANGED vars

Next ==
  \/ CountTarget \/ Descend \/ Backtrack \/ Summarize
  \/ PlanRanges \/ EmitTarget \/ Emit \/ FinishEmit \/ Collect
  \/ HostTarget \/ HostAdvance \/ HostAbandon \/ HostAnswer \/ FinishHost
  \/ StartDijkstra \/ Settle \/ SampleTarget \/ SampleAnswer
  \/ Publish
  \/ Stopped

\* One device thread and one host thread that never wait: the host's loops and
\* a launched kernel go on.
FairSpec == Init /\ [][Next]_vars /\ WF_vars(Next)

(***************************************************************************)
(* Properties.                                                             *)
(***************************************************************************)
\* A route of lane l to t: a simple path along edges between vertices of the
\* lane that starts at one of its sources.
IsRoute(b, l, t, path) ==
  LET n == Len(path.edge_ids)
  IN /\ Len(path.vertices) = n + 1
     /\ IsInjective(path.vertices)
     /\ path.vertices[1] \in ToSet(LaneSources(b, l))
     /\ path.vertices[n + 1] = t
     /\ \A i \in 1 .. n + 1 : l \in VertexLanes(b, path.vertices[i])
     /\ \A i \in 1 .. n :
          \E e \in Edges : /\ EdgeId[e] = path.edge_ids[i]
                           /\ Source[e] = path.vertices[i]
                           /\ Destination[e] = path.vertices[i + 1]

Cost(edge_ids) ==
  FoldLeft(LAMBDA cost, id : Plus(cost, Weight[EdgeOf(id)]), 0, edge_ids)

\* After a clean run every reachable target gets a route of its lane whose cost
\* is the shortest distance, also when the walk back runs into a cycle of
\* edges that cost nothing or past the stale words of another lane's tiles;
\* the others are reported unreachable, and a failed run answers nothing
\* (compact_path_results.hip.cpp, both passes and the ranges between them).
AnswersAreShortest ==
  device # <<>> =>
    \A i \in 1 .. Len(AllTargets) :
      LET b == job.batch
          l == AllTargets[i].lane
          t == AllTargets[i].vertex
          d == LaneReference[b][l][t]
      IN IF job.clean /\ d # Infinity
           THEN /\ device[i].summary.reconstruction = "complete"
                /\ device[i].summary.distance = d
                /\ IsRoute(b, l, t, device[i].path)
                /\ Cost(device[i].path.edge_ids) = d
           ELSE /\ device[i].summary =
                     Unanswered(IF job.clean THEN "unreachable"
                                             ELSE "query_terminal_failure")
                /\ device[i].path = NoPath

\* Ties are broken alike everywhere: the host's payload is the device's, and a
\* path found on the whole graph that happens to stay within the lane's tiles
\* is the lane's path; it is never the longer of the two (three searches:
\* thresholds on the device, sorted choices and cursors on the host).
SearchesAgree ==
  stage = "published" =>
    /\ device = host
    /\ \A i \in 1 .. Len(AllTargets) :
         LET b == job.batch
             l == AllTargets[i].lane
         IN device[i].summary.reconstruction = "complete" =>
              /\ Cost(samples[i].edge_ids) <= device[i].summary.distance
              /\ (\A j \in 1 .. Len(samples[i].vertices) :
                    l \in VertexLanes(b, samples[i].vertices[j]))
                   => samples[i] = device[i].path

\* The entry dijkstra_oracle expands next, unless it is out of date, carries
\* its vertex's distance in the whole graph, edges without cost or not.
ExpandedIsFinal ==
  dijkstra.queue # {} =>
    \/ QueueTop.distance # dijkstra.distances[QueueTop.vertex]
    \/ QueueTop.distance =
         UnboundedReference[job.batch][dijkstra.lane][QueueTop.vertex]

\* Any sequence of edges offered as the path of target i, with its own sums as
\* the labels.
Claim(i, edges) ==
  LET n == Len(edges)
      v == [j \in 1 .. n + 1 |-> IF j <= n THEN Source[edges[j]]
                                 ELSE IF n = 0 THEN AllTargets[i].vertex
                                 ELSE Destination[edges[n]]]
      d == [j \in 1 .. n + 1 |->
              FoldLeft(LAMBDA cost, e : Plus(cost, Weight[e]), 0,
                       SubSeq(edges, 1, j - 1))]
  IN [summary |-> Summary(d[n + 1], TRUE, "complete", v[1], n),
      path    |-> [vertices |-> v, labels |-> d,
                   edge_ids |-> [j \in 1 .. n |-> EdgeId[edges[j]]]]]

\* The payload validator accepts the routes and nothing else, short of the
\* shortest or not; with the distances at hand it accepts only a shortest one.
ValidatorIsExact ==
  stage = "published" /\ job.clean =>
    \A i \in 1 .. Len(AllTargets) :
      \A edges \in UNION {[1 .. n -> Edges] : n \in 0 .. ClaimLength} :
        LET b     == job.batch
            l     == AllTargets[i].lane
            t     == AllTargets[i].vertex
            claim == Claim(i, edges)
            valid == ValidTarget(b, l, t, claim)
        IN /\ valid <=> /\ IsRoute(b, l, t, claim.path)
                        /\ claim.summary.distance # Infinity
           /\ valid /\ AgreesWithDistances(t, claim,
                         LaneDistances(b, l, job.image))
                => claim.summary.distance = LaneReference[b][l][t]

\* Every search ends, the second pass repeats the first, the sample finds its
\* path and no validator objects, so every result is published.
EveryResultIsPublished == <>(stage = "published")
=============================================================================
