---------------------- MODULE RetainedWorkspaceProofs ----------------------
(***************************************************************************)
(* Safety of the retained workspace, for any number of streams and runs:   *)
(* queued work never meets memory that was reused under it, a run returns  *)
(* its own answer, and a batched workspace gets its lease back.            *)
(***************************************************************************)
EXTENDS RetainedWorkspace, FiniteSetTheorems, TLAPS

(***************************************************************************)
(* Queued work                                                             *)
(***************************************************************************)
\* The order in which the operations of one stream are queued.
Rank(op) == CASE op.op = "load"     -> 0
              [] op.op = "record"   -> 1
              [] op.op = "wait"     -> 2
              [] op.op = "copy"     -> 3
              [] op.op = "event"    -> 4
              [] op.op = "kernel"   -> 5
              [] op.op = "download" -> 6

\* Operations that touch the workspace, rather than the graph alone.
GraphOps == {"load", "record", "wait"}
OnWorkspace(op) == op.op \notin GraphOps

WellFormed(op) ==
  /\ op \in Ops
  /\ op.op \in GraphOps            => op.memory = "graph"
  /\ op.op = "copy"                => /\ op.memory \in {"staging", "caller"}
                                      /\ op.buffer # "status"
  /\ op.op \in {"event", "kernel"} => op.memory = "none"
  /\ op.op = "download"            => op.memory = "local"
  /\ op.memory = "caller"          => Batched

StreamsWellFormed == \A s \in Streams : \A op \in Queued(s) : WellFormed(op)

Ordered ==
  \A s \in Streams : \A i, j \in DOMAIN streams[s] :
    i <= j => Rank(streams[s][i]) <= Rank(streams[s][j])

LostDrains == lost => DeviceIdle

(***************************************************************************)
(* The graph                                                               *)
(***************************************************************************)
Waiting(s, op) == \E x \in Queued(s) : x.op = op

GraphInv ==
  /\ graph.state = "empty" => DeviceIdle /\ run.phase = "idle" /\ ~graph.ready
  /\ graph.ready => graph.loaded
  /\ \A s \in Streams :
       /\ Waiting(s, "load") => graph.staging /\ ~graph.ready
       /\ Waiting(s, "record") =>
            /\ graph.loaded \/ Waiting(s, "load")
            /\ \A t \in Streams : Waiting(t, "load") => t = s

(***************************************************************************)
(* The lease                                                               *)
(***************************************************************************)
Unleased == {"idle", "begun", "reserved"}
Leased   == Phases \ Unleased

LeaseInv ==
  /\ lease_active => device_work_may_be_in_flight
  /\ run.phase \in Leased => /\ lease_active
                             /\ lease_stream = run.stream
  /\ run.phase = "reserved" \/ (Batched /\ run.phase \in Unleased) =>
       ~device_work_may_be_in_flight
  /\ run.phase = "unprepared" => Batched
  /\ run.phase = "transferred" => Drained(run.stream)
  /\ InRun => alive /\ run.number \in Runs

\* Where the work on the workspace is queued, and whose it is.
Computing == {"launched", "downloaded", "reconstructing", "reconstructed",
              "reconstruction_failed", "catching"}

WorkInv ==
  \A s \in Streams : \A op \in Queued(s) :
    /\ OnWorkspace(op) =>
         /\ alive
         /\ device_work_may_be_in_flight
         /\ s = lease_stream
         /\ run.phase \in Leased => op.run = run.number
    /\ op.memory = "staging" => alive /\ staging = op.run
    /\ op.memory \in OfRun => InRun /\ op.run = run.number
    /\ op.op = "kernel" => run.phase \in Computing
    /\ op.op = "download" => run.phase \in Computing \ {"launched", "reconstructing"}

SafetyInv ==
  /\ TypeOK
  /\ StreamsWellFormed
  /\ Ordered
  /\ LostDrains
  /\ GraphInv
  /\ LeaseInv
  /\ WorkInv

(***************************************************************************)
(* The data of a run                                                       *)
(***************************************************************************)
UploadBuffers == CASE class = "standalone" -> {"inputs", "controller"}
                   [] class = "jacobi"     -> {"inputs", "ranges"}
                   [] OTHER                -> {"inputs", "ranges", "controller"}

Prepared == {"prepared", "running", "launched", "downloaded",
             "reconstructing", "reconstructed"}

\* Whatever a run has asked for is there, or still queued.
DataInv ==
  /\ results \in [Runs -> Nat] /\ \A n \in Runs : results[n] \in {Nothing, n}
  /\ run.phase = "transferred" => received = run.number
  /\ ~lost =>
       /\ (Batched /\ run.phase \in {"begun", "reserved"})
            \/ run.phase \in Prepared \union {"unprepared"} =>
            graph.ready \/ Waiting(run.stream, "wait")
       /\ run.phase \in Prepared =>
            \A b \in UploadBuffers :
              device[b] = run.number
                \/ \E op \in Queued(run.stream) : op.op = "copy" /\ op.buffer = b
       /\ run.phase \in Prepared \ {"prepared", "running"} =>
            device["status"] = run.number \/ Waiting(run.stream, "kernel")
       /\ run.phase \in {"downloaded", "reconstructed"} =>
            received = run.number \/ Waiting(run.stream, "download")

IInv == SafetyInv /\ DataInv

-----------------------------------------------------------------------------
(***************************************************************************)
(* Lemmas about the queues                                                 *)
(***************************************************************************)
LEMMA QueuedElement ==
  ASSUME NEW s \in Streams
  PROVE  Queued(s) = {streams[s][i] : i \in DOMAIN streams[s]}
BY DEF Queued, ToSet

\* What a sequence of calls leaves in the queue of its stream.
LEMMA EnqueueEffect ==
  ASSUME streams \in [Streams -> Seq(Ops)],
         NEW s \in Streams, NEW ops \in Seq(Ops), NEW sent \in 0 .. Len(ops),
         Enqueue(s, ops, sent)
  PROVE  /\ streams' \in [Streams -> Seq(Ops)]
         /\ \A t \in Streams \ {s} : streams'[t] = streams[t]
         /\ Len(streams'[s]) = Len(streams[s]) + sent
         /\ \A i \in 1 .. Len(streams[s]) : streams'[s][i] = streams[s][i]
         /\ \A k \in 1 .. sent : streams'[s][Len(streams[s]) + k] = ops[k]
<1> DEFINE more == SubSeq(ops, 1, sent)
<1>1. /\ more \in Seq(Ops)
      /\ Len(more) = sent
      /\ \A k \in 1 .. sent : more[k] = ops[k]
  OBVIOUS
<1>2. streams[s] \in Seq(Ops)
  OBVIOUS
<1>3. streams' = [streams EXCEPT ![s] = streams[s] \o more]
  BY DEF Enqueue
<1> HIDE DEF more
<1>4. streams'[s] = streams[s] \o more
  BY <1>3
<1>5. streams[s] \o more \in Seq(Ops)
  BY <1>1, <1>2
<1>6. streams' \in [Streams -> Seq(Ops)]
  BY <1>3, <1>5
<1>7. Len(streams'[s]) = Len(streams[s]) + sent
  BY <1>1, <1>2, <1>4, SMTT(30)
<1>8. \A i \in 1 .. Len(streams[s]) : streams'[s][i] = streams[s][i]
  BY <1>1, <1>2, <1>4
<1>9. \A k \in 1 .. sent : streams'[s][Len(streams[s]) + k] = ops[k]
  BY <1>1, <1>2, <1>4
<1>10. QED
  BY <1>3, <1>6, <1>7, <1>8, <1>9

LEMMA EnqueuedSet ==
  ASSUME streams \in [Streams -> Seq(Ops)],
         NEW s \in Streams, NEW ops \in Seq(Ops), NEW sent \in 0 .. Len(ops),
         Enqueue(s, ops, sent)
  PROVE  /\ \A t \in Streams \ {s} : Queued(t)' = Queued(t)
         /\ Queued(s)' = Queued(s) \union {ops[k] : k \in 1 .. sent}
<1>0. /\ \A t \in Streams \ {s} : streams'[t] = streams[t]
      /\ \A i \in 1 .. Len(streams[s]) : streams'[s][i] = streams[s][i]
      /\ \A k \in 1 .. sent : streams'[s][Len(streams[s]) + k] = ops[k]
  BY EnqueueEffect
<1>1. \A t \in Streams \ {s} : Queued(t)' = Queued(t)
  BY <1>0 DEF Queued
<1>2. /\ streams[s] \in Seq(Ops) /\ streams'[s] \in Seq(Ops)
      /\ Len(streams[s]) \in Nat /\ Len(streams'[s]) \in Nat
      /\ DOMAIN streams[s] = 1 .. Len(streams[s])
      /\ DOMAIN streams'[s] = 1 .. (Len(streams[s]) + sent)
  BY EnqueueEffect
<1>3. ASSUME NEW x \in Queued(s)'
      PROVE  x \in Queued(s) \union {ops[k] : k \in 1 .. sent}
  <2>1. PICK i \in 1 .. (Len(streams[s]) + sent) : x = streams'[s][i]
    BY <1>2, <1>3 DEF Queued, ToSet
  <2>2. CASE i <= Len(streams[s])
    <3>1. i \in 1 .. Len(streams[s])
      BY <1>2, <2>2
    <3>2. x = streams[s][i]
      BY <1>0, <2>1, <3>1
    <3>3. QED
      BY <1>2, <3>1, <3>2 DEF Queued, ToSet
  <2>3. CASE i > Len(streams[s])
    <3>1. i - Len(streams[s]) \in 1 .. sent
      BY <1>2, <2>3
    <3>2. x = streams'[s][Len(streams[s]) + (i - Len(streams[s]))]
      BY <1>2, <2>1
    <3>3. x = ops[i - Len(streams[s])]
      BY <1>0, <3>1, <3>2
    <3>4. QED
      BY <3>1, <3>3
  <2>4. QED
    BY <1>2, <2>2, <2>3
<1>4. ASSUME NEW x \in Queued(s) PROVE x \in Queued(s)'
  <2>1. PICK i \in 1 .. Len(streams[s]) : x = streams[s][i]
    BY <1>2, <1>4 DEF Queued, ToSet
  <2>2. i \in DOMAIN streams'[s] /\ x = streams'[s][i]
    BY <1>0, <1>2, <2>1
  <2>3. QED
    BY <2>2 DEF Queued, ToSet
<1>5. ASSUME NEW k \in 1 .. sent PROVE ops[k] \in Queued(s)'
  <2>1. Len(streams[s]) + k \in 1 .. (Len(streams[s]) + sent)
    BY <1>2
  <2>2. QED
    BY <1>2, <2>1, <1>0 DEF Queued, ToSet
<1>6. QED
  BY <1>1, <1>3, <1>4, <1>5

\* A queue stays in order when what is queued ranks with the calls' kind.
LEMMA EnqueueOrdered ==
  ASSUME streams \in [Streams -> Seq(Ops)], Ordered,
         NEW s \in Streams, NEW ops \in Seq(Ops), NEW sent \in 0 .. Len(ops),
         Enqueue(s, ops, sent),
         \A op \in Ops : Rank(op) \in Nat,
         \A k \in 1 .. sent : \A x \in Queued(s) : Rank(x) <= Rank(ops[k]),
         \A k, l \in 1 .. sent : k <= l => Rank(ops[k]) <= Rank(ops[l])
  PROVE  Ordered'
<1>1. SUFFICES ASSUME NEW t \in Streams, NEW i \in DOMAIN streams'[t],
                      NEW j \in DOMAIN streams'[t], i <= j
               PROVE  Rank(streams'[t][i]) <= Rank(streams'[t][j])
  BY DEF Ordered, Rank
<1>0. /\ \A u \in Streams \ {s} : streams'[u] = streams[u]
      /\ Len(streams'[s]) = Len(streams[s]) + sent
      /\ \A k \in 1 .. Len(streams[s]) : streams'[s][k] = streams[s][k]
      /\ \A k \in 1 .. sent : streams'[s][Len(streams[s]) + k] = ops[k]
  BY EnqueueEffect
<1>2. CASE t # s
  BY <1>1, <1>2, <1>0 DEF Ordered
<1>3. CASE t = s
  <2> DEFINE n == Len(streams[s])
  <2>1. /\ n \in Nat
        /\ DOMAIN streams[s] = 1 .. n
        /\ i \in 1 .. (n + sent) /\ j \in 1 .. (n + sent)
    BY <1>3, EnqueueEffect
  <2>2. CASE j <= n
    <3>1. i \in 1 .. n /\ j \in 1 .. n
      BY <1>1, <2>1, <2>2
    <3>2. streams'[s][i] = streams[s][i] /\ streams'[s][j] = streams[s][j]
      BY <1>0, <3>1
    <3>3. QED
      BY <1>1, <1>3, <2>1, <3>1, <3>2 DEF Ordered
  <2>3. CASE i <= n /\ j > n
    <3>1. j - n \in 1 .. sent /\ streams'[s][j] = ops[j - n]
      <4>1. j - n \in 1 .. sent /\ n + (j - n) = j
        BY <2>1, <2>3
      <4>2. QED
        BY <4>1, <1>0
    <3>2. streams'[s][i] = streams[s][i] /\ streams[s][i] \in Queued(s)
      BY <2>1, <2>3, <1>0 DEF Queued, ToSet
    <3>3. QED
      BY <1>3, <3>1, <3>2
  <2>4. CASE i > n
    <3>1. /\ i - n \in 1 .. sent /\ streams'[s][i] = ops[i - n]
          /\ j - n \in 1 .. sent /\ streams'[s][j] = ops[j - n]
          /\ i - n <= j - n
      <4> HIDE DEF n
      <4>1. /\ i - n \in 1 .. sent /\ n + (i - n) = i
            /\ j - n \in 1 .. sent /\ n + (j - n) = j
            /\ i - n <= j - n
        <5>1. /\ n \in Nat /\ i \in Nat /\ j \in Nat /\ sent \in Nat
              /\ i <= n + sent /\ j <= n + sent
              /\ i > n /\ i <= j
          BY <1>1, <2>1, <2>4
        <5>2. (i - n) \in Nat /\ (j - n) \in Nat /\ i - n >= 1 /\ j - n >= 1
          BY <5>1
        <5>3. i - n <= sent /\ j - n <= sent /\ i - n <= j - n
          BY <5>1
        <5>4. n + (i - n) = i /\ n + (j - n) = j
          BY <5>1
        <5>5. QED
          BY <5>1, <5>2, <5>3, <5>4
      <4> USE DEF n
      <4>2. QED
        BY <4>1, <1>0
    <3>2. QED
      BY <1>3, <3>1
  <2>5. QED
    BY <2>1, <2>2, <2>3, <2>4
<1>4. QED
  BY <1>2, <1>3

\* What is left of a queue when its first operation has happened.
LEMMA TailEffect ==
  ASSUME streams \in [Streams -> Seq(Ops)], NEW s \in Streams, ~Drained(s),
         streams' = [streams EXCEPT ![s] = Tail(@)]
  PROVE  /\ streams' \in [Streams -> Seq(Ops)]
         /\ \A t \in Streams \ {s} : streams'[t] = streams[t]
         /\ DOMAIN streams[s] = 1 .. Len(streams[s])
         /\ Len(streams[s]) \in Nat \ {0}
         /\ DOMAIN streams'[s] = 1 .. (Len(streams[s]) - 1)
         /\ \A i \in 1 .. (Len(streams[s]) - 1) : streams'[s][i] = streams[s][i + 1]
         /\ Head(streams[s]) = streams[s][1]
<1>1. streams[s] \in Seq(Ops) /\ streams[s] # <<>>
  BY DEF Drained
<1>2. Tail(streams[s]) \in Seq(Ops)
  BY <1>1
<1>3. /\ streams' \in [Streams -> Seq(Ops)]
      /\ streams'[s] = Tail(streams[s])
      /\ \A t \in Streams \ {s} : streams'[t] = streams[t]
  BY <1>2
<1>4. QED
  BY <1>1, <1>2, <1>3

LEMMA TailSet ==
  ASSUME streams \in [Streams -> Seq(Ops)], NEW s \in Streams, ~Drained(s),
         streams' = [streams EXCEPT ![s] = Tail(@)]
  PROVE  /\ \A t \in Streams \ {s} : Queued(t)' = Queued(t)
         /\ Queued(s)' \subseteq Queued(s)
         /\ Queued(s) \subseteq Queued(s)' \union {Head(streams[s])}
         /\ Head(streams[s]) \in Queued(s)
<1>0. /\ \A t \in Streams \ {s} : streams'[t] = streams[t]
      /\ DOMAIN streams[s] = 1 .. Len(streams[s])
      /\ Len(streams[s]) \in Nat \ {0}
      /\ DOMAIN streams'[s] = 1 .. (Len(streams[s]) - 1)
      /\ \A i \in 1 .. (Len(streams[s]) - 1) : streams'[s][i] = streams[s][i + 1]
      /\ Head(streams[s]) = streams[s][1]
  BY TailEffect
<1>1. \A t \in Streams \ {s} : Queued(t)' = Queued(t)
  BY <1>0 DEF Queued
<1>2. ASSUME NEW x \in Queued(s)' PROVE x \in Queued(s)
  <2>1. PICK i \in 1 .. (Len(streams[s]) - 1) : x = streams'[s][i]
    BY <1>0, <1>2 DEF Queued, ToSet
  <2>2. x = streams[s][i + 1] /\ i + 1 \in DOMAIN streams[s]
    BY <1>0, <2>1
  <2>3. QED
    BY <2>2 DEF Queued, ToSet
<1>3. ASSUME NEW x \in Queued(s), x # Head(streams[s]) PROVE x \in Queued(s)'
  <2>1. PICK i \in 1 .. Len(streams[s]) : x = streams[s][i]
    BY <1>0, <1>3 DEF Queued, ToSet
  <2>0. i # 1
    BY <1>0, <1>3, <2>1
  <2> DEFINE n == Len(streams[s])
  <2>2. i - 1 \in 1 .. (n - 1) /\ (i - 1) + 1 = i
    <3>1. n \in Nat \ {0} /\ i \in 1 .. n
      BY <1>0, <2>1
    <3> HIDE DEF n
    <3>2. QED
      BY <2>0, <3>1
  <2>3. x = streams'[s][i - 1] /\ i - 1 \in DOMAIN streams'[s]
    BY <1>0, <2>1, <2>2
  <2>4. QED
    BY <2>3 DEF Queued, ToSet
<1>4. Head(streams[s]) \in Queued(s)
  <2>1. 1 \in DOMAIN streams[s]
    BY <1>0
  <2>2. QED
    BY <1>0, <2>1, QueuedElement
<1>5. QED
  BY <1>1, <1>2, <1>3, <1>4

\* The first operation ranks lowest, and the others stay in order.
LEMMA TailOrdered ==
  ASSUME streams \in [Streams -> Seq(Ops)], NEW s \in Streams, ~Drained(s),
         Ordered, streams' = [streams EXCEPT ![s] = Tail(@)]
  PROVE  /\ Ordered'
         /\ \A x \in Queued(s) : Rank(Head(streams[s])) <= Rank(x)
<1>0. /\ \A t \in Streams \ {s} : streams'[t] = streams[t]
      /\ DOMAIN streams[s] = 1 .. Len(streams[s])
      /\ Len(streams[s]) \in Nat \ {0}
      /\ DOMAIN streams'[s] = 1 .. (Len(streams[s]) - 1)
      /\ \A i \in 1 .. (Len(streams[s]) - 1) : streams'[s][i] = streams[s][i + 1]
      /\ Head(streams[s]) = streams[s][1]
  BY TailEffect
<1>1. ASSUME NEW t \in Streams, NEW i \in DOMAIN streams'[t],
             NEW j \in DOMAIN streams'[t], i <= j
      PROVE  Rank(streams'[t][i]) <= Rank(streams'[t][j])
  <2>1. CASE t # s
    BY <1>0, <1>1, <2>1 DEF Ordered
  <2>2. CASE t = s
    <3>1. /\ i + 1 \in DOMAIN streams[s] /\ j + 1 \in DOMAIN streams[s]
          /\ i + 1 <= j + 1
      BY <1>0, <1>1, <2>2
    <3>2. streams'[s][i] = streams[s][i + 1] /\ streams'[s][j] = streams[s][j + 1]
      BY <1>0, <1>1, <2>2
    <3>3. QED
      BY <2>2, <3>1, <3>2 DEF Ordered
  <2>3. QED
    BY <2>1, <2>2
<1>2. Ordered'
  BY <1>1 DEF Ordered, Rank
<1>3. ASSUME NEW x \in Queued(s) PROVE Rank(Head(streams[s])) <= Rank(x)
  <2>1. PICK i \in 1 .. Len(streams[s]) : x = streams[s][i]
    BY <1>0, <1>3 DEF Queued, ToSet
  <2>2. 1 \in DOMAIN streams[s] /\ i \in DOMAIN streams[s] /\ 1 <= i
    BY <1>0, <2>1
  <2>3. QED
    BY <1>0, <2>1, <2>2 DEF Ordered
<1>4. QED
  BY <1>2, <1>3

LEMMA DrainedQueue ==
  ASSUME streams \in [Streams -> Seq(Ops)], NEW s \in Streams
  PROVE  Drained(s) <=> Queued(s) = {}
<1>1. streams[s] \in Seq(Ops) /\ DOMAIN streams[s] = 1 .. Len(streams[s])
  OBVIOUS
<1>2. CASE streams[s] = <<>>
  BY <1>2 DEF Drained, Queued, ToSet
<1>3. CASE streams[s] # <<>>
  <2>1. 1 \in DOMAIN streams[s]
    BY <1>1, <1>3
  <2>2. QED
    BY <1>3, <2>1 DEF Drained, Queued, ToSet
<1>4. QED
  BY <1>2, <1>3

-----------------------------------------------------------------------------
(***************************************************************************)
(* Lemmas about the calls                                                  *)
(***************************************************************************)
LEMMA RankType == \A op \in Ops : Rank(op) \in Nat
BY DEF Ops, Rank

LEMMA OpType ==
  ASSUME run.number \in Nat,
         NEW o \in {"load", "record", "wait", "event", "copy", "kernel", "download"},
         NEW b \in Buffers,
         NEW m \in {"graph", "staging", "caller", "local", "none"}
  PROVE  /\ Op(o, b, m) \in Ops
         /\ Op(o, b, m).op = o /\ Op(o, b, m).buffer = b
         /\ Op(o, b, m).memory = m /\ Op(o, b, m).run = run.number
BY DEF Op, Ops

\* A copy of a preparation.
IsUpload(op) ==
  /\ op \in Ops
  /\ op.op = "copy" /\ op.run = run.number
  /\ op.memory \in {"staging", "caller"}
  /\ op.memory = "caller" => Batched
  /\ op.buffer \in UploadBuffers

LEMMA UploadsEffect ==
  ASSUME TypeOK
  PROVE  /\ Uploads \in Seq(Ops)
         /\ \A k \in 1 .. Len(Uploads) : IsUpload(Uploads[k])
         /\ {Uploads[k].buffer : k \in 1 .. Len(Uploads)} = UploadBuffers
         /\ UploadBuffers \subseteq Buffers \ {"status"}
         /\ Len(Uploads) \in {2, 3}
<1>1. run.number \in Nat
  BY DEF TypeOK
<1> DEFINE stagedIn == Op("copy", "inputs", "staging")
           callerIn == Op("copy", "inputs", "caller")
           ranges   == Op("copy", "ranges", "staging")
           control  == Op("copy", "controller", "staging")
<1>2. /\ stagedIn \in Ops /\ stagedIn.op = "copy" /\ stagedIn.buffer = "inputs"
      /\ stagedIn.memory = "staging" /\ stagedIn.run = run.number
      /\ callerIn \in Ops /\ callerIn.op = "copy" /\ callerIn.buffer = "inputs"
      /\ callerIn.memory = "caller" /\ callerIn.run = run.number
      /\ ranges \in Ops /\ ranges.op = "copy" /\ ranges.buffer = "ranges"
      /\ ranges.memory = "staging" /\ ranges.run = run.number
      /\ control \in Ops /\ control.op = "copy" /\ control.buffer = "controller"
      /\ control.memory = "staging" /\ control.run = run.number
  BY <1>1, OpType DEF Buffers
<1> HIDE DEF stagedIn, callerIn, ranges, control
<1>3. CASE class = "standalone"
  <2>1. Uploads = <<stagedIn, control>>
    BY <1>3 DEF Uploads, StandaloneUploads, stagedIn, control
  <2>2. QED
    BY <1>2, <1>3, <2>1 DEF UploadBuffers, IsUpload, Buffers
<1>4. CASE class = "jacobi"
  <2>1. Uploads = <<callerIn, ranges>>
    BY <1>4 DEF Uploads, JacobiUploads, callerIn, ranges
  <2>2. QED
    BY <1>2, <1>4, <2>1 DEF UploadBuffers, IsUpload, Buffers, Batched
<1>5. CASE class \in {"dense", "frontier"}
  <2>1. Uploads = <<callerIn, ranges, control>>
    BY <1>5 DEF Uploads, DenseUploads, FrontierUploads, callerIn, ranges, control
  <2>2. QED
    BY <1>2, <1>5, <2>1 DEF UploadBuffers, IsUpload, Buffers, Batched
<1>6. QED
  BY <1>3, <1>4, <1>5 DEF TypeOK, Classes

\* The calls of a standalone preparation, one by one.
StandaloneCalls == WaitUntilReady \o Uploads \o <<Op("event", "inputs", "none")>>

LEMMA StandaloneCallsEffect ==
  ASSUME TypeOK
  PROVE  /\ StandaloneCalls \in Seq(Ops)
         /\ Len(StandaloneCalls) = Len(Uploads) + 2
         /\ StandaloneCalls[1] = Op("wait", "inputs", "graph")
         /\ \A k \in 1 .. Len(Uploads) : StandaloneCalls[k + 1] = Uploads[k]
         /\ StandaloneCalls[Len(Uploads) + 2] = Op("event", "inputs", "none")
<1> DEFINE w == Op("wait", "inputs", "graph")
           e == Op("event", "inputs", "none")
<1>1. w \in Ops /\ e \in Ops
  BY OpType DEF TypeOK, Buffers
<1>2. Uploads \in Seq(Ops)
  BY UploadsEffect
<1>3. StandaloneCalls = (<<w>> \o Uploads) \o <<e>>
  BY DEF StandaloneCalls, WaitUntilReady
<1> HIDE DEF w, e
<1>4. /\ <<w>> \in Seq(Ops) /\ Len(<<w>>) = 1 /\ <<w>>[1] = w
      /\ <<e>> \in Seq(Ops) /\ Len(<<e>>) = 1 /\ <<e>>[1] = e
  BY <1>1
<1> DEFINE front == <<w>> \o Uploads
<1>5. /\ front \in Seq(Ops) /\ Len(front) = Len(Uploads) + 1
      /\ front[1] = w
      /\ \A k \in 1 .. Len(Uploads) : front[k + 1] = Uploads[k]
  BY <1>2, <1>4
<1> HIDE DEF front
<1>6. StandaloneCalls = front \o <<e>>
  BY <1>3 DEF front
<1>7. /\ StandaloneCalls \in Seq(Ops)
      /\ Len(StandaloneCalls) = Len(Uploads) + 2
      /\ StandaloneCalls[Len(Uploads) + 2] = e
      /\ \A k \in 1 .. Len(Uploads) + 1 : StandaloneCalls[k] = front[k]
  BY <1>2, <1>4, <1>5, <1>6
<1>8. QED
  BY <1>2, <1>5, <1>7 DEF w, e

-----------------------------------------------------------------------------
(***************************************************************************)
(* What the invariant says of the queues                                   *)
(***************************************************************************)
LEMMA EmptyQueue ==
  ASSUME NEW q \in Seq(Ops)
  PROVE  q = <<>> <=> ToSet(q) = {}
<1>1. DOMAIN q = 1 .. Len(q)
  OBVIOUS
<1>2. CASE q = <<>>
  BY <1>2 DEF ToSet
<1>3. CASE q # <<>>
  <2>1. 1 \in DOMAIN q
    BY <1>1, <1>3
  <2>2. QED
    BY <1>3, <2>1 DEF ToSet
<1>4. QED
  BY <1>2, <1>3

\* The kinds of queued work, and when each can be queued at all.
LEMMA QueuedWork ==
  ASSUME SafetyInv, NEW s \in Streams, NEW op \in Queued(s)
  PROVE  /\ op \in Ops
         /\ op.memory \in {"staging", "caller", "local"} => OnWorkspace(op)
         /\ OnWorkspace(op) => device_work_may_be_in_flight
         /\ ~device_work_may_be_in_flight => Rank(op) <= 2
         /\ run.phase \notin Computing => Rank(op) <= 4
         /\ run.phase \in Unleased =>
              op.memory \notin OfRun /\ op.op \notin {"kernel", "download"}
         /\ run.phase \in Leased /\ OnWorkspace(op) =>
              s = run.stream /\ op.run = run.number
         /\ ~lost /\ graph.state # "empty"
<1>1. /\ WellFormed(op)
      /\ ~Drained(s)
  BY DrainedQueue DEF SafetyInv, StreamsWellFormed, TypeOK
<1>2. ~lost /\ graph.state # "empty"
  BY <1>1 DEF SafetyInv, LostDrains, GraphInv, DeviceIdle
<1>3. /\ OnWorkspace(op) => /\ device_work_may_be_in_flight
                            /\ s = lease_stream
                            /\ run.phase \in Leased => op.run = run.number
      /\ op.memory \in OfRun => InRun
      /\ op.op = "kernel" => run.phase \in Computing
      /\ op.op = "download" => run.phase \in Computing
  BY DEF SafetyInv, WorkInv
<1>4. /\ op.op \in {"load", "record", "wait", "event", "copy", "kernel", "download"}
      /\ op \in Ops
  BY <1>1 DEF WellFormed, Ops
<1>5. op.memory \in {"staging", "caller", "local"} => OnWorkspace(op)
  BY <1>1, <1>4 DEF WellFormed, OnWorkspace, GraphOps
<1>6. ~device_work_may_be_in_flight => Rank(op) <= 2
  BY <1>3, <1>4 DEF OnWorkspace, GraphOps, Rank
<1>7. run.phase \notin Computing => Rank(op) <= 4
  BY <1>3, <1>4 DEF Rank
<1>8. run.phase \in Unleased => op.op \notin {"kernel", "download"}
  BY <1>3 DEF Unleased, Computing
<1>9. run.phase \in Unleased => op.memory \notin OfRun
  <2>1. op.memory = "local" => op.op = "download"
    BY <1>1, <1>4 DEF WellFormed, GraphOps
  <2>2. op.memory = "caller" => Batched /\ device_work_may_be_in_flight
    BY <1>1, <1>3, <1>5 DEF WellFormed
  <2>3. Batched /\ run.phase \in Unleased => ~device_work_may_be_in_flight
    BY DEF SafetyInv, LeaseInv
  <2>4. QED
    BY <1>8, <2>1, <2>2, <2>3 DEF OfRun
<1>10. run.phase \in Leased => lease_stream = run.stream
  BY DEF SafetyInv, LeaseInv
<1>11. QED
  BY <1>2, <1>3, <1>4, <1>5, <1>6, <1>7, <1>8, <1>9, <1>10

\* A step that leaves the queues alone.
LEMMA QuietQueues ==
  ASSUME SafetyInv, UNCHANGED <<class, streams, lost>>
  PROVE  /\ StreamsWellFormed' /\ Ordered' /\ LostDrains'
         /\ \A s \in Streams : Queued(s)' = Queued(s) /\ Drained(s)' = Drained(s)
<1>1. \A s \in Streams : Queued(s)' = Queued(s) /\ Drained(s)' = Drained(s)
  BY DEF Queued, Drained
<1>2. \A op : WellFormed(op)' = WellFormed(op)
  BY DEF WellFormed, Batched
<1>3. StreamsWellFormed'
  BY <1>1, <1>2 DEF SafetyInv, StreamsWellFormed
<1>4. Ordered'
  <2>1. SUFFICES ASSUME NEW s \in Streams, NEW i \in DOMAIN streams'[s],
                        NEW j \in DOMAIN streams'[s], i <= j
                 PROVE  Rank(streams'[s][i]) <= Rank(streams'[s][j])
    BY DEF Ordered, Rank
  <2>2. QED
    BY <2>1 DEF SafetyInv, Ordered
<1>5. LostDrains'
  BY DEF SafetyInv, LostDrains, DeviceIdle, Drained
<1>6. QED
  BY <1>1, <1>3, <1>4, <1>5

\* A step that queues calls, when their kinds come after what is queued.
LEMMA EnqueueQueues ==
  ASSUME SafetyInv, UNCHANGED <<class, lost>>,
         NEW s \in Streams, NEW ops \in Seq(Ops), NEW sent \in 0 .. Len(ops),
         Enqueue(s, ops, sent),
         lost => sent = 0,
         \A k \in 1 .. sent : WellFormed(ops[k]),
         \A k \in 1 .. sent : \A x \in Queued(s) : Rank(x) <= Rank(ops[k]),
         \A k, l \in 1 .. sent : k <= l => Rank(ops[k]) <= Rank(ops[l])
  PROVE  /\ streams' \in [Streams -> Seq(Ops)]
         /\ StreamsWellFormed' /\ Ordered' /\ LostDrains'
         /\ \A t \in Streams \ {s} : Queued(t)' = Queued(t)
         /\ Queued(s)' = Queued(s) \union {ops[k] : k \in 1 .. sent}
<1>0. streams \in [Streams -> Seq(Ops)] /\ Ordered
  BY DEF SafetyInv, TypeOK
<1>1. /\ streams' \in [Streams -> Seq(Ops)]
      /\ \A t \in Streams \ {s} : streams'[t] = streams[t]
      /\ Len(streams'[s]) = Len(streams[s]) + sent
  BY <1>0, EnqueueEffect
<1>2. /\ \A t \in Streams \ {s} : Queued(t)' = Queued(t)
      /\ Queued(s)' = Queued(s) \union {ops[k] : k \in 1 .. sent}
  BY <1>0, EnqueuedSet
<1>3. Ordered'
  BY <1>0, EnqueueOrdered, RankType
<1>4. \A op : WellFormed(op)' = WellFormed(op)
  BY DEF WellFormed, Batched
<1>5. StreamsWellFormed'
  BY <1>2, <1>4 DEF SafetyInv, StreamsWellFormed
<1>6. LostDrains'
  <2>1. SUFFICES ASSUME lost PROVE \A t \in Streams : streams'[t] = <<>>
    BY DEF LostDrains, DeviceIdle, Drained
  <2>2. \A t \in Streams : streams[t] = <<>>
    BY <2>1 DEF SafetyInv, LostDrains, DeviceIdle, Drained
  <2>3. streams'[s] \in Seq(Ops) /\ Len(streams'[s]) = 0
    BY <1>1, <2>1, <2>2
  <2>4. streams'[s] = <<>>
    BY <2>3
  <2>5. QED
    BY <1>1, <2>2, <2>4
<1>7. QED
  BY <1>1, <1>2, <1>3, <1>5, <1>6

-----------------------------------------------------------------------------
(***************************************************************************)
(* The steps that leave the queues alone                                   *)
(***************************************************************************)
\* What such a step preserves whatever it does, and what is left to show.
LEMMA QuietStep ==
  ASSUME IInv, UNCHANGED <<class, streams, lost>>, TypeOK', GraphInv',
         LeaseInv', WorkInv', DataInv'
  PROVE  IInv'
BY QuietQueues DEF IInv, SafetyInv

LEMMA WaitingKept ==
  ASSUME SafetyInv, UNCHANGED <<class, streams, lost>>
  PROVE  \A s \in Streams : \A o : Waiting(s, o)' = Waiting(s, o)
BY QuietQueues DEF Waiting

\* The graph's part of the invariant is the graph's and the queues' alone.
LEMMA GraphKept ==
  ASSUME SafetyInv, UNCHANGED <<class, graph, streams, lost>>,
         graph.state # "empty" \/ run'.phase = "idle"
  PROVE  GraphInv'
<1>1. \A s \in Streams : /\ Drained(s)' = Drained(s)
                         /\ \A o : Waiting(s, o)' = Waiting(s, o)
  BY QuietQueues, WaitingKept
<1>2. QED
  BY <1>1 DEF SafetyInv, GraphInv, DeviceIdle

LEMMA ObserveUploadStep ==
  ASSUME IInv, ObserveUpload PROVE IInv'
<1>0. SafetyInv /\ UNCHANGED <<class, streams, lost>>
  BY DEF IInv, ObserveUpload
<1>1. \A s \in Streams : /\ Queued(s)' = Queued(s)
                         /\ Drained(s)' = Drained(s)
                         /\ \A o : Waiting(s, o)' = Waiting(s, o)
  BY <1>0, QuietQueues, WaitingKept
<1>2. TypeOK'
  BY <1>0 DEF SafetyInv, TypeOK, ObserveUpload, leaseVars
<1>3. GraphInv'
  <2>1. \A s \in Streams : ~Waiting(s, "load")
    BY <1>0 DEF SafetyInv, GraphInv, ObserveUpload
  <2>2. graph' = [graph EXCEPT !.state = "ready", !.staging = FALSE]
    BY DEF ObserveUpload
  <2>3. graph'.state = "ready" /\ graph'.ready = graph.ready /\ graph'.loaded = graph.loaded
    BY <1>0, <2>2 DEF SafetyInv, TypeOK
  <2>4. QED
    BY <1>0, <1>1, <2>1, <2>3 DEF SafetyInv, GraphInv
<1>4. LeaseInv'
  BY <1>0, <1>1 DEF SafetyInv, TypeOK, LeaseInv, ObserveUpload, leaseVars, Batched, InRun
<1>5. WorkInv'
  BY <1>0, <1>1 DEF SafetyInv, WorkInv, OnWorkspace, ObserveUpload, leaseVars, InRun
<1>6. DataInv'
  BY <1>0 DEF IInv, DataInv, ObserveUpload, Prepared
<1>7. QED
  BY <1>0, <1>2, <1>3, <1>4, <1>5, <1>6, QuietStep

\* A run that ends, whatever became of it, leaves no work of its own queued; it
\* gives the lease back, or the workspace is the standalone one.
LEMMA RunEnds ==
  ASSUME IInv, InRun,
         UNCHANGED <<resident, capacity, alive, staging, device, received, streams, lost>>,
         Throw,
         results' \in [Runs -> Nat], \A n \in Runs : results'[n] \in {Nothing, n},
         ClearLease \/ UNCHANGED leaseVars,
         UNCHANGED leaseVars => ~Batched,
         \A s \in Streams : \A op \in Queued(s) :
           /\ op.memory \notin OfRun
           /\ op.op \notin {"kernel", "download"}
           /\ ClearLease => ~OnWorkspace(op)
  PROVE  IInv'
<1>0. /\ SafetyInv /\ UNCHANGED <<class, graph, streams, lost>>
      /\ run' = [run EXCEPT !.phase = "idle"]
      /\ run \in [phase : Phases, number : 0 .. Len(Bytes), stream : Streams,
                  compact : BOOLEAN]
  BY DEF IInv, SafetyInv, TypeOK, resident, Throw, Goto
<1>1. /\ run'.phase = "idle" /\ run'.number = run.number /\ run'.stream = run.stream
      /\ run' \in [phase : Phases, number : 0 .. Len(Bytes), stream : Streams,
                   compact : BOOLEAN]
  BY <1>0 DEF Phases
<1>2. \A s \in Streams : Queued(s)' = Queued(s)
  BY <1>0, QuietQueues
<1>3. TypeOK'
  BY <1>0, <1>1 DEF SafetyInv, TypeOK, resident, leaseVars, ClearLease
<1>4. GraphInv'
  BY <1>0, <1>1, GraphKept
<1>5. LeaseInv'
  BY <1>0, <1>1 DEF SafetyInv, LeaseInv, leaseVars, ClearLease, Leased, Unleased,
                    InRun, Batched
<1>6. WorkInv'
  <2>1. SUFFICES ASSUME NEW s \in Streams, NEW op \in Queued(s)
                 PROVE  /\ OnWorkspace(op) =>
                             /\ alive'
                             /\ device_work_may_be_in_flight'
                             /\ s = lease_stream'
                        /\ op.memory = "staging" => alive' /\ staging' = op.run
    BY <1>1, <1>2 DEF WorkInv, OnWorkspace, Leased, Unleased
  <2>2. QED
    BY <1>0, <2>1 DEF SafetyInv, WorkInv, ClearLease, leaseVars
<1>7. DataInv'
  BY <1>1 DEF DataInv, Prepared
<1>8. QED
  BY <1>0, <1>3, <1>4, <1>5, <1>6, <1>7, QuietStep

LEMMA RefuseStep ==
  ASSUME IInv, Refuse \/ FenceFails PROVE IInv'
<1>0. /\ SafetyInv /\ InRun /\ run.phase \in Unleased
      /\ UNCHANGED <<resident, capacity, alive, staging, device, received, streams, lost>>
      /\ Throw /\ UNCHANGED leaseVars /\ UNCHANGED results
  BY DEF IInv, Refuse, FenceFails, InRun, Unleased
<1>1. ~Batched
  BY <1>0 DEF SafetyInv, LeaseInv, Refuse, FenceFails
<1>2. \A s \in Streams : \A op \in Queued(s) :
           /\ op.memory \notin OfRun
           /\ op.op \notin {"kernel", "download"}
  BY <1>0, QueuedWork
<1>3. results \in [Runs -> Nat] /\ \A n \in Runs : results[n] \in {Nothing, n}
  BY DEF IInv, DataInv
<1>4. ~ClearLease
  <2>1. device_work_may_be_in_flight
    BY <1>0 DEF SafetyInv, LeaseInv, Refuse, FenceFails, MustFence
  <2>2. QED
    BY <1>0, <2>1 DEF ClearLease, leaseVars
<1>5. QED
  BY <1>0, <1>1, <1>2, <1>3, <1>4, RunEnds

\* A run whose stream is drained, or whose device is idle or lost, has no work
\* left on the workspace.
LEMMA FencedRun ==
  ASSUME SafetyInv, run.phase \in Leased, Drained(run.stream) \/ DeviceIdle \/ lost
  PROVE  \A s \in Streams : \A op \in Queued(s) : ~OnWorkspace(op)
<1>1. SUFFICES ASSUME NEW s \in Streams, NEW op \in Queued(s), OnWorkspace(op)
               PROVE  FALSE
  OBVIOUS
<1>2. s = run.stream /\ ~lost
  BY <1>1, QueuedWork
<1>3. ~Drained(s)
  BY <1>1, DrainedQueue DEF SafetyInv, TypeOK
<1>4. QED
  BY <1>2, <1>3 DEF DeviceIdle

\* A run that gives its lease back after a fence.
LEMMA FencedEnds ==
  ASSUME IInv, run.phase \in Leased,
         UNCHANGED <<resident, capacity, alive, staging, device, received, streams, lost>>,
         Throw,
         results' \in [Runs -> Nat], \A n \in Runs : results'[n] \in {Nothing, n},
         Drained(run.stream) \/ DeviceIdle \/ lost,
         ClearLease
  PROVE  IInv'
<1>0. SafetyInv /\ InRun
  BY DEF IInv, Leased, Unleased, InRun
<1>1. \A s \in Streams : \A op \in Queued(s) : ~OnWorkspace(op)
  BY <1>0, FencedRun
<1>2. \A s \in Streams : \A op \in Queued(s) :
        op.memory \notin OfRun /\ op.op \notin {"kernel", "download"}
  <2>1. SUFFICES ASSUME NEW s \in Streams, NEW op \in Queued(s)
                 PROVE op.memory \notin OfRun /\ op.op \notin {"kernel", "download"}
    OBVIOUS
  <2>2. /\ ~OnWorkspace(op)
        /\ op.memory \in {"staging", "caller", "local"} => OnWorkspace(op)
    BY <1>0, <1>1, QueuedWork
  <2>3. QED
    BY <2>2 DEF OfRun, OnWorkspace, GraphOps
<1>3. UNCHANGED leaseVars => ~Batched
  <2>1. lease_active = TRUE /\ lease_active' = FALSE
    BY <1>0 DEF SafetyInv, LeaseInv, ClearLease, TypeOK
  <2>2. QED
    BY <2>1 DEF leaseVars
<1>4. QED
  BY <1>0, <1>1, <1>2, <1>3, RunEnds

LEMMA FencedEndSteps ==
  ASSUME IInv,
         \/ RecoverPreparation \/ CatchRetires \/ RetireAfterStreamCompletion
         \/ (Retire /\ ~lost) \/ (CatchRecovers /\ Batched)
  PROVE  IInv'
<1>0. /\ results \in [Runs -> Nat] /\ \A n \in Runs : results[n] \in {Nothing, n}
      /\ SafetyInv
  BY DEF IInv, DataInv
<1>1. CASE RecoverPreparation \/ CatchRetires \/ (CatchRecovers /\ Batched)
  <2>1. /\ run.phase \in Leased
        /\ UNCHANGED <<resident, capacity, alive, staging, device, received, streams,
                       lost, results>>
        /\ Throw /\ ClearLease
        /\ Drained(run.stream) \/ DeviceIdle \/ lost
    BY <1>1 DEF RecoverPreparation, CatchRetires, CatchRecovers, Leased, Unleased, Phases
  <2>2. QED
    BY <1>0, <2>1, FencedEnds
<1>2. CASE RetireAfterStreamCompletion \/ (Retire /\ ~lost)
  <2>1. /\ run.phase \in {"transferred", "downloaded"}
        /\ UNCHANGED <<resident, capacity, alive, staging, device, received, streams,
                       lost>>
        /\ Throw /\ ClearLease
        /\ results' = [results EXCEPT ![run.number] = received]
    BY <1>2 DEF RetireAfterStreamCompletion, Retire, Throw
  <2>2. Drained(run.stream)
    BY <1>0, <1>2 DEF SafetyInv, LeaseInv, RetireAfterStreamCompletion, Retire
  <2>3. received = run.number
    <3>1. CASE run.phase = "transferred"
      BY <3>1 DEF IInv, DataInv
    <3>2. CASE run.phase = "downloaded"
      <4>1. Queued(run.stream) = {}
        BY <1>0, <2>2, DrainedQueue DEF SafetyInv, TypeOK
      <4>2. ~lost
        BY <1>2, <3>2 DEF RetireAfterStreamCompletion
      <4>3. QED
        BY <3>2, <4>1, <4>2 DEF IInv, DataInv, Waiting
    <3>3. QED
      BY <2>1, <3>1, <3>2
  <2>4. run.number \in Runs /\ run.number \in Nat
    BY <1>0, <2>1 DEF SafetyInv, LeaseInv, TypeOK, InRun
  <2>5. results' \in [Runs -> Nat] /\ \A n \in Runs : results'[n] \in {Nothing, n}
    BY <1>0, <2>1, <2>3, <2>4
  <2>6. run.phase \in Leased
    BY <2>1 DEF Leased, Unleased, Phases
  <2>7. QED
    BY <2>1, <2>2, <2>5, <2>6, FencedEnds
<1>3. QED
  BY <1>1, <1>2

\* A standalone run gives up with the workspace leased: what it has queued reads
\* the workspace's staging, unless the device is lost.
LEMMA StandaloneGivesUp ==
  ASSUME IInv, CatchRecovers \/ (StopPreparationTimer /\ run'.phase = "idle"), ~Batched
  PROVE  IInv'
<1>0. /\ SafetyInv /\ run.phase \in {"catching", "prepared"} /\ InRun
      /\ UNCHANGED <<resident, capacity, alive, staging, device, received, streams, lost>>
      /\ UNCHANGED leaseVars /\ UNCHANGED results
      /\ run.phase = "prepared" \/ lost
  BY DEF IInv, CatchRecovers, StopPreparationTimer, InRun
<1>1. Throw
  <2>1. CASE CatchRecovers
    BY <2>1 DEF CatchRecovers
  <2>2. CASE StopPreparationTimer /\ run'.phase = "idle"
    <3>1. Goto("running") => run'.phase = "running"
      BY <1>0 DEF Goto, SafetyInv, TypeOK
    <3>2. QED
      BY <2>2, <3>1 DEF StopPreparationTimer, Throw
  <2>3. QED
    BY <2>1, <2>2
<1>2. \A s \in Streams : \A op \in Queued(s) :
        op.memory \notin OfRun /\ op.op \notin {"kernel", "download"}
  <2>1. SUFFICES ASSUME NEW s \in Streams, NEW op \in Queued(s)
                 PROVE  op.memory \notin OfRun /\ op.op \notin {"kernel", "download"}
    OBVIOUS
  <2>2. ~lost /\ run.phase = "prepared"
    BY <1>0, <2>1, QueuedWork
  <2>3. op.op \notin {"kernel", "download"}
    BY <1>0, <2>1, <2>2 DEF SafetyInv, WorkInv, Computing
  <2>4. QED
    BY <1>0, <2>1, <2>3 DEF SafetyInv, StreamsWellFormed, WellFormed, OfRun, Ops, GraphOps
<1>3. results \in [Runs -> Nat] /\ \A n \in Runs : results[n] \in {Nothing, n}
  BY DEF IInv, DataInv
<1>4. ~ClearLease
  <2>1. lease_active
    BY <1>0 DEF SafetyInv, LeaseInv, Leased, Unleased, Phases
  <2>2. QED
    BY <1>0, <2>1 DEF ClearLease, leaseVars
<1>5. QED
  BY <1>0, <1>1, <1>2, <1>3, <1>4, RunEnds

\* A leased run that goes on, without a call that queues work.
LEMMA RunGoesOn ==
  ASSUME IInv, NEW phase \in Leased \ {"unprepared"}, run.phase \in Leased \ {"unprepared"},
         UNCHANGED <<resident, leaseVars, capacity, alive, staging, device, received,
                     results, streams, lost>>,
         Goto(phase),
         run.phase \in Computing => phase \in {"catching", "reconstruction_failed", "transferred"},
         phase = "transferred" => Drained(run.stream) /\ received = run.number,
         phase \in Prepared => phase = "running" /\ run.phase = "prepared"
  PROVE  IInv'
<1>0. /\ SafetyInv /\ UNCHANGED <<class, graph, streams, lost>>
      /\ run' = [run EXCEPT !.phase = phase]
      /\ run \in [phase : Phases, number : 0 .. Len(Bytes), stream : Streams,
                  compact : BOOLEAN]
      /\ graph.state # "empty"
  BY DEF IInv, SafetyInv, TypeOK, GraphInv, resident, Goto, Leased, Unleased
<1>1. /\ run'.phase = phase /\ run'.number = run.number /\ run'.stream = run.stream
      /\ run' \in [phase : Phases, number : 0 .. Len(Bytes), stream : Streams,
                   compact : BOOLEAN]
  BY <1>0 DEF Leased
<1>2. \A s \in Streams : Queued(s)' = Queued(s) /\ Drained(s)' = Drained(s)
  BY <1>0, QuietQueues
<1>3. TypeOK'
  BY <1>0, <1>1 DEF SafetyInv, TypeOK, resident, leaseVars
<1>4. GraphInv'
  BY <1>0, GraphKept
<1>5. LeaseInv'
  BY <1>0, <1>1, <1>2 DEF SafetyInv, LeaseInv, leaseVars, Leased, Unleased, InRun, Batched
<1>6. WorkInv'
  <2>1. SUFFICES ASSUME NEW s \in Streams, NEW op \in Queued(s)
                 PROVE  /\ op.op = "kernel" => phase \in Computing
                        /\ op.op = "download" => phase \in Computing \ {"launched", "reconstructing"}
    BY <1>0, <1>1, <1>2 DEF WorkInv, SafetyInv, OnWorkspace, InRun, leaseVars, Leased, Unleased
  <2>2. CASE phase = "transferred"
    <3>1. ~OnWorkspace(op)
      BY <1>0, <2>1, <2>2, FencedRun
    <3>2. QED
      BY <3>1 DEF OnWorkspace, GraphOps
  <2>3. CASE phase # "transferred"
    BY <1>0, <2>1, <2>3 DEF SafetyInv, WorkInv, Computing
  <2>4. QED
    BY <2>2, <2>3
<1>7. DataInv'
  <2>1. /\ UNCHANGED <<results, received, device, lost>>
        /\ results \in [Runs -> Nat] /\ \A n \in Runs : results[n] \in {Nothing, n}
    BY DEF IInv, DataInv
  <2>2. CASE phase \notin Prepared
    BY <1>1, <2>1, <2>2 DEF DataInv, Leased, Unleased, Prepared
  <2>3. CASE phase = "running"
    <3>1. /\ Queued(run.stream)' = Queued(run.stream)
          /\ Waiting(run.stream, "wait")' = Waiting(run.stream, "wait")
      BY <1>0, <1>2 DEF Waiting
    <3>2. UploadBuffers' = UploadBuffers
      BY <1>0 DEF UploadBuffers
    <3>3. run.phase \in Prepared
      BY <2>3 DEF Prepared
    <3>4. QED
      BY <1>0, <1>1, <2>1, <2>3, <3>1, <3>2, <3>3 DEF IInv, DataInv, Prepared
  <2>4. QED
    BY <2>2, <2>3
<1>8. QED
  BY <1>0, <1>3, <1>4, <1>5, <1>6, <1>7, QuietStep

LEMMA GoingOnSteps ==
  ASSUME IInv,
         \/ StopPreparationTimer /\ (Batched \/ run'.phase # "idle")
         \/ Retire /\ lost
         \/ ReconstructionReturns \/ ReconstructionThrows
  PROVE  IInv'
<1>0. SafetyInv /\ run.phase \in Phases
  BY DEF IInv, SafetyInv, TypeOK
<1>1. CASE StopPreparationTimer /\ (Batched \/ run'.phase # "idle")
  <2>1. run.phase = "prepared" /\ (Goto("running") \/ Goto("catching"))
    <3>1. Goto("idle") => run'.phase = "idle"
      BY <1>0 DEF Goto, SafetyInv, TypeOK
    <3>2. QED
      BY <1>1, <3>1 DEF StopPreparationTimer
  <2>2. UNCHANGED <<resident, leaseVars, capacity, alive, staging, device, received,
                    results, streams, lost>>
    BY <1>1 DEF StopPreparationTimer
  <2>3. QED
    BY <2>1, <2>2, RunGoesOn DEF Leased, Unleased, Phases, Computing, Prepared
<1>2. CASE (Retire /\ lost) \/ ReconstructionThrows
  <2>1. /\ run.phase \in {"downloaded", "reconstruction_failed"}
        /\ Goto("catching")
        /\ UNCHANGED <<resident, leaseVars, capacity, alive, staging, device, received,
                       results, streams, lost>>
    BY <1>2 DEF Retire, ReconstructionThrows
  <2>2. QED
    BY <2>1, RunGoesOn DEF Leased, Unleased, Phases, Computing, Prepared
<1>3. CASE ReconstructionReturns
  <2>1. /\ run.phase = "reconstructed"
        /\ UNCHANGED <<resident, leaseVars, capacity, alive, staging, device, received,
                       results, streams, lost>>
    BY <1>3 DEF ReconstructionReturns
  <2>2. CASE lost
    <3>1. Goto("reconstruction_failed")
      BY <1>3, <2>2 DEF ReconstructionReturns
    <3>2. QED
      BY <2>1, <3>1, RunGoesOn DEF Leased, Unleased, Phases, Computing, Prepared
  <2>3. CASE ~lost
    <3>1. Drained(run.stream) /\ Goto("transferred")
      BY <1>3, <2>3 DEF ReconstructionReturns
    <3>2. Queued(run.stream) = {}
      BY <1>0, <3>1, DrainedQueue DEF SafetyInv, TypeOK
    <3>3. received = run.number
      BY <2>1, <2>3, <3>2 DEF IInv, DataInv, Waiting
    <3>4. QED
      BY <2>1, <3>1, <3>3, RunGoesOn DEF Leased, Unleased, Phases, Computing, Prepared
  <2>4. QED
    BY <2>2, <2>3
<1>4. QED
  BY <1>1, <1>2, <1>3

LEMMA DestroyStep ==
  ASSUME IInv, Destroy PROVE IInv'
<1>0. /\ SafetyInv /\ UNCHANGED <<class, graph, streams, lost>>
      /\ UNCHANGED <<leaseVars, capacity, staging, device, run, received, results>>
      /\ run.phase = "idle" /\ alive' = FALSE
  BY DEF IInv, Destroy, resident
<1>1. \A s \in Streams : Queued(s)' = Queued(s)
  BY <1>0, QuietQueues
<1>2. TypeOK'
  BY <1>0 DEF SafetyInv, TypeOK, leaseVars
<1>3. GraphInv'
  BY <1>0, GraphKept
<1>4. LeaseInv'
  BY <1>0 DEF SafetyInv, LeaseInv, leaseVars, Batched, Leased, Unleased, InRun
<1>5. WorkInv'
  <2>1. \A s \in Streams : \A op \in Queued(s) :
          ~OnWorkspace(op) /\ op.memory # "staging"
    <3>1. SUFFICES ASSUME NEW s \in Streams, NEW op \in Queued(s), OnWorkspace(op)
                   PROVE  FALSE
      BY <1>0, QueuedWork
    <3>2. device_work_may_be_in_flight /\ ~lost
      BY <1>0, <3>1, QueuedWork
    <3>3. ~Drained(s)
      BY <1>0, <3>1, DrainedQueue DEF SafetyInv, TypeOK
    <3>4. QED
      BY <3>2, <3>3 DEF Destroy, DeviceIdle
  <2>2. QED
    BY <1>0, <1>1, <2>1 DEF SafetyInv, WorkInv, OnWorkspace, InRun, leaseVars
<1>6. DataInv'
  BY <1>0 DEF IInv, DataInv, Prepared
<1>7. QED
  BY <1>0, <1>2, <1>3, <1>4, <1>5, <1>6, QuietStep

LEMMA StutterStep ==
  ASSUME IInv, UNCHANGED vars PROVE IInv'
<1>0. /\ SafetyInv
      /\ UNCHANGED <<class, graph, lease_active, device_work_may_be_in_flight,
                     lease_stream, capacity, alive, staging, device, run, received,
                     results, streams, lost>>
  BY DEF IInv, vars
<1>1. \A s \in Streams : /\ Queued(s)' = Queued(s)
                         /\ Drained(s)' = Drained(s)
                         /\ \A o : Waiting(s, o)' = Waiting(s, o)
  BY <1>0, QuietQueues, WaitingKept
<1>2. TypeOK'
  BY <1>0 DEF SafetyInv, TypeOK
<1>3. GraphInv'
  BY <1>0, <1>1 DEF SafetyInv, GraphInv, DeviceIdle
<1>4. LeaseInv'
  BY <1>0, <1>1 DEF SafetyInv, TypeOK, LeaseInv, Batched, InRun
<1>5. WorkInv'
  BY <1>0, <1>1 DEF SafetyInv, WorkInv, OnWorkspace, InRun
<1>6. DataInv'
  <2>1. UploadBuffers' = UploadBuffers
    BY <1>0 DEF UploadBuffers
  <2>2. run.stream \in Streams
    BY <1>0 DEF SafetyInv, TypeOK
  <2>3. QED
    BY <1>0, <1>1, <2>1, <2>2 DEF IInv, DataInv, Batched
<1>7. QED
  BY <1>0, <1>2, <1>3, <1>4, <1>5, <1>6, QuietStep

\* The offsets are rewritten and the buffers grow with nothing queued on them.
LEMMA ReserveStep ==
  ASSUME IInv, Reserve PROVE IInv'
<1>0. /\ SafetyInv /\ UNCHANGED <<class, graph, streams, lost>>
      /\ UNCHANGED <<lease_active, lease_stream, alive, device, received, results>>
      /\ run.phase = "begun" /\ ~lease_active /\ device_work_may_be_in_flight' = FALSE
      /\ staging' = IF Batched THEN run.number ELSE staging
      /\ capacity' \in {capacity, Bytes[run.number]}
      /\ run' = [run EXCEPT !.phase = "reserved"] \/ run' = [run EXCEPT !.phase = "idle"]
  BY DEF IInv, Reserve, resident, Goto, Throw
<1>1. /\ run \in [phase : Phases, number : 0 .. Len(Bytes), stream : Streams,
                  compact : BOOLEAN]
      /\ run.number \in Runs /\ run.number \in Nat /\ graph.state # "empty"
  BY <1>0 DEF SafetyInv, TypeOK, LeaseInv, GraphInv, InRun
<1>2. /\ run'.phase \in {"idle", "reserved"} /\ run'.number = run.number
      /\ run'.stream = run.stream
      /\ run' \in [phase : Phases, number : 0 .. Len(Bytes), stream : Streams,
                   compact : BOOLEAN]
  <2>1. CASE run' = [run EXCEPT !.phase = "reserved"]
    BY <1>1, <2>1 DEF Phases
  <2>2. CASE run' = [run EXCEPT !.phase = "idle"]
    BY <1>1, <2>2 DEF Phases
  <2>3. QED
    BY <1>0, <2>1, <2>2
<1>3. \A s \in Streams : Queued(s)' = Queued(s)
  BY <1>0, QuietQueues
<1>4. \A s \in Streams : \A op \in Queued(s) :
        /\ ~OnWorkspace(op) /\ op.memory \notin {"staging", "caller", "local"}
        /\ op.op \notin {"kernel", "download"}
  <2>1. SUFFICES ASSUME NEW s \in Streams, NEW op \in Queued(s)
                 PROVE  ~OnWorkspace(op) /\ op.memory \notin {"staging", "caller", "local"}
    BY DEF OnWorkspace, GraphOps
  <2>2. ~Drained(s) /\ ~lost
    BY <1>0, <2>1, DrainedQueue, QueuedWork DEF SafetyInv, TypeOK
  <2>3. ~device_work_may_be_in_flight
    BY <2>2 DEF Reserve, Fenced, MustFence, DeviceIdle
  <2>4. QED
    BY <1>0, <2>1, <2>3, QueuedWork
<1>5. TypeOK'
  <2>1. capacity' \in Nat
    BY <1>0, <1>1, BytesAssumption DEF SafetyInv, TypeOK, Runs
  <2>2. QED
    BY <1>0, <1>1, <1>2, <2>1 DEF SafetyInv, TypeOK
<1>6. GraphInv'
  BY <1>0, <1>1, GraphKept
<1>7. LeaseInv'
  BY <1>0, <1>1, <1>2 DEF SafetyInv, LeaseInv, Leased, Unleased, InRun, Batched
<1>8. WorkInv'
  BY <1>3, <1>4 DEF WorkInv, OnWorkspace, OfRun
<1>9. DataInv'
  <2>1. Batched => graph.ready \/ Waiting(run.stream, "wait") \/ lost
    BY <1>0 DEF IInv, DataInv
  <2>2. Waiting(run.stream, "wait")' = Waiting(run.stream, "wait")
    BY <1>1, <1>2, <1>3 DEF Waiting
  <2>3. QED
    BY <1>0, <1>2, <2>1, <2>2 DEF IInv, DataInv, Prepared, Batched
<1>10. QED
  BY <1>0, <1>5, <1>6, <1>7, <1>8, <1>9, QuietStep

-----------------------------------------------------------------------------
(***************************************************************************)
(* The steps that queue calls                                              *)
(***************************************************************************)
\* The graph's part, when the calls are not those of its upload.
LEMMA GraphAfterCalls ==
  ASSUME SafetyInv, UNCHANGED graph, graph.state # "empty",
         NEW s \in Streams, NEW more,
         \A t \in Streams \ {s} : Queued(t)' = Queued(t),
         Queued(s)' = Queued(s) \union more,
         \A op \in more : op.op \notin {"load", "record"}
  PROVE  GraphInv'
<1>1. \A t \in Streams : /\ Waiting(t, "load")' = Waiting(t, "load")
                         /\ Waiting(t, "record")' = Waiting(t, "record")
  BY DEF Waiting
<1>2. QED
  BY <1>1 DEF SafetyInv, GraphInv

\* Calls only add to what waits.
LEMMA WaitingGrows ==
  ASSUME NEW s \in Streams, NEW more,
         Queued(s)' = Queued(s) \union more
  PROVE  /\ \A o : Waiting(s, o) => Waiting(s, o)'
         /\ Queued(s) \subseteq Queued(s)'
BY DEF Waiting

\* A kernel after the preparation, or a transfer after the kernel.
LEMMA RunCalls ==
  ASSUME IInv, NEW q \in Streams, q = run.stream,
         NEW phase \in Computing, NEW op \in Ops, NEW sent \in {0, 1},
         \/ /\ op.op = "kernel" /\ run.phase = "running" /\ op.memory = "none"
            /\ phase \in {"launched", "reconstructing"} /\ sent = 1
         \/ /\ op.op = "download" /\ run.phase \in {"launched", "reconstructing"}
            /\ op.memory = "local"
            /\ phase \notin {"launched", "reconstructing"}
            /\ sent = 0 => phase \in {"catching", "reconstruction_failed"},
         op.run = run.number,
         Enqueue(q, <<op>>, sent), lost => sent = 0,
         UNCHANGED <<resident, leaseVars, capacity, alive, staging, device, received,
                     results, lost>>,
         Goto(phase)
  PROVE  IInv'
<1>0. /\ SafetyInv /\ UNCHANGED <<class, graph, lost>>
      /\ run' = [run EXCEPT !.phase = phase]
      /\ run \in [phase : Phases, number : 0 .. Len(Bytes), stream : Streams,
                  compact : BOOLEAN]
      /\ run.phase \in Leased /\ graph.state # "empty"
  BY DEF IInv, SafetyInv, TypeOK, GraphInv, resident, Goto, Leased, Unleased, Phases
<1>1. /\ run'.phase = phase /\ run'.number = run.number /\ run'.stream = q
      /\ run' \in [phase : Phases, number : 0 .. Len(Bytes), stream : Streams,
                   compact : BOOLEAN]
  BY <1>0 DEF Computing, Phases
<1> DEFINE more == {x \in {op} : sent = 1}
<1>2. /\ streams' \in [Streams -> Seq(Ops)]
      /\ StreamsWellFormed' /\ Ordered' /\ LostDrains'
      /\ \A t \in Streams \ {q} : Queued(t)' = Queued(t)
      /\ Queued(q)' = Queued(q) \union more
  <2>1. /\ <<op>> \in Seq(Ops) /\ Len(<<op>>) = 1 /\ <<op>>[1] = op
        /\ sent \in 0 .. Len(<<op>>)
        /\ \A k \in 1 .. sent : k = 1
    OBVIOUS
  <2>2. \A k \in 1 .. sent : WellFormed(<<op>>[k])
    BY <2>1 DEF WellFormed, GraphOps
  <2>3. \A x \in Queued(q) : Rank(x) <= Rank(op)
    <3>1. SUFFICES ASSUME NEW x \in Queued(q) PROVE Rank(x) <= Rank(op)
      OBVIOUS
    <3>2. x \in Ops /\ (run.phase \notin Computing => Rank(x) <= 4)
      BY <1>0, <1>1, <3>1, QueuedWork
    <3>3. CASE op.op = "kernel"
      <4>1. Rank(op) = 5
        BY <3>3 DEF Rank
      <4>2. Rank(x) <= 4 /\ Rank(x) \in Nat
        BY <3>2, <3>3, RankType DEF Computing
      <4>3. QED
        BY <4>1, <4>2
    <3>4. CASE op.op = "download"
      BY <3>2, <3>4 DEF Rank, Ops
    <3>5. QED
      BY <3>3, <3>4
  <2>4. Rank(op) <= Rank(op)
    BY RankType
  <2>5. {<<op>>[k] : k \in 1 .. sent} = more
    BY <2>1
  <2> HIDE DEF more
  <2>6. /\ \A k \in 1 .. sent : \A x \in Queued(q) : Rank(x) <= Rank(<<op>>[k])
        /\ \A k, l \in 1 .. sent : k <= l => Rank(<<op>>[k]) <= Rank(<<op>>[l])
    BY <2>1, <2>3, <2>4
  <2>7. QED
    BY <1>0, <1>1, <2>1, <2>2, <2>5, <2>6, EnqueueQueues
<1>3. TypeOK'
  BY <1>0, <1>1, <1>2 DEF SafetyInv, TypeOK, resident, leaseVars
<1>4. GraphInv'
  <2>1. \A x \in more : x.op \notin {"load", "record"}
    OBVIOUS
  <2> HIDE DEF more
  <2>2. QED
    BY <1>0, <1>1, <1>2, <2>1, GraphAfterCalls
<1>5. LeaseInv'
  BY <1>0, <1>1 DEF SafetyInv, LeaseInv, leaseVars, Leased, Unleased, InRun, Batched,
                    Computing
<1>6. WorkInv'
  <2>1. SUFFICES ASSUME NEW s \in Streams, NEW x \in Queued(s)'
                 PROVE  /\ OnWorkspace(x) =>
                             /\ alive
                             /\ device_work_may_be_in_flight
                             /\ s = lease_stream
                             /\ x.run = run.number
                        /\ x.memory = "staging" => alive /\ staging = x.run
                        /\ x.memory \in OfRun => x.run = run.number
                        /\ x.op = "download" => phase \in Computing \ {"launched", "reconstructing"}
    BY <1>0, <1>1 DEF WorkInv, OnWorkspace, InRun, leaseVars, Computing
  <2>2. CASE x \in Queued(s)
    BY <1>0, <2>1, <2>2 DEF SafetyInv, WorkInv, Leased, Computing
  <2>3. CASE x \notin Queued(s)
    <3>1. s = q /\ x \in more
      <4> HIDE DEF more
      <4>1. QED
        BY <1>2, <2>1, <2>3
    <3>2. x = op
      BY <3>1
    <3>3. device_work_may_be_in_flight /\ lease_stream = q /\ alive
      BY <1>0 DEF SafetyInv, LeaseInv, InRun, Leased, Unleased
    <3>4. QED
      BY <3>1, <3>2, <3>3
  <2>4. QED
    BY <2>2, <2>3
<1>7. DataInv'
  <2>1. /\ \A o : Waiting(q, o) => Waiting(q, o)'
        /\ Queued(q) \subseteq Queued(q)'
    BY <1>1, <1>2, WaitingGrows
  <2>2. UploadBuffers' = UploadBuffers
    BY <1>0 DEF UploadBuffers
  <2>3. /\ results \in [Runs -> Nat] /\ \A n \in Runs : results[n] \in {Nothing, n}
        /\ UNCHANGED <<results, received, device, lost, graph>>
    BY <1>0 DEF IInv, DataInv
  <2>4. CASE phase \in {"catching", "reconstruction_failed"}
    BY <1>1, <2>3, <2>4 DEF DataInv, Prepared
  <2>5. CASE phase \notin {"catching", "reconstruction_failed"}
    <3>1. op \in Queued(q)' /\ Waiting(q, op.op)'
      <4>1. op \in Queued(q)'
        BY <1>2, <2>5
      <4>2. QED
        BY <1>1, <4>1 DEF Waiting
    <3>2. /\ run.phase \in Prepared
          /\ phase \in Prepared
          /\ phase \notin {"transferred", "prepared", "running"}
      BY <2>5 DEF Prepared, Computing
    <3>3. ~lost => /\ graph.ready \/ Waiting(q, "wait")
                   /\ \A b \in UploadBuffers :
                        device[b] = run.number
                          \/ \E x \in Queued(q) : x.op = "copy" /\ x.buffer = b
                   /\ op.op = "download" => device["status"] = run.number
                                              \/ Waiting(q, "kernel")
      BY <3>2 DEF IInv, DataInv
    <3>4. ~lost => /\ graph.ready \/ Waiting(q, "wait")'
                   /\ \A b \in UploadBuffers :
                        device[b] = run.number
                          \/ \E x \in Queued(q)' : x.op = "copy" /\ x.buffer = b
                   /\ device["status"] = run.number \/ Waiting(q, "kernel")'
                   /\ phase \in {"downloaded", "reconstructed"} =>
                        Waiting(q, "download")'
      BY <2>1, <3>1, <3>3
    <3>5. QED
      BY <1>1, <2>2, <2>3, <3>2, <3>4 DEF DataInv, Prepared
  <2>6. QED
    BY <2>4, <2>5
<1>8. QED
  BY <1>2, <1>3, <1>4, <1>5, <1>6, <1>7 DEF IInv, SafetyInv

LEMMA CallSteps ==
  ASSUME IInv, Launch \/ DownloadAsync \/ Reconstruct
  PROVE  IInv'
<1>0. SafetyInv /\ run.number \in Nat
  BY DEF IInv, SafetyInv, TypeOK
<1>q. PICK q \in Streams : q = run.stream
  BY <1>0 DEF SafetyInv, TypeOK
<1> DEFINE kernel   == Op("kernel", "status", "none")
           download == Op("download", "status", "local")
<1>1. /\ kernel \in Ops /\ kernel.op = "kernel" /\ kernel.memory = "none"
      /\ kernel.run = run.number
      /\ download \in Ops /\ download.op = "download" /\ download.memory = "local"
      /\ download.run = run.number
  BY <1>0, OpType DEF Buffers
<1> HIDE DEF kernel, download
<1>2. CASE Launch
  <2>1. /\ run.phase = "running"
        /\ UNCHANGED <<resident, leaseVars, capacity, alive, staging, device, received,
                       results, lost>>
    BY <1>2 DEF Launch
  <2>2. CASE Goto("catching") /\ UNCHANGED streams
    BY <2>1, <2>2, RunGoesOn DEF Leased, Unleased, Phases, Computing, Prepared
  <2>3. CASE ~lost /\ Enqueue(q, <<kernel>>, 1)
             /\ Goto(IF run.compact THEN "reconstructing" ELSE "launched")
    <3>1. PICK phase \in {"reconstructing", "launched"} : Goto(phase)
      BY <2>3
    <3>2. phase \in Computing
      BY DEF Computing
    <3>3. QED
      BY <1>1, <1>q, <2>1, <2>3, <3>1, <3>2, RunCalls
  <2>4. QED
    BY <1>q, <1>2, <2>2, <2>3 DEF Launch, kernel
<1>3. CASE DownloadAsync \/ Reconstruct
  <2>1. /\ run.phase \in {"launched", "reconstructing"}
        /\ UNCHANGED <<resident, leaseVars, capacity, alive, staging, device, received,
                       results, lost>>
    BY <1>3 DEF DownloadAsync, Reconstruct
  <2>2. PICK sent \in {0, 1}, phase \in {"catching", "downloaded", "reconstruction_failed",
                                         "reconstructed"} :
          /\ lost => sent = 0
          /\ sent = 0 => phase \in {"catching", "reconstruction_failed"}
          /\ Enqueue(q, <<download>>, sent)
          /\ Goto(phase)
    BY <1>q, <1>3 DEF DownloadAsync, Reconstruct, download
  <2>3. phase \in Computing
    BY DEF Computing
  <2>4. QED
    BY <1>1, <1>q, <2>1, <2>2, <2>3, RunCalls
<1>4. QED
  BY <1>2, <1>3

\* A call of a preparation: a copy of the run's query, the wait or the event.
IsPreparation(op) ==
  /\ op \in Ops /\ op.run = run.number
  /\ \/ IsUpload(op)
     \/ op.op = "wait" /\ op.memory = "graph"
     \/ op.op = "event" /\ op.memory = "none"

\* A preparation, on a workspace with nothing queued; the lease is the run's
\* unless the standalone workspace gives up.
LEMMA PreparationCalls ==
  ASSUME IInv, NEW q \in Streams, q = run.stream, run.phase = "reserved",
         NEW calls \in Seq(Ops), NEW sent \in 0 .. Len(calls),
         \A k \in 1 .. Len(calls) : IsPreparation(calls[k]),
         \A k, l \in 1 .. Len(calls) : k <= l => Rank(calls[k]) <= Rank(calls[l]),
         \A b \in UploadBuffers :
           \E k \in 1 .. Len(calls) : calls[k].op = "copy" /\ calls[k].buffer = b,
         ~Batched => Len(calls) >= 1 /\ calls[1].op = "wait",
         Enqueue(q, calls, sent), lost => sent = 0,
         ~Batched => ~lost /\ sent >= 1,
         NEW phase \in {"prepared", "unprepared", "idle"},
         phase = "prepared" => sent = Len(calls),
         Batched => phase # "idle", ~Batched => phase # "unprepared",
         Goto(phase),
         staging' = run.number, lease_stream' = q,
         device_work_may_be_in_flight' = TRUE,
         lease_active' = (phase # "idle"),
         UNCHANGED <<resident, capacity, alive, device, received, results, lost>>
  PROVE  IInv'
<1>0. /\ SafetyInv /\ UNCHANGED <<class, graph, lost>>
      /\ run' = [run EXCEPT !.phase = phase]
      /\ run \in [phase : Phases, number : 0 .. Len(Bytes), stream : Streams,
                  compact : BOOLEAN]
      /\ ~device_work_may_be_in_flight /\ graph.state # "empty" /\ alive
      /\ run.number \in Nat
  BY DEF IInv, SafetyInv, TypeOK, GraphInv, LeaseInv, resident, Goto, InRun
<1>1. /\ run'.phase = phase /\ run'.number = run.number /\ run'.stream = q
      /\ run' \in [phase : Phases, number : 0 .. Len(Bytes), stream : Streams,
                   compact : BOOLEAN]
  BY <1>0 DEF Phases
<1> DEFINE more == {calls[k] : k \in 1 .. sent}
<1>2. \A op \in more : IsPreparation(op) /\ WellFormed(op) /\ Rank(op) >= 2
  <2>1. SUFFICES ASSUME NEW k \in 1 .. sent
                 PROVE  /\ IsPreparation(calls[k])
                        /\ WellFormed(calls[k]) /\ Rank(calls[k]) >= 2
    OBVIOUS
  <2>2. k \in 1 .. Len(calls)
    OBVIOUS
  <2>3. IsPreparation(calls[k])
    BY <2>2
  <2>4. UploadBuffers \subseteq Buffers \ {"status"}
    BY <1>0, UploadsEffect DEF SafetyInv
  <2>5. WellFormed(calls[k])
    BY <2>3, <2>4 DEF IsPreparation, IsUpload, WellFormed, GraphOps
  <2>6. Rank(calls[k]) >= 2
    BY <2>3 DEF IsPreparation, IsUpload, Rank
  <2>7. QED
    BY <2>3, <2>5, <2>6
<1>3. \A s \in Streams : \A op \in Queued(s) :
        /\ Rank(op) <= 2 /\ Rank(op) \in Nat
        /\ ~OnWorkspace(op)
        /\ op.memory \notin {"staging", "caller", "local"}
        /\ op.op \notin {"kernel", "download"}
  BY <1>0, QueuedWork, RankType DEF OnWorkspace, GraphOps
<1>4. /\ streams' \in [Streams -> Seq(Ops)]
      /\ StreamsWellFormed' /\ Ordered' /\ LostDrains'
      /\ \A t \in Streams \ {q} : Queued(t)' = Queued(t)
      /\ Queued(q)' = Queued(q) \union more
  <2>1. \A k \in 1 .. sent :
          /\ k \in 1 .. Len(calls)
          /\ WellFormed(calls[k]) /\ Rank(calls[k]) >= 2 /\ Rank(calls[k]) \in Nat
    BY <1>2, RankType, SMTT(30)
  <2>2. ASSUME NEW k \in 1 .. sent, NEW x \in Queued(q)
        PROVE  Rank(x) <= Rank(calls[k])
    <3>1. /\ Rank(x) <= 2 /\ Rank(x) \in Nat
          /\ Rank(calls[k]) >= 2 /\ Rank(calls[k]) \in Nat
      BY <1>3, <2>1, <2>2
    <3>2. QED
      BY <3>1
  <2>3. ASSUME NEW k \in 1 .. sent, NEW l \in 1 .. sent, k <= l
        PROVE  Rank(calls[k]) <= Rank(calls[l])
    <3>1. k \in 1 .. Len(calls) /\ l \in 1 .. Len(calls)
      BY <2>1
    <3>2. QED
      BY <2>3, <3>1
  <2>4. QED
    BY <1>0, <1>1, <2>1, <2>2, <2>3, EnqueueQueues, SMTT(30)
<1> HIDE DEF more
<1>5. TypeOK'
  BY <1>0, <1>1, <1>4 DEF SafetyInv, TypeOK, resident
<1>6. GraphInv'
  <2>1. \A op \in more : op.op \notin {"load", "record"}
    BY <1>2 DEF IsPreparation, IsUpload
  <2>2. QED
    BY <1>0, <1>1, <1>4, <2>1, GraphAfterCalls
<1>7. LeaseInv'
  BY <1>0, <1>1 DEF SafetyInv, LeaseInv, Leased, Unleased, InRun, Batched
<1>8. WorkInv'
  <2>1. SUFFICES ASSUME NEW s \in Streams, NEW x \in Queued(s)'
                 PROVE  /\ OnWorkspace(x) => s = q /\ x.run = run.number
                        /\ x.memory = "staging" => x.run = run.number
                        /\ x.memory \in OfRun => phase # "idle" /\ x.run = run.number
                        /\ x.op \notin {"kernel", "download"}
    BY <1>0, <1>1 DEF WorkInv, OnWorkspace, InRun
  <2>2. CASE x \in Queued(s)
    BY <1>3, <2>2 DEF OfRun
  <2>3. CASE x \notin Queued(s)
    <3>1. s = q /\ x \in more
      BY <1>4, <2>1, <2>3
    <3>2. IsPreparation(x)
      BY <1>2, <3>1
    <3>3. QED
      BY <3>1, <3>2 DEF IsPreparation, IsUpload, OfRun
  <2>4. QED
    BY <2>2, <2>3
<1>9. DataInv'
  <2>1. UploadBuffers' = UploadBuffers /\ Batched' = Batched
    BY <1>0 DEF UploadBuffers, Batched
  <2>2. /\ results \in [Runs -> Nat] /\ \A n \in Runs : results[n] \in {Nothing, n}
        /\ UNCHANGED <<results, device, lost, graph>>
    BY <1>0 DEF IInv, DataInv
  <2>3. CASE phase = "idle"
    BY <1>1, <2>2, <2>3 DEF DataInv, Prepared
  <2>4. CASE phase # "idle"
    <3>1. ~lost => graph.ready \/ Waiting(q, "wait")'
      <4>1. CASE Batched
        <5>1. ~lost => graph.ready \/ Waiting(q, "wait")
          BY <4>1 DEF IInv, DataInv
        <5>2. QED
          BY <1>1, <1>4, <5>1, WaitingGrows
      <4>2. CASE ~Batched
        <5>1. calls[1] \in more /\ calls[1].op = "wait"
          <6>1. 1 \in 1 .. sent
            BY <4>2
          <6>2. QED
            BY <4>2, <6>1 DEF more
        <5>2. QED
          BY <1>1, <1>4, <5>1 DEF Waiting
      <4>3. QED
        BY <4>1, <4>2
    <3>2. phase = "prepared" =>
            \A b \in UploadBuffers :
              \E op \in Queued(q)' : op.op = "copy" /\ op.buffer = b
      <4>1. SUFFICES ASSUME phase = "prepared", NEW b \in UploadBuffers
                     PROVE  \E op \in more : op.op = "copy" /\ op.buffer = b
        BY <1>4
      <4>2. PICK k \in 1 .. Len(calls) : calls[k].op = "copy" /\ calls[k].buffer = b
        BY <4>1
      <4>3. calls[k] \in more
        BY <4>1, <4>2 DEF more
      <4>4. QED
        BY <4>2, <4>3
    <3>3. QED
      BY <1>1, <2>1, <2>2, <2>4, <3>1, <3>2 DEF DataInv, Prepared
  <2>5. QED
    BY <2>3, <2>4
<1>10. QED
  BY <1>4, <1>5, <1>6, <1>7, <1>8, <1>9 DEF IInv, SafetyInv

LEMMA BatchedPrepareStep ==
  ASSUME IInv, BatchedPrepareAsync PROVE IInv'
<1>q. PICK q \in Streams : q = run.stream
  BY DEF IInv, SafetyInv, TypeOK
<1>1. PICK sent \in 0 .. Len(Uploads) :
        /\ lost => sent = 0
        /\ Enqueue(q, Uploads, sent)
        /\ Goto(IF sent = Len(Uploads) THEN "prepared" ELSE "unprepared")
  BY <1>q DEF BatchedPrepareAsync
<1> DEFINE phase == IF sent = Len(Uploads) THEN "prepared" ELSE "unprepared"
<1>2. /\ phase \in {"prepared", "unprepared"} /\ Goto(phase)
      /\ phase = "prepared" => sent = Len(Uploads)
  BY <1>1
<1> HIDE DEF phase
<1>3. /\ Uploads \in Seq(Ops)
      /\ \A k \in 1 .. Len(Uploads) : IsUpload(Uploads[k])
      /\ {Uploads[k].buffer : k \in 1 .. Len(Uploads)} = UploadBuffers
  BY UploadsEffect DEF IInv, SafetyInv
<1>4. \A k \in 1 .. Len(Uploads) :
        IsPreparation(Uploads[k]) /\ Rank(Uploads[k]) = 3 /\ Uploads[k].op = "copy"
  BY <1>3 DEF IsPreparation, IsUpload, Rank
<1>5. \A b \in UploadBuffers :
        \E k \in 1 .. Len(Uploads) : Uploads[k].op = "copy" /\ Uploads[k].buffer = b
  BY <1>3, <1>4
<1>6. \A k, l \in 1 .. Len(Uploads) : k <= l => Rank(Uploads[k]) <= Rank(Uploads[l])
  BY <1>4
<1>7. /\ run.phase = "reserved" /\ Batched
      /\ staging' = run.number /\ lease_stream' = q
      /\ device_work_may_be_in_flight' = TRUE
      /\ lease_active' = (phase # "idle")
      /\ UNCHANGED <<resident, capacity, alive, device, received, results, lost>>
  BY <1>2, <1>q DEF BatchedPrepareAsync
<1>8. QED
  BY <1>q, <1>1, <1>2, <1>3, <1>4, <1>5, <1>6, <1>7, PreparationCalls

LEMMA StandalonePrepareStep ==
  ASSUME IInv, StandalonePrepareAsync PROVE IInv'
<1>0. SafetyInv /\ run.phase = "reserved" /\ ~Batched /\ InRun
  BY DEF IInv, StandalonePrepareAsync, InRun
<1>q. PICK q \in Streams : q = run.stream
  BY <1>0 DEF SafetyInv, TypeOK
<1>1. CASE Throw /\ UNCHANGED <<staging, leaseVars, streams>>
  <2>1. UNCHANGED <<resident, capacity, alive, staging, device, received, streams, lost,
                    results>>
    BY <1>1 DEF StandalonePrepareAsync
  <2>2. \A s \in Streams : \A op \in Queued(s) :
          op.memory \notin OfRun /\ op.op \notin {"kernel", "download"}
    BY <1>0, QueuedWork DEF Unleased
  <2>3. \A s \in Streams : \A op \in Queued(s) : ~OnWorkspace(op)
    BY <1>0, QueuedWork DEF SafetyInv, LeaseInv
  <2>4. results \in [Runs -> Nat] /\ \A n \in Runs : results[n] \in {Nothing, n}
    BY DEF IInv, DataInv
  <2>5. QED
    BY <1>0, <1>1, <2>1, <2>2, <2>3, <2>4, RunEnds
<1>2. CASE \E sent \in 1 .. Len(StandaloneCalls) :
             /\ Enqueue(run.stream, StandaloneCalls, sent)
             /\ lease_active' = (sent = Len(StandaloneCalls))
             /\ IF sent = Len(StandaloneCalls) THEN Goto("prepared") ELSE Throw
             /\ ~lost
             /\ staging' = run.number /\ lease_stream' = run.stream
             /\ device_work_may_be_in_flight' = TRUE
  <2>1. PICK sent \in 1 .. Len(StandaloneCalls) :
             /\ Enqueue(q, StandaloneCalls, sent)
             /\ lease_active' = (sent = Len(StandaloneCalls))
             /\ IF sent = Len(StandaloneCalls) THEN Goto("prepared") ELSE Goto("idle")
             /\ ~lost
             /\ staging' = run.number /\ lease_stream' = q
             /\ device_work_may_be_in_flight' = TRUE
    BY <1>2, <1>q DEF Throw
  <2> DEFINE phase == IF sent = Len(StandaloneCalls) THEN "prepared" ELSE "idle"
  <2>2. /\ phase \in {"prepared", "unprepared", "idle"} /\ Goto(phase)
        /\ phase # "unprepared"
        /\ phase = "prepared" => sent = Len(StandaloneCalls)
        /\ lease_active' = (phase # "idle")
    BY <2>1
  <2> HIDE DEF phase
  <2>3. UNCHANGED <<resident, capacity, alive, device, received, results, lost>>
    BY DEF StandalonePrepareAsync
  <2> DEFINE w == Op("wait", "inputs", "graph")
             e == Op("event", "inputs", "none")
  <2>4. /\ w \in Ops /\ w.op = "wait" /\ w.memory = "graph" /\ w.run = run.number
        /\ e \in Ops /\ e.op = "event" /\ e.memory = "none" /\ e.run = run.number
    BY <1>0, OpType DEF SafetyInv, TypeOK, Buffers
  <2> HIDE DEF w, e
  <2>5. /\ StandaloneCalls \in Seq(Ops)
        /\ Len(StandaloneCalls) = Len(Uploads) + 2
        /\ StandaloneCalls[1] = w
        /\ \A k \in 1 .. Len(Uploads) : StandaloneCalls[k + 1] = Uploads[k]
        /\ StandaloneCalls[Len(Uploads) + 2] = e
    BY <1>0, StandaloneCallsEffect DEF SafetyInv, w, e
  <2>6. /\ \A k \in 1 .. Len(Uploads) : IsUpload(Uploads[k])
        /\ {Uploads[k].buffer : k \in 1 .. Len(Uploads)} = UploadBuffers
        /\ Len(Uploads) \in Nat
    BY <1>0, UploadsEffect DEF SafetyInv
  <2>7. \A k \in 1 .. Len(Uploads) : /\ IsPreparation(Uploads[k])
                                     /\ Rank(Uploads[k]) = 3 /\ Uploads[k].op = "copy"
    BY <2>6 DEF IsPreparation, IsUpload, Rank
  <2>8. IsPreparation(w) /\ IsPreparation(e) /\ Rank(w) = 2 /\ Rank(e) = 4
    BY <2>4 DEF IsPreparation, Rank
  <2> DEFINE m == Len(Uploads)
  <2>9. ASSUME NEW k \in 1 .. Len(StandaloneCalls)
        PROVE  /\ IsPreparation(StandaloneCalls[k])
               /\ Rank(StandaloneCalls[k]) = IF k = 1 THEN 2 ELSE IF k = m + 2 THEN 4 ELSE 3
    <3>1. CASE k = 1
      BY <2>5, <2>8, <3>1
    <3>2. CASE k = m + 2
      BY <2>5, <2>6, <2>8, <3>2
    <3>3. CASE k # 1 /\ k # m + 2
      <4>1. k - 1 \in 1 .. m /\ (k - 1) + 1 = k
        <5>1. m \in Nat /\ k \in 1 .. (m + 2)
          BY <2>5, <2>6
        <5> HIDE DEF m
        <5>2. QED
          BY <3>3, <5>1
      <4>2. StandaloneCalls[k] = Uploads[k - 1]
        BY <2>5, <4>1
      <4>3. QED
        BY <2>7, <3>3, <4>1, <4>2
    <3>4. QED
      BY <3>1, <3>2, <3>3
  <2>10. \A k, l \in 1 .. Len(StandaloneCalls) :
           k <= l => Rank(StandaloneCalls[k]) <= Rank(StandaloneCalls[l])
    <3>1. m \in Nat /\ Len(StandaloneCalls) = m + 2
      BY <2>5, <2>6
    <3> HIDE DEF m
    <3>2. SUFFICES ASSUME NEW k \in 1 .. (m + 2), NEW l \in 1 .. (m + 2), k <= l
                   PROVE  Rank(StandaloneCalls[k]) <= Rank(StandaloneCalls[l])
      BY <3>1
    <3>3. /\ Rank(StandaloneCalls[k]) = IF k = 1 THEN 2 ELSE IF k = m + 2 THEN 4 ELSE 3
          /\ Rank(StandaloneCalls[l]) = IF l = 1 THEN 2 ELSE IF l = m + 2 THEN 4 ELSE 3
      BY <2>9, <3>1
    <3>4. QED
      BY <3>1, <3>2, <3>3
  <2>11. \A b \in UploadBuffers :
           \E k \in 1 .. Len(StandaloneCalls) :
             StandaloneCalls[k].op = "copy" /\ StandaloneCalls[k].buffer = b
    <3>1. SUFFICES ASSUME NEW b \in UploadBuffers
                   PROVE  \E k \in 1 .. Len(StandaloneCalls) :
                            StandaloneCalls[k].op = "copy" /\ StandaloneCalls[k].buffer = b
      OBVIOUS
    <3>2. PICK k \in 1 .. m : Uploads[k].buffer = b
      BY <2>6
    <3>3. k + 1 \in 1 .. Len(StandaloneCalls) /\ StandaloneCalls[k + 1] = Uploads[k]
      BY <2>5, <2>6
    <3>4. QED
      BY <2>7, <3>2, <3>3
  <2>12. Len(StandaloneCalls) >= 1 /\ StandaloneCalls[1].op = "wait"
    BY <2>4, <2>5, <2>6
  <2>13. sent \in 0 .. Len(StandaloneCalls) /\ sent >= 1
    BY <2>5, <2>6
  <2>14. QED
    BY <1>0, <1>q, <2>1, <2>2, <2>3, <2>5, <2>9, <2>10, <2>11, <2>12, <2>13,
       PreparationCalls, SMTT(30)
<1>3. QED
  BY <1>1, <1>2 DEF StandalonePrepareAsync, StandaloneCalls

\* A run begins: a batched one has nothing queued, and its first call is the wait
\* for the graph.
LEMMA BeginRunStep ==
  ASSUME IInv, NEW q \in Streams, BeginRun(q) PROVE IInv'
<1>p. PICK compact \in {FALSE, Batched}, sent \in IF Batched THEN {0, 1} ELSE {1} :
        /\ run' = [phase |-> IF sent = 1 THEN "begun" ELSE "idle",
                   number |-> run.number + 1, stream |-> q, compact |-> compact]
        /\ IF Batched THEN (lost => sent = 0) /\ Enqueue(q, WaitUntilReady, sent)
                      ELSE UNCHANGED streams
  BY DEF BeginRun
<1>1. /\ run' = [phase |-> IF sent = 1 THEN "begun" ELSE "idle",
                 number |-> run.number + 1, stream |-> q, compact |-> compact]
      /\ IF Batched THEN (lost => sent = 0) /\ Enqueue(q, WaitUntilReady, sent)
                    ELSE UNCHANGED streams
      /\ sent \in {0, 1} /\ compact \in BOOLEAN
      /\ ~Batched => sent = 1
  BY <1>p DEF Batched
<1>0. /\ SafetyInv /\ run.phase = "idle" /\ graph.state # "empty" /\ alive
      /\ UNCHANGED <<class, graph, lease_active, device_work_may_be_in_flight,
                     lease_stream, capacity, alive, staging, device, results, lost>>
      /\ received' = Nothing
      /\ run.number \in Nat /\ run.number + 1 \in Runs
  <2>1. Len(Bytes) \in Nat /\ run.number \in 0 .. Len(Bytes) /\ run.number < Len(Bytes)
    BY BytesAssumption DEF IInv, SafetyInv, TypeOK, BeginRun
  <2>2. run.number \in Nat /\ run.number + 1 \in Runs
    BY <2>1 DEF Runs
  <2>3. QED
    BY <2>2 DEF IInv, BeginRun, HasUpload, resident, leaseVars
<1>2. /\ run'.phase \in {"begun", "idle"} /\ run'.number = run.number + 1
      /\ run'.stream = q /\ (run'.phase = "begun" <=> sent = 1)
      /\ run' \in [phase : Phases, number : 0 .. Len(Bytes), stream : Streams,
                   compact : BOOLEAN]
  BY <1>0, <1>1 DEF Phases, Runs
<1> DEFINE w == Op("wait", "inputs", "graph")
           more == {x \in {w} : Batched /\ sent = 1}
<1>3. w \in Ops /\ w.op = "wait" /\ w.memory = "graph" /\ WaitUntilReady = <<w>>
  BY <1>0, OpType DEF Buffers, WaitUntilReady
<1> HIDE DEF w
<1>4. \A s \in Streams : \A op \in Queued(s) :
        /\ op.memory \notin OfRun /\ op.op \notin {"kernel", "download"}
        /\ Batched => Rank(op) <= 2 /\ ~OnWorkspace(op)
  <2>1. Batched => ~device_work_may_be_in_flight
    BY <1>0 DEF SafetyInv, LeaseInv, Unleased
  <2>2. QED
    BY <1>0, <2>1, QueuedWork DEF Unleased
<1>5. /\ streams' \in [Streams -> Seq(Ops)]
      /\ StreamsWellFormed' /\ Ordered' /\ LostDrains'
      /\ \A t \in Streams \ {q} : Queued(t)' = Queued(t)
      /\ Queued(q)' = Queued(q) \union more
  <2>1. CASE Batched
    <3>1. /\ WaitUntilReady \in Seq(Ops) /\ Len(WaitUntilReady) = 1
          /\ WaitUntilReady[1] = w /\ sent \in 0 .. Len(WaitUntilReady)
          /\ \A k \in 1 .. sent : k = 1
      BY <1>3
    <3>2. {WaitUntilReady[k] : k \in 1 .. sent} = more
      BY <2>1, <3>1
    <3> HIDE DEF more
    <3>3. WellFormed(w) /\ Rank(w) = 2
      BY <1>3 DEF WellFormed, GraphOps, Rank
    <3>4. /\ \A k \in 1 .. sent : WellFormed(WaitUntilReady[k])
          /\ \A k \in 1 .. sent : \A x \in Queued(q) : Rank(x) <= Rank(WaitUntilReady[k])
          /\ \A k, l \in 1 .. sent : k <= l => Rank(WaitUntilReady[k]) <= Rank(WaitUntilReady[l])
      BY <1>4, <2>1, <3>1, <3>3
    <3>5. QED
      BY <1>0, <1>1, <2>1, <3>1, <3>2, <3>4, EnqueueQueues
  <2>2. CASE ~Batched
    <3>1. UNCHANGED <<class, streams, lost>> /\ more = {}
      BY <1>0, <1>1, <2>2
    <3> HIDE DEF more
    <3>2. QED
      BY <1>0, <3>1, QuietQueues DEF SafetyInv, TypeOK
  <2>3. QED
    BY <2>1, <2>2
<1>6. \A x \in more : x = w
  OBVIOUS
<1>7. Batched /\ sent = 1 => w \in more
  OBVIOUS
<1> HIDE DEF more
<1>8. TypeOK'
  BY <1>0, <1>2, <1>5 DEF SafetyInv, TypeOK, Nothing
<1>9. GraphInv'
  <2>1. \A x \in more : x.op \notin {"load", "record"}
    BY <1>3, <1>6
  <2>2. QED
    BY <1>0, <1>5, <2>1, GraphAfterCalls
<1>10. LeaseInv'
  BY <1>0, <1>2 DEF SafetyInv, LeaseInv, Leased, Unleased, InRun, Batched
<1>11. WorkInv'
  <2>1. SUFFICES ASSUME NEW s \in Streams, NEW x \in Queued(s)'
                 PROVE  /\ OnWorkspace(x) => /\ alive /\ device_work_may_be_in_flight
                                             /\ s = lease_stream
                        /\ x.memory = "staging" => alive /\ staging = x.run
                        /\ x.memory \notin OfRun /\ x.op \notin {"kernel", "download"}
    BY <1>0, <1>2 DEF WorkInv, OnWorkspace, Leased, Unleased
  <2>2. CASE x \in Queued(s)
    BY <1>0, <1>4, <2>2 DEF SafetyInv, WorkInv
  <2>3. CASE x \notin Queued(s)
    <3>1. x = w
      BY <1>5, <1>6, <2>1, <2>3
    <3>2. QED
      BY <1>3, <3>1 DEF OnWorkspace, GraphOps, OfRun
  <2>4. QED
    BY <2>2, <2>3
<1>12. DataInv'
  <2>1. Batched /\ sent = 1 => Waiting(q, "wait")'
    BY <1>3, <1>5, <1>7 DEF Waiting
  <2>2. results \in [Runs -> Nat] /\ \A n \in Runs : results[n] \in {Nothing, n}
    BY DEF IInv, DataInv
  <2>3. Batched /\ run'.phase = "begun" => Waiting(run.stream, "wait")'
    BY <1>2, <2>1 DEF Waiting
  <2>4. QED
    BY <1>0, <1>2, <2>2, <2>3 DEF DataInv, Prepared, Batched
<1>13. QED
  BY <1>5, <1>8, <1>9, <1>10, <1>11, <1>12 DEF IInv, SafetyInv

\* The upload starts on an idle device, and its event follows the copy.
LEMMA UploadStep ==
  ASSUME IInv, NEW q \in Streams, UploadOnceAsync(q) PROVE IInv'
<1> DEFINE load   == Op("load", "inputs", "graph")
           record == Op("record", "inputs", "graph")
           work   == <<load, record>>
<1>1. PICK sent \in 0 .. 2 :
        /\ lost => sent = 0
        /\ Enqueue(q, work, sent)
        /\ graph' = [graph EXCEPT !.staging = TRUE,
                       !.state = IF sent = 2 THEN "uploading" ELSE "failed"]
  BY DEF UploadOnceAsync
<1>0. /\ SafetyInv /\ run.phase = "idle" /\ graph.state = "empty"
      /\ UNCHANGED <<class, lease_active, device_work_may_be_in_flight,
                     lease_stream, capacity, alive, staging, device, run, received,
                     results, lost>>
      /\ run.number \in Nat
  BY DEF IInv, SafetyInv, TypeOK, UploadOnceAsync, leaseVars
<1>2. /\ load \in Ops /\ load.op = "load" /\ load.memory = "graph"
      /\ record \in Ops /\ record.op = "record" /\ record.memory = "graph"
  BY <1>0, OpType DEF Buffers
<1> HIDE DEF load, record
<1>3. \A s \in Streams : Queued(s) = {}
  BY <1>0, DrainedQueue DEF SafetyInv, TypeOK, GraphInv, DeviceIdle
<1> DEFINE more == {work[k] : k \in 1 .. sent}
<1>4. /\ streams' \in [Streams -> Seq(Ops)]
      /\ StreamsWellFormed' /\ Ordered' /\ LostDrains'
      /\ \A t \in Streams \ {q} : Queued(t)' = Queued(t)
      /\ Queued(q)' = Queued(q) \union more
  <2>1. /\ work \in Seq(Ops) /\ Len(work) = 2 /\ work[1] = load /\ work[2] = record
        /\ sent \in 0 .. Len(work)
        /\ \A k \in 1 .. sent : k \in {1, 2}
    BY <1>2
  <2>2. /\ WellFormed(load) /\ WellFormed(record)
        /\ Rank(load) = 0 /\ Rank(record) = 1
    BY <1>2 DEF WellFormed, GraphOps, Rank
  <2> HIDE DEF work
  <2>3. /\ \A k \in 1 .. sent : WellFormed(work[k])
        /\ \A k, l \in 1 .. sent : k <= l => Rank(work[k]) <= Rank(work[l])
    BY <2>1, <2>2
  <2>4. \A k \in 1 .. sent : \A x \in Queued(q) : Rank(x) <= Rank(work[k])
    BY <1>3
  <2>5. QED
    BY <1>0, <1>1, <2>1, <2>3, <2>4, EnqueueQueues
<1>5. /\ more \subseteq {load, record}
      /\ record \in more => sent = 2
      /\ sent = 2 => load \in more
  <2>1. work[1] = load /\ work[2] = record /\ load # record
    BY <1>2
  <2> HIDE DEF work
  <2>2. \A k \in 1 .. sent : k = 1 \/ (k = 2 /\ sent = 2)
    OBVIOUS
  <2>3. sent = 2 => 1 \in 1 .. sent
    OBVIOUS
  <2>4. QED
    BY <2>1, <2>2, <2>3
<1> HIDE DEF more, work
<1>6. graph \in [state : {"empty", "uploading", "ready", "failed"},
                 staging : BOOLEAN, loaded : BOOLEAN, ready : BOOLEAN]
  BY <1>0 DEF SafetyInv, TypeOK
<1>7. /\ graph' \in [state : {"empty", "uploading", "ready", "failed"},
                     staging : BOOLEAN, loaded : BOOLEAN, ready : BOOLEAN]
      /\ graph'.staging = TRUE /\ graph'.state # "empty"
      /\ graph'.loaded = graph.loaded /\ graph'.ready = graph.ready
  BY <1>1, <1>6
<1>8. TypeOK'
  BY <1>0, <1>4, <1>7 DEF SafetyInv, TypeOK
<1>9. GraphInv'
  <2>1. \A s \in Streams : \A x \in Queued(s)' : s = q /\ x \in more
    BY <1>3, <1>4
  <2>2. Waiting(q, "record")' => Waiting(q, "load")'
    BY <1>2, <1>4, <1>5, <2>1 DEF Waiting
  <2>3. ~graph.ready
    BY <1>0 DEF SafetyInv, GraphInv
  <2>4. QED
    BY <1>7, <2>1, <2>2, <2>3 DEF GraphInv, Waiting
<1>10. LeaseInv'
  BY <1>0 DEF SafetyInv, LeaseInv, Batched, Leased, Unleased, InRun
<1>11. WorkInv'
  <2>1. \A s \in Streams : \A x \in Queued(s)' :
          x.op \in {"load", "record"} /\ x.memory = "graph"
    BY <1>2, <1>3, <1>4, <1>5
  <2>2. QED
    BY <2>1 DEF WorkInv, OnWorkspace, GraphOps, OfRun
<1>12. DataInv'
  BY <1>0 DEF IInv, DataInv, Prepared
<1>13. QED
  BY <1>4, <1>8, <1>9, <1>10, <1>11, <1>12 DEF IInv, SafetyInv

-----------------------------------------------------------------------------
(***************************************************************************)
(* The device's steps                                                      *)
(***************************************************************************)
LEMMA LoadedBuffers ==
  ASSUME TypeOK
  PROVE  Loaded = {device[b] : b \in UploadBuffers} /\ Loaded # {} /\ Loaded \subseteq Nat
<1>1. /\ Uploads \in Seq(Ops) /\ DOMAIN Uploads = 1 .. Len(Uploads)
      /\ {Uploads[k].buffer : k \in 1 .. Len(Uploads)} = UploadBuffers
      /\ UploadBuffers \subseteq Buffers
  BY UploadsEffect
<1>2. Loaded = {device[b] : b \in UploadBuffers}
  BY <1>1 DEF Loaded
<1>3. "inputs" \in UploadBuffers
  BY DEF UploadBuffers, TypeOK, Classes
<1>4. QED
  BY <1>1, <1>2, <1>3 DEF TypeOK

\* A kernel that reads the run's own data on the loaded graph answers its query.
LEMMA KernelAnswer ==
  ASSUME TypeOK
  PROVE  /\ Answer \in Nat
         /\ graph.loaded /\ (\A b \in UploadBuffers : device[b] = run.number) =>
              Answer = run.number
<1>1. Loaded = {device[b] : b \in UploadBuffers} /\ Loaded # {} /\ Loaded \subseteq Nat
  BY LoadedBuffers
<1>2. Answer \in Nat
  <2>1. Mixed \in Nat
    BY BytesAssumption DEF Mixed
  <2>2. (CHOOSE n \in Loaded : TRUE) \in Nat
    BY <1>1
  <2>3. QED
    BY <2>1, <2>2 DEF Answer
<1>3. ASSUME graph.loaded, \A b \in UploadBuffers : device[b] = run.number
      PROVE  Answer = run.number
  <2>1. Loaded = {run.number}
    BY <1>1, <1>3
  <2>2. Cardinality(Loaded) = 1
    BY <2>1, FS_Singleton
  <2>3. (CHOOSE n \in Loaded : TRUE) = run.number
    BY <2>1
  <2>4. QED
    BY <1>3, <2>2, <2>3 DEF Answer
<1>4. QED
  BY <1>2, <1>3

LEMMA DeviceStep ==
  ASSUME IInv, NEW q \in Streams, Step(q) PROVE IInv'
<1> DEFINE op == Head(streams[q])
<1>0. /\ SafetyInv /\ ~Drained(q)
      /\ streams \in [Streams -> Seq(Ops)]
      /\ streams' = [streams EXCEPT ![q] = Tail(@)]
      /\ UNCHANGED <<class, lease_active, device_work_may_be_in_flight, lease_stream,
                     capacity, alive, staging, run, results, lost>>
      /\ op.op = "wait" => graph.ready
      /\ device' = CASE op.op = "copy"   -> [device EXCEPT ![op.buffer] = Contents(op)]
                     [] op.op = "kernel" -> [device EXCEPT !["status"] = Answer]
                     [] OTHER            -> device
      /\ received' = IF op.op = "download" /\ InRun /\ op.run = run.number
                     THEN device["status"] ELSE received
      /\ graph' = CASE op.op = "load"   -> [graph EXCEPT !.loaded = graph.staging]
                    [] op.op = "record" -> [graph EXCEPT !.ready = TRUE]
                    [] OTHER            -> graph
  BY DEF IInv, SafetyInv, TypeOK, Step, leaseVars
<1>1. /\ streams' \in [Streams -> Seq(Ops)]
      /\ \A t \in Streams \ {q} : streams'[t] = streams[t]
  BY <1>0, TailEffect
<1>2. /\ \A t \in Streams \ {q} : Queued(t)' = Queued(t)
      /\ Queued(q)' \subseteq Queued(q)
      /\ Queued(q) \subseteq Queued(q)' \union {op}
      /\ op \in Queued(q)
  BY <1>0, TailSet
<1>3. Ordered' /\ \A x \in Queued(q) : Rank(op) <= Rank(x)
  BY <1>0, TailOrdered DEF SafetyInv
<1> HIDE DEF op
<1>4. /\ op \in Ops /\ WellFormed(op)
      /\ ~lost /\ graph.state # "empty"
      /\ run.phase \in Leased /\ OnWorkspace(op) => q = run.stream /\ op.run = run.number
      /\ op.op \in {"load", "record", "wait", "event", "copy", "kernel", "download"}
  <2>1. WellFormed(op)
    BY <1>0, <1>2 DEF SafetyInv, StreamsWellFormed
  <2>2. QED
    BY <1>0, <1>2, <2>1, QueuedWork DEF Ops
<1>5. StreamsWellFormed' /\ LostDrains'
  <2>1. \A x : WellFormed(x)' = WellFormed(x)
    BY <1>0 DEF WellFormed, Batched
  <2>2. QED
    BY <1>0, <1>2, <1>4, <2>1 DEF SafetyInv, StreamsWellFormed, LostDrains
<1>6. TypeOK'
  <2>1. /\ device \in [Buffers -> Nat] /\ run.number \in Nat /\ staging \in Nat
        /\ graph \in [state : {"empty", "uploading", "ready", "failed"},
                      staging : BOOLEAN, loaded : BOOLEAN, ready : BOOLEAN]
        /\ received \in Nat
    BY <1>0 DEF SafetyInv, TypeOK
  <2>2. Contents(op) \in Nat /\ Answer \in Nat
    <3>1. Mixed \in Nat
      BY BytesAssumption DEF Mixed
    <3>2. Answer \in Nat
      BY <1>0, KernelAnswer DEF SafetyInv
    <3>3. QED
      BY <2>1, <3>1, <3>2 DEF Contents
  <2>3. device' \in [Buffers -> Nat]
    <3>1. op.buffer \in Buffers
      BY <1>4 DEF Ops
    <3>2. CASE op.op = "copy"
      BY <1>0, <2>1, <2>2, <3>1, <3>2
    <3>3. CASE op.op = "kernel"
      BY <1>0, <2>1, <2>2, <3>3
    <3>4. CASE op.op \notin {"copy", "kernel"}
      BY <1>0, <2>1, <3>4
    <3>5. QED
      BY <3>2, <3>3, <3>4
  <2>4. graph' \in [state : {"empty", "uploading", "ready", "failed"},
                    staging : BOOLEAN, loaded : BOOLEAN, ready : BOOLEAN]
    <3>1. CASE op.op = "load"
      BY <1>0, <2>1, <3>1
    <3>2. CASE op.op = "record"
      BY <1>0, <2>1, <3>2
    <3>3. CASE op.op \notin {"load", "record"}
      BY <1>0, <2>1, <3>3
    <3>4. QED
      BY <3>1, <3>2, <3>3
  <2>5. received' \in Nat
    BY <1>0, <2>1 DEF Buffers
  <2>6. QED
    BY <1>0, <1>1, <2>3, <2>4, <2>5 DEF SafetyInv, TypeOK
<1>7. \A t \in Streams : Queued(t)' \subseteq Queued(t)
  BY <1>2
<1>8. GraphInv'
  <2>1. /\ graph.ready => graph.loaded
        /\ \A s \in Streams :
             /\ Waiting(s, "load") => graph.staging /\ ~graph.ready
             /\ Waiting(s, "record") =>
                  /\ graph.loaded \/ Waiting(s, "load")
                  /\ \A t \in Streams : Waiting(t, "load") => t = s
    BY <1>0 DEF SafetyInv, GraphInv
  <2>2. /\ \A t \in Streams : \A o : Waiting(t, o)' => Waiting(t, o)
        /\ \A t \in Streams : \A o : op.op # o \/ t # q => (Waiting(t, o)' = Waiting(t, o))
    <3>1. \A t \in Streams : \A o : Waiting(t, o)' => Waiting(t, o)
      BY <1>7 DEF Waiting
    <3>2. ASSUME NEW t \in Streams, NEW o, op.op # o \/ t # q, Waiting(t, o)
          PROVE  Waiting(t, o)'
      <4>1. PICK x \in Queued(t) : x.op = o
        BY <3>2 DEF Waiting
      <4>2. x \in Queued(t)'
        BY <1>2, <3>2, <4>1
      <4>3. QED
        BY <4>1, <4>2 DEF Waiting
    <3>3. \A t \in Streams : \A o : Waiting(t, o) \in BOOLEAN /\ Waiting(t, o)' \in BOOLEAN
      BY DEF Waiting
    <3>4. QED
      BY <3>1, <3>2, <3>3
  <2>3. graph \in [state : {"empty", "uploading", "ready", "failed"},
                   staging : BOOLEAN, loaded : BOOLEAN, ready : BOOLEAN]
    BY <1>0 DEF SafetyInv, TypeOK
  <2>4. CASE op.op = "load"
    <3>1. graph' = [graph EXCEPT !.loaded = graph.staging]
      BY <1>0, <2>4
    <3>2. Waiting(q, "load")
      BY <1>2, <2>4 DEF Waiting
    <3>3. /\ graph'.loaded = TRUE /\ graph'.staging = graph.staging
          /\ graph'.ready = graph.ready /\ graph'.state = graph.state
      BY <2>1, <2>3, <3>1, <3>2
    <3>4. QED
      BY <1>4, <2>1, <2>2, <3>3 DEF GraphInv
  <2>5. CASE op.op = "record"
    <3>1. graph' = [graph EXCEPT !.ready = TRUE]
      BY <1>0, <2>5
    <3>2. /\ graph'.loaded = graph.loaded /\ graph'.staging = graph.staging
          /\ graph'.ready = TRUE /\ graph'.state = graph.state
      BY <2>3, <3>1
    <3>3. Waiting(q, "record")
      BY <1>2, <2>5 DEF Waiting
    <3>4. ~Waiting(q, "load")
      <4>1. SUFFICES ASSUME NEW x \in Queued(q), x.op = "load" PROVE FALSE
        BY DEF Waiting
      <4>2. Rank(x) = 0 /\ Rank(op) = 1
        BY <2>5, <4>1 DEF Rank
      <4>3. QED
        BY <1>3, <4>1, <4>2
    <3>5. graph.loaded /\ \A t \in Streams : ~Waiting(t, "load")
      BY <2>1, <3>3, <3>4
    <3>6. QED
      BY <1>4, <2>2, <3>2, <3>5 DEF GraphInv
  <2>6. CASE op.op \notin {"load", "record"}
    <3>1. graph' = graph
      BY <1>0, <2>6
    <3>2. \A t \in Streams : /\ Waiting(t, "load")' = Waiting(t, "load")
                             /\ Waiting(t, "record")' = Waiting(t, "record")
      BY <2>2, <2>6
    <3>3. QED
      BY <1>4, <2>1, <3>1, <3>2 DEF GraphInv
  <2>7. QED
    BY <2>4, <2>5, <2>6
<1>9. LeaseInv'
  <2>1. run.phase = "transferred" => Drained(run.stream)'
    <3>1. SUFFICES ASSUME run.phase = "transferred" PROVE streams'[run.stream] = <<>>
      BY <1>0 DEF Drained
    <3>2. streams[run.stream] = <<>> /\ run.stream # q /\ run.stream \in Streams
      BY <1>0, <3>1 DEF SafetyInv, LeaseInv, Drained, TypeOK
    <3>3. QED
      BY <1>1, <3>2
  <2>2. QED
    BY <1>0, <2>1 DEF SafetyInv, LeaseInv, Batched, Leased, Unleased, InRun
<1>10. WorkInv'
  BY <1>0, <1>7 DEF SafetyInv, WorkInv, OnWorkspace, InRun
<1>11. DataInv'
  <2>1. /\ results \in [Runs -> Nat] /\ \A n \in Runs : results[n] \in {Nothing, n}
        /\ run.phase = "transferred" => received = run.number
        /\ (Batched /\ run.phase \in {"begun", "reserved"})
             \/ run.phase \in Prepared \union {"unprepared"} =>
             graph.ready \/ Waiting(run.stream, "wait")
        /\ run.phase \in Prepared =>
             \A b \in UploadBuffers :
               device[b] = run.number
                 \/ \E x \in Queued(run.stream) : x.op = "copy" /\ x.buffer = b
        /\ run.phase \in Prepared \ {"prepared", "running"} =>
             device["status"] = run.number \/ Waiting(run.stream, "kernel")
        /\ run.phase \in {"downloaded", "reconstructed"} =>
             received = run.number \/ Waiting(run.stream, "download")
    BY <1>4 DEF IInv, DataInv
  <2>s. PICK s \in Streams : s = run.stream /\ run'.stream = s
    BY <1>0 DEF SafetyInv, TypeOK
  <2>2. \A x \in Queued(s) : x \in Queued(s)' \/ (x = op /\ s = q)
    BY <1>2
  <2>3. UploadBuffers' = UploadBuffers /\ Batched' = Batched
        /\ UploadBuffers \subseteq Buffers \ {"status"}
    BY <1>0, UploadsEffect DEF UploadBuffers, Batched, SafetyInv
  <2>4. device \in [Buffers -> Nat] /\ "status" \in Buffers
    BY <1>0 DEF SafetyInv, TypeOK, Buffers
  <2>5. graph.ready => graph'.ready
    BY <1>0 DEF SafetyInv, TypeOK
  <2>6. run.phase = "transferred" => received' = run.number
    <3>1. run.phase = "transferred" => ~OnWorkspace(op)
      BY <1>0, <1>2, FencedRun DEF SafetyInv, LeaseInv, Leased, Unleased, Phases
    <3>2. op.op = "download" => OnWorkspace(op)
      BY DEF OnWorkspace, GraphOps
    <3>3. QED
      BY <1>0, <2>1, <3>1, <3>2
  <2>7. (Batched /\ run.phase \in {"begun", "reserved"})
             \/ run.phase \in Prepared \union {"unprepared"} =>
             graph'.ready \/ Waiting(s, "wait")'
    <3>1. CASE Waiting(s, "wait")
      <4>1. PICK x \in Queued(s) : x.op = "wait"
        BY <3>1 DEF Waiting
      <4>2. x = op => graph.ready
        BY <1>0, <4>1
      <4>3. QED
        BY <2>2, <2>5, <4>1, <4>2 DEF Waiting
    <3>2. QED
      BY <2>1, <2>s, <2>5, <3>1
  <2>8. CASE run.phase \notin Prepared
    <3>1. run.phase \notin {"downloaded", "reconstructed"}
      BY <2>8 DEF Prepared
    <3>2. QED
      BY <1>0, <2>1, <2>s, <2>3, <2>6, <2>7, <2>8, <3>1 DEF DataInv
  <2>9. CASE run.phase \in Prepared
    <3>0. run.phase \in Leased /\ InRun /\ run.phase # "transferred"
      BY <2>9 DEF Prepared, Leased, Unleased, Phases, InRun
    <3>1. OnWorkspace(op) => s = q /\ op.run = run.number
      BY <1>4, <2>s, <3>0
    \* What a copy, the kernel or the transfer finds when it happens.
    <3>2. op.op = "copy" => Contents(op) = run.number
      BY <1>0, <1>2, <1>4, <3>0, <3>1
         DEF WellFormed, Contents, SafetyInv, WorkInv, OnWorkspace, GraphOps
    <3>3. op.op = "kernel" => Answer = run.number
      <4>1. SUFFICES ASSUME op.op = "kernel"
                     PROVE  graph.loaded /\ \A b \in UploadBuffers : device[b] = run.number
        BY <1>0, KernelAnswer DEF SafetyInv
      <4>2. s = q /\ Rank(op) = 5
        BY <3>1, <4>1 DEF OnWorkspace, GraphOps, Rank
      <4>3. \A x \in Queued(s) : x.op \notin {"wait", "copy"}
        <5>1. SUFFICES ASSUME NEW x \in Queued(s), x.op \in {"wait", "copy"} PROVE FALSE
          OBVIOUS
        <5>2. Rank(x) \in {2, 3}
          BY <5>1 DEF Rank
        <5>3. QED
          BY <1>3, <4>2, <5>1, <5>2
      <4>4. graph.ready
        BY <2>1, <2>s, <2>9, <4>3 DEF Waiting
      <4>5. graph.loaded
        BY <1>0, <4>4 DEF SafetyInv, GraphInv
      <4>6. QED
        BY <2>1, <2>s, <2>9, <4>3, <4>5
    <3>4. op.op = "download" /\ run.phase \in {"downloaded", "reconstructed"} =>
            device["status"] = run.number
      <4>1. SUFFICES ASSUME op.op = "download", run.phase \in {"downloaded", "reconstructed"}
                     PROVE  device["status"] = run.number
        OBVIOUS
      <4>2. s = q /\ Rank(op) = 6
        BY <3>1, <4>1 DEF OnWorkspace, GraphOps, Rank
      <4>3. \A x \in Queued(s) : x.op # "kernel"
        <5>1. SUFFICES ASSUME NEW x \in Queued(s), x.op = "kernel" PROVE FALSE
          OBVIOUS
        <5>2. Rank(x) = 5
          BY <5>1 DEF Rank
        <5>3. QED
          BY <1>3, <4>2, <5>1, <5>2
      <4>4. run.phase \in Prepared \ {"prepared", "running"}
        BY <2>9, <4>1
      <4>5. QED
        BY <2>1, <2>s, <4>3, <4>4 DEF Waiting
    <3>5. \A b \in UploadBuffers :
            device'[b] = run.number
              \/ \E x \in Queued(s)' : x.op = "copy" /\ x.buffer = b
      <4>1. SUFFICES ASSUME NEW b \in UploadBuffers,
                            \A x \in Queued(s)' : ~(x.op = "copy" /\ x.buffer = b)
                     PROVE  device'[b] = run.number
        OBVIOUS
      <4>2. b \in Buffers /\ b # "status"
        BY <2>3
      <4>3. device[b] = run.number \/ (op.op = "copy" /\ op.buffer = b)
        BY <2>1, <2>s, <2>2, <2>9, <4>1
      <4>4. CASE op.op = "copy"
        BY <1>0, <2>4, <3>2, <4>2, <4>3, <4>4
      <4>5. CASE op.op = "kernel"
        BY <1>0, <2>4, <4>2, <4>3, <4>5
      <4>6. CASE op.op \notin {"copy", "kernel"}
        BY <1>0, <4>3, <4>6
      <4>7. QED
        BY <4>4, <4>5, <4>6
    <3>6. run.phase \notin {"prepared", "running"} =>
            device'["status"] = run.number \/ Waiting(s, "kernel")'
      <4>1. CASE op.op = "kernel"
        BY <1>0, <2>4, <3>3, <4>1
      <4>2. CASE op.op # "kernel"
        <5>1. device'["status"] = device["status"]
          <6>1. op.op = "copy" => op.buffer # "status"
            BY <1>4 DEF WellFormed
          <6>2. CASE op.op = "copy"
            BY <1>0, <2>4, <6>1, <6>2
          <6>3. CASE op.op # "copy"
            BY <1>0, <4>2, <6>3
          <6>4. QED
            BY <6>2, <6>3
        <5>2. Waiting(s, "kernel") => Waiting(s, "kernel")'
          BY <2>2, <4>2 DEF Waiting
        <5>3. QED
          BY <2>1, <2>s, <2>9, <5>1, <5>2
      <4>3. QED
        BY <4>1, <4>2
    <3>7. run.phase \in {"downloaded", "reconstructed"} =>
            received' = run.number \/ Waiting(s, "download")'
      <4>1. SUFFICES ASSUME run.phase \in {"downloaded", "reconstructed"}
                     PROVE  received' = run.number \/ Waiting(s, "download")'
        OBVIOUS
      <4>2. CASE op.op = "download"
        BY <1>0, <3>0, <3>1, <3>4, <4>1, <4>2 DEF OnWorkspace, GraphOps
      <4>3. CASE op.op # "download"
        <5>1. Waiting(s, "download") => Waiting(s, "download")'
          BY <2>2, <4>3 DEF Waiting
        <5>2. received' = received
          BY <1>0, <4>3
        <5>3. QED
          BY <2>1, <2>s, <4>1, <5>1, <5>2
      <4>4. QED
        BY <4>2, <4>3
    <3>8. QED
      BY <1>0, <2>1, <2>s, <2>3, <2>7, <2>9, <3>0, <3>5, <3>6, <3>7 DEF DataInv
  <2>10. QED
    BY <2>8, <2>9
<1>12. QED
  BY <1>3, <1>5, <1>6, <1>8, <1>9, <1>10, <1>11 DEF IInv, SafetyInv

LEMMA LoseDeviceStep ==
  ASSUME IInv, LoseDevice PROVE IInv'
<1>0. /\ SafetyInv /\ lost' = TRUE
      /\ UNCHANGED <<class, graph, lease_active, device_work_may_be_in_flight,
                     lease_stream, capacity, alive, staging, device, run, received, results>>
      /\ streams' = [s \in Streams |-> <<>>]
  BY DEF IInv, LoseDevice, leaseVars
<1>1. /\ streams' \in [Streams -> Seq(Ops)]
      /\ \A s \in Streams : streams'[s] = <<>>
  BY <1>0
<1>2. \A s \in Streams : Queued(s)' = {} /\ Drained(s)'
  BY <1>1 DEF Queued, ToSet, Drained
<1>3. StreamsWellFormed' /\ LostDrains'
  BY <1>2 DEF StreamsWellFormed, LostDrains, DeviceIdle
<1>4. Ordered'
  BY <1>1 DEF Ordered
<1>5. TypeOK'
  BY <1>0, <1>1 DEF SafetyInv, TypeOK
<1>6. GraphInv'
  BY <1>0, <1>2 DEF SafetyInv, GraphInv, Waiting, DeviceIdle
<1>7. LeaseInv'
  <2>1. Drained(run.stream)'
    BY <1>0, <1>1 DEF SafetyInv, TypeOK, Drained
  <2>2. QED
    BY <1>0, <2>1 DEF SafetyInv, LeaseInv, Batched, Leased, Unleased, InRun
<1>8. WorkInv'
  BY <1>2 DEF WorkInv
<1>9. DataInv'
  BY <1>0 DEF IInv, DataInv
<1>10. QED
  BY <1>3, <1>4, <1>5, <1>6, <1>7, <1>8, <1>9 DEF IInv, SafetyInv

-----------------------------------------------------------------------------
(***************************************************************************)
(* The invariant, and what follows from it                                 *)
(***************************************************************************)
LEMMA InitInv == Init => IInv
<1> SUFFICES ASSUME Init PROVE IInv
  OBVIOUS
<1>0. Len(Bytes) \in Nat
  BY BytesAssumption
<1>1. TypeOK
  <2>1. run \in [phase : Phases, number : 0 .. Len(Bytes), stream : Streams,
                 compact : BOOLEAN]
    BY <1>0 DEF Init, Phases
  <2>2. streams \in [Streams -> Seq(Ops)]
    BY DEF Init
  <2>3. QED
    BY <2>1, <2>2 DEF Init, TypeOK, Nothing
<1>2. \A s \in Streams : Queued(s) = {} /\ Drained(s) /\ streams[s] = <<>>
  BY DEF Init, Queued, ToSet, Drained
<1>3. StreamsWellFormed /\ Ordered /\ LostDrains
  BY <1>2 DEF StreamsWellFormed, Ordered, LostDrains, DeviceIdle
<1>4. GraphInv /\ WorkInv
  BY <1>2 DEF Init, GraphInv, WorkInv, DeviceIdle, Waiting
<1>5. LeaseInv
  BY DEF Init, LeaseInv, Leased, Unleased, InRun
<1>6. DataInv
  BY DEF Init, DataInv, Prepared, Nothing
<1>7. QED
  BY <1>1, <1>3, <1>4, <1>5, <1>6 DEF IInv, SafetyInv

LEMMA NextInv == IInv /\ [Next]_vars => IInv'
<1>1. SUFFICES ASSUME IInv, [Next]_vars PROVE IInv'
  OBVIOUS
<1>2. CASE Host
  <2>1. CASE StopPreparationTimer
    BY <1>1, <2>1, StandaloneGivesUp, GoingOnSteps
  <2>2. CASE Retire
    BY <1>1, <2>2, FencedEndSteps, GoingOnSteps
  <2>3. CASE CatchRecovers
    BY <1>1, <2>3, FencedEndSteps, StandaloneGivesUp
  <2>4. CASE ReconstructionReturns \/ ReconstructionThrows
    BY <1>1, <2>4, GoingOnSteps
  <2>5. CASE RecoverPreparation \/ CatchRetires \/ RetireAfterStreamCompletion
    BY <1>1, <2>5, FencedEndSteps
  <2>6. CASE Refuse \/ FenceFails \/ Reserve
    BY <1>1, <2>6, RefuseStep, ReserveStep
  <2>7. CASE StandalonePrepareAsync \/ BatchedPrepareAsync
    BY <1>1, <2>7, StandalonePrepareStep, BatchedPrepareStep
  <2>8. CASE Launch \/ DownloadAsync \/ Reconstruct
    BY <1>1, <2>8, CallSteps
  <2>9. QED
    BY <1>2, <2>1, <2>2, <2>3, <2>4, <2>5, <2>6, <2>7, <2>8 DEF Host
<1>3. CASE ObserveUpload \/ Destroy \/ LoseDevice
  BY <1>1, <1>3, ObserveUploadStep, DestroyStep, LoseDeviceStep
<1>4. CASE \E s \in Streams : UploadOnceAsync(s) \/ BeginRun(s) \/ Step(s)
  BY <1>1, <1>4, UploadStep, BeginRunStep, DeviceStep
<1>5. CASE UNCHANGED vars
  BY <1>1, <1>5, StutterStep
<1>6. QED
  BY <1>1, <1>2, <1>3, <1>4, <1>5 DEF Next

\* The inductive invariant holds of every behaviour.
THEOREM Invariant == Spec => []IInv
BY InitInv, NextInv, PTL DEF Spec

\* Every variable keeps its type: the leases, the queues and the results of a
\* workspace over any number of runs and streams.
THEOREM TypeCorrect == Spec => []TypeOK
<1>1. IInv => TypeOK
  BY DEF IInv, SafetyInv
<1>2. QED
  BY <1>1, Invariant, PTL

\* Queued work finds the host memory and the buffers it was queued for, whatever
\* call failed and whichever stream the next run uses: the lease and the fences
\* of DeviceWorkspace and its batched counterparts.
THEOREM QueuedWorkStaysSafe == Spec => []QueuedWorkIsSafe
<1>1. IInv => QueuedWorkIsSafe
  <2>1. SUFFICES ASSUME IInv, NEW s \in Streams, NEW op \in Queued(s)
                 PROVE  /\ op.memory \in OfRun => InRun /\ op.run = run.number
                        /\ op.memory = "staging" => alive /\ staging = op.run
                        /\ op.op = "load" => graph.staging
                        /\ ~alive => op.op \in {"load", "record", "wait"}
    BY DEF QueuedWorkIsSafe, NothingDangles, StagingUntouched, WorkspaceIdle
  <2>2. /\ op.memory \in OfRun => InRun /\ op.run = run.number
        /\ op.memory = "staging" => alive /\ staging = op.run
        /\ ~alive => ~OnWorkspace(op)
    BY <2>1 DEF IInv, SafetyInv, WorkInv
  <2>3. op.op = "load" => graph.staging
    BY <2>1 DEF IInv, SafetyInv, GraphInv, Waiting
  <2>4. QED
    BY <2>2, <2>3 DEF OnWorkspace, GraphOps
<1>2. QED
  BY <1>1, Invariant, PTL

\* A run returns nothing, or the answer to its own query computed on the loaded
\* graph: every early copy of another run's data was fenced off.
THEOREM ResultsStayOwn == Spec => []ResultsAreOwn
<1>1. IInv => ResultsAreOwn
  BY DEF IInv, DataInv, ResultsAreOwn
<1>2. QED
  BY <1>1, Invariant, PTL

\* No failure leaves a batched workspace leased once its run has returned.
THEOREM LeaseAlwaysReturns == Spec => []BatchedLeaseReturns
<1>1. IInv => BatchedLeaseReturns
  BY DEF IInv, SafetyInv, LeaseInv, BatchedLeaseReturns, InRun, Unleased
<1>2. QED
  BY <1>1, Invariant, PTL
=============================================================================
