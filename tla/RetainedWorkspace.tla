--------------------------- MODULE RetainedWorkspace ---------------------------
(***************************************************************************)
(* The resident graph, a retained device workspace and the engine runs     *)
(* that use it.  The host is one thread: it enqueues work on in-order      *)
(* streams, and any of its calls may fail, a synchronisation only when the *)
(* device is lost.  Queued work reads and writes host memory later, so the *)
(* host may reuse or release that memory, or grow a device buffer, only    *)
(* after a fence.                                                          *)
(*                                                                         *)
(* `class' is the workspace's class: the standalone one, shared by the     *)
(* three standalone engines on any streams, or that of a batched engine.   *)
(* Data are stood for by the number of the run they belong to.             *)
(***************************************************************************)
EXTENDS Naturals, FiniteSets, SequencesExt

CONSTANTS
  Streams,       \* the streams of the device
  Bytes          \* the workspace each run needs, in the order of the runs

ASSUME StreamsAssumption == Streams # {}
ASSUME BytesAssumption   == Bytes \in Seq(Nat \ {0})

VARIABLES
  class,         \* "standalone", or the engine of a batched workspace
  graph,         \* the resident graph: its state, its host staging, the device copy
  lease_active, device_work_may_be_in_flight, lease_stream,
  capacity,      \* of the workspace's device buffers
  alive,         \* the workspace has not been destroyed
  staging,       \* the run whose data the workspace's host staging holds
  device,        \* the run whose data each device buffer holds
  run,           \* the engine run under way
  received,      \* what the run's transfers have left in its own variables
  results,       \* what each run returned
  streams,       \* the queued work of each stream
  lost           \* the device has failed for good

resident   == <<class, graph>>
leaseVars  == <<lease_active, device_work_may_be_in_flight, lease_stream>>
vars == <<class, graph, lease_active, device_work_may_be_in_flight,
          lease_stream, capacity, alive, staging, device, run, received,
          results, streams, lost>>

Runs == 1 .. Len(Bytes)
Nothing == 0                       \* no data yet
Mixed == Len(Bytes) + 1            \* data of no run, or of several

-------------------------------------------------------------------------------
(***************************************************************************)
(* Streams (the HIP runtime, known by its use)                             *)
(***************************************************************************)
Op(op, buffer, memory) == [op |-> op, buffer |-> buffer, memory |-> memory,
                           run |-> run.number]

Drained(s)  == streams[s] = <<>>
DeviceIdle  == \A s \in Streams : Drained(s)
Queued(s)   == ToSet(streams[s])

\* The calls of a sequence are made one by one; `sent' of them succeed.
Enqueue(s, ops, sent) ==
  streams' = [streams EXCEPT ![s] = @ \o SubSeq(ops, 1, sent)]

-------------------------------------------------------------------------------
(***************************************************************************)
(* What a preparation copies.  The standalone workspace copies the query   *)
(* into pinned staging of its own; a batched one lets the device read the  *)
(* caller's batch, and stages the range offsets and, but for the Jacobi    *)
(* engine, whose first kernel writes it, the controller.                   *)
(***************************************************************************)
StandaloneUploads == <<Op("copy", "inputs", "staging"), Op("copy", "controller", "staging")>>
JacobiUploads     == <<Op("copy", "inputs", "caller"), Op("copy", "ranges", "staging")>>
DenseUploads      == <<Op("copy", "inputs", "caller"), Op("copy", "ranges", "staging"),
                       Op("copy", "controller", "staging")>>
FrontierUploads   == <<Op("copy", "inputs", "caller"), Op("copy", "ranges", "staging"),
                       Op("copy", "controller", "staging")>>

Classes == {"standalone", "jacobi", "dense", "frontier"}
Batched == class # "standalone"

Uploads == CASE class = "standalone" -> StandaloneUploads
             [] class = "jacobi"     -> JacobiUploads
             [] class = "dense"      -> DenseUploads
             [] class = "frontier"   -> FrontierUploads

Buffers == {"inputs", "ranges", "controller", "status"}

\* A fault variant, which no specification uses.
FaultNoWait == <<Op("event", "inputs", "none")>>

\* The stream waits for the event that follows the graph's upload.
WaitUntilReady == <<Op("wait", "inputs", "graph")>>

Init ==
  /\ class \in Classes
  /\ graph = [state |-> "empty", staging |-> FALSE, loaded |-> FALSE, ready |-> FALSE]
  /\ lease_active = FALSE
  /\ device_work_may_be_in_flight = FALSE
  /\ lease_stream \in Streams
  /\ capacity = 0
  /\ alive = TRUE
  /\ staging = Nothing
  /\ device = [b \in Buffers |-> Nothing]
  /\ run = [phase |-> "idle", number |-> 0, stream |-> lease_stream, compact |-> FALSE]
  /\ received = Nothing
  /\ results = [n \in Runs |-> Nothing]
  /\ streams = [s \in Streams |-> <<>>]
  /\ lost = FALSE

-------------------------------------------------------------------------------
(***************************************************************************)
(* The resident graph                                                      *)
(***************************************************************************)
HasUpload == graph.state \in {"uploading", "ready"}

\* One attempt: the state is `failed' until the event has been recorded.
UploadOnceAsync(s) ==
  /\ run.phase = "idle"
  /\ graph.state = "empty"
  /\ LET work == <<Op("load", "inputs", "graph"), Op("record", "inputs", "graph")>>
     IN \E sent \in 0 .. Len(work) :
          /\ lost => sent = 0
          /\ Enqueue(s, work, sent)
          /\ graph' = [graph EXCEPT !.staging = TRUE,
                         !.state = IF sent = Len(work) THEN "uploading" ELSE "failed"]
  /\ UNCHANGED <<class, leaseVars, capacity, alive, staging, device, run, received,
                 results, lost>>

\* `synchronize_upload' waits for the event and `upload_complete' asks for it.
\* Both let the host copy of the layout go once it has happened.
ObserveUpload ==
  /\ run.phase = "idle"
  /\ graph.state = "uploading"
  /\ graph.ready /\ ~lost
  /\ graph' = [graph EXCEPT !.state = "ready", !.staging = FALSE]
  /\ UNCHANGED <<class, leaseVars, capacity, alive, staging, device, run, received,
                 results, streams, lost>>

-------------------------------------------------------------------------------
(***************************************************************************)
(* One run                                                                 *)
(***************************************************************************)
Goto(phase) == run' = [run EXCEPT !.phase = phase]
Throw == Goto("idle")

\* A batched run first orders its stream after the graph's upload.
BeginRun(s) ==
  /\ run.phase = "idle"
  /\ run.number < Len(Bytes)
  /\ HasUpload
  /\ alive
  /\ \E compact \in {FALSE, Batched}, sent \in IF Batched THEN {0, 1} ELSE {1} :
       /\ run' = [phase |-> IF sent = 1 THEN "begun" ELSE "idle",
                  number |-> run.number + 1, stream |-> s, compact |-> compact]
       /\ IF Batched
          THEN /\ lost => sent = 0
               /\ Enqueue(s, WaitUntilReady, sent)
          ELSE UNCHANGED streams
  /\ received' = Nothing
  /\ UNCHANGED <<resident, leaseVars, capacity, alive, staging, device, results, lost>>

\* The workspace is still leased: the run is refused.
Refuse ==
  /\ run.phase = "begun"
  /\ lease_active
  /\ Throw
  /\ UNCHANGED <<resident, leaseVars, capacity, alive, staging, device, received,
                 results, streams, lost>>

\* A fault variant, which no specification uses.
FaultNoFence == FALSE

\* The whole device, for the work may be on the stream of another engine.
MustFence == device_work_may_be_in_flight
Fenced == MustFence => DeviceIdle \/ lost

\* The standalone workspace reports a failed fence and keeps the flag; the
\* batched one ignores it.
FenceFails ==
  /\ run.phase = "begun" /\ ~lease_active
  /\ MustFence /\ lost /\ ~Batched
  /\ Throw
  /\ UNCHANGED <<resident, leaseVars, capacity, alive, staging, device, received,
                 results, streams, lost>>

\* A batched workspace rewrites its offsets before its buffers grow.
Reserve ==
  /\ run.phase = "begun" /\ ~lease_active
  /\ Fenced
  /\ ~(MustFence /\ lost /\ ~Batched)
  /\ device_work_may_be_in_flight' = FALSE
  /\ staging' = IF Batched THEN run.number ELSE staging
  /\ \/ /\ Bytes[run.number] <= capacity
        /\ Goto("reserved")
        /\ UNCHANGED capacity
     \/ /\ Bytes[run.number] > capacity
        /\ ~lost
        /\ capacity' = Bytes[run.number]
        /\ Goto("reserved")
     \/ /\ Bytes[run.number] > capacity
        /\ Throw
        /\ UNCHANGED capacity
  /\ UNCHANGED <<resident, lease_active, lease_stream, alive, device, received,
                 results, streams, lost>>

\* The standalone run orders its stream after the graph here.
StandalonePrepareAsync ==
  /\ run.phase = "reserved" /\ ~Batched
  /\ \/ /\ Throw                                    \* the wait is not accepted
        /\ UNCHANGED <<staging, leaseVars, streams>>
     \/ /\ staging' = run.number
        /\ lease_stream' = run.stream
        /\ device_work_may_be_in_flight' = TRUE
        /\ ~lost
        /\ LET calls == WaitUntilReady \o Uploads \o <<Op("event", "inputs", "none")>>
           IN \E sent \in 1 .. Len(calls) :
                /\ Enqueue(run.stream, calls, sent)
                /\ lease_active' = (sent = Len(calls))
                /\ IF sent = Len(calls) THEN Goto("prepared") ELSE Throw
  /\ UNCHANGED <<resident, capacity, alive, device, received, results, lost>>

BatchedPrepareAsync ==
  /\ run.phase = "reserved" /\ Batched
  /\ staging' = run.number
  /\ lease_stream' = run.stream
  /\ lease_active' = TRUE
  /\ device_work_may_be_in_flight' = TRUE
  /\ \E sent \in 0 .. Len(Uploads) :
       /\ lost => sent = 0
       /\ Enqueue(run.stream, Uploads, sent)
       /\ Goto(IF sent = Len(Uploads) THEN "prepared" ELSE "unprepared")
  /\ UNCHANGED <<resident, capacity, alive, device, received, results, lost>>

ClearLease ==
  /\ lease_active' = FALSE
  /\ device_work_may_be_in_flight' = FALSE
  /\ UNCHANGED lease_stream

\* The preparation itself cleans up, and the run ends.
RecoverPreparation ==
  /\ run.phase = "unprepared"
  /\ DeviceIdle \/ lost
  /\ ClearLease
  /\ Throw
  /\ UNCHANGED <<resident, capacity, alive, staging, device, received, results,
                 streams, lost>>

\* The timer's event.  A standalone run is not yet in its `try' block: it ends
\* with the workspace leased.
StopPreparationTimer ==
  /\ run.phase = "prepared"
  /\ \/ ~lost /\ Goto("running")
     \/ Goto(IF Batched THEN "catching" ELSE "idle")
  /\ UNCHANGED <<resident, leaseVars, capacity, alive, staging, device, received,
                 results, streams, lost>>

\* The initialisation, the rounds and the finalisation, with the polls between
\* them left out.
Launch ==
  /\ run.phase = "running"
  /\ \/ /\ ~lost
        /\ Enqueue(run.stream, <<Op("kernel", "status", "none")>>, 1)
        /\ Goto(IF run.compact THEN "reconstructing" ELSE "launched")
     \/ /\ Goto("catching")
        /\ UNCHANGED streams
  /\ UNCHANGED <<resident, leaseVars, capacity, alive, staging, device, received,
                 results, lost>>

\* The transfers of a run go to its own variables.
DownloadAsync ==
  /\ run.phase = "launched"
  /\ \E sent \in {0, 1}, fails \in BOOLEAN :
       /\ lost => sent = 0
       /\ sent = 0 => fails
       /\ Enqueue(run.stream, <<Op("download", "status", "local")>>, sent)
       /\ Goto(IF fails THEN "catching" ELSE "downloaded")
  /\ UNCHANGED <<resident, leaseVars, capacity, alive, staging, device, received,
                 results, lost>>

\* The lease and its stream are the run's own, so the workspace accepts them.
Retire ==
  /\ run.phase = "downloaded"
  /\ \/ /\ Drained(run.stream) /\ ~lost
        /\ ClearLease
        /\ results' = [results EXCEPT ![run.number] = received]
        /\ Goto("idle")
     \/ /\ lost
        /\ Goto("catching")
        /\ UNCHANGED <<leaseVars, results>>
  /\ UNCHANGED <<resident, capacity, alive, staging, device, received, streams, lost>>

-------------------------------------------------------------------------------
(***************************************************************************)
(* A compact run: the reconstruction reads the distances under the lease,  *)
(* and is complete when it returns.                                        *)
(***************************************************************************)
Reconstruct ==
  /\ run.phase = "reconstructing"
  /\ \E sent \in {0, 1}, fails \in BOOLEAN :
       /\ lost => sent = 0
       /\ sent = 0 => fails
       /\ Enqueue(run.stream, <<Op("download", "status", "local")>>, sent)
       /\ Goto(IF fails THEN "reconstruction_failed" ELSE "reconstructed")
  /\ UNCHANGED <<resident, leaseVars, capacity, alive, staging, device, received,
                 results, lost>>

ReconstructionReturns ==
  /\ run.phase = "reconstructed"
  /\ IF lost THEN Goto("reconstruction_failed")
             ELSE Drained(run.stream) /\ Goto("transferred")
  /\ UNCHANGED <<resident, leaseVars, capacity, alive, staging, device, received,
                 results, streams, lost>>

\* It fences its stream before it lets the exception through.
ReconstructionThrows ==
  /\ run.phase = "reconstruction_failed"
  /\ Drained(run.stream) \/ lost
  /\ Goto("catching")
  /\ UNCHANGED <<resident, leaseVars, capacity, alive, staging, device, received,
                 results, streams, lost>>

RetireAfterStreamCompletion ==
  /\ run.phase = "transferred"
  /\ ClearLease
  /\ results' = [results EXCEPT ![run.number] = received]
  /\ Goto("idle")
  /\ UNCHANGED <<resident, capacity, alive, staging, device, received, streams, lost>>

-------------------------------------------------------------------------------
(***************************************************************************)
(* The end of a run that throws                                            *)
(***************************************************************************)
\* Retiring fences the run's stream.
CatchRetires ==
  /\ run.phase = "catching"
  /\ Drained(run.stream) /\ ~lost
  /\ ClearLease
  /\ Throw
  /\ UNCHANGED <<resident, capacity, alive, staging, device, received, results,
                 streams, lost>>

\* Fault variants, which no specification uses.
FaultKeepLease ==
  /\ run.phase = "catching"
  /\ lost
  /\ Throw
  /\ UNCHANGED <<resident, leaseVars, capacity, alive, staging, device, received,
                 results, streams, lost>>

FaultRetryRetire ==
  /\ run.phase = "catching"
  /\ lost
  /\ UNCHANGED vars

\* It fails: a standalone run lets the lease be, a batched one clears it after
\* another fence whose failure it ignores.
CatchRecovers ==
  /\ run.phase = "catching"
  /\ lost
  /\ IF Batched THEN ClearLease ELSE UNCHANGED leaseVars
  /\ Throw
  /\ UNCHANGED <<resident, capacity, alive, staging, device, received, results,
                 streams, lost>>

\* The destructor fences the device when something may still be queued.
Destroy ==
  /\ run.phase = "idle"
  /\ alive
  /\ lease_active \/ device_work_may_be_in_flight => DeviceIdle \/ lost
  /\ alive' = FALSE
  /\ UNCHANGED <<resident, leaseVars, capacity, staging, device, run, received,
                 results, streams, lost>>

-------------------------------------------------------------------------------
(***************************************************************************)
(* The device                                                              *)
(***************************************************************************)
InRun == run.phase # "idle"

\* What a copy reads when it happens.
Contents(op) == CASE op.memory = "staging" -> IF alive THEN staging ELSE Mixed
                  [] op.memory = "caller"  -> IF InRun THEN run.number ELSE Mixed
                  [] OTHER                 -> Mixed

Loaded == {device[b] : b \in {Uploads[i].buffer : i \in DOMAIN Uploads}}

\* A run's kernels answer its query if all they read is of one run.
Answer == IF graph.loaded /\ Cardinality(Loaded) = 1
          THEN CHOOSE n \in Loaded : TRUE ELSE Mixed

Step(s) ==
  /\ ~Drained(s)
  /\ LET op == Head(streams[s])
     IN /\ op.op = "wait" => graph.ready
        /\ device' = CASE op.op = "copy"   -> [device EXCEPT ![op.buffer] = Contents(op)]
                       [] op.op = "kernel" -> [device EXCEPT !["status"] = Answer]
                       [] OTHER            -> device
        /\ received' = IF op.op = "download" /\ InRun /\ op.run = run.number
                       THEN device["status"] ELSE received
        /\ graph' = CASE op.op = "load"   -> [graph EXCEPT !.loaded = graph.staging]
                      [] op.op = "record" -> [graph EXCEPT !.ready = TRUE]
                      [] OTHER            -> graph
  /\ streams' = [streams EXCEPT ![s] = Tail(@)]
  /\ UNCHANGED <<class, leaseVars, capacity, alive, staging, run, results, lost>>

\* Its queued work is discarded, and every later call fails.
LoseDevice ==
  /\ ~lost
  /\ lost' = TRUE
  /\ streams' = [s \in Streams |-> <<>>]
  /\ UNCHANGED <<class, graph, leaseVars, capacity, alive, staging, device, run,
                 received, results>>

-------------------------------------------------------------------------------
Host ==
  \/ Refuse \/ FenceFails \/ Reserve
  \/ StandalonePrepareAsync \/ BatchedPrepareAsync \/ RecoverPreparation
  \/ StopPreparationTimer \/ Launch \/ DownloadAsync \/ Retire
  \/ Reconstruct \/ ReconstructionReturns \/ ReconstructionThrows
  \/ RetireAfterStreamCompletion
  \/ CatchRetires \/ CatchRecovers

Next ==
  \/ Host
  \/ ObserveUpload \/ Destroy \/ LoseDevice
  \/ \E s \in Streams : UploadOnceAsync(s) \/ BeginRun(s) \/ Step(s)

Spec == Init /\ [][Next]_vars

\* A run that has begun goes on, and the device works off its queues.
FairSpec ==
  /\ Spec
  /\ WF_vars(Host)
  /\ \A s \in Streams : WF_vars(Step(s))

-------------------------------------------------------------------------------
(***************************************************************************)
(* Properties                                                              *)
(***************************************************************************)
Phases == {"idle", "begun", "reserved", "unprepared", "prepared", "running",
           "launched", "downloaded", "reconstructing", "reconstructed",
           "reconstruction_failed", "transferred", "catching"}

Ops == [op     : {"load", "record", "wait", "event", "copy", "kernel", "download"},
        buffer : Buffers,
        memory : {"graph", "staging", "caller", "local", "none"},
        run    : Nat]

TypeOK ==
  /\ class \in Classes
  /\ graph \in [state : {"empty", "uploading", "ready", "failed"},
                staging : BOOLEAN, loaded : BOOLEAN, ready : BOOLEAN]
  /\ lease_active \in BOOLEAN
  /\ device_work_may_be_in_flight \in BOOLEAN
  /\ lease_stream \in Streams
  /\ capacity \in Nat
  /\ alive \in BOOLEAN
  /\ staging \in Nat
  /\ device \in [Buffers -> Nat]
  /\ run \in [phase : Phases, number : 0 .. Len(Bytes), stream : Streams,
              compact : BOOLEAN]
  /\ received \in Nat
  /\ results \in [Runs -> Nat]
  /\ streams \in [Streams -> Seq(Ops)]
  /\ lost \in BOOLEAN

\* Queued work that reads the caller's batch, or writes a variable of a run,
\* belongs to the run that is under way.
OfRun == {"caller", "local"}
NothingDangles ==
  \A s \in Streams : \A op \in Queued(s) :
    op.memory \in OfRun => InRun /\ op.run = run.number

\* Staging that a queued copy has yet to read is neither rewritten nor
\* released, that of the workspace or that of the graph.
StagingUntouched ==
  \A s \in Streams : \A op \in Queued(s) :
    /\ op.memory = "staging" => alive /\ staging = op.run
    /\ op.op = "load" => graph.staging

\* No work that reads or writes the workspace is queued on any stream.
WorkspaceIdle ==
  \A s \in Streams : \A op \in Queued(s) : op.op \in {"load", "record", "wait"}

\* Whatever fails, and whichever stream the next run uses, queued work finds
\* the host memory and the buffers it was queued for.
QueuedWorkIsSafe ==
  /\ NothingDangles
  /\ StagingUntouched
  /\ ~alive => WorkspaceIdle

\* A run returns the answer to its own query, computed on the resident graph.
ResultsAreOwn == \A n \in Runs : results[n] \in {Nothing, n}

\* A batched workspace is leased only while a run is under way, whatever
\* failed.
BatchedLeaseReturns == Batched /\ ~InRun => ~lease_active

\* Every run ends: no fence waits for work that waits for the host.
RunsReturn == InRun ~> ~InRun
===============================================================================
