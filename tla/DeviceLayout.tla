----------------------------- MODULE DeviceLayout -----------------------------
(***************************************************************************)
(* The DeviceGraphLayout32 of a graph (src/src/device_layout.cpp): its     *)
(* arrays as the kernels read them, with offsets in 32-bit words, and the  *)
(* fingerprint by which a resident graph is recognised.                    *)
(*                                                                         *)
(* limit is UINT32_MAX, a weight stands for its bits, and an array is a    *)
(* sequence of words.                                                      *)
(***************************************************************************)
EXTENDS TileLayout, SequencesExt

\* graph_is_device_representable
DeviceRepresentable(limit) ==
  /\ VertexCount <= limit /\ EdgeCount <= limit /\ TileCount <= limit
  /\ Len(CsrRuns) <= limit /\ Len(CscRuns) <= limit

\* From an array that counts from 0.
Words(array, length) == [n \in 1 .. length |-> array[n - 1]]

\* Where each row (column) begins, in a list ordered by it.
OffsetsOf(local) ==
  [n \in 1 .. VertexCount + 1 |->
     Cardinality({p \in DOMAIN local : local[p] < n - 1})]

RunLocals(runs) == [n \in DOMAIN runs |-> runs[n].local]
RunTiles(runs)  == [n \in DOMAIN runs |-> runs[n].tile]

\* Edge positions count from 1 here and from 0 in the layout.
RunEdgeOffsets(runs) ==
  [n \in 1 .. Len(runs) + 1 |->
     IF n > Len(runs) THEN EdgeCount ELSE Min(runs[n].positions) - 1]

\* What the graph and its runs say, in 64-bit words.
SourceArrays ==
  [owner_tiles               |-> Words(OwnerTile, VertexCount),
   csr_row_offsets           |-> OffsetsOf(CsrSource),
   csr_destinations          |-> CsrDestination,
   csr_weights               |-> CsrWeight,
   csr_row_run_offsets       |-> OffsetsOf(RunLocals(CsrRuns)),
   csr_run_edge_offsets      |-> RunEdgeOffsets(CsrRuns),
   csr_run_destination_tiles |-> RunTiles(CsrRuns),
   csc_column_offsets        |-> OffsetsOf(CscDestination),
   csc_sources               |-> CscSource,
   csc_weights               |-> CscWeight,
   csc_column_run_offsets    |-> OffsetsOf(RunLocals(CscRuns)),
   csc_run_edge_offsets      |-> RunEdgeOffsets(CscRuns),
   csc_run_source_tiles      |-> RunTiles(CscRuns),
   csc_edge_ids              |-> [p \in Edges |-> CscEdges[p] - 1]]

\* static_cast to a 32-bit word; the weights are words already.
Narrow(array, name, limit) ==
  IF name \in {"csr_weights", "csc_weights"} THEN array
  ELSE [n \in DOMAIN array |-> array[n] % (limit + 1)]

Scalars(limit) == <<VertexCount % (limit + 1), EdgeCount % (limit + 1),
                    TileCount % (limit + 1)>>

\* checked_device_offset32, of every word that is narrowed.
EveryOffsetFits(limit) ==
  \A name \in DOMAIN SourceArrays \ {"csr_weights", "csc_weights"} :
    \A n \in DOMAIN SourceArrays[name] : SourceArrays[name][n] <= limit

\* build_device_graph_layout32
DeviceLayoutThrows(limit) ==
  ~ValidTileRunLayout \/ ~DeviceRepresentable(limit) \/ ~EveryOffsetFits(limit)

BuildDeviceLayout(limit) ==
  [scalars |-> Scalars(limit),
   arrays  |-> [name \in DOMAIN SourceArrays |->
                  Narrow(SourceArrays[name], name, limit)]]

\* validate_device_graph_layout32
ValidDeviceLayout(layout, limit) ==
  /\ ValidTileRunLayout
  /\ DeviceRepresentable(limit)
  /\ layout.scalars = Scalars(limit)
  /\ \A name \in DOMAIN SourceArrays :
       /\ Len(layout.arrays[name]) = Len(SourceArrays[name])
       /\ layout.arrays[name] = Narrow(SourceArrays[name], name, limit)

\* device_graph_layouts_deep_equal
DeepEqual(left, right) ==
  /\ left.scalars = right.scalars
  /\ \A name \in DOMAIN left.arrays : left.arrays[name] = right.arrays[name]

\* report_device_graph_memory: total_bytes.
DeviceGraphBytes(layout) ==
  4 * MapThenSumSet(LAMBDA name : Len(layout.arrays[name]),
                    DOMAIN layout.arrays)

-----------------------------------------------------------------------------
(***************************************************************************)
(* The fingerprint hashes a stream of words; what it can tell apart is     *)
(* what the stream tells apart.                                            *)
(***************************************************************************)
FingerprintOrder ==
  <<"owner_tiles", "csr_row_offsets", "csr_destinations", "csr_weights",
    "csr_row_run_offsets", "csr_run_edge_offsets",
    "csr_run_destination_tiles", "csc_column_offsets", "csc_sources",
    "csc_weights", "csc_column_run_offsets", "csc_run_edge_offsets",
    "csc_run_source_tiles", "csc_edge_ids">>

\* fingerprint_component; a 64-bit count takes two words.
Component(tag, words, limit) ==
  <<tag, Len(words) % (limit + 1), Len(words) \div (limit + 1)>> \o words

FingerprintStream(scalars, arrays, limit) ==
  Component(0, scalars, limit)
    \o FlattenSeq([tag \in DOMAIN FingerprintOrder |->
                     Component(tag, arrays[FingerprintOrder[tag]], limit)])

\* fingerprint_device_graph_layout32
LayoutFingerprint(layout, limit) ==
  FingerprintStream(layout.scalars, layout.arrays, limit)

\* fingerprint_device_graph_source32, which makes no layout.
SourceFingerprint(limit) ==
  FingerprintStream(Scalars(limit),
                    [name \in DOMAIN SourceArrays |->
                       Narrow(SourceArrays[name], name, limit)], limit)
=============================================================================
