------------------------ MODULE MCRetainedWorkspace ------------------------
(***************************************************************************)
(* A small instance of RetainedWorkspace for TLC: the second run needs     *)
(* larger buffers than the first, the third fits in those of the second.   *)
(***************************************************************************)
EXTENDS RetainedWorkspace

ThreeRuns == <<1, 2, 1>>
=============================================================================
