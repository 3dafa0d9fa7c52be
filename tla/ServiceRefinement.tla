-------------------------- MODULE ServiceRefinement --------------------------
(***************************************************************************)
(* RangeServer implements RangeService: the clients see the same states,   *)
(* and the server is up until its main thread goes on to the joins.        *)
(***************************************************************************)
EXTENDS RangeServer

Service == INSTANCE RangeService WITH up <- main \notin {"join", "exited"}

\* run_server, with its batches in the pipes and in the hands of the workers
\* and its results collected in any order, does for every client only what
\* RangeService promises: it serves one request at a time, answers none twice
\* and none after it has stopped, and an answer has its own request's hash and
\* rows, in the order of idx, less whole chunks that threw or do not verify.
Implements == Service!Spec
=============================================================================
