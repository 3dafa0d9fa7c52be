--------------------------- MODULE MCServerProcess ---------------------------
(***************************************************************************)
(* Two worker threads, and both signals.                                   *)
(***************************************************************************)
EXTENDS ServerProcess

BothSignals == {"SIGINT", "SIGTERM"}
=============================================================================
