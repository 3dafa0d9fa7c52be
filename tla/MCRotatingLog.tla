---------------------------- MODULE MCRotatingLog ----------------------------
(***************************************************************************)
(* Small instances of RotatingLog.                                         *)
(***************************************************************************)
EXTENDS RotatingLog

ThreadSymmetry == Permutations(Threads)
=============================================================================
