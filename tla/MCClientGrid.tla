---------------------------- MODULE MCClientGrid ----------------------------
(***************************************************************************)
(* float with 4 significant bits, double with 7; ranges over four powers   *)
(* of two, on both sides of 0.                                             *)
(***************************************************************************)
EXTENDS ClientGrid

TwoClients == {"cpp", "py"}
FloatAndDouble == [c \in TwoClients |-> IF c = "cpp" THEN 2^4 ELSE 2^7]

SomeLos == {-70, -33, -5, 0, 1, 7, 12, 30}
SomeSpans == {-3, 0, 1, 8, 15, 31, 60, 64, 90}
SomeSteps == -1 .. 9
=============================================================================
