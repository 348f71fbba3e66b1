--------------------------- MODULE MCServeLoop ----------------------------
(***************************************************************************)
(* Small instances of ServeLoop.                                           *)
(***************************************************************************)
EXTENDS ServeLoop, TLC

ConnsSymmetric == Permutations(Conns)
===========================================================================
