---------------------------- MODULE MCAsyncGateway ----------------------------
(***************************************************************************)
(* AsyncGateway for TLC.  Tasks and workers are model values and nothing   *)
(* in the specification tells them apart.                                  *)
(***************************************************************************)
EXTENDS AsyncGateway, TLC

Symmetry == Permutations(Tasks) \cup Permutations(Workers)
=============================================================================
