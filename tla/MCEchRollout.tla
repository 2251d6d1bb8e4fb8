---------------------------- MODULE MCEchRollout ----------------------------
(***************************************************************************)
(* EchRollout for TLC.  Nodes may be permuted in the runs that check no    *)
(* liveness property and tell no node apart.                               *)
(***************************************************************************)
EXTENDS EchRollout, TLC

NodeSymmetry == Permutations(Nodes)
=============================================================================
