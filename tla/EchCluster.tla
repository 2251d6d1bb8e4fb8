----------------------------- MODULE EchCluster -----------------------------
(***************************************************************************)
(* What the server's and the agents' modules share: one ECH cluster, its   *)
(* edge nodes and the versions of its key.                                 *)
(***************************************************************************)
EXTENDS Integers

CONSTANTS
  Nodes,      (* edge nodes                                                *)
  MaxVersion  (* bound: rotations                                          *)

ASSUME VersionAssumption == MaxVersion \in Nat \ {0}

(* current_version counts from 1; 0 stands for no version, no key, no file.*)
Versions == 1 .. MaxVersion
=============================================================================
