-------------------------- MODULE TwoPhaseRollout ---------------------------
(***************************************************************************)
(* What the "Two-Phase Rollout" of an ECH key promises, with nothing of    *)
(* how: a new key is first installed on every node of the cluster and only *)
(* then published in a domain's HTTPS record.                              *)
(***************************************************************************)
EXTENDS EchCluster

CONSTANT Domains

VARIABLES
  current,   (* the newest key, 0 before the first                         *)
  installed, (* the nodes whose proxy serves the newest key                *)
  published  (* the key in each domain's record                            *)

rolloutVars == <<current, installed, published>>

Init ==
  /\ current = 0
  /\ installed = {}
  /\ published = [d \in Domains |-> 0]

(* A newer key exists and no node has it.                                  *)
NewKey(k) ==
  /\ k > current
  /\ current' = k
  /\ installed' = {}
  /\ UNCHANGED published

(* First phase.                                                            *)
InstallOn(n) ==
  /\ current # 0
  /\ installed' = installed \cup {n}
  /\ UNCHANGED <<current, published>>

(* Second phase; a record can also be lost by its provider.                *)
Publish(d) ==
  /\ current # 0
  /\ installed = Nodes
  /\ \E k \in {current, 0} : published' = [published EXCEPT ![d] = k]
  /\ UNCHANGED <<current, installed>>

Next ==
  \/ \E k \in Versions : NewKey(k)
  \/ \E n \in Nodes : InstallOn(n)
  \/ \E d \in Domains : Publish(d)

Spec == Init /\ [][Next]_rolloutVars

(* A client that fetches the record of the newest key reaches only nodes   *)
(* that can decrypt its ClientHello.                                       *)
NewestKeyServed ==
  \A d \in Domains : published[d] # 0 /\ published[d] = current => installed = Nodes
=============================================================================
