----------------------------- MODULE EchRollout -----------------------------
(***************************************************************************)
(* The whole rollout of an ECH key: the central server (EchServer) and the *)
(* agents of the edge nodes (EchAgent) joined by the pull protocol of      *)
(* internal/ech/transport/service.go, SyncNode and AckNode.                *)
(*                                                                         *)
(* SyncNode is two steps: the list of the node's clusters, which fixes the *)
(* version label of the answer, and the later read of the ACTIVE key, its  *)
(* content.  An acknowledgment is normally handled while the agent waits;  *)
(* it can also be lost, or reach the server after the agent gave up.       *)
(***************************************************************************)
EXTENDS EchServer, EchAgent

CONSTANTS
  Ssh,                (* the nodes whose agents use the SSH transport      *)
  PollDuringRotation  (* whether a poll may fall between the increment of  *)
                      (* the version and the save of its key               *)

ASSUME RolloutAssumption ==
  /\ Ssh \subseteq Nodes
  /\ PollDuringRotation \in BOOLEAN

VARIABLE
  late  (* acknowledgments on their way after their sender gave up         *)

vars == <<curVer, lastRot, due, keyStatus, applied, syncStatus, domStatus,
          domSynced, dns, pc, ver, now, seenRot, todo, marking, key, clock,
          events, stVer, cur, prev, loaded, apc, label, item, unsaved, unbacked,
          orphaned, late>>

(* All of the server's, but for the counter of the environment's events.   *)
serverAtRest == <<clusterVars, keyStatus, nodeVars, domainVars, dns, pc, ver, now, syncVars, clock>>

Ack == [node : Nodes, version : 0 .. MaxVersion, ok : BOOLEAN]

(* Type invariant: the server's, the agents', and the late messages.       *)
RolloutTypeOK ==
  /\ TypeOK
  /\ AgentTypeOK
  /\ late \subseteq Ack

(***************************************************************************)
(* Poll                                                                    *)
(***************************************************************************)

(* The version the server reads from the request.  Over SSH the agent      *)
(* sends its map quoted with %q, a JSON string; the server fails to decode *)
(* it as a map and goes on with an empty one.                              *)
Reported(n) == IF n \in Ssh THEN 0 ELSE stVer[n]

(* The environment assumption of the runs with PollDuringRotation = FALSE: *)
(* no poll begins between an increment and the save of its key.            *)
NoWindow == PollDuringRotation \/ \A r \in Rotators : pc[r] \notin Unsaved

(* SyncNode up to the version comparison: the label is the version the     *)
(* cluster has now.  A node that reports it is UP_TO_DATE and does nothing.*)
Asks(n, reported) ==
  /\ NoWindow
  /\ Assigned(n)
  /\ ~(reported = curVer /\ curVer > 0)
  /\ Requested(n, curVer)

SyncNode(n) == Asks(n, Reported(n)) /\ UNCHANGED <<serverVars, late>>

(* SyncNode's answer: the key that is ACTIVE by now, under the label taken *)
(* before; without one the agent has nothing to do.                        *)
SyncKey(n) ==
  /\ IF GetActiveECHKey # 0
     THEN Received(n, GetActiveECHKey)
     ELSE apc[n] = "listed" /\ AgentIdle(n) /\ UNCHANGED fileVars
  /\ UNCHANGED <<serverVars, late>>

(* An answer without the cluster the agent still has.                      *)
SyncRemoved(n) ==
  /\ ~Assigned(n)
  /\ Remove(n)
  /\ UNCHANGED <<serverVars, late>>

(* The agent cannot read its state file, and reports no version; or it     *)
(* cannot delete the directory.                                            *)
PollFault(n) ==
  /\ Event("fileError")
  /\ Asks(n, 0) \/ (~Assigned(n) /\ RemoveFails(n))
  /\ UNCHANGED <<serverAtRest, late>>

(***************************************************************************)
(* Acknowledgment                                                          *)
(***************************************************************************)

(* Over SSH the quoted list is not decoded either: the server answers OK   *)
(* and records nothing.                                                    *)
RecordAck(n, v, ok) ==
  IF n \in Ssh
  THEN UNCHANGED serverAtRest
  ELSE AckNode(n, v, ok)

AckDelivered(n) ==
  /\ AckSent(n)
  /\ RecordAck(n, label[n], apc[n] = "ack")
  /\ UNCHANGED <<events, late>>

(* The agent ignores the error of AckViaHTTPS and AckViaSSH.               *)
AckLost(n) ==
  /\ AckSent(n)
  /\ Event("ackLost")
  /\ UNCHANGED <<serverAtRest, late>>

(* The request times out for the agent and is handled later.               *)
AckDelayed(n) ==
  /\ AckSent(n)
  /\ Event("ackLate")
  /\ late' = late \cup {[node |-> n, version |-> label[n], ok |-> apc[n] = "ack"]}
  /\ UNCHANGED serverAtRest

LateAck(m) ==
  /\ m \in late
  /\ RecordAck(m.node, m.version, m.ok)
  /\ late' = late \ {m}
  /\ UNCHANGED <<events, agentVars>>

(***************************************************************************)
(* Agent steps that only concern the node                                  *)
(***************************************************************************)
LocalStep(n) ==
  /\ \/ Install(n)
     \/ Reload(n)
     \/ SaveState(n)
     \/ SaveRemoved(n)
     \/ ReloadRemoved(n)
  /\ UNCHANGED <<serverVars, late>>

LocalFault(n) ==
  /\ \/ ReloadFails(n) /\ Event("reloadError")
     \/ ReloadRemovedFails(n) /\ Event("reloadError")
     \/ (AgentCrash(n) \/ StateLost(n)) /\ Event("agentCrash")
     \/ FileFault(n) /\ Event("fileError")
  /\ UNCHANGED <<serverAtRest, late>>

AgentStep(n) ==
  \/ SyncNode(n)
  \/ SyncKey(n)
  \/ SyncRemoved(n)
  \/ AckDelivered(n)
  \/ LocalStep(n)

(***************************************************************************)
(* Specification                                                           *)
(***************************************************************************)

Init == ServerInit /\ AgentInit /\ late = {}

(* A server step; unless PollDuringRotation, it takes no new version while *)
(* the server is answering a poll.                                         *)
ServerMoves(Step) ==
  /\ Step
  /\ PollDuringRotation \/ ((\E n \in Nodes : apc[n] = "listed") => curVer' = curVer)
  /\ UNCHANGED <<agentVars, late>>

Next ==
  \/ ServerMoves(ServerStep)
  \/ \E n \in Nodes : AgentStep(n)
  \/ \E n \in Nodes : AckLost(n) \/ AckDelayed(n) \/ LocalFault(n) \/ PollFault(n)
  \/ \E m \in late : LateAck(m)

Spec == Init /\ [][Next]_vars

(* The coordinator's ticker, the agents' poll loops and the requests they  *)
(* have started go on; operators, faults and the clock need not.           *)
CoordinatorStep == ReconcileRotate \/ Rotate(Coordinator) \/ Publish

Fairness ==
  /\ WF_vars(ServerMoves(CoordinatorStep))
  /\ \A n \in Nodes : WF_vars(AgentStep(n))
  /\ WF_vars(\E m \in late : LateAck(m))

FairSpec == Spec /\ Fairness

(***************************************************************************)
(* Safety                                                                  *)
(***************************************************************************)

(* A node the server counts as in sync with the current version, or that   *)
(* will be told it is up to date, serves the key of that version: nobody   *)
(* would ever send it again (SyncNode's UP_TO_DATE, AreAllNodesInSync).    *)
(* Exempt is a node that reports a version because the deletion of its     *)
(* files did not get into its state file, whose save failed or was cut.    *)
InSyncServesKey ==
  curVer # 0 /\ keyStatus[curVer] # "NONE" =>
    \A n \in Nodes :
      \/ Assigned(n) /\ applied[n] = curVer /\ syncStatus[n] = "IN_SYNC"
      \/ stVer[n] = curVer /\ n \notin unsaved
      => curVer \in loaded[n]

(* The key a record advertises is one of the two the server still hands    *)
(* out, ACTIVE or PREVIOUS, never an archived one.                         *)
AdvertisedKeyRetained ==
  \A d \in Domains : dns[d] # 0 => keyStatus[dns[d]] \in {"ACTIVE", "PREVIOUS"}

(* A node that serves a key some record advertises goes on serving it,     *)
(* through the deployment of the next key too, as long as the record       *)
(* stands.  The exceptions: deploying a key twice, after a failed reload   *)
(* or a lost state file, leaves the same key in ech_current.pem and        *)
(* ech_previous.pem; and a node may be without its backup, because making  *)
(* it failed or because it has deleted its keys (unbacked).                *)
AdvertisedKeyKept ==
  [][\A n \in Nodes, d \in Domains :
       dns'[d] = dns[d] /\ dns[d] \in loaded[n] \ loaded'[n]
         => n \in unbacked \/ cur[n] = prev[n]]_vars

(* Without the exception: ech_previous.pem still is the key before the     *)
(* current one, as "Backup current to previous" in DeployLocally means it, *)
(* so that a node in sync serves every advertised key.                     *)
AdvertisedKeyAlwaysServed ==
  \A n \in Nodes, d \in Domains :
    syncStatus[n] = "IN_SYNC" /\ dns[d] # 0 => dns[d] \in loaded[n]

(* Private keys are not forgotten on a node: when the entry of the cluster *)
(* leaves the state file, by which alone SyncNode's answer is compared     *)
(* with the disk, the key files are gone.  Exempt is a node whose deletion *)
(* failed, which is only logged, or that lost its state otherwise.         *)
NoKeysForgotten ==
  [][\A n \in Nodes :
       stVer[n] # 0 /\ stVer'[n] = 0 => KeyFiles(n)' = {} \/ n \in orphaned']_vars

(* Between cycles, a domain the coordinator will pass over as synced       *)
(* carries the ACTIVE key (the timestamps of syncClusterDomainsDNS).       *)
SyncedIsCurrent ==
  \A d \in Domains :
    domStatus[d] = "SYNCED" /\ domSynced[d] >= lastRot /\ pc[Coordinator] = "idle"
      => dns[d] = GetActiveECHKey

(* The rollout implements the abstract two phases.                         *)
TwoPhase == INSTANCE TwoPhaseRollout WITH
  current   <- GetActiveECHKey,
  installed <- {n \in Nodes : GetActiveECHKey \in loaded[n]},
  published <- dns

ImplementsTwoPhase == TwoPhase!Spec

(* No record changes to a key that some assigned node does not serve: the  *)
(* test of the coordinator says "Node has NOT synced yet (status OUTDATED) *)
(* -> DNS must NOT shoot".                                                 *)
NoEarlyPublication ==
  [][\A d \in Domains : dns'[d] # dns[d] /\ dns'[d] # 0 =>
       \A n \in Nodes : Assigned(n) => dns'[d] \in loaded[n]]_vars

(***************************************************************************)
(* Liveness                                                                *)
(***************************************************************************)

(* Once a key exists, every domain that is not synced gets synced.         *)
EventuallySynced ==
  \A d \in Domains :
    (domStatus[d] # "SYNCED" /\ GetActiveECHKey # 0) ~> domStatus[d] = "SYNCED"

(* A node that has recorded the current version is UP_TO_DATE and will not *)
(* acknowledge it again, though the server has not counted it.             *)
Unacknowledged(n) ==
  /\ Assigned(n)
  /\ stVer[n] = curVer
  /\ syncStatus[n] # "IN_SYNC" \/ applied[n] # curVer

(* Whatever fails, is cut off or leaves and joins the cluster meanwhile,   *)
(* every domain that is not synced gets synced, unless a node has the      *)
(* current version in its state file and the server does not count it: the *)
(* acknowledgment was lost, came while the node was not assigned, or told  *)
(* of a failed repetition; or a deletion did not get into the state file   *)
(* (EventuallySynced fails then).                                          *)
SyncedUnlessUnacknowledged ==
  \A d \in Domains :
    (domStatus[d] # "SYNCED" /\ GetActiveECHKey # 0)
      ~> (domStatus[d] = "SYNCED" \/ \E n \in Nodes : Unacknowledged(n))
=============================================================================
