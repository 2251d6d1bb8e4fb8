-------------------------- MODULE EchRolloutProofs --------------------------
(***************************************************************************)
(* Theorems about EchRollout, for any nodes, domains, bounds and times.    *)
(*                                                                         *)
(* RolloutInv, the server's invariant and the types, holds without any     *)
(* hypothesis.  The properties of the whole rollout hold only under        *)
(* conditions the code does not enforce; each is named as a hypothesis     *)
(* below and each theorem states the ones it needs.  Seven inductive       *)
(* invariants are built on one another:                                    *)
(*                                                                         *)
(*   OrderInv      keys become ACTIVE in the order of their versions       *)
(*   BeliefInv     labels, acknowledgments and rows tell the truth about   *)
(*                 what the node's proxy serves                            *)
(*   RetentionInv  the records are at most one key behind                  *)
(*   FilesInv      the files of a node are in the order of the versions,   *)
(*   DiskInv         and keep what the node serves and a record advertises *)
(*   MemoryInv     what is left after a deletion, and which versions the   *)
(*                 node has on record                                      *)
(*   MarksInv      SYNCED marks as new as the rotation are of the ACTIVE   *)
(*                 key                                                     *)
(*                                                                         *)
(* With BeliefInv and FilesInv the rollout implements TwoPhaseRollout.     *)
(***************************************************************************)
EXTENDS EchRollout, EchServerProofs

(***************************************************************************)
(* The server's invariant and the types                                    *)
(***************************************************************************)

(* What no node and no fault of a node touches.                            *)
serverCore == <<clusterVars, keyStatus, domainVars, dns, pc, ver, now, syncVars, clock>>

(* A step that is not the server's.                                        *)
NodeSide ==
  \/ \E n \in Nodes : \/ AgentStep(n) \/ AckLost(n) \/ AckDelayed(n)
                     \/ LocalFault(n) \/ PollFault(n)
  \/ \E m \in late : LateAck(m)

(* The server's invariant, and the types of the agents and the messages.   *)
RolloutInv == ServerInv /\ AgentTypeOK /\ late \subseteq Ack

(* Every step is a step of the server on its own or one of a node.         *)
LEMMA StepSides ==
  ASSUME Next
  PROVE  \/ ServerMoves(ServerStep)
         \/ NodeSide
  BY DEF Next, NodeSide

(* A fault is counted, and nothing else of the server changes by it.       *)
LEMMA EventOnly ==
  ASSUME RolloutInv, NEW e, Event(e)
  PROVE  events' \in 0 .. MaxEvents
  BY EventType DEF RolloutInv, ServerInv

(* An acknowledgment writes the row of one node, or nothing.               *)
LEMMA AckWrites ==
  ASSUME RolloutInv, NEW n \in Nodes, NEW v \in 0 .. MaxVersion, NEW ok \in BOOLEAN, RecordAck(n, v, ok)
  PROVE  /\ UNCHANGED serverCore
         /\ applied' \in [Nodes -> 0 .. MaxVersion]
         /\ syncStatus' \in [Nodes -> NodeStates]
<1> USE DEF clusterVars, nodeVars, domainVars, syncVars
<1>1. applied \in [Nodes -> 0 .. MaxVersion] /\ syncStatus \in [Nodes -> NodeStates]
  BY DEF RolloutInv, ServerInv, TypeOK
<1>2. {"IN_SYNC", "FAILED"} \subseteq NodeStates
  BY DEF NodeStates
<1>3. UNCHANGED serverCore
  BY DEF RecordAck, AckNode, serverCore, serverAtRest
<1>4. CASE UNCHANGED nodeVars
  BY <1>1, <1>3, <1>4
<1>5. CASE /\ applied' = [applied EXCEPT ![n] = v]
           /\ syncStatus' = [syncStatus EXCEPT ![n] = IF ok THEN "IN_SYNC" ELSE "FAILED"]
  BY <1>1, <1>2, <1>3, <1>5
<1> QED
  BY <1>4, <1>5 DEF RecordAck, AckNode, serverAtRest

(* What a node's step leaves of the server.                                *)
LEMMA NodeSideFrame ==
  ASSUME RolloutInv, NodeSide
  PROVE  /\ UNCHANGED serverCore
         /\ applied' \in [Nodes -> 0 .. MaxVersion]
         /\ syncStatus' \in [Nodes -> NodeStates]
         /\ events' \in 0 .. MaxEvents
<1> USE DEF serverCore, clusterVars, nodeVars, domainVars, syncVars, envVars
<1> DEFINE Frame == /\ UNCHANGED serverCore
                    /\ applied' \in [Nodes -> 0 .. MaxVersion]
                    /\ syncStatus' \in [Nodes -> NodeStates]
                    /\ events' \in 0 .. MaxEvents
<1>0. /\ applied \in [Nodes -> 0 .. MaxVersion]
      /\ syncStatus \in [Nodes -> NodeStates]
      /\ events \in 0 .. MaxEvents
      /\ label \in [Nodes -> 0 .. MaxVersion]
  BY DEF RolloutInv, ServerInv, TypeOK, AgentTypeOK
<1>1. ASSUME UNCHANGED serverVars PROVE Frame
  BY <1>0, <1>1 DEF serverVars
<1>2. ASSUME NEW n \in Nodes, SyncNode(n) \/ SyncKey(n) \/ SyncRemoved(n) \/ LocalStep(n) PROVE Frame
  <2>1. UNCHANGED serverVars
    BY <1>2 DEF SyncNode, SyncKey, SyncRemoved, LocalStep
  <2> QED
    BY <1>1, <2>1
<1>3. ASSUME NEW n \in Nodes, AckDelivered(n) PROVE Frame
  <2>1. RecordAck(n, label[n], apc[n] = "ack") /\ UNCHANGED events /\ (apc[n] = "ack") \in BOOLEAN
    BY <1>3 DEF AckDelivered
  <2>2. label[n] \in 0 .. MaxVersion
    BY <1>0
  <2> QED
    BY <1>0, <2>1, <2>2, AckWrites
<1>4. ASSUME NEW n \in Nodes, AckLost(n) \/ AckDelayed(n) PROVE Frame
  <2>1. events' \in 0 .. MaxEvents
    BY <1>4, EventOnly DEF AckLost, AckDelayed
  <2> QED
    BY <1>0, <1>4, <2>1 DEF AckLost, AckDelayed, serverAtRest
<1>5. ASSUME NEW n \in Nodes, LocalFault(n) \/ PollFault(n) PROVE Frame
  <2>1. events' \in 0 .. MaxEvents
    BY <1>5, EventOnly DEF LocalFault, PollFault
  <2>2. UNCHANGED serverAtRest
    BY <1>5 DEF LocalFault, PollFault
  <2> QED
    BY <1>0, <2>1, <2>2 DEF serverAtRest
<1>6. ASSUME NEW m \in late, LateAck(m) PROVE Frame
  <2>1. m.node \in Nodes /\ m.version \in 0 .. MaxVersion /\ m.ok \in BOOLEAN
    BY DEF RolloutInv, Ack
  <2>2. RecordAck(m.node, m.version, m.ok) /\ UNCHANGED events
    BY <1>6 DEF LateAck
  <2> QED
    BY <1>0, <2>1, <2>2, AckWrites
<1> QED
  BY <1>2, <1>3, <1>4, <1>5, <1>6 DEF NodeSide, AgentStep

(* The server's invariant survives the nodes: all that they do to it is to *)
(* write their rows.                                                       *)
LEMMA ServerInvStep ==
  ASSUME RolloutInv, [Next]_vars
  PROVE  ServerInv'
<1> USE DEF clusterVars, nodeVars, domainVars, syncVars, envVars
<1>1. ASSUME ServerMoves(ServerStep) PROVE ServerInv'
  <2>1. [ServerNext]_serverVars
    BY <1>1 DEF ServerMoves, ServerNext
  <2> QED
    BY <2>1, TypeOKStep, KeysInvStep, PublishedStep DEF RolloutInv, ServerInv, KeysInv
<1>2. ASSUME UNCHANGED serverCore,
             applied' \in [Nodes -> 0 .. MaxVersion],
             syncStatus' \in [Nodes -> NodeStates],
             events' \in 0 .. MaxEvents
      PROVE  ServerInv'
  <2>1. TypeOK'
    BY <1>2 DEF RolloutInv, ServerInv, TypeOK, serverCore
  <2>2. KeysInv'
    BY <1>2, KeysAtRest DEF RolloutInv, ServerInv, serverCore
  <2>3. PublishedKeyStored'
    BY <1>2 DEF RolloutInv, ServerInv, PublishedKeyStored, serverCore
  <2> QED
    BY <2>1, <2>2, <2>3 DEF ServerInv
<1>3. ASSUME NodeSide PROVE ServerInv'
  BY <1>2, <1>3, NodeSideFrame
<1>4. ASSUME UNCHANGED vars PROVE ServerInv'
  <2>1. UNCHANGED <<serverCore, applied, syncStatus, events>>
    BY <1>4 DEF vars, serverCore
  <2> QED
    BY <1>2, <2>1 DEF RolloutInv, ServerInv, TypeOK
<1> QED
  BY <1>1, <1>3, <1>4, StepSides

(* The agents' steps keep their types.                                     *)
LEMMA AgentTypeStep ==
  ASSUME RolloutInv, [Next]_vars
  PROVE  AgentTypeOK' /\ late' \subseteq Ack
<1> USE DEF agentVars, fileVars, histories
<1>0. /\ stVer \in [Nodes -> 0 .. MaxVersion]
      /\ cur \in [Nodes -> 0 .. MaxVersion]
      /\ prev \in [Nodes -> 0 .. MaxVersion]
      /\ loaded \in [Nodes -> SUBSET Versions]
      /\ apc \in [Nodes -> AgentSteps]
      /\ label \in [Nodes -> 0 .. MaxVersion]
      /\ item \in [Nodes -> 0 .. MaxVersion]
      /\ unsaved \subseteq Nodes /\ unbacked \subseteq Nodes /\ orphaned \subseteq Nodes
      /\ late \subseteq Ack
  BY DEF RolloutInv, AgentTypeOK
<1>a. /\ 0 \in 0 .. MaxVersion
      /\ curVer \in 0 .. MaxVersion
      /\ GetActiveECHKey \in 0 .. MaxVersion
      /\ \A n \in Nodes : Included(n) \in SUBSET Versions
  <2>1. \A n \in Nodes : Included(n) \in SUBSET Versions
    BY <1>0, VersionAssumption DEF Included, KeyFiles, Versions
  <2> QED
    BY <2>1, Zeroes, ActiveKeyType DEF RolloutInv, ServerInv, KeysInv, TypeOK
<1>b. {"idle", "listed", "install", "reload", "ack", "ackFailed", "save",
       "removed", "reloadRemoved"} \subseteq AgentSteps
  BY DEF AgentSteps
<1> USE DEF AgentGoto, AgentIdle
<1>1. ASSUME NEW n \in Nodes, SyncNode(n) PROVE AgentTypeOK' /\ late' \subseteq Ack
  BY <1>0, <1>a, <1>b, <1>1 DEF SyncNode, Asks, Requested, AgentTypeOK
<1>2. ASSUME NEW n \in Nodes, SyncKey(n) PROVE AgentTypeOK' /\ late' \subseteq Ack
  BY <1>0, <1>a, <1>b, <1>2 DEF SyncKey, Received, AgentTypeOK
<1>3. ASSUME NEW n \in Nodes, SyncRemoved(n) PROVE AgentTypeOK' /\ late' \subseteq Ack
  BY <1>0, <1>a, <1>b, <1>3 DEF SyncRemoved, Remove, Removing, AgentTypeOK
<1>4. ASSUME NEW n \in Nodes, AckSent(n) PROVE AgentTypeOK'
  BY <1>0, <1>a, <1>b, <1>4 DEF AckSent, AgentTypeOK
<1>5. ASSUME NEW n \in Nodes, AckDelivered(n) \/ AckLost(n) PROVE AgentTypeOK' /\ late' \subseteq Ack
  BY <1>0, <1>4, <1>5 DEF AckDelivered, AckLost
<1>6. ASSUME NEW n \in Nodes, AckDelayed(n) PROVE AgentTypeOK' /\ late' \subseteq Ack
  <2>1. [node |-> n, version |-> label[n], ok |-> apc[n] = "ack"] \in Ack
    BY <1>0 DEF Ack
  <2> QED
    BY <1>0, <1>4, <1>6, <2>1 DEF AckDelayed
<1>7. ASSUME NEW n \in Nodes, LocalStep(n) PROVE AgentTypeOK' /\ late' \subseteq Ack
  <2>1. CASE Install(n)
    BY <1>0, <1>a, <1>b, <1>7, <2>1 DEF LocalStep, Install, AgentTypeOK
  <2>2. CASE Reload(n)
    BY <1>0, <1>a, <1>b, <1>7, <2>2 DEF LocalStep, Reload, AgentTypeOK
  <2>3. CASE SaveState(n)
    BY <1>0, <1>a, <1>b, <1>7, <2>3 DEF LocalStep, SaveState, AgentTypeOK
  <2>4. CASE SaveRemoved(n)
    BY <1>0, <1>a, <1>b, <1>7, <2>4 DEF LocalStep, SaveRemoved, AgentTypeOK
  <2>5. CASE ReloadRemoved(n)
    BY <1>0, <1>a, <1>b, <1>7, <2>5 DEF LocalStep, ReloadRemoved, AgentTypeOK
  <2> QED
    BY <1>7, <2>1, <2>2, <2>3, <2>4, <2>5 DEF LocalStep
<1>8. ASSUME NEW n \in Nodes, LocalFault(n) PROVE AgentTypeOK' /\ late' \subseteq Ack
  <2>1. late' = late
    BY <1>8 DEF LocalFault
  <2>2. Interrupted(n) => prev' \in [Nodes -> 0 .. MaxVersion] /\ unbacked' \subseteq Nodes
    BY <1>0, <1>a DEF Interrupted
  <2>3. Unwritten(n) => stVer' \in [Nodes -> 0 .. MaxVersion] /\ orphaned' \subseteq Nodes
    BY <1>0, <1>a DEF Unwritten
  <2>4. CASE ReloadFails(n) \/ ReloadRemovedFails(n)
    BY <1>0, <1>a, <1>b, <2>1, <2>4 DEF ReloadFails, ReloadRemovedFails, AgentTypeOK
  <2>5. CASE AgentCrash(n)
    BY <1>0, <1>a, <1>b, <2>1, <2>2, <2>3, <2>5 DEF AgentCrash, AgentTypeOK
  <2>6. CASE InstallUnbacked(n)
    BY <1>0, <1>a, <1>b, <2>1, <2>6 DEF InstallUnbacked, AgentTypeOK
  <2>7. CASE InstallFails(n)
    BY <1>0, <1>a, <1>b, <2>1, <2>2, <2>7 DEF InstallFails, AgentTypeOK
  <2>8. CASE SaveFails(n) \/ SaveRemovedFails(n)
    BY <1>0, <1>a, <1>b, <2>1, <2>3, <2>8 DEF SaveFails, SaveRemovedFails, AgentTypeOK
  <2>9. CASE StateLost(n)
    BY <1>0, <1>a, <1>b, <2>1, <2>9 DEF StateLost, AgentTypeOK
  <2> QED
    BY <1>0, <1>8, <2>1, <2>4, <2>5, <2>6, <2>7, <2>8, <2>9 DEF LocalFault, FileFault
<1>9. ASSUME NEW n \in Nodes, PollFault(n) PROVE AgentTypeOK' /\ late' \subseteq Ack
  <2>1. late' = late
    BY <1>9 DEF PollFault
  <2>2. CASE Asks(n, 0)
    BY <1>0, <1>a, <1>b, <2>1, <2>2 DEF Asks, Requested, AgentTypeOK
  <2>3. CASE RemoveFails(n)
    BY <1>0, <1>a, <1>b, <2>1, <2>3 DEF RemoveFails, Removing, AgentTypeOK
  <2> QED
    BY <1>9, <2>2, <2>3 DEF PollFault
<1>10. ASSUME NEW m \in late, LateAck(m) PROVE AgentTypeOK' /\ late' \subseteq Ack
  BY <1>0, <1>10 DEF LateAck, AgentTypeOK
<1>11. ASSUME ServerMoves(ServerStep) \/ UNCHANGED vars PROVE AgentTypeOK' /\ late' \subseteq Ack
  BY <1>0, <1>11 DEF ServerMoves, vars, AgentTypeOK
<1> QED
  BY <1>1, <1>2, <1>3, <1>5, <1>6, <1>7, <1>8, <1>9, <1>10, <1>11, StepSides DEF NodeSide, AgentStep

(* The inductive invariant under every theorem below: the server's own,    *)
(* which holds whatever the nodes and the messages between them do, and    *)
(* the types. It needs no hypothesis.                                      *)
THEOREM RolloutInvariant == Spec => []RolloutInv
<1>1. Init => RolloutInv
  <2>1. Init => ServerInv
    BY InitTypeOK, InitKeysInv DEF Init, ServerInv
  <2>2. Init => AgentTypeOK
    BY Zeroes DEF Init, AgentInit, AgentTypeOK, AgentSteps
  <2> QED
    BY <2>1, <2>2 DEF Init, RolloutInv
<1>2. RolloutInv /\ [Next]_vars => RolloutInv'
  BY ServerInvStep, AgentTypeStep DEF RolloutInv
<1> QED
  BY <1>1, <1>2, PTL DEF Spec

(* RolloutTypeOK: the tables, the goroutines' locals, the agents' files    *)
(* and the late acknowledgments keep their types, for any nodes, admins,   *)
(* faults and bounds.                                                      *)
THEOREM RolloutTypeCorrect == Spec => []RolloutTypeOK
<1>1. RolloutInv => RolloutTypeOK
  BY DEF RolloutInv, ServerInv, RolloutTypeOK
<1> QED
  BY <1>1, RolloutInvariant, PTL

(***************************************************************************)
(* One rotation at a time                                                  *)
(***************************************************************************)

(* The hypotheses of the theorems below; each says which one it needs.     *)
OneRotator  == Admins = {}                (* only the coordinator rotates  *)
PollsWait   == ~PollDuringRotation        (* no poll inside a rotation     *)
MembersStay == "assign" \notin EnvEvents  (* the cluster keeps its nodes   *)
AcksOnTime  == "ackLate" \notin EnvEvents (* no acknowledgment comes late  *)

(* The newest key stored is the ACTIVE one and the one before it is the    *)
(* PREVIOUS one.                                                           *)
NewestActive ==
  /\ \A v \in Versions : keyStatus[v] # "NONE" => v <= GetActiveECHKey
  /\ \A v, w \in Versions :
       keyStatus[v] = "PREVIOUS" /\ keyStatus[w] # "NONE" /\ v < w => keyStatus[w] = "ACTIVE"

(* The coordinator's copies of the version and of the key are current.     *)
CopiesCurrent ==
  /\ pc[Coordinator] \notin {"idle", "increment"} => ver[Coordinator] = curVer
  /\ pc[Coordinator] = "publish" => key = GetActiveECHKey /\ key # 0

OrderInv == NewestActive /\ CopiesCurrent

(* A step that gives out no version, stores no key, writes no node's row   *)
(* and starts no rotation.                                                 *)
Quiet ==
  /\ UNCHANGED <<curVer, keyStatus, applied, syncStatus>>
  /\ pc'[Coordinator] \in Unsaved => pc[Coordinator] \in Unsaved

(* The ACTIVE key is the one GetActiveECHKey finds.                        *)
LEMMA ActiveIs ==
  ASSUME RolloutInv, NEW v \in Versions, keyStatus[v] = "ACTIVE"
  PROVE  GetActiveECHKey = v
<1>1. OneActiveKey
  BY DEF RolloutInv, ServerInv, KeysInv
<1>2. v \in Int /\ v \in ActiveKeys /\ \A w \in ActiveKeys : w = v
  BY <1>1, VersionAssumption DEF ActiveKeys, OneActiveKey, Versions
<1>3. \A w \in ActiveKeys : w <= v
  BY <1>2
<1>4. GetActiveECHKey \in ActiveKeys
  BY <1>2, <1>3 DEF GetActiveECHKey
<1> QED
  BY <1>2, <1>4

(* It is 0 or a stored version.                                            *)
LEMMA ActiveType ==
  ASSUME RolloutInv
  PROVE  /\ GetActiveECHKey \in 0 .. MaxVersion
         /\ GetActiveECHKey # 0 => GetActiveECHKey \in Versions /\ keyStatus[GetActiveECHKey] = "ACTIVE"
  BY ActiveKeyType DEF RolloutInv, ServerInv, KeysInv

(* It changes only with the table.                                         *)
LEMMA ActiveKept ==
  ASSUME keyStatus' = keyStatus
  PROVE  GetActiveECHKey' = GetActiveECHKey
  BY DEF GetActiveECHKey, ActiveKeys

(* SaveNewECHKey makes the key it stores the one found from then on.       *)
LEMMA ActiveSaved ==
  ASSUME RolloutInv, NEW r \in Rotators, SaveNewECHKey(r)
  PROVE  /\ ver[r] \in Versions
         /\ keyStatus[ver[r]] = "NONE"
         /\ keyStatus' = Saved(ver[r])
         /\ GetActiveECHKey' = ver[r]
<1>1. ver[r] \in Versions /\ keyStatus[ver[r]] = "NONE" /\ keyStatus' = Saved(ver[r])
  BY VersionInHand DEF SaveNewECHKey, RolloutInv, ServerInv, KeysInv
<1>2. ver[r] \in Int /\ \A w \in Versions : keyStatus'[w] = "ACTIVE" <=> w = ver[r]
  BY <1>1, SavedTable, VersionAssumption DEF RolloutInv, ServerInv, Versions
<1>3. ActiveKeys' = {ver[r]}
  BY <1>1, <1>2 DEF ActiveKeys
<1>4. GetActiveECHKey' \in ActiveKeys'
  BY <1>2, <1>3 DEF GetActiveECHKey
<1> QED
  BY <1>1, <1>3, <1>4

(* With one rotator, what a step of the server can be.                     *)
LEMMA ServerKinds ==
  ASSUME OneRotator, RolloutInv, ServerStep
  PROVE  \/ Increment(Coordinator)
         \/ SaveNewECHKey(Coordinator)
         \/ FlagOutdated(Coordinator)
         \/ \E n \in Nodes : AssignNode(n) \/ UnassignNode(n)
         \/ Quiet
<1> USE DEF clusterVars, nodeVars, domainVars, syncVars, envVars, Goto, Unsaved, Quiet
<1>0. /\ pc \in [Rotators -> CoordSteps] /\ Coordinator \in Rotators
      /\ \A r \in Rotators : r = Coordinator
  BY DEF RolloutInv, ServerInv, TypeOK, Rotators, OneRotator
<1>1. ASSUME ResetDomains(Coordinator) \/ RotationFails(Coordinator) \/ StatementLost(Coordinator)
      PROVE  Quiet
  BY <1>0, <1>1 DEF ResetDomains, RotationFails, StatementLost
<1>2. ASSUME MarkPending(Coordinator) \/ MarkPendingLost(Coordinator) PROVE Quiet
  BY <1>0, <1>2 DEF MarkPending, MarkPendingLost, Rotated
<1>3. ASSUME ReconcileRotate \/ ReconcileCheck PROVE Quiet
  BY <1>0, <1>3 DEF ReconcileRotate, ReconcileCheck
<1>4. ASSUME CheckNodes \/ ListDomains \/ GetKey \/ ReadFails PROVE Quiet
  BY <1>0, <1>4 DEF CheckNodes, ListDomains, GetKey, ReadFails, CycleEnds
<1>5. ASSUME NEW d \in Domains, UpdateHTTPSRecord(d) \/ UpdateFails(d) \/ PassOver(d) PROVE Quiet
  BY <1>0, <1>5 DEF UpdateHTTPSRecord, UpdateFails, PassOver, NextDomain, CycleEnds
<1>6. ASSUME NEW d \in Domains, NEW s \in {"SYNCED", "FAILED"}, Mark(d, s) PROVE Quiet
  BY <1>0, <1>6 DEF Mark, NextDomain, CycleEnds
<1>7. ASSUME ServerCrash \/ RotationDue \/ Tick PROVE Quiet
  BY <1>0, <1>7 DEF ServerCrash, RotationDue, Tick
<1>8. ~ \E a \in Admins : TriggerClusterRotation(a)
  BY DEF OneRotator
<1> QED
  BY <1>0, <1>1, <1>2, <1>3, <1>4, <1>5, <1>6, <1>7, <1>8 DEF ServerStep, Rotate, Publish

(* The newest key goes on being the ACTIVE one: a rotation stores its key  *)
(* before the next one takes a version.                                    *)
LEMMA NewestActiveStep ==
  ASSUME OneRotator, RolloutInv, OrderInv, [Next]_vars
  PROVE  NewestActive'
<1>1. ASSUME keyStatus' = keyStatus PROVE NewestActive'
  BY <1>1, ActiveKept DEF OrderInv, NewestActive
<1>2. ASSUME SaveNewECHKey(Coordinator) PROVE NewestActive'
  <2>1. Coordinator \in Rotators /\ pc[Coordinator] = "save"
    BY <1>2 DEF Rotators, SaveNewECHKey
  <2> DEFINE v == ver[Coordinator]
  <2>2. v \in Versions /\ keyStatus[v] = "NONE" /\ keyStatus' = Saved(v) /\ GetActiveECHKey' = v
    BY <1>2, <2>1, ActiveSaved
  <2>3. v = curVer
    BY <2>1 DEF OrderInv, CopiesCurrent
  <2>4. Versions \subseteq Int
    BY VersionAssumption DEF Versions
  <2>5. \A w \in Versions : keyStatus'[w] # "NONE" => w <= v
    <3>1. \A w \in Versions : keyStatus[w] # "NONE" => w <= v
      BY <2>3 DEF RolloutInv, ServerInv, KeysInv, KeysGivenOut
    <3>2. \A w \in Versions : w # v /\ keyStatus'[w] # "NONE" => keyStatus[w] # "NONE"
      BY <2>2, SavedTable DEF RolloutInv, ServerInv
    <3> QED
      BY <2>2, <2>4, <3>1, <3>2
  <2>6. ASSUME NEW u \in Versions, NEW w \in Versions,
               keyStatus'[u] = "PREVIOUS", keyStatus'[w] # "NONE", u < w
        PROVE  keyStatus'[w] = "ACTIVE"
    <3>1. keyStatus[u] = "ACTIVE" /\ keyStatus'[v] = "ACTIVE"
      BY <2>2, <2>6, SavedTable DEF RolloutInv, ServerInv
    <3>2. w # v => keyStatus[w] # "NONE"
      BY <2>2, <2>6, SavedTable DEF RolloutInv, ServerInv
    <3>3. GetActiveECHKey = u
      BY <3>1, ActiveIs
    <3>4. w # v => w <= u
      BY <3>2, <3>3 DEF OrderInv, NewestActive
    <3> QED
      BY <2>4, <2>6, <3>1, <3>4
  <2> QED
    BY <2>2, <2>5, <2>6 DEF NewestActive
<1>3. ASSUME ServerStep PROVE SaveNewECHKey(Coordinator) \/ keyStatus' = keyStatus
  BY <1>3, ServerKinds DEF Increment, FlagOutdated, AssignNode, UnassignNode, Quiet
<1>4. ASSUME NodeSide PROVE keyStatus' = keyStatus
  BY <1>4, NodeSideFrame DEF serverCore
<1>5. ASSUME UNCHANGED vars PROVE keyStatus' = keyStatus
  BY <1>5 DEF vars
<1> QED
  BY <1>1, <1>2, <1>3, <1>4, <1>5, StepSides DEF ServerMoves

(* With one rotator the copies of the coordinator stay current: it alone   *)
(* takes versions and stores keys, and only before it reads them.          *)
LEMMA CopiesCurrentStep ==
  ASSUME OneRotator, RolloutInv, OrderInv, [Next]_vars
  PROVE  CopiesCurrent'
<1> USE DEF clusterVars, nodeVars, domainVars, syncVars, envVars, Goto, OrderInv, CopiesCurrent
<1> DEFINE Rest == /\ UNCHANGED <<curVer, keyStatus>>
                   /\ \/ UNCHANGED <<ver, key>> /\ pc'[Coordinator] # "publish" /\ pc[Coordinator] # "idle"
                                                /\ pc[Coordinator] # "increment"
                      \/ UNCHANGED <<ver, key, pc>>
                      \/ pc'[Coordinator] \in {"idle", "increment"}
<1>0. /\ pc \in [Rotators -> CoordSteps] /\ ver \in [Rotators -> 0 .. MaxVersion]
      /\ Coordinator \in Rotators
      /\ \A r \in Rotators : r = Coordinator
  BY DEF RolloutInv, ServerInv, TypeOK, Rotators, OneRotator
<1>1. Rest => CopiesCurrent'
  BY <1>0, ActiveKept
<1>2. ASSUME Increment(Coordinator) PROVE CopiesCurrent'
  BY <1>0, <1>2 DEF Increment
<1>3. ASSUME SaveNewECHKey(Coordinator) PROVE CopiesCurrent'
  BY <1>0, <1>3 DEF SaveNewECHKey
<1>4. ASSUME FlagOutdated(Coordinator) \/ ResetDomains(Coordinator) \/ StatementLost(Coordinator) \/ RotationFails(Coordinator)
      PROVE  Rest
  BY <1>0, <1>4 DEF FlagOutdated, ResetDomains, StatementLost, RotationFails
<1>5. ASSUME MarkPending(Coordinator) \/ MarkPendingLost(Coordinator) PROVE Rest
  BY <1>0, <1>5 DEF MarkPending, MarkPendingLost, Rotated
<1>6. ASSUME ReconcileRotate PROVE Rest
  BY <1>0, <1>6 DEF ReconcileRotate
<1>7. ASSUME ReconcileCheck PROVE CopiesCurrent'
  BY <1>0, <1>7 DEF ReconcileCheck
<1>8. ASSUME CheckNodes \/ ListDomains \/ ReadFails PROVE Rest
  BY <1>0, <1>8 DEF CheckNodes, ListDomains, ReadFails, CycleEnds
<1>9. ASSUME GetKey PROVE CopiesCurrent'
  <2>1. CASE CycleEnds
    BY <1>0, <1>1, <1>9, <2>1 DEF GetKey, CycleEnds
  <2>2. CASE GetActiveECHKey # 0 /\ key' = GetActiveECHKey /\ UNCHANGED ver
    BY <1>0, <1>9, <2>2, ActiveKept DEF GetKey
  <2> QED
    BY <1>9, <2>1, <2>2 DEF GetKey
<1>10. ASSUME NEW d \in Domains, UpdateHTTPSRecord(d) \/ UpdateFails(d) \/ PassOver(d) PROVE Rest
  BY <1>0, <1>10 DEF UpdateHTTPSRecord, UpdateFails, PassOver, NextDomain, CycleEnds
<1>11. ASSUME NEW d \in Domains, NEW s \in {"SYNCED", "FAILED"}, Mark(d, s) PROVE Rest
  BY <1>0, <1>11 DEF Mark, NextDomain, CycleEnds
<1>12. ASSUME \/ \E n \in Nodes : AssignNode(n) \/ UnassignNode(n)
              \/ RotationDue \/ Tick
       PROVE  Rest
  BY <1>12 DEF AssignNode, UnassignNode, RotationDue, Tick
<1>13. ASSUME ServerCrash PROVE Rest
  BY <1>0, <1>13 DEF ServerCrash
<1>14. ASSUME NodeSide PROVE Rest
  BY <1>14, NodeSideFrame DEF serverCore
<1>15. ASSUME UNCHANGED vars PROVE Rest
  BY <1>15 DEF vars
<1>16. ~ \E a \in Admins : TriggerClusterRotation(a)
  BY DEF OneRotator
<1> QED
  BY <1>0, <1>1, <1>2, <1>3, <1>4, <1>5, <1>6, <1>7, <1>8, <1>9, <1>10, <1>11, <1>12, <1>13,
     <1>14, <1>15, <1>16, StepSides DEF ServerMoves, ServerStep, Rotate, Publish

(* With one rotator keys become ACTIVE in the order of their versions.     *)
LEMMA OrderInvariant ==
  ASSUME OneRotator
  PROVE  Spec => [](RolloutInv /\ OrderInv)
<1>1. Init => OrderInv
  BY DEF Init, ServerInit, OrderInv, NewestActive, CopiesCurrent, Rotators
<1>2. RolloutInv /\ OrderInv /\ [Next]_vars => OrderInv'
  BY NewestActiveStep, CopiesCurrentStep DEF OrderInv
<1> QED
  BY <1>1, <1>2, RolloutInvariant, PTL DEF Spec

(***************************************************************************)
(* What the server believes of a node                                      *)
(***************************************************************************)

Deploying == {"listed", "install", "reload", "ack", "ackFailed", "save"}
Deleting  == {"removed", "reloadRemoved"}

(* The newest version a node can have been told of: the current one, or    *)
(* the one before while the key of the current one is not stored.          *)
Frontier == IF pc[Coordinator] \in Unsaved THEN curVer - 1 ELSE curVer

(* The versions the server, the node and the messages hold for node n.     *)
VersionsTold(n) ==
  /\ applied[n] <= Frontier
  /\ stVer[n] <= Frontier
  /\ label[n] <= Frontier
  /\ \A m \in late : m.node = n => m.version <= Frontier

(* A node that deploys a version has acknowledged nothing newer.           *)
DeploysNewest(n) ==
  apc[n] \in Deploying =>
    /\ applied[n] <= label[n]
    /\ stVer[n] <= label[n]
    /\ \A m \in late : m.node = n => m.version <= label[n]

(* A deployment under the label of the current version is one of the       *)
(* ACTIVE key: no key is stored between the label and the content.         *)
LabelTrue(n) ==
  /\ apc[n] = "listed" => label[n] = curVer /\ pc[Coordinator] \notin Unsaved
  /\ label[n] = curVer =>
       /\ apc[n] = "install" => item[n] = GetActiveECHKey /\ item[n] # 0
       /\ apc[n] = "reload" => cur[n] = GetActiveECHKey /\ cur[n] # 0
       /\ apc[n] \in {"ack", "save"} => GetActiveECHKey \in loaded[n]

(* Who is said to have the current version serves the ACTIVE key; so does  *)
(* the node an acknowledgment on its way speaks of.                        *)
ClaimsTrue(n) ==
  /\ syncStatus[n] = "IN_SYNC" /\ applied[n] = curVer => GetActiveECHKey \in loaded[n]
  /\ stVer[n] = curVer /\ curVer # 0 /\ n \notin unsaved => GetActiveECHKey \in loaded[n]
  /\ \A m \in late : m.node = n /\ m.ok /\ m.version = curVer => GetActiveECHKey \in loaded[n]

(* While a node deletes its keys nothing says that it serves them.         *)
RemovalKnown(n) ==
  /\ apc[n] \in Deleting => syncStatus[n] # "IN_SYNC"
  /\ apc[n] = "removed" => n \in unsaved
  /\ apc[n] = "reloadRemoved" => stVer[n] = 0 \/ n \in unsaved
  /\ MembersStay => Assigned(n) /\ apc[n] \notin Deleting
  /\ AcksOnTime => \A m \in late : m.node # n

NodeBelieved(n) ==
  VersionsTold(n) /\ DeploysNewest(n) /\ LabelTrue(n) /\ ClaimsTrue(n) /\ RemovalKnown(n)

BeliefInv == \A n \in Nodes : NodeBelieved(n)

(* The types these proofs need.                                            *)
LEMMA NodeTypes ==
  ASSUME RolloutInv
  PROVE  /\ curVer \in Nat
         /\ GetActiveECHKey \in Nat
         /\ pc \in [Rotators -> CoordSteps]
         /\ Coordinator \in Rotators
         /\ applied \in [Nodes -> Nat] /\ syncStatus \in [Nodes -> NodeStates]
         /\ stVer \in [Nodes -> Nat] /\ cur \in [Nodes -> Nat] /\ prev \in [Nodes -> Nat]
         /\ loaded \in [Nodes -> SUBSET Versions]
         /\ apc \in [Nodes -> AgentSteps]
         /\ label \in [Nodes -> Nat] /\ item \in [Nodes -> Nat]
         /\ late \subseteq Ack
         /\ \A m \in late : m.node \in Nodes /\ m.version \in Nat /\ m.ok \in BOOLEAN
<1>1. 0 .. MaxVersion \subseteq Nat
  BY VersionAssumption
<1>2. GetActiveECHKey \in Nat
  BY <1>1, ActiveType
<1>3. late \subseteq Ack /\ \A m \in late : m.node \in Nodes /\ m.version \in Nat /\ m.ok \in BOOLEAN
  BY <1>1 DEF RolloutInv, Ack
<1> QED
  BY <1>1, <1>2, <1>3 DEF RolloutInv, ServerInv, TypeOK, AgentTypeOK, Rotators

(* A node that a step does not concern is believed what it was.            *)
LEMMA NodeAtRest ==
  ASSUME RolloutInv, NEW x \in Nodes, NodeBelieved(x),
         UNCHANGED <<curVer, keyStatus, pc>>,
         applied'[x] = applied[x], syncStatus'[x] = syncStatus[x],
         stVer'[x] = stVer[x], cur'[x] = cur[x], loaded'[x] = loaded[x],
         apc'[x] = apc[x], label'[x] = label[x], item'[x] = item[x],
         x \in unsaved' <=> x \in unsaved,
         \A m \in late' : m.node = x => m \in late
  PROVE  NodeBelieved(x)'
<1>1. GetActiveECHKey' = GetActiveECHKey
  BY ActiveKept
<1> QED
  BY <1>1 DEF NodeBelieved, VersionsTold, DeploysNewest, LabelTrue, ClaimsTrue, RemovalKnown, Frontier, Assigned

(* A quiet step of the server: at most a rotation ends.                    *)
LEMMA BeliefQuiet ==
  ASSUME RolloutInv, BeliefInv, Quiet, UNCHANGED <<agentVars, late>>
  PROVE  BeliefInv'
<1>1. GetActiveECHKey' = GetActiveECHKey
  BY ActiveKept DEF Quiet
<1> SUFFICES ASSUME NEW n \in Nodes PROVE NodeBelieved(n)'
  BY DEF BeliefInv
<1>2. NodeBelieved(n)
  BY DEF BeliefInv
<1>3. Frontier <= Frontier' /\ Frontier \in Int /\ Frontier' \in Int
  BY NodeTypes DEF Frontier, Quiet
<1>4. UNCHANGED <<curVer, applied, syncStatus, stVer, cur, loaded, apc, label, item, unsaved, late>>
  BY DEF Quiet, agentVars, fileVars, histories
<1>5. VersionsTold(n)'
  BY <1>2, <1>3, <1>4, NodeTypes DEF NodeBelieved, VersionsTold
<1>6. DeploysNewest(n)' /\ RemovalKnown(n)'
  BY <1>2, <1>4 DEF NodeBelieved, DeploysNewest, RemovalKnown, Assigned
<1>7. LabelTrue(n)' /\ ClaimsTrue(n)'
  BY <1>1, <1>2, <1>4 DEF NodeBelieved, LabelTrue, ClaimsTrue, Quiet
<1> QED
  BY <1>5, <1>6, <1>7 DEF NodeBelieved

(* A new version: nobody has been told of it, and no poll is being         *)
(* answered.                                                               *)
LEMMA BeliefIncrement ==
  ASSUME PollsWait, RolloutInv, BeliefInv, ServerMoves(Increment(Coordinator))
  PROVE  BeliefInv'
<1> USE DEF clusterVars, nodeVars
<1>1. /\ curVer' = curVer + 1
      /\ pc[Coordinator] = "increment" /\ pc'[Coordinator] = "flag"
      /\ UNCHANGED <<keyStatus, applied, syncStatus, stVer, cur, loaded, apc, label, item, unsaved, late>>
  BY NodeTypes DEF ServerMoves, Increment, Goto, agentVars, fileVars, histories
<1>2. \A n \in Nodes : apc[n] # "listed"
  BY <1>1, NodeTypes DEF ServerMoves, PollsWait
<1>3. Frontier = curVer /\ Frontier' = curVer /\ curVer \in Nat
  BY <1>1, NodeTypes DEF Frontier, Unsaved
<1> SUFFICES ASSUME NEW n \in Nodes PROVE NodeBelieved(n)'
  BY DEF BeliefInv
<1>4. NodeBelieved(n)
  BY DEF BeliefInv
<1>5. VersionsTold(n)'
  BY <1>1, <1>3, <1>4 DEF NodeBelieved, VersionsTold
<1>6. DeploysNewest(n)' /\ RemovalKnown(n)'
  BY <1>1, <1>4 DEF NodeBelieved, DeploysNewest, RemovalKnown, Assigned
<1>7. /\ applied[n] # curVer' /\ stVer[n] # curVer' /\ label[n] # curVer'
      /\ \A m \in late : m.node = n => m.version # curVer'
  BY <1>1, <1>3, <1>4, NodeTypes DEF NodeBelieved, VersionsTold
<1>8. LabelTrue(n)' /\ ClaimsTrue(n)'
  BY <1>1, <1>2, <1>7 DEF LabelTrue, ClaimsTrue
<1> QED
  BY <1>5, <1>6, <1>8 DEF NodeBelieved

(* A new key: still nobody has been told of its version.                   *)
LEMMA BeliefSave ==
  ASSUME RolloutInv, BeliefInv, SaveNewECHKey(Coordinator), UNCHANGED <<agentVars, late>>
  PROVE  BeliefInv'
<1> USE DEF clusterVars, nodeVars
<1>1. /\ pc[Coordinator] = "save" /\ pc'[Coordinator] = "pending"
      /\ UNCHANGED <<curVer, applied, syncStatus, stVer, cur, loaded, apc, label, item, unsaved, late>>
  BY NodeTypes DEF SaveNewECHKey, Goto, agentVars, fileVars, histories
<1>2. Frontier = curVer - 1 /\ Frontier' = curVer /\ curVer \in Nat
  BY <1>1, NodeTypes DEF Frontier, Unsaved
<1> SUFFICES ASSUME NEW n \in Nodes PROVE NodeBelieved(n)'
  BY DEF BeliefInv
<1>3. NodeBelieved(n)
  BY DEF BeliefInv
<1>4. VersionsTold(n)'
  BY <1>1, <1>2, <1>3, NodeTypes DEF NodeBelieved, VersionsTold
<1>5. DeploysNewest(n)' /\ RemovalKnown(n)'
  BY <1>1, <1>3 DEF NodeBelieved, DeploysNewest, RemovalKnown, Assigned
<1>6. /\ applied[n] # curVer /\ stVer[n] # curVer /\ label[n] # curVer
      /\ \A m \in late : m.node = n => m.version # curVer
  BY <1>2, <1>3, NodeTypes DEF NodeBelieved, VersionsTold
<1>7. apc[n] # "listed"
  BY <1>1, <1>3 DEF NodeBelieved, LabelTrue, Unsaved
<1>8. LabelTrue(n)' /\ ClaimsTrue(n)'
  BY <1>1, <1>6, <1>7 DEF LabelTrue, ClaimsTrue
<1> QED
  BY <1>4, <1>5, <1>8 DEF NodeBelieved

(* Rows become OUTDATED, come and go: nothing new is claimed of a node.    *)
LEMMA BeliefRows ==
  ASSUME RolloutInv, BeliefInv, UNCHANGED <<agentVars, late>>,
         \/ FlagOutdated(Coordinator)
         \/ \E n \in Nodes : AssignNode(n) \/ UnassignNode(n)
  PROVE  BeliefInv'
<1> USE DEF clusterVars, nodeVars
<1>1. /\ UNCHANGED <<curVer, keyStatus, stVer, cur, loaded, apc, label, item, unsaved, late>>
      /\ pc[Coordinator] \in Unsaved <=> pc'[Coordinator] \in Unsaved
  BY NodeTypes DEF FlagOutdated, AssignNode, UnassignNode, Goto, Unsaved, agentVars, fileVars, histories
<1>2. GetActiveECHKey' = GetActiveECHKey
  BY <1>1, ActiveKept
<1>3. Frontier' = Frontier /\ Frontier \in Int
  BY <1>1, NodeTypes DEF Frontier
<1> SUFFICES ASSUME NEW n \in Nodes PROVE NodeBelieved(n)'
  BY DEF BeliefInv
<1>4. NodeBelieved(n)
  BY DEF BeliefInv
<1>5. /\ syncStatus'[n] = "IN_SYNC" => syncStatus[n] = "IN_SYNC" /\ applied'[n] = applied[n]
      /\ applied'[n] = applied[n] \/ applied'[n] = 0
      /\ MembersStay => (Assigned(n) => Assigned(n)')
  BY NodeTypes DEF FlagOutdated, AssignNode, UnassignNode, Event, MembersStay, Assigned
<1>6. 0 <= Frontier /\ (apc[n] \in Deploying => 0 <= label[n])
  <2>1. stVer[n] <= Frontier /\ stVer[n] \in Nat /\ label[n] \in Nat
    BY <1>4, NodeTypes DEF NodeBelieved, VersionsTold
  <2> QED
    BY <1>3, <2>1
<1>7. VersionsTold(n)' /\ DeploysNewest(n)'
  BY <1>1, <1>3, <1>4, <1>5, <1>6 DEF NodeBelieved, VersionsTold, DeploysNewest
<1>8. LabelTrue(n)' /\ ClaimsTrue(n)'
  BY <1>1, <1>2, <1>4, <1>5 DEF NodeBelieved, LabelTrue, ClaimsTrue
<1>9. RemovalKnown(n)'
  BY <1>1, <1>4, <1>5 DEF NodeBelieved, RemovalKnown
<1> QED
  BY <1>7, <1>8, <1>9 DEF NodeBelieved

(* A step of node n leaves the others alone: it is enough to look at n.    *)
LEMMA OthersAtRest ==
  ASSUME RolloutInv, BeliefInv, NEW n \in Nodes,
         UNCHANGED <<curVer, keyStatus, pc>>,
         \A x \in Nodes \ {n} :
           /\ applied'[x] = applied[x] /\ syncStatus'[x] = syncStatus[x]
           /\ stVer'[x] = stVer[x] /\ cur'[x] = cur[x] /\ loaded'[x] = loaded[x]
           /\ apc'[x] = apc[x] /\ label'[x] = label[x] /\ item'[x] = item[x]
           /\ (x \in unsaved' <=> x \in unsaved),
         \A m \in late' : m.node # n => m \in late,
         NodeBelieved(n)'
  PROVE  BeliefInv'
<1>1. ASSUME NEW x \in Nodes, x # n PROVE NodeBelieved(x)'
  BY <1>1, NodeAtRest DEF BeliefInv
<1> QED
  BY <1>1 DEF BeliefInv

(* A poll is answered: the label is the current version, the content the   *)
(* ACTIVE key.  What a node deletes it is not believed to have.            *)
LEMMA BeliefPoll ==
  ASSUME PollsWait, OneRotator, RolloutInv, BeliefInv, NEW n \in Nodes,
         SyncNode(n) \/ SyncKey(n) \/ SyncRemoved(n) \/ PollFault(n)
  PROVE  BeliefInv'
<1> USE DEF AgentGoto, AgentIdle, fileVars, histories
<1>1. /\ UNCHANGED <<curVer, keyStatus, pc, applied, syncStatus, loaded, stVer, late>>
      /\ unsaved \subseteq unsaved' /\ unsaved' \subseteq unsaved \cup {n}
  BY DEF SyncNode, SyncKey, SyncRemoved, PollFault, Asks, Requested, Received, Remove, RemoveFails, Removing,
         serverVars, serverAtRest, clusterVars, nodeVars
<1>2. GetActiveECHKey' = GetActiveECHKey /\ Frontier' = Frontier
  BY <1>1, ActiveKept DEF Frontier
<1>3. NodeBelieved(n)
  BY DEF BeliefInv
<1>4. ClaimsTrue(n)'
  BY <1>1, <1>2, <1>3 DEF NodeBelieved, ClaimsTrue
<1>5. ASSUME NEW v, Asks(n, v) PROVE BeliefInv'
  <2>1. /\ apc[n] = "idle" /\ apc'[n] = "listed" /\ label'[n] = curVer
        /\ Assigned(n) /\ UNCHANGED <<cur, item, unsaved>>
        /\ \A x \in Nodes \ {n} : apc'[x] = apc[x] /\ label'[x] = label[x]
    BY <1>5, NodeTypes DEF Asks, Requested
  <2>2. pc[Coordinator] \notin Unsaved
    BY <1>5, NodeTypes DEF Asks, NoWindow, PollsWait
  <2>3. Frontier = curVer /\ curVer \in Int
    BY <2>2, NodeTypes DEF Frontier
  <2>4. VersionsTold(n)' /\ DeploysNewest(n)'
    BY <1>1, <1>2, <1>3, <2>1, <2>3, NodeTypes DEF NodeBelieved, VersionsTold, DeploysNewest
  <2>5. LabelTrue(n)'
    BY <1>1, <2>1, <2>2 DEF LabelTrue
  <2>6. RemovalKnown(n)'
    BY <1>1, <1>3, <2>1 DEF NodeBelieved, RemovalKnown, Assigned, Deleting
  <2> QED
    BY <1>1, <1>4, <2>1, <2>4, <2>5, <2>6, OthersAtRest DEF NodeBelieved
<1>6. CASE SyncKey(n)
  <2>1. apc[n] = "listed" /\ label[n] = curVer
    BY <1>3, <1>6 DEF SyncKey, Received, NodeBelieved, LabelTrue
  <2>2. CASE GetActiveECHKey # 0 /\ Received(n, GetActiveECHKey)
    <3>1. /\ apc'[n] = "install" /\ item'[n] = GetActiveECHKey /\ UNCHANGED <<cur, label, unsaved>>
          /\ \A x \in Nodes \ {n} : apc'[x] = apc[x] /\ item'[x] = item[x]
      BY <2>2, NodeTypes DEF Received
    <3>2. VersionsTold(n)' /\ DeploysNewest(n)'
      BY <1>1, <1>2, <1>3, <2>1, <3>1 DEF NodeBelieved, VersionsTold, DeploysNewest, Deploying
    <3>3. LabelTrue(n)'
      BY <1>2, <2>2, <3>1 DEF LabelTrue
    <3>4. RemovalKnown(n)'
      BY <1>1, <1>3, <3>1 DEF NodeBelieved, RemovalKnown, Assigned, Deleting
    <3> QED
      BY <1>1, <1>4, <3>1, <3>2, <3>3, <3>4, OthersAtRest DEF NodeBelieved
  <2>3. CASE AgentIdle(n) /\ UNCHANGED fileVars
    <3>1. /\ apc'[n] = "idle" /\ label'[n] = 0 /\ UNCHANGED <<cur, unsaved>>
          /\ \A x \in Nodes \ {n} : apc'[x] = apc[x] /\ item'[x] = item[x] /\ label'[x] = label[x]
      BY <2>3, NodeTypes
    <3>2. VersionsTold(n)' /\ DeploysNewest(n)'
      BY <1>1, <1>2, <1>3, <2>1, <3>1, NodeTypes
         DEF NodeBelieved, VersionsTold, DeploysNewest, Deploying, Frontier
    <3>3. LabelTrue(n)'
      BY <3>1 DEF LabelTrue
    <3>4. RemovalKnown(n)'
      BY <1>1, <1>3, <3>1 DEF NodeBelieved, RemovalKnown, Assigned, Deleting
    <3> QED
      BY <1>1, <1>4, <3>1, <3>2, <3>3, <3>4, OthersAtRest DEF NodeBelieved
  <2> QED
    BY <1>6, <2>2, <2>3 DEF SyncKey
<1>7. CASE ~Assigned(n) /\ (Remove(n) \/ RemoveFails(n))
  <2>1. /\ ~Assigned(n) /\ apc[n] = "idle" /\ apc'[n] = "removed" /\ UNCHANGED <<label, item>>
        /\ n \in unsaved'
        /\ \A x \in Nodes \ {n} : apc'[x] = apc[x] /\ cur'[x] = cur[x]
    BY <1>7, NodeTypes DEF Remove, RemoveFails, Removing
  <2>2. VersionsTold(n)' /\ DeploysNewest(n)'
    BY <1>1, <1>2, <1>3, <2>1 DEF NodeBelieved, VersionsTold, DeploysNewest, Deploying
  <2>3. LabelTrue(n)'
    BY <2>1 DEF LabelTrue
  <2>4. RemovalKnown(n)'
    BY <1>1, <1>3, <2>1 DEF NodeBelieved, RemovalKnown, Assigned
  <2> QED
    BY <1>1, <1>4, <2>1, <2>2, <2>3, <2>4, OthersAtRest DEF NodeBelieved
<1> QED
  BY <1>5, <1>6, <1>7 DEF SyncNode, SyncRemoved, PollFault

(* The key is installed and reloaded.  A reload drops keys: what is said   *)
(* of the node and concerns the current version concerns the key just      *)
(* installed, because no label is older than what the node acknowledged.   *)
LEMMA BeliefDeploy ==
  ASSUME RolloutInv, BeliefInv, NEW n \in Nodes, Install(n) \/ Reload(n) \/ SaveState(n),
         UNCHANGED <<serverVars, late>>
  PROVE  BeliefInv'
<1> USE DEF AgentGoto, AgentIdle, fileVars, histories
<1>1. UNCHANGED <<curVer, keyStatus, pc, applied, syncStatus, late>>
  BY DEF serverVars
<1>2. GetActiveECHKey' = GetActiveECHKey /\ Frontier' = Frontier
  BY <1>1, ActiveKept DEF Frontier
<1>3. NodeBelieved(n)
  BY DEF BeliefInv
<1>4. CASE Install(n)
  <2>1. /\ apc[n] = "install" /\ apc'[n] = "reload" /\ cur'[n] = item[n]
        /\ UNCHANGED <<stVer, loaded, label, item, unsaved>>
        /\ \A x \in Nodes \ {n} : apc'[x] = apc[x] /\ cur'[x] = cur[x]
    BY <1>4, NodeTypes DEF Install
  <2>2. VersionsTold(n)' /\ DeploysNewest(n)' /\ ClaimsTrue(n)'
    BY <1>1, <1>2, <1>3, <2>1 DEF NodeBelieved, VersionsTold, DeploysNewest, ClaimsTrue, Deploying
  <2>3. LabelTrue(n)'
    BY <1>1, <1>2, <1>3, <2>1 DEF NodeBelieved, LabelTrue
  <2>4. RemovalKnown(n)'
    BY <1>1, <1>3, <2>1 DEF NodeBelieved, RemovalKnown, Assigned, Deleting
  <2> QED
    BY <1>1, <2>1, <2>2, <2>3, <2>4, OthersAtRest DEF NodeBelieved
<1>5. CASE Reload(n)
  <2>1. /\ apc[n] = "reload" /\ apc'[n] = "ack" /\ loaded'[n] = Included(n)
        /\ UNCHANGED <<stVer, cur, label, item, unsaved>>
        /\ \A x \in Nodes \ {n} : apc'[x] = apc[x] /\ loaded'[x] = loaded[x]
    BY <1>5, NodeTypes DEF Reload
  <2>2. label[n] = curVer => GetActiveECHKey \in loaded'[n]
    BY <1>3, <2>1 DEF NodeBelieved, LabelTrue, Included, KeyFiles
  <2>3. label[n] <= curVer /\ label[n] \in Nat /\ curVer \in Nat
    BY <1>3, NodeTypes DEF NodeBelieved, VersionsTold, Frontier
  <2>4. /\ applied[n] <= label[n] /\ stVer[n] <= label[n]
        /\ \A m \in late : m.node = n => m.version <= label[n]
    BY <1>3, <2>1 DEF NodeBelieved, DeploysNewest, Deploying
  <2>5. ClaimsTrue(n)'
    <3>1. applied[n] = curVer \/ stVer[n] = curVer => label[n] = curVer
      BY <2>3, <2>4, NodeTypes
    <3>2. \A m \in late : m.node = n /\ m.version = curVer => label[n] = curVer
      BY <2>3, <2>4, NodeTypes
    <3> QED
      BY <1>1, <1>2, <2>1, <2>2, <3>1, <3>2 DEF ClaimsTrue
  <2>6. VersionsTold(n)' /\ DeploysNewest(n)'
    BY <1>1, <1>2, <1>3, <2>1, <2>4 DEF NodeBelieved, VersionsTold, DeploysNewest
  <2>7. LabelTrue(n)'
    BY <1>1, <1>2, <2>1, <2>2 DEF LabelTrue
  <2>8. RemovalKnown(n)'
    BY <1>1, <1>3, <2>1 DEF NodeBelieved, RemovalKnown, Assigned, Deleting
  <2> QED
    BY <1>1, <2>1, <2>5, <2>6, <2>7, <2>8, OthersAtRest DEF NodeBelieved
<1>6. CASE SaveState(n)
  <2>1. /\ apc[n] = "save" /\ apc'[n] = "idle" /\ stVer'[n] = label[n] /\ label'[n] = 0
        /\ UNCHANGED <<cur, loaded>>
        /\ unsaved' = unsaved \ {n}
        /\ \A x \in Nodes \ {n} : /\ apc'[x] = apc[x] /\ stVer'[x] = stVer[x]
                                  /\ label'[x] = label[x] /\ item'[x] = item[x]
    BY <1>6, NodeTypes DEF SaveState
  <2>2. 0 <= Frontier
    <3>1. label[n] \in Nat /\ label[n] <= Frontier /\ Frontier \in Int
      BY <1>3, NodeTypes DEF NodeBelieved, VersionsTold, Frontier
    <3> QED
      BY <3>1
  <2>3. VersionsTold(n)' /\ DeploysNewest(n)'
    BY <1>1, <1>2, <1>3, <2>1, <2>2 DEF NodeBelieved, VersionsTold, DeploysNewest, Deploying
  <2>4. ClaimsTrue(n)'
    BY <1>1, <1>2, <1>3, <2>1 DEF NodeBelieved, ClaimsTrue, LabelTrue
  <2>5. LabelTrue(n)'
    BY <2>1 DEF LabelTrue
  <2>6. RemovalKnown(n)'
    BY <1>1, <1>3, <2>1 DEF NodeBelieved, RemovalKnown, Assigned, Deleting
  <2> QED
    BY <1>1, <2>1, <2>3, <2>4, <2>5, <2>6, OthersAtRest DEF NodeBelieved
<1> QED
  BY <1>4, <1>5, <1>6

(* The removed cluster leaves the state file before the reload drops its   *)
(* keys; no row and no message speaks of them then.                        *)
LEMMA BeliefRemoval ==
  ASSUME MembersStay \/ AcksOnTime, RolloutInv, BeliefInv, NEW n \in Nodes,
         SaveRemoved(n) \/ ReloadRemoved(n),
         UNCHANGED <<serverVars, late>>
  PROVE  BeliefInv'
<1> USE DEF AgentGoto, AgentIdle, fileVars, histories
<1>1. UNCHANGED <<curVer, keyStatus, pc, applied, syncStatus, late>>
  BY DEF serverVars
<1>2. GetActiveECHKey' = GetActiveECHKey /\ Frontier' = Frontier
  BY <1>1, ActiveKept DEF Frontier
<1>3. NodeBelieved(n)
  BY DEF BeliefInv
<1>4. apc[n] \in Deleting /\ UNCHANGED cur
  BY DEF SaveRemoved, ReloadRemoved, Deleting
<1>5. ~MembersStay /\ (\A m \in late : m.node # n) /\ syncStatus[n] # "IN_SYNC"
  BY <1>3, <1>4 DEF NodeBelieved, RemovalKnown
<1>6. 0 <= Frontier
  <2>1. label[n] \in Nat /\ label[n] <= Frontier /\ Frontier \in Int
    BY <1>3, NodeTypes DEF NodeBelieved, VersionsTold, Frontier
  <2> QED
    BY <2>1
<1>7. CASE SaveRemoved(n)
  <2>1. /\ apc'[n] = "reloadRemoved" /\ stVer'[n] = 0 /\ UNCHANGED <<loaded, label, item>>
        /\ unsaved' = unsaved \ {n}
        /\ \A x \in Nodes \ {n} : apc'[x] = apc[x] /\ stVer'[x] = stVer[x]
    BY <1>7, NodeTypes DEF SaveRemoved
  <2>2. VersionsTold(n)' /\ DeploysNewest(n)'
    BY <1>1, <1>2, <1>3, <1>6, <2>1 DEF NodeBelieved, VersionsTold, DeploysNewest, Deploying
  <2>3. LabelTrue(n)'
    BY <2>1 DEF LabelTrue
  <2>4. ClaimsTrue(n)'
    BY <1>1, <1>5, <2>1 DEF ClaimsTrue
  <2>5. RemovalKnown(n)'
    BY <1>1, <1>5, <2>1 DEF RemovalKnown
  <2> QED
    BY <1>1, <1>4, <2>1, <2>2, <2>3, <2>4, <2>5, OthersAtRest DEF NodeBelieved
<1>8. CASE ReloadRemoved(n)
  <2>1. /\ apc[n] = "reloadRemoved" /\ apc'[n] = "idle" /\ label'[n] = 0 /\ UNCHANGED <<stVer, unsaved>>
        /\ \A x \in Nodes \ {n} : /\ apc'[x] = apc[x] /\ loaded'[x] = loaded[x]
                                  /\ label'[x] = label[x] /\ item'[x] = item[x]
    BY <1>8, NodeTypes DEF ReloadRemoved
  <2>2. VersionsTold(n)' /\ DeploysNewest(n)'
    BY <1>1, <1>2, <1>3, <1>6, <2>1 DEF NodeBelieved, VersionsTold, DeploysNewest, Deploying
  <2>3. LabelTrue(n)'
    BY <2>1 DEF LabelTrue
  <2>4. ClaimsTrue(n)'
    BY <1>1, <1>3, <1>5, <2>1 DEF ClaimsTrue, NodeBelieved, RemovalKnown
  <2>5. RemovalKnown(n)'
    BY <1>1, <1>5, <2>1 DEF RemovalKnown, Deleting
  <2> QED
    BY <1>1, <1>4, <2>1, <2>2, <2>3, <2>4, <2>5, OthersAtRest DEF NodeBelieved
<1> QED
  BY <1>7, <1>8

(* A fault ends the cycle, keeps the proxy at what it had or costs the     *)
(* entry of the state file; nothing is claimed.                            *)
LEMMA BeliefFault ==
  ASSUME RolloutInv, BeliefInv, NEW n \in Nodes, LocalFault(n)
  PROVE  BeliefInv'
<1> USE DEF AgentGoto, AgentIdle, fileVars, histories
<1>1. UNCHANGED <<curVer, keyStatus, pc, applied, syncStatus, late>>
  BY DEF LocalFault, serverAtRest, clusterVars, nodeVars
<1>2. GetActiveECHKey' = GetActiveECHKey /\ Frontier' = Frontier
  BY <1>1, ActiveKept DEF Frontier
<1>3. NodeBelieved(n)
  BY DEF BeliefInv
<1> DEFINE Ends == \/ apc[n] \in {"install", "reload"} /\ apc'[n] = "ackFailed" /\ label'[n] = label[n]
                   \/ apc[n] = "install" /\ apc'[n] = "reload" /\ label'[n] = label[n] /\ cur'[n] = item[n]
                   \/ apc[n] = "removed" /\ apc'[n] = "reloadRemoved" /\ label'[n] = label[n]
                   \/ apc'[n] = "idle" /\ (label'[n] = 0 \/ label'[n] = label[n])
           Alone == \A x \in Nodes \ {n} : /\ stVer'[x] = stVer[x] /\ cur'[x] = cur[x] /\ apc'[x] = apc[x]
                                            /\ label'[x] = label[x] /\ item'[x] = item[x]
           Fault == Ends /\ Alone /\ stVer'[n] \in {stVer[n], 0} /\ UNCHANGED <<loaded, unsaved>>
<1>4. Fault
  <2>1. CASE ReloadFails(n)
    BY <2>1, NodeTypes DEF ReloadFails
  <2>2. CASE ReloadRemovedFails(n)
    BY <2>2, NodeTypes DEF ReloadRemovedFails
  <2>3. CASE AgentCrash(n)
    BY <2>3, NodeTypes DEF AgentCrash, Unwritten
  <2>4. CASE StateLost(n)
    BY <2>4, NodeTypes DEF StateLost
  <2>5. CASE InstallUnbacked(n)
    BY <2>5, NodeTypes DEF InstallUnbacked
  <2>6. CASE InstallFails(n)
    BY <2>6, NodeTypes DEF InstallFails
  <2>7. CASE SaveFails(n)
    BY <2>7, NodeTypes DEF SaveFails, Unwritten
  <2>8. CASE SaveRemovedFails(n)
    BY <2>8, NodeTypes DEF SaveRemovedFails, Unwritten
  <2> QED
    BY <2>1, <2>2, <2>3, <2>4, <2>5, <2>6, <2>7, <2>8 DEF LocalFault, FileFault
<1>5. 0 <= Frontier /\ 0 <= label[n] /\ label[n] \in Nat
  <2>1. label[n] \in Nat /\ label[n] <= Frontier /\ Frontier \in Int
    BY <1>3, NodeTypes DEF NodeBelieved, VersionsTold, Frontier
  <2> QED
    BY <2>1
<1>6. VersionsTold(n)'
  BY <1>1, <1>2, <1>3, <1>4, <1>5 DEF NodeBelieved, VersionsTold
<1>7. DeploysNewest(n)'
  BY <1>1, <1>3, <1>4, <1>5 DEF NodeBelieved, DeploysNewest, Deploying
<1>8. LabelTrue(n)'
  BY <1>1, <1>2, <1>3, <1>4 DEF NodeBelieved, LabelTrue
<1>9. ClaimsTrue(n)'
  BY <1>1, <1>2, <1>3, <1>4 DEF NodeBelieved, ClaimsTrue
<1>10. RemovalKnown(n)'
  BY <1>1, <1>3, <1>4 DEF NodeBelieved, RemovalKnown, Deleting, Assigned
<1> QED
  BY <1>1, <1>4, <1>6, <1>7, <1>8, <1>9, <1>10, OthersAtRest DEF NodeBelieved

(* What an acknowledgment that is recorded does to the row of its node.    *)
LEMMA RowAcked ==
  ASSUME RolloutInv, NEW n \in Nodes, NEW v, NEW ok \in BOOLEAN, RecordAck(n, v, ok)
  PROVE  /\ \/ applied'[n] = applied[n] /\ syncStatus'[n] = syncStatus[n]
            \/ /\ applied'[n] = v /\ Assigned(n)
               /\ syncStatus'[n] = IF ok THEN "IN_SYNC" ELSE "FAILED"
         /\ \A x \in Nodes \ {n} : applied'[x] = applied[x] /\ syncStatus'[x] = syncStatus[x]
         /\ UNCHANGED <<curVer, keyStatus, pc>>
<1> USE DEF clusterVars, nodeVars
<1> QED
  BY NodeTypes DEF RecordAck, AckNode, serverAtRest

(* An acknowledgment is sent, and recorded, lost or delayed: it speaks of  *)
(* the version just deployed.                                              *)
LEMMA BeliefAck ==
  ASSUME RolloutInv, BeliefInv, NEW n \in Nodes, AckDelivered(n) \/ AckLost(n) \/ AckDelayed(n)
  PROVE  BeliefInv'
<1> USE DEF AgentGoto, AgentIdle, fileVars, histories, clusterVars, nodeVars
<1>1. UNCHANGED <<stVer, cur, loaded, unsaved>> /\ AckSent(n)
  BY DEF AckDelivered, AckLost, AckDelayed, AckSent
<1>2. /\ \/ apc[n] = "ack" /\ apc'[n] = "save" /\ label'[n] = label[n] /\ item'[n] = item[n]
         \/ apc[n] = "ackFailed" /\ apc'[n] = "idle" /\ label'[n] = 0
      /\ \A x \in Nodes \ {n} : apc'[x] = apc[x] /\ label'[x] = label[x] /\ item'[x] = item[x]
  BY <1>1, NodeTypes DEF AckSent
<1>3. /\ \/ applied'[n] = applied[n] /\ syncStatus'[n] = syncStatus[n]
         \/ /\ applied'[n] = label[n] /\ Assigned(n)
            /\ syncStatus'[n] = IF apc[n] = "ack" THEN "IN_SYNC" ELSE "FAILED"
      /\ \A x \in Nodes \ {n} : applied'[x] = applied[x] /\ syncStatus'[x] = syncStatus[x]
      /\ UNCHANGED <<curVer, keyStatus, pc>>
  BY RowAcked DEF AckDelivered, AckLost, AckDelayed, serverAtRest
<1>4. /\ \A m \in late' : \/ m \in late
                          \/ m.node = n /\ m.version = label[n] /\ m.ok = (apc[n] = "ack")
      /\ AcksOnTime => late' = late
  BY DEF AckDelivered, AckLost, AckDelayed, AcksOnTime, Event
<1>5. GetActiveECHKey' = GetActiveECHKey /\ Frontier' = Frontier
  BY <1>3, ActiveKept DEF Frontier
<1>6. NodeBelieved(n)
  BY DEF BeliefInv
<1>7. 0 <= Frontier
  <2>1. label[n] \in Nat /\ label[n] <= Frontier /\ Frontier \in Int
    BY <1>6, NodeTypes DEF NodeBelieved, VersionsTold, Frontier
  <2> QED
    BY <2>1
<1>8. VersionsTold(n)'
  BY <1>1, <1>2, <1>3, <1>4, <1>5, <1>6, <1>7 DEF NodeBelieved, VersionsTold
<1>9. DeploysNewest(n)'
  <2>1. label[n] <= label[n]
    BY NodeTypes
  <2> QED
    BY <1>1, <1>2, <1>3, <1>4, <1>6, <2>1 DEF NodeBelieved, DeploysNewest, Deploying
<1>10. LabelTrue(n)'
  BY <1>1, <1>2, <1>3, <1>5, <1>6 DEF NodeBelieved, LabelTrue
<1>11. ClaimsTrue(n)'
  <2>1. apc[n] = "ack" /\ label[n] = curVer => GetActiveECHKey \in loaded[n]
    BY <1>6 DEF NodeBelieved, LabelTrue
  <2> QED
    BY <1>1, <1>3, <1>4, <1>5, <1>6, <2>1 DEF NodeBelieved, ClaimsTrue
<1>12. RemovalKnown(n)'
  BY <1>1, <1>2, <1>3, <1>4, <1>6 DEF NodeBelieved, RemovalKnown, Deleting, Assigned
<1> QED
  BY <1>1, <1>2, <1>3, <1>4, <1>8, <1>9, <1>10, <1>11, <1>12, OthersAtRest DEF NodeBelieved

(* A late acknowledgment reaches the row; with members that stay it is     *)
(* still true of the node it speaks of.                                    *)
LEMMA BeliefLateAck ==
  ASSUME MembersStay \/ AcksOnTime, RolloutInv, BeliefInv, NEW a \in late, LateAck(a)
  PROVE  BeliefInv'
<1> DEFINE n == a.node
<1>1. n \in Nodes /\ a.version \in Nat /\ a.ok \in BOOLEAN
  BY NodeTypes
<1>2. UNCHANGED <<stVer, cur, loaded, apc, label, item, unsaved>> /\ late' = late \ {a} /\ RecordAck(n, a.version, a.ok)
  BY DEF LateAck, agentVars, fileVars, histories
<1>3. /\ \/ applied'[n] = applied[n] /\ syncStatus'[n] = syncStatus[n]
         \/ /\ applied'[n] = a.version /\ Assigned(n)
            /\ syncStatus'[n] = IF a.ok THEN "IN_SYNC" ELSE "FAILED"
      /\ \A x \in Nodes \ {n} : applied'[x] = applied[x] /\ syncStatus'[x] = syncStatus[x]
      /\ UNCHANGED <<curVer, keyStatus, pc>>
  BY <1>1, <1>2, RowAcked
<1>4. GetActiveECHKey' = GetActiveECHKey /\ Frontier' = Frontier
  BY <1>3, ActiveKept DEF Frontier
<1>5. NodeBelieved(n)
  BY <1>1 DEF BeliefInv
<1>6. VersionsTold(n)' /\ DeploysNewest(n)'
  BY <1>2, <1>3, <1>4, <1>5 DEF NodeBelieved, VersionsTold, DeploysNewest
<1>7. LabelTrue(n)'
  BY <1>2, <1>3, <1>4, <1>5 DEF NodeBelieved, LabelTrue
<1>8. ClaimsTrue(n)'
  BY <1>2, <1>3, <1>4, <1>5 DEF NodeBelieved, ClaimsTrue
<1>9. RemovalKnown(n)'
  <2>1. MembersStay /\ apc[n] \notin Deleting
    BY <1>5 DEF NodeBelieved, RemovalKnown
  <2> QED
    BY <1>2, <1>3, <1>5, <2>1 DEF NodeBelieved, RemovalKnown, Deleting, Assigned
<1> QED
  BY <1>1, <1>2, <1>3, <1>6, <1>7, <1>8, <1>9, OthersAtRest DEF NodeBelieved

(* Every step keeps what is believed of the nodes true.                    *)
LEMMA BeliefStep ==
  ASSUME OneRotator, PollsWait, MembersStay \/ AcksOnTime, RolloutInv, BeliefInv, [Next]_vars
  PROVE  BeliefInv'
<1>1. CASE ServerMoves(ServerStep)
  <2>1. ServerStep /\ UNCHANGED <<agentVars, late>>
    BY <1>1 DEF ServerMoves
  <2>2. CASE Increment(Coordinator)
    <3>1. ServerMoves(Increment(Coordinator))
      BY <1>1, <2>2 DEF ServerMoves
    <3> QED
      BY <3>1, BeliefIncrement
  <2> QED
    BY <2>1, <2>2, ServerKinds, BeliefSave, BeliefRows, BeliefQuiet
<1>2. ASSUME NEW n \in Nodes, AgentStep(n) PROVE BeliefInv'
  BY <1>2, BeliefPoll, BeliefAck, BeliefDeploy, BeliefRemoval DEF AgentStep, LocalStep
<1>3. ASSUME NEW n \in Nodes, AckLost(n) \/ AckDelayed(n) \/ LocalFault(n) \/ PollFault(n) PROVE BeliefInv'
  BY <1>3, BeliefAck, BeliefFault, BeliefPoll
<1>4. ASSUME NEW m \in late, LateAck(m) PROVE BeliefInv'
  BY <1>4, BeliefLateAck
<1>5. CASE UNCHANGED vars
  <2>1. UNCHANGED <<agentVars, late>> /\ Quiet
    BY <1>5 DEF vars, agentVars, fileVars, histories, Quiet
  <2> QED
    BY <2>1, BeliefQuiet
<1> QED
  BY <1>1, <1>2, <1>3, <1>4, <1>5, StepSides DEF NodeSide

(* What is believed of the nodes is always true, unless an acknowledgment  *)
(* from before a node left the cluster can reach its next row.             *)
LEMMA BeliefInvariant ==
  ASSUME OneRotator, PollsWait, MembersStay \/ AcksOnTime
  PROVE  Spec => [](RolloutInv /\ OrderInv /\ BeliefInv)
<1>1. Init => BeliefInv
  <2> SUFFICES ASSUME Init, NEW n \in Nodes PROVE NodeBelieved(n)
    BY DEF BeliefInv
  <2>1. /\ curVer = 0 /\ late = {} /\ Frontier = 0
        /\ applied[n] = 0 /\ stVer[n] = 0 /\ label[n] = 0
        /\ syncStatus[n] = "PENDING" /\ apc[n] = "idle"
    BY DEF Init, ServerInit, AgentInit, Frontier, Rotators, Unsaved
  <2> QED
    BY <2>1 DEF NodeBelieved, VersionsTold, DeploysNewest, LabelTrue, ClaimsTrue, RemovalKnown,
                Deploying, Deleting, Assigned
<1>2. RolloutInv /\ BeliefInv /\ [Next]_vars => BeliefInv'
  BY BeliefStep
<1> QED
  BY <1>1, <1>2, OrderInvariant, PTL DEF Spec

(* InSyncServesKey: who counts as in sync with the current version, or     *)
(* would be answered UP_TO_DATE, serves its key. Needed are one rotator,   *)
(* polls that do not fall between the increment of the version and the     *)
(* save of its key (SyncNode would hand out the old key under the new      *)
(* label), and that no acknowledgment from before a node was unassigned    *)
(* reaches the row of its new assignment.                                  *)
THEOREM InSyncNodesServe ==
  ASSUME OneRotator, PollsWait, MembersStay \/ AcksOnTime
  PROVE  Spec => []InSyncServesKey
<1>1. RolloutInv /\ OrderInv /\ BeliefInv => InSyncServesKey
  <2> SUFFICES ASSUME RolloutInv, OrderInv, BeliefInv, curVer # 0, keyStatus[curVer] # "NONE"
               PROVE  \A n \in Nodes :
                        \/ Assigned(n) /\ applied[n] = curVer /\ syncStatus[n] = "IN_SYNC"
                        \/ stVer[n] = curVer /\ n \notin unsaved
                        => curVer \in loaded[n]
    BY DEF InSyncServesKey
  <2>1. curVer \in Versions
    BY VersionAssumption DEF RolloutInv, ServerInv, TypeOK, Versions
  <2>2. curVer <= GetActiveECHKey
    BY <2>1 DEF OrderInv, NewestActive
  <2>3. GetActiveECHKey # 0
    BY <2>1, <2>2, VersionAssumption DEF Versions
  <2>4. GetActiveECHKey <= curVer
    BY <2>3, ActiveType DEF RolloutInv, ServerInv, KeysInv, KeysGivenOut
  <2>5. GetActiveECHKey = curVer
    BY <2>2, <2>4, NodeTypes
  <2> QED
    BY <2>5 DEF BeliefInv, NodeBelieved, ClaimsTrue
<1> QED
  BY <1>1, BeliefInvariant, PTL

(***************************************************************************)
(* What the records advertise                                              *)
(***************************************************************************)

(* Only UpdateHTTPSRecord writes records.                                  *)
LEMMA OtherDns ==
  ASSUME ServerStep, ~ \E d \in Domains : UpdateHTTPSRecord(d) \/ UpdateFails(d)
  PROVE  dns' = dns
<1> USE DEF clusterVars, nodeVars, domainVars, syncVars, envVars
<1>1. ASSUME NEW r \in Rotators, Rotate(r) PROVE dns' = dns
  BY <1>1 DEF Rotate, Increment, FlagOutdated, ResetDomains, SaveNewECHKey, RotationFails,
              MarkPending, MarkPendingLost, StatementLost
<1>2. ASSUME Publish PROVE dns' = dns
  BY <1>2 DEF Publish, ReconcileCheck, CheckNodes, ListDomains, GetKey, ReadFails, PassOver, Mark
<1> QED
  BY <1>1, <1>2 DEF ServerStep, TriggerClusterRotation, ReconcileRotate, AssignNode,
                    UnassignNode, ServerCrash, RotationDue, Tick

(* A step of the server writes records only with the key at hand.          *)
LEMMA DnsWrites ==
  ASSUME RolloutInv, OrderInv, [Next]_vars, NEW d \in Domains
  PROVE  \/ dns'[d] = dns[d]
         \/ dns'[d] = 0
         \/ pc[Coordinator] = "publish" /\ dns'[d] = GetActiveECHKey
<1> USE DEF clusterVars, nodeVars, domainVars, syncVars, envVars
<1>0. dns \in [Domains -> 0 .. MaxVersion]
  BY DEF RolloutInv, ServerInv, TypeOK
<1>1. ASSUME NEW e \in Domains, UpdateHTTPSRecord(e) \/ UpdateFails(e)
      PROVE  pc[Coordinator] = "publish" /\ dns'[d] \in {dns[d], key, 0}
  BY <1>0, <1>1 DEF UpdateHTTPSRecord, UpdateFails
<1>2. pc[Coordinator] = "publish" => key = GetActiveECHKey
  BY DEF OrderInv, CopiesCurrent
<1>3. ASSUME NodeSide \/ UNCHANGED vars PROVE dns' = dns
  BY <1>3, NodeSideFrame DEF serverCore, vars
<1>4. ASSUME ServerStep, ~ \E e \in Domains : UpdateHTTPSRecord(e) \/ UpdateFails(e)
      PROVE  dns' = dns
  BY <1>4, OtherDns
<1> QED
  BY <1>1, <1>2, <1>3, <1>4, StepSides DEF ServerMoves

(* The steps of a rotation until its key is stored.                        *)
Rotating == {"increment"} \cup Unsaved

(* From the time a rotation falls due until it stores its key, every       *)
(* record that stands carries the ACTIVE key; and it falls due once.       *)
RotationFinds ==
  /\ due \/ pc[Coordinator] \in Rotating => \A d \in Domains : dns[d] \in {0, GetActiveECHKey}
  /\ pc[Coordinator] \in Unsaved => ~due

RetentionInv == RotationFinds /\ AdvertisedKeyRetained

(* A rotation retires one key.  It is the one the records carry, when each *)
(* rotation is published before the next falls due.                        *)
LEMMA RetentionStep ==
  ASSUME OneRotator, ~OverlappingRotations, RolloutInv, OrderInv, RetentionInv, [Next]_vars
  PROVE  RetentionInv'
<1> USE DEF clusterVars, nodeVars, domainVars, syncVars, envVars, Goto
<1> DEFINE Rest == /\ keyStatus' = keyStatus
                   /\ due' => due
                   /\ pc'[Coordinator] \in Rotating => pc[Coordinator] \in Rotating
                   /\ pc'[Coordinator] \in Unsaved => pc[Coordinator] \in Unsaved
<1>0. /\ pc \in [Rotators -> CoordSteps] /\ Coordinator \in Rotators
      /\ \A r \in Rotators : r = Coordinator
      /\ dns \in [Domains -> 0 .. MaxVersion]
  BY DEF RolloutInv, ServerInv, TypeOK, Rotators, OneRotator
<1>1. \A d \in Domains : dns'[d] \in {dns[d], 0, GetActiveECHKey}
  BY DnsWrites
<1>2. ASSUME Rest PROVE RetentionInv'
  <2>1. GetActiveECHKey' = GetActiveECHKey
    BY <1>2, ActiveKept
  <2>2. RotationFinds'
    BY <1>1, <1>2, <2>1 DEF RetentionInv, RotationFinds
  <2>3. AdvertisedKeyRetained'
    BY <1>1, <1>2, ActiveType DEF RetentionInv, AdvertisedKeyRetained
  <2> QED
    BY <2>2, <2>3 DEF RetentionInv
<1>3. CASE ReconcileRotate
  <2>1. /\ UNCHANGED <<keyStatus, dns, due>> /\ pc'[Coordinator] = "increment"
        /\ curVer = 0 \/ due
    BY <1>0, <1>3 DEF ReconcileRotate, NeedsRotation
  <2>2. GetActiveECHKey' = GetActiveECHKey
    BY <2>1, ActiveKept
  <2>3. \A d \in Domains : curVer = 0 => dns[d] = 0
    <3> SUFFICES ASSUME NEW d \in Domains, curVer = 0, dns[d] # 0 PROVE FALSE
      OBVIOUS
    <3>1. dns[d] \in Versions /\ keyStatus[dns[d]] # "NONE"
      BY <1>0, VersionAssumption DEF RolloutInv, ServerInv, PublishedKeyStored, Versions
    <3>2. dns[d] <= 0
      BY <3>1 DEF RolloutInv, ServerInv, KeysInv, KeysGivenOut
    <3> QED
      BY <3>1, <3>2, VersionAssumption DEF Versions
  <2> QED
    BY <2>1, <2>2, <2>3 DEF RetentionInv, RotationFinds, AdvertisedKeyRetained, Unsaved
<1>4. CASE Increment(Coordinator)
  <2>1. /\ UNCHANGED <<keyStatus, dns>> /\ ~due' /\ pc[Coordinator] = "increment"
    BY <1>0, <1>4 DEF Increment
  <2>2. GetActiveECHKey' = GetActiveECHKey
    BY <2>1, ActiveKept
  <2> QED
    BY <2>1, <2>2 DEF RetentionInv, RotationFinds, AdvertisedKeyRetained, Rotating
<1>5. CASE SaveNewECHKey(Coordinator)
  <2> DEFINE v == ver[Coordinator]
  <2>1. /\ UNCHANGED <<dns, due>> /\ pc[Coordinator] = "save" /\ pc'[Coordinator] = "pending"
        /\ v \in Versions /\ keyStatus[v] = "NONE" /\ keyStatus' = Saved(v)
    BY <1>0, <1>5, ActiveSaved DEF SaveNewECHKey
  <2>2. ~due /\ \A d \in Domains : dns[d] \in {0, GetActiveECHKey}
    BY <2>1 DEF RetentionInv, RotationFinds, Rotating, Unsaved
  <2>3. \A d \in Domains : dns[d] # 0 => keyStatus'[dns[d]] = "PREVIOUS"
    <3> SUFFICES ASSUME NEW d \in Domains, dns[d] # 0 PROVE keyStatus'[dns[d]] = "PREVIOUS"
      OBVIOUS
    <3>1. dns[d] \in Versions /\ keyStatus[dns[d]] = "ACTIVE"
      BY <2>2, ActiveType
    <3> QED
      BY <2>1, <3>1, SavedTable DEF RolloutInv, ServerInv
  <2> QED
    BY <2>1, <2>2, <2>3 DEF RetentionInv, RotationFinds, AdvertisedKeyRetained, Rotating, Unsaved
<1>6. CASE RotationDue
  <2>1. UNCHANGED <<keyStatus, dns, pc>> /\ Settled
    BY <1>6 DEF RotationDue
  <2>2. GetActiveECHKey' = GetActiveECHKey
    BY <2>1, ActiveKept
  <2> QED
    BY <1>0, <2>1, <2>2 DEF Settled, RetentionInv, RotationFinds, AdvertisedKeyRetained, Unsaved
<1>7. ASSUME \/ FlagOutdated(Coordinator) \/ ResetDomains(Coordinator) \/ StatementLost(Coordinator)
             \/ RotationFails(Coordinator)
      PROVE  Rest
  BY <1>0, <1>7 DEF FlagOutdated, ResetDomains, StatementLost, RotationFails, Rotating, Unsaved
<1>8. ASSUME MarkPending(Coordinator) \/ MarkPendingLost(Coordinator) PROVE Rest
  BY <1>0, <1>8 DEF MarkPending, MarkPendingLost, Rotated, Rotating, Unsaved
<1>9. ASSUME ReconcileCheck \/ CheckNodes \/ ListDomains \/ GetKey \/ ReadFails PROVE Rest
  BY <1>0, <1>9 DEF ReconcileCheck, CheckNodes, ListDomains, GetKey, ReadFails, CycleEnds, Rotating, Unsaved
<1>10. ASSUME NEW d \in Domains, UpdateHTTPSRecord(d) \/ UpdateFails(d) \/ PassOver(d) PROVE Rest
  BY <1>0, <1>10 DEF UpdateHTTPSRecord, UpdateFails, PassOver, NextDomain, CycleEnds, Rotating, Unsaved
<1>11. ASSUME NEW d \in Domains, NEW s \in {"SYNCED", "FAILED"}, Mark(d, s) PROVE Rest
  BY <1>0, <1>11 DEF Mark, NextDomain, CycleEnds, Rotating, Unsaved
<1>12. ASSUME \/ \E n \in Nodes : AssignNode(n) \/ UnassignNode(n)
              \/ ServerCrash \/ Tick
       PROVE  Rest
  BY <1>0, <1>12 DEF AssignNode, UnassignNode, ServerCrash, Tick, Rotating, Unsaved
<1>13. ASSUME NodeSide \/ UNCHANGED vars PROVE Rest
  BY <1>13, NodeSideFrame DEF serverCore, vars
<1>14. ~ \E a \in Admins : TriggerClusterRotation(a)
  BY DEF OneRotator
<1> QED
  BY <1>0, <1>2, <1>3, <1>4, <1>5, <1>6, <1>7, <1>8, <1>9, <1>10, <1>11, <1>12, <1>13, <1>14, StepSides
     DEF ServerMoves, ServerStep, Rotate, Publish

(* With rotations that do not overlap the records never fall two keys      *)
(* behind.                                                                 *)
LEMMA RetentionInvariant ==
  ASSUME OneRotator, ~OverlappingRotations
  PROVE  Spec => [](RolloutInv /\ OrderInv /\ RetentionInv)
<1>1. Init => RetentionInv
  BY DEF Init, ServerInit, RetentionInv, RotationFinds, AdvertisedKeyRetained, Rotators, Rotating, Unsaved
<1>2. RolloutInv /\ OrderInv /\ RetentionInv /\ [Next]_vars => RetentionInv'
  BY RetentionStep
<1> QED
  BY <1>1, <1>2, OrderInvariant, PTL DEF Spec

(* AdvertisedKeyRetained: no record advertises an archived key, which no   *)
(* node could get from the server any more. One rotation retires one key,  *)
(* so the records have to follow before the next one falls due.            *)
THEOREM AdvertisedRetained ==
  ASSUME OneRotator, ~OverlappingRotations
  PROVE  Spec => []AdvertisedKeyRetained
<1>1. RetentionInv => AdvertisedKeyRetained
  BY DEF RetentionInv
<1> QED
  BY <1>1, RetentionInvariant, PTL

(***************************************************************************)
(* The keys on a node's disk                                               *)
(***************************************************************************)

(* Keys arrive in the order of their versions, and a proxy serves nothing  *)
(* newer than ech_current.pem, as long as the node has one.                *)
FilesOrdered(n) ==
  /\ cur[n] # 0 => /\ keyStatus[cur[n]] # "NONE" /\ prev[n] <= cur[n]
                   /\ \A k \in loaded[n] : k <= cur[n]
  /\ prev[n] # 0 => keyStatus[prev[n]] # "NONE"
  /\ \A k \in loaded[n] : k <= GetActiveECHKey
  /\ apc[n] = "install" =>
       /\ item[n] # 0 /\ keyStatus[item[n]] # "NONE"
       /\ cur[n] <= item[n] /\ prev[n] <= item[n]
       /\ \A k \in loaded[n] : k <= item[n]
  /\ apc[n] = "reload" => cur[n] # 0
  /\ (cur[n] = 0 /\ loaded[n] # {}) \/ apc[n] \in Deleting => n \in unbacked
  /\ MembersStay => Assigned(n) /\ apc[n] \notin Deleting

FilesInv == \A n \in Nodes : FilesOrdered(n)

(* Nothing a server's step does disturbs the order: stored keys stay       *)
(* stored and the ACTIVE key only becomes newer.                           *)
LEMMA KeysGrow ==
  ASSUME OneRotator, RolloutInv, OrderInv, [Next]_vars
  PROVE  /\ \A v \in Versions : keyStatus[v] # "NONE" => keyStatus'[v] # "NONE"
         /\ GetActiveECHKey <= GetActiveECHKey'
         /\ GetActiveECHKey' \in Nat
<1>1. CASE keyStatus' = keyStatus
  BY <1>1, ActiveKept, NodeTypes
<1>2. CASE SaveNewECHKey(Coordinator)
  <2> DEFINE v == ver[Coordinator]
  <2>1. v \in Versions /\ keyStatus' = Saved(v) /\ GetActiveECHKey' = v /\ pc[Coordinator] = "save"
    BY <1>2, ActiveSaved, NodeTypes DEF SaveNewECHKey
  <2>2. v = curVer /\ v \in Nat
    BY <2>1, NodeTypes DEF OrderInv, CopiesCurrent
  <2>3. GetActiveECHKey <= curVer
    <3>1. CASE GetActiveECHKey = 0
      BY <3>1, NodeTypes
    <3>2. CASE GetActiveECHKey # 0
      BY <3>2, ActiveType DEF RolloutInv, ServerInv, KeysInv, KeysGivenOut
    <3> QED
      BY <3>1, <3>2
  <2>4. \A w \in Versions : keyStatus[w] # "NONE" => keyStatus'[w] # "NONE"
    BY <2>1, SavedTable DEF RolloutInv, ServerInv
  <2> QED
    BY <2>1, <2>2, <2>3, <2>4
<1>3. ASSUME ServerStep PROVE SaveNewECHKey(Coordinator) \/ keyStatus' = keyStatus
  BY <1>3, ServerKinds DEF Increment, FlagOutdated, AssignNode, UnassignNode, Quiet
<1>4. ASSUME NodeSide \/ UNCHANGED vars PROVE keyStatus' = keyStatus
  BY <1>4, NodeSideFrame DEF serverCore, vars
<1> QED
  BY <1>1, <1>2, <1>3, <1>4, StepSides DEF ServerMoves

(* Without the operator's "assign" a node keeps its row.                   *)
LEMMA RowsStay ==
  ASSUME MembersStay, RolloutInv, [Next]_vars, NEW n \in Nodes, Assigned(n)
  PROVE  Assigned(n)'
<1> USE DEF clusterVars, nodeVars, domainVars, syncVars, envVars
<1>1. ASSUME syncStatus' = syncStatus PROVE Assigned(n)'
  BY <1>1 DEF Assigned
<1>2. ASSUME NEW r \in Rotators, FlagOutdated(r) PROVE Assigned(n)'
  BY <1>2 DEF FlagOutdated, Assigned
<1>3. ASSUME NEW x \in Nodes, NEW v, NEW ok \in BOOLEAN, RecordAck(x, v, ok) PROVE Assigned(n)'
  BY <1>3, RowAcked DEF Assigned
<1>4. ASSUME ServerStep, ~ \E r \in Rotators : FlagOutdated(r) PROVE syncStatus' = syncStatus
  <2>1. ASSUME NEW r \in Rotators, Rotate(r) PROVE syncStatus' = syncStatus
    BY <1>4, <2>1 DEF Rotate, Increment, ResetDomains, SaveNewECHKey, RotationFails,
                      MarkPending, MarkPendingLost, StatementLost
  <2>2. ASSUME Publish PROVE syncStatus' = syncStatus
    BY <2>2 DEF Publish, ReconcileCheck, CheckNodes, ListDomains, GetKey, ReadFails,
                UpdateHTTPSRecord, UpdateFails, PassOver, Mark
  <2>3. ~ \E x \in Nodes : AssignNode(x) \/ UnassignNode(x)
    BY DEF AssignNode, UnassignNode, Event, MembersStay
  <2> QED
    BY <1>4, <2>1, <2>2, <2>3 DEF ServerStep, TriggerClusterRotation, ReconcileRotate,
                                  ServerCrash, RotationDue, Tick
<1>5. ASSUME NEW x \in Nodes, AckDelivered(x) PROVE Assigned(n)'
  BY <1>3, <1>5 DEF AckDelivered
<1>6. ASSUME NEW m \in late, LateAck(m) PROVE Assigned(n)'
  BY <1>3, <1>6, NodeTypes DEF LateAck
<1>7. ASSUME NEW x \in Nodes, SyncNode(x) \/ SyncKey(x) \/ SyncRemoved(x) \/ LocalStep(x)
      PROVE  syncStatus' = syncStatus
  BY <1>7 DEF SyncNode, SyncKey, SyncRemoved, LocalStep, serverVars
<1>8. ASSUME NEW x \in Nodes, AckLost(x) \/ AckDelayed(x) \/ LocalFault(x) \/ PollFault(x)
      PROVE  syncStatus' = syncStatus
  BY <1>8 DEF AckLost, AckDelayed, LocalFault, PollFault, serverAtRest
<1>9. ASSUME UNCHANGED vars PROVE syncStatus' = syncStatus
  BY <1>9 DEF vars
<1> QED
  BY <1>1, <1>2, <1>4, <1>5, <1>6, <1>7, <1>8, <1>9, StepSides DEF ServerMoves, NodeSide, AgentStep

(* A node whose files and cycle stay as they are.                          *)
LEMMA FilesAtRest ==
  ASSUME OneRotator, RolloutInv, OrderInv, [Next]_vars, NEW x \in Nodes, FilesOrdered(x),
         cur'[x] = cur[x], prev'[x] = prev[x], loaded'[x] = loaded[x],
         apc'[x] = apc[x], item'[x] = item[x], x \in unbacked' <=> x \in unbacked
  PROVE  FilesOrdered(x)'
<1>1. /\ cur[x] \in Nat /\ (cur[x] # 0 => cur[x] \in Versions)
      /\ prev[x] \in Nat /\ (prev[x] # 0 => prev[x] \in Versions)
      /\ item[x] \in Nat /\ (item[x] # 0 => item[x] \in Versions)
  BY VersionAssumption DEF RolloutInv, AgentTypeOK, Versions
<1>2. \A k \in loaded[x] : k \in Nat
  BY VersionAssumption DEF RolloutInv, AgentTypeOK, Versions
<1>3. \A k \in loaded[x] : k <= GetActiveECHKey'
  BY <1>2, KeysGrow, NodeTypes DEF FilesOrdered
<1>4. /\ cur[x] # 0 => keyStatus'[cur[x]] # "NONE"
      /\ prev[x] # 0 => keyStatus'[prev[x]] # "NONE"
      /\ apc[x] = "install" => keyStatus'[item[x]] # "NONE"
  BY <1>1, KeysGrow DEF FilesOrdered
<1>5. MembersStay => Assigned(x)'
  BY RowsStay DEF FilesOrdered
<1> QED
  BY <1>3, <1>4, <1>5 DEF FilesOrdered

(* The cycle goes on or ends, with the files as they are.                  *)
CycleMoves(n) ==
  /\ apc'[n] \notin Deleting \cup {"install", "reload"}
  /\ UNCHANGED <<cur, prev, loaded, unbacked>>

(* A deployment ends before the new key is in its place.                   *)
Interrupts(n) ==
  /\ apc[n] = "install" /\ apc'[n] \in {"idle", "ackFailed"}
  /\ Interrupted(n)
  /\ UNCHANGED <<cur, loaded>>

(* Files are deleted, all of them or some.                                 *)
Deletes(n) ==
  /\ ~Assigned(n) /\ apc'[n] = "removed"
  /\ \E k \in {cur[n], 0} : cur' = [cur EXCEPT ![n] = k]
  /\ \E k \in {prev[n], 0} : prev' = [prev EXCEPT ![n] = k]
  /\ unbacked' = unbacked \cup {n}
  /\ UNCHANGED loaded

(* The removal is saved, or not.                                           *)
SavesRemoval(n) ==
  /\ apc[n] = "removed" /\ apc'[n] = "reloadRemoved"
  /\ UNCHANGED <<cur, prev, loaded, unbacked>>

(* The step of an agent, for its files.                                    *)
FileStep(n) ==
  \/ CycleMoves(n) \/ Interrupts(n) \/ Deletes(n) \/ SavesRemoval(n)
  \/ SyncKey(n) /\ Received(n, GetActiveECHKey) /\ GetActiveECHKey # 0
  \/ Install(n) \/ InstallUnbacked(n) \/ Reload(n) \/ ReloadRemoved(n)

OthersRest(n) ==
  \A x \in Nodes \ {n} :
    /\ cur'[x] = cur[x] /\ prev'[x] = prev[x] /\ loaded'[x] = loaded[x]
    /\ apc'[x] = apc[x] /\ item'[x] = item[x]
    /\ (x \in unbacked' <=> x \in unbacked)

(* A step on a node is one of these, and touches no other node.            *)
LEMMA FilesSteps ==
  ASSUME RolloutInv, NodeSide
  PROVE  \/ UNCHANGED <<cur, prev, loaded, unbacked, apc, item>>
         \/ \E n \in Nodes : FileStep(n) /\ OthersRest(n)
<1> USE DEF AgentGoto, AgentIdle, fileVars, histories, agentVars, Deleting
<1>1. ASSUME NEW n \in Nodes, SyncNode(n) \/ SaveState(n) \/ AckSent(n)
      PROVE  CycleMoves(n) /\ OthersRest(n)
  BY <1>1, NodeTypes DEF SyncNode, Asks, Requested, SaveState, AckSent, CycleMoves, OthersRest
<1>2. ASSUME NEW n \in Nodes, LocalFault(n)
      PROVE  FileStep(n) /\ OthersRest(n)
  <2>1. CASE ReloadFails(n) \/ ReloadRemovedFails(n) \/ SaveFails(n) \/ StateLost(n)
    BY <2>1, NodeTypes DEF ReloadFails, ReloadRemovedFails, SaveFails, StateLost, CycleMoves,
                           OthersRest, FileStep
  <2>2. CASE SaveRemovedFails(n)
    BY <2>2, NodeTypes DEF SaveRemovedFails, SavesRemoval, OthersRest, FileStep
  <2>3. CASE InstallUnbacked(n)
    BY <2>3, NodeTypes DEF InstallUnbacked, OthersRest, FileStep
  <2>4. Interrupted(n) => \A x \in Nodes \ {n} :
                            prev'[x] = prev[x] /\ (x \in unbacked' <=> x \in unbacked)
    BY NodeTypes DEF Interrupted
  <2>5. CASE InstallFails(n)
    BY <2>4, <2>5, NodeTypes DEF InstallFails, Interrupts, OthersRest, FileStep
  <2>6. CASE AgentCrash(n) /\ apc[n] = "install"
    BY <2>4, <2>6, NodeTypes DEF AgentCrash, Interrupts, OthersRest, FileStep
  <2>7. CASE AgentCrash(n) /\ apc[n] # "install"
    BY <2>7, NodeTypes DEF AgentCrash, CycleMoves, OthersRest, FileStep
  <2> QED
    BY <1>2, <2>1, <2>2, <2>3, <2>5, <2>6, <2>7 DEF LocalFault, FileFault
<1>3. ASSUME NEW n \in Nodes, SyncKey(n)
      PROVE  FileStep(n) /\ OthersRest(n)
  <2>1. CASE GetActiveECHKey # 0
    BY <1>3, <2>1, NodeTypes DEF SyncKey, Received, OthersRest, FileStep
  <2>2. CASE GetActiveECHKey = 0
    BY <1>3, <2>2, NodeTypes DEF SyncKey, CycleMoves, OthersRest, FileStep
  <2> QED
    BY <2>1, <2>2
<1>4. ASSUME NEW n \in Nodes, Install(n) \/ Reload(n) \/ ReloadRemoved(n)
      PROVE  OthersRest(n)
  BY <1>4, NodeTypes DEF Install, Reload, ReloadRemoved, OthersRest
<1>5. ASSUME NEW n \in Nodes, SaveRemoved(n)
      PROVE  FileStep(n) /\ OthersRest(n)
  BY <1>5, NodeTypes DEF SaveRemoved, SavesRemoval, OthersRest, FileStep
<1>6. ASSUME NEW n \in Nodes, ~Assigned(n), Remove(n) \/ RemoveFails(n)
      PROVE  FileStep(n) /\ OthersRest(n)
  BY <1>6, NodeTypes DEF Remove, RemoveFails, Removing, Deletes, OthersRest, FileStep
<1>7. ASSUME NEW n \in Nodes, Asks(n, 0)
      PROVE  CycleMoves(n) /\ OthersRest(n)
  BY <1>7, NodeTypes DEF Asks, Requested, CycleMoves, OthersRest
<1>8. ASSUME NEW m \in late, LateAck(m) PROVE UNCHANGED <<cur, prev, loaded, unbacked, apc, item>>
  BY <1>8 DEF LateAck
<1> QED
  BY <1>1, <1>2, <1>3, <1>4, <1>5, <1>6, <1>7, <1>8
     DEF NodeSide, AgentStep, LocalStep, AckDelivered, AckLost, AckDelayed, SyncRemoved, PollFault,
         FileStep

(* Stored keys are not newer than the ACTIVE one.                          *)
LEMMA NotNewer ==
  ASSUME RolloutInv, OrderInv, NEW k \in 0 .. MaxVersion, k # 0 => keyStatus[k] # "NONE"
  PROVE  k <= GetActiveECHKey
<1>1. CASE k = 0
  BY <1>1, NodeTypes
<1>2. CASE k # 0
  <2>1. k \in Versions
    BY <1>2, VersionAssumption DEF Versions
  <2> QED
    BY <1>2, <2>1 DEF OrderInv, NewestActive
<1> QED
  BY <1>1, <1>2

(* The order of the keys is kept by each of them.                          *)
LEMMA FilesStep ==
  ASSUME OneRotator, RolloutInv, OrderInv, FilesInv, [Next]_vars
  PROVE  FilesInv'
<1>1. CASE UNCHANGED <<cur, prev, loaded, unbacked, apc, item>>
  BY <1>1, FilesAtRest DEF FilesInv
<1>2. ASSUME NodeSide, NEW n \in Nodes, OthersRest(n), FilesOrdered(n)'
      PROVE  FilesInv'
  BY <1>2, FilesAtRest DEF FilesInv, OthersRest
<1>3. ASSUME NodeSide, NEW n \in Nodes, FileStep(n)
      PROVE  FilesOrdered(n)'
  <2> USE DEF AgentGoto, AgentIdle, fileVars, histories
  <2>1. keyStatus' = keyStatus /\ GetActiveECHKey' = GetActiveECHKey
    BY <1>3, NodeSideFrame, ActiveKept DEF serverCore
  <2>2. FilesOrdered(n) /\ (MembersStay => Assigned(n)')
    BY RowsStay DEF FilesInv, FilesOrdered
  <2>3. cur[n] \in Nat /\ prev[n] \in Nat /\ item[n] \in Nat /\ \A k \in loaded[n] : k \in Nat
    BY NodeTypes, VersionAssumption DEF Versions
  <2>4. CASE CycleMoves(n)
    BY <2>1, <2>2, <2>4 DEF FilesOrdered, CycleMoves
  <2>5. CASE Received(n, GetActiveECHKey) /\ GetActiveECHKey # 0
    <3>1. /\ apc[n] = "listed" /\ apc'[n] = "install" /\ item'[n] = GetActiveECHKey
          /\ UNCHANGED <<cur, prev, loaded, unbacked>>
      BY <2>5, NodeTypes DEF Received
    <3>2. keyStatus[GetActiveECHKey] # "NONE"
      BY <2>5, ActiveType
    <3>3. cur[n] <= GetActiveECHKey /\ prev[n] <= GetActiveECHKey
      BY <2>2, NotNewer DEF FilesOrdered, RolloutInv, AgentTypeOK
    <3> QED
      BY <2>1, <2>2, <2>5, <3>1, <3>2, <3>3 DEF FilesOrdered, Deleting
  <2>6. CASE Install(n) \/ InstallUnbacked(n)
    <3>1. /\ apc[n] = "install" /\ apc'[n] = "reload" /\ cur'[n] = item[n] /\ UNCHANGED loaded
          /\ \/ prev'[n] = cur[n] \/ prev'[n] = prev[n] \/ prev'[n] = 0
      BY <2>6, NodeTypes DEF Install, InstallUnbacked
    <3>2. apc[n] \notin Deleting /\ apc'[n] \notin Deleting \cup {"install"}
      BY <3>1 DEF Deleting
    <3>3. prev'[n] <= cur'[n] /\ \A k \in loaded[n] : k <= cur'[n]
      BY <2>2, <2>3, <3>1, <3>2 DEF FilesOrdered
    <3> QED
      BY <2>1, <2>2, <3>1, <3>2, <3>3 DEF FilesOrdered
  <2>7. CASE Interrupts(n)
    <3>1. /\ apc[n] = "install" /\ apc'[n] \in {"idle", "ackFailed"} /\ UNCHANGED <<cur, loaded>>
          /\ prev'[n] = prev[n] \/ (cur[n] # 0 /\ prev'[n] \in {cur[n], 0})
          /\ unbacked \subseteq unbacked'
      BY <2>7, NodeTypes DEF Interrupts, Interrupted
    <3> QED
      BY <2>1, <2>2, <2>3, <3>1 DEF FilesOrdered, Deleting
  <2>8. ASSUME UNCHANGED <<cur, prev>>, loaded'[n] = Included(n), apc'[n] \in {"ack", "idle"}
        PROVE  FilesOrdered(n)'
    <3>1. CASE cur[n] = 0
      <4>1. loaded'[n] = {}
        BY <2>8, <3>1 DEF Included
      <4> QED
        BY <2>1, <2>2, <2>8, <3>1, <4>1 DEF FilesOrdered, Deleting
    <3>2. CASE cur[n] # 0
      <4>1. loaded'[n] = {cur[n], prev[n]} \ {0}
        BY <2>8, <3>2 DEF Included, KeyFiles
      <4>2. prev[n] <= cur[n] /\ cur[n] <= GetActiveECHKey /\ GetActiveECHKey \in Nat
        BY <2>2, <3>2, NotNewer, NodeTypes DEF FilesOrdered, RolloutInv, AgentTypeOK
      <4>3. \A k \in loaded'[n] : k <= cur[n] /\ k <= GetActiveECHKey
        BY <2>3, <4>1, <4>2
      <4> QED
        BY <2>1, <2>2, <2>8, <3>2, <4>3 DEF FilesOrdered, Deleting
    <3> QED
      BY <3>1, <3>2
  <2>9. CASE Reload(n) \/ ReloadRemoved(n)
    BY <2>8, <2>9, NodeTypes DEF Reload, ReloadRemoved
  <2>10. CASE Deletes(n)
    <3>1. /\ apc'[n] = "removed" /\ cur'[n] \in {cur[n], 0} /\ prev'[n] \in {prev[n], 0}
          /\ UNCHANGED loaded /\ ~Assigned(n) /\ n \in unbacked'
      BY <2>10, NodeTypes DEF Deletes
    <3> QED
      BY <2>1, <2>2, <2>3, <3>1 DEF FilesOrdered
  <2>11. CASE SavesRemoval(n)
    BY <2>1, <2>2, <2>11 DEF FilesOrdered, Deleting, SavesRemoval
  <2> QED
    BY <1>3, <2>4, <2>5, <2>6, <2>7, <2>9, <2>10, <2>11 DEF FileStep
<1>4. ASSUME NodeSide PROVE FilesInv'
  BY <1>1, <1>2, <1>3, <1>4, FilesSteps
<1>5. ASSUME ServerMoves(ServerStep) \/ UNCHANGED vars PROVE FilesInv'
  BY <1>1, <1>5 DEF ServerMoves, agentVars, fileVars, histories, vars
<1> QED
  BY <1>4, <1>5, StepSides

(* A node that serves the ACTIVE key has it in ech_current.pem, if it has  *)
(* such a file at all.                                                     *)
LEMMA ActiveIsCurrent ==
  ASSUME RolloutInv, OrderInv, NEW n \in Nodes, FilesOrdered(n),
         GetActiveECHKey \in loaded[n], cur[n] # 0
  PROVE  cur[n] = GetActiveECHKey
<1>1. cur[n] \in Nat /\ cur[n] >= GetActiveECHKey /\ GetActiveECHKey \in Nat
  BY NodeTypes DEF FilesOrdered
<1>2. cur[n] <= GetActiveECHKey
  BY NotNewer DEF FilesOrdered, RolloutInv, AgentTypeOK
<1> QED
  BY <1>1, <1>2

(* An advertised key that a node serves is in one of its two files, or the *)
(* two hold the same key; or it is known that a file may be missing.       *)
AdvertisedOnDisk(n) ==
  n \notin unbacked =>
    \A d \in Domains : dns[d] # 0 /\ dns[d] \in loaded[n] =>
      dns[d] \in {cur[n], prev[n]} \/ cur[n] = prev[n]

DiskInv == \A n \in Nodes : AdvertisedOnDisk(n)

(* The records change under a node at rest: to the ACTIVE key, which is    *)
(* its current one if it serves it.                                        *)
LEMMA DiskAtRest ==
  ASSUME RolloutInv, OrderInv, [Next]_vars, NEW x \in Nodes, FilesOrdered(x), AdvertisedOnDisk(x),
         cur'[x] = cur[x], prev'[x] = prev[x], loaded'[x] = loaded[x],
         x \in unbacked' <=> x \in unbacked
  PROVE  AdvertisedOnDisk(x)'
<1> SUFFICES ASSUME x \notin unbacked, NEW d \in Domains, dns'[d] # 0, dns'[d] \in loaded[x]
             PROVE  dns'[d] \in {cur[x], prev[x]} \/ cur[x] = prev[x]
  BY DEF AdvertisedOnDisk
<1>1. CASE dns'[d] = dns[d]
  BY <1>1 DEF AdvertisedOnDisk
<1>2. CASE dns'[d] = GetActiveECHKey
  <2>1. cur[x] # 0
    BY DEF FilesOrdered
  <2> QED
    BY <1>2, <2>1, ActiveIsCurrent
<1> QED
  BY <1>1, <1>2, DnsWrites

(* Installing the next key moves the advertised one to ech_previous.pem,   *)
(* because it is the ACTIVE or the PREVIOUS one and no key lies between.   *)
LEMMA DiskInstall ==
  ASSUME RolloutInv, OrderInv, RetentionInv, NEW n \in Nodes, FilesOrdered(n), Install(n),
         dns' = dns
  PROVE  AdvertisedOnDisk(n)'
<1>1. /\ apc[n] = "install" /\ cur'[n] = item[n] /\ UNCHANGED <<loaded, unbacked>>
      /\ cur[n] # 0 => prev'[n] = cur[n]
  BY NodeTypes DEF Install, histories
<1> SUFFICES ASSUME n \notin unbacked, NEW d \in Domains, dns[d] # 0, dns[d] \in loaded[n]
             PROVE  dns[d] \in {cur'[n], prev'[n]} \/ cur'[n] = prev'[n]
  BY <1>1 DEF AdvertisedOnDisk
<1> DEFINE k == dns[d]
<1>2. k \in Versions /\ k \in Nat /\ k # 0 /\ keyStatus[k] \in {"ACTIVE", "PREVIOUS"}
  BY NodeTypes, VersionAssumption DEF RetentionInv, AdvertisedKeyRetained, Versions
<1>3. k <= cur[n] /\ cur[n] <= item[n]
  BY <1>1 DEF FilesOrdered
<1>4. cur[n] # 0 /\ cur[n] \in Nat /\ item[n] \in Nat /\ item[n] # 0
  BY <1>2, <1>3, NodeTypes
<1>5. /\ cur[n] \in Versions /\ keyStatus[cur[n]] # "NONE"
      /\ item[n] \in Versions /\ keyStatus[item[n]] # "NONE"
  BY <1>1, <1>4, VersionAssumption DEF FilesOrdered, RolloutInv, AgentTypeOK, Versions
<1>6. cur[n] <= GetActiveECHKey /\ item[n] <= GetActiveECHKey
  BY <1>5 DEF OrderInv, NewestActive
<1>7. cur[n] = k \/ cur[n] = GetActiveECHKey
  <2>1. CASE keyStatus[k] = "ACTIVE"
    BY <1>2, <1>3, <1>4, <1>6, <2>1, ActiveIs
  <2>2. CASE keyStatus[k] = "PREVIOUS" /\ cur[n] # k
    <3>1. k < cur[n]
      BY <1>2, <1>3, <1>4, <2>2
    <3>2. keyStatus[cur[n]] = "ACTIVE"
      BY <1>2, <1>5, <2>2, <3>1 DEF OrderInv, NewestActive
    <3> QED
      BY <1>5, <3>2, ActiveIs
  <2> QED
    BY <1>2, <2>1, <2>2
<1>8. CASE cur[n] = k
  BY <1>1, <1>4, <1>8
<1>9. CASE cur[n] = GetActiveECHKey
  <2>1. item[n] = cur[n]
    BY <1>3, <1>4, <1>6, <1>9
  <2> QED
    BY <1>1, <1>4, <2>1
<1> QED
  BY <1>7, <1>8, <1>9

(* Every step keeps the advertised keys on the disk of the nodes that      *)
(* serve them.                                                             *)
LEMMA DiskStep ==
  ASSUME OneRotator, RolloutInv, OrderInv, RetentionInv, FilesInv, DiskInv, [Next]_vars
  PROVE  DiskInv'
<1>1. CASE UNCHANGED <<cur, prev, loaded, unbacked>>
  BY <1>1, DiskAtRest DEF FilesInv, DiskInv
<1>2. ASSUME NodeSide, NEW n \in Nodes, OthersRest(n), AdvertisedOnDisk(n)'
      PROVE  DiskInv'
  BY <1>2, DiskAtRest DEF FilesInv, DiskInv, OthersRest
<1>3. ASSUME NodeSide, NEW n \in Nodes, FileStep(n) PROVE AdvertisedOnDisk(n)'
  <2> USE DEF AgentGoto, AgentIdle, fileVars, histories
  <2>1. CASE Install(n)
    BY <1>3, <2>1, DiskInstall, NodeSideFrame DEF FilesInv, serverCore
  <2>2. CASE Reload(n) \/ ReloadRemoved(n)
    BY <2>2, NodeTypes DEF Reload, ReloadRemoved, Included, KeyFiles, AdvertisedOnDisk
  <2>3. CASE Deletes(n) \/ InstallUnbacked(n)
    BY <2>3 DEF Deletes, InstallUnbacked, AdvertisedOnDisk
  <2>4. CASE CycleMoves(n) \/ SavesRemoval(n) \/ Received(n, GetActiveECHKey)
    <3>1. UNCHANGED <<cur, prev, loaded, unbacked>>
      BY <2>4 DEF CycleMoves, SavesRemoval, Received
    <3> QED
      BY <3>1, DiskAtRest DEF FilesInv, DiskInv
  <2>5. CASE Interrupts(n)
    <3>1. dns' = dns
      BY <1>3, NodeSideFrame DEF serverCore
    <3>2. /\ UNCHANGED <<cur, loaded>>
          /\ n \notin unbacked' => n \notin unbacked /\ prev'[n] \in {cur[n], prev[n]}
      BY <2>5, NodeTypes DEF Interrupts, Interrupted
    <3> QED
      BY <3>1, <3>2 DEF DiskInv, AdvertisedOnDisk
  <2> QED
    BY <1>3, <2>1, <2>2, <2>3, <2>4, <2>5 DEF FileStep
<1>4. ASSUME NodeSide PROVE DiskInv'
  BY <1>1, <1>2, <1>3, <1>4, FilesSteps
<1>5. ASSUME ServerMoves(ServerStep) \/ UNCHANGED vars PROVE DiskInv'
  BY <1>1, <1>5 DEF ServerMoves, agentVars, fileVars, histories, vars
<1> QED
  BY <1>4, <1>5, StepSides

(* The files stay in order.                                                *)
LEMMA FilesInvariant ==
  ASSUME OneRotator
  PROVE  Spec => [](RolloutInv /\ OrderInv /\ FilesInv)
<1>1. Init => FilesInv
  <2> SUFFICES ASSUME Init, NEW n \in Nodes PROVE FilesOrdered(n)
    BY DEF FilesInv
  <2>1. /\ cur[n] = 0 /\ prev[n] = 0 /\ loaded[n] = {} /\ apc[n] = "idle" /\ syncStatus[n] = "PENDING"
    BY DEF Init, ServerInit, AgentInit
  <2> QED
    BY <2>1 DEF FilesOrdered, Deleting, Assigned
<1>2. RolloutInv /\ OrderInv /\ FilesInv /\ [Next]_vars => FilesInv'
  BY FilesStep
<1> QED
  BY <1>1, <1>2, OrderInvariant, PTL DEF Spec

(* AdvertisedKeyKept: a node does not stop serving an advertised key when  *)
(* it deploys the next one, through crashes, failing reloads and file      *)
(* operations, and whatever joins or leaves; the nodes that have no backup *)
(* to serve are named in the property.  It needs rotations that do not     *)
(* overlap, because a third key deletes the first.                         *)
THEOREM AdvertisedKept ==
  ASSUME OneRotator, ~OverlappingRotations
  PROVE  Spec => AdvertisedKeyKept
<1>1. Init => DiskInv
  BY DEF Init, AgentInit, DiskInv, AdvertisedOnDisk
<1>2. RolloutInv /\ OrderInv /\ RetentionInv /\ FilesInv /\ DiskInv /\ [Next]_vars => DiskInv'
  BY DiskStep
<1>3. RolloutInv /\ FilesInv /\ DiskInv /\ [Next]_vars =>
        [\A n \in Nodes, d \in Domains :
           dns'[d] = dns[d] /\ dns[d] \in loaded[n] \ loaded'[n]
             => n \in unbacked \/ cur[n] = prev[n]]_vars
  <2> SUFFICES ASSUME RolloutInv, FilesInv, DiskInv, [Next]_vars, NEW n \in Nodes, NEW d \in Domains,
                      dns[d] \in loaded[n] \ loaded'[n], n \notin unbacked
               PROVE  cur[n] = prev[n]
    OBVIOUS
  <2>1. dns[d] # 0
    BY NodeTypes, VersionAssumption DEF Versions
  <2>2. dns[d] \in {cur[n], prev[n]} \/ cur[n] = prev[n]
    BY <2>1 DEF DiskInv, AdvertisedOnDisk
  <2>3. NodeSide
    BY StepSides DEF ServerMoves, agentVars, fileVars, vars
  <2>4. PICK x \in Nodes : FileStep(x) /\ OthersRest(x)
    BY <2>3, FilesSteps
  <2>5. x = n
    BY <2>4 DEF OthersRest
  <2>6. Reload(n) \/ ReloadRemoved(n)
    BY <2>4, <2>5 DEF FileStep, CycleMoves, Interrupts, Deletes, SavesRemoval, Received, Install,
                      InstallUnbacked, fileVars
  <2>7. loaded'[n] = Included(n)
    BY <2>6, NodeTypes DEF Reload, ReloadRemoved
  <2>8. cur[n] # 0
    BY DEF FilesInv, FilesOrdered
  <2> QED
    BY <2>1, <2>2, <2>7, <2>8 DEF Included, KeyFiles
<1> QED
  BY <1>1, <1>2, <1>3, RetentionInvariant, FilesInvariant, PTL DEF Spec, AdvertisedKeyKept

(***************************************************************************)
(* What a node forgets                                                     *)
(***************************************************************************)

(* A version on record or a label is one that the server has given out, a  *)
(* label is not 0 where there is an entry, and after a deletion nothing is *)
(* left that is not known to be.                                           *)
Remembers(n) ==
  /\ stVer[n] # 0 \/ label[n] # 0 => curVer # 0
  /\ apc[n] \in Deploying /\ stVer[n] # 0 => label[n] # 0
  /\ apc[n] = "removed" => KeyFiles(n) = {} \/ n \in orphaned

MemoryInv == \A n \in Nodes : Remembers(n)

(* A version once given out, the table goes on having one.                 *)
LEMMA VersionStays ==
  ASSUME RolloutInv, [Next]_vars, curVer # 0
  PROVE  curVer' # 0
<1> USE DEF clusterVars, nodeVars, domainVars, syncVars, envVars
<1>1. curVer \in Nat
  BY NodeTypes
<1>2. ASSUME ServerStep PROVE curVer' \in {curVer, curVer + 1}
  <2>1. ASSUME NEW r \in Rotators, Rotate(r) PROVE curVer' \in {curVer, curVer + 1}
    BY <2>1 DEF Rotate, Increment, FlagOutdated, ResetDomains, SaveNewECHKey, RotationFails,
                MarkPending, MarkPendingLost, StatementLost
  <2>2. ASSUME Publish PROVE curVer' = curVer
    BY <2>2 DEF Publish, ReconcileCheck, CheckNodes, ListDomains, GetKey, ReadFails,
                UpdateHTTPSRecord, UpdateFails, PassOver, Mark
  <2> QED
    BY <1>2, <2>1, <2>2 DEF ServerStep, TriggerClusterRotation, ReconcileRotate, AssignNode,
                            UnassignNode, ServerCrash, RotationDue, Tick
<1>3. ASSUME NodeSide \/ UNCHANGED vars PROVE curVer' = curVer
  BY <1>3, NodeSideFrame DEF serverCore, vars
<1> QED
  BY <1>1, <1>2, <1>3, StepSides DEF ServerMoves

(* What a node can forget in a step: nothing, an entry whose files are     *)
(* gone or known to be left.                                               *)
Forgets(n) ==
  \/ stVer'[n] = stVer[n]
  \/ stVer'[n] = label[n] /\ apc[n] = "save"
  \/ stVer'[n] = 0 /\ apc[n] = "removed" /\ UNCHANGED <<cur, prev, orphaned>>
  \/ stVer'[n] = 0 /\ (KeyFiles(n)' = {} \/ n \in orphaned')

(* The label is taken with the request, kept to the end of the cycle; a    *)
(* deletion leaves nothing, or what it leaves is known.                    *)
Labels(n) ==
  /\ apc'[n] = "listed" /\ apc[n] # "listed" => label'[n] = curVer
  /\ \/ apc'[n] = "idle" /\ label'[n] = 0
     \/ apc'[n] = "listed" /\ label'[n] = curVer
     \/ label'[n] = label[n] /\ (apc'[n] \in Deploying => apc[n] \in Deploying)
  /\ stVer'[n] # stVer[n] => apc'[n] \in {"idle", "reloadRemoved"}
  /\ apc'[n] = "removed" =>
       \/ KeyFiles(n)' = {} \/ n \in orphaned'
       \/ apc[n] = "removed" /\ UNCHANGED <<cur, prev, orphaned>>

(* A step on a node, seen from another one.                                *)
OthersRemember(n) ==
  \A x \in Nodes \ {n} :
    /\ stVer'[x] = stVer[x] /\ label'[x] = label[x] /\ apc'[x] = apc[x]
    /\ cur'[x] = cur[x] /\ prev'[x] = prev[x]
    /\ (x \in orphaned' <=> x \in orphaned)

(* Each step of an agent is of this form.                                  *)
LEMMA MemorySteps ==
  ASSUME RolloutInv, NodeSide
  PROVE  \/ UNCHANGED <<stVer, cur, prev, apc, label, orphaned>>
         \/ \E n \in Nodes : Forgets(n) /\ Labels(n) /\ OthersRemember(n)
<1> USE DEF AgentGoto, AgentIdle, fileVars, histories, agentVars, Deploying
<1> DEFINE Good(n) == Forgets(n) /\ Labels(n) /\ OthersRemember(n)
<1>1. ASSUME NEW n \in Nodes, NEW v, Asks(n, v) PROVE Good(n)
  BY <1>1, NodeTypes DEF Asks, Requested, Forgets, Labels, OthersRemember
<1>2. ASSUME NEW n \in Nodes, SyncKey(n) PROVE Good(n)
  BY <1>2, NodeTypes DEF SyncKey, Received, Forgets, Labels, OthersRemember
<1>3. ASSUME NEW n \in Nodes, Remove(n) \/ RemoveFails(n) PROVE Good(n)
  <2>1. KeyFiles(n)' = {} \/ n \in orphaned'
    BY <1>3, NodeTypes DEF Remove, RemoveFails, Removing, KeyFiles
  <2>2. /\ stVer' = stVer /\ label' = label /\ apc'[n] = "removed"
        /\ OthersRemember(n)
    BY <1>3, NodeTypes DEF Remove, RemoveFails, Removing, OthersRemember
  <2> QED
    BY <2>1, <2>2 DEF Forgets, Labels
<1>4. ASSUME NEW n \in Nodes, AckSent(n) PROVE Good(n)
  BY <1>4, NodeTypes DEF AckSent, Forgets, Labels, OthersRemember
<1>5. ASSUME NEW n \in Nodes, Install(n) \/ InstallUnbacked(n) \/ Reload(n) \/ ReloadFails(n) PROVE Good(n)
  BY <1>5, NodeTypes DEF Install, InstallUnbacked, Reload, ReloadFails, Forgets, Labels, OthersRemember
<1>6. ASSUME NEW n \in Nodes, SaveState(n) PROVE Good(n)
  BY <1>6, NodeTypes DEF SaveState, Forgets, Labels, OthersRemember
<1>7. ASSUME NEW n \in Nodes, SaveRemoved(n) \/ ReloadRemoved(n) \/ ReloadRemovedFails(n) PROVE Good(n)
  BY <1>7, NodeTypes DEF SaveRemoved, ReloadRemoved, ReloadRemovedFails, Forgets, Labels, OthersRemember
<1>8. ASSUME NEW n \in Nodes, Interrupted(n)
      PROVE  \A x \in Nodes \ {n} : prev'[x] = prev[x]
  BY <1>8, NodeTypes DEF Interrupted
<1>9. ASSUME NEW n \in Nodes, Unwritten(n), UNCHANGED <<cur, prev>>
      PROVE  /\ Forgets(n)
             /\ \A x \in Nodes \ {n} : stVer'[x] = stVer[x] /\ (x \in orphaned' <=> x \in orphaned)
  <2>1. KeyFiles(n)' = KeyFiles(n)
    BY <1>9 DEF KeyFiles
  <2> QED
    BY <1>9, <2>1, NodeTypes DEF Unwritten, Forgets
<1>10. ASSUME NEW n \in Nodes, InstallFails(n) PROVE Good(n)
  BY <1>8, <1>10, NodeTypes DEF InstallFails, Forgets, Labels, OthersRemember
<1>11. ASSUME NEW n \in Nodes, SaveFails(n) \/ SaveRemovedFails(n) PROVE Good(n)
  <2>1. Unwritten(n) /\ UNCHANGED <<cur, prev>>
    BY <1>11 DEF SaveFails, SaveRemovedFails
  <2>2. Labels(n)
    BY <1>11, NodeTypes DEF SaveFails, SaveRemovedFails, Labels
  <2>3. \A x \in Nodes \ {n} : label'[x] = label[x] /\ apc'[x] = apc[x]
    BY <1>11, NodeTypes DEF SaveFails, SaveRemovedFails
  <2> QED
    BY <1>9, <2>1, <2>2, <2>3 DEF OthersRemember
<1>12. ASSUME NEW n \in Nodes, StateLost(n) PROVE Good(n)
  <2>1. KeyFiles(n)' = KeyFiles(n)
    BY <1>12 DEF StateLost, KeyFiles
  <2> QED
    BY <1>12, <2>1, NodeTypes DEF StateLost, Forgets, Labels, OthersRemember
<1>13. ASSUME NEW n \in Nodes, AgentCrash(n) PROVE Good(n)
  <2>1. Labels(n) /\ \A x \in Nodes \ {n} : label'[x] = label[x] /\ apc'[x] = apc[x] /\ cur'[x] = cur[x]
    BY <1>13, NodeTypes DEF AgentCrash, Labels
  <2>2. CASE apc[n] \in {"save", "removed"}
    <3>1. Unwritten(n) /\ UNCHANGED <<cur, prev>>
      BY <1>13, <2>2 DEF AgentCrash
    <3> QED
      BY <1>9, <2>1, <3>1 DEF OthersRemember
  <2>3. CASE apc[n] \notin {"save", "removed"}
    BY <1>8, <1>13, <2>1, <2>3 DEF AgentCrash, Forgets, OthersRemember
  <2> QED
    BY <2>2, <2>3
<1>14. ASSUME NEW m \in late, LateAck(m) PROVE UNCHANGED <<stVer, cur, prev, apc, label, orphaned>>
  BY <1>14 DEF LateAck
<1> QED
  BY <1>1, <1>2, <1>3, <1>4, <1>5, <1>6, <1>7, <1>10, <1>11, <1>12, <1>13, <1>14
     DEF NodeSide, AgentStep, LocalStep, LocalFault, FileFault, SyncNode, SyncRemoved, PollFault,
         AckDelivered, AckLost, AckDelayed

(* Every step keeps it.                                                    *)
LEMMA MemoryStep ==
  ASSUME RolloutInv, MemoryInv, [Next]_vars
  PROVE  /\ MemoryInv'
         /\ \A n \in Nodes : stVer[n] # 0 /\ stVer'[n] = 0 => KeyFiles(n)' = {} \/ n \in orphaned'
<1> DEFINE Kept(n) == stVer[n] # 0 /\ stVer'[n] = 0 => KeyFiles(n)' = {} \/ n \in orphaned'
<1> SUFFICES ASSUME NEW n \in Nodes PROVE Remembers(n)' /\ Kept(n)
  BY DEF MemoryInv
<1>1. Remembers(n)
  BY DEF MemoryInv
<1>2. ASSUME stVer'[n] = stVer[n], label'[n] = label[n], apc'[n] = apc[n],
             cur'[n] = cur[n], prev'[n] = prev[n], n \in orphaned' <=> n \in orphaned
      PROVE  Remembers(n)' /\ Kept(n)
  BY <1>1, <1>2, VersionStays DEF Remembers, KeyFiles
<1>3. ASSUME NodeSide, Forgets(n), Labels(n)
      PROVE  Remembers(n)' /\ Kept(n)
  <2>1. curVer' = curVer
    BY <1>3, NodeSideFrame DEF serverCore, clusterVars
  <2>2. KeyFiles(n)' = KeyFiles(n) \/ ~UNCHANGED <<cur, prev>>
    BY DEF KeyFiles
  <2>3. apc[n] = "save" => apc[n] \in Deploying
    BY DEF Deploying
  <2>4. Kept(n)
    BY <1>1, <1>3, <2>2, <2>3 DEF Forgets, Remembers
  <2>5. (stVer'[n] # 0 \/ label'[n] # 0 => curVer' # 0) /\ (apc'[n] = "removed" => KeyFiles(n)' = {} \/ n \in orphaned')
    BY <1>1, <1>3, <2>1, <2>2 DEF Forgets, Labels, Remembers
  <2>6. apc'[n] \in Deploying /\ stVer'[n] # 0 => label'[n] # 0
    BY <1>1, <1>3 DEF Labels, Remembers, Deploying
  <2> QED
    BY <2>4, <2>5, <2>6 DEF Remembers
<1>4. CASE NodeSide
  BY <1>2, <1>3, <1>4, MemorySteps DEF OthersRemember
<1>5. CASE ServerMoves(ServerStep) \/ UNCHANGED vars
  BY <1>2, <1>5 DEF ServerMoves, agentVars, fileVars, histories, vars
<1> QED
  BY <1>4, <1>5, StepSides

(* NoKeysForgotten: the entry of a cluster leaves a node's state file only *)
(* when its key files are gone, whatever joins, leaves, crashes or fails;  *)
(* the exceptions, a deletion that failed and a state that was lost, are   *)
(* named in the property.                                                  *)
THEOREM KeysNotForgotten == Spec => NoKeysForgotten
<1>1. Init => MemoryInv
  BY DEF Init, ServerInit, AgentInit, MemoryInv, Remembers, Deploying
<1>2. RolloutInv /\ MemoryInv /\ [Next]_vars =>
        /\ MemoryInv'
        /\ [\A n \in Nodes :
              stVer[n] # 0 /\ stVer'[n] = 0 => KeyFiles(n)' = {} \/ n \in orphaned']_vars
  BY MemoryStep
<1> QED
  BY <1>1, <1>2, RolloutInvariant, PTL DEF Spec, NoKeysForgotten

(***************************************************************************)
(* What the coordinator passes over as synced                              *)
(***************************************************************************)

(* No second mark can be lost: faults of the database do not occur, or     *)
(* only one fault of any kind does.                                        *)
OneMarkLost == "dbError" \notin EnvEvents \/ MaxEvents <= 1

(* A domain the coordinator passes over, by the rotation in its row.       *)
Fresh(d)  == domStatus[d] = "SYNCED" /\ domSynced[d] >= lastRot
NoneFresh == \A d \in Domains : ~Fresh(d)

(* The marks a rotation must take back have been lost once.                *)
MarkLost == events > 0 /\ "dbError" \in EnvEvents

(* The coordinator's clock is not behind the rotation it notes.            *)
TimesOrdered ==
  /\ lastRot <= clock
  /\ pc[Coordinator] = "increment" => lastRot <= now[Coordinator] /\ now[Coordinator] <= clock

(* A fresh domain carries the ACTIVE key, except between the save of a key *)
(* and MarkPending.  There no domain is fresh, because ResetDomains came   *)
(* before; the domains chosen for publication are not fresh until they are *)
(* marked, and are marked once their record carries the key in hand.       *)
FreshIsCurrent ==
  /\ pc[Coordinator] # "pending" => \A d \in Domains : Fresh(d) => dns[d] = GetActiveECHKey
  /\ pc[Coordinator] \in {"save", "pending"} => NoneFresh \/ MarkLost
  /\ pc[Coordinator] \in {"check", "list"} => seenRot = lastRot \/ NoneFresh
  /\ pc[Coordinator] \in {"getkey", "publish"} => \A d \in todo : Fresh(d) => <<d, "SYNCED">> \in marking
  /\ \A d \in Domains : <<d, "SYNCED">> \in marking => dns[d] = key
  /\ marking # {} => pc[Coordinator] = "publish"
  /\ \A p, q \in marking : p = q

MarksInv == TimesOrdered /\ FreshIsCurrent

(* The types these proofs need.                                            *)
LEMMA MarkTypes ==
  ASSUME OneRotator, RolloutInv
  PROVE  /\ lastRot \in Nat /\ clock \in Nat /\ clock > 0 /\ events \in Nat /\ MaxEvents \in Nat
         /\ seenRot \in Nat /\ key \in Nat
         /\ now \in [Rotators -> Nat] /\ pc \in [Rotators -> CoordSteps]
         /\ Coordinator \in Rotators /\ \A r \in Rotators : r = Coordinator
         /\ domStatus \in [Domains -> DomainStates] /\ domSynced \in [Domains -> Nat]
         /\ dns \in [Domains -> Nat]
         /\ todo \subseteq Domains /\ marking \subseteq Domains \X {"SYNCED", "FAILED"}
<1>1. /\ 0 .. MaxTime \subseteq Nat /\ 0 .. MaxTime + 1 \subseteq Nat /\ 0 .. MaxVersion \subseteq Nat
      /\ 0 .. MaxEvents \subseteq Nat /\ MaxEvents \in Nat
      /\ \A c \in 1 .. MaxTime : c \in Nat /\ c > 0
  BY ServerAssumption, VersionAssumption
<1> QED
  BY <1>1 DEF RolloutInv, ServerInv, TypeOK, Rotators, OneRotator

(* Faults are only counted up.                                             *)
LEMMA EventsGrow ==
  ASSUME OneRotator, RolloutInv, NodeSide \/ \E n \in Nodes : AssignNode(n) \/ UnassignNode(n)
  PROVE  events <= events'
<1> USE MarkTypes DEF Event, serverVars
<1>1. ASSUME NodeSide PROVE events <= events'
  BY <1>1 DEF NodeSide, AgentStep, SyncNode, SyncKey, SyncRemoved, LocalStep, AckDelivered, AckLost,
              AckDelayed, LocalFault, PollFault, LateAck
<1> QED
  BY <1>1 DEF AssignNode, UnassignNode

(* The marks stand while the coordinator does not move.                    *)
LEMMA MarksAtRest ==
  ASSUME OneRotator, RolloutInv, MarksInv,
         UNCHANGED <<lastRot, keyStatus, domStatus, domSynced, dns, seenRot, todo, marking, key, pc, now>>,
         clock <= clock', clock' \in Nat, events <= events', events' \in Nat
  PROVE  MarksInv'
<1>1. GetActiveECHKey' = GetActiveECHKey
  BY ActiveKept
<1>2. TimesOrdered'
  BY MarkTypes DEF MarksInv, TimesOrdered
<1>3. MarkLost => MarkLost'
  BY MarkTypes DEF MarkLost
<1>4. NoneFresh' <=> NoneFresh
  BY DEF NoneFresh, Fresh
<1>5. FreshIsCurrent'
  BY <1>1, <1>3, <1>4 DEF MarksInv, FreshIsCurrent, Fresh
<1> QED
  BY <1>2, <1>5 DEF MarksInv

(* The rotation takes the marks back before it stores the new key and once *)
(* more after, so that one of the two may be lost.                         *)
LEMMA MarksRotation ==
  ASSUME OneRotator, OneMarkLost, RolloutInv, MarksInv, ReconcileRotate \/ Rotate(Coordinator)
  PROVE  MarksInv'
<1> USE MarkTypes DEF clusterVars, nodeVars, domainVars, syncVars, envVars, Goto
<1>1. CASE ReconcileRotate
  <2>1. /\ pc'[Coordinator] = "increment" /\ now'[Coordinator] = clock /\ pc[Coordinator] = "idle"
        /\ UNCHANGED <<lastRot, keyStatus, domStatus, domSynced, dns, todo, marking, key, clock>>
    BY <1>1 DEF ReconcileRotate
  <2> QED
    BY <2>1, ActiveKept DEF MarksInv, TimesOrdered, FreshIsCurrent, Fresh
<1>2. CASE Increment(Coordinator)
  <2>1. /\ pc[Coordinator] = "increment" /\ pc'[Coordinator] = "flag" /\ lastRot' = now[Coordinator]
        /\ UNCHANGED <<keyStatus, domStatus, domSynced, dns, todo, marking, key, clock>>
    BY <1>2 DEF Increment
  <2>2. \A d \in Domains : Fresh(d)' => Fresh(d)
    BY <2>1 DEF Fresh, MarksInv, TimesOrdered
  <2> QED
    BY <2>1, <2>2, ActiveKept DEF MarksInv, TimesOrdered, FreshIsCurrent
<1>3. CASE FlagOutdated(Coordinator) \/ RotationFails(Coordinator)
  <2>1. /\ pc[Coordinator] \in {"flag", "increment", "save"} /\ pc'[Coordinator] \in {"reset", "idle"}
        /\ UNCHANGED <<lastRot, keyStatus, domStatus, domSynced, dns, todo, marking, key, clock>>
    BY <1>3 DEF FlagOutdated, RotationFails
  <2> QED
    BY <2>1, ActiveKept DEF MarksInv, TimesOrdered, FreshIsCurrent, Fresh
<1>4. CASE ResetDomains(Coordinator)
  <2>1. /\ pc[Coordinator] = "reset" /\ pc'[Coordinator] = "save"
        /\ domStatus' = [d \in Domains |-> "PENDING"]
        /\ UNCHANGED <<lastRot, keyStatus, dns, todo, marking, key, clock>>
    BY <1>4 DEF ResetDomains
  <2>2. \A d \in Domains : ~Fresh(d)'
    BY <2>1 DEF Fresh
  <2> QED
    BY <2>1, <2>2 DEF MarksInv, TimesOrdered, FreshIsCurrent, NoneFresh
<1>5. CASE StatementLost(Coordinator)
  <2>1. /\ pc[Coordinator] \in {"flag", "reset"} /\ pc'[Coordinator] \in {"reset", "save"}
        /\ UNCHANGED <<lastRot, keyStatus, domStatus, domSynced, dns, todo, marking, key, clock>>
        /\ MarkLost'
    BY <1>5 DEF StatementLost, Event, MarkLost
  <2> QED
    BY <2>1, ActiveKept DEF MarksInv, TimesOrdered, FreshIsCurrent, Fresh
<1>6. CASE SaveNewECHKey(Coordinator)
  <2>1. /\ pc[Coordinator] = "save" /\ pc'[Coordinator] = "pending"
        /\ UNCHANGED <<lastRot, domStatus, domSynced, dns, todo, marking, key, clock, events>>
    BY <1>6 DEF SaveNewECHKey
  <2>2. NoneFresh' <=> NoneFresh
    BY <2>1 DEF NoneFresh, Fresh
  <2> QED
    BY <2>1, <2>2 DEF MarksInv, TimesOrdered, FreshIsCurrent, MarkLost
<1>7. CASE MarkPending(Coordinator)
  <2>1. /\ pc[Coordinator] = "pending" /\ pc'[Coordinator] = "check"
        /\ domStatus' = [d \in Domains |-> "PENDING"]
        /\ UNCHANGED <<lastRot, keyStatus, dns, todo, marking, key, clock>>
    BY <1>7 DEF MarkPending, Rotated
  <2>2. \A d \in Domains : ~Fresh(d)'
    BY <2>1 DEF Fresh
  <2> QED
    BY <2>1, <2>2 DEF MarksInv, TimesOrdered, FreshIsCurrent, NoneFresh
<1>8. CASE MarkPendingLost(Coordinator)
  <2>1. /\ pc[Coordinator] = "pending" /\ pc'[Coordinator] = "check"
        /\ UNCHANGED <<lastRot, keyStatus, domStatus, domSynced, dns, todo, marking, key, clock>>
    BY <1>8 DEF MarkPendingLost, Rotated
  <2>2. ~MarkLost
    BY <1>8 DEF MarkPendingLost, Event, MarkLost, OneMarkLost
  <2>3. \A d \in Domains : ~Fresh(d)'
    BY <2>1, <2>2 DEF Fresh, MarksInv, FreshIsCurrent, NoneFresh
  <2> QED
    BY <2>1, <2>3 DEF MarksInv, TimesOrdered, FreshIsCurrent, NoneFresh
<1> QED
  BY <1>1, <1>2, <1>3, <1>4, <1>5, <1>6, <1>7, <1>8 DEF Rotate

(* The coordinator chooses the domains that are not fresh, and marks each  *)
(* SYNCED once its record carries the ACTIVE key.                          *)
LEMMA MarksPublication ==
  ASSUME OneRotator, RolloutInv, OrderInv, MarksInv, Publish
  PROVE  MarksInv'
<1> USE MarkTypes DEF clusterVars, nodeVars, domainVars, syncVars, envVars, Goto
<1>0. ASSUME UNCHANGED <<lastRot, keyStatus, domStatus, domSynced, clock>>,
             pc[Coordinator] # "pending", pc'[Coordinator] # "increment"
      PROVE  /\ TimesOrdered'
             /\ GetActiveECHKey' = GetActiveECHKey
             /\ \A d \in Domains : Fresh(d)' <=> Fresh(d)
  BY <1>0, ActiveKept DEF MarksInv, TimesOrdered, Fresh
<1>1. ASSUME CycleEnds, pc[Coordinator] # "pending",
             UNCHANGED <<lastRot, keyStatus, domStatus, domSynced, dns, clock>>
      PROVE  MarksInv'
  <2>1. pc'[Coordinator] = "idle" /\ marking' = {}
    BY <1>1 DEF CycleEnds
  <2> QED
    BY <1>0, <1>1, <2>1 DEF MarksInv, FreshIsCurrent
<1>2. CASE ReconcileCheck
  <2>1. /\ pc[Coordinator] = "idle" /\ pc'[Coordinator] = "check" /\ seenRot' = lastRot
        /\ UNCHANGED <<lastRot, keyStatus, domStatus, domSynced, dns, marking, key, clock>>
    BY <1>2 DEF ReconcileCheck
  <2> QED
    BY <1>0, <2>1 DEF MarksInv, FreshIsCurrent
<1>3. CASE CheckNodes
  <2>1. /\ pc[Coordinator] = "check"
        /\ UNCHANGED <<lastRot, keyStatus, domStatus, domSynced, dns, clock>>
        /\ CycleEnds \/ (pc'[Coordinator] = "list" /\ UNCHANGED <<seenRot, marking, key>>)
    BY <1>3 DEF CheckNodes
  <2> QED
    BY <1>0, <1>1, <2>1 DEF MarksInv, FreshIsCurrent, NoneFresh
<1>4. CASE ListDomains
  <2>1. /\ pc[Coordinator] = "list"
        /\ UNCHANGED <<lastRot, keyStatus, domStatus, domSynced, dns, clock>>
        /\ \/ CycleEnds
           \/ /\ pc'[Coordinator] = "getkey" /\ UNCHANGED <<marking, key>>
              /\ todo' = {d \in Domains : ~UpToDate(d)}
    BY <1>4 DEF ListDomains
  <2>2. \A d \in Domains : ~UpToDate(d) => ~Fresh(d)
    BY <2>1 DEF MarksInv, FreshIsCurrent, NoneFresh, UpToDate, Fresh
  <2> QED
    BY <1>0, <1>1, <2>1, <2>2 DEF MarksInv, FreshIsCurrent
<1>5. CASE GetKey
  <2>1. /\ pc[Coordinator] = "getkey"
        /\ UNCHANGED <<lastRot, keyStatus, domStatus, domSynced, dns, clock>>
        /\ CycleEnds \/ (pc'[Coordinator] = "publish" /\ UNCHANGED <<todo, marking>>)
    BY <1>5 DEF GetKey
  <2> QED
    BY <1>0, <1>1, <2>1 DEF MarksInv, FreshIsCurrent
<1>6. CASE ReadFails
  BY <1>1, <1>6 DEF ReadFails
<1>7. ASSUME NEW d \in Domains, UpdateHTTPSRecord(d) \/ UpdateFails(d) PROVE MarksInv'
  <2>1. /\ pc[Coordinator] = "publish" /\ marking = {} /\ d \in todo
        /\ UNCHANGED <<lastRot, keyStatus, domStatus, domSynced, pc, todo, key, clock>>
        /\ \A e \in Domains : e # d => dns'[e] = dns[e]
        /\ \/ marking' = {<<d, "SYNCED">>} /\ dns'[d] = key
           \/ marking' = {<<d, "FAILED">>}
    BY <1>7 DEF UpdateHTTPSRecord, UpdateFails
  <2>2. ~Fresh(d)
    BY <2>1 DEF MarksInv, FreshIsCurrent
  <2> QED
    BY <1>0, <2>1, <2>2 DEF MarksInv, FreshIsCurrent
<1>8. ASSUME NEW d \in Domains, PassOver(d) PROVE MarksInv'
  <2>1. /\ pc[Coordinator] = "publish"
        /\ UNCHANGED <<lastRot, keyStatus, domStatus, domSynced, dns, clock>>
        /\ CycleEnds \/ (todo' = todo \ {d} /\ marking' = {} /\ UNCHANGED <<pc, key>>)
        /\ marking = {} \/ \E s \in {"SYNCED", "FAILED"} : <<d, s>> \in marking
    BY <1>8 DEF PassOver, NextDomain
  <2>2. \A e \in Domains : e # d => <<e, "SYNCED">> \notin marking
    BY <2>1 DEF MarksInv, FreshIsCurrent
  <2> QED
    BY <1>0, <1>1, <2>1, <2>2 DEF MarksInv, FreshIsCurrent
<1>9. ASSUME NEW d \in Domains, NEW s \in {"SYNCED", "FAILED"}, Mark(d, s) PROVE MarksInv'
  <2>1. /\ <<d, s>> \in marking
        /\ domStatus' = [domStatus EXCEPT ![d] = s]
        /\ domSynced' = [domSynced EXCEPT ![d] = now[Coordinator]]
        /\ UNCHANGED <<lastRot, keyStatus, dns, clock>>
        /\ \/ pc'[Coordinator] = "idle" /\ marking' = {}
           \/ todo' = todo \ {d} /\ marking' = {} /\ UNCHANGED <<pc, key>>
    BY <1>9 DEF Mark, NextDomain, CycleEnds
  <2>2. \A e \in Domains : e # d => <<e, "SYNCED">> \notin marking /\ (Fresh(e)' <=> Fresh(e))
    BY <2>1 DEF MarksInv, FreshIsCurrent, Fresh
  <2>3. Fresh(d)' => s = "SYNCED"
    BY <2>1 DEF Fresh
  <2>4. s = "SYNCED" => dns[d] = key /\ pc[Coordinator] = "publish" /\ key = GetActiveECHKey
    BY <2>1 DEF MarksInv, FreshIsCurrent, OrderInv, CopiesCurrent
  <2>5. pc[Coordinator] = "publish"
    BY <2>1 DEF MarksInv, FreshIsCurrent
  <2>6. GetActiveECHKey' = GetActiveECHKey /\ TimesOrdered'
    BY <2>1, <2>5, ActiveKept DEF MarksInv, TimesOrdered
  <2>7. \A e \in Domains : Fresh(e)' => dns'[e] = GetActiveECHKey'
    BY <2>1, <2>2, <2>3, <2>4, <2>5, <2>6 DEF MarksInv, FreshIsCurrent
  <2>8. pc'[Coordinator] = "publish" => \A e \in todo' : ~Fresh(e)'
    BY <2>1, <2>2, <2>5 DEF MarksInv, FreshIsCurrent
  <2>9. pc'[Coordinator] \in {"idle", "publish"} /\ marking' = {}
    BY <2>1, <2>5
  <2> QED
    BY <2>6, <2>7, <2>8, <2>9 DEF MarksInv, FreshIsCurrent
<1> QED
  BY <1>2, <1>3, <1>4, <1>5, <1>6, <1>7, <1>8, <1>9 DEF Publish

(* Every step keeps the marks true.                                        *)
LEMMA MarksStep ==
  ASSUME OneRotator, OneMarkLost, RolloutInv, OrderInv, MarksInv, [Next]_vars
  PROVE  MarksInv'
<1> USE MarkTypes DEF clusterVars, nodeVars, domainVars, syncVars, envVars, Goto
<1> DEFINE Rest == /\ UNCHANGED <<lastRot, keyStatus, domStatus, domSynced, dns, seenRot, todo, marking, key, pc, now>>
                   /\ clock <= clock' /\ clock' \in Nat
                   /\ events <= events' /\ events' \in Nat
<1>1. Rest => MarksInv'
  BY MarksAtRest
<1>2. ASSUME NodeSide PROVE Rest
  <2>1. events <= events' /\ events' \in 0 .. MaxEvents /\ UNCHANGED serverCore
    BY <1>2, NodeSideFrame, EventsGrow
  <2> QED
    BY <2>1 DEF serverCore
<1>3. ASSUME NEW n \in Nodes, AssignNode(n) \/ UnassignNode(n) PROVE Rest
  BY <1>3, EventsGrow DEF AssignNode, UnassignNode, Event
<1>4. ASSUME RotationDue \/ Tick PROVE Rest
  BY <1>4 DEF RotationDue, Tick
<1>5. CASE ServerCrash
  <2>1. /\ pc'[Coordinator] = "idle" /\ marking' = {}
        /\ UNCHANGED <<lastRot, keyStatus, domStatus, domSynced, dns, clock>>
        /\ ~MarkLost
    BY <1>5 DEF ServerCrash, Event, MarkLost, OneMarkLost
  <2>2. \A d \in Domains : Fresh(d)' => dns[d] = GetActiveECHKey
    BY <2>1 DEF MarksInv, FreshIsCurrent, NoneFresh, Fresh
  <2> QED
    BY <2>1, <2>2, ActiveKept DEF MarksInv, TimesOrdered, FreshIsCurrent
<1>6. CASE UNCHANGED vars
  BY <1>1, <1>6 DEF vars
<1>7. ~ \E a \in Admins : TriggerClusterRotation(a)
  BY DEF OneRotator
<1> QED
  BY <1>1, <1>2, <1>3, <1>4, <1>5, <1>6, <1>7, MarksRotation, MarksPublication, StepSides
     DEF ServerMoves, ServerStep

(* SyncedIsCurrent: a domain that the coordinator passes over as synced    *)
(* carries the ACTIVE key, when only the coordinator rotates the key.  The *)
(* timestamps of syncClusterDomainsDNS are whole seconds, so that a record *)
(* published in the second of the rotation looks as new as it: what keeps  *)
(* it from being passed over are the two statements that take the marks    *)
(* back, ResetDomains and MarkPending, of which one may be lost.           *)
THEOREM SyncedCurrent ==
  ASSUME OneRotator, OneMarkLost
  PROVE  Spec => []SyncedIsCurrent
<1>1. Init => MarksInv
  <2> SUFFICES ASSUME Init PROVE MarksInv
    OBVIOUS
  <2>1. /\ lastRot = 0 /\ clock = 1 /\ pc[Coordinator] = "idle" /\ marking = {}
        /\ domStatus = [d \in Domains |-> "PENDING"]
    BY DEF Init, ServerInit, Rotators
  <2> QED
    BY <2>1 DEF MarksInv, TimesOrdered, FreshIsCurrent, Fresh
<1>2. RolloutInv /\ OrderInv /\ MarksInv /\ [Next]_vars => MarksInv'
  BY MarksStep
<1>3. MarksInv => SyncedIsCurrent
  BY DEF MarksInv, FreshIsCurrent, Fresh, SyncedIsCurrent
<1> QED
  BY <1>1, <1>2, <1>3, OrderInvariant, PTL DEF Spec

(***************************************************************************)
(* The two phases                                                          *)
(***************************************************************************)

(* While the coordinator publishes, every node serves the ACTIVE key.      *)
PublishedServed ==
  pc[Coordinator] \in {"list", "getkey", "publish"} /\ GetActiveECHKey # 0 =>
    \A n \in Nodes : GetActiveECHKey \in loaded[n]

PhasesInv == RolloutInv /\ OrderInv /\ BeliefInv /\ FilesInv /\ PublishedServed

(* A step that is not a reload leaves the proxies serving what they serve; *)
(* one on a node that serves the ACTIVE key leaves it that key.            *)
LEMMA ProxySteps ==
  ASSUME MembersStay, RolloutInv, OrderInv, FilesInv, [Next]_vars
  PROVE  \/ loaded' = loaded
         \/ /\ UNCHANGED serverCore
            /\ \E n \in Nodes : \E K \in SUBSET Versions :
                 /\ loaded' = [loaded EXCEPT ![n] = K]
                 /\ GetActiveECHKey \in loaded[n] => GetActiveECHKey \in K
<1>1. ASSUME ServerMoves(ServerStep) \/ UNCHANGED vars PROVE loaded' = loaded
  BY <1>1 DEF ServerMoves, agentVars, fileVars, histories, vars
<1>2. ASSUME NodeSide, NEW n \in Nodes, Reload(n)
      PROVE  /\ UNCHANGED serverCore
             /\ KeyFiles(n) \in SUBSET Versions
             /\ loaded' = [loaded EXCEPT ![n] = KeyFiles(n)]
             /\ GetActiveECHKey \in loaded[n] => GetActiveECHKey \in KeyFiles(n)
  <2>1. UNCHANGED serverCore
    BY <1>2, NodeSideFrame
  <2>2. KeyFiles(n) \in SUBSET Versions
    BY VersionAssumption DEF KeyFiles, Versions, RolloutInv, AgentTypeOK
  <2>3. apc[n] = "reload" /\ cur[n] # 0
    BY <1>2 DEF Reload, FilesInv, FilesOrdered
  <2>4. loaded' = [loaded EXCEPT ![n] = KeyFiles(n)]
    BY <1>2, <2>3 DEF Reload, Included
  <2>5. GetActiveECHKey \in loaded[n] => cur[n] = GetActiveECHKey
    BY <2>3, ActiveIsCurrent DEF FilesInv
  <2> QED
    BY <2>1, <2>2, <2>3, <2>4, <2>5 DEF KeyFiles
<1>3. ASSUME NEW n \in Nodes PROVE ~ReloadRemoved(n)
  BY <1>3 DEF ReloadRemoved, FilesInv, FilesOrdered, Deleting
<1>4. ASSUME NodeSide, ~ \E n \in Nodes : Reload(n) PROVE loaded' = loaded
  BY <1>3, <1>4, FilesSteps
     DEF FileStep, CycleMoves, Interrupts, Deletes, SavesRemoval, Received, Install, InstallUnbacked, fileVars
<1> QED
  BY <1>1, <1>2, <1>4, StepSides

(* The first phase is complete when CheckNodes finds it so, and a node     *)
(* does not lose the ACTIVE key afterwards.                                *)
LEMMA PublishedServedStep ==
  ASSUME OneRotator, MembersStay, PhasesInv, [Next]_vars
  PROVE  PublishedServed'
<1> USE DEF PhasesInv, clusterVars, nodeVars, domainVars, syncVars, envVars, Goto, Unsaved
<1> DEFINE Publishing == {"list", "getkey", "publish"}
<1>0. /\ pc \in [Rotators -> CoordSteps] /\ Coordinator \in Rotators
      /\ \A r \in Rotators : r = Coordinator
      /\ loaded \in [Nodes -> SUBSET Versions]
  BY NodeTypes DEF Rotators, OneRotator
<1>1. ASSUME keyStatus' = keyStatus, pc'[Coordinator] \in Publishing => pc[Coordinator] \in Publishing
      PROVE  PublishedServed'
  BY <1>0, <1>1, ActiveKept, ProxySteps DEF PublishedServed
<1>2. ASSUME pc'[Coordinator] \notin Publishing PROVE PublishedServed'
  BY <1>2 DEF PublishedServed
<1>3. CASE CheckNodes /\ UNCHANGED agentVars
  <2>1. CASE CycleEnds
    BY <1>0, <1>2, <2>1 DEF CycleEnds
  <2>2. CASE AreAllNodesInSync(ver[Coordinator])
    <3>1. ver[Coordinator] = curVer
      BY <1>3 DEF CheckNodes, OrderInv, CopiesCurrent
    <3>2. ASSUME NEW n \in Nodes PROVE GetActiveECHKey \in loaded[n]
      BY <2>2, <3>1 DEF AreAllNodesInSync, BeliefInv, NodeBelieved, RemovalKnown, ClaimsTrue
    <3>3. keyStatus' = keyStatus /\ loaded' = loaded
      BY <1>3 DEF CheckNodes, agentVars, fileVars, histories
    <3> QED
      BY <3>2, <3>3, ActiveKept DEF PublishedServed
  <2> QED
    BY <1>3, <2>1, <2>2 DEF CheckNodes
<1>4. ASSUME \/ Increment(Coordinator) \/ SaveNewECHKey(Coordinator) \/ FlagOutdated(Coordinator)
             \/ ResetDomains(Coordinator) \/ StatementLost(Coordinator) \/ RotationFails(Coordinator)
             \/ MarkPending(Coordinator) \/ MarkPendingLost(Coordinator)
      PROVE  pc'[Coordinator] \notin Publishing
  BY <1>0, <1>4 DEF Increment, SaveNewECHKey, FlagOutdated, ResetDomains, StatementLost, RotationFails,
                    MarkPending, MarkPendingLost, Rotated
<1>5. ASSUME ReconcileRotate \/ ReconcileCheck \/ ReadFails \/ ServerCrash
      PROVE  pc'[Coordinator] \notin Publishing
  BY <1>0, <1>5 DEF ReconcileRotate, ReconcileCheck, ReadFails, CycleEnds, ServerCrash
<1>6. ASSUME ListDomains \/ GetKey
      PROVE  keyStatus' = keyStatus /\ pc[Coordinator] \in Publishing
  BY <1>6 DEF ListDomains, GetKey
<1>7. ASSUME NEW d \in Domains, UpdateHTTPSRecord(d) \/ UpdateFails(d) \/ PassOver(d)
      PROVE  keyStatus' = keyStatus /\ pc[Coordinator] \in Publishing
  BY <1>7 DEF UpdateHTTPSRecord, UpdateFails, PassOver
<1>8. ASSUME NEW d \in Domains, NEW s \in {"SYNCED", "FAILED"}, Mark(d, s)
      PROVE  keyStatus' = keyStatus /\ (pc' = pc \/ pc'[Coordinator] = "idle")
  BY <1>0, <1>8 DEF Mark, NextDomain, CycleEnds
<1>9. ASSUME \/ \E n \in Nodes : AssignNode(n) \/ UnassignNode(n)
             \/ RotationDue \/ Tick
      PROVE  keyStatus' = keyStatus /\ pc' = pc
  BY <1>9 DEF AssignNode, UnassignNode, RotationDue, Tick
<1>10. ASSUME NodeSide \/ UNCHANGED vars PROVE keyStatus' = keyStatus /\ pc' = pc
  BY <1>10, NodeSideFrame DEF serverCore, vars
<1>11. ~ \E a \in Admins : TriggerClusterRotation(a)
  BY DEF OneRotator
<1> QED
  BY <1>0, <1>1, <1>2, <1>3, <1>4, <1>5, <1>6, <1>7, <1>8, <1>9, <1>10, <1>11, StepSides
     DEF ServerMoves, ServerStep, Rotate, Publish

(* All that the refinement rests on.                                       *)
LEMMA PhasesInvariant ==
  ASSUME OneRotator, PollsWait, MembersStay
  PROVE  Spec => []PhasesInv
<1>1. Init => PublishedServed
  BY DEF Init, ServerInit, PublishedServed, Rotators
<1>2. PhasesInv /\ [Next]_vars => PublishedServed'
  BY PublishedServedStep
<1> QED
  BY <1>1, <1>2, BeliefInvariant, FilesInvariant, PTL DEF Spec, PhasesInv

(* A new key in the abstract rollout: nobody serves it.                    *)
LEMMA NewKeyRefined ==
  ASSUME PhasesInv, SaveNewECHKey(Coordinator), UNCHANGED <<agentVars, late>>
  PROVE  TwoPhase!Next
<1> USE DEF PhasesInv
<1> DEFINE v == ver[Coordinator]
<1>1. /\ v \in Versions /\ keyStatus[v] = "NONE" /\ GetActiveECHKey' = v
      /\ pc[Coordinator] = "save" /\ UNCHANGED <<dns, loaded>>
  BY ActiveSaved, NodeTypes DEF SaveNewECHKey, agentVars, fileVars, histories
<1>2. v = curVer /\ v \in Nat
  BY <1>1, NodeTypes DEF OrderInv, CopiesCurrent
<1>3. GetActiveECHKey < v
  <2>1. CASE GetActiveECHKey = 0
    BY <1>1, <2>1, VersionAssumption DEF Versions
  <2>2. CASE GetActiveECHKey # 0
    <3>1. GetActiveECHKey <= curVer /\ GetActiveECHKey # v
      BY <1>1, <2>2, ActiveType DEF RolloutInv, ServerInv, KeysInv, KeysGivenOut
    <3> QED
      BY <1>2, <3>1, NodeTypes
  <2> QED
    BY <2>1, <2>2
<1>4. \A n \in Nodes : v \notin loaded[n]
  <2> SUFFICES ASSUME NEW n \in Nodes, v \in loaded[n] PROVE FALSE
    OBVIOUS
  <2>1. v <= GetActiveECHKey
    BY DEF FilesInv, FilesOrdered
  <2> QED
    BY <1>2, <1>3, <2>1, NodeTypes
<1>5. {n \in Nodes : GetActiveECHKey \in loaded[n]}' = {}
  BY <1>1, <1>4
<1> QED
  BY <1>1, <1>3, <1>5 DEF TwoPhase!Next, TwoPhase!NewKey, TwoPhase!Versions, Versions

(* A record changes only when every node serves the ACTIVE key.            *)
LEMMA PublishRefined ==
  ASSUME PhasesInv, UNCHANGED <<agentVars, late>>, NEW d \in Domains, UpdateHTTPSRecord(d) \/ UpdateFails(d)
  PROVE  TwoPhase!Next \/ UNCHANGED TwoPhase!rolloutVars
<1> USE DEF PhasesInv
<1>1. /\ pc[Coordinator] = "publish" /\ UNCHANGED <<keyStatus, loaded>>
      /\ \E k \in {dns[d], key, 0} : dns' = [dns EXCEPT ![d] = k]
  BY DEF UpdateHTTPSRecord, UpdateFails, agentVars, fileVars, histories
<1>2. key = GetActiveECHKey /\ key # 0 /\ GetActiveECHKey' = GetActiveECHKey
  BY <1>1, ActiveKept DEF OrderInv, CopiesCurrent
<1>3. {n \in Nodes : GetActiveECHKey \in loaded[n]} = Nodes
  BY <1>1, <1>2 DEF PublishedServed
<1>4. {n \in Nodes : GetActiveECHKey \in loaded[n]}' = {n \in Nodes : GetActiveECHKey \in loaded[n]}
  BY <1>1, <1>2
<1>5. CASE \E k \in {key, 0} : dns' = [dns EXCEPT ![d] = k]
  <2>1. TwoPhase!Publish(d)
    BY <1>2, <1>3, <1>4, <1>5 DEF TwoPhase!Publish
  <2> QED
    BY <2>1 DEF TwoPhase!Next
<1>6. CASE dns' = [dns EXCEPT ![d] = dns[d]]
  <2>1. dns' = dns
    BY <1>6 DEF RolloutInv, ServerInv, TypeOK
  <2> QED
    BY <1>2, <1>4, <2>1 DEF TwoPhase!rolloutVars
<1> QED
  BY <1>1, <1>5, <1>6

(* A reload installs the ACTIVE key on its node, or changes nothing that   *)
(* the abstract rollout sees.                                              *)
LEMMA InstallRefined ==
  ASSUME PhasesInv, UNCHANGED serverCore, NEW n \in Nodes, NEW K \in SUBSET Versions,
         loaded' = [loaded EXCEPT ![n] = K],
         GetActiveECHKey \in loaded[n] => GetActiveECHKey \in K
  PROVE  TwoPhase!Next \/ UNCHANGED TwoPhase!rolloutVars
<1> DEFINE Served == {x \in Nodes : GetActiveECHKey \in loaded[x]}
<1>1. GetActiveECHKey' = GetActiveECHKey /\ dns' = dns
  BY ActiveKept DEF serverCore
<1>2. loaded \in [Nodes -> SUBSET Versions]
  BY NodeTypes DEF PhasesInv
<1>3. CASE GetActiveECHKey \in K
  <2>1. GetActiveECHKey # 0
    BY <1>3, VersionAssumption DEF Versions
  <2>2. Served' = Served \cup {n}
    BY <1>1, <1>2, <1>3
  <2>3. TwoPhase!InstallOn(n)
    BY <1>1, <2>1, <2>2 DEF TwoPhase!InstallOn
  <2> QED
    BY <2>3 DEF TwoPhase!Next
<1>4. CASE GetActiveECHKey \notin K
  <2>1. Served' = Served
    BY <1>1, <1>2, <1>4
  <2> QED
    BY <1>1, <2>1 DEF TwoPhase!rolloutVars
<1> QED
  BY <1>3, <1>4

(* Every step of the rollout is a step of the abstract one, or none.       *)
LEMMA PhasesRefined ==
  ASSUME OneRotator, MembersStay, PhasesInv, [Next]_vars
  PROVE  [TwoPhase!Next]_(TwoPhase!rolloutVars)
<1> USE DEF PhasesInv
<1>1. ASSUME keyStatus' = keyStatus, dns' = dns, loaded' = loaded
      PROVE  UNCHANGED TwoPhase!rolloutVars
  <2>1. GetActiveECHKey' = GetActiveECHKey
    BY <1>1, ActiveKept
  <2> QED
    BY <1>1, <2>1 DEF TwoPhase!rolloutVars
<1>2. CASE ServerMoves(ServerStep)
  <2>1. ServerStep /\ UNCHANGED <<agentVars, late>> /\ loaded' = loaded
    BY <1>2 DEF ServerMoves, agentVars, fileVars, histories
  <2>2. CASE SaveNewECHKey(Coordinator)
    BY <2>1, <2>2, NewKeyRefined
  <2>3. CASE \E d \in Domains : UpdateHTTPSRecord(d) \/ UpdateFails(d)
    BY <2>1, <2>3, PublishRefined
  <2>4. CASE /\ ~SaveNewECHKey(Coordinator)
             /\ ~ \E d \in Domains : UpdateHTTPSRecord(d) \/ UpdateFails(d)
    <3>1. keyStatus' = keyStatus
      BY <2>1, <2>4, ServerKinds DEF Increment, FlagOutdated, AssignNode, UnassignNode, Quiet
    <3>2. dns' = dns
      BY <2>1, <2>4, OtherDns
    <3> QED
      BY <1>1, <2>1, <3>1, <3>2
  <2> QED
    BY <2>2, <2>3, <2>4
<1>3. CASE NodeSide \/ UNCHANGED vars
  <2>1. keyStatus' = keyStatus /\ dns' = dns
    BY <1>3, NodeSideFrame DEF serverCore, vars
  <2> QED
    BY <1>1, <2>1, ProxySteps, InstallRefined
<1> QED
  BY <1>2, <1>3, StepSides

(* ImplementsTwoPhase: the rollout publishes a key only once every node of *)
(* the cluster serves it.  It needs a rotation that no poll falls into     *)
(* (the run poll_inside_rotation shows what happens otherwise), and a      *)
(* cluster that keeps its nodes, since CheckNodes is not repeated for the  *)
(* node that is assigned after it.                                         *)
THEOREM RolloutImplementsTwoPhase ==
  ASSUME OneRotator, PollsWait, MembersStay
  PROVE  Spec => ImplementsTwoPhase
<1>1. Init => TwoPhase!Init
  <2> SUFFICES ASSUME Init PROVE TwoPhase!Init
    OBVIOUS
  <2>1. GetActiveECHKey = 0
    BY DEF Init, ServerInit, GetActiveECHKey, ActiveKeys
  <2>2. dns = [d \in Domains |-> 0] /\ {n \in Nodes : GetActiveECHKey \in loaded[n]} = {}
    BY DEF Init, ServerInit, AgentInit
  <2> QED
    BY <2>1, <2>2 DEF TwoPhase!Init
<1>2. PhasesInv /\ [Next]_vars => [TwoPhase!Next]_(TwoPhase!rolloutVars)
  BY PhasesRefined
<1> QED
  BY <1>1, <1>2, PhasesInvariant, PTL DEF Spec, ImplementsTwoPhase, TwoPhase!Spec

(***************************************************************************)
(* What the two phases promise                                             *)
(***************************************************************************)

(* No record carries a key that does not exist yet: a new key finds every  *)
(* record on an older one.                                                 *)
PublishedExists ==
  /\ GetActiveECHKey \in Nat
  /\ dns \in [Domains -> Nat]
  /\ \A d \in Domains : dns[d] <= GetActiveECHKey

TwoPhaseInv == PublishedExists /\ TwoPhase!NewestKeyServed

(* A new key is newer than every record; a record gets it only when all    *)
(* nodes have it, and they keep it until the next.                         *)
LEMMA TwoPhaseInvStep ==
  ASSUME TwoPhaseInv, [TwoPhase!Next]_(TwoPhase!rolloutVars)
  PROVE  TwoPhaseInv'
<1> DEFINE active == GetActiveECHKey
<1> DEFINE installed == {n \in Nodes : active \in loaded[n]}
<1> USE DEF TwoPhaseInv, PublishedExists, TwoPhase!NewestKeyServed
<1>1. ASSUME NEW k \in TwoPhase!Versions, TwoPhase!NewKey(k) PROVE TwoPhaseInv'
  <2>1. k \in Nat /\ k > active /\ active' = k /\ dns' = dns
    BY <1>1, VersionAssumption DEF TwoPhase!NewKey, TwoPhase!Versions
  <2>2. \A d \in Domains : dns[d] < k
    BY <2>1
  <2> QED
    BY <2>1, <2>2
<1>2. ASSUME NEW n \in Nodes, TwoPhase!InstallOn(n) PROVE TwoPhaseInv'
  <2>1. active' = active /\ dns' = dns /\ installed' = installed \cup {n}
    BY <1>2 DEF TwoPhase!InstallOn
  <2>2. installed = Nodes => installed' = Nodes
    BY <2>1
  <2> QED
    BY <2>1, <2>2
<1>3. ASSUME NEW d \in Domains, TwoPhase!Publish(d) PROVE TwoPhaseInv'
  <2>1. active' = active /\ installed' = installed /\ installed = Nodes
    BY <1>3 DEF TwoPhase!Publish
  <2>2. PICK k \in {active, 0} : dns' = [dns EXCEPT ![d] = k]
    BY <1>3 DEF TwoPhase!Publish
  <2> QED
    BY <2>1, <2>2
<1>4. ASSUME UNCHANGED TwoPhase!rolloutVars PROVE TwoPhaseInv'
  <2>1. active' = active /\ installed' = installed /\ dns' = dns
    BY <1>4 DEF TwoPhase!rolloutVars
  <2> QED
    BY <2>1
<1> QED
  BY <1>1, <1>2, <1>3, <1>4 DEF TwoPhase!Next

(* The promise of the abstract rollout follows from its two phases alone.  *)
LEMMA TwoPhasesServe == TwoPhase!Spec => []TwoPhase!NewestKeyServed
<1>1. TwoPhase!Init => TwoPhaseInv
  BY DEF TwoPhase!Init, TwoPhaseInv, PublishedExists, TwoPhase!NewestKeyServed
<1>2. TwoPhaseInv => TwoPhase!NewestKeyServed
  BY DEF TwoPhaseInv
<1> QED
  BY <1>1, <1>2, TwoPhaseInvStep, PTL DEF TwoPhase!Spec

(* So the rollout keeps it: a client that finds the ACTIVE key in any      *)
(* record of the cluster finds it served by every node.                    *)
THEOREM NewestKeyAlwaysServed ==
  ASSUME OneRotator, PollsWait, MembersStay
  PROVE  Spec => []TwoPhase!NewestKeyServed
  BY RolloutImplementsTwoPhase, TwoPhasesServe, PTL DEF ImplementsTwoPhase

(* NoEarlyPublication under the same conditions: "Node has NOT synced yet  *)
(* (status OUTDATED) -> DNS must NOT shoot".                               *)
THEOREM PublicationWaits ==
  ASSUME OneRotator, PollsWait, MembersStay
  PROVE  Spec => NoEarlyPublication
<1>1. PhasesInv /\ [Next]_vars =>
        [\A d \in Domains : dns'[d] # dns[d] /\ dns'[d] # 0 =>
           \A n \in Nodes : Assigned(n) => dns'[d] \in loaded[n]]_vars
  <2> SUFFICES ASSUME PhasesInv, [Next]_vars, NEW d \in Domains, dns'[d] # dns[d], dns'[d] # 0, NEW n \in Nodes
               PROVE  dns'[d] \in loaded[n]
    OBVIOUS
  <2>1. dns'[d] = GetActiveECHKey /\ pc[Coordinator] = "publish"
    BY DnsWrites DEF PhasesInv
  <2> QED
    BY <2>1 DEF PhasesInv, PublishedServed
<1> QED
  BY <1>1, PhasesInvariant, PTL DEF NoEarlyPublication, Spec
=============================================================================
