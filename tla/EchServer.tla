----------------------------- MODULE EchServer -----------------------------
(***************************************************************************)
(* The central server's side of one ECH cluster: the rows the SQLite       *)
(* repository keeps for it, the two code paths that rotate its key (the    *)
(* coordinator of internal/daemon/ech_coordinator.go and the admin handler *)
(* TriggerClusterRotation), the coordinator's publication of HTTPS records *)
(* and the acknowledgments of edge nodes.                                  *)
(*                                                                         *)
(* An action is what the code does between two points where another        *)
(* goroutine or the DNS provider can act: one SQL statement, one           *)
(* transaction, one provider call.  Keys are named by the version they     *)
(* were saved under.                                                       *)
(***************************************************************************)
EXTENDS EchCluster

CONSTANTS
  Domains,              (* ECH domains of the cluster                      *)
  Coordinator,          (* the goroutine of RunECHCoordinator              *)
  Admins,               (* concurrent POST .../rotate requests             *)
  AutoRotate,           (* ech_clusters.auto_rotate                        *)
  OverlappingRotations, (* whether a rotation may fall due before the last *)
                        (* one has been published                          *)
  MaxTime,              (* bound: seconds the clock shows                  *)
  EnvEvents,            (* the faults and operator actions that may occur  *)
  MaxEvents             (* bound: how many of them, all together           *)

ASSUME ServerAssumption ==
  /\ Coordinator \notin Admins
  /\ AutoRotate \in BOOLEAN
  /\ OverlappingRotations \in BOOLEAN
  /\ MaxTime \in Nat \ {0}
  /\ MaxEvents \in Nat

VARIABLES
  (* ech_clusters *)
  curVer,      (* current_version                                          *)
  lastRot,     (* last_rotated_at, 0 for NULL                              *)
  due,         (* next_rotation_at has passed                              *)
  (* ech_keys *)
  keyStatus,   (* status of the key saved under each version               *)
  (* ech_cluster_nodes *)
  applied,     (* last_applied_version                                     *)
  syncStatus,  (* sync_status, "UNASSIGNED" without a row                  *)
  (* ech_domains *)
  domStatus,   (* dns_status                                               *)
  domSynced,   (* last_synced_at, 0 for NULL                               *)
  (* the DNS provider *)
  dns,         (* key in the domain's HTTPS record, 0 without a record     *)
  (* locals of the rotating goroutines, and of the coordinator's DNS sync  *)
  pc, ver, now, seenRot, todo, marking, key,
  (* environment *)
  clock, events

clusterVars == <<curVer, lastRot, due>>
nodeVars    == <<applied, syncStatus>>
domainVars  == <<domStatus, domSynced>>
syncVars    == <<seenRot, todo, marking, key>>
envVars     == <<clock, events>>
serverVars  == <<curVer, lastRot, due, keyStatus, applied, syncStatus,
                 domStatus, domSynced, dns, pc, ver, now, seenRot, todo,
                 marking, key, clock, events>>

Rotators == {Coordinator} \cup Admins

(* Where a rotating goroutine is.  Between "flag" and "save" the version   *)
(* it took is visible to everyone and its key is not stored yet.           *)
Unsaved       == {"flag", "reset", "save"}
RotationSteps == {"idle", "increment", "pending"} \cup Unsaved
CoordSteps    == RotationSteps \cup {"check", "list", "getkey", "publish"}

KeyStates    == {"NONE", "ACTIVE", "PREVIOUS", "ARCHIVED"}
NodeStates   == {"UNASSIGNED", "PENDING", "OUTDATED", "IN_SYNC", "FAILED"}
DomainStates == {"PENDING", "SYNCED", "FAILED"}

(* Type invariant: the tables hold the values their columns allow and the  *)
(* goroutines' locals stay within the versions and times that exist.       *)
TypeOK ==
  /\ curVer \in 0 .. MaxVersion
  /\ lastRot \in 0 .. MaxTime
  /\ due \in BOOLEAN
  /\ keyStatus \in [Versions -> KeyStates]
  /\ applied \in [Nodes -> 0 .. MaxVersion]
  /\ syncStatus \in [Nodes -> NodeStates]
  /\ domStatus \in [Domains -> DomainStates]
  /\ domSynced \in [Domains -> 0 .. MaxTime]
  /\ dns \in [Domains -> 0 .. MaxVersion]
  /\ pc \in [Rotators -> CoordSteps]
  /\ \A a \in Admins : pc[a] \in RotationSteps
  /\ ver \in [Rotators -> 0 .. MaxVersion]
  /\ now \in [Rotators -> 0 .. MaxTime]
  /\ seenRot \in 0 .. MaxTime + 1
  /\ todo \subseteq Domains
  /\ marking \subseteq Domains \X {"SYNCED", "FAILED"}
  /\ key \in 0 .. MaxVersion
  /\ clock \in 1 .. MaxTime
  /\ events \in 0 .. MaxEvents

(***************************************************************************)
(* Queries                                                                 *)
(***************************************************************************)
Assigned(n) == syncStatus[n] # "UNASSIGNED"

ActiveKeys == {v \in Versions : keyStatus[v] = "ACTIVE"}

(* GetActiveECHKey: the ACTIVE key of the largest version, 0 for nil.      *)
GetActiveECHKey ==
  IF ActiveKeys = {} THEN 0
  ELSE CHOOSE v \in ActiveKeys : \A w \in ActiveKeys : w <= v

(* AreAllNodesInSync: every row says IN_SYNC with version v; none is fine. *)
(* Mutated form: the status is not looked at.                              *)
AreAllNodesInSync_VersionOnly(v) ==
  \A n \in Nodes : Assigned(n) => applied[n] = v

AreAllNodesInSync(v) ==
  \A n \in Nodes : Assigned(n) => applied[n] = v /\ syncStatus[n] = "IN_SYNC"

NeedsRotation == AutoRotate /\ (curVer = 0 \/ due) /\ curVer < MaxVersion

(* A domain that syncClusterDomainsDNS passes over: synced, and not before *)
(* the rotation the coordinator knows of.                                  *)
(* Mutated form: it is enough that an update was tried since.              *)
UpToDate_Tried(d) ==
  /\ domStatus[d] # "PENDING"
  /\ seenRot = 0 \/ (domSynced[d] # 0 /\ domSynced[d] >= seenRot)

UpToDate(d) ==
  /\ domStatus[d] = "SYNCED"
  /\ seenRot = 0 \/ (domSynced[d] # 0 /\ domSynced[d] >= seenRot)

(* Everything the last rotation asked for has happened.                    *)
Settled ==
  /\ \A r \in Rotators : pc[r] = "idle"
  /\ \A d \in Domains : domStatus[d] = "SYNCED" /\ dns[d] = GetActiveECHKey

Event(e) == e \in EnvEvents /\ events < MaxEvents /\ events' = events + 1

Goto(r, step) == pc' = [pc EXCEPT ![r] = step]

(***************************************************************************)
(* Rotation: the steps the coordinator and an admin request share          *)
(***************************************************************************)

(* POST /api/ech/clusters/{id}/rotate, up to the time it notes.            *)
TriggerClusterRotation(a) ==
  /\ pc[a] = "idle"
  /\ curVer < MaxVersion
  /\ Goto(a, "increment")
  /\ now' = [now EXCEPT ![a] = clock]
  /\ UNCHANGED <<clusterVars, keyStatus, nodeVars, domainVars, dns, ver, syncVars, envVars>>

(* The coordinator lists the clusters and finds this one due.  A failed    *)
(* key generation ends the cycle with nothing changed.                     *)
ReconcileRotate ==
  /\ pc[Coordinator] = "idle"
  /\ NeedsRotation
  /\ Goto(Coordinator, "increment")
  /\ now' = [now EXCEPT ![Coordinator] = clock]
  /\ UNCHANGED <<clusterVars, keyStatus, nodeVars, domainVars, dns, ver, syncVars, envVars>>

(* IncrementClusterVersion, first statement.                               *)
(* Mutated form: a version whose key was never saved is used again.        *)
Increment_Reuse(r) ==
  /\ pc[r] = "increment"
  /\ curVer < MaxVersion
  /\ curVer' = IF GetActiveECHKey < curVer THEN curVer ELSE curVer + 1
  /\ lastRot' = now[r]
  /\ due' = FALSE
  /\ ver' = [ver EXCEPT ![r] = curVer']
  /\ Goto(r, "flag")
  /\ UNCHANGED <<keyStatus, nodeVars, domainVars, dns, now, syncVars, envVars>>

Increment(r) ==
  /\ pc[r] = "increment"
  /\ curVer < MaxVersion
  /\ curVer' = curVer + 1
  /\ lastRot' = now[r]
  /\ due' = FALSE
  /\ ver' = [ver EXCEPT ![r] = curVer + 1]
  /\ Goto(r, "flag")
  /\ UNCHANGED <<keyStatus, nodeVars, domainVars, dns, now, syncVars, envVars>>

(* IncrementClusterVersion, second statement: nodes on older versions.     *)
FlagOutdated(r) ==
  /\ pc[r] = "flag"
  /\ syncStatus' = [n \in Nodes |->
       IF Assigned(n) /\ applied[n] < ver[r] THEN "OUTDATED" ELSE syncStatus[n]]
  /\ Goto(r, "reset")
  /\ UNCHANGED <<clusterVars, keyStatus, applied, domainVars, dns, ver, now, syncVars, envVars>>

(* IncrementClusterVersion, third statement; last_synced_at stays.         *)
ResetDomains(r) ==
  /\ pc[r] = "reset"
  /\ domStatus' = [d \in Domains |-> "PENDING"]
  /\ Goto(r, "save")
  /\ UNCHANGED <<clusterVars, keyStatus, nodeVars, domSynced, dns, ver, now, syncVars, envVars>>

(* The table SaveNewECHKey's transaction leaves after inserting version v. *)
(* Mutated form: the first statement, PREVIOUS to ARCHIVED, is missing.    *)
Saved_KeepPrevious(v) ==
  [w \in Versions |-> IF w = v THEN "ACTIVE"
                      ELSE IF keyStatus[w] = "ACTIVE" THEN "PREVIOUS"
                      ELSE keyStatus[w]]

(* Mutated form: the two UPDATEs run in the other order.                   *)
Saved_Swapped(v) ==
  [w \in Versions |-> IF w = v THEN "ACTIVE"
                      ELSE IF keyStatus[w] = "NONE" THEN "NONE"
                      ELSE "ARCHIVED"]

Saved(v) ==
  [w \in Versions |->
     IF w = v THEN "ACTIVE"
     ELSE CASE keyStatus[w] = "ACTIVE"   -> "PREVIOUS"
            [] keyStatus[w] = "PREVIOUS" -> "ARCHIVED"
            [] OTHER                     -> keyStatus[w]]

(* SaveNewECHKey: one transaction; UNIQUE(cluster_id, version) rejects a   *)
(* version that is already there.                                          *)
SaveNewECHKey(r) ==
  /\ pc[r] = "save"
  /\ keyStatus[ver[r]] = "NONE"
  /\ keyStatus' = Saved(ver[r])
  /\ Goto(r, "pending")
  /\ UNCHANGED <<clusterVars, nodeVars, domainVars, dns, ver, now, syncVars, envVars>>

(* An error from IncrementClusterVersion's first statement or from         *)
(* SaveNewECHKey: the coordinator goes on to the next cluster, the admin   *)
(* request answers 500.  What was written before stays.  Past MaxVersion   *)
(* every increment ends this way: a bound of the model.                    *)
RotationFails(r) ==
  /\ \/ pc[r] = "increment" /\ curVer = MaxVersion /\ UNCHANGED events
     \/ pc[r] \in {"increment", "save"} /\ Event("dbError")
  /\ Goto(r, "idle")
  /\ ver' = [ver EXCEPT ![r] = 0]
  /\ now' = [now EXCEPT ![r] = 0]
  /\ UNCHANGED <<clusterVars, keyStatus, nodeVars, domainVars, dns, syncVars, clock>>

(* IncrementClusterVersion ignores the errors of its later statements.     *)
StatementLost(r) ==
  /\ \/ pc[r] = "flag" /\ Goto(r, "reset")
     \/ pc[r] = "reset" /\ Goto(r, "save")
  /\ Event("dbError")
  /\ UNCHANGED <<clusterVars, keyStatus, nodeVars, domainVars, dns, ver, now, syncVars, clock>>

(* What follows: the coordinator notes the rotation in its copy of the     *)
(* cluster and goes on, the admin request is answered.  The copy keeps the *)
(* fraction of the second that the column last_rotated_at drops, so every  *)
(* last_synced_at is before it: the next second stands for it.             *)
Rotated(r) ==
  \/ /\ r = Coordinator
     /\ Goto(r, "check")
     /\ seenRot' = now[r] + 1
     /\ UNCHANGED <<ver, now>>
  \/ /\ r # Coordinator
     /\ Goto(r, "idle")
     /\ ver' = [ver EXCEPT ![r] = 0]
     /\ now' = [now EXCEPT ![r] = 0]
     /\ UNCHANGED seenRot

(* Every domain back to PENDING with last_synced_at NULL.                  *)
(* Mutated form: the admin request goes on to publish, too.                *)
MarkPending_AllPublish(r) ==
  /\ pc[r] = "pending"
  /\ domStatus' = [d \in Domains |-> "PENDING"]
  /\ domSynced' = [d \in Domains |-> 0]
  /\ Goto(r, "check")
  /\ UNCHANGED <<clusterVars, keyStatus, nodeVars, dns, ver, now, syncVars, envVars>>

MarkPending(r) ==
  /\ pc[r] = "pending"
  /\ domStatus' = [d \in Domains |-> "PENDING"]
  /\ domSynced' = [d \in Domains |-> 0]
  /\ Rotated(r)
  /\ UNCHANGED <<clusterVars, keyStatus, nodeVars, dns, todo, marking, key, envVars>>

(* The errors of ListECHDomains and UpdateECHDomainSyncStatus are ignored. *)
MarkPendingLost(r) ==
  /\ pc[r] = "pending"
  /\ Event("dbError")
  /\ Rotated(r)
  /\ UNCHANGED <<clusterVars, keyStatus, nodeVars, domainVars, dns, todo, marking, key, clock>>

Rotate(r) == \/ Increment(r)
             \/ FlagOutdated(r)
             \/ ResetDomains(r)
             \/ SaveNewECHKey(r)
             \/ RotationFails(r)
             \/ MarkPending(r)
             \/ StatementLost(r)
             \/ MarkPendingLost(r)

(***************************************************************************)
(* The coordinator's second phase: publish once the nodes are in sync      *)
(***************************************************************************)

(* The end of a coordinator cycle: its locals are gone.                    *)
CycleEnds ==
  /\ Goto(Coordinator, "idle")
  /\ ver' = [ver EXCEPT ![Coordinator] = 0]
  /\ now' = [now EXCEPT ![Coordinator] = 0]
  /\ seenRot' = 0
  /\ todo' = {}
  /\ marking' = {}
  /\ key' = 0

(* The coordinator lists the clusters and finds no rotation due.           *)
ReconcileCheck ==
  /\ pc[Coordinator] = "idle"
  /\ ~NeedsRotation
  /\ curVer > 0
  /\ Goto(Coordinator, "check")
  /\ ver' = [ver EXCEPT ![Coordinator] = curVer]
  /\ seenRot' = lastRot
  /\ UNCHANGED <<clusterVars, keyStatus, nodeVars, domainVars, dns, now, todo, marking, key, envVars>>

(* AreAllNodesInSync for the version in the coordinator's copy.            *)
CheckNodes ==
  /\ pc[Coordinator] = "check"
  /\ \/ AreAllNodesInSync(ver[Coordinator]) /\ Goto(Coordinator, "list") /\ UNCHANGED <<ver, now, syncVars>>
     \/ ~AreAllNodesInSync(ver[Coordinator]) /\ CycleEnds
  /\ UNCHANGED <<clusterVars, keyStatus, nodeVars, domainVars, dns, envVars>>

(* ListECHDomains, with the choice of the domains to sync that the code    *)
(* makes on the rows read here.                                            *)
ListDomains ==
  /\ pc[Coordinator] = "list"
  /\ LET stale == {d \in Domains : ~UpToDate(d)}
     IN  \/ stale # {} /\ todo' = stale /\ Goto(Coordinator, "getkey") /\ UNCHANGED <<ver, now, seenRot, marking, key>>
         \/ stale = {} /\ CycleEnds
  /\ UNCHANGED <<clusterVars, keyStatus, nodeVars, domainVars, dns, envVars>>

(* GetActiveECHKey, read after the check of the nodes, then the time.      *)
(* Mutated form: the key is named by the version in the coordinator's copy.*)
GetKey_ByVersion ==
  /\ pc[Coordinator] = "getkey"
  /\ GetActiveECHKey # 0
  /\ key' = ver[Coordinator]
  /\ now' = [now EXCEPT ![Coordinator] = clock]
  /\ Goto(Coordinator, "publish")
  /\ UNCHANGED <<clusterVars, keyStatus, nodeVars, domainVars, dns, ver, seenRot, todo, marking, envVars>>

GetKey ==
  /\ pc[Coordinator] = "getkey"
  /\ \/ /\ GetActiveECHKey # 0
        /\ key' = GetActiveECHKey
        /\ now' = [now EXCEPT ![Coordinator] = clock]
        /\ Goto(Coordinator, "publish")
        /\ UNCHANGED <<ver, seenRot, todo, marking>>
     \/ GetActiveECHKey = 0 /\ CycleEnds
  /\ UNCHANGED <<clusterVars, keyStatus, nodeVars, domainVars, dns, envVars>>

(* A failing read ends the cycle; so does a failing ListAllECHClusters,    *)
(* before anything has happened.                                           *)
ReadFails ==
  /\ pc[Coordinator] \in {"check", "list", "getkey"}
  /\ Event("dbError")
  /\ CycleEnds
  /\ UNCHANGED <<clusterVars, keyStatus, nodeVars, domainVars, dns, clock>>

(* client.UpdateHTTPSRecord succeeds.                                      *)
UpdateHTTPSRecord(d) ==
  /\ pc[Coordinator] = "publish"
  /\ marking = {}
  /\ d \in todo
  /\ dns' = [dns EXCEPT ![d] = key]
  /\ marking' = {<<d, "SYNCED">>}
  /\ UNCHANGED <<clusterVars, keyStatus, nodeVars, domainVars, pc, ver, now, seenRot, todo, key, envVars>>

(* It fails: the record is the old one, the new one (the answer was lost)  *)
(* or gone (a provider that deletes before it adds).                       *)
UpdateFails(d) ==
  /\ pc[Coordinator] = "publish"
  /\ marking = {}
  /\ d \in todo
  /\ Event("dnsError")
  /\ \E k \in {dns[d], key, 0} : dns' = [dns EXCEPT ![d] = k]
  /\ marking' = {<<d, "FAILED">>}
  /\ UNCHANGED <<clusterVars, keyStatus, nodeVars, domainVars, pc, ver, now, seenRot, todo, key, clock>>

(* What follows a domain in the loop: the next one, or the end.            *)
NextDomain(d) ==
  \/ /\ todo # {d}
     /\ todo' = todo \ {d}
     /\ marking' = {}
     /\ UNCHANGED <<pc, ver, now, seenRot, key>>
  \/ todo = {d} /\ CycleEnds

(* UpdateECHDomainSyncStatus with the outcome and the time read before the *)
(* loop.                                                                   *)
(* Mutated form: a failed update is recorded as SYNCED.                    *)
Mark_AlwaysSynced(d, s) ==
  /\ <<d, s>> \in marking
  /\ domStatus' = [domStatus EXCEPT ![d] = "SYNCED"]
  /\ domSynced' = [domSynced EXCEPT ![d] = now[Coordinator]]
  /\ NextDomain(d)
  /\ UNCHANGED <<clusterVars, keyStatus, nodeVars, dns, envVars>>

Mark(d, s) ==
  /\ <<d, s>> \in marking
  /\ domStatus' = [domStatus EXCEPT ![d] = s]
  /\ domSynced' = [domSynced EXCEPT ![d] = now[Coordinator]]
  /\ NextDomain(d)
  /\ UNCHANGED <<clusterVars, keyStatus, nodeVars, dns, envVars>>

(* A domain whose provider is missing is passed over, and the error of     *)
(* UpdateECHDomainSyncStatus is ignored.                                   *)
PassOver(d) ==
  /\ pc[Coordinator] = "publish"
  /\ d \in todo
  /\ \/ marking = {} /\ Event("dnsError")
     \/ (\E s \in {"SYNCED", "FAILED"} : <<d, s>> \in marking) /\ Event("dbError")
  /\ NextDomain(d)
  /\ UNCHANGED <<clusterVars, keyStatus, nodeVars, domainVars, dns, clock>>

Publish == \/ ReconcileCheck
           \/ CheckNodes
           \/ ListDomains
           \/ GetKey
           \/ ReadFails
           \/ \E d \in Domains : UpdateHTTPSRecord(d) \/ UpdateFails(d) \/ PassOver(d)
           \/ \E d \in Domains, s \in {"SYNCED", "FAILED"} : Mark(d, s)

(***************************************************************************)
(* Node rows                                                               *)
(***************************************************************************)

(* AckNode / RecordClusterNodeAck: an unconditional UPDATE, which touches  *)
(* no row when the node is not assigned.                                   *)
AckNode(n, v, ok) ==
  /\ IF Assigned(n)
     THEN /\ applied' = [applied EXCEPT ![n] = v]
          /\ syncStatus' = [syncStatus EXCEPT ![n] = IF ok THEN "IN_SYNC" ELSE "FAILED"]
     ELSE UNCHANGED nodeVars
  /\ UNCHANGED <<clusterVars, keyStatus, domainVars, dns, pc, ver, now, syncVars, clock>>

(* AssignNodeToCluster / SetNodeClusters: a fresh row.                     *)
AssignNode(n) ==
  /\ Event("assign")
  /\ ~Assigned(n)
  /\ applied' = [applied EXCEPT ![n] = 0]
  /\ syncStatus' = [syncStatus EXCEPT ![n] = "PENDING"]
  /\ UNCHANGED <<clusterVars, keyStatus, domainVars, dns, pc, ver, now, syncVars, clock>>

(* UnassignNodeFromCluster / SetNodeClusters: the row is deleted.          *)
UnassignNode(n) ==
  /\ Event("assign")
  /\ Assigned(n)
  /\ applied' = [applied EXCEPT ![n] = 0]
  /\ syncStatus' = [syncStatus EXCEPT ![n] = "UNASSIGNED"]
  /\ UNCHANGED <<clusterVars, keyStatus, domainVars, dns, pc, ver, now, syncVars, clock>>

(***************************************************************************)
(* Environment                                                             *)
(***************************************************************************)

(* The daemon stops and starts again: only the database is left.           *)
ServerCrash ==
  /\ Event("serverCrash")
  /\ pc' = [r \in Rotators |-> "idle"]
  /\ ver' = [r \in Rotators |-> 0]
  /\ now' = [r \in Rotators |-> 0]
  /\ seenRot' = 0
  /\ todo' = {}
  /\ marking' = {}
  /\ key' = 0
  /\ UNCHANGED <<clusterVars, keyStatus, nodeVars, domainVars, dns, clock>>

(* rotation_interval_hours have passed.                                    *)
RotationDue ==
  /\ AutoRotate /\ ~due
  /\ curVer \in Versions \ {MaxVersion}
  /\ OverlappingRotations \/ Settled
  /\ due' = TRUE
  /\ UNCHANGED <<curVer, lastRot, keyStatus, nodeVars, domainVars, dns, pc, ver, now, syncVars, envVars>>

Tick ==
  /\ clock < MaxTime
  /\ clock' = clock + 1
  /\ UNCHANGED <<clusterVars, keyStatus, nodeVars, domainVars, dns, pc, ver, now, syncVars, events>>

(* A cluster just created, with the nodes already assigned to it and the   *)
(* domains already entered.                                                *)
ServerInit ==
  /\ curVer = 0
  /\ lastRot = 0
  /\ due = FALSE
  /\ keyStatus = [v \in Versions |-> "NONE"]
  /\ applied = [n \in Nodes |-> 0]
  /\ syncStatus = [n \in Nodes |-> "PENDING"]
  /\ domStatus = [d \in Domains |-> "PENDING"]
  /\ domSynced = [d \in Domains |-> 0]
  /\ dns = [d \in Domains |-> 0]
  /\ pc = [r \in Rotators |-> "idle"]
  /\ ver = [r \in Rotators |-> 0]
  /\ now = [r \in Rotators |-> 0]
  /\ seenRot = 0
  /\ todo = {}
  /\ marking = {}
  /\ key = 0
  /\ clock = 1
  /\ events = 0

(* The steps that involve no edge node.                                    *)
ServerStep ==
  \/ \E a \in Admins : TriggerClusterRotation(a)
  \/ ReconcileRotate
  \/ \E r \in Rotators : Rotate(r)
  \/ Publish
  \/ \E n \in Nodes : AssignNode(n) \/ UnassignNode(n)
  \/ ServerCrash
  \/ RotationDue
  \/ Tick

(* For the server on its own: an acknowledgment of any version label the   *)
(* server may have served, at any time, in any order.                      *)
AckArrives ==
  \E n \in Nodes, v \in Versions, ok \in BOOLEAN :
    /\ v <= curVer
    /\ GetActiveECHKey # 0
    /\ AckNode(n, v, ok)
    /\ UNCHANGED events

ServerNext == ServerStep \/ AckArrives

ServerSpec == ServerInit /\ [][ServerNext]_serverVars

(***************************************************************************)
(* Properties of the server, for every interleaving of rotations           *)
(***************************************************************************)

(* However the coordinator's and the admins' rotations interleave, crash   *)
(* or fail, at most one key is ACTIVE and at most one PREVIOUS, and once   *)
(* any key is stored an ACTIVE one is (SaveNewECHKey's transaction).       *)
OneActiveKey ==
  /\ \A v, w \in Versions : keyStatus[v] = "ACTIVE" /\ keyStatus[w] = "ACTIVE" => v = w
  /\ \A v, w \in Versions : keyStatus[v] = "PREVIOUS" /\ keyStatus[w] = "PREVIOUS" => v = w
  /\ (\E v \in Versions : keyStatus[v] # "NONE") => \E v \in Versions : keyStatus[v] = "ACTIVE"

(* Two rotations never hold the same version, and the version one holds    *)
(* has no key yet: the INSERT of SaveNewECHKey cannot hit the UNIQUE       *)
(* constraint, so no rotation is lost to another.                          *)
VersionsNotShared ==
  \A r \in Rotators : pc[r] \in Unsaved =>
    /\ ver[r] \in 1 .. curVer
    /\ keyStatus[ver[r]] = "NONE"
    /\ \A s \in Rotators : pc[s] \in Unsaved /\ ver[s] = ver[r] => s = r

(* A key goes ACTIVE, PREVIOUS, ARCHIVED and never back, and the key that  *)
(* stops being ACTIVE is the one GetPreviousECHKey returns next.           *)
KeyLifecycle ==
  [][\A v \in Versions :
       /\ keyStatus[v] = "ACTIVE"   => keyStatus'[v] \in {"ACTIVE", "PREVIOUS"}
       /\ keyStatus[v] = "PREVIOUS" => keyStatus'[v] \in {"PREVIOUS", "ARCHIVED"}
       /\ keyStatus[v] = "ARCHIVED" => keyStatus'[v] = "ARCHIVED"]_serverVars

(* What stands in DNS, and what the coordinator is about to put there, is  *)
(* a key the server has stored: an edge node can always be given it.       *)
PublishedKeyStored ==
  /\ \A d \in Domains : dns[d] # 0 => keyStatus[dns[d]] # "NONE"
  /\ pc[Coordinator] = "publish" => key # 0 /\ keyStatus[key] # "NONE"
=============================================================================
