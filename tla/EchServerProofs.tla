-------------------------- MODULE EchServerProofs ---------------------------
(***************************************************************************)
(* Theorems about EchServer, for any nodes, domains, admins and bounds.    *)
(*                                                                         *)
(* One inductive invariant, ServerInv, carries them all: the types, the    *)
(* properties the runs check, and one addition, that no key is stored      *)
(* above current_version, which is why the version a rotation takes has no *)
(* key yet.  The types are not inductive alone: that GetActiveECHKey, the  *)
(* largest ACTIVE version, is a version at all needs OneActiveKey.         *)
(***************************************************************************)
EXTENDS EchServer, TLAPS

(* No key is stored under a version that has not been given out.           *)
KeysGivenOut == \A v \in Versions : keyStatus[v] # "NONE" => v <= curVer

KeysInv == OneActiveKey /\ VersionsNotShared /\ KeysGivenOut

ServerInv == TypeOK /\ KeysInv /\ PublishedKeyStored

(***************************************************************************)
(* The operators                                                           *)
(***************************************************************************)

(* With at most one ACTIVE key, GetActiveECHKey is that key, or 0.         *)
LEMMA ActiveKeyType ==
  ASSUME TypeOK, OneActiveKey
  PROVE  /\ GetActiveECHKey \in 0 .. MaxVersion
         /\ GetActiveECHKey # 0 =>
              /\ GetActiveECHKey \in Versions
              /\ keyStatus[GetActiveECHKey] = "ACTIVE"
<1>1. CASE ActiveKeys = {}
  BY <1>1, VersionAssumption DEF GetActiveECHKey
<1>2. CASE ActiveKeys # {}
  <2>1. PICK a \in ActiveKeys : TRUE
    BY <1>2
  <2>2. a \in Versions /\ keyStatus[a] = "ACTIVE" /\ a \in Int /\ a # 0
    BY VersionAssumption DEF ActiveKeys, Versions
  <2>3. \A w \in ActiveKeys : w = a
    BY <2>2 DEF OneActiveKey, ActiveKeys
  <2>4. \A w \in ActiveKeys : w <= a
    BY <2>2, <2>3
  <2>5. GetActiveECHKey \in ActiveKeys
    BY <1>2, <2>4 DEF GetActiveECHKey
  <2>6. GetActiveECHKey = a
    BY <2>3, <2>5
  <2>7. a \in 0 .. MaxVersion
    BY <2>2, VersionAssumption DEF Versions
  <2> QED
    BY <2>2, <2>6, <2>7
<1> QED
  BY <1>1, <1>2

(* What SaveNewECHKey's transaction does to each row: v becomes ACTIVE and *)
(* no other row does, the ACTIVE one becomes PREVIOUS, nothing reappears.  *)
LEMMA SavedTable ==
  ASSUME TypeOK, NEW v \in Versions
  PROVE  /\ Saved(v) \in [Versions -> KeyStates]
         /\ Saved(v)[v] = "ACTIVE"
         /\ \A w \in Versions \ {v} :
              /\ Saved(v)[w] # "ACTIVE"
              /\ Saved(v)[w] = "NONE" <=> keyStatus[w] = "NONE"
              /\ Saved(v)[w] = "PREVIOUS" <=> keyStatus[w] = "ACTIVE"
              /\ keyStatus[w] \in {"PREVIOUS", "ARCHIVED"} => Saved(v)[w] = "ARCHIVED"
<1>1. keyStatus \in [Versions -> KeyStates]
  BY DEF TypeOK
<1>2. \A w \in Versions : keyStatus[w] \in {"NONE", "ACTIVE", "PREVIOUS", "ARCHIVED"}
  BY <1>1 DEF KeyStates
<1>3. \A w \in Versions : Saved(v)[w] =
        IF w = v THEN "ACTIVE"
        ELSE CASE keyStatus[w] = "ACTIVE"   -> "PREVIOUS"
               [] keyStatus[w] = "PREVIOUS" -> "ARCHIVED"
               [] OTHER                     -> keyStatus[w]
  BY DEF Saved
<1>4. Saved(v)[v] = "ACTIVE"
  BY <1>3
<1>5. \A w \in Versions \ {v} :
        \/ keyStatus[w] = "NONE" /\ Saved(v)[w] = "NONE"
        \/ keyStatus[w] = "ACTIVE" /\ Saved(v)[w] = "PREVIOUS"
        \/ keyStatus[w] = "PREVIOUS" /\ Saved(v)[w] = "ARCHIVED"
        \/ keyStatus[w] = "ARCHIVED" /\ Saved(v)[w] = "ARCHIVED"
  BY <1>2, <1>3
<1>6. \A w \in Versions : Saved(v)[w] \in KeyStates
  BY <1>4, <1>5 DEF KeyStates
<1>7. Saved(v) \in [Versions -> KeyStates]
  BY <1>6 DEF Saved
<1> QED
  BY <1>4, <1>5, <1>7

(* The versions' arithmetic: the bound, and the successor of a version.    *)
LEMMA VersionFacts ==
  /\ MaxVersion \in Nat
  /\ Versions \subseteq 0 .. MaxVersion
  /\ 0 \notin Versions
  /\ \A v \in 0 .. MaxVersion : v < MaxVersion => v + 1 \in Versions
  BY VersionAssumption DEF Versions

(***************************************************************************)
(* Types                                                                   *)
(***************************************************************************)

(* What most locals and times are reset to.                                *)
LEMMA Zeroes == 0 \in 0 .. MaxVersion /\ 0 \in 0 .. MaxTime
  BY VersionAssumption, ServerAssumption

(* A new cluster, its tables and locals, are of their types.               *)
LEMMA InitTypeOK == ServerInit => TypeOK
<1> SUFFICES ASSUME ServerInit PROVE TypeOK
  OBVIOUS
<1> USE VersionAssumption, ServerAssumption DEF ServerInit
<1>0. 0 \in 0 .. MaxVersion /\ 0 \in 0 .. MaxTime /\ due \in BOOLEAN
  BY Zeroes
<1>1. keyStatus \in [Versions -> KeyStates] /\ syncStatus \in [Nodes -> NodeStates]
  BY DEF KeyStates, NodeStates
<1>2. domStatus \in [Domains -> DomainStates]
  BY DEF DomainStates
<1>3. pc \in [Rotators -> CoordSteps] /\ \A a \in Admins : pc[a] \in RotationSteps
  BY DEF Rotators, CoordSteps, RotationSteps
<1>4. /\ curVer \in 0 .. MaxVersion
      /\ lastRot \in 0 .. MaxTime
      /\ applied \in [Nodes -> 0 .. MaxVersion]
      /\ domSynced \in [Domains -> 0 .. MaxTime]
      /\ dns \in [Domains -> 0 .. MaxVersion]
      /\ ver \in [Rotators -> 0 .. MaxVersion]
      /\ now \in [Rotators -> 0 .. MaxTime]
  BY <1>0
<1>5. /\ seenRot \in 0 .. MaxTime + 1
      /\ todo \subseteq Domains
      /\ marking \subseteq Domains \X {"SYNCED", "FAILED"}
      /\ key \in 0 .. MaxVersion
      /\ clock \in 1 .. MaxTime
      /\ events \in 0 .. MaxEvents
  OBVIOUS
<1> QED
  BY <1>0, <1>1, <1>2, <1>3, <1>4, <1>5 DEF TypeOK

(* Every fault or operator action counts, within the bound.                *)
LEMMA EventType ==
  ASSUME TypeOK, NEW e, Event(e)
  PROVE  events' \in 0 .. MaxEvents
  BY ServerAssumption DEF TypeOK, Event

(* Moving a rotation to a step it may take; only the coordinator publishes.*)
LEMMA GotoType ==
  ASSUME TypeOK, NEW r \in Rotators, NEW step, Goto(r, step),
         (r = Coordinator /\ step \in CoordSteps) \/ step \in RotationSteps
  PROVE  pc' \in [Rotators -> CoordSteps] /\ \A a \in Admins : pc'[a] \in RotationSteps
<1>1. RotationSteps \subseteq CoordSteps /\ Admins \subseteq Rotators /\ Coordinator \notin Admins
  BY ServerAssumption DEF CoordSteps, Rotators
<1> QED
  BY <1>1 DEF TypeOK, Goto

(* The coordinator's locals at the end of its cycle.                       *)
LEMMA CycleEndsType ==
  ASSUME TypeOK, CycleEnds
  PROVE  /\ pc' \in [Rotators -> CoordSteps]
         /\ \A a \in Admins : pc'[a] \in RotationSteps
         /\ ver' \in [Rotators -> 0 .. MaxVersion]
         /\ now' \in [Rotators -> 0 .. MaxTime]
         /\ seenRot' \in 0 .. MaxTime + 1
         /\ todo' \subseteq Domains
         /\ marking' \subseteq Domains \X {"SYNCED", "FAILED"}
         /\ key' \in 0 .. MaxVersion
<1>1. Coordinator \in Rotators /\ "idle" \in CoordSteps
  BY DEF Rotators, CoordSteps, RotationSteps
<1>2. pc' \in [Rotators -> CoordSteps] /\ \A a \in Admins : pc'[a] \in RotationSteps
  BY <1>1, GotoType DEF CycleEnds
<1>3. ver' \in [Rotators -> 0 .. MaxVersion] /\ now' \in [Rotators -> 0 .. MaxTime]
  BY Zeroes DEF TypeOK, CycleEnds
<1>4. seenRot' \in 0 .. MaxTime + 1 /\ key' \in 0 .. MaxVersion
  BY VersionAssumption, ServerAssumption DEF CycleEnds
<1>5. todo' \subseteq Domains /\ marking' \subseteq Domains \X {"SYNCED", "FAILED"}
  BY DEF CycleEnds
<1> QED
  BY <1>2, <1>3, <1>4, <1>5

(* A rotation that is about to save holds a version that was given out.    *)
LEMMA VersionInHand ==
  ASSUME TypeOK, VersionsNotShared, NEW r \in Rotators, pc[r] = "save"
  PROVE  ver[r] \in Versions /\ ver[r] <= curVer
<1>1. ver[r] \in 1 .. curVer /\ curVer \in 0 .. MaxVersion
  BY DEF VersionsNotShared, Unsaved, TypeOK
<1> QED
  BY <1>1, VersionAssumption DEF Versions

(* A goroutine reads the clock.                                            *)
LEMMA TimeNoted ==
  ASSUME TypeOK, NEW r \in Rotators, now' = [now EXCEPT ![r] = clock]
  PROVE  now' \in [Rotators -> 0 .. MaxTime]
<1>1. clock \in 0 .. MaxTime
  BY ServerAssumption DEF TypeOK
<1> QED
  BY <1>1 DEF TypeOK

(* Every step keeps the types: what GetActiveECHKey returns, and Saved     *)
(* leaves, is covered by the lemmas above.                                 *)
LEMMA TypeOKStep ==
  ASSUME TypeOK, OneActiveKey, VersionsNotShared, [ServerNext]_serverVars
  PROVE  TypeOK'
<1> USE DEF clusterVars, nodeVars, domainVars, syncVars, envVars
<1>0. /\ Coordinator \in Rotators /\ Admins \subseteq Rotators /\ Coordinator \notin Admins
      /\ RotationSteps \subseteq CoordSteps
      /\ {"idle", "increment", "pending", "flag", "reset", "save"} \subseteq RotationSteps
      /\ {"check", "list", "getkey", "publish"} \subseteq CoordSteps
  BY ServerAssumption DEF Rotators, RotationSteps, CoordSteps, Unsaved
<1>1. ASSUME NEW a \in Admins, TriggerClusterRotation(a) PROVE TypeOK'
  <2>1. pc' \in [Rotators -> CoordSteps] /\ \A b \in Admins : pc'[b] \in RotationSteps
    BY <1>0, <1>1, GotoType DEF TriggerClusterRotation
  <2>2. now' \in [Rotators -> 0 .. MaxTime]
    BY <1>0, <1>1, TimeNoted DEF TriggerClusterRotation
  <2> QED
    BY <1>1, <2>1, <2>2 DEF TriggerClusterRotation, TypeOK
<1>2. ASSUME ReconcileRotate PROVE TypeOK'
  <2>1. pc' \in [Rotators -> CoordSteps] /\ \A b \in Admins : pc'[b] \in RotationSteps
    BY <1>0, <1>2, GotoType DEF ReconcileRotate
  <2>2. now' \in [Rotators -> 0 .. MaxTime]
    BY <1>0, <1>2, TimeNoted DEF ReconcileRotate
  <2> QED
    BY <1>2, <2>1, <2>2 DEF ReconcileRotate, TypeOK
<1>3. ASSUME NEW r \in Rotators, Increment(r) PROVE TypeOK'
  <2>1. pc' \in [Rotators -> CoordSteps] /\ \A b \in Admins : pc'[b] \in RotationSteps
    BY <1>0, <1>3, GotoType DEF Increment
  <2>2. curVer' \in 0 .. MaxVersion /\ ver' \in [Rotators -> 0 .. MaxVersion]
    BY <1>3, VersionAssumption DEF Increment, TypeOK
  <2>3. due' \in BOOLEAN
    BY <1>3 DEF Increment
  <2> QED
    BY <1>3, <2>1, <2>2, <2>3 DEF Increment, TypeOK
<1>4. ASSUME NEW r \in Rotators, FlagOutdated(r) PROVE TypeOK'
  <2>1. pc' \in [Rotators -> CoordSteps] /\ \A b \in Admins : pc'[b] \in RotationSteps
    BY <1>0, <1>4, GotoType DEF FlagOutdated
  <2>2. syncStatus' \in [Nodes -> NodeStates]
    BY <1>4 DEF FlagOutdated, TypeOK, NodeStates
  <2> QED
    BY <1>4, <2>1, <2>2 DEF FlagOutdated, TypeOK
<1>5. ASSUME NEW r \in Rotators, ResetDomains(r) PROVE TypeOK'
  <2>1. pc' \in [Rotators -> CoordSteps] /\ \A b \in Admins : pc'[b] \in RotationSteps
    BY <1>0, <1>5, GotoType DEF ResetDomains
  <2>2. domStatus' \in [Domains -> DomainStates]
    BY <1>5 DEF ResetDomains, DomainStates
  <2> QED
    BY <1>5, <2>1, <2>2 DEF ResetDomains, TypeOK
<1>6. ASSUME NEW r \in Rotators, SaveNewECHKey(r) PROVE TypeOK'
  <2>1. pc' \in [Rotators -> CoordSteps] /\ \A b \in Admins : pc'[b] \in RotationSteps
    BY <1>0, <1>6, GotoType DEF SaveNewECHKey
  <2>2. ver[r] \in Versions
    BY <1>6, VersionInHand DEF SaveNewECHKey
  <2>3. keyStatus' \in [Versions -> KeyStates]
    BY <1>6, <2>2, SavedTable DEF SaveNewECHKey
  <2> QED
    BY <1>6, <2>1, <2>3 DEF SaveNewECHKey, TypeOK
<1>7. ASSUME NEW r \in Rotators, RotationFails(r) PROVE TypeOK'
  <2>1. pc' \in [Rotators -> CoordSteps] /\ \A b \in Admins : pc'[b] \in RotationSteps
    BY <1>0, <1>7, GotoType DEF RotationFails
  <2>2. events' \in 0 .. MaxEvents
    BY <1>7, EventType DEF RotationFails, TypeOK
  <2> QED
    BY <1>7, <2>1, <2>2, Zeroes DEF RotationFails, TypeOK
<1>8. ASSUME NEW r \in Rotators, StatementLost(r) PROVE TypeOK'
  <2>1. pc' \in [Rotators -> CoordSteps] /\ \A b \in Admins : pc'[b] \in RotationSteps
    BY <1>0, <1>8, GotoType DEF StatementLost
  <2>2. events' \in 0 .. MaxEvents
    BY <1>8, EventType DEF StatementLost
  <2> QED
    BY <1>8, <2>1, <2>2 DEF StatementLost, TypeOK
<1>9. ASSUME NEW r \in Rotators, Rotated(r)
      PROVE  /\ pc' \in [Rotators -> CoordSteps]
             /\ \A a \in Admins : pc'[a] \in RotationSteps
             /\ ver' \in [Rotators -> 0 .. MaxVersion]
             /\ now' \in [Rotators -> 0 .. MaxTime]
             /\ seenRot' \in 0 .. MaxTime + 1
  <2>1. pc' \in [Rotators -> CoordSteps] /\ \A b \in Admins : pc'[b] \in RotationSteps
    BY <1>0, <1>9, GotoType DEF Rotated
  <2>2. now[r] \in 0 .. MaxTime /\ now[r] + 1 \in 0 .. MaxTime + 1
    BY <1>9, ServerAssumption DEF TypeOK
  <2> QED
    BY <1>9, <2>1, <2>2, Zeroes DEF Rotated, TypeOK
<1>10. ASSUME NEW r \in Rotators, MarkPending(r) PROVE TypeOK'
  <2>1. domStatus' \in [Domains -> DomainStates] /\ domSynced' \in [Domains -> 0 .. MaxTime]
    BY <1>10, Zeroes DEF MarkPending, DomainStates
  <2> QED
    BY <1>9, <1>10, <2>1 DEF MarkPending, TypeOK
<1>11. ASSUME NEW r \in Rotators, MarkPendingLost(r) PROVE TypeOK'
  <2>1. events' \in 0 .. MaxEvents
    BY <1>11, EventType DEF MarkPendingLost
  <2> QED
    BY <1>9, <1>11, <2>1 DEF MarkPendingLost, TypeOK
<1>12. ASSUME ReconcileCheck PROVE TypeOK'
  <2>1. pc' \in [Rotators -> CoordSteps] /\ \A b \in Admins : pc'[b] \in RotationSteps
    BY <1>0, <1>12, GotoType DEF ReconcileCheck
  <2>2. seenRot' \in 0 .. MaxTime + 1
    BY <1>12, ServerAssumption DEF ReconcileCheck, TypeOK
  <2> QED
    BY <1>12, <2>1, <2>2 DEF ReconcileCheck, TypeOK
<1>13. ASSUME CheckNodes PROVE TypeOK'
  <2>1. CASE CycleEnds
    BY <1>13, <2>1, CycleEndsType DEF CheckNodes, TypeOK
  <2>2. CASE Goto(Coordinator, "list") /\ UNCHANGED <<ver, now, syncVars>>
    <3>1. pc' \in [Rotators -> CoordSteps] /\ \A b \in Admins : pc'[b] \in RotationSteps
      BY <1>0, <2>2, GotoType
    <3> QED
      BY <1>13, <2>2, <3>1 DEF CheckNodes, TypeOK
  <2> QED
    BY <1>13, <2>1, <2>2 DEF CheckNodes
<1>14. ASSUME ListDomains PROVE TypeOK'
  <2> DEFINE stale == {d \in Domains : ~UpToDate(d)}
  <2>1. CASE CycleEnds
    BY <1>14, <2>1, CycleEndsType DEF ListDomains, TypeOK
  <2>2. CASE todo' = stale /\ Goto(Coordinator, "getkey") /\ UNCHANGED <<ver, now, seenRot, marking, key>>
    <3>1. pc' \in [Rotators -> CoordSteps] /\ \A b \in Admins : pc'[b] \in RotationSteps
      BY <1>0, <2>2, GotoType
    <3>2. todo' \subseteq Domains
      BY <2>2
    <3> QED
      BY <1>14, <2>2, <3>1, <3>2 DEF ListDomains, TypeOK
  <2> QED
    BY <1>14, <2>1, <2>2 DEF ListDomains
<1>15. ASSUME GetKey PROVE TypeOK'
  <2>1. CASE CycleEnds
    BY <1>15, <2>1, CycleEndsType DEF GetKey, TypeOK
  <2>2. CASE /\ key' = GetActiveECHKey
             /\ now' = [now EXCEPT ![Coordinator] = clock]
             /\ Goto(Coordinator, "publish")
             /\ UNCHANGED <<ver, seenRot, todo, marking>>
    <3>1. pc' \in [Rotators -> CoordSteps] /\ \A b \in Admins : pc'[b] \in RotationSteps
      BY <1>0, <2>2, GotoType
    <3>2. key' \in 0 .. MaxVersion
      BY <2>2, ActiveKeyType
    <3>3. now' \in [Rotators -> 0 .. MaxTime]
      BY <1>0, <2>2, TimeNoted
    <3> QED
      BY <1>15, <2>2, <3>1, <3>2, <3>3 DEF GetKey, TypeOK
  <2> QED
    BY <1>15, <2>1, <2>2 DEF GetKey
<1>16. ASSUME ReadFails PROVE TypeOK'
  <2>1. events' \in 0 .. MaxEvents
    BY <1>16, EventType DEF ReadFails
  <2> QED
    BY <1>16, <2>1, CycleEndsType DEF ReadFails, TypeOK
<1>17. ASSUME NEW d \in Domains, UpdateHTTPSRecord(d) PROVE TypeOK'
  BY <1>17 DEF UpdateHTTPSRecord, TypeOK
<1>18. ASSUME NEW d \in Domains, UpdateFails(d) PROVE TypeOK'
  <2>1. events' \in 0 .. MaxEvents
    BY <1>18, EventType DEF UpdateFails
  <2>2. dns' \in [Domains -> 0 .. MaxVersion]
    BY <1>18, Zeroes DEF UpdateFails, TypeOK
  <2> QED
    BY <1>18, <2>1, <2>2 DEF UpdateFails, TypeOK
<1>19. ASSUME NEW d \in Domains, NextDomain(d)
      PROVE  /\ pc' \in [Rotators -> CoordSteps]
             /\ \A a \in Admins : pc'[a] \in RotationSteps
             /\ ver' \in [Rotators -> 0 .. MaxVersion]
             /\ now' \in [Rotators -> 0 .. MaxTime]
             /\ seenRot' \in 0 .. MaxTime + 1
             /\ todo' \subseteq Domains
             /\ marking' \subseteq Domains \X {"SYNCED", "FAILED"}
             /\ key' \in 0 .. MaxVersion
  BY <1>19, CycleEndsType DEF NextDomain, TypeOK
<1>20. ASSUME NEW d \in Domains, PassOver(d) PROVE TypeOK'
  <2>1. events' \in 0 .. MaxEvents
    BY <1>20, EventType DEF PassOver
  <2> QED
    BY <1>19, <1>20, <2>1 DEF PassOver, TypeOK
<1>21. ASSUME NEW d \in Domains, NEW s \in {"SYNCED", "FAILED"}, Mark(d, s) PROVE TypeOK'
  <2>1. domStatus' \in [Domains -> DomainStates] /\ domSynced' \in [Domains -> 0 .. MaxTime]
    BY <1>0, <1>21 DEF Mark, TypeOK, DomainStates
  <2> QED
    BY <1>19, <1>21, <2>1 DEF Mark, TypeOK
<1>22. ASSUME NEW n \in Nodes, AssignNode(n) \/ UnassignNode(n) PROVE TypeOK'
  <2>1. events' \in 0 .. MaxEvents
    BY <1>22, EventType DEF AssignNode, UnassignNode
  <2>2. applied' \in [Nodes -> 0 .. MaxVersion] /\ syncStatus' \in [Nodes -> NodeStates]
    BY <1>22, Zeroes DEF AssignNode, UnassignNode, TypeOK, NodeStates
  <2> QED
    BY <1>22, <2>1, <2>2 DEF AssignNode, UnassignNode, TypeOK
<1>23. ASSUME ServerCrash PROVE TypeOK'
  <2>1. events' \in 0 .. MaxEvents
    BY <1>23, EventType DEF ServerCrash
  <2>2. pc' \in [Rotators -> CoordSteps] /\ \A b \in Admins : pc'[b] \in RotationSteps
    BY <1>0, <1>23 DEF ServerCrash
  <2>3. seenRot' \in 0 .. MaxTime + 1
    BY <1>23, ServerAssumption DEF ServerCrash
  <2> QED
    BY <1>23, <2>1, <2>2, <2>3, Zeroes DEF ServerCrash, TypeOK
<1>24. ASSUME RotationDue PROVE TypeOK'
  BY <1>24 DEF RotationDue, TypeOK
<1>25. ASSUME Tick PROVE TypeOK'
  BY <1>25, ServerAssumption DEF Tick, TypeOK
<1>26. ASSUME AckArrives PROVE TypeOK'
  <2>1. PICK n \in Nodes, v \in Versions, ok \in BOOLEAN : AckNode(n, v, ok) /\ UNCHANGED events
    BY <1>26 DEF AckArrives
  <2>2. applied' \in [Nodes -> 0 .. MaxVersion]
    BY <2>1, VersionFacts DEF AckNode, TypeOK
  <2>3. syncStatus' \in [Nodes -> NodeStates]
    BY <2>1 DEF AckNode, TypeOK, NodeStates
  <2> QED
    BY <2>1, <2>2, <2>3 DEF AckNode, TypeOK
<1>27. ASSUME UNCHANGED serverVars PROVE TypeOK'
  BY <1>27 DEF serverVars, TypeOK
<1> QED
  BY <1>1, <1>2, <1>3, <1>4, <1>5, <1>6, <1>7, <1>8, <1>10, <1>11, <1>12, <1>13, <1>14, <1>15,
     <1>16, <1>17, <1>18, <1>20, <1>21, <1>22, <1>23, <1>24, <1>25, <1>26, <1>27
     DEF ServerNext, ServerStep, Rotate, Publish

(***************************************************************************)
(* Keys                                                                    *)
(***************************************************************************)

(* A new cluster has no key, no rotation and no record.                    *)
LEMMA InitKeysInv == ServerInit => KeysInv /\ PublishedKeyStored
<1> SUFFICES ASSUME ServerInit PROVE KeysInv /\ PublishedKeyStored
  OBVIOUS
<1>1. OneActiveKey
  BY DEF ServerInit, OneActiveKey
<1>2. VersionsNotShared
  BY DEF ServerInit, VersionsNotShared, Unsaved
<1>3. KeysGivenOut
  BY DEF ServerInit, KeysGivenOut
<1>4. PublishedKeyStored
  BY DEF ServerInit, PublishedKeyStored, Rotators
<1> QED
  BY <1>1, <1>2, <1>3, <1>4 DEF KeysInv

(* A step that stores no key and gives out no version, and leaves the      *)
(* rotations where they are or ends them, keeps KeysInv.                   *)
LEMMA KeysAtRest ==
  ASSUME KeysInv, UNCHANGED <<curVer, keyStatus>>,
         \A r \in Rotators : pc'[r] \in Unsaved => pc[r] \in Unsaved /\ ver'[r] = ver[r]
  PROVE  KeysInv'
<1>1. OneActiveKey'
  BY DEF KeysInv, OneActiveKey
<1>2. VersionsNotShared'
  BY DEF KeysInv, VersionsNotShared
<1>3. KeysGivenOut'
  BY DEF KeysInv, KeysGivenOut
<1> QED
  BY <1>1, <1>2, <1>3 DEF KeysInv

(* The version a rotation takes is new to everyone.                        *)
LEMMA KeysIncrement ==
  ASSUME TypeOK, KeysInv, NEW r \in Rotators, Increment(r)
  PROVE  KeysInv'
<1> USE DEF clusterVars, nodeVars, domainVars, syncVars, envVars
<1>1. curVer \in Nat /\ curVer' = curVer + 1 /\ curVer + 1 \in Versions
  BY VersionAssumption DEF Increment, TypeOK, Versions
<1>2. keyStatus' = keyStatus /\ keyStatus[curVer + 1] = "NONE"
  BY <1>1 DEF Increment, KeysInv, KeysGivenOut
<1>3. /\ ver'[r] = curVer + 1
      /\ \A s \in Rotators \ {r} : ver'[s] = ver[s] /\ pc'[s] = pc[s]
  BY DEF Increment, Goto, TypeOK
<1>4. \A s \in Rotators : pc[s] \in Unsaved => ver[s] \in 1 .. curVer /\ keyStatus[ver[s]] = "NONE"
  BY DEF KeysInv, VersionsNotShared
<1>5. OneActiveKey'
  BY <1>2 DEF KeysInv, OneActiveKey
<1>6. KeysGivenOut'
  <2> SUFFICES ASSUME NEW v \in Versions, keyStatus[v] # "NONE" PROVE v <= curVer + 1
    BY <1>1, <1>2 DEF KeysGivenOut
  <2>1. v <= curVer /\ v \in Int
    BY VersionAssumption DEF KeysInv, KeysGivenOut, Versions
  <2> QED
    BY <1>1, <2>1
<1>7. VersionsNotShared'
  <2> SUFFICES ASSUME NEW s \in Rotators, pc'[s] \in Unsaved
               PROVE  /\ ver'[s] \in 1 .. curVer'
                      /\ keyStatus'[ver'[s]] = "NONE"
                      /\ \A t \in Rotators : pc'[t] \in Unsaved /\ ver'[t] = ver'[s] => t = s
    BY DEF VersionsNotShared
  <2>1. ver'[s] \in 1 .. curVer' /\ keyStatus'[ver'[s]] = "NONE"
    BY <1>1, <1>2, <1>3, <1>4
  <2>2. ASSUME NEW t \in Rotators, pc'[t] \in Unsaved, ver'[t] = ver'[s] PROVE t = s
    <3>1. CASE t # r /\ s # r
      BY <1>3, <2>2, <3>1 DEF KeysInv, VersionsNotShared
    <3>2. CASE t # s /\ (t = r \/ s = r)
      BY <1>1, <1>3, <1>4, <2>2, <3>2
    <3> QED
      BY <3>1, <3>2
  <2> QED
    BY <2>1, <2>2
<1> QED
  BY <1>5, <1>6, <1>7 DEF KeysInv

(* Saving it disturbs no other rotation's version.                         *)
LEMMA KeysSave ==
  ASSUME TypeOK, KeysInv, NEW r \in Rotators, SaveNewECHKey(r)
  PROVE  KeysInv'
<1> USE DEF clusterVars, nodeVars, domainVars, syncVars, envVars
<1> DEFINE v == ver[r]
<1>1. v \in Versions /\ v <= curVer
  BY VersionInHand DEF SaveNewECHKey, KeysInv
<1>2. keyStatus[v] = "NONE" /\ keyStatus' = Saved(v) /\ UNCHANGED <<curVer, ver>>
  BY DEF SaveNewECHKey
<1>3. pc' = [pc EXCEPT ![r] = "pending"] /\ pc \in [Rotators -> CoordSteps]
  BY DEF SaveNewECHKey, Goto, TypeOK
<1>4. OneActiveKey'
  <2>1. \A w, x \in Versions : keyStatus'[w] = "ACTIVE" /\ keyStatus'[x] = "ACTIVE" => w = x
    BY <1>1, <1>2, SavedTable
  <2>2. \A w \in Versions : keyStatus'[w] = "PREVIOUS" => keyStatus[w] = "ACTIVE"
    BY <1>1, <1>2, SavedTable
  <2>3. \E w \in Versions : keyStatus'[w] = "ACTIVE"
    BY <1>1, <1>2, SavedTable
  <2> QED
    BY <2>1, <2>2, <2>3 DEF KeysInv, OneActiveKey
<1>5. KeysGivenOut'
  BY <1>1, <1>2, SavedTable DEF KeysInv, KeysGivenOut
<1>6. VersionsNotShared'
  <2> SUFFICES ASSUME NEW s \in Rotators, pc'[s] \in Unsaved
               PROVE  /\ ver[s] \in 1 .. curVer
                      /\ keyStatus'[ver[s]] = "NONE"
                      /\ \A t \in Rotators : pc'[t] \in Unsaved /\ ver[t] = ver[s] => t = s
    BY <1>2 DEF VersionsNotShared
  <2>1. s # r /\ pc[s] \in Unsaved
    BY <1>3 DEF Unsaved
  <2>2. pc[r] \in Unsaved
    BY DEF SaveNewECHKey, Unsaved
  <2>3. ver[s] # v /\ ver[s] \in 1 .. curVer /\ keyStatus[ver[s]] = "NONE"
    BY <2>1, <2>2 DEF KeysInv, VersionsNotShared
  <2>4. ver[s] \in Versions
    BY <2>3, VersionAssumption DEF Versions, TypeOK
  <2>5. keyStatus'[ver[s]] = "NONE"
    BY <1>1, <1>2, <2>3, <2>4, SavedTable
  <2>6. \A t \in Rotators : pc'[t] \in Unsaved => pc[t] \in Unsaved
    BY <1>3 DEF Unsaved
  <2>7. \A t \in Rotators : pc[t] \in Unsaved /\ ver[t] = ver[s] => t = s
    BY <2>1 DEF KeysInv, VersionsNotShared
  <2> QED
    BY <2>3, <2>5, <2>6, <2>7
<1> QED
  BY <1>4, <1>5, <1>6 DEF KeysInv

(* Every other step leaves the rotations where they are, moves one on      *)
(* within its steps, or ends it.                                           *)
LEMMA KeysInvStep ==
  ASSUME TypeOK, KeysInv, [ServerNext]_serverVars
  PROVE  KeysInv'
<1> USE DEF clusterVars, nodeVars, domainVars, syncVars, envVars
<1> DEFINE AtRest == /\ UNCHANGED <<curVer, keyStatus>>
                     /\ \A r \in Rotators : pc'[r] \in Unsaved => pc[r] \in Unsaved /\ ver'[r] = ver[r]
<1>0. pc \in [Rotators -> CoordSteps] /\ ver \in [Rotators -> 0 .. MaxVersion] /\ Coordinator \in Rotators
  BY DEF TypeOK, Rotators
<1>1. ASSUME NEW r \in Rotators, Increment(r) PROVE KeysInv'
  BY <1>1, KeysIncrement
<1>2. ASSUME NEW r \in Rotators, SaveNewECHKey(r) PROVE KeysInv'
  BY <1>2, KeysSave
<1>3. ASSUME NEW r \in Rotators, FlagOutdated(r) \/ ResetDomains(r) \/ StatementLost(r) PROVE AtRest
  BY <1>0, <1>3 DEF FlagOutdated, ResetDomains, StatementLost, Goto, Unsaved
<1>4. ASSUME NEW r \in Rotators, RotationFails(r) PROVE AtRest
  BY <1>0, <1>4 DEF RotationFails, Goto, Unsaved
<1>5. ASSUME NEW r \in Rotators, MarkPending(r) \/ MarkPendingLost(r) PROVE AtRest
  BY <1>0, <1>5 DEF MarkPending, MarkPendingLost, Rotated, Goto, Unsaved
<1>6. ASSUME NEW a \in Admins, TriggerClusterRotation(a) PROVE AtRest
  BY <1>0, <1>6 DEF TriggerClusterRotation, Goto, Unsaved
<1>7. ASSUME ReconcileRotate \/ ReconcileCheck PROVE AtRest
  BY <1>0, <1>7 DEF ReconcileRotate, ReconcileCheck, Goto, Unsaved
<1>8. ASSUME CheckNodes \/ ListDomains \/ GetKey \/ ReadFails PROVE AtRest
  BY <1>0, <1>8 DEF CheckNodes, ListDomains, GetKey, ReadFails, CycleEnds, Goto, Unsaved
<1>9. ASSUME NEW d \in Domains, UpdateHTTPSRecord(d) \/ UpdateFails(d) \/ PassOver(d) PROVE AtRest
  BY <1>0, <1>9 DEF UpdateHTTPSRecord, UpdateFails, PassOver, NextDomain, CycleEnds, Goto, Unsaved
<1>10. ASSUME NEW d \in Domains, NEW s \in {"SYNCED", "FAILED"}, Mark(d, s) PROVE AtRest
  BY <1>0, <1>10 DEF Mark, NextDomain, CycleEnds, Goto, Unsaved
<1>11. ASSUME NEW n \in Nodes, AssignNode(n) \/ UnassignNode(n) PROVE AtRest
  BY <1>11 DEF AssignNode, UnassignNode
<1>12. ASSUME ServerCrash PROVE AtRest
  BY <1>12 DEF ServerCrash, Unsaved
<1>13. ASSUME RotationDue \/ Tick PROVE AtRest
  BY <1>13 DEF RotationDue, Tick
<1>14. ASSUME AckArrives PROVE AtRest
  BY <1>14 DEF AckArrives, AckNode
<1>15. ASSUME UNCHANGED serverVars PROVE AtRest
  BY <1>15 DEF serverVars
<1>16. AtRest => KeysInv'
  BY KeysAtRest
<1> QED
  BY <1>1, <1>2, <1>3, <1>4, <1>5, <1>6, <1>7, <1>8, <1>9, <1>10, <1>11, <1>12, <1>13, <1>14,
     <1>15, <1>16
     DEF ServerNext, ServerStep, Rotate, Publish

(* Only SaveNewECHKey writes ech_keys.                                     *)
LEMMA KeysOnwards ==
  ASSUME [ServerNext]_serverVars
  PROVE  \/ keyStatus' = keyStatus
         \/ \E r \in Rotators : SaveNewECHKey(r)
<1> USE DEF clusterVars, nodeVars, domainVars, syncVars, envVars
<1> QED
  BY DEF ServerNext, ServerStep, Rotate, Publish, Increment, FlagOutdated, ResetDomains, StatementLost,
         RotationFails, MarkPending, MarkPendingLost, TriggerClusterRotation, ReconcileRotate,
         ReconcileCheck, CheckNodes, ListDomains, GetKey, ReadFails, UpdateHTTPSRecord, UpdateFails,
         PassOver, Mark, AssignNode, UnassignNode, ServerCrash, RotationDue, Tick, AckArrives,
         AckNode, serverVars

(* It moves a key only onwards.                                            *)
LEMMA LifecycleStep ==
  ASSUME TypeOK, KeysInv, [ServerNext]_serverVars, NEW v \in Versions
  PROVE  /\ keyStatus[v] = "ACTIVE"   => keyStatus'[v] \in {"ACTIVE", "PREVIOUS"}
         /\ keyStatus[v] = "PREVIOUS" => keyStatus'[v] \in {"PREVIOUS", "ARCHIVED"}
         /\ keyStatus[v] = "ARCHIVED" => keyStatus'[v] = "ARCHIVED"
<1>1. CASE keyStatus' = keyStatus
  BY <1>1
<1>2. ASSUME NEW r \in Rotators, SaveNewECHKey(r)
      PROVE  /\ keyStatus[v] = "ACTIVE"   => keyStatus'[v] \in {"ACTIVE", "PREVIOUS"}
             /\ keyStatus[v] = "PREVIOUS" => keyStatus'[v] \in {"PREVIOUS", "ARCHIVED"}
             /\ keyStatus[v] = "ARCHIVED" => keyStatus'[v] = "ARCHIVED"
  <2>1. ver[r] \in Versions /\ keyStatus[ver[r]] = "NONE" /\ keyStatus' = Saved(ver[r])
    BY <1>2, VersionInHand DEF SaveNewECHKey, KeysInv
  <2> QED
    BY <2>1, SavedTable
<1> QED
  BY <1>1, <1>2, KeysOnwards

(* A stored key stays stored, so what has been published stays stored; and *)
(* what the coordinator publishes is what GetActiveECHKey returned.        *)
LEMMA PublishedStep ==
  ASSUME TypeOK, KeysInv, PublishedKeyStored, [ServerNext]_serverVars
  PROVE  PublishedKeyStored'
<1> USE DEF clusterVars, nodeVars, domainVars, syncVars, envVars
<1> DEFINE Stored(k) == k \in Versions /\ keyStatus[k] # "NONE"
           Read == /\ dns' = dns
                   /\ pc'[Coordinator] = "publish" =>
                        pc[Coordinator] = "publish" /\ key' = key
<1>0. /\ \A d \in Domains : dns[d] # 0 => Stored(dns[d])
      /\ pc[Coordinator] = "publish" => key # 0 /\ Stored(key)
      /\ pc \in [Rotators -> CoordSteps] /\ dns \in [Domains -> 0 .. MaxVersion]
      /\ Coordinator \in Rotators
  BY VersionAssumption DEF PublishedKeyStored, TypeOK, Versions, Rotators
<1>1. \A k : Stored(k) => keyStatus'[k] # "NONE"
  BY LifecycleStep DEF TypeOK, KeyStates
<1>2. Read => PublishedKeyStored'
  BY <1>0, <1>1 DEF PublishedKeyStored
<1>3. ASSUME NEW r \in Rotators, Rotate(r) PROVE Read
  BY <1>0, <1>3 DEF Rotate, Increment, FlagOutdated, ResetDomains, SaveNewECHKey, RotationFails,
                    StatementLost, MarkPending, MarkPendingLost, Rotated, Goto
<1>4. ASSUME NEW a \in Admins, TriggerClusterRotation(a) PROVE Read
  BY <1>0, <1>4 DEF TriggerClusterRotation, Goto
<1>5. ASSUME ReconcileRotate \/ ReconcileCheck \/ CheckNodes \/ ListDomains \/ ReadFails PROVE Read
  BY <1>0, <1>5 DEF ReconcileRotate, ReconcileCheck, CheckNodes, ListDomains, ReadFails, CycleEnds, Goto
<1>6. ASSUME GetKey PROVE PublishedKeyStored'
  <2>1. CASE CycleEnds
    <3>1. Read
      BY <1>0, <1>6, <2>1 DEF GetKey, CycleEnds, Goto
    <3> QED
      BY <1>2, <3>1
  <2>2. CASE GetActiveECHKey # 0 /\ key' = GetActiveECHKey
    <3>1. key' # 0 /\ Stored(key')
      BY <2>2, ActiveKeyType DEF KeysInv
    <3>2. dns' = dns
      BY <1>6 DEF GetKey
    <3> QED
      BY <1>0, <1>1, <3>1, <3>2 DEF PublishedKeyStored
  <2> QED
    BY <1>6, <2>1, <2>2 DEF GetKey
<1>7. ASSUME NEW d \in Domains, UpdateHTTPSRecord(d) \/ UpdateFails(d) PROVE PublishedKeyStored'
  <2>1. pc[Coordinator] = "publish" /\ UNCHANGED <<pc, key>>
    BY <1>7 DEF UpdateHTTPSRecord, UpdateFails
  <2>2. \A e \in Domains : dns'[e] \in {dns[e], key, 0}
    BY <1>0, <1>7 DEF UpdateHTTPSRecord, UpdateFails
  <2> QED
    BY <1>0, <1>1, <2>1, <2>2 DEF PublishedKeyStored
<1>8. ASSUME NEW d \in Domains, PassOver(d) \/ \E s \in {"SYNCED", "FAILED"} : Mark(d, s) PROVE Read
  BY <1>0, <1>8 DEF PassOver, Mark, NextDomain, CycleEnds, Goto
<1>9. ASSUME \/ \E n \in Nodes : AssignNode(n) \/ UnassignNode(n)
             \/ RotationDue \/ Tick \/ AckArrives \/ UNCHANGED serverVars
      PROVE  Read
  BY <1>9 DEF AssignNode, UnassignNode, RotationDue, Tick, AckArrives, AckNode, serverVars
<1>10. ASSUME ServerCrash PROVE Read
  BY <1>0, <1>10 DEF ServerCrash
<1> QED
  BY <1>2, <1>3, <1>4, <1>5, <1>6, <1>7, <1>8, <1>9, <1>10 DEF ServerNext, ServerStep, Publish

(***************************************************************************)
(* Theorems                                                                *)
(***************************************************************************)

(* The inductive invariant: types, keys and what is published.             *)
THEOREM ServerInvariant == ServerSpec => []ServerInv
<1>1. ServerInit => ServerInv
  BY InitTypeOK, InitKeysInv DEF ServerInv
<1>2. ServerInv /\ [ServerNext]_serverVars => ServerInv'
  BY TypeOKStep, KeysInvStep, PublishedStep DEF ServerInv, KeysInv
<1> QED
  BY <1>1, <1>2, PTL DEF ServerSpec

(* Type correctness of the server for any nodes, domains and admins.       *)
THEOREM ServerTypeCorrect == ServerSpec => []TypeOK
  BY ServerInvariant, PTL DEF ServerInv

(* However many rotations interleave, fail or crash: one ACTIVE key, one   *)
(* PREVIOUS key, and no stored key without an ACTIVE one.                  *)
THEOREM ServerOneActiveKey == ServerSpec => []OneActiveKey
  BY ServerInvariant, PTL DEF ServerInv, KeysInv

(* No two rotations hold the same version, and none holds a stored one.    *)
THEOREM ServerVersionsNotShared == ServerSpec => []VersionsNotShared
  BY ServerInvariant, PTL DEF ServerInv, KeysInv

(* What DNS advertises is a key the server has stored.                     *)
THEOREM ServerPublishedKeyStored == ServerSpec => []PublishedKeyStored
  BY ServerInvariant, PTL DEF ServerInv

(* Keys go ACTIVE, PREVIOUS, ARCHIVED and never back.                      *)
THEOREM ServerKeyLifecycle == ServerSpec => KeyLifecycle
<1>1. ServerInv /\ [ServerNext]_serverVars =>
        [\A v \in Versions :
           /\ keyStatus[v] = "ACTIVE"   => keyStatus'[v] \in {"ACTIVE", "PREVIOUS"}
           /\ keyStatus[v] = "PREVIOUS" => keyStatus'[v] \in {"PREVIOUS", "ARCHIVED"}
           /\ keyStatus[v] = "ARCHIVED" => keyStatus'[v] = "ARCHIVED"]_serverVars
  BY LifecycleStep DEF ServerInv
<1> QED
  BY <1>1, ServerInvariant, PTL DEF ServerSpec, KeyLifecycle
=============================================================================
