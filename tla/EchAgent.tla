------------------------------ MODULE EchAgent ------------------------------
(***************************************************************************)
(* nodem-agent on each edge node, for one ECH cluster: the sync cycle      *)
(* RunSyncCycle of internal/agent/syncer.go with the state file, the key   *)
(* files of the cluster's directory and the proxy that serves them.        *)
(*                                                                         *)
(* The steps are separated where a crash of the agent, a failing reload or *)
(* an answer of the server can come between.  A pull that fails leaves     *)
(* agent and server as they were and is not a step; neither is a cycle     *)
(* that finds nothing to do (it saves a timestamp, which only dates the    *)
(* replay check).                                                          *)
(*                                                                         *)
(* Any operation on a file may fail, also where the code discards the      *)
(* error; a damaged key file or state file counts as none.                 *)
(***************************************************************************)
EXTENDS EchCluster

VARIABLES
  stVer,     (* AppliedVersion in agent_state.json, 0 without an entry     *)
  cur, prev, (* keys in ech_current.pem and ech_previous.pem, 0: no file   *)
  loaded,    (* keys the proxy serves since its last successful reload     *)
  apc,       (* where the cycle is                                         *)
  label,     (* Version of the item in the server's answer                 *)
  item,      (* key of the item                                            *)
  unsaved,   (* history: nodes whose entry outlived the deletion of files  *)
  unbacked,  (* history: nodes that made no backup, or deleted their keys, *)
             (* since the last successful reload                           *)
  orphaned   (* history: nodes with key files that no entry leads to,      *)
             (* after a failed deletion or the loss of the state           *)

histories == <<unsaved, unbacked, orphaned>>
fileVars  == <<stVer, cur, prev, loaded, histories>>
agentVars == <<fileVars, apc, label, item>>

AgentSteps == {"idle", "listed", "install", "reload", "ack", "ackFailed", "save",
               "removed", "reloadRemoved"}

(* Type invariant of the agents: versions, sets of keys and cycle steps.   *)
AgentTypeOK ==
  /\ stVer \in [Nodes -> 0 .. MaxVersion]
  /\ cur \in [Nodes -> 0 .. MaxVersion]
  /\ prev \in [Nodes -> 0 .. MaxVersion]
  /\ loaded \in [Nodes -> SUBSET Versions]
  /\ apc \in [Nodes -> AgentSteps]
  /\ label \in [Nodes -> 0 .. MaxVersion]
  /\ item \in [Nodes -> 0 .. MaxVersion]
  /\ unsaved \cup unbacked \cup orphaned \subseteq Nodes

(* The keys in the cluster's directory.                                    *)
(* Mutated form: a file is counted whether it exists or not.               *)
KeyFiles_Unchecked(n) == {cur[n], prev[n]}

KeyFiles(n) == {cur[n], prev[n]} \ {0}

(* Those the proxy's configuration names: ech_includes.conf leaves out a   *)
(* directory without ech_current.pem.                                      *)
Included(n) == IF cur[n] = 0 THEN {} ELSE KeyFiles(n)

AgentGoto(n, step) == apc' = [apc EXCEPT ![n] = step]

AgentIdle(n) ==
  /\ AgentGoto(n, "idle")
  /\ label' = [label EXCEPT ![n] = 0]
  /\ item' = [item EXCEPT ![n] = 0]

(* Starting a cycle, the request has reached the server and got that label.*)
Requested(n, v) ==
  /\ apc[n] = "idle"
  /\ AgentGoto(n, "listed")
  /\ label' = [label EXCEPT ![n] = v]
  /\ UNCHANGED <<fileVars, item>>

(* The answer carries key k, its signature and checksum are right.         *)
Received(n, k) ==
  /\ apc[n] = "listed"
  /\ AgentGoto(n, "install")
  /\ item' = [item EXCEPT ![n] = k]
  /\ UNCHANGED <<fileVars, label>>

(* DeployLocally: current is copied to previous, then replaced by a rename.*)
(* Mutated form: a copy that exists is left.                               *)
Install_FirstBackup(n) ==
  /\ apc[n] = "install"
  /\ prev' = [prev EXCEPT ![n] = IF @ = 0 THEN cur[n] ELSE @]
  /\ cur' = [cur EXCEPT ![n] = item[n]]
  /\ AgentGoto(n, "reload")
  /\ UNCHANGED <<stVer, loaded, histories, label, item>>

Install(n) ==
  /\ apc[n] = "install"
  /\ prev' = [prev EXCEPT ![n] = IF cur[n] # 0 THEN cur[n] ELSE @]
  /\ cur' = [cur EXCEPT ![n] = item[n]]
  /\ AgentGoto(n, "reload")
  /\ UNCHANGED <<stVer, loaded, histories, label, item>>

(* The copy fails, which is ignored.                                       *)
InstallUnbacked(n) ==
  /\ apc[n] = "install" /\ cur[n] # 0
  /\ \E p \in {prev[n], 0} : prev' = [prev EXCEPT ![n] = p]
  /\ cur' = [cur EXCEPT ![n] = item[n]]
  /\ unbacked' = unbacked \cup {n}
  /\ AgentGoto(n, "reload")
  /\ UNCHANGED <<stVer, loaded, unsaved, orphaned, label, item>>

(* A deployment that does not get to the rename: the copy may be made, or  *)
(* damaged.                                                                *)
Interrupted(n) ==
  \E p \in {prev[n]} \cup (IF cur[n] # 0 THEN {cur[n], 0} ELSE {}) :
    /\ prev' = [prev EXCEPT ![n] = p]
    /\ unbacked' = IF p \in {cur[n], prev[n]} THEN unbacked ELSE unbacked \cup {n}

(* The new key cannot be written; the acknowledgment will say FAILED.      *)
InstallFails(n) ==
  /\ apc[n] = "install"
  /\ Interrupted(n)
  /\ AgentGoto(n, "ackFailed")
  /\ UNCHANGED <<stVer, cur, loaded, unsaved, orphaned, label, item>>

(* ReloadLocalProxies: the includes are regenerated, the proxy reloads.    *)
Reload(n) ==
  /\ apc[n] = "reload"
  /\ loaded' = [loaded EXCEPT ![n] = Included(n)]
  /\ AgentGoto(n, "ack")
  /\ unbacked' = unbacked \ {n}
  /\ UNCHANGED <<stVer, cur, prev, unsaved, orphaned, label, item>>

(* The includes, the configuration test or the reload command fails: the   *)
(* proxy keeps what it had, the acknowledgment will say FAILED.            *)
(* Mutated form: it says SUCCESS.                                          *)
ReloadFails_Acknowledged(n) ==
  /\ apc[n] = "reload"
  /\ AgentGoto(n, "ack")
  /\ UNCHANGED <<fileVars, label, item>>

ReloadFails(n) ==
  /\ apc[n] = "reload"
  /\ AgentGoto(n, "ackFailed")
  /\ UNCHANGED <<fileVars, label, item>>

(* The acknowledgment has been sent, whatever became of it.  After a       *)
(* failed deployment the cycle returns without saving the state.           *)
AckSent(n) ==
  /\ apc[n] \in {"ack", "ackFailed"}
  /\ IF apc[n] = "ack"
     THEN AgentGoto(n, "save") /\ UNCHANGED <<label, item>>
     ELSE AgentIdle(n)
  /\ UNCHANGED fileVars

(* SaveState with the version of the answer.                               *)
SaveState(n) ==
  /\ apc[n] = "save"
  /\ stVer' = [stVer EXCEPT ![n] = label[n]]
  /\ unsaved' = unsaved \ {n} /\ orphaned' = orphaned \ {n}
  /\ AgentIdle(n)
  /\ UNCHANGED <<cur, prev, loaded, unbacked>>

(* It truncates the file and writes it in place; its error is ignored.     *)
Unwritten(n) ==
  \E v \in {stVer[n], 0} :
    /\ stVer' = [stVer EXCEPT ![n] = v]
    /\ orphaned' = IF v = stVer[n] \/ KeyFiles(n) = {} THEN orphaned ELSE orphaned \cup {n}

SaveFails(n) ==
  /\ apc[n] = "save"
  /\ Unwritten(n)
  /\ AgentIdle(n)
  /\ UNCHANGED <<cur, prev, loaded, unsaved, unbacked>>

(* A cycle that finds nothing to do may lose the entry, too: it saves the  *)
(* state it has read, an empty one if it could not.                        *)
StateLost(n) ==
  /\ apc[n] = "idle" /\ stVer[n] # 0
  /\ stVer' = [stVer EXCEPT ![n] = 0]
  /\ orphaned' = IF KeyFiles(n) = {} THEN orphaned ELSE orphaned \cup {n}
  /\ UNCHANGED <<cur, prev, loaded, unsaved, unbacked, apc, label, item>>

(* The answer does not name a cluster the state file has: its directory is *)
(* deleted.  The acknowledgment REMOVED only writes a log line.            *)
Removing(n) ==
  /\ apc[n] = "idle" /\ stVer[n] # 0
  /\ unsaved' = unsaved \cup {n} /\ unbacked' = unbacked \cup {n}
  /\ AgentGoto(n, "removed")
  /\ UNCHANGED <<stVer, loaded, label, item>>

(* Mutated form: only ech_current.pem is deleted.                          *)
Remove_CurrentOnly(n) ==
  /\ Removing(n)
  /\ cur' = [cur EXCEPT ![n] = 0]
  /\ orphaned' = orphaned \ {n}
  /\ UNCHANGED prev

Remove(n) ==
  /\ Removing(n)
  /\ cur' = [cur EXCEPT ![n] = 0]
  /\ prev' = [prev EXCEPT ![n] = 0]
  /\ orphaned' = orphaned \ {n}

(* RemoveAll fails, which is only logged: any of the files may stay.       *)
RemoveFails(n) ==
  /\ Removing(n)
  /\ \E k \in {cur[n], 0} : cur' = [cur EXCEPT ![n] = k]
  /\ \E k \in {prev[n], 0} : prev' = [prev EXCEPT ![n] = k]
  /\ cur'[n] # 0 \/ prev'[n] # 0
  /\ orphaned' = orphaned \cup {n}

(* SaveState without the entry of the removed cluster.                     *)
SaveRemoved(n) ==
  /\ apc[n] = "removed"
  /\ stVer' = [stVer EXCEPT ![n] = 0]
  /\ unsaved' = unsaved \ {n}
  /\ AgentGoto(n, "reloadRemoved")
  /\ UNCHANGED <<cur, prev, loaded, unbacked, orphaned, label, item>>

SaveRemovedFails(n) ==
  /\ apc[n] = "removed"
  /\ Unwritten(n)
  /\ AgentGoto(n, "reloadRemoved")
  /\ UNCHANGED <<cur, prev, loaded, unsaved, unbacked, label, item>>

ReloadRemoved(n) ==
  /\ apc[n] = "reloadRemoved"
  /\ loaded' = [loaded EXCEPT ![n] = Included(n)]
  /\ AgentIdle(n)
  /\ unbacked' = unbacked \ {n}
  /\ UNCHANGED <<stVer, cur, prev, unsaved, orphaned>>

(* A failing reload is reported and not tried again.                       *)
ReloadRemovedFails(n) ==
  /\ apc[n] = "reloadRemoved"
  /\ AgentIdle(n)
  /\ UNCHANGED fileVars

(* The agent process dies; the files and the proxy stay.                   *)
AgentCrash(n) ==
  /\ apc[n] # "idle"
  /\ AgentIdle(n)
  /\ IF apc[n] = "install" THEN Interrupted(n) ELSE UNCHANGED <<prev, unbacked>>
  /\ IF apc[n] \in {"save", "removed"} THEN Unwritten(n) ELSE UNCHANGED <<stVer, orphaned>>
  /\ UNCHANGED <<cur, loaded, unsaved>>

FileFault(n) ==
  InstallUnbacked(n) \/ InstallFails(n) \/ SaveFails(n) \/ SaveRemovedFails(n) \/ StateLost(n)

AgentInit ==
  /\ stVer = [n \in Nodes |-> 0]
  /\ cur = [n \in Nodes |-> 0]
  /\ prev = [n \in Nodes |-> 0]
  /\ loaded = [n \in Nodes |-> {}]
  /\ apc = [n \in Nodes |-> "idle"]
  /\ label = [n \in Nodes |-> 0]
  /\ item = [n \in Nodes |-> 0]
  /\ unsaved = {} /\ unbacked = {} /\ orphaned = {}
=============================================================================
