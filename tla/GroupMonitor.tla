---------------------------- MODULE GroupMonitor ----------------------------
(***************************************************************************)
(* The monitor task of one group (internal/daemon/monitor.go): it probes   *)
(* the enabled addresses, keeps their check states, and adds and withdraws *)
(* them in the group's DNS record, while the API (internal/api/ips.go,     *)
(* checks.go, rules.go) edits the same tables.                             *)
(*                                                                         *)
(* A cycle is four kinds of steps, and anything may happen between them:   *)
(* the reads of the configuration; the probes and the check states; the    *)
(* reads of the states and of the zone; one step per address of the        *)
(* snapshot.  A cancelled task fails every later call, so cancelling is    *)
(* Stop, like a crash, or CutChecks among the writes of the states.  Logs, *)
(* messages and notifications are left out.                                *)
(*                                                                         *)
(* The task ignores the errors of all its writes and of most of its reads; *)
(* "dbFault" is one of them.                                               *)
(***************************************************************************)
EXTENDS RuleEngine, FiniteSets, SequencesExt

CONSTANTS
  Addrs,       (* addresses that may stand in the record                   *)
  Managed,     (* those the group has at first                             *)
  Checks,      (* ids of checks                                            *)
  FirstChecks, (* those the group has at first                             *)
  Configs,     (* check configurations [protocol, up, down, bypass]        *)
  FirstConfig, (* that of the first checks                                 *)
  RuleChoices, (* the rules [expr, action] a user may add                  *)
  FirstRules,  (* those the group has at first                             *)
  Conditions,  (* what an address may do: see Answers                      *)
  ForeignKeys, (* whether SQLite runs the ON DELETE CASCADE of the schema  *)
  MaxIps,      (* bound on the rows ever inserted                          *)
  MaxStreak,   (* counters stop here, at or above every threshold          *)
  EnvEvents,   (* kinds of environment events that may happen              *)
  MaxEvents    (* bound on their number                                    *)

ASSUME MonitorAssumption ==
  /\ IsFiniteSet(Addrs) /\ Managed \subseteq Addrs /\ Cardinality(Managed) <= MaxIps
  /\ FirstChecks \subseteq Checks
  /\ \A r \in RuleChoices : r.expr \in Exprs
  /\ FirstConfig \in Configs /\ FirstRules \subseteq RuleChoices
  /\ \A f \in Configs : {f.up, f.down} \subseteq 1 .. MaxStreak
  /\ ForeignKeys \in BOOLEAN
  /\ {MaxIps, MaxStreak, MaxEvents} \subseteq Nat

VARIABLES
  rows,        (* target_ips by id: address, enabled, dns_added, status    *)
  nextId,      (* the id of the next row                                   *)
  checks,      (* checks by id: their configurations                       *)
  newChecks,   (* ids not used yet                                         *)
  checkStates, (* check_states by <<ip id, check id>>                      *)
  rules,       (* group_rules                                              *)
  anomalies,   (* group_anomalies: unmanaged addresses found in the record *)
  zone,        (* the addresses in the record at the provider              *)
  condition,   (* what each address does at the moment                     *)
  pc,          (* where the task is in its cycle                           *)
  snap,        (* what it read in this cycle                               *)
  notified,    (* notifiedUnmanagedIPs                                     *)
  events,      (* environment events so far                                *)
  missed,      (* history: addresses whose anomaly was not written, or not *)
               (* read at the start                                        *)
  lost,        (* history: states that a probe's result is missing from,   *)
               (* until they pass and are not DOWN                         *)
  run          (* history: failed (< 0) or passed (> 0) probes in a row,   *)
               (* as seen by the network, and whether down of them came    *)
               (* in a row since up passed in a row                        *)

config == <<rows, nextId, checks, newChecks, rules>>
vars == <<config, checkStates, anomalies, zone, condition, pc, snap, notified, events, missed, lost, run>>

Ids == 1 .. MaxIps
Statuses == {"UNKNOWN", "UP", "DOWN"}
Row == [addr : Addrs, enabled : BOOLEAN, dnsAdded : BOOLEAN, status : Statuses]
CheckState == [up : 0 .. MaxStreak, down : 0 .. MaxStreak, status : Statuses]
Run == [streak : -MaxStreak .. MaxStreak, condemned : BOOLEAN]

(* Mutated form: the column has no default.                                *)
Fresh_NoStatus(a, enabled) == [addr |-> a, enabled |-> enabled, dnsAdded |-> FALSE, status |-> "NULL"]

Fresh(a, enabled) == [addr |-> a, enabled |-> enabled, dnsAdded |-> FALSE, status |-> "UNKNOWN"]
NoState == [up |-> 0, down |-> 0, status |-> "UNKNOWN"]
NoSnap == [rows |-> <<>>, checks |-> <<>>, rules |-> {}, states |-> <<>>,
           listed |-> FALSE, records |-> {}, todo |-> {}]

Pairs(rs, cs) == (DOMAIN rs) \X (DOMAIN cs)
Over(f, g) == [x \in DOMAIN f \cup DOMAIN g |-> IF x \in DOMAIN f THEN f[x] ELSE g[x]]
Without(f, S) == [x \in DOMAIN f \ S |-> f[x]]
AddrsOf(rs) == {rs[i].addr : i \in DOMAIN rs}

Event(kind) == kind \in EnvEvents /\ events < MaxEvents /\ events' = events + 1

MonitorTypeOK ==
  /\ DOMAIN rows \subseteq Ids /\ \A i \in DOMAIN rows : rows[i] \in Row
  /\ nextId \in 1 .. MaxIps + 1
  /\ DOMAIN checks \subseteq Checks /\ \A c \in DOMAIN checks : checks[c] \in Configs
  /\ newChecks \subseteq Checks
  /\ DOMAIN checkStates \subseteq Ids \X Checks
  /\ \A p \in DOMAIN checkStates : checkStates[p] \in CheckState
  /\ rules \subseteq RuleChoices
  /\ anomalies \subseteq Addrs /\ notified \subseteq Addrs /\ zone \subseteq Addrs
  /\ condition \in [Addrs -> Conditions]
  /\ pc \in {"sleeping", "probing", "listing", "syncing", "stopped"}
  /\ snap.todo \subseteq DOMAIN snap.rows
  /\ events \in 0 .. MaxEvents
  /\ missed \subseteq Addrs /\ lost \subseteq Ids \X Checks
  /\ run \in [Ids \X Checks -> Run]

(* A new group: rows just inserted, whatever already stands in the record. *)
Init ==
  /\ LET list == SetToSeq(Managed)
     IN rows = [i \in DOMAIN list |-> Fresh(list[i], TRUE)]
  /\ nextId = Cardinality(Managed) + 1
  /\ checks = [c \in FirstChecks |-> FirstConfig]
  /\ newChecks = Checks \ FirstChecks
  /\ checkStates = <<>> /\ rules = FirstRules
  /\ anomalies = {} /\ notified = {} /\ zone \in SUBSET Addrs
  /\ condition \in [Addrs -> Conditions]
  /\ pc = "sleeping" /\ snap = NoSnap /\ events = 0
  /\ missed = {} /\ lost = {}
  /\ run = [p \in Ids \X Checks |-> [streak |-> 0, condemned |-> FALSE]]

(***************************************************************************)
(* Health checks                                                           *)
(***************************************************************************)

(* The three probes.  An address serves, serves errors (an HTTP status      *)
(* outside 2xx), refuses connections or is silent; silence passes for UDP. *)
checkTCP(cond)       == cond \in {"serving", "errors"}
checkUDP(cond)       == cond # "refusing"
checkHTTPHTTPS(cond) == cond = "serving"

(* RunCheck.                                                               *)
Answers(protocol, cond) ==
  CASE protocol = "TCP"  -> checkTCP(cond)
    [] protocol = "UDP"  -> checkUDP(cond)
    [] protocol = "HTTP" -> checkHTTPHTTPS(cond)
    [] OTHER -> FALSE

Raw(rs, cs, p) == Answers(cs[p[2]].protocol, condition[rs[p[1]].addr])

(* Every enabled address fails the check at once and the check is told to  *)
(* look away: the failure counts as a success.                             *)
Bypassed(rs, cs, c) ==
  /\ cs[c].bypass
  /\ \A i \in DOMAIN rs : rs[i].enabled => ~Raw(rs, cs, <<i, c>>)

IsSuccess(rs, cs, p) == Raw(rs, cs, p) \/ Bypassed(rs, cs, p[2])

(***************************************************************************)
(* The cycle                                                               *)
(***************************************************************************)

(* The reads at the top of the loop.  A failed read only waits.            *)
BeginCycle ==
  /\ pc = "sleeping"
  /\ DOMAIN rows # {} /\ DOMAIN checks # {}
  /\ pc' = "probing"
  /\ snap' = [NoSnap EXCEPT !.rows = rows, !.checks = checks, !.rules = rules]
  /\ UNCHANGED <<config, checkStates, anomalies, zone, condition, notified, events, missed, lost, run>>

(* Nothing to probe: the cycle does nothing.                               *)
IdleCycle ==
  /\ pc = "sleeping"
  /\ DOMAIN rows = {} \/ DOMAIN checks = {}
  /\ UNCHANGED vars

Capped(n) == IF n > MaxStreak THEN MaxStreak ELSE n

(* One result counted into a state; only a full streak changes the status. *)
(* Mutated form: a success leaves the count of failures.                   *)
Counted_KeepsFailures(s, f, ok) ==
  IF ok
  THEN LET up == Capped(s.up + 1)
       IN [up |-> up, down |-> s.down, status |-> IF up >= f.up THEN "UP" ELSE s.status]
  ELSE LET down == Capped(s.down + 1)
       IN [up |-> 0, down |-> down, status |-> IF down >= f.down THEN "DOWN" ELSE s.status]

Counted(s, f, ok) ==
  IF ok
  THEN LET up == Capped(s.up + 1)
       IN [up |-> up, down |-> 0, status |-> IF up >= f.up THEN "UP" ELSE s.status]
  ELSE LET down == Capped(s.down + 1)
       IN [up |-> 0, down |-> down, status |-> IF down >= f.down THEN "DOWN" ELSE s.status]

(* The history of the probes themselves, with the thresholds of the moment.*)
Observed(h, f, ok) ==
  LET s == IF ok THEN Capped(1 + (IF h.streak > 0 THEN h.streak ELSE 0))
                 ELSE -Capped(1 - (IF h.streak < 0 THEN h.streak ELSE 0))
  IN [streak |-> s,
      condemned |-> IF s >= f.up THEN FALSE ELSE IF -s >= f.down THEN TRUE ELSE h.condemned]

Probed == {p \in Pairs(snap.rows, snap.checks) : snap.rows[p[1]].enabled}

(* Results are counted into the states that could be read; one that could  *)
(* not (unread) counts as none.  With foreign keys, a state of a row or a  *)
(* check deleted meanwhile is not written.                                 *)
NewStates(written, unread) ==
  LET Kept(p) == ~ForeignKeys \/ p \in Pairs(rows, checks)
      Prev(p) == IF p \in DOMAIN checkStates \ unread THEN checkStates[p] ELSE NoState
      Ok(p) == IsSuccess(snap.rows, snap.checks, p)
  IN [p \in {q \in written : Kept(q)} |-> Counted(Prev(p), snap.checks[p[2]], Ok(p))]

(* The probes of all enabled addresses, and the states written of them.    *)
Probe(states, unwritten) ==
  /\ checkStates' = Over(states, checkStates)
  /\ lost' = (lost \cup unwritten)
               \ {p \in DOMAIN states : states[p].down = 0 /\ states[p].status # "DOWN"}
  /\ run' = [p \in DOMAIN run |->
               IF p \in Probed
               THEN Observed(run[p], snap.checks[p[2]], Raw(snap.rows, snap.checks, p))
               ELSE run[p]]
  /\ UNCHANGED <<config, anomalies, zone, condition, missed>>

(* One state may be unread, or its write fail: nobody looks at the errors. *)
RunChecks ==
  /\ pc = "probing"
  /\ \E unread \in SUBSET Probed, unwritten \in SUBSET Probed :
       /\ Cardinality(unread \cup unwritten) <= 1
       /\ IF unread \cup unwritten = {} THEN UNCHANGED events ELSE Event("dbFault")
       /\ Probe(NewStates(Probed \ unwritten, unread), unwritten)
  /\ pc' = "listing"
  /\ UNCHANGED <<snap, notified>>

(* The task is cancelled, or the daemon stops, among the writes.           *)
CutChecks ==
  /\ pc = "probing" /\ Event("stop")
  /\ \E unwritten \in SUBSET Probed \ {{}} :
       Probe(NewStates(Probed \ unwritten, {}), unwritten)
  /\ pc' = "stopped" /\ snap' = NoSnap /\ notified' = {}

(* ListCheckStatesForGroup: the states of rows that still exist.           *)
GroupStates == Without(checkStates, {p \in DOMAIN checkStates : p[1] \notin DOMAIN rows})

(* The provider cannot be read or built: the cycle ends without a look at  *)
(* the zone.                                                               *)
NoProvider ==
  /\ pc = "listing"
  /\ Event("dbFault")
  /\ pc' = "sleeping" /\ snap' = NoSnap
  /\ UNCHANGED <<config, checkStates, anomalies, zone, condition, notified, missed, lost, run>>

(* group_anomalies after a listing: what is new to the task's map is added, *)
(* what left the record is deleted, save the writes that failed.           *)
(* Mutated form: addresses that left the record are not deleted.           *)
Recorded_NeverCleared(unmanaged, failed) == anomalies \cup ((unmanaged \ notified) \ failed)

Recorded(unmanaged, failed) ==
  (anomalies \cup ((unmanaged \ notified) \ failed)) \ ((notified \ unmanaged) \ failed)

(* The map is brought up to date before the writes, whose errors are       *)
(* ignored: a write that failed is not tried again.                        *)
NoteAnomalies(unmanaged, failed) ==
  LET changed == (unmanaged \ notified) \cup (notified \ unmanaged) IN
  /\ failed \subseteq changed
  /\ notified' = unmanaged
  /\ anomalies' = Recorded(unmanaged, failed)
  /\ missed' = (missed \ changed) \cup failed

(* The states and the zone are read and the anomalies brought up to date.  *)
(* Either read may fail: then there are no states, or no listing.  And a   *)
(* refusal behind HTTP 200 (DnsService) lists nothing, without an error.   *)
ReadZone ==
  /\ pc = "listing"
  /\ \E states \in {GroupStates, <<>>}, listed \in BOOLEAN, records \in {zone, {}},
        failed \in SUBSET Addrs :
       /\ ~listed => records = {} /\ failed = {}
       /\ \/ /\ states = GroupStates /\ listed /\ records = zone /\ failed = {}
             /\ UNCHANGED events
          \/ /\ states # GroupStates \/ failed # {}
             /\ listed /\ records = zone /\ Event("dbFault")
          \/ /\ states = GroupStates /\ ~(listed /\ records = zone) /\ failed = {}
             /\ Event("provider")
       /\ IF listed THEN NoteAnomalies(records \ AddrsOf(snap.rows), failed)
          ELSE UNCHANGED <<notified, anomalies, missed>>
       /\ snap' = [snap EXCEPT !.states = states, !.listed = listed,
                     !.records = records, !.todo = DOMAIN snap.rows]
  /\ pc' = "syncing"
  /\ UNCHANGED <<config, checkStates, zone, condition, lost, run>>

(* UpdateIPStatus: no effect on a row that is gone.                        *)
UpdateIPStatus(i, status, added) ==
  rows' = IF i \in DOMAIN rows
          THEN [rows EXCEPT ![i].status = status, ![i].dnsAdded = added]
          ELSE rows

(* What is shown for an address that has no verdict or is not probed.      *)
Shown(i, present) ==
  IF ~snap.rows[i].enabled \/ ~HasStates(i, snap.states) THEN "UNKNOWN"
  ELSE IF present THEN "UP" ELSE "DOWN"

Wanted(i) == ShouldBeAdded(i, snap.rows[i], DOMAIN snap.rows, snap.states, snap.rules)
Present(i) == snap.rows[i].addr \in snap.records

(* An address is done; after the last one the task sleeps.                 *)
Done(i) ==
  /\ pc = "syncing" /\ i \in snap.todo
  /\ IF snap.todo = {i}
     THEN pc' = "sleeping" /\ snap' = NoSnap
     ELSE pc' = pc /\ snap' = [snap EXCEPT !.todo = @ \ {i}]
  /\ UNCHANGED <<nextId, checks, newChecks, rules, checkStates, anomalies, condition, notified,
                 missed, lost, run>>

(* Mutated form: a record just added is not noted in the row.              *)
AddIPRecord_NotNoted(i) ==
  /\ Done(i) /\ snap.listed /\ Wanted(i) /\ ~Present(i)
  /\ zone' = zone \cup {snap.rows[i].addr}
  /\ UpdateIPStatus(i, "UP", FALSE)
  /\ UNCHANGED events

AddIPRecord(i) ==
  /\ Done(i) /\ snap.listed /\ Wanted(i) /\ ~Present(i)
  /\ zone' = zone \cup {snap.rows[i].addr}
  /\ UpdateIPStatus(i, "UP", TRUE)
  /\ UNCHANGED events

DeleteIPRecord(i) ==
  /\ Done(i) /\ snap.listed /\ ~Wanted(i) /\ Present(i)
  /\ zone' = zone \ {snap.rows[i].addr}
  /\ UpdateIPStatus(i, Shown(i, FALSE), FALSE)
  /\ UNCHANGED events

(* The provider answers an error, with or without having done the change,  *)
(* and the row is left as it is; or the row cannot be written.             *)
ChangeFailed(i) ==
  /\ Done(i) /\ snap.listed /\ Wanted(i) # Present(i)
  /\ Event("provider")
  /\ LET a == snap.rows[i].addr
     IN zone' \in {zone, IF Wanted(i) THEN zone \cup {a} ELSE zone \ {a}}
  /\ UNCHANGED rows

(* Already in sync.                                                        *)
(* Mutated form: the flag is written as it was read, not as it was found.  *)
NoteIP_KeepsFlag(i) ==
  /\ Done(i) /\ snap.listed /\ Wanted(i) = Present(i)
  /\ UpdateIPStatus(i, Shown(i, Present(i)), snap.rows[i].dnsAdded)
  /\ UNCHANGED <<zone, events>>

NoteIP(i) ==
  /\ Done(i) /\ snap.listed /\ Wanted(i) = Present(i)
  /\ UpdateIPStatus(i, Shown(i, Present(i)), Present(i))
  /\ UNCHANGED <<zone, events>>

(* The record could not be listed: the row is confirmed as it was read.    *)
ConfirmIP(i) ==
  /\ Done(i) /\ ~snap.listed
  /\ LET added == snap.rows[i].dnsAdded IN UpdateIPStatus(i, Shown(i, added), added)
  /\ UNCHANGED <<zone, events>>

(* What an address in sync is found to be cannot be written to its row.    *)
NoteFailed(i) ==
  /\ Done(i) /\ (snap.listed => Wanted(i) = Present(i))
  /\ Event("dbFault")
  /\ UNCHANGED <<rows, zone>>

(* The task is cancelled or the daemon stops; a later start reads the      *)
(* anomalies back.  If it cannot, it goes on with an empty map.            *)
Stop ==
  /\ pc # "stopped" /\ Event("stop")
  /\ pc' = "stopped" /\ snap' = NoSnap /\ notified' = {}
  /\ UNCHANGED <<config, checkStates, anomalies, zone, condition, missed, lost, run>>

Start ==
  /\ pc = "stopped" /\ pc' = "sleeping"
  /\ \/ notified' = anomalies /\ missed' = {} /\ UNCHANGED events
     \/ Event("dbFault") /\ notified' = {} /\ missed' = anomalies
  /\ UNCHANGED <<config, checkStates, anomalies, zone, condition, snap, lost, run>>

Cycle ==
  \/ BeginCycle \/ IdleCycle \/ RunChecks \/ NoProvider \/ ReadZone
  \/ \E i \in Ids : \/ AddIPRecord(i) \/ DeleteIPRecord(i) \/ ChangeFailed(i)
                    \/ NoteIP(i) \/ ConfirmIP(i) \/ NoteFailed(i)

(***************************************************************************)
(* The API                                                                 *)
(***************************************************************************)
taskVars == <<anomalies, zone, condition, pc, snap, notified, missed, lost, run>>

(* ON DELETE CASCADE, when SQLite enforces it.                             *)
CascadeStates(keptRows, keptChecks) ==
  checkStates' = IF ForeignKeys
                 THEN Without(checkStates, {p \in DOMAIN checkStates :
                                              p \notin keptRows \X keptChecks})
                 ELSE checkStates

(* The rows of a list of addresses not in the table yet.                   *)
Inserted(list, enabled) ==
  LET new == SetToSeq(list)
  IN [i \in {nextId + k - 1 : k \in DOMAIN new} |->
        Fresh(new[i - nextId + 1], new[i - nextId + 1] \in enabled)]

(* SyncIPs: one transaction that makes the table the given list; rows that *)
(* stay keep their state.                                                  *)
SyncIPs(list, enabled) ==
  LET kept == {i \in DOMAIN rows : rows[i].addr \in list}
      new == list \ AddrsOf(rows)
  IN /\ Event("ips")
     /\ nextId + Cardinality(new) <= MaxIps + 1
     /\ rows' = Over([i \in kept |-> [rows[i] EXCEPT !.enabled = rows[i].addr \in enabled]],
                     Inserted(new, enabled))
     /\ nextId' = nextId + Cardinality(new)
     /\ CascadeStates(kept, DOMAIN checks)
     /\ UNCHANGED <<checks, newChecks, rules, taskVars>>

(* AddIP fails on an address the group has.                                *)
AddIP(a) ==
  /\ Event("ips")
  /\ a \notin AddrsOf(rows) /\ nextId <= MaxIps
  /\ rows' = Over(Inserted({a}, {a}), rows)
  /\ nextId' = nextId + 1
  /\ UNCHANGED <<checks, newChecks, rules, checkStates, taskVars>>

(* DeleteIP leaves the record at the provider as it is.                    *)
DeleteIP(i) ==
  /\ Event("ips")
  /\ i \in DOMAIN rows
  /\ rows' = Without(rows, {i})
  /\ CascadeStates(DOMAIN rows \ {i}, DOMAIN checks)
  /\ UNCHANGED <<nextId, checks, newChecks, rules, taskVars>>

AddCheck(c, f) ==
  /\ Event("checks")
  /\ c \in newChecks
  /\ newChecks' = newChecks \ {c} /\ checks' = Over([x \in {c} |-> f], checks)
  /\ UNCHANGED <<rows, nextId, rules, checkStates, taskVars>>

(* UpdateCheck keeps the states, with counts taken under the old           *)
(* thresholds.                                                             *)
UpdateCheck(c, f) ==
  /\ Event("checks")
  /\ c \in DOMAIN checks
  /\ checks' = [checks EXCEPT ![c] = f]
  /\ UNCHANGED <<rows, nextId, newChecks, rules, checkStates, taskVars>>

DeleteCheck(c) ==
  /\ Event("checks")
  /\ c \in DOMAIN checks
  /\ checks' = Without(checks, {c})
  /\ CascadeStates(DOMAIN rows, DOMAIN checks \ {c})
  /\ UNCHANGED <<rows, nextId, newChecks, rules, taskVars>>

(* AddRule accepts what UnmarshalJSON can read; rules with one text count  *)
(* once here.                                                              *)
AddRule(r) ==
  /\ Event("rules")
  /\ rules' = rules \cup {r}
  /\ UNCHANGED <<rows, nextId, checks, newChecks, checkStates, taskVars>>

DeleteRule(r) ==
  /\ Event("rules")
  /\ r \in rules
  /\ rules' = rules \ {r}
  /\ UNCHANGED <<rows, nextId, checks, newChecks, checkStates, taskVars>>

Edit ==
  \/ \E list \in SUBSET Addrs : \E enabled \in SUBSET list : SyncIPs(list, enabled)
  \/ \E a \in Addrs : AddIP(a)
  \/ \E i \in Ids : DeleteIP(i)
  \/ \E c \in Checks, f \in Configs : AddCheck(c, f) \/ UpdateCheck(c, f)
  \/ \E c \in Checks : DeleteCheck(c)
  \/ \E r \in RuleChoices : AddRule(r) \/ DeleteRule(r)

(***************************************************************************)
(* The world                                                               *)
(***************************************************************************)
Change(a, cond) ==
  /\ Event("condition")
  /\ condition' = [condition EXCEPT ![a] = cond]
  /\ UNCHANGED <<config, checkStates, anomalies, zone, pc, snap, notified, missed, lost, run>>

(* Somebody edits the record by hand.                                      *)
EditRecord(a) ==
  /\ Event("record")
  /\ zone' \in {zone \cup {a}, zone \ {a}}
  /\ UNCHANGED <<config, checkStates, anomalies, condition, pc, snap, notified, missed, lost, run>>

World == \E a \in Addrs : EditRecord(a) \/ \E cond \in Conditions : Change(a, cond)

Next == Cycle \/ CutChecks \/ Stop \/ Start \/ Edit \/ World

Spec == Init /\ [][Next]_vars

(* The task's loop runs as long as the process does, and is started again. *)
FairSpec == Spec /\ WF_vars(Cycle) /\ WF_vars(Start)

(***************************************************************************)
(* Safety                                                                  *)
(***************************************************************************)

(* The two columns the dashboard shows never contradict each other: an     *)
(* address shown UP was noted as added, one shown DOWN as not added.  They *)
(* are written by four branches of the loop, from two snapshots of the row.*)
StatusAgrees ==
  \A i \in DOMAIN rows :
    /\ rows[i].status = "UP" => rows[i].dnsAdded
    /\ rows[i].status = "DOWN" => ~rows[i].dnsAdded

(* Withdrawn i: this step takes the record of an enabled row out.          *)
Withdrawn(i) ==
  /\ i \in DOMAIN snap.rows /\ snap.rows[i].enabled
  /\ DeleteIPRecord(i)

(* Under the default policy an address the monitor had noted as added is   *)
(* withdrawn only after one of its checks really failed as often in a row  *)
(* as its threshold asks, and has not since passed as often as the other   *)
(* threshold asks; whatever was edited, unreadable or restarted meanwhile. *)
(* A state that a result is missing from, because its write failed or was  *)
(* cut off, is exempt: it may count failures on both sides of a success.   *)
WithdrawalEarned ==
  [][\A i \in Ids :
       Withdrawn(i) /\ snap.rules = {} /\ snap.rows[i].dnsAdded
         => \E c \in Checks : run[<<i, c>>].condemned \/ <<i, c>> \in lost]_vars

(* monitor.go:311, "Safe default policy: UP if all checks are UP, DOWN if  *)
(* any check is DOWN": without rules, only an address with a check that is *)
(* DOWN leaves the record.                                                 *)
SafeDefaultPolicy ==
  [][\A i \in Ids : Withdrawn(i) /\ snap.rules = {} => HasDown(i, snap.states)]_vars

(* GroupChecks.tsx:333, "Ignore failures if this check fails simultaneously*)
(* across ALL nodes": a cycle in which every probe of a bypassing check    *)
(* fails makes no DOWN address UP.                                         *)
OutageIgnored ==
  [][RunChecks =>
       \A p \in DOMAIN checkStates :
         /\ p \in Pairs(snap.rows, snap.checks)
         /\ snap.rows[p[1]].enabled
         /\ Bypassed(snap.rows, snap.checks, p[2])
         /\ p \in DOMAIN checkStates'
         /\ checkStates[p].status = "DOWN"
         => checkStates'[p].status = "DOWN"]_vars

(***************************************************************************)
(* Liveness                                                                *)
(***************************************************************************)

(* The states that probes of the present settle on; a row that is not      *)
(* probed keeps what it has.                                               *)
Settled ==
  LET probed == {p \in Pairs(rows, checks) : rows[p[1]].enabled}
  IN Over([p \in probed |-> [status |-> IF IsSuccess(rows, checks, p) THEN "UP" ELSE "DOWN"]],
          GroupStates)

(* The record holds exactly the managed addresses that the policy wants    *)
(* there, and the rows say so.                                             *)
RecordFollowsHealth ==
  \A i \in DOMAIN rows :
    /\ rows[i].addr \in zone <=> ShouldBeAdded(i, rows[i], DOMAIN rows, Settled, rules)
    /\ rows[i].addr \in zone <=> rows[i].dnsAdded

(* When addresses, settings and the record are left alone, the record of a *)
(* group with checks comes to follow the health of its addresses and stays *)
(* so: nothing that went wrong before leaves a trace.                      *)
RecordConverges == <>[](checks # <<>> => RecordFollowsHealth)

(* And the anomalies on record come to be the addresses in the DNS record  *)
(* that the group does not have: also those the monitor itself left behind *)
(* when a row was deleted under it.  Exempt are addresses whose anomaly    *)
(* could not be written, or not be read at the start.                      *)
AnomaliesConverge ==
  <>[](rows # <<>> /\ checks # <<>>
         => anomalies \ missed = (zone \ AddrsOf(rows)) \ missed)
=============================================================================
