------------------------- MODULE GroupMonitorProofs -------------------------
(***************************************************************************)
(* For any addresses, checks, configurations, rules and bounds: the types  *)
(* of the monitor's tables, the agreement of the two columns of a row, and *)
(* that the default policy withdraws an address it had noted as added only *)
(* after a check really failed often enough.                               *)
(*                                                                         *)
(* That last property compares the stored counters, which survive edits of *)
(* the thresholds, restarts and unreadable states, with the true streaks   *)
(* of the probes.  Three facts about each state make it inductive (Earned):*)
(* the failures counted are no more than there were in a row, a state that *)
(* is DOWN was condemned, and when it has passed since, the successes      *)
(* counted are no fewer than there were, so that it is not DOWN any more   *)
(* once the probes acquit it.  A state whose write was lost has not earned *)
(* anything, until it passes and is not DOWN: then the three facts hold    *)
(* whatever the history.                                                   *)
(***************************************************************************)
EXTENDS GroupMonitor, FiniteSetTheorems, TLAPS

(* A state's counters against the history of its probes.                   *)
Earned(s, h) ==
  /\ s.down <= IF h.streak < 0 THEN -h.streak ELSE 0
  /\ s.status = "DOWN" => h.condemned
  /\ s.status = "DOWN" /\ h.streak > 0 => s.up >= h.streak

CountsEarned == \A p \in DOMAIN checkStates \ lost : Earned(checkStates[p], run[p])

(* What the task has read keeps its types.                                 *)
SnapTyped ==
  /\ snap = [rows |-> snap.rows, checks |-> snap.checks, rules |-> snap.rules,
             states |-> snap.states, listed |-> snap.listed, records |-> snap.records,
             todo |-> snap.todo]
  /\ DOMAIN snap.rows \subseteq Ids /\ \A i \in DOMAIN snap.rows : snap.rows[i] \in Row
  /\ DOMAIN snap.checks \subseteq Checks
  /\ \A c \in DOMAIN snap.checks : snap.checks[c] \in Configs
  /\ DOMAIN snap.states \subseteq Ids \X Checks
  /\ snap.records \subseteq Addrs

(* The states it decides by were earned as well: no probe runs between its *)
(* reading them and its using them.                                        *)
SnapEarned ==
  pc = "syncing" =>
    \A p \in DOMAIN snap.states \ lost : snap.states[p].status = "DOWN" => run[p].condemned

(* With the cascade a state belongs to a row and a check of the tables, so *)
(* that a probe whose state is not written has none left behind.           *)
StatesOwned == ForeignKeys => DOMAIN checkStates \subseteq Pairs(rows, checks)

MonitorInv ==
  /\ MonitorTypeOK /\ StatusAgrees
  /\ SnapTyped /\ SnapEarned /\ StatesOwned /\ CountsEarned

(***************************************************************************)
(* Operators                                                               *)
(***************************************************************************)

(* The bounds are naturals and a threshold lies between 1 and MaxStreak.   *)
LEMMA Bounds ==
  /\ MaxIps \in Nat /\ MaxStreak \in Nat /\ MaxEvents \in Nat
  /\ \A f \in Configs : f.up \in 1 .. MaxStreak /\ f.down \in 1 .. MaxStreak
BY MonitorAssumption

(* SetToSeq lists a finite set.                                            *)
LEMMA Listing ==
  ASSUME NEW S, IsFiniteSet(S)
  PROVE  /\ Cardinality(S) \in Nat
         /\ SetToSeq(S) \in [1 .. Cardinality(S) -> S]
<1>1. Cardinality(S) \in Nat /\ ExistsBijection(1 .. Cardinality(S), S)
  BY FS_CardinalityType
<1>2. PICK f \in [1 .. Cardinality(S) -> S] : IsInjective(f)
  BY <1>1 DEF ExistsBijection, Bijection, Injection
<1> QED BY <1>1, <1>2 DEF SetToSeq

(* A row just inserted.                                                    *)
LEMMA FreshRow ==
  ASSUME NEW a \in Addrs, NEW enabled \in BOOLEAN
  PROVE  /\ Fresh(a, enabled) \in Row
         /\ Fresh(a, enabled).status = "UNKNOWN"
BY DEF Fresh, Row, Statuses

(* Inserted rows take the next ids.                                        *)
LEMMA InsertedRows ==
  ASSUME NEW list \in SUBSET Addrs, NEW enabled, nextId \in Nat \ {0},
         nextId + Cardinality(list) <= MaxIps + 1
  PROVE  /\ Cardinality(list) \in Nat
         /\ DOMAIN Inserted(list, enabled) \subseteq Ids
         /\ \A i \in DOMAIN Inserted(list, enabled) :
              /\ Inserted(list, enabled)[i] \in Row
              /\ Inserted(list, enabled)[i].status = "UNKNOWN"
<1> DEFINE new == SetToSeq(list)
<1>1. IsFiniteSet(list)
  BY MonitorAssumption, FS_Subset
<1>2. Cardinality(list) \in Nat /\ new \in [1 .. Cardinality(list) -> list]
  BY <1>1, Listing
<1>3. DOMAIN Inserted(list, enabled) = {nextId + k - 1 : k \in 1 .. Cardinality(list)}
  BY <1>2 DEF Inserted
<1>4. DOMAIN Inserted(list, enabled) \subseteq Ids
  BY <1>2, <1>3, Bounds DEF Ids
<1>5. ASSUME NEW i \in DOMAIN Inserted(list, enabled)
      PROVE  /\ Inserted(list, enabled)[i] \in Row
             /\ Inserted(list, enabled)[i].status = "UNKNOWN"
  <2>1. PICK k \in 1 .. Cardinality(list) : i = nextId + k - 1
    BY <1>3, <1>5
  <2>2. i - nextId + 1 = k
    BY <2>1, <1>2
  <2>3. new[k] \in Addrs
    BY <1>2
  <2>4. Inserted(list, enabled)[i] = Fresh(new[k], new[k] \in enabled)
    BY <1>2, <2>1, <2>2 DEF Inserted
  <2> QED BY <2>3, <2>4 DEF Fresh, Row, Statuses
<1> QED BY <1>2, <1>4, <1>5

(* One counted result: the state keeps its type, the history its own, and  *)
(* the state stays earned, because what is counted as a failure was one.   *)
LEMMA ObservedType ==
  ASSUME NEW h \in Run, NEW f \in Configs, NEW raw \in BOOLEAN
  PROVE  Observed(h, f, raw) \in Run
<1> DEFINE s == Observed(h, f, raw).streak
<1>1. /\ Observed(h, f, raw) = [streak |-> s, condemned |-> Observed(h, f, raw).condemned]
      /\ s = IF raw THEN Capped(1 + (IF h.streak > 0 THEN h.streak ELSE 0))
                    ELSE -Capped(1 - (IF h.streak < 0 THEN h.streak ELSE 0))
      /\ Observed(h, f, raw).condemned \in {TRUE, FALSE, h.condemned}
  BY DEF Observed
<1>2. h.streak \in Int /\ h.condemned \in BOOLEAN
  BY Bounds DEF Run
<1>3. s \in -MaxStreak .. MaxStreak
  <2> HIDE DEF s
  <2>1. CASE raw
    BY <2>1, <1>1, <1>2, Bounds DEF Capped
  <2>2. CASE ~raw
    BY <2>2, <1>1, <1>2, Bounds DEF Capped
  <2> QED BY <2>1, <2>2
<1> DEFINE condemned == Observed(h, f, raw).condemned
<1>4. condemned \in BOOLEAN
  BY <1>1, <1>2
<1>5. Observed(h, f, raw) = [streak |-> s, condemned |-> condemned]
  BY <1>1
<1> HIDE DEF s, condemned
<1> QED BY <1>3, <1>4, <1>5 DEF Run

LEMMA CountedType ==
  ASSUME NEW s \in CheckState, NEW f \in Configs, NEW ok \in BOOLEAN
  PROVE  Counted(s, f, ok) \in CheckState
BY Bounds DEF Counted, Capped, CheckState, Statuses

LEMMA CountedEarned ==
  ASSUME NEW s \in CheckState, NEW h \in Run, NEW f \in Configs,
         NEW raw \in BOOLEAN, NEW ok \in BOOLEAN, raw => ok, Earned(s, h)
  PROVE  Earned(Counted(s, f, ok), Observed(h, f, raw))
<1> USE Bounds DEF Earned, Counted, Observed, Capped, CheckState, Statuses, Run
<1>1. CASE raw
  OBVIOUS
<1>2. CASE ~raw /\ ok
  OBVIOUS
<1>3. CASE ~raw /\ ~ok
  OBVIOUS
<1> QED BY <1>1, <1>2, <1>3

(* A state that is not there has nothing to earn.                          *)
LEMMA NoStateEarned ==
  ASSUME NEW h \in Run
  PROVE  NoState \in CheckState /\ Earned(NoState, h)
BY Bounds DEF NoState, CheckState, Statuses, Earned, Run

(***************************************************************************)
(* The initial states                                                      *)
(***************************************************************************)
LEMMA InitInv == Init => MonitorInv
<1> SUFFICES ASSUME Init PROVE MonitorInv
  OBVIOUS
<1> DEFINE list == SetToSeq(Managed)
<1>1. IsFiniteSet(Managed)
  BY MonitorAssumption, FS_Subset
<1>2. Cardinality(Managed) \in Nat /\ list \in [1 .. Cardinality(Managed) -> Managed]
  BY <1>1, Listing
<1>3. Cardinality(Managed) <= MaxIps
  BY MonitorAssumption
<1>4. /\ DOMAIN rows \subseteq Ids
      /\ \A i \in DOMAIN rows : rows[i] \in Row /\ rows[i].status = "UNKNOWN"
  <2>1. rows = [i \in DOMAIN list |-> Fresh(list[i], TRUE)]
    BY DEF Init
  <2>2. DOMAIN rows = 1 .. Cardinality(Managed)
    BY <1>2, <2>1
  <2>3. ASSUME NEW i \in DOMAIN rows PROVE rows[i] \in Row /\ rows[i].status = "UNKNOWN"
    <3>1. rows[i] = Fresh(list[i], TRUE) /\ list[i] \in Addrs
      BY <1>2, <2>1, <2>2, MonitorAssumption
    <3> QED BY <3>1, FreshRow
  <2> QED BY <2>2, <2>3, <1>2, <1>3, Bounds DEF Ids
<1>5. nextId \in 1 .. MaxIps + 1
  BY <1>2, <1>3, Bounds DEF Init
<1>6. DOMAIN checkStates = {}
  BY DEF Init
<1>7. run \in [Ids \X Checks -> Run]
  BY Bounds DEF Init, Run
<1>8. SnapTyped /\ snap.todo = {}
  BY DEF Init, NoSnap, SnapTyped
<1>9. MonitorTypeOK
  <2>1. /\ DOMAIN checks = FirstChecks /\ \A c \in DOMAIN checks : checks[c] \in Configs
        /\ newChecks \subseteq Checks /\ rules \subseteq RuleChoices /\ zone \subseteq Addrs
        /\ DOMAIN checks \subseteq Checks
    BY MonitorAssumption DEF Init
  <2>2. anomalies = {} /\ notified = {} /\ missed = {} /\ lost = {} /\ events = 0 /\ pc = "sleeping"
        /\ condition \in [Addrs -> Conditions] /\ events \in 0 .. MaxEvents
    BY Bounds DEF Init
  <2> QED BY <1>4, <1>5, <1>6, <1>7, <1>8, <2>1, <2>2 DEF MonitorTypeOK
<1>10. StatusAgrees
  BY <1>4 DEF StatusAgrees
<1>11. SnapEarned /\ StatesOwned /\ CountsEarned
  BY <1>6 DEF Init, SnapEarned, StatesOwned, CountsEarned
<1> QED BY <1>8, <1>9, <1>10, <1>11 DEF MonitorInv

(***************************************************************************)
(* The cycle                                                               *)
(***************************************************************************)

(* A counted fault stays within its bound.                                 *)
LEMMA EventType ==
  ASSUME MonitorInv, NEW kind, Event(kind)
  PROVE  events' \in 0 .. MaxEvents
BY Bounds DEF Event, MonitorInv, MonitorTypeOK

(* An empty snapshot has its types.                                        *)
LEMMA NoSnapTyped ==
  ASSUME snap' = NoSnap
  PROVE  SnapTyped' /\ snap'.todo = {}
BY DEF NoSnap, SnapTyped

(* A probe passes or fails.                                                *)
LEMMA ProbeAnswers ==
  ASSUME NEW rs, NEW cs, NEW p
  PROVE  /\ Raw(rs, cs, p) \in BOOLEAN /\ IsSuccess(rs, cs, p) \in BOOLEAN
         /\ Raw(rs, cs, p) => IsSuccess(rs, cs, p)
<1>1. ASSUME NEW protocol, NEW cond PROVE Answers(protocol, cond) \in BOOLEAN
  <2> USE DEF Answers, checkTCP, checkUDP, checkHTTPHTTPS
  <2>1. CASE protocol = "TCP"
    BY <2>1
  <2>2. CASE protocol = "UDP"
    BY <2>2
  <2>3. CASE protocol = "HTTP"
    BY <2>3
  <2>4. CASE protocol \notin {"TCP", "UDP", "HTTP"}
    BY <2>4
  <2> QED BY <2>1, <2>2, <2>3, <2>4
<1>2. Raw(rs, cs, p) \in BOOLEAN
  BY <1>1, Zenon DEF Raw
<1> QED BY <1>2 DEF IsSuccess

(* The reads at the top of a cycle.                                        *)
LEMMA BeginCycleInv ==
  ASSUME MonitorInv, BeginCycle
  PROVE  MonitorInv'
<1> USE DEF MonitorInv
<1>1. /\ snap' = [rows |-> rows, checks |-> checks, rules |-> rules, states |-> <<>>,
                  listed |-> FALSE, records |-> {}, todo |-> {}]
      /\ pc' = "probing"
      /\ UNCHANGED <<rows, nextId, checks, newChecks, rules, checkStates, anomalies, zone,
                     condition, notified, missed, lost, events, run>>
  BY DEF BeginCycle, NoSnap, config
<1>2. MonitorTypeOK'
  BY <1>1 DEF MonitorTypeOK
<1>3. SnapTyped'
  BY <1>1 DEF MonitorTypeOK, SnapTyped
<1>4. StatusAgrees' /\ SnapEarned' /\ StatesOwned' /\ CountsEarned'
  BY <1>1 DEF StatusAgrees, SnapEarned, StatesOwned, CountsEarned, Pairs
<1> QED BY <1>2, <1>3, <1>4

(* A result is counted into a state, or its write is lost.                 *)
LEMMA NewStatesEarned ==
  ASSUME MonitorInv, NEW written \in SUBSET Probed, NEW unread, NEW p,
         p \in DOMAIN NewStates(written, unread)
  PROVE  LET s == NewStates(written, unread)[p]
             h == Observed(run[p], snap.checks[p[2]], Raw(snap.rows, snap.checks, p))
         IN /\ p \in written /\ s \in CheckState
            /\ p \notin lost \/ (s.down = 0 /\ s.status # "DOWN") => Earned(s, h)
<1> DEFINE prev == IF p \in DOMAIN checkStates \ unread THEN checkStates[p] ELSE NoState
           f == snap.checks[p[2]]
           raw == Raw(snap.rows, snap.checks, p)
           ok == IsSuccess(snap.rows, snap.checks, p)
<1>1. p \in written /\ NewStates(written, unread)[p] = Counted(prev, f, ok)
  BY DEF NewStates
<1>2. p \in Ids \X Checks /\ f \in Configs
  BY <1>1 DEF Probed, Pairs, MonitorInv, SnapTyped
<1>3. run[p] \in Run
  BY <1>2 DEF MonitorInv, MonitorTypeOK
<1>4. raw \in BOOLEAN /\ ok \in BOOLEAN /\ (raw => ok)
  BY ProbeAnswers, Zenon
<1>5. prev \in CheckState /\ (p \notin lost => Earned(prev, run[p]))
  BY <1>3, NoStateEarned DEF MonitorInv, MonitorTypeOK, CountsEarned
<1> HIDE DEF prev, f, raw, ok
<1>6. Counted(prev, f, ok) \in CheckState
  BY <1>2, <1>4, <1>5, CountedType
<1>7. CASE p \notin lost
  BY <1>1, <1>2, <1>3, <1>4, <1>5, <1>6, <1>7, CountedEarned DEF f, raw
<1>8. CASE Counted(prev, f, ok).down = 0 /\ Counted(prev, f, ok).status # "DOWN"
  <2>1. Observed(run[p], f, raw) \in Run
    BY <1>2, <1>3, <1>4, ObservedType
  <2>2. Earned(Counted(prev, f, ok), Observed(run[p], f, raw))
    BY <1>8, <2>1, Bounds DEF Earned, Run
  <2> QED BY <1>1, <1>6, <2>2 DEF f, raw
<1> QED BY <1>1, <1>6, <1>7, <1>8

(* Probes, and the states and histories they leave.                        *)
LEMMA ProbeInv ==
  ASSUME MonitorInv, NEW unwritten \in SUBSET Probed, NEW unread,
         Probe(NewStates(Probed \ unwritten, unread), unwritten),
         events' \in 0 .. MaxEvents,
         \/ pc' = "listing" /\ UNCHANGED <<snap, notified>>
         \/ pc' = "stopped" /\ snap' = NoSnap /\ notified' = {}
  PROVE  MonitorInv'
<1> USE DEF MonitorInv
<1> DEFINE states == NewStates(Probed \ unwritten, unread)
           Seen(p) == Observed(run[p], snap.checks[p[2]], Raw(snap.rows, snap.checks, p))
           Passed(p) == states[p].down = 0 /\ states[p].status # "DOWN"
<1>1. /\ checkStates' = Over(states, checkStates)
      /\ lost' = (lost \cup unwritten) \ {p \in DOMAIN states : Passed(p)}
      /\ run' = [p \in DOMAIN run |-> IF p \in Probed THEN Seen(p) ELSE run[p]]
      /\ UNCHANGED <<rows, nextId, checks, newChecks, rules, anomalies, zone, condition, missed>>
  BY DEF Probe, config
<1>2. ASSUME NEW p \in Probed
      PROVE  /\ p \in Ids \X Checks /\ Seen(p) \in Run
             /\ p \in unwritten \/ p \in DOMAIN states
                \/ (p \notin DOMAIN checkStates /\ p \notin DOMAIN states)
  <2>1. p \in Ids \X Checks /\ snap.checks[p[2]] \in Configs
    BY <1>2 DEF Probed, Pairs, SnapTyped
  <2>2. run[p] \in Run
    BY <2>1 DEF MonitorTypeOK
  <2>3. Raw(snap.rows, snap.checks, p) \in BOOLEAN
    BY ProbeAnswers, Zenon
  <2>4. Seen(p) \in Run
    BY <2>1, <2>2, <2>3, ObservedType
  <2>5. p \in DOMAIN checkStates => ~ForeignKeys \/ p \in Pairs(rows, checks)
    BY DEF StatesOwned
  <2> QED BY <1>2, <2>1, <2>4, <2>5 DEF NewStates
<1>3. ASSUME NEW p \in DOMAIN states
      PROVE  /\ p \in Probed \ unwritten /\ states[p] \in CheckState
             /\ ForeignKeys => p \in Pairs(rows, checks)
             /\ p \notin lost \/ Passed(p) => Earned(states[p], Seen(p))
  <2>1. ForeignKeys => p \in Pairs(rows, checks)
    BY <1>3 DEF NewStates
  <2> QED BY <1>3, <2>1, NewStatesEarned
<1> HIDE DEF states, Seen
<1>4. /\ DOMAIN checkStates' = DOMAIN states \cup DOMAIN checkStates
      /\ \A p \in DOMAIN states : checkStates'[p] = states[p]
      /\ \A p \in DOMAIN checkStates \ DOMAIN states : checkStates'[p] = checkStates[p]
  BY <1>1 DEF Over
<1>5. /\ run' \in [Ids \X Checks -> Run]
      /\ \A p \in Probed : run'[p] = Seen(p)
      /\ \A p \in (Ids \X Checks) \ Probed : run'[p] = run[p]
  <2>1. run \in [Ids \X Checks -> Run]
    BY DEF MonitorTypeOK
  <2>2. ASSUME NEW p \in Ids \X Checks
        PROVE  (IF p \in Probed THEN Seen(p) ELSE run[p]) \in Run
    BY <1>2, <2>1
  <2> QED BY <1>1, <1>2, <2>1, <2>2
<1>6. ASSUME NEW p \in DOMAIN checkStates'
      PROVE  /\ p \in Ids \X Checks
             /\ checkStates'[p] \in CheckState
             /\ p \notin lost' => Earned(checkStates'[p], run'[p])
  <2>1. CASE p \in DOMAIN states
    BY <1>1, <1>2, <1>3, <1>4, <1>5, <2>1
  <2>2. CASE p \notin DOMAIN states
    <3>1. /\ p \in DOMAIN checkStates /\ checkStates'[p] = checkStates[p]
          /\ p \in Ids \X Checks /\ checkStates[p] \in CheckState
      BY <1>4, <1>6, <2>2 DEF MonitorTypeOK
    <3>2. CASE p \in Probed
      BY <1>1, <1>2, <2>2, <3>1, <3>2
    <3>3. CASE p \notin Probed
      BY <1>1, <1>5, <2>2, <3>1, <3>3 DEF CountsEarned
    <3> QED BY <3>2, <3>3
  <2> QED BY <2>1, <2>2
<1>7. SnapTyped' /\ snap'.todo \subseteq DOMAIN snap'.rows
  <2>1. CASE snap' = NoSnap
    BY <2>1, NoSnapTyped
  <2>2. CASE snap' = snap
    BY <2>2 DEF SnapTyped, MonitorTypeOK
  <2> QED BY <2>1, <2>2
<1>8. lost' \subseteq Ids \X Checks
  BY <1>1, <1>2 DEF MonitorTypeOK
<1>9. MonitorTypeOK'
  BY <1>1, <1>5, <1>6, <1>7, <1>8 DEF MonitorTypeOK
<1>10. CountsEarned' /\ SnapEarned'
  BY <1>6 DEF CountsEarned, SnapEarned
<1>11. StatesOwned'
  BY <1>1, <1>3, <1>4 DEF StatesOwned, Pairs
<1>12. StatusAgrees'
  BY <1>1 DEF StatusAgrees
<1> QED BY <1>7, <1>9, <1>10, <1>11, <1>12

LEMMA RunChecksInv ==
  ASSUME MonitorInv, RunChecks
  PROVE  MonitorInv'
<1>1. PICK unread \in SUBSET Probed, unwritten \in SUBSET Probed :
        /\ IF unread \cup unwritten = {} THEN UNCHANGED events ELSE Event("dbFault")
        /\ Probe(NewStates(Probed \ unwritten, unread), unwritten)
  BY DEF RunChecks
<1>2. events' \in 0 .. MaxEvents
  BY <1>1, EventType DEF MonitorInv, MonitorTypeOK
<1> QED BY <1>1, <1>2, ProbeInv DEF RunChecks

LEMMA CutChecksInv ==
  ASSUME MonitorInv, CutChecks
  PROVE  MonitorInv'
<1>1. events' \in 0 .. MaxEvents
  BY EventType DEF CutChecks
<1> QED BY <1>1, ProbeInv DEF CutChecks

(* A step that leaves the tables of states and the histories alone, and    *)
(* the task with nothing read.                                             *)
LEMMA CycleEnds ==
  ASSUME MonitorInv, snap' = NoSnap, pc' \in {"sleeping", "stopped"},
         events' \in 0 .. MaxEvents, notified' \subseteq Addrs,
         UNCHANGED <<config, checkStates, anomalies, zone, condition, missed, lost, run>>
  PROVE  MonitorInv'
<1> USE DEF MonitorInv, config
<1>1. SnapTyped' /\ snap'.todo = {}
  BY NoSnapTyped
<1>2. MonitorTypeOK'
  BY <1>1 DEF MonitorTypeOK
<1>3. StatusAgrees' /\ SnapEarned' /\ StatesOwned' /\ CountsEarned'
  BY DEF StatusAgrees, SnapEarned, StatesOwned, CountsEarned, Pairs
<1> QED BY <1>1, <1>2, <1>3

LEMMA NoProviderInv ==
  ASSUME MonitorInv, NoProvider
  PROVE  MonitorInv'
<1>1. events' \in 0 .. MaxEvents /\ notified' \subseteq Addrs
  BY EventType DEF NoProvider, MonitorInv, MonitorTypeOK
<1> QED BY <1>1, CycleEnds DEF NoProvider

LEMMA StopInv ==
  ASSUME MonitorInv, Stop
  PROVE  MonitorInv'
<1>1. events' \in 0 .. MaxEvents
  BY EventType DEF Stop
<1> QED BY <1>1, CycleEnds DEF Stop

LEMMA StartInv ==
  ASSUME MonitorInv, Start
  PROVE  MonitorInv'
<1> USE DEF MonitorInv, config, Start
<1>1. MonitorTypeOK'
  <2>1. events' \in 0 .. MaxEvents
    BY EventType DEF MonitorTypeOK
  <2>2. notified' \in {anomalies, {}} /\ missed' \in {anomalies, {}} /\ pc' = "sleeping"
    OBVIOUS
  <2> QED BY <2>1, <2>2 DEF MonitorTypeOK
<1>2. StatusAgrees' /\ SnapTyped' /\ SnapEarned' /\ StatesOwned' /\ CountsEarned'
  BY DEF StatusAgrees, SnapTyped, SnapEarned, StatesOwned, CountsEarned, Pairs
<1> QED BY <1>1, <1>2

(* The states read are states on record, so those that are DOWN are        *)
(* condemned.                                                              *)
LEMMA ReadZoneInv ==
  ASSUME MonitorInv, ReadZone
  PROVE  MonitorInv'
<1> USE DEF MonitorInv
<1>1. PICK states \in {GroupStates, <<>>}, listed \in BOOLEAN, records \in {zone, {}},
             failed \in SUBSET Addrs :
        /\ UNCHANGED events \/ Event("dbFault") \/ Event("provider")
        /\ IF listed THEN NoteAnomalies(records \ AddrsOf(snap.rows), failed)
           ELSE UNCHANGED <<notified, anomalies, missed>>
        /\ snap' = [snap EXCEPT !.states = states, !.listed = listed,
                      !.records = records, !.todo = DOMAIN snap.rows]
  <2>1. PICK states \in {GroupStates, <<>>}, listed \in BOOLEAN, records \in {zone, {}},
             failed \in SUBSET Addrs :
       /\ ~listed => records = {} /\ failed = {}
       /\ \/ /\ states = GroupStates /\ listed /\ records = zone /\ failed = {}
             /\ UNCHANGED events
          \/ /\ states # GroupStates \/ failed # {}
             /\ listed /\ records = zone /\ Event("dbFault")
          \/ /\ states = GroupStates /\ ~(listed /\ records = zone) /\ failed = {}
             /\ Event("provider")
       /\ IF listed THEN NoteAnomalies(records \ AddrsOf(snap.rows), failed)
          ELSE UNCHANGED <<notified, anomalies, missed>>
       /\ snap' = [snap EXCEPT !.states = states, !.listed = listed,
                     !.records = records, !.todo = DOMAIN snap.rows]
    BY Zenon DEF ReadZone
  <2>2. UNCHANGED events \/ Event("dbFault") \/ Event("provider")
    BY <2>1
  <2> QED BY <2>1, <2>2
<1>2. /\ pc' = "syncing"
      /\ UNCHANGED <<rows, nextId, checks, newChecks, rules, checkStates, zone, condition, lost, run>>
  BY DEF ReadZone, config
<1>3. events' \in 0 .. MaxEvents
  BY <1>1, EventType DEF MonitorTypeOK
<1>4. notified' \subseteq Addrs /\ anomalies' \subseteq Addrs /\ missed' \subseteq Addrs
  BY <1>1 DEF MonitorTypeOK, NoteAnomalies, Recorded
<1>5. snap' = [rows |-> snap.rows, checks |-> snap.checks, rules |-> snap.rules,
               states |-> states, listed |-> listed, records |-> records,
               todo |-> DOMAIN snap.rows]
  BY <1>1 DEF SnapTyped
<1>6. ASSUME NEW p \in DOMAIN states
      PROVE  /\ p \in Ids \X Checks
             /\ p \notin lost /\ states[p].status = "DOWN" => run[p].condemned
  <2>1. states = GroupStates
    BY <1>6
  <2>2. p \in DOMAIN checkStates /\ states[p] = checkStates[p]
    BY <1>6, <2>1 DEF GroupStates, Without
  <2> QED BY <2>2 DEF MonitorTypeOK, CountsEarned, Earned
<1>7. MonitorTypeOK'
  BY <1>2, <1>3, <1>4, <1>5 DEF MonitorTypeOK
<1>8. SnapTyped'
  BY <1>5, <1>6 DEF SnapTyped, MonitorTypeOK
<1>9. SnapEarned'
  BY <1>2, <1>5, <1>6 DEF SnapEarned
<1>10. StatusAgrees' /\ StatesOwned' /\ CountsEarned'
  BY <1>2 DEF StatusAgrees, StatesOwned, CountsEarned, Pairs
<1> QED BY <1>7, <1>8, <1>9, <1>10

(* What is written about an address agrees in its two columns.             *)
Agrees(status, added) ==
  /\ status \in Statuses /\ added \in BOOLEAN
  /\ status = "UP" => added
  /\ status = "DOWN" => ~added

LEMMA ShownAgrees ==
  ASSUME NEW i, NEW present \in BOOLEAN
  PROVE  Agrees(Shown(i, present), present)
BY DEF Shown, Agrees, Statuses

(* An address is done: its row is left alone or written with columns that  *)
(* agree.                                                                  *)
LEMMA DoneInv ==
  ASSUME MonitorInv, NEW i, Done(i), events' \in 0 .. MaxEvents, zone' \subseteq Addrs,
         \/ rows' = rows
         \/ \E status, added : UpdateIPStatus(i, status, added) /\ Agrees(status, added)
  PROVE  MonitorInv'
<1> USE DEF MonitorInv
<1>1. UNCHANGED <<nextId, checks, newChecks, rules, checkStates, anomalies, condition, notified,
                 missed, lost, run>>
  BY DEF Done
<1>2. \/ snap' = NoSnap /\ pc' = "sleeping"
      \/ /\ pc' = "syncing" /\ pc = "syncing"
         /\ snap' = [snap EXCEPT !.todo = snap.todo \ {i}]
  BY DEF Done
<1>3. SnapTyped' /\ snap'.todo \subseteq DOMAIN snap'.rows
  <2>1. CASE snap' = NoSnap
    BY <2>1, NoSnapTyped
  <2>2. CASE snap' = [snap EXCEPT !.todo = snap.todo \ {i}]
    <3>1. snap' = [rows |-> snap.rows, checks |-> snap.checks, rules |-> snap.rules,
                   states |-> snap.states, listed |-> snap.listed, records |-> snap.records,
                   todo |-> snap.todo \ {i}]
      BY <2>2 DEF SnapTyped
    <3> QED BY <3>1 DEF SnapTyped, MonitorTypeOK
  <2> QED BY <1>2, <2>1, <2>2
<1>4. SnapEarned'
  <2>1. CASE pc' = "syncing"
    <3>1. snap'.states = snap.states /\ run' = run /\ lost' = lost /\ pc = "syncing"
      BY <2>1, <1>1, <1>2 DEF SnapTyped
    <3> QED BY <3>1 DEF SnapEarned
  <2> QED BY <2>1 DEF SnapEarned
<1>5. /\ DOMAIN rows' = DOMAIN rows
      /\ \A j \in DOMAIN rows :
           /\ rows'[j] \in Row
           /\ rows'[j].status = "UP" => rows'[j].dnsAdded
           /\ rows'[j].status = "DOWN" => ~rows'[j].dnsAdded
  <2>1. CASE rows' = rows
    BY <2>1 DEF MonitorTypeOK, StatusAgrees
  <2>2. CASE \E status, added : UpdateIPStatus(i, status, added) /\ Agrees(status, added)
    <3>1. PICK status, added : UpdateIPStatus(i, status, added) /\ Agrees(status, added)
      BY <2>2
    <3>2. rows' = rows \/ rows' = [rows EXCEPT ![i].status = status, ![i].dnsAdded = added]
      BY <3>1 DEF UpdateIPStatus
    <3>3. CASE rows' = [rows EXCEPT ![i].status = status, ![i].dnsAdded = added]
      <4>1. ASSUME NEW j \in DOMAIN rows, j # i
            PROVE  rows'[j] = rows[j]
        BY <3>3, <4>1
      <4>2. ASSUME i \in DOMAIN rows
            PROVE  rows'[i] = [addr |-> rows[i].addr, enabled |-> rows[i].enabled,
                               dnsAdded |-> added, status |-> status]
        BY <3>3, <4>2 DEF MonitorTypeOK, Row
      <4> QED BY <3>1, <3>3, <4>1, <4>2 DEF MonitorTypeOK, StatusAgrees, Row, Agrees
    <3> QED BY <2>1, <3>2, <3>3
  <2> QED BY <2>1, <2>2
<1>6. MonitorTypeOK'
  BY <1>1, <1>2, <1>3, <1>5 DEF MonitorTypeOK
<1>7. StatusAgrees' /\ StatesOwned' /\ CountsEarned'
  BY <1>1, <1>5 DEF StatusAgrees, StatesOwned, CountsEarned, Pairs
<1> QED BY <1>3, <1>4, <1>6, <1>7

LEMMA SyncInv ==
  ASSUME MonitorInv, NEW i,
         \/ AddIPRecord(i) \/ DeleteIPRecord(i) \/ ChangeFailed(i)
         \/ NoteIP(i) \/ ConfirmIP(i) \/ NoteFailed(i)
  PROVE  MonitorInv'
<1>1. Done(i) /\ i \in DOMAIN snap.rows /\ snap.rows[i] \in Row
  BY DEF AddIPRecord, DeleteIPRecord, ChangeFailed, NoteIP, ConfirmIP, NoteFailed, Done,
         MonitorInv, MonitorTypeOK, SnapTyped
<1>2. snap.rows[i].addr \in Addrs /\ snap.rows[i].dnsAdded \in BOOLEAN
  BY <1>1 DEF Row
<1>3. events \in 0 .. MaxEvents /\ zone \subseteq Addrs
  BY DEF MonitorInv, MonitorTypeOK
<1>4. CASE AddIPRecord(i)
  <2>1. Agrees("UP", TRUE)
    BY DEF Agrees, Statuses
  <2> QED BY <1>1, <1>2, <1>3, <1>4, <2>1, DoneInv DEF AddIPRecord
<1>5. CASE DeleteIPRecord(i)
  <2>1. Agrees(Shown(i, FALSE), FALSE)
    BY ShownAgrees
  <2> QED BY <1>1, <1>3, <1>5, <2>1, DoneInv DEF DeleteIPRecord
<1>6. CASE ChangeFailed(i)
  <2>1. events' \in 0 .. MaxEvents
    BY <1>6, EventType DEF ChangeFailed
  <2>2. zone' \subseteq Addrs /\ rows' = rows
    BY <1>2, <1>3, <1>6 DEF ChangeFailed
  <2> QED BY <1>1, <2>1, <2>2, DoneInv
<1>7. CASE NoteIP(i)
  <2>1. Present(i) \in BOOLEAN
    BY DEF Present
  <2>2. Agrees(Shown(i, Present(i)), Present(i))
    BY <2>1, ShownAgrees
  <2> QED BY <1>1, <1>3, <1>7, <2>2, DoneInv DEF NoteIP
<1>8. CASE ConfirmIP(i)
  <2>1. Agrees(Shown(i, snap.rows[i].dnsAdded), snap.rows[i].dnsAdded)
    BY <1>2, ShownAgrees
  <2> QED BY <1>1, <1>3, <1>8, <2>1, DoneInv DEF ConfirmIP
<1>9. CASE NoteFailed(i)
  <2>1. events' \in 0 .. MaxEvents /\ zone' \subseteq Addrs /\ rows' = rows
    BY <1>3, <1>9, EventType DEF NoteFailed
  <2> QED BY <1>1, <2>1, DoneInv
<1> QED BY <1>4, <1>5, <1>6, <1>7, <1>8, <1>9

(***************************************************************************)
(* The API and the world                                                   *)
(***************************************************************************)

(* An edit leaves the task, the histories and the states that remain.      *)
StatesRemain ==
  /\ DOMAIN checkStates' \subseteq DOMAIN checkStates
  /\ \A p \in DOMAIN checkStates' : checkStates'[p] = checkStates[p]
  /\ StatesOwned'

RowsRemainTyped ==
  /\ DOMAIN rows' \subseteq Ids /\ \A i \in DOMAIN rows' : rows'[i] \in Row
  /\ StatusAgrees'
  /\ nextId' \in 1 .. MaxIps + 1

ChecksRemainTyped ==
  /\ DOMAIN checks' \subseteq Checks /\ \A c \in DOMAIN checks' : checks'[c] \in Configs
  /\ newChecks' \subseteq Checks

LEMMA EditedInv ==
  ASSUME MonitorInv, UNCHANGED taskVars, events' \in 0 .. MaxEvents,
         RowsRemainTyped, ChecksRemainTyped, rules' \subseteq RuleChoices, StatesRemain
  PROVE  MonitorInv'
<1> USE DEF MonitorInv, taskVars
<1>1. MonitorTypeOK'
  BY DEF MonitorTypeOK, RowsRemainTyped, ChecksRemainTyped, StatesRemain
<1>2. CountsEarned'
  BY DEF StatesRemain, CountsEarned
<1>3. SnapTyped' /\ SnapEarned'
  BY DEF SnapTyped, SnapEarned
<1> QED BY <1>1, <1>2, <1>3 DEF RowsRemainTyped, StatesRemain

LEMMA RowsUntouched ==
  ASSUME MonitorInv, UNCHANGED <<rows, nextId>>
  PROVE  RowsRemainTyped
BY DEF RowsRemainTyped, MonitorInv, MonitorTypeOK, StatusAgrees

LEMMA ChecksUntouched ==
  ASSUME MonitorInv, UNCHANGED <<checks, newChecks>>
  PROVE  ChecksRemainTyped
BY DEF ChecksRemainTyped, MonitorInv, MonitorTypeOK

LEMMA StatesUntouched ==
  ASSUME MonitorInv, UNCHANGED checkStates,
         DOMAIN rows \subseteq DOMAIN rows', DOMAIN checks \subseteq DOMAIN checks'
  PROVE  StatesRemain
BY DEF StatesRemain, MonitorInv, StatesOwned, Pairs

(* The cascade deletes what belongs to nothing that is kept.               *)
LEMMA CascadeRemains ==
  ASSUME MonitorInv, NEW keptRows, NEW keptChecks, CascadeStates(keptRows, keptChecks),
         keptRows \subseteq DOMAIN rows', keptChecks \subseteq DOMAIN checks'
  PROVE  StatesRemain
<1>1. CASE ForeignKeys
  <2>1. checkStates' = Without(checkStates, {p \in DOMAIN checkStates : p \notin keptRows \X keptChecks})
    BY <1>1 DEF CascadeStates
  <2>2. /\ DOMAIN checkStates' = {p \in DOMAIN checkStates : p \in keptRows \X keptChecks}
        /\ \A p \in DOMAIN checkStates' : checkStates'[p] = checkStates[p]
    BY <2>1 DEF Without
  <2>3. StatesOwned'
    BY <2>2 DEF StatesOwned, Pairs
  <2> QED BY <2>2, <2>3 DEF StatesRemain
<1>2. CASE ~ForeignKeys
  BY <1>2 DEF CascadeStates, StatesRemain, StatesOwned
<1> QED BY <1>1, <1>2

(* An edited address list: rows that stay keep their columns.              *)
LEMMA SyncIPsInv ==
  ASSUME MonitorInv, NEW list \in SUBSET Addrs, NEW enabled \in SUBSET list,
         SyncIPs(list, enabled)
  PROVE  MonitorInv'
<1> DEFINE kept == {i \in DOMAIN rows : rows[i].addr \in list}
           new == list \ AddrsOf(rows)
           stayed == [i \in kept |-> [rows[i] EXCEPT !.enabled = rows[i].addr \in enabled]]
           inserted == Inserted(new, enabled)
<1>1. /\ nextId + Cardinality(new) <= MaxIps + 1
      /\ rows' = Over(stayed, inserted)
      /\ nextId' = nextId + Cardinality(new)
      /\ CascadeStates(kept, DOMAIN checks)
      /\ UNCHANGED <<checks, newChecks, rules, taskVars>>
  BY DEF SyncIPs
<1>2. events' \in 0 .. MaxEvents
  BY EventType DEF SyncIPs
<1>3. nextId \in 1 .. MaxIps + 1 /\ new \in SUBSET Addrs /\ nextId \in Nat \ {0}
  BY Bounds DEF MonitorInv, MonitorTypeOK
<1>4. /\ Cardinality(new) \in Nat
      /\ DOMAIN inserted \subseteq Ids
      /\ \A i \in DOMAIN inserted : inserted[i] \in Row /\ inserted[i].status = "UNKNOWN"
  BY <1>1, <1>3, InsertedRows
<1>5. ASSUME NEW i \in kept
      PROVE  /\ i \in Ids /\ stayed[i] \in Row
             /\ stayed[i].status = "UP" => stayed[i].dnsAdded
             /\ stayed[i].status = "DOWN" => ~stayed[i].dnsAdded
  <2> DEFINE e == rows[i].addr \in enabled
  <2>1. rows[i] \in Row /\ i \in Ids /\ e \in BOOLEAN
    BY DEF MonitorInv, MonitorTypeOK
  <2>2. stayed[i] = [addr |-> rows[i].addr, enabled |-> e,
                     dnsAdded |-> rows[i].dnsAdded, status |-> rows[i].status]
    BY <2>1 DEF Row
  <2> HIDE DEF e
  <2> QED BY <2>1, <2>2 DEF Row, MonitorInv, StatusAgrees
<1>6. DOMAIN stayed = kept
  OBVIOUS
<1> HIDE DEF stayed, inserted
<1>7. /\ DOMAIN rows' = kept \cup DOMAIN inserted
      /\ \A i \in kept : rows'[i] = stayed[i]
      /\ \A i \in DOMAIN rows' \ kept : i \in DOMAIN inserted /\ rows'[i] = inserted[i]
  BY <1>1, <1>6 DEF Over
<1>8. nextId' \in 1 .. MaxIps + 1
  BY <1>1, <1>3, <1>4, Bounds
<1>9. DOMAIN rows' \subseteq Ids
  BY <1>4, <1>5, <1>7
<1>10. ASSUME NEW i \in DOMAIN rows'
       PROVE  /\ rows'[i] \in Row
              /\ rows'[i].status = "UP" => rows'[i].dnsAdded
              /\ rows'[i].status = "DOWN" => ~rows'[i].dnsAdded
  <2>1. CASE i \in kept
    BY <2>1, <1>5, <1>7
  <2>2. CASE i \notin kept
    BY <2>2, <1>4, <1>7
  <2> QED BY <2>1, <2>2
<1>11. RowsRemainTyped
  BY <1>8, <1>9, <1>10 DEF RowsRemainTyped, StatusAgrees
<1>12. ChecksRemainTyped
  BY <1>1, ChecksUntouched
<1>13. StatesRemain
  BY <1>1, <1>7, CascadeRemains
<1>14. rules' \subseteq RuleChoices
  BY <1>1 DEF MonitorInv, MonitorTypeOK
<1> QED BY <1>1, <1>2, <1>11, <1>12, <1>13, <1>14, EditedInv

LEMMA AddIPInv ==
  ASSUME MonitorInv, NEW a \in Addrs, AddIP(a)
  PROVE  MonitorInv'
<1> DEFINE inserted == Inserted({a}, {a})
<1>1. /\ nextId <= MaxIps /\ rows' = Over(inserted, rows) /\ nextId' = nextId + 1
      /\ UNCHANGED <<checks, newChecks, rules, checkStates, taskVars>>
  BY DEF AddIP
<1>2. events' \in 0 .. MaxEvents
  BY EventType DEF AddIP
<1>3. nextId \in 1 .. MaxIps + 1 /\ {a} \in SUBSET Addrs /\ nextId \in Nat \ {0}
  BY Bounds DEF MonitorInv, MonitorTypeOK
<1>4. nextId + Cardinality({a}) <= MaxIps + 1
  <2>1. Cardinality({a}) = 1
    BY FS_Singleton
  <2> QED BY <1>1, <1>3, <2>1, Bounds
<1>5. /\ DOMAIN inserted \subseteq Ids
      /\ \A i \in DOMAIN inserted : inserted[i] \in Row /\ inserted[i].status = "UNKNOWN"
  BY <1>3, <1>4, InsertedRows
<1> HIDE DEF inserted
<1>6. /\ DOMAIN rows' = DOMAIN inserted \cup DOMAIN rows
      /\ \A i \in DOMAIN inserted : rows'[i] = inserted[i]
      /\ \A i \in DOMAIN rows' \ DOMAIN inserted : i \in DOMAIN rows /\ rows'[i] = rows[i]
  BY <1>1 DEF Over
<1>7. nextId' \in 1 .. MaxIps + 1
  BY <1>1, <1>3, Bounds
<1>8. ASSUME NEW i \in DOMAIN rows'
      PROVE  /\ i \in Ids /\ rows'[i] \in Row
             /\ rows'[i].status = "UP" => rows'[i].dnsAdded
             /\ rows'[i].status = "DOWN" => ~rows'[i].dnsAdded
  <2>1. CASE i \in DOMAIN inserted
    BY <2>1, <1>5, <1>6
  <2>2. CASE i \notin DOMAIN inserted
    BY <2>2, <1>6 DEF MonitorInv, MonitorTypeOK, StatusAgrees
  <2> QED BY <2>1, <2>2
<1>9. RowsRemainTyped
  BY <1>7, <1>8 DEF RowsRemainTyped, StatusAgrees
<1>10. ChecksRemainTyped /\ StatesRemain
  BY <1>1, <1>6, ChecksUntouched, StatesUntouched
<1>11. rules' \subseteq RuleChoices
  BY <1>1 DEF MonitorInv, MonitorTypeOK
<1> QED BY <1>1, <1>2, <1>9, <1>10, <1>11, EditedInv

LEMMA DeleteIPInv ==
  ASSUME MonitorInv, NEW i, DeleteIP(i)
  PROVE  MonitorInv'
<1>1. /\ rows' = Without(rows, {i})
      /\ CascadeStates(DOMAIN rows \ {i}, DOMAIN checks)
      /\ UNCHANGED <<nextId, checks, newChecks, rules, taskVars>>
  BY DEF DeleteIP
<1>2. events' \in 0 .. MaxEvents
  BY EventType DEF DeleteIP
<1>3. /\ DOMAIN rows' = DOMAIN rows \ {i}
      /\ \A j \in DOMAIN rows' : rows'[j] = rows[j]
  BY <1>1 DEF Without
<1>4. RowsRemainTyped
  BY <1>1, <1>3 DEF RowsRemainTyped, MonitorInv, MonitorTypeOK, StatusAgrees
<1>5. ChecksRemainTyped /\ StatesRemain
  BY <1>1, <1>3, ChecksUntouched, CascadeRemains
<1>6. rules' \subseteq RuleChoices
  BY <1>1 DEF MonitorInv, MonitorTypeOK
<1> QED BY <1>1, <1>2, <1>4, <1>5, <1>6, EditedInv

LEMMA ChecksInv ==
  ASSUME MonitorInv, NEW c \in Checks, NEW f \in Configs,
         AddCheck(c, f) \/ UpdateCheck(c, f) \/ DeleteCheck(c)
  PROVE  MonitorInv'
<1>1. UNCHANGED <<rows, nextId, rules, taskVars>>
  BY DEF AddCheck, UpdateCheck, DeleteCheck
<1>2. events' \in 0 .. MaxEvents
  BY EventType DEF AddCheck, UpdateCheck, DeleteCheck
<1>3. RowsRemainTyped /\ rules' \subseteq RuleChoices
  BY <1>1, RowsUntouched DEF MonitorInv, MonitorTypeOK
<1>4. CASE AddCheck(c, f)
  <2>1. /\ checks' = Over([x \in {c} |-> f], checks) /\ UNCHANGED checkStates
        /\ newChecks' = newChecks \ {c}
    BY <1>4 DEF AddCheck
  <2>2. /\ DOMAIN checks' = {c} \cup DOMAIN checks
        /\ \A x \in DOMAIN checks' : checks'[x] = f \/ (x \in DOMAIN checks /\ checks'[x] = checks[x])
    BY <2>1 DEF Over
  <2>3. ChecksRemainTyped
    BY <2>1, <2>2 DEF ChecksRemainTyped, MonitorInv, MonitorTypeOK
  <2>4. StatesRemain
    BY <1>1, <2>1, <2>2, StatesUntouched
  <2> QED BY <1>1, <1>2, <1>3, <2>3, <2>4, EditedInv
<1>5. CASE UpdateCheck(c, f)
  <2>1. checks' = [checks EXCEPT ![c] = f] /\ UNCHANGED <<newChecks, checkStates>>
    BY <1>5 DEF UpdateCheck
  <2>2. ChecksRemainTyped
    BY <2>1 DEF ChecksRemainTyped, MonitorInv, MonitorTypeOK
  <2>3. StatesRemain
    BY <1>1, <2>1, StatesUntouched
  <2> QED BY <1>1, <1>2, <1>3, <2>2, <2>3, EditedInv
<1>6. CASE DeleteCheck(c)
  <2>1. /\ checks' = Without(checks, {c}) /\ UNCHANGED newChecks
        /\ CascadeStates(DOMAIN rows, DOMAIN checks \ {c})
    BY <1>6 DEF DeleteCheck
  <2>2. /\ DOMAIN checks' = DOMAIN checks \ {c}
        /\ \A x \in DOMAIN checks' : checks'[x] = checks[x]
    BY <2>1 DEF Without
  <2>3. ChecksRemainTyped
    BY <2>1, <2>2 DEF ChecksRemainTyped, MonitorInv, MonitorTypeOK
  <2>4. StatesRemain
    BY <1>1, <2>1, <2>2, CascadeRemains
  <2> QED BY <1>1, <1>2, <1>3, <2>3, <2>4, EditedInv
<1> QED BY <1>4, <1>5, <1>6

LEMMA RulesInv ==
  ASSUME MonitorInv, NEW r \in RuleChoices, AddRule(r) \/ DeleteRule(r)
  PROVE  MonitorInv'
<1>1. UNCHANGED <<rows, nextId, checks, newChecks, checkStates, taskVars>>
  BY DEF AddRule, DeleteRule
<1>2. events' \in 0 .. MaxEvents
  BY EventType DEF AddRule, DeleteRule
<1>3. RowsRemainTyped /\ ChecksRemainTyped /\ StatesRemain
  BY <1>1, RowsUntouched, ChecksUntouched, StatesUntouched
<1>4. rules' \subseteq RuleChoices
  BY DEF AddRule, DeleteRule, MonitorInv, MonitorTypeOK
<1> QED BY <1>1, <1>2, <1>3, <1>4, EditedInv

LEMMA EditInv ==
  ASSUME MonitorInv, Edit
  PROVE  MonitorInv'
BY SyncIPsInv, AddIPInv, DeleteIPInv, ChecksInv, RulesInv, MonitorAssumption DEF Edit

LEMMA WorldInv ==
  ASSUME MonitorInv, World
  PROVE  MonitorInv'
<1> USE DEF MonitorInv, config
<1>1. PICK a \in Addrs : EditRecord(a) \/ \E cond \in Conditions : Change(a, cond)
  BY DEF World
<1>2. UNCHANGED <<rows, nextId, checks, newChecks, rules, checkStates, anomalies, pc, snap, notified,
                 missed, lost, run>>
  BY <1>1 DEF EditRecord, Change
<1>3. events' \in 0 .. MaxEvents
  BY <1>1, EventType DEF EditRecord, Change
<1>4. zone' \subseteq Addrs /\ condition' \in [Addrs -> Conditions]
  BY <1>1 DEF EditRecord, Change, MonitorTypeOK
<1>5. MonitorTypeOK'
  BY <1>2, <1>3, <1>4 DEF MonitorTypeOK
<1>6. StatusAgrees' /\ SnapTyped' /\ SnapEarned' /\ StatesOwned' /\ CountsEarned'
  BY <1>2 DEF StatusAgrees, SnapTyped, SnapEarned, StatesOwned, CountsEarned, Pairs
<1> QED BY <1>5, <1>6

LEMMA StutterInv ==
  ASSUME MonitorInv, UNCHANGED vars
  PROVE  MonitorInv'
BY DEF vars, config, MonitorInv, MonitorTypeOK, StatusAgrees, SnapTyped, SnapEarned,
       StatesOwned, CountsEarned, Pairs

LEMMA StepInv == MonitorInv /\ [Next]_vars => MonitorInv'
<1> SUFFICES ASSUME MonitorInv, [Next]_vars PROVE MonitorInv'
  OBVIOUS
<1>1. CASE BeginCycle
  BY <1>1, BeginCycleInv
<1>2. CASE RunChecks \/ CutChecks
  BY <1>2, RunChecksInv, CutChecksInv
<1>3. CASE NoProvider
  BY <1>3, NoProviderInv
<1>4. CASE ReadZone
  BY <1>4, ReadZoneInv
<1>5. CASE \E i \in Ids : \/ AddIPRecord(i) \/ DeleteIPRecord(i) \/ ChangeFailed(i)
                         \/ NoteIP(i) \/ ConfirmIP(i) \/ NoteFailed(i)
  BY <1>5, SyncInv
<1>6. CASE Stop
  BY <1>6, StopInv
<1>7. CASE Start
  BY <1>7, StartInv
<1>8. CASE Edit
  BY <1>8, EditInv
<1>9. CASE World
  BY <1>9, WorldInv
<1>10. CASE IdleCycle \/ UNCHANGED vars
  BY <1>10, StutterInv DEF IdleCycle
<1> QED BY <1>1, <1>2, <1>3, <1>4, <1>5, <1>6, <1>7, <1>8, <1>9, <1>10 DEF Next, Cycle

(***************************************************************************)
(* Theorems                                                                *)
(***************************************************************************)
(* The invariant: types, the agreement of columns, and earned states.      *)
THEOREM MonitorInvariant == Spec => []MonitorInv
<1> QED BY InitInv, StepInv, PTL DEF Spec

(* The rows, the tables and what the task has read keep their types.       *)
THEOREM MonitorTyped == Spec => []MonitorTypeOK
<1>1. MonitorInv => MonitorTypeOK
  BY DEF MonitorInv
<1> QED BY MonitorInvariant, <1>1, PTL

(* The two columns of a row never contradict each other, for any addresses, *)
(* edits, faults and restarts: a row shown UP was noted as added, one shown *)
(* DOWN as not added (UpdateIPStatus, from the four branches of the loop). *)
THEOREM ColumnsAgree == Spec => []StatusAgrees
<1>1. MonitorInv => StatusAgrees
  BY DEF MonitorInv
<1> QED BY MonitorInvariant, <1>1, PTL

(* Without rules an enabled address that was noted as added leaves the     *)
(* record only when a check of it is DOWN in the states the task has read. *)
LEMMA WithdrawnIsDown ==
  ASSUME MonitorInv, NEW i, Withdrawn(i), snap.rules = {}, snap.rows[i].dnsAdded
  PROVE  HasDown(i, snap.states)
<1>1. ~DefaultPolicy(i, snap.rows[i].dnsAdded, snap.states)
  BY DEF Withdrawn, DeleteIPRecord, Wanted, ShouldBeAdded
<1> QED BY <1>1 DEF DefaultPolicy

LEMMA StepEarned ==
  ASSUME MonitorInv, NEW i \in Ids, Withdrawn(i), snap.rules = {}, snap.rows[i].dnsAdded
  PROVE  \E c \in Checks : run[<<i, c>>].condemned \/ <<i, c>> \in lost
<1>1. PICK p \in DOMAIN snap.states : p[1] = i /\ snap.states[p].status = "DOWN"
  BY WithdrawnIsDown DEF HasDown
<1>2. pc = "syncing"
  BY DEF Withdrawn, DeleteIPRecord, Done
<1>3. run[p].condemned \/ p \in lost
  BY <1>1, <1>2 DEF MonitorInv, SnapEarned
<1>4. p \in Ids \X Checks
  BY <1>1 DEF MonitorInv, SnapTyped
<1>5. p = <<i, p[2]>> /\ p[2] \in Checks
  BY <1>1, <1>4
<1> QED BY <1>3, <1>5

(* Under the default policy the monitor withdraws an address it had noted  *)
(* as added only after one of its checks really failed as often in a row   *)
(* as the threshold asked, and has not passed often enough since: for any  *)
(* thresholds and edits of them, unreadable states, bypasses, restarts.    *)
(* Exempt are states whose write the task lost, until they pass again.     *)
THEOREM WithdrawalsEarned == Spec => WithdrawalEarned
<1>1. MonitorInv /\ [Next]_vars
        => [\A i \in Ids :
              Withdrawn(i) /\ snap.rules = {} /\ snap.rows[i].dnsAdded
                => \E c \in Checks : run[<<i, c>>].condemned \/ <<i, c>> \in lost]_vars
  BY StepEarned
<1> QED BY MonitorInvariant, <1>1, PTL DEF Spec, WithdrawalEarned
=============================================================================
