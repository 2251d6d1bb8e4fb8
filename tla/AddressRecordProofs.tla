------------------------ MODULE AddressRecordProofs -------------------------
(***************************************************************************)
(* For any tasks, addresses, faults and providers: an address leaves DNS   *)
(* only because its own task found it down, or by deSEC's replacing of     *)
(* sets.                                                                   *)
(*                                                                         *)
(* A call takes several requests, and what its last one deletes was        *)
(* decided before the first.  So it must be known of every call under way  *)
(* that its address is one of those still to be handled and, if it is to   *)
(* be deleted, one that the cycle saw in DNS and did not want there.       *)
(***************************************************************************)
EXTENDS AddressRecord, TLAPS

(* What a task may be doing.                                               *)
States(t) ==
  {Idle}
  \cup [step : {"cycle"}, seen : SUBSET Owned[t], wanted : SUBSET Owned[t],
        left : SUBSET Owned[t]]
  \cup [step : Calls, ip : Addresses, listing : SUBSET Known,
        seen : SUBSET Owned[t], wanted : SUBSET Owned[t], left : SUBSET Owned[t]]

(* A cycle has addresses left, and a call is about one of them that the    *)
(* cycle decided on.                                                       *)
Decided(r) ==
  /\ r # Idle => r.left # {}
  /\ r.step \in Calls => r.ip \in r.left
  /\ r.step = "delete" => r.ip \in r.seen \ r.wanted

TasksDecided ==
  /\ task = [t \in Tasks |-> task[t]]
  /\ \A t \in Tasks : task[t] \in States(t) /\ Decided(task[t])

AddressInv == AddressTypeOK /\ TasksDecided

LEMMA OwnAddresses == Addresses \subseteq Known /\ \A t \in Tasks : Owned[t] \subseteq Addresses
BY DEF Addresses, Known

(* The fields of a task that is at work.                                   *)
LEMMA AtWork ==
  ASSUME AddressInv, NEW t \in Tasks, task[t].step \in {"cycle"} \cup Calls
  PROVE  /\ task[t] # Idle
         /\ task[t].seen \in SUBSET Owned[t] /\ task[t].wanted \in SUBSET Owned[t]
         /\ task[t].left \in SUBSET Owned[t] /\ task[t].left # {}
         /\ task[t].step \in Calls =>
              /\ task[t].ip \in task[t].left /\ task[t].ip \in Addresses
              /\ task[t].listing \in SUBSET Known
         /\ task[t].step = "delete" => task[t].ip \in task[t].seen \ task[t].wanted
<1>1. task[t] # Idle
  BY DEF Idle, Calls
<1> QED BY <1>1, OwnAddresses DEF AddressInv, AddressTypeOK, TasksDecided, Decided

LEMMA InitInv == Init => AddressInv
BY AddressAssumption DEF Init, AddressInv, AddressTypeOK, TasksDecided, States, Decided, Idle, Calls

(* A task goes on; the tables change within their types.                   *)
LEMMA TaskInv ==
  ASSUME AddressInv, NEW t \in Tasks,
         NEW r \in States(t), Decided(r), task' = [task EXCEPT ![t] = r],
         UNCHANGED <<provider, apex, up, flips>>,
         zone' \subseteq Known, added' \subseteq Addresses, faults' \in 0..MaxFaults
  PROVE  AddressInv'
<1>1. TasksDecided'
  BY DEF AddressInv, TasksDecided
<1>2. ASSUME NEW u \in Tasks
      PROVE  \/ task'[u] = Idle
             \/ /\ task'[u].step \in {"cycle"} \cup Calls
                /\ task'[u].seen \cup task'[u].wanted \subseteq Owned[u]
                /\ task'[u].left \subseteq Owned[u] /\ task'[u].left # {}
                /\ task'[u].step \in Calls =>
                     task'[u].ip \in task'[u].left /\ task'[u].listing \subseteq Known
  <2>1. task'[u] \in States(u) /\ Decided(task'[u])
    BY <1>1 DEF TasksDecided
  <2> QED BY <2>1 DEF States, Decided, Idle, Calls
<1>3. AddressTypeOK'
  BY <1>2 DEF AddressInv, AddressTypeOK
<1> QED BY <1>1, <1>3 DEF AddressInv

LEMMA IdleState == \A t \in Tasks : Idle \in States(t) /\ Decided(Idle)
BY DEF States, Decided, Idle, Calls

LEMMA RequestType ==
  ASSUME AddressInv, NEW o, Request(o)
  PROVE  faults' \in 0..MaxFaults /\ o \in Outcomes(provider)
BY AddressAssumption DEF AddressInv, AddressTypeOK, Request

(* The loop turns to the next address.                                     *)
LEMMA HandledState ==
  ASSUME AddressInv, NEW t \in Tasks, NEW a, task[t].step \in {"cycle"} \cup Calls, a \in task[t].left
  PROVE  Handled(t, a) \in States(t) /\ Decided(Handled(t, a))
<1>1. CASE task[t].left = {a}
  BY <1>1, IdleState DEF Handled
<1>2. CASE task[t].left # {a}
  <2>1. task[t].left \ {a} # {} /\ task[t].left \ {a} \in SUBSET Owned[t]
    BY <1>2, AtWork
  <2> QED BY <1>2, <2>1, AtWork DEF Handled, Cycle, States, Decided, Calls
<1> QED BY <1>1, <1>2

LEMMA ReturnedInv ==
  ASSUME AddressInv, NEW t \in Tasks, NEW call, NEW a, NEW ok,
         task[t].step \in {"cycle"} \cup Calls, a \in task[t].left, Returned(t, call, a, ok),
         zone' \subseteq Known, faults' \in 0..MaxFaults
  PROVE  AddressInv'
<1>1. a \in Addresses
  BY AtWork, OwnAddresses
<1>2. added' \subseteq Addresses
  BY <1>1 DEF Returned, AddressInv, AddressTypeOK
<1> QED BY <1>2, HandledState, TaskInv DEF Returned

(* A call begins.                                                          *)
LEMMA InCallInv ==
  ASSUME AddressInv, NEW t \in Tasks, NEW call \in Calls, NEW a, NEW listing \in SUBSET Known,
         task[t].step = "cycle", a \in task[t].left,
         call = "delete" => a \in task[t].seen \ task[t].wanted,
         task' = [task EXCEPT ![t] = InCall(t, call, a, listing)],
         UNCHANGED <<provider, apex, up, flips, zone, added>>, faults' \in 0..MaxFaults
  PROVE  AddressInv'
<1>1. a \in Addresses
  BY AtWork, OwnAddresses
<1>2. InCall(t, call, a, listing) \in States(t)
  BY <1>1, AtWork DEF InCall, States
<1>3. Decided(InCall(t, call, a, listing))
  BY AtWork DEF InCall, Decided
<1> QED BY <1>2, <1>3, TaskInv DEF AddressInv, AddressTypeOK

(***************************************************************************)
(* The steps of a task                                                     *)
(***************************************************************************)

LEMMA BeginCycleInv ==
  ASSUME AddressInv, NEW t \in Tasks, BeginCycle(t)
  PROVE  AddressInv'
<1>1. PICK o \in Outcomes(provider) :
        /\ Request(o)
        /\ task' = [task EXCEPT ![t] =
             IF Status2xx(o)
             THEN Cycle(IF o = "done" THEN Listed \cap Owned[t] ELSE {}, up \cap Owned[t], Owned[t])
             ELSE Idle]
  BY DEF BeginCycle
<1> DEFINE seen == IF o = "done" THEN Listed \cap Owned[t] ELSE {}
<1>2. seen \in SUBSET Owned[t] /\ Owned[t] # {}
  BY DEF BeginCycle
<1> HIDE DEF seen
<1>3. /\ Cycle(seen, up \cap Owned[t], Owned[t]) \in States(t)
      /\ Decided(Cycle(seen, up \cap Owned[t], Owned[t]))
  BY <1>2 DEF Cycle, States, Decided, Calls
<1>4. PICK r \in States(t) : Decided(r) /\ task' = [task EXCEPT ![t] = r]
  BY <1>1, <1>3, IdleState DEF seen
<1> QED BY <1>1, <1>4, TaskInv, RequestType DEF BeginCycle, AddressInv, AddressTypeOK

LEMMA InSyncInv ==
  ASSUME AddressInv, NEW t \in Tasks, NEW a \in Owned[t], InSync(t, a)
  PROVE  AddressInv'
<1>1. a \in Addresses /\ a \in task[t].left /\ task[t].step \in {"cycle"} \cup Calls
  BY OwnAddresses DEF InSync
<1>2. added' \subseteq Addresses
  BY <1>1 DEF InSync, AddressInv, AddressTypeOK
<1> QED BY <1>1, <1>2, HandledState, TaskInv DEF InSync, AddressInv, AddressTypeOK

(* The clients that send one request.                                      *)
LEMMA OneRequestInv ==
  ASSUME AddressInv, NEW t \in Tasks, NEW a \in Owned[t], AddRecord(t, a) \/ DeleteRecord(t, a)
  PROVE  AddressInv'
<1>1. /\ a \in Addresses /\ a \in task[t].left /\ task[t].step \in {"cycle"} \cup Calls
  BY OwnAddresses DEF AddRecord, DeleteRecord, Adding, Deleting
<1>2. PICK o \in Outcomes(provider), call \in Calls :
        /\ Request(o) /\ Returned(t, call, a, Status2xx(o))
        /\ zone' \in {zone, zone \cup {a}, zone \ {a}}
  BY DEF AddRecord, DeleteRecord, Calls
<1>3. zone' \subseteq Known
  BY <1>1, <1>2, OwnAddresses DEF AddressInv, AddressTypeOK
<1> QED BY <1>1, <1>2, <1>3, RequestType, ReturnedInv

LEMMA QueryRecordInv ==
  ASSUME AddressInv, NEW t \in Tasks, NEW a \in Owned[t], QueryRecord(t, a)
  PROVE  AddressInv'
<1>1. /\ a \in task[t].left /\ a \in task[t].seen \ task[t].wanted /\ a \in Addresses
      /\ task[t].step = "cycle" /\ zone' = zone /\ zone \subseteq Known
  BY OwnAddresses DEF QueryRecord, Deleting, AddressInv, AddressTypeOK
<1>2. CASE /\ Request("done")
           /\ task' = [task EXCEPT ![t] = InCall(t, "delete", a, {a})]
           /\ UNCHANGED <<provider, apex, up, added, flips>>
  <2>1. "delete" \in Calls /\ {a} \in SUBSET Known
    BY <1>1, OwnAddresses DEF Calls
  <2> QED BY <1>1, <1>2, <2>1, InCallInv, RequestType
<1>3. ASSUME NEW o, NEW ok, Request(o), Returned(t, "delete", a, ok)
      PROVE  AddressInv'
  BY <1>1, <1>3, ReturnedInv, RequestType
<1> QED BY <1>2, <1>3 DEF QueryRecord

LEMMA DeleteByIdInv ==
  ASSUME AddressInv, NEW t \in Tasks, DeleteById(t)
  PROVE  AddressInv'
<1> DEFINE a == task[t].ip
<1>1. task[t].step \in {"cycle"} \cup Calls /\ task[t].step \in Calls
  BY DEF DeleteById, Calls
<1>2. a \in task[t].left /\ zone \subseteq Known /\ faults \in 0..MaxFaults
  BY <1>1, AtWork DEF AddressInv, AddressTypeOK
<1>3. /\ zone' \in {zone, zone \ {a}}
      /\ \E ok : Returned(t, "delete", a, ok)
      /\ faults' = faults \/ \E o : Request(o)
  BY DEF DeleteById
<1>4. faults' \in 0..MaxFaults /\ zone' \subseteq Known
  BY <1>2, <1>3, RequestType
<1> QED BY <1>1, <1>2, <1>3, <1>4, ReturnedInv

LEMMA ListInv ==
  ASSUME AddressInv, NEW t \in Tasks, NEW a \in Owned[t], ListToAdd(t, a) \/ ListToDelete(t, a)
  PROVE  AddressInv'
<1>1. /\ a \in task[t].left /\ a \in Addresses /\ task[t].step = "cycle"
      /\ zone \subseteq Known /\ Listed \subseteq Known
      /\ "add" \in Calls /\ "delete" \in Calls /\ "add" # "delete"
  BY OwnAddresses DEF ListToAdd, ListToDelete, Adding, Deleting, AddressInv, AddressTypeOK, Calls,
        Listed, Foreign, Known
<1>2. CASE ListToAdd(t, a)
  <2>1. PICK o \in Outcomes(provider) :
          /\ Request(o)
          /\ task' = [task EXCEPT ![t] = InCall(t, "add", a, IF o = "done" THEN Listed ELSE {})]
    BY <1>2 DEF ListToAdd
  <2>2. (IF o = "done" THEN Listed ELSE {}) \in SUBSET Known
    BY <1>1
  <2> QED BY <1>1, <1>2, <2>1, <2>2, InCallInv, RequestType DEF ListToAdd
<1>3. CASE ListToDelete(t, a)
  <2>1. a \in task[t].seen \ task[t].wanted /\ zone' = zone
    BY <1>3 DEF ListToDelete, Deleting
  <2>2. CASE /\ Request("done")
             /\ task' = [task EXCEPT ![t] = InCall(t, "delete", a, Listed)]
             /\ UNCHANGED <<provider, apex, up, added, flips>>
    BY <1>1, <2>1, <2>2, InCallInv, RequestType
  <2>3. ASSUME NEW o, Request(o), Returned(t, "delete", a, FALSE) PROVE AddressInv'
    BY <1>1, <2>1, <2>3, ReturnedInv, RequestType
  <2> QED BY <1>3, <2>2, <2>3 DEF ListToDelete
<1> QED BY <1>2, <1>3

(* What deSEC's PUT does to the zone: it replaces the set of one type by   *)
(* the list with or without the address.                                   *)
LEMMA PutIs ==
  ASSUME NEW t \in Tasks, PutRecords(t)
  PROVE  /\ provider = "DESEC" /\ task[t].step \in Calls
         /\ \/ zone' = zone
            \/ \E S \in SUBSET Known : zone' = (zone \ S) \cup NewRecords(task[t])
         /\ \E ok : Returned(t, task[t].step, task[t].ip, ok)
         /\ faults' = faults \/ \E o : Request(o)
<1> DEFINE type == RecordTypeForIP(task[t].ip)
<1>1. OfType(type) \in SUBSET Known
  BY DEF OfType
<1> HIDE DEF type
<1>2. \/ \E o \in Outcomes(provider) :
            /\ Request(o)
            /\ zone' = IF Applied(o) THEN (zone \ OfType(type)) \cup NewRecords(task[t]) ELSE zone
            /\ Returned(t, task[t].step, task[t].ip, CallOK(task[t].step, o))
      \/ /\ UNCHANGED <<zone, faults>>
         /\ Returned(t, task[t].step, task[t].ip, CallOK(task[t].step, "refused"))
  BY DEF PutRecords, type
<1>3. provider = "DESEC" /\ task[t].step \in Calls
  BY DEF PutRecords
<1> QED BY <1>1, <1>2, <1>3

LEMMA PutRecordsInv ==
  ASSUME AddressInv, NEW t \in Tasks, PutRecords(t)
  PROVE  AddressInv'
<1>1. task[t].step \in {"cycle"} \cup Calls /\ task[t].step \in Calls
  BY PutIs
<1>2. /\ task[t].ip \in task[t].left /\ NewRecords(task[t]) \subseteq Known
      /\ zone \subseteq Known /\ faults \in 0..MaxFaults
  BY <1>1, AtWork, OwnAddresses DEF NewRecords, AddressInv, AddressTypeOK
<1>3. zone' \subseteq Known
  BY <1>2, PutIs
<1>4. faults' \in 0..MaxFaults
  BY <1>2, PutIs, RequestType
<1>5. PICK ok : Returned(t, task[t].step, task[t].ip, ok)
  BY PutIs
<1> QED BY <1>1, <1>2, <1>3, <1>4, <1>5, ReturnedInv

LEMMA StopInv ==
  ASSUME AddressInv, NEW t \in Tasks, Stop(t)
  PROVE  AddressInv'
<1>1. faults' \in 0..MaxFaults
  BY AddressAssumption DEF Stop, AddressInv, AddressTypeOK
<1> QED BY <1>1, IdleState, TaskInv DEF Stop, AddressInv, AddressTypeOK

LEMMA FlipInv ==
  ASSUME AddressInv, NEW a \in Addresses, Flip(a)
  PROVE  AddressInv'
<1>1. flips' \in 0..MaxFlips /\ up' \subseteq Addresses
  BY AddressAssumption DEF Flip, AddressInv, AddressTypeOK
<1> QED BY <1>1 DEF Flip, AddressInv, AddressTypeOK, TasksDecided

LEMMA StepInv ==
  ASSUME AddressInv, NEW t \in Tasks, Step(t)
  PROVE  AddressInv'
BY BeginCycleInv, InSyncInv, OneRequestInv, QueryRecordInv, DeleteByIdInv, ListInv, PutRecordsInv
   DEF Step

(* The inductive invariant holds in every state.                           *)
THEOREM AddressInvariant == Spec => []AddressInv
<1>1. AddressInv /\ UNCHANGED vars => AddressInv'
  BY DEF vars, AddressInv, AddressTypeOK, TasksDecided
<1>2. AddressInv /\ [Next]_vars => AddressInv'
  BY <1>1, StepInv, StopInv, FlipInv DEF Next
<1> QED BY <1>2, InitInv, PTL DEF Spec

(* The record, the columns and the tasks keep their types.                 *)
THEOREM AddressTyped == Spec => []AddressTypeOK
<1>1. AddressInv => AddressTypeOK
  BY DEF AddressInv
<1> QED BY <1>1, AddressInvariant, PTL

(* Whoever takes an address out of DNS.                                    *)
Remover(t, a) ==
  \/ /\ a \in Owned[t] /\ task[t] # Idle
     /\ a \in task[t].left \cap (task[t].seen \ task[t].wanted)
  \/ /\ provider = "DESEC" /\ task[t].step = "add"
     /\ a \notin task[t].listing
  \/ /\ provider = "DESEC" /\ task[t].step = "delete"
     /\ a \notin task[t].listing

LEMMA RemoverOf ==
  ASSUME AddressInv, NEW t \in Tasks, Step(t), NEW a \in zone \ zone'
  PROVE  Remover(t, a)
<1>1. ASSUME NEW b \in Owned[t], DeleteRecord(t, b) PROVE Remover(t, a)
  <2>1. a = b /\ task[t].step = "cycle" /\ a \in task[t].left \cap (task[t].seen \ task[t].wanted)
    BY <1>1 DEF DeleteRecord, Deleting
  <2> QED BY <2>1, AtWork DEF Remover
<1>2. ASSUME DeleteById(t) PROVE Remover(t, a)
  <2>1. a = task[t].ip /\ task[t].step = "delete"
    BY <1>2 DEF DeleteById
  <2> QED BY <2>1, AtWork DEF Remover, Calls
<1>3. ASSUME PutRecords(t) PROVE Remover(t, a)
  <2>1. a \notin NewRecords(task[t]) /\ provider = "DESEC" /\ task[t].step \in Calls
    BY <1>3, PutIs
  <2>2. CASE task[t].step = "add"
    BY <2>1, <2>2 DEF NewRecords, Remover
  <2>3. CASE task[t].step = "delete"
    <3>1. a \notin task[t].listing \/ a = task[t].ip
      BY <2>1, <2>3 DEF NewRecords
    <3> QED BY <2>1, <2>3, <3>1, AtWork DEF Remover
  <2> QED BY <2>1, <2>2, <2>3 DEF Calls
<1>4. ASSUME NEW b \in Owned[t], AddRecord(t, b) PROVE FALSE
  BY <1>4 DEF AddRecord
<1> QED
  BY <1>1, <1>2, <1>3, <1>4
     DEF Step, BeginCycle, InSync, QueryRecord, ListToAdd, ListToDelete

(* No client removes what it has just listed, another task's address or    *)
(* one the checks want in DNS, but for deSEC's replacing of sets: however  *)
(* the requests of several tasks interleave, fail or lose their answers.   *)
THEOREM OnlyDownRemoved == Spec => NothingElseRemoved
<1>1. AddressInv /\ [Next]_vars => [\A a \in zone \ zone' : \E t \in Tasks : Remover(t, a)]_vars
  BY RemoverOf DEF Next, Stop, Flip
<1> QED BY <1>1, AddressInvariant, PTL DEF Spec, NothingElseRemoved, Remover
=============================================================================
