--------------------------- MODULE AddressRecord ----------------------------
(***************************************************************************)
(* The A and AAAA records of one name, kept by the monitor tasks of the    *)
(* groups that use the name (nothing keeps two groups from naming the same *)
(* record), through the four clients of internal/provider/dns.             *)
(*                                                                         *)
(* A cycle lists the record once, then adds or removes one address after   *)
(* the other (daemon/monitor.go, modelled in full by GroupMonitor; here a  *)
(* cycle is its DNS calls, and what the health checks decide is the set    *)
(* "up").  Here each call is the requests its client sends: deSEC can only *)
(* replace a whole record set, so its AddRecord and DeleteRecord list the  *)
(* record and put it back changed; Cloudflare deletes by an id it must     *)
(* query first.                                                            *)
(*                                                                         *)
(* The deSEC client asks for the sets of one name by its subname.  At the  *)
(* apex of the zone that is empty, it asks for all sets of the zone, and   *)
(* takes the A and AAAA records of every name for the apex's.              *)
(***************************************************************************)
EXTENDS DnsService, FiniteSets, Naturals

CONSTANTS Tasks,     \* the monitor tasks
          Owned,     \* [Tasks -> SUBSET of the addresses], the groups' target_ips
          Elsewhere, \* the addresses that other names of the zone have
          IPv6,      \* the addresses that are IPv6 addresses
          MaxFlips,  \* changes of what the health checks decide
          MaxFaults  \* requests that do not end well, and interrupted cycles

Addresses == UNION {Owned[t] : t \in Tasks}
Known == Addresses \cup Elsewhere

ASSUME AddressAssumption ==
  /\ IPv6 \subseteq Known
  /\ {MaxFlips, MaxFaults} \subseteq Nat
  /\ \A t, u \in Tasks : t # u => Owned[t] \cap Owned[u] = {}

VARIABLES provider,  \* the kind of provider the groups use
          apex,      \* the record is a deSEC zone's apex
          zone,      \* the addresses the service answers with for the name
          up,        \* the addresses that should be in DNS (ShouldBeAdded)
          added,     \* target_ips.dns_added
          task,      \* the monitor tasks
          flips, faults

vars == <<provider, apex, zone, up, added, task, flips, faults>>

(* provider/record.go, RecordTypeForIP.                                    *)
RecordTypeForIP(a) == IF a \in IPv6 THEN "AAAA" ELSE "A"

OfType(type) == {a \in Known : RecordTypeForIP(a) = type}

Types(S) == {RecordTypeForIP(a) : a \in S}

(* What ListRecords returns, and which of it belongs to other names.  A    *)
(* list has no order here, and an address two names have is in it once.    *)
Foreign == IF apex THEN Elsewhere ELSE {}

Listed == zone \cup Foreign

(***************************************************************************)
(* A task between two requests: the cycle's listing and decisions, the     *)
(* addresses still to be handled, and, inside a call, the address and the  *)
(* listing of the call.                                                    *)
(***************************************************************************)
Idle == [step |-> "idle"]

Cycle(seen, wanted, left) ==
  [step |-> "cycle", seen |-> seen, wanted |-> wanted, left |-> left]

Calls == {"add", "delete"}

InCall(t, call, a, listing) ==
  [step |-> call, ip |-> a, listing |-> listing,
   seen |-> task[t].seen, wanted |-> task[t].wanted, left |-> task[t].left]

(* The loop goes on with the next address, or the cycle is over.           *)
(* Mutated form: the loop does not end with the last address.              *)
Handled_NoEnd(t, a) ==
  Cycle(task[t].seen, task[t].wanted, task[t].left \ {a})

Handled(t, a) ==
  IF task[t].left = {a} THEN Idle
  ELSE Cycle(task[t].seen, task[t].wanted, task[t].left \ {a})

Init ==
  /\ provider \in Providers
  /\ apex \in BOOLEAN /\ (apex => provider = "DESEC")
  /\ zone = {} /\ up = {} /\ added = {}
  /\ task = [t \in Tasks |-> Idle]
  /\ flips = 0 /\ faults = 0

(* A request ends in o: all but a "done" one count as faults.              *)
Request(o) ==
  /\ o \in Outcomes(provider)
  /\ \/ o = "done" /\ UNCHANGED faults
     \/ o # "done" /\ faults < MaxFaults /\ faults' = faults + 1
-----------------------------------------------------------------------------
(***************************************************************************)
(* The cycle                                                               *)
(***************************************************************************)

(* A cycle starts with ListRecords; when it fails the cycle leaves DNS and *)
(* dns_added alone.  Technitium's HTTP 200 with an error in the body lists *)
(* nothing, without an error.                                              *)
BeginCycle(t) ==
  /\ task[t] = Idle /\ Owned[t] # {}
  /\ \E o \in Outcomes(provider) :
       /\ Request(o)
       /\ task' = [task EXCEPT ![t] =
            IF Status2xx(o)
            THEN Cycle(IF o = "done" THEN Listed \cap Owned[t] ELSE {},
                       up \cap Owned[t], Owned[t])
            ELSE Idle]
  /\ UNCHANGED <<provider, apex, zone, up, added, flips>>

(* The branch "already in sync with provider" for the next address.        *)
(* Mutated form: the flag set by the last call is trusted.                 *)
InSync_FlagKept(t, a) ==
  /\ task[t].step = "cycle" /\ a \in task[t].left
  /\ a \in task[t].wanted <=> a \in task[t].seen
  /\ task' = [task EXCEPT ![t] = Handled(t, a)]
  /\ UNCHANGED <<provider, apex, zone, up, added, flips, faults>>

InSync(t, a) ==
  /\ task[t].step = "cycle" /\ a \in task[t].left
  /\ a \in task[t].wanted <=> a \in task[t].seen
  /\ added' = IF a \in task[t].seen THEN added \cup {a} ELSE added \ {a}
  /\ task' = [task EXCEPT ![t] = Handled(t, a)]
  /\ UNCHANGED <<provider, apex, zone, up, flips, faults>>

(* The task turns to an address it must add, or remove.                    *)
Adding(t, a) ==
  task[t].step = "cycle" /\ a \in task[t].left \cap (task[t].wanted \ task[t].seen)
Deleting(t, a) ==
  task[t].step = "cycle" /\ a \in task[t].left \cap (task[t].seen \ task[t].wanted)

(* UpdateIPStatus after a call that returned no error; after one that did  *)
(* the row is left as it was.                                              *)
Returned(t, call, a, ok) ==
  /\ added' = IF ~ok THEN added
              ELSE IF call = "add" THEN added \cup {a} ELSE added \ {a}
  /\ task' = [task EXCEPT ![t] = Handled(t, a)]
  /\ UNCHANGED <<provider, apex, up, flips>>
-----------------------------------------------------------------------------
(***************************************************************************)
(* The clients that change one address with one request                    *)
(***************************************************************************)

(* AddRecord of Cloudflare (its zone id lookup included), Technitium and   *)
(* the hook.  Technitium's HTTP 200 with an error in the body is a success.*)
AddRecord(t, a) ==
  /\ provider # "DESEC" /\ Adding(t, a)
  /\ \E o \in Outcomes(provider) :
       /\ Request(o)
       /\ zone' = IF Applied(o) THEN zone \cup {a} ELSE zone
       /\ Returned(t, "add", a, Status2xx(o))

(* DeleteRecord of Technitium and the hook.                                *)
DeleteRecord(t, a) ==
  /\ provider \in {"TECHNITIUM", "HOOK"} /\ Deleting(t, a)
  /\ \E o \in Outcomes(provider) :
       /\ Request(o)
       /\ zone' = IF Applied(o) THEN zone \ {a} ELSE zone
       /\ Returned(t, "delete", a, Status2xx(o))
-----------------------------------------------------------------------------
(***************************************************************************)
(* Cloudflare: DeleteRecord asks for the record's id first                 *)
(***************************************************************************)

(* The query fails, or finds no record: there is nothing to delete ...     *)
QueryRecord(t, a) ==
  /\ provider = "CLOUDFLARE" /\ Deleting(t, a)
  /\ UNCHANGED zone
  /\ \/ /\ Request("done") /\ a \in zone
        /\ task' = [task EXCEPT ![t] = InCall(t, "delete", a, {a})]
        /\ UNCHANGED <<provider, apex, up, added, flips>>
     \/ Request("done") /\ a \notin zone /\ Returned(t, "delete", a, TRUE)
     \/ \E o \in Outcomes(provider) \ {"done"} :
          Request(o) /\ Returned(t, "delete", a, FALSE)

(* ... or it is deleted by its id, which is refused if it is gone.         *)
DeleteById(t) ==
  LET a == task[t].ip IN
  /\ provider = "CLOUDFLARE" /\ task[t].step = "delete"
  /\ \/ \E o \in Outcomes(provider) :
          /\ Request(o) /\ a \in zone
          /\ zone' = IF Applied(o) THEN zone \ {a} ELSE zone
          /\ Returned(t, "delete", a, Status2xx(o))
     \/ a \notin zone /\ Returned(t, "delete", a, FALSE) /\ UNCHANGED <<zone, faults>>
-----------------------------------------------------------------------------
(***************************************************************************)
(* deSEC: the whole record set is read, changed and put back               *)
(***************************************************************************)

(* AddRecord: an error of its ListRecords is dropped, the list is then     *)
(* empty.                                                                  *)
ListToAdd(t, a) ==
  /\ provider = "DESEC" /\ Adding(t, a)
  /\ \E o \in Outcomes(provider) :
       /\ Request(o)
       /\ task' = [task EXCEPT ![t] =
                     InCall(t, "add", a, IF o = "done" THEN Listed ELSE {})]
  /\ UNCHANGED <<provider, apex, zone, up, added, flips>>

(* DeleteRecord: without the list it returns the error.                    *)
ListToDelete(t, a) ==
  /\ provider = "DESEC" /\ Deleting(t, a) /\ UNCHANGED zone
  /\ \/ /\ Request("done")
        /\ task' = [task EXCEPT ![t] = InCall(t, "delete", a, Listed)]
        /\ UNCHANGED <<provider, apex, up, added, flips>>
     \/ \E o \in Outcomes(provider) \ {"done"} :
          Request(o) /\ Returned(t, "delete", a, FALSE)

(* The records the client puts back: the A and AAAA records it listed,     *)
(* with or without the address, in one list.                               *)
(* Mutated form: AddRecord sends the new address alone.                    *)
NewRecords_Alone(c) ==
  IF c.step = "add" THEN {c.ip} ELSE c.listing \ {c.ip}

NewRecords(c) ==
  IF c.step = "add" THEN c.listing \cup {c.ip} ELSE c.listing \ {c.ip}

(* The service replaces the record set of one type; it refuses a set with  *)
(* a record that is no address of the type.  An empty set is a DELETE.     *)
Accepts(type, records) == Types(records) \subseteq {type}

(* What the client makes of the answer: AddRecord looks at the status,     *)
(* DeleteRecord only at whether there was an answer.                       *)
CallOK(call, o) == IF call = "add" THEN Status2xx(o) ELSE Answered(o)

PutRecords(t) ==
  LET c == task[t]
      type == RecordTypeForIP(c.ip)
      records == NewRecords(c)
  IN /\ provider = "DESEC" /\ c.step \in Calls
     /\ IF Accepts(type, records)
        THEN \E o \in Outcomes(provider) :
               /\ Request(o)
               /\ zone' = IF Applied(o) THEN (zone \ OfType(type)) \cup records ELSE zone
               /\ Returned(t, c.step, c.ip, CallOK(c.step, o))
        ELSE /\ UNCHANGED <<zone, faults>>
             /\ Returned(t, c.step, c.ip, CallOK(c.step, "refused"))
-----------------------------------------------------------------------------
(* The health checks change their verdict about an address.                *)
Flip(a) ==
  /\ flips < MaxFlips /\ flips' = flips + 1
  /\ up' = IF a \in up THEN up \ {a} ELSE up \cup {a}
  /\ UNCHANGED <<provider, apex, zone, added, task, faults>>

(* The task is cancelled, or the process ends, between two requests.       *)
Stop(t) ==
  /\ task[t] # Idle /\ faults < MaxFaults /\ faults' = faults + 1
  /\ task' = [task EXCEPT ![t] = Idle]
  /\ UNCHANGED <<provider, apex, zone, up, added, flips>>

Step(t) ==
  \/ BeginCycle(t) \/ DeleteById(t) \/ PutRecords(t)
  \/ \E a \in Owned[t] :
       \/ InSync(t, a) \/ AddRecord(t, a) \/ DeleteRecord(t, a)
       \/ QueryRecord(t, a) \/ ListToAdd(t, a) \/ ListToDelete(t, a)

Next ==
  \/ \E t \in Tasks : Step(t) \/ Stop(t)
  \/ \E a \in Addresses : Flip(a)

(* A task that is not stopped goes on, cycle after cycle.                  *)
Spec == Init /\ [][Next]_vars /\ \A t \in Tasks : WF_vars(Step(t))
-----------------------------------------------------------------------------
(* The columns, the service's records and the tasks hold values of their   *)
(* types.                                                                  *)
AddressTypeOK ==
  /\ provider \in Providers
  /\ apex \in BOOLEAN
  /\ zone \subseteq Known /\ up \subseteq Addresses /\ added \subseteq Addresses
  /\ \A t \in Tasks :
       \/ task[t] = Idle
       \/ /\ task[t].step \in {"cycle"} \cup Calls
          /\ task[t].seen \cup task[t].wanted \subseteq Owned[t]
          /\ task[t].left \subseteq Owned[t] /\ task[t].left # {}
          /\ task[t].step \in Calls =>
               task[t].ip \in task[t].left /\ task[t].listing \subseteq Known
  /\ flips \in 0..MaxFlips /\ faults \in 0..MaxFaults

(* An address leaves DNS only because its own group's task found it down,  *)
(* or, with deSEC, because a task put back a list that was read without    *)
(* it: after a list that failed, or one read before the address was added. *)
(* In particular no client removes what it has just listed.                *)
NothingElseRemoved ==
  [][\A a \in zone \ zone' : \E t \in Tasks :
        \/ /\ a \in Owned[t] /\ task[t] # Idle
           /\ a \in task[t].left \cap (task[t].seen \ task[t].wanted)
        \/ /\ provider = "DESEC" /\ task[t].step = "add"
           /\ a \notin task[t].listing
        \/ /\ provider = "DESEC" /\ task[t].step = "delete"
           /\ a \notin task[t].listing]_vars

(* Once the checks and the network settle, the record and the dns_added    *)
(* columns are what the checks decided, whatever was lost, wiped or        *)
(* wrongly taken for done before.  deSEC cannot get there while what it    *)
(* lists, or should hold, are both IPv4 and IPv6 addresses: every set it   *)
(* is sent then mixes both and is refused.  Nor can it at the apex for the *)
(* addresses of other names: they get into the record and stay, and one    *)
(* that is in a group too is always taken to be in the record; while it is *)
(* down, its task deletes it in vain in every cycle, and each time puts    *)
(* back a list in which another task's change may be missing.              *)
Mixed == provider = "DESEC" /\ Types(Listed \cup up) = {"A", "AAAA"}

DeletedInVain == (Addresses \cap Foreign) \ up # {}

AddressesConverge ==
  <>[](\/ Mixed \/ DeletedInVain
       \/ zone \ Foreign = up \ Foreign /\ added \ Foreign = up \ Foreign)

(* What the clients promise: AddRecord and DeleteRecord change the one     *)
(* address they are called for, so what the groups do not name never gets  *)
(* into the record.  The code breaks it at the apex.                       *)
OnlyOwnAddresses == [](zone \subseteq Addresses)
=============================================================================
