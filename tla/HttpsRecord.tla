---------------------------- MODULE HttpsRecord -----------------------------
(***************************************************************************)
(* The HTTPS record of one ECH domain, published by the coordinator        *)
(* (daemon/ech_coordinator.go, syncClusterDomainsDNS) through the          *)
(* UpdateHTTPSRecord of the four clients of internal/provider/dns.         *)
(* EchRollout models when the coordinator publishes; here a publication is *)
(* the requests its client sends, any of which may fail, and the record is *)
(* the set of ECH configurations the service answers with: a service keeps *)
(* several HTTPS records of a name if it is given several.                 *)
(***************************************************************************)
EXTENDS DnsService, FiniteSets, Naturals

CONSTANTS MaxVersion,  \* bound: rotations of the cluster's key
          MaxTime,     \* bound: seconds the clock shows
          MaxFaults    \* bound: requests and statements that do not end well, crashes

ASSUME HttpsAssumption ==
  MaxVersion \in Nat \ {0} /\ MaxTime \in Nat \ {0} /\ MaxFaults \in Nat

Versions == 1..MaxVersion
Times    == 1..MaxTime    \* the columns and comparisons are in whole seconds

VARIABLES
  provider,  \* the kind of provider of the domain
  records,   \* the versions of the key in the HTTPS records served
  key,       \* ech_keys: the version of the active key
  lastRot,   \* ech_clusters: last_rotated_at
  rotation,  \* a rotation under way, with the time it noted
  domain,    \* ech_domains: dns_status and last_synced_at, 0 for NULL
  call,      \* the coordinator's publication of the domain
  clock, faults,
  hidden,    \* history: a refused list hid a record from a POST
  overtaken  \* history: the mark is of an older key than the times tell

vars == <<provider, records, key, lastRot, rotation, domain, call, clock, faults,
          hidden, overtaken>>

NoCall == [step |-> "none"]

Sent(step) == [step |-> step, version |-> call.version, at |-> call.at]

NoRotation == [step |-> "none", at |-> 0]

(* The cluster has its first key, and the domain has just been added.      *)
Init ==
  /\ provider \in Providers
  /\ records = {} /\ key = 1 /\ lastRot = 1 /\ clock = 1
  /\ domain = [status |-> "PENDING", at |-> 0]
  /\ call = NoCall /\ rotation = NoRotation
  /\ faults = 0 /\ hidden = FALSE /\ overtaken = FALSE

Fault == faults < MaxFaults /\ faults' = faults + 1

Request(o) ==
  /\ o \in Outcomes(provider)
  /\ IF o = "done" THEN UNCHANGED faults ELSE Fault

Tick ==
  /\ clock < MaxTime /\ clock' = clock + 1
  /\ UNCHANGED <<provider, records, key, lastRot, rotation, domain, call, faults,
                 hidden, overtaken>>
-----------------------------------------------------------------------------
(***************************************************************************)
(* A rotation, by the coordinator between two publications or by an admin  *)
(* at any time; one at a time (EchServer has several)                      *)
(***************************************************************************)

(* The time is noted before the key is made and the first statement sent.  *)
NoteRotation ==
  /\ rotation = NoRotation /\ key < MaxVersion
  /\ rotation' = [step |-> "increment", at |-> clock]
  /\ UNCHANGED <<provider, records, key, lastRot, domain, call, clock, faults,
                 hidden, overtaken>>

(* The domain's row is reset, or the ignored error of the statement leaves *)
(* it as it is.                                                            *)
Reset(row) ==
  \/ domain' = row /\ UNCHANGED faults
  \/ UNCHANGED domain /\ Fault

(* IncrementClusterVersion: last_rotated_at is the time that was noted;    *)
(* last_synced_at stays.                                                   *)
IncrementClusterVersion ==
  /\ rotation.step = "increment"
  /\ lastRot' = rotation.at
  /\ Reset([domain EXCEPT !.status = "PENDING"])
  /\ rotation' = [rotation EXCEPT !.step = "save"]
  /\ UNCHANGED <<provider, records, key, call, clock, hidden, overtaken>>

(* What the comparison of last_synced_at with last_rotated_at cannot tell: *)
(* the key was saved under a publication whose mark will not be before the *)
(* rotation's time, or under such a mark that stayed.                      *)
Overtaken ==
  \/ call # NoCall /\ (call.at = 0 \/ call.at >= lastRot)
  \/ domain'.status = "SYNCED" /\ domain'.at >= lastRot

(* SaveNewECHKey, then every domain of the cluster PENDING with            *)
(* last_synced_at NULL.                                                    *)
SaveNewECHKey ==
  /\ rotation.step = "save"
  /\ key' = key + 1
  /\ Reset([status |-> "PENDING", at |-> 0])
  /\ overtaken' = Overtaken
  /\ rotation' = NoRotation
  /\ UNCHANGED <<provider, records, lastRot, call, clock, hidden>>

(* Either of them fails, and the rotation is given up.                     *)
RotationFails ==
  /\ rotation # NoRotation /\ rotation' = NoRotation
  /\ Fault
  /\ UNCHANGED <<provider, records, key, lastRot, domain, call, clock, hidden, overtaken>>

Rotate == NoteRotation \/ IncrementClusterVersion \/ SaveNewECHKey \/ RotationFails
-----------------------------------------------------------------------------
(***************************************************************************)
(* The publication of the domain by the coordinator                        *)
(***************************************************************************)

(* Marked SYNCED, but before the second of the last rotation.              *)
(* Mutated form: the mark is believed.                                     *)
Stale_Never == FALSE

Stale == domain.at = 0 \/ domain.at < lastRot

(* The coordinator takes up a domain that is not SYNCED, or stale, with    *)
(* the active key.  EchServer has the reads of this step apart.            *)
Publish ==
  /\ call = NoCall
  /\ domain.status # "SYNCED" \/ Stale
  /\ call' = [step |-> "time", version |-> key, at |-> 0]
  /\ overtaken' = FALSE
  /\ UNCHANGED <<provider, records, key, lastRot, rotation, domain, clock, faults, hidden>>

(* The first request of each client.                                       *)
First == CASE provider = "CLOUDFLARE" -> "find"
           [] provider = "DESEC"      -> "put"
           [] provider = "TECHNITIUM" -> "delete"
           [] provider = "HOOK"       -> "hook"

(* now := time.Now(), after the key was read; it will be last_synced_at.   *)
ReadTime ==
  /\ call.step = "time"
  /\ call' = [step |-> First, version |-> call.version, at |-> clock]
  /\ UNCHANGED <<provider, records, key, lastRot, rotation, domain, clock, faults,
                 hidden, overtaken>>

(* UpdateHTTPSRecord returns.                                              *)
(* Mutated form: an error of the client is not looked at.                  *)
Returned_Ignored(ok) ==
  call' = [step |-> "mark", version |-> call.version, at |-> call.at, ok |-> TRUE]

Returned(ok) ==
  call' = [step |-> "mark", version |-> call.version, at |-> call.at, ok |-> ok]

(* UpdateECHDomainSyncStatus, whatever happened to the row meanwhile; its  *)
(* error is ignored.                                                       *)
Mark ==
  /\ call.step = "mark"
  /\ Reset([status |-> IF call.ok THEN "SYNCED" ELSE "FAILED", at |-> call.at])
  /\ call' = NoCall
  /\ UNCHANGED <<provider, records, key, lastRot, rotation, clock, hidden, overtaken>>

(* What a request leaves alone.                                            *)
others == <<provider, key, lastRot, rotation, domain, clock, overtaken>>

(* A request that leaves the records as they are and is not answered well. *)
Failed(o) == o # "done" /\ Request(o) /\ Returned(FALSE)
-----------------------------------------------------------------------------
(***************************************************************************)
(* Cloudflare: look for a record, then PUT it or POST a new one            *)
(***************************************************************************)

(* The status of the answer to the list is not looked at: the body of a    *)
(* refusal parses as an empty list.  No answer (or no zone id) is an error.*)
FindRecord ==
  /\ provider = "CLOUDFLARE" /\ call.step = "find"
  /\ UNCHANGED <<others, records>>
  /\ \/ /\ Request("done")
        /\ \/ records = {} /\ call' = Sent("post")
           \/ \E r \in records :
                call' = [step |-> "put", version |-> call.version, at |-> call.at, id |-> r]
        /\ UNCHANGED hidden
     \/ /\ Request("refused") /\ call' = Sent("post")
        /\ hidden' = (hidden \/ records # {})
     \/ \E o \in {"lost", "unanswered"} : Failed(o) /\ UNCHANGED hidden

(* Mutated form: the record is deleted, to be created by a later call.     *)
Replaced_Deleted(old, v) == records \ {old}

Replaced(old, v) == (records \ {old}) \cup {v}

PutRecord ==
  /\ provider = "CLOUDFLARE" /\ call.step = "put"
  /\ \E o \in Outcomes(provider) :
       /\ Request(o)
       /\ records' = IF Applied(o) THEN Replaced(call.id, call.version) ELSE records
       /\ Returned(Status2xx(o))
  /\ UNCHANGED <<others, hidden>>

PostRecord ==
  /\ provider = "CLOUDFLARE" /\ call.step = "post"
  /\ \E o \in Outcomes(provider) :
       /\ Request(o)
       /\ records' = IF Applied(o) THEN records \cup {call.version} ELSE records
       /\ Returned(Status2xx(o))
  /\ UNCHANGED <<others, hidden>>
-----------------------------------------------------------------------------
(***************************************************************************)
(* deSEC: PUT the record set, and POST it if there is none (404)           *)
(***************************************************************************)
PutRRSet ==
  /\ provider = "DESEC" /\ call.step = "put"
  /\ UNCHANGED <<others, hidden>>
  /\ \/ \E o \in Outcomes(provider) :
          /\ Request(o)
          /\ records' = IF Applied(o) THEN {call.version} ELSE records
          /\ Returned(Status2xx(o))
     \/ /\ records = {} /\ call' = Sent("post")
        /\ UNCHANGED <<records, faults>>

PostRRSet ==
  /\ provider = "DESEC" /\ call.step = "post"
  /\ \E o \in Outcomes(provider) :
       /\ Request(o)
       /\ records' = IF Applied(o) THEN {call.version} ELSE records
       /\ Returned(Status2xx(o))
  /\ UNCHANGED <<others, hidden>>
-----------------------------------------------------------------------------
(***************************************************************************)
(* Technitium: delete all HTTPS records, whatever comes of it, then add    *)
(* with overwrite; here "status": "error" behind HTTP 200 is an error.     *)
(***************************************************************************)
DeleteRecords ==
  /\ provider = "TECHNITIUM" /\ call.step = "delete"
  /\ \E o \in Outcomes(provider) :
       /\ Request(o)
       /\ records' = IF Applied(o) THEN {} ELSE records
  /\ call' = Sent("add")
  /\ UNCHANGED <<others, hidden>>

AddHttps ==
  /\ provider = "TECHNITIUM" /\ call.step = "add"
  /\ \E o \in Outcomes(provider) :
       /\ Request(o)
       /\ records' = IF Applied(o) THEN {call.version} ELSE records
       /\ Returned(o = "done")
  /\ UNCHANGED <<others, hidden>>

(* The hook: an external program that replaces the record.                 *)
RunHook ==
  /\ provider = "HOOK" /\ call.step = "hook"
  /\ \E o \in Outcomes(provider) :
       /\ Request(o)
       /\ records' = IF Applied(o) THEN {call.version} ELSE records
       /\ Returned(Status2xx(o))
  /\ UNCHANGED <<others, hidden>>
-----------------------------------------------------------------------------
(* The server stops; the row keeps its status.                             *)
Crash ==
  /\ call # NoCall \/ rotation # NoRotation
  /\ Fault
  /\ call' = NoCall /\ rotation' = NoRotation
  /\ UNCHANGED <<provider, records, key, lastRot, domain, clock, hidden, overtaken>>

UpdateHTTPSRecord ==
  \/ FindRecord \/ PutRecord \/ PostRecord \/ PutRRSet \/ PostRRSet
  \/ DeleteRecords \/ AddHttps \/ RunHook

Publication == Publish \/ ReadTime \/ UpdateHTTPSRecord \/ Mark

Next == Tick \/ Rotate \/ Crash \/ Publication

(* The coordinator's ticker calls it again and again, and calls end.       *)
Spec == Init /\ [][Next]_vars /\ WF_vars(Publication)
-----------------------------------------------------------------------------
(* The records, the rows, the rotation and the call hold values of their   *)
(* types.                                                                  *)
HttpsTypeOK ==
  /\ provider \in Providers
  /\ records \subseteq Versions /\ key \in Versions
  /\ lastRot \in Times /\ clock \in Times
  /\ faults \in 0..MaxFaults /\ hidden \in BOOLEAN /\ overtaken \in BOOLEAN
  /\ domain \in [status : {"PENDING", "FAILED", "SYNCED"}, at : Times \cup {0}]
  /\ rotation.step \in {"none", "increment", "save"} /\ rotation.at \in Times \cup {0}
  /\ \/ call = NoCall
     \/ /\ call.step \in {"time", "find", "put", "post", "delete", "add", "hook", "mark"}
        /\ call.version \in Versions /\ call.at \in Times \cup {0}

(* A domain that the coordinator passes over, because it is SYNCED with a  *)
(* time not before the last rotation's, advertises the active key: no lost *)
(* answer, refused request, ignored error, crash or rotation in the middle *)
(* of a publication makes the coordinator leave a domain alone that is not *)
(* published.  Exempt is a key that was saved while a publication, or its  *)
(* mark, had a time not before the rotation's: whole seconds do not tell   *)
(* them apart, nor a time noted long before its statement.                 *)
SyncedIsAdvertised ==
  domain.status = "SYNCED" /\ domain.at >= lastRot => key \in records \/ overtaken

(* A name that advertised a key goes on advertising one while it is        *)
(* published anew, unless the client deletes the record first (Technitium).*)
KeptAdvertised ==
  [][records # {} => records' # {} \/ (provider = "TECHNITIUM" /\ call.step = "delete")]_vars

(* Requests that fail for a while are tried again until the active key is  *)
(* advertised, and nothing beside it, unless a refused list hid a record   *)
(* from the Cloudflare client: the one it then created may stay beside it. *)
(* A row that was overtaken is passed over until the next rotation.        *)
HttpsConverges == <>[](overtaken \/ (key \in records /\ (hidden \/ records = {key})))

(* Creating or updating leaves the one record that was asked for.          *)
OnlyActiveKey == <>[](overtaken \/ records = {key})
=============================================================================
