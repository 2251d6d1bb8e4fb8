------------------------- MODULE HttpsRecordProofs --------------------------
(***************************************************************************)
(* For any provider and any number of rotations, seconds and faults: a     *)
(* domain that the coordinator passes over advertises the active key, but  *)
(* for a key whose rotation the times do not tell from the publication.    *)
(***************************************************************************)
EXTENDS HttpsRecord, TLAPS

(* While a call runs, the row is not one the property speaks of: the call  *)
(* was made because it was not SYNCED, or stale, and a rotation only makes *)
(* it more so, because it notes its time after the last one.               *)
CallIsNeeded ==
  /\ call # NoCall => domain.status # "SYNCED" \/ domain.at < lastRot
  /\ lastRot <= clock
  /\ rotation.step = "increment" => lastRot <= rotation.at /\ rotation.at <= clock

(* A call that publishes an older key will leave a mark that is stale, or  *)
(* is one that was overtaken.                                              *)
CallIsCurrent ==
  call # NoCall =>
    /\ call.version # key => overtaken \/ (call.at # 0 /\ call.at < lastRot)
    /\ call.step = "time" => call.at = 0

(* A call that is about to mark the domain SYNCED has put its key into the *)
(* records.                                                                *)
CallHasWritten ==
  call.step = "mark" =>
    /\ call.ok \in BOOLEAN
    /\ call.ok => call.version \in records

(* A rotation that is under way has a version to give.                     *)
KeyLeft == rotation # NoRotation => key < MaxVersion

Inv == /\ HttpsTypeOK /\ SyncedIsAdvertised
       /\ CallIsNeeded /\ CallIsCurrent /\ CallHasWritten /\ KeyLeft

LEMMA InitInv == Init => Inv
<1> SUFFICES ASSUME Init PROVE Inv
  OBVIOUS
<1>1. 1 \in Versions /\ 1 \in Times /\ 0 \in 0..MaxFaults
  BY HttpsAssumption DEF Versions, Times
<1>2. HttpsTypeOK
  BY <1>1 DEF Init, HttpsTypeOK, NoRotation
<1>3. SyncedIsAdvertised /\ CallIsNeeded /\ CallIsCurrent /\ CallHasWritten /\ KeyLeft
  BY DEF Init, SyncedIsAdvertised, CallIsNeeded, CallIsCurrent, CallHasWritten, KeyLeft,
         NoCall, NoRotation
<1> QED BY <1>2, <1>3 DEF Inv

(* Counting a fault, of a request or of a statement.                       *)
LEMMA FaultType ==
  ASSUME Inv, Fault \/ UNCHANGED faults
  PROVE  faults' \in 0..MaxFaults
BY HttpsAssumption DEF Fault, Inv, HttpsTypeOK

LEMMA RequestType ==
  ASSUME Inv, NEW o, Request(o)
  PROVE  faults' \in 0..MaxFaults
BY FaultType DEF Request

(* A step of the call that writes nothing but records, the first request   *)
(* of a client, the next one or the return.                                *)
LEMMA CallInv ==
  ASSUME Inv, call # NoCall, call.step # "time",
         UNCHANGED others, hidden' \in BOOLEAN, faults' \in 0..MaxFaults,
         records' \subseteq Versions,
         call'.version = call.version, call'.at = call.at,
         \/ call'.step \in {"put", "post", "add"}
         \/ /\ call'.step = "mark" /\ call'.ok \in BOOLEAN
            /\ call'.ok => call.version \in records'
  PROVE  Inv'
<1>1. domain' = domain /\ lastRot' = lastRot /\ key' = key /\ overtaken' = overtaken
      /\ clock' = clock /\ rotation' = rotation /\ provider' = provider
  BY DEF others
<1>2. HttpsTypeOK'
  BY <1>1 DEF Inv, HttpsTypeOK
<1>3. SyncedIsAdvertised'
  BY <1>1 DEF Inv, HttpsTypeOK, SyncedIsAdvertised, CallIsNeeded, Times
<1>4. CallIsNeeded' /\ CallIsCurrent'
  BY <1>1 DEF Inv, CallIsNeeded, CallIsCurrent
<1>5. CallHasWritten' /\ KeyLeft'
  BY <1>1 DEF Inv, CallHasWritten, KeyLeft
<1> QED BY <1>2, <1>3, <1>4, <1>5 DEF Inv

(* A call that returns: with an error, or having put its version in the    *)
(* records.                                                                *)
LEMMA ReturnInv ==
  ASSUME Inv, call # NoCall, call.step # "time", NEW ok \in BOOLEAN, Returned(ok),
         UNCHANGED others, hidden' \in BOOLEAN, faults' \in 0..MaxFaults,
         records' \subseteq Versions, ok => call.version \in records'
  PROVE  Inv'
BY CallInv DEF Returned

(* The row after a reset, whose error may have been ignored.               *)
LEMMA ResetRow ==
  ASSUME Inv, NEW row, row \in [status : {"PENDING", "FAILED", "SYNCED"}, at : Times \cup {0}],
         Reset(row)
  PROVE  /\ domain' \in [status : {"PENDING", "FAILED", "SYNCED"}, at : Times \cup {0}]
         /\ domain' = row \/ domain' = domain
         /\ faults' \in 0..MaxFaults
BY FaultType DEF Reset, Inv, HttpsTypeOK

LEMMA TickInv ==
  ASSUME Inv, Tick
  PROVE  Inv'
<1>1. clock' \in Times /\ clock < clock'
  BY HttpsAssumption DEF Tick, Inv, HttpsTypeOK, Times
<1> QED
  BY <1>1 DEF Tick, Inv, HttpsTypeOK, SyncedIsAdvertised, CallIsNeeded, CallIsCurrent,
              CallHasWritten, KeyLeft, Times

LEMMA NoteInv ==
  ASSUME Inv, NoteRotation
  PROVE  Inv'
<1>1. rotation'.step = "increment" /\ rotation'.at = clock /\ clock \in Times
      /\ lastRot <= clock /\ clock <= clock
  BY HttpsAssumption DEF NoteRotation, Inv, HttpsTypeOK, CallIsNeeded, Times
<1> QED
  BY <1>1 DEF NoteRotation, Inv, HttpsTypeOK, SyncedIsAdvertised, CallIsNeeded,
              CallIsCurrent, CallHasWritten, KeyLeft, NoRotation

LEMMA IncrementInv ==
  ASSUME Inv, IncrementClusterVersion
  PROVE  Inv'
<1> DEFINE row == [domain EXCEPT !.status = "PENDING"]
<1>1. row \in [status : {"PENDING", "FAILED", "SYNCED"}, at : Times \cup {0}]
      /\ row.status = "PENDING"
  BY DEF Inv, HttpsTypeOK
<1>2. /\ domain' \in [status : {"PENDING", "FAILED", "SYNCED"}, at : Times \cup {0}]
      /\ domain'.status = "PENDING" \/ domain' = domain
      /\ faults' \in 0..MaxFaults
  BY <1>1, ResetRow DEF IncrementClusterVersion
<1>3. /\ rotation'.step = "save" /\ rotation'.at \in Times \cup {0}
      /\ lastRot' = rotation.at /\ lastRot <= rotation.at
      /\ rotation.at \in Times \cup {0} /\ lastRot \in Times
      /\ domain.at \in Times \cup {0}
      /\ UNCHANGED <<provider, records, key, call, clock, hidden, overtaken>>
  <2>1. rotation' = [rotation EXCEPT !.step = "save"]
    BY DEF IncrementClusterVersion
  <2> QED BY <2>1 DEF IncrementClusterVersion, Inv, HttpsTypeOK, CallIsNeeded
<1>4. lastRot' \in Times /\ lastRot <= lastRot'
  BY <1>3 DEF Times
<1> QED
  <2>1. HttpsTypeOK'
    BY <1>2, <1>3, <1>4 DEF Inv, HttpsTypeOK
  <2>2. SyncedIsAdvertised'
    BY <1>2, <1>3, <1>4 DEF Inv, SyncedIsAdvertised, Times
  <2>3. CallIsNeeded'
    <3>1. lastRot' <= clock'
      BY <1>3 DEF Inv, CallIsNeeded, IncrementClusterVersion
    <3>2. call' # NoCall => domain'.status # "SYNCED" \/ domain'.at < lastRot'
      BY <1>2, <1>3, <1>4 DEF Inv, CallIsNeeded, Times
    <3> QED BY <1>3, <3>1, <3>2 DEF CallIsNeeded
  <2>4. CallIsCurrent'
    <3>1. call # NoCall => call.at \in Times \cup {0}
      BY DEF Inv, HttpsTypeOK
    <3> QED BY <1>3, <1>4, <3>1 DEF Inv, CallIsCurrent, Times
  <2>5. KeyLeft'
    BY <1>3 DEF Inv, KeyLeft, IncrementClusterVersion, NoRotation
  <2> QED BY <2>1, <2>2, <2>3, <2>4, <2>5, <1>3 DEF Inv, CallHasWritten

LEMMA SaveInv ==
  ASSUME Inv, SaveNewECHKey
  PROVE  Inv'
<1> DEFINE row == [status |-> "PENDING", at |-> 0]
<1>1. row \in [status : {"PENDING", "FAILED", "SYNCED"}, at : Times \cup {0}]
  OBVIOUS
<1>2. /\ domain' \in [status : {"PENDING", "FAILED", "SYNCED"}, at : Times \cup {0}]
      /\ domain' = row \/ domain' = domain
      /\ faults' \in 0..MaxFaults
  BY <1>1, ResetRow DEF SaveNewECHKey
<1>3. /\ key' = key + 1 /\ rotation' = NoRotation /\ overtaken' = Overtaken
      /\ UNCHANGED <<provider, records, lastRot, call, clock, hidden>>
  BY DEF SaveNewECHKey
<1>4. key' \in Versions
  BY <1>3, HttpsAssumption DEF Inv, HttpsTypeOK, KeyLeft, SaveNewECHKey, NoRotation, Versions
<1>5. overtaken' \in BOOLEAN
  BY <1>3 DEF Overtaken
<1>6. HttpsTypeOK'
  BY <1>2, <1>3, <1>4, <1>5 DEF Inv, HttpsTypeOK, NoRotation
<1>7. SyncedIsAdvertised'
  BY <1>3 DEF SyncedIsAdvertised, Overtaken
<1>8. CallIsNeeded'
  BY <1>2, <1>3 DEF Inv, CallIsNeeded, NoRotation
<1>9. CallIsCurrent'
  <2>1. call # NoCall /\ ~Overtaken => call.at # 0 /\ call.at < lastRot
    BY DEF Inv, HttpsTypeOK, Overtaken, Times
  <2> QED BY <1>3, <2>1 DEF Inv, CallIsCurrent
<1> QED BY <1>3, <1>6, <1>7, <1>8, <1>9 DEF Inv, CallHasWritten, KeyLeft, NoRotation

LEMMA GivenUpInv ==
  ASSUME Inv, RotationFails \/ Crash
  PROVE  Inv'
<1>1. /\ rotation' = NoRotation /\ faults' \in 0..MaxFaults
      /\ call' = call \/ call' = NoCall
      /\ UNCHANGED <<provider, records, key, lastRot, domain, clock, hidden, overtaken>>
  BY FaultType DEF RotationFails, Crash
<1> QED
  BY <1>1 DEF Inv, HttpsTypeOK, SyncedIsAdvertised, CallIsNeeded, CallIsCurrent,
              CallHasWritten, KeyLeft, NoCall, NoRotation

LEMMA PublishInv ==
  ASSUME Inv, Publish
  PROVE  Inv'
<1>1. call' = [step |-> "time", version |-> key, at |-> 0] /\ overtaken' = FALSE
      /\ UNCHANGED <<provider, records, key, lastRot, rotation, domain, clock, faults, hidden>>
  BY DEF Publish
<1>2. domain.status # "SYNCED" \/ domain.at < lastRot
  BY DEF Publish, Stale, Inv, HttpsTypeOK, Times
<1>3. HttpsTypeOK'
  BY <1>1 DEF Inv, HttpsTypeOK
<1>4. SyncedIsAdvertised'
  BY <1>1, <1>2 DEF Inv, HttpsTypeOK, SyncedIsAdvertised, Times
<1> QED
  BY <1>1, <1>2, <1>3, <1>4 DEF Inv, CallIsNeeded, CallIsCurrent, CallHasWritten, KeyLeft

LEMMA ReadTimeInv ==
  ASSUME Inv, ReadTime
  PROVE  Inv'
<1>1. First \in {"find", "put", "delete", "hook"}
  BY DEF Inv, HttpsTypeOK, Providers, First
<1>2. /\ call # NoCall /\ call.at = 0
      /\ call'.step = First /\ call'.version = call.version /\ call'.at = clock
      /\ UNCHANGED <<provider, records, key, lastRot, rotation, domain, clock, faults,
                     hidden, overtaken>>
  BY DEF ReadTime, Inv, CallIsCurrent, NoCall
<1>3. HttpsTypeOK'
  BY <1>1, <1>2 DEF Inv, HttpsTypeOK, NoCall
<1> QED
  BY <1>1, <1>2, <1>3 DEF Inv, SyncedIsAdvertised, CallIsNeeded, CallIsCurrent,
                    CallHasWritten, KeyLeft

LEMMA MarkInv ==
  ASSUME Inv, Mark
  PROVE  Inv'
<1> DEFINE row == [status |-> IF call.ok THEN "SYNCED" ELSE "FAILED", at |-> call.at]
<1>1. call # NoCall /\ call.at \in Times \cup {0} /\ call.ok \in BOOLEAN
      /\ (call.ok => call.version \in records)
  BY DEF Mark, NoCall, Inv, HttpsTypeOK, CallHasWritten
<1>2. row \in [status : {"PENDING", "FAILED", "SYNCED"}, at : Times \cup {0}]
  BY <1>1
<1>3. /\ domain' \in [status : {"PENDING", "FAILED", "SYNCED"}, at : Times \cup {0}]
      /\ domain' = row \/ domain' = domain
      /\ faults' \in 0..MaxFaults
  BY <1>2, ResetRow DEF Mark
<1>4. call' = NoCall
      /\ UNCHANGED <<provider, records, key, lastRot, rotation, clock, hidden, overtaken>>
  BY DEF Mark
<1>5. HttpsTypeOK'
  BY <1>3, <1>4 DEF Inv, HttpsTypeOK
<1>6. SyncedIsAdvertised'
  <2> SUFFICES ASSUME domain'.status = "SYNCED", domain'.at >= lastRot, ~overtaken
               PROVE  key \in records
    BY <1>4 DEF SyncedIsAdvertised
  <2>1. CASE domain' = domain
    BY <2>1 DEF Inv, SyncedIsAdvertised
  <2>2. CASE domain' = row
    <3>1. call.ok /\ call.at >= lastRot
      BY <2>2, <1>1
    <3>2. call.version = key
      BY <1>1, <3>1 DEF Inv, HttpsTypeOK, CallIsCurrent, Times
    <3> QED BY <1>1, <3>1, <3>2
  <2> QED BY <1>3, <2>1, <2>2
<1> QED
  BY <1>4, <1>5, <1>6 DEF Inv, CallIsNeeded, CallIsCurrent, CallHasWritten, KeyLeft, NoCall

(* A request that puts the version of the call into the records, or not.   *)
LEMMA WriteInv ==
  ASSUME Inv, call # NoCall, NEW o \in Outcomes(provider), Request(o),
         NEW S, S \subseteq Versions, call.version \in S,
         records' = IF Applied(o) THEN S ELSE records,
         NEW ok \in BOOLEAN, ok => o = "done", Returned(ok), call.step # "time",
         UNCHANGED <<others, hidden>>
  PROVE  Inv'
<1>1. records' \subseteq Versions /\ (ok => call.version \in records') /\ hidden' \in BOOLEAN
  BY DEF Applied, Inv, HttpsTypeOK
<1> QED BY <1>1, RequestType, ReturnInv

(* Only Technitium answers 2xx to what it did not do.                      *)
LEMMA StatusMeansDone ==
  ASSUME provider # "TECHNITIUM", NEW o \in Outcomes(provider), Status2xx(o)
  PROVE  o = "done"
BY DEF Outcomes, Status2xx

LEMMA FindRecordInv ==
  ASSUME Inv, FindRecord
  PROVE  Inv'
<1>1. call # NoCall /\ records' \subseteq Versions
  BY DEF FindRecord, NoCall, Inv, HttpsTypeOK
<1>2. CASE \E o \in {"lost", "unanswered"} : Failed(o) /\ UNCHANGED hidden
  BY <1>1, <1>2, RequestType, ReturnInv DEF Failed, FindRecord, Inv, HttpsTypeOK
<1>3. CASE /\ Request("done")
           /\ \/ records = {} /\ call' = Sent("post")
              \/ \E r \in records :
                   call' = [step |-> "put", version |-> call.version, at |-> call.at, id |-> r]
           /\ UNCHANGED hidden
  BY <1>1, <1>3, RequestType, CallInv DEF Sent, FindRecord, Inv, HttpsTypeOK
<1>4. CASE /\ Request("refused") /\ call' = Sent("post")
           /\ hidden' = (hidden \/ records # {})
  <2>1. hidden' \in BOOLEAN
    BY <1>4 DEF Inv, HttpsTypeOK
  <2> QED
    BY <1>1, <1>4, <2>1, RequestType, CallInv DEF Sent, FindRecord
<1> QED BY <1>2, <1>3, <1>4 DEF FindRecord

(* The requests of each client that write the record.                      *)
LEMMA WritesInv ==
  ASSUME Inv, \/ PutRecord \/ PostRecord \/ PostRRSet \/ AddHttps \/ RunHook
  PROVE  Inv'
<1>1. call # NoCall /\ call.version \in Versions /\ records \subseteq Versions
  BY DEF PutRecord, PostRecord, PostRRSet, AddHttps, RunHook, NoCall, Inv, HttpsTypeOK
<1>2. CASE PutRecord
  <2>1. PICK o \in Outcomes(provider) :
          /\ Request(o) /\ Returned(Status2xx(o))
          /\ records' = IF Applied(o) THEN Replaced(call.id, call.version) ELSE records
    BY <1>2 DEF PutRecord
  <2>2. Replaced(call.id, call.version) \subseteq Versions
        /\ call.version \in Replaced(call.id, call.version)
    BY <1>1 DEF Replaced
  <2>3. Status2xx(o) \in BOOLEAN /\ (Status2xx(o) => o = "done")
    BY <1>2, StatusMeansDone DEF PutRecord, Status2xx
  <2> QED BY <1>1, <1>2, <2>1, <2>2, <2>3, WriteInv DEF PutRecord
<1>3. CASE PostRecord
  <2>1. PICK o \in Outcomes(provider) :
          /\ Request(o) /\ Returned(Status2xx(o))
          /\ records' = IF Applied(o) THEN records \cup {call.version} ELSE records
    BY <1>3 DEF PostRecord
  <2>2. Status2xx(o) \in BOOLEAN /\ (Status2xx(o) => o = "done")
    BY <1>3, StatusMeansDone DEF PostRecord, Status2xx
  <2>3. records \cup {call.version} \subseteq Versions
        /\ call.version \in records \cup {call.version}
    BY <1>1
  <2> QED BY <1>1, <1>3, <2>1, <2>2, <2>3, WriteInv DEF PostRecord
<1>4. CASE PostRRSet \/ RunHook
  <2>1. PICK o \in Outcomes(provider) :
          /\ Request(o) /\ Returned(Status2xx(o))
          /\ records' = IF Applied(o) THEN {call.version} ELSE records
    BY <1>4 DEF PostRRSet, RunHook
  <2>2. Status2xx(o) \in BOOLEAN /\ (Status2xx(o) => o = "done")
    BY <1>4, StatusMeansDone DEF PostRRSet, RunHook, Status2xx
  <2>3. {call.version} \subseteq Versions /\ call.version \in {call.version}
    BY <1>1
  <2> QED BY <1>1, <1>4, <2>1, <2>2, <2>3, WriteInv DEF PostRRSet, RunHook
<1>5. CASE AddHttps
  <2>1. PICK o \in Outcomes(provider) :
          /\ Request(o) /\ Returned(o = "done")
          /\ records' = IF Applied(o) THEN {call.version} ELSE records
    BY <1>5 DEF AddHttps
  <2>2. {call.version} \subseteq Versions /\ call.version \in {call.version}
        /\ (o = "done") \in BOOLEAN
    BY <1>1
  <2> QED BY <1>1, <1>5, <2>1, <2>2, WriteInv DEF AddHttps
<1> QED BY <1>2, <1>3, <1>4, <1>5

LEMMA PutRRSetInv ==
  ASSUME Inv, PutRRSet
  PROVE  Inv'
<1>1. call # NoCall /\ call.version \in Versions /\ records \subseteq Versions
  BY DEF PutRRSet, NoCall, Inv, HttpsTypeOK
<1>2. CASE \E o \in Outcomes(provider) :
             /\ Request(o)
             /\ records' = IF Applied(o) THEN {call.version} ELSE records
             /\ Returned(Status2xx(o))
  <2>1. PICK o \in Outcomes(provider) :
          /\ Request(o) /\ Returned(Status2xx(o))
          /\ records' = IF Applied(o) THEN {call.version} ELSE records
    BY <1>2
  <2>2. Status2xx(o) \in BOOLEAN /\ (Status2xx(o) => o = "done")
    BY StatusMeansDone DEF PutRRSet, Status2xx
  <2>3. {call.version} \subseteq Versions /\ call.version \in {call.version}
    BY <1>1
  <2> QED BY <1>1, <2>1, <2>2, <2>3, WriteInv DEF PutRRSet
<1>3. CASE /\ records = {} /\ call' = Sent("post")
           /\ UNCHANGED <<records, faults>>
  BY <1>1, <1>3, CallInv DEF PutRRSet, Sent, Inv, HttpsTypeOK
<1> QED BY <1>2, <1>3 DEF PutRRSet

LEMMA DeleteRecordsInv ==
  ASSUME Inv, DeleteRecords
  PROVE  Inv'
<1>1. call # NoCall /\ records' \subseteq Versions /\ faults' \in 0..MaxFaults
  BY RequestType DEF DeleteRecords, NoCall, Inv, HttpsTypeOK
<1>2. call'.step = "add" /\ call'.version = call.version /\ call'.at = call.at
      /\ hidden' \in BOOLEAN /\ call.step # "time"
  BY DEF DeleteRecords, Sent, Inv, HttpsTypeOK
<1> QED BY <1>1, <1>2, CallInv DEF DeleteRecords

(* Every step keeps the inductive invariant.                               *)
THEOREM InvPreserved == Inv /\ [Next]_vars => Inv'
<1> SUFFICES ASSUME Inv, [Next]_vars PROVE Inv'
  OBVIOUS
<1>1. CASE Tick \/ Rotate \/ Crash
  BY <1>1, TickInv, NoteInv, IncrementInv, SaveInv, GivenUpInv DEF Rotate
<1>2. CASE Publication
  BY <1>2, PublishInv, ReadTimeInv, MarkInv, FindRecordInv, WritesInv, PutRRSetInv,
     DeleteRecordsInv
     DEF Publication, UpdateHTTPSRecord
<1>3. CASE UNCHANGED vars
  BY <1>3 DEF vars, Inv, HttpsTypeOK, SyncedIsAdvertised, CallIsNeeded, CallIsCurrent,
              CallHasWritten, KeyLeft
<1> QED BY <1>1, <1>2, <1>3 DEF Next

LEMMA Invariance == Spec => []Inv
BY InitInv, InvPreserved, PTL DEF Spec

(* The records, the row and the call keep their types.                     *)
THEOREM HttpsTyped == Spec => []HttpsTypeOK
<1>1. Inv => HttpsTypeOK BY DEF Inv
<1> QED BY <1>1, Invariance, PTL

(* The coordinator never passes over a domain whose active key is not in   *)
(* its HTTPS records, but for one that was overtaken within the resolution *)
(* of the times.                                                           *)
THEOREM SyncedAdvertised == Spec => []SyncedIsAdvertised
<1>1. Inv => SyncedIsAdvertised BY DEF Inv
<1> QED BY <1>1, Invariance, PTL

(* Only Technitium's delete takes a name off the air while it is published.*)
THEOREM KeptOnAir == Spec => KeptAdvertised
<1>1. [Next]_vars =>
        [records # {} => records' # {} \/ (provider = "TECHNITIUM" /\ call.step = "delete")]_vars
  <2> SUFFICES ASSUME Next, records # {}, records' = {}
               PROVE  provider = "TECHNITIUM" /\ call.step = "delete"
    OBVIOUS
  <2>1. ~(Tick \/ Rotate \/ Crash)
    BY DEF Tick, Rotate, NoteRotation, IncrementClusterVersion, SaveNewECHKey, RotationFails, Crash
  <2>2. ~(Publish \/ ReadTime \/ Mark \/ FindRecord)
    BY DEF Publish, ReadTime, Mark, FindRecord
  <2>3. ~(PutRecord \/ PostRecord)
    BY DEF PutRecord, PostRecord, Replaced
  <2>4. ~(PutRRSet \/ PostRRSet \/ AddHttps \/ RunHook)
    BY DEF PutRRSet, PostRRSet, AddHttps, RunHook
  <2>5. DeleteRecords
    BY <2>1, <2>2, <2>3, <2>4 DEF Next, Publication, UpdateHTTPSRecord
  <2> QED BY <2>5 DEF DeleteRecords
<1> QED BY <1>1, PTL DEF Spec, KeptAdvertised
=============================================================================
