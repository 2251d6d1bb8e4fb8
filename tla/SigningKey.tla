----------------------------- MODULE SigningKey -----------------------------
(***************************************************************************)
(* The server's Ed25519 signing pair: two rows of system_settings, created *)
(* on first use (db/sqlite/settings.go, GetOrCreateServerSigningKey).  The *)
(* admin API gives the public key to nodes, which from then on refuse what *)
(* another key signed; the pull service signs every answer with the        *)
(* private key (transport/service.go).  All of them may be the first, at   *)
(* the same time, on the connections of one pool.                          *)
(***************************************************************************)
EXTENDS Naturals

CONSTANTS Callers,     \* requests that need the pair
          MaxKeys,     \* pairs generated
          MaxFaults    \* reads and transactions that fail

ASSUME SigningAssumption == {MaxKeys, MaxFaults} \subseteq Nat

Pairs == 1..MaxKeys   \* each generated pair, by number
None  == 0            \* no row, or ""

VARIABLES stored,     \* the rows: [pub, priv]
          caller,     \* the calls in progress
          generated,  \* engine.GenerateSigningKeyPair calls so far
          given,      \* history: what was returned after reading it
          unread,     \* history: what was returned though a read failed
          faults

keyVars == <<stored, caller, generated, given, unread, faults>>

(* A call: what it read last of the public key, and the pair it made.      *)
NotCalling == [step |-> "none", pub |-> None, own |-> None]

KeyInit ==
  /\ stored = [pub |-> None, priv |-> None]
  /\ caller = [c \in Callers |-> NotCalling]
  /\ generated = 0 /\ given = {} /\ unread = {} /\ faults = 0

AtStep(c, step) == caller[c].step = step

Fault == faults < MaxFaults /\ faults' = faults + 1

(* The call goes on; the call ends, with an error or with a pair.          *)
Proceed(c, step, pub, own) ==
  caller' = [caller EXCEPT ![c] = [step |-> step, pub |-> pub, own |-> own]]

Fail(c) ==
  Fault /\ caller' = [caller EXCEPT ![c] = NotCalling]
  /\ UNCHANGED <<stored, generated, given, unread>>

Return(c, pub, priv) ==
  /\ given' = given \cup {[pub |-> pub, priv |-> priv]}
  /\ caller' = [caller EXCEPT ![c] = NotCalling]

(* The two reads; a row that is absent makes the call create the pair.     *)
ReadPub(c) ==
  /\ AtStep(c, "none")
  /\ \/ Proceed(c, "readPriv", stored.pub, None)
        /\ UNCHANGED <<stored, generated, given, unread, faults>>
     \/ Fail(c)

ReadPriv(c) ==
  /\ AtStep(c, "readPriv")
  /\ \/ /\ caller[c].pub # None /\ stored.priv # None
        /\ Return(c, caller[c].pub, stored.priv)
        /\ UNCHANGED <<stored, generated, unread, faults>>
     \/ /\ caller[c].pub = None \/ stored.priv = None
        /\ Proceed(c, "generate", None, None)
        /\ UNCHANGED <<stored, generated, given, unread, faults>>
     \/ Fail(c)

Generate(c) ==
  /\ AtStep(c, "generate") /\ generated < MaxKeys
  /\ generated' = generated + 1
  /\ Proceed(c, "insert", None, generated + 1)
  /\ UNCHANGED <<stored, given, unread, faults>>

(* One row of the transaction: INSERT ... ON CONFLICT(key) DO NOTHING.     *)
(* Mutated form: ... DO UPDATE.                                            *)
Inserted_Update(row, value) == value

Inserted(row, value) == IF row = None THEN value ELSE row

(* The transaction is BEGIN IMMEDIATE: its two inserts are one step.       *)
InsertPair(c) ==
  /\ AtStep(c, "insert")
  /\ \/ /\ stored' = [pub  |-> Inserted(stored.pub, caller[c].own),
                      priv |-> Inserted(stored.priv, caller[c].own)]
        /\ Proceed(c, "rereadPub", None, caller[c].own)
        /\ UNCHANGED <<generated, given, unread, faults>>
     \/ Fail(c)

(* Re-read in case another request created the pair; the errors of the two *)
(* reads are dropped.                                                      *)
RereadPub(c) ==
  /\ AtStep(c, "rereadPub")
  /\ \/ Proceed(c, "rereadPriv", stored.pub, caller[c].own) /\ UNCHANGED faults
     \/ Proceed(c, "rereadPriv", None, caller[c].own) /\ Fault
  /\ UNCHANGED <<stored, generated, given, unread>>

(* Mutated form: the pair is not read again.                               *)
RereadPriv_Own(c) ==
  /\ AtStep(c, "rereadPriv")
  /\ Return(c, caller[c].own, caller[c].own)
  /\ UNCHANGED <<stored, generated, unread, faults>>

RereadPriv(c) ==
  /\ AtStep(c, "rereadPriv")
  /\ UNCHANGED <<stored, generated>>
  /\ \/ /\ caller[c].pub # None /\ stored.priv # None
        /\ Return(c, caller[c].pub, stored.priv)
        /\ UNCHANGED <<unread, faults>>
     \/ /\ (caller[c].pub = None /\ UNCHANGED faults) \/ Fault
        /\ unread' = unread \cup {[pub |-> caller[c].own, priv |-> caller[c].own]}
        /\ caller' = [caller EXCEPT ![c] = NotCalling]
        /\ UNCHANGED given

KeyNext ==
  \E c \in Callers :
     \/ ReadPub(c) \/ ReadPriv(c) \/ Generate(c)
     \/ InsertPair(c) \/ RereadPub(c) \/ RereadPriv(c)

KeySpec == KeyInit /\ [][KeyNext]_keyVars
-----------------------------------------------------------------------------
Rows == [pub : Pairs \cup {None}, priv : Pairs \cup {None}]

(* The rows, the calls and what was returned hold values of their types.   *)
SigningTypeOK ==
  /\ stored \in Rows
  /\ caller \in [Callers ->
       [step : {"none", "readPriv", "generate", "insert", "rereadPub", "rereadPriv"},
        pub : Pairs \cup {None}, own : Pairs \cup {None}]]
  /\ generated \in Pairs \cup {None}
  /\ given \subseteq Rows /\ unread \subseteq Rows
  /\ faults \in 0..MaxFaults

(* Whoever was given a pair that was read was given the stored pair, of    *)
(* one generation: a key given to a node verifies what the server signs,   *)
(* however many first requests raced, and in whatever order they read the  *)
(* rows and lost the insert.                                               *)
OneServerKey ==
  \A g \in given : g = stored /\ g.pub = g.priv /\ g.pub # None

(* A stored pair is never replaced: the nodes have pinned it.              *)
KeyNeverReplaced ==
  [][stored.pub # None => stored' = stored]_keyVars

(* What the re-read is for: every caller, also the one that lost the race, *)
(* returns the stored pair.                                                *)
EveryCallerAgrees == \A g \in given \cup unread : g = stored
=============================================================================
