-------------------------- MODULE AdminStoreProofs --------------------------
(***************************************************************************)
(* What the server keeps for its administrators and for its nodes, each    *)
(* written by requests that race: the sessions (Console) and the signing   *)
(* pair (SigningKey).  For any users, sessions, requests, lifetimes, pairs *)
(* and faults, a session that has been ended stays so and nobody loses one *)
(* otherwise; one pair is handed out and never replaced.                   *)
(***************************************************************************)
EXTENDS Console, SigningKey, TLAPS

(***************************************************************************)
(* Sessions                                                                *)
(*                                                                         *)
(* Inductive together: an ended session has no row, a row is of an id that *)
(* has been given out (so that none is given out again), and a request     *)
(* that has read a user or a session holds what was in its row.            *)
(***************************************************************************)

Row == [user : users, expires : Expiries, active : 0..now]

RowsTyped == sessions \in [Sessions -> {NoSession} \cup Row]

Request ==
  {Idle} \cup [step : {"create"}, name : Names]
         \cup [step : {"login"}, user : users, expires : Expiries]
         \cup [step : {"handler"}, user : users]

RequestsTyped == worker \in [Workers -> Request]

ConsoleInv == ConsoleTypeOK /\ SignedOutStaysOut /\ RowsTyped /\ RequestsTyped

(* A row is not NoSession: it has more columns.                            *)
LEMMA RowIsSession == \A r \in Row : r # NoSession
<1> SUFFICES ASSUME NEW r \in Row, r = NoSession PROVE FALSE
  OBVIOUS
<1>1. DOMAIN r = {"user", "expires", "active"} /\ DOMAIN r = {"user"}
  BY DEF Row, NoSession
<1> QED BY <1>1

(* The step of a request tells its fields.                                 *)
LEMMA RequestFields ==
  ASSUME RequestsTyped, NEW w \in Workers
  PROVE  /\ At(w, "create") => worker[w].name \in Names
         /\ At(w, "login") => worker[w].user \in users /\ worker[w].expires \in Expiries
         /\ worker[w].step \in {"idle", "create", "login", "handler"}
<1>1. worker[w] \in Request
  BY DEF RequestsTyped
<1> QED BY <1>1 DEF Request, Idle, At

LEMMA InitConsoleInv == Init => ConsoleInv
BY ConsoleAssumption
   DEF Init, ConsoleInv, ConsoleTypeOK, SignedOutStaysOut, RowsTyped, RequestsTyped, Request, Idle, Exists

(* The invariant after a step, from the tables and the requests.           *)
LEMMA InvAfter ==
  ASSUME RowsTyped', RequestsTyped',
         now' \in 0..MaxTime, users' \subseteq Names,
         created' \subseteq Sessions, ended' \subseteq created',
         \A s \in Sessions : sessions'[s] # NoSession => s \in created' \ ended',
         \A j \in jobs' : j.kind = "touch" => j.session \in created'
  PROVE  ConsoleInv'
<1>1. ASSUME NEW s \in Sessions, sessions'[s] # NoSession
      PROVE  /\ sessions'[s].user \in users' /\ sessions'[s].expires \in Expiries
             /\ sessions'[s].active \in 0..now'
  BY <1>1 DEF RowsTyped, Row, Expiries
<1>2. ASSUME NEW w \in Workers
      PROVE  worker'[w].step \in {"idle", "create", "login", "handler"}
  <2>1. worker'[w] \in Request'
    BY DEF RequestsTyped
  <2> QED BY <2>1 DEF Request, Idle
<1>3. ConsoleTypeOK'
  BY <1>1, <1>2 DEF ConsoleTypeOK, Exists, Expiries
<1>4. SignedOutStaysOut'
  BY DEF SignedOutStaysOut, Exists
<1> QED BY <1>3, <1>4 DEF ConsoleInv

(* What the invariant says of the tables before the step.                  *)
LEMMA Tables ==
  ASSUME ConsoleInv
  PROVE  /\ now \in 0..MaxTime /\ users \subseteq Names
         /\ created \subseteq Sessions /\ ended \subseteq created
         /\ \A s \in Sessions : /\ sessions[s] # NoSession => s \in created \ ended
                                /\ sessions[s] \in {NoSession} \cup Row
         /\ \A j \in jobs : j.kind = "touch" => j.session \in created
BY DEF ConsoleInv, ConsoleTypeOK, SignedOutStaysOut, RowsTyped, Exists

(* A request goes on and leaves the sessions alone; a user may be new.     *)
LEMMA RequestInv ==
  ASSUME ConsoleInv, NEW w \in Workers,
         NEW r, worker' = [worker EXCEPT ![w] = r], r \in Request',
         UNCHANGED <<now, sessions, created, ended>>,
         users \subseteq users', users' \subseteq Names,
         \A j \in jobs' : j.kind = "touch" => j.session \in created
  PROVE  ConsoleInv'
<1>1. Row \subseteq Row' /\ Request \subseteq Request'
  BY DEF Row, Request, Expiries
<1>2. RowsTyped' /\ RequestsTyped'
  BY <1>1 DEF ConsoleInv, RowsTyped, RequestsTyped, NoSession
<1> QED BY <1>2, InvAfter, Tables

(* Rows are deleted or touched, and no request changes but one that ends.  *)
LEMMA RowsInv ==
  ASSUME ConsoleInv,
         UNCHANGED <<now, users, created>>, worker' = worker \/ \E w \in Workers : Done(w),
         jobs' \subseteq jobs,
         sessions' \in [Sessions -> {NoSession} \cup Row],
         ended \subseteq ended', ended' \subseteq created,
         \A s \in Sessions : sessions'[s] # NoSession => sessions[s] # NoSession /\ s \notin ended' \ ended
  PROVE  ConsoleInv'
<1>1. Row' = Row /\ Request' = Request
  BY DEF Row, Request, Expiries
<1>2. RowsTyped' /\ RequestsTyped'
  BY <1>1 DEF ConsoleInv, RowsTyped, RequestsTyped, NoSession, Done, Goto, Request
<1> QED BY <1>2, InvAfter, Tables

LEMMA ServeInv ==
  ASSUME ConsoleInv, NEW w \in Workers, Serve(w)
  PROVE  ConsoleInv'
<1> USE DEF Goto
<1>1. ASSUME NEW n \in Names, CheckNoUser(w, n, TRUE) \/ CheckNoUser(w, n, FALSE) \/ UserAdd(w, n)
      PROVE  ConsoleInv'
  <2>1. [step |-> "create", name |-> n] \in Request'
    BY DEF Request
  <2> QED BY <1>1, <2>1, RequestInv, Tables DEF CheckNoUser, UserAdd
<1>2. ASSUME NEW n \in Names, NEW d \in Lifetimes, Login(w, n, d) PROVE ConsoleInv'
  <2>1. now + d \in Expiries
    BY Tables DEF Expiries
  <2>2. [step |-> "login", user |-> n, expires |-> now + d] \in Request'
    BY <1>2, <2>1 DEF Request, Login, Expiries
  <2> QED BY <1>2, <2>2, RequestInv, Tables DEF Login
<1>3. ASSUME CreateUser(w) PROVE ConsoleInv'
  <2>1. worker[w].name \in Names /\ Idle \in Request'
    BY <1>3, RequestFields DEF CreateUser, ConsoleInv, Request
  <2> QED BY <1>3, <2>1, RequestInv, Tables DEF CreateUser, Done
<1>4. ASSUME ListActiveSessions(w) \/ EndRequest(w) PROVE ConsoleInv'
  <2>1. Idle \in Request' /\ [kind |-> "cleanup"].kind # "touch"
    BY DEF Request
  <2> QED BY <1>4, <2>1, RequestInv, Tables DEF ListActiveSessions, EndRequest, Done
<1>5. ASSUME NEW s \in Sessions, RequireAuth(w, s) PROVE ConsoleInv'
  <2>1. sessions[s] \in Row /\ s \in created
    BY <1>5, Tables DEF RequireAuth, Exists
  <2>2. [step |-> "handler", user |-> sessions[s].user] \in Request'
    BY <1>5, <2>1 DEF Request, Row, RequireAuth
  <2>3. \A j \in jobs' : j \in jobs \/ j.session = s
    BY <1>5 DEF RequireAuth
  <2> QED BY <1>5, <2>1, <2>2, <2>3, RequestInv, Tables DEF RequireAuth
<1>6. ASSUME NEW s \in Sessions, RevokeSession(w, s) PROVE ConsoleInv'
  <2>1. sessions' \in [Sessions -> {NoSession} \cup Row]
    BY <1>6 DEF RevokeSession, ConsoleInv, RowsTyped
  <2>2. s \in created
    BY <1>6, Tables DEF RevokeSession, Exists
  <2>3. sessions' = [sessions EXCEPT ![s] = NoSession] /\ ended' = ended \cup {s}
    BY <1>6 DEF RevokeSession
  <2>4. \A t \in Sessions : sessions'[t] # NoSession => sessions[t] # NoSession /\ t # s
    BY <2>3 DEF ConsoleInv, RowsTyped
  <2> QED BY <1>6, <2>1, <2>2, <2>3, <2>4, RowsInv, Tables DEF RevokeSession
<1>7. ASSUME NEW s \in Sessions, CreateSession(w, s) PROVE ConsoleInv'
  <2> DEFINE row == [user |-> worker[w].user, expires |-> worker[w].expires, active |-> now]
  <2>1. row \in Row
    BY <1>7, RequestFields, Tables DEF CreateSession, ConsoleInv, Row
  <2>2. /\ created' = created \cup {s} /\ s \notin created
        /\ sessions' = [sessions EXCEPT ![s] = row]
        /\ jobs' = jobs \cup {[kind |-> "cleanup"]}
        /\ worker' = [worker EXCEPT ![w] = Idle]
        /\ UNCHANGED <<now, users, ended>>
    BY <1>7 DEF CreateSession, Done
  <2> HIDE DEF row
  <2>3. Row' = Row /\ Request' = Request
    BY <2>2 DEF Row, Request, Expiries
  <2>4. RowsTyped' /\ RequestsTyped'
    BY <2>1, <2>2, <2>3 DEF ConsoleInv, RowsTyped, RequestsTyped, NoSession, Request
  <2>5. \A t \in Sessions : sessions'[t] # NoSession => t = s \/ sessions[t] # NoSession
    BY <2>2 DEF ConsoleInv, RowsTyped
  <2>6. \A j \in jobs' : j \in jobs \/ j.kind # "touch"
    BY <2>2
  <2> QED BY <2>2, <2>4, <2>5, <2>6, InvAfter, Tables
<1> QED BY <1>1, <1>2, <1>3, <1>4, <1>5, <1>6, <1>7 DEF Serve

(* What runs beside the requests.                                          *)
LEMMA JobsInv ==
  ASSUME ConsoleInv,
         \/ \E s \in Sessions : Logout(s) \/ TouchSession(s)
         \/ CleanupJob \/ PeriodicCleanup
  PROVE  ConsoleInv'
<1>1. ASSUME NEW s \in Sessions, Logout(s) PROVE ConsoleInv'
  <2>1. sessions' \in [Sessions -> {NoSession} \cup Row]
    BY <1>1 DEF Logout, ConsoleInv, RowsTyped
  <2>2. \A t \in Sessions : sessions'[t] # NoSession => sessions[t] # NoSession /\ t # s
    BY <1>1 DEF Logout, ConsoleInv, RowsTyped
  <2> QED BY <1>1, <2>1, <2>2, RowsInv, Tables DEF Logout
<1>2. ASSUME NEW s \in Sessions, TouchSession(s) PROVE ConsoleInv'
  <2>1. sessions[s] \in Row => Touched(s) \in Row
    BY Tables DEF Touched, Row, Exists
  <2>2. Touched(s) \in {NoSession} \cup Row /\ (sessions[s] = NoSession => Touched(s) = NoSession)
    BY <2>1, Tables DEF Touched, Exists
  <2>3. /\ sessions' \in [Sessions -> {NoSession} \cup Row]
        /\ \A t \in Sessions : sessions'[t] # NoSession => sessions[t] # NoSession
    BY <1>2, <2>2 DEF TouchSession, ConsoleInv, RowsTyped
  <2> QED BY <1>2, <2>3, RowsInv, Tables DEF TouchSession
<1>3. ASSUME CleanupJob \/ PeriodicCleanup PROVE ConsoleInv'
  <2>1. /\ sessions' \in [Sessions -> {NoSession} \cup Row]
        /\ \A t \in Sessions : sessions'[t] # NoSession => sessions[t] # NoSession
    BY <1>3 DEF CleanupJob, PeriodicCleanup, Cleaned, Expired, Exists, ConsoleInv, RowsTyped
  <2> QED BY <1>3, <2>1, RowsInv, Tables DEF CleanupJob, PeriodicCleanup
<1> QED BY <1>1, <1>2, <1>3

LEMMA TickInv ==
  ASSUME ConsoleInv, Tick
  PROVE  ConsoleInv'
<1>1. now' \in 0..MaxTime /\ now <= now'
  BY Tables, ConsoleAssumption DEF Tick
<1>2. Row \subseteq Row' /\ Request' = Request
  <2>1. 0..now \subseteq 0..now' /\ users' = users
    BY <1>1, Tables, ConsoleAssumption DEF Tick
  <2> QED BY <2>1 DEF Row, Request, Expiries
<1>3. RowsTyped' /\ RequestsTyped'
  BY <1>2 DEF Tick, ConsoleInv, RowsTyped, RequestsTyped, NoSession
<1> QED BY <1>1, <1>3, InvAfter, Tables DEF Tick

LEMMA RestartInv ==
  ASSUME ConsoleInv, Restart
  PROVE  ConsoleInv'
<1>1. Row' = Row /\ Request' = Request
  BY DEF Restart, Row, Request, Expiries
<1>2. RowsTyped' /\ RequestsTyped'
  BY <1>1 DEF Restart, ConsoleInv, RowsTyped, RequestsTyped, NoSession, Request
<1> QED BY <1>2, InvAfter, Tables DEF Restart

LEMMA StutterInv ==
  ASSUME ConsoleInv, UNCHANGED vars
  PROVE  ConsoleInv'
<1>1. sessions \in [Sessions -> {NoSession} \cup Row]
  BY DEF ConsoleInv, RowsTyped
<1> QED BY <1>1, RowsInv, Tables DEF vars

(* The inductive invariant holds in every state.                           *)
THEOREM ConsoleInvariant == Spec => []ConsoleInv
<1>1. ConsoleInv /\ [Next]_vars => ConsoleInv'
  BY ServeInv, JobsInv, TickInv, RestartInv, StutterInv DEF Next
<1> QED BY <1>1, InitConsoleInv, PTL DEF Spec

(* The tables, the requests and what they left behind keep their types.    *)
THEOREM ConsoleTyped == Spec => []ConsoleTypeOK
<1>1. ConsoleInv => ConsoleTypeOK
  BY DEF ConsoleInv
<1> QED BY <1>1, ConsoleInvariant, PTL

(* A session that was logged out or revoked has no row again: the update   *)
(* of last_active by a goroutine that comes late does not bring it back,   *)
(* and its id is not given out a second time.                              *)
THEOREM EndedStaysEnded == Spec => []SignedOutStaysOut
<1>1. ConsoleInv => SignedOutStaysOut
  BY DEF ConsoleInv
<1> QED BY <1>1, ConsoleInvariant, PTL

(* A session ends by its expiry, its own logout, or a request of its       *)
(* owner, and by nothing else that runs beside it.                         *)
THEOREM NobodyElseEnds == Spec => SessionsKept
<1>1. ASSUME ConsoleInv, Next, NEW s \in Sessions, Exists(s), ~Exists(s)'
      PROVE  \/ Expired(s)
             \/ s \in ended' /\ worker' = worker
             \/ \E w \in Workers : /\ At(w, "handler") /\ worker'[w] = Idle
                                   /\ worker[w].user = sessions[s].user
  <2> USE DEF Exists
  <2>1. ASSUME NEW w \in Workers, Serve(w)
        PROVE  /\ At(w, "handler") /\ worker'[w] = Idle
               /\ worker[w].user = sessions[s].user
    <3>1. PICK t \in Sessions : CreateSession(w, t) \/ RevokeSession(w, t)
      BY <1>1, <2>1 DEF Serve, CheckNoUser, UserAdd, Login, CreateUser, ListActiveSessions,
                        EndRequest, RequireAuth
    <3>2. CASE CreateSession(w, t)
      <4>1. s # t
        BY <1>1, <3>2, Tables DEF CreateSession
      <4> QED BY <1>1, <3>2, <4>1 DEF CreateSession, ConsoleInv, RowsTyped
    <3>3. CASE RevokeSession(w, t)
      <4>1. s = t
        BY <1>1, <3>3 DEF RevokeSession, ConsoleInv, RowsTyped
      <4> QED BY <1>1, <3>3, <4>1 DEF RevokeSession, Done, Goto, ConsoleInv, RequestsTyped
    <3> QED BY <3>1, <3>2, <3>3
  <2>2. ASSUME NEW t \in Sessions, Logout(t) PROVE s \in ended' /\ worker' = worker
    BY <1>1, <2>2 DEF Logout, ConsoleInv, RowsTyped
  <2>3. ASSUME NEW t \in Sessions, TouchSession(t) PROVE FALSE
    <3>1. CASE s = t
      <4>1. sessions[s] \in Row
        BY <1>1, Tables
      <4>2. [sessions[s] EXCEPT !.active = now] \in Row
        <5>1. now \in 0..now
          BY <1>1, Tables, ConsoleAssumption
        <5> QED BY <4>1, <5>1 DEF Row
      <4>3. sessions'[s] = [sessions[s] EXCEPT !.active = now]
        BY <1>1, <2>3, <3>1 DEF TouchSession, Touched, ConsoleInv, RowsTyped
      <4> QED BY <1>1, <4>2, <4>3, RowIsSession
    <3>2. CASE s # t
      BY <1>1, <2>3, <3>2 DEF TouchSession, ConsoleInv, RowsTyped
    <3> QED BY <3>1, <3>2
  <2>4. ASSUME CleanupJob \/ PeriodicCleanup PROVE Expired(s)
    BY <1>1, <2>4 DEF CleanupJob, PeriodicCleanup, Cleaned, Expired
  <2> QED BY <1>1, <2>1, <2>2, <2>3, <2>4 DEF Next, Tick, Restart
<1>2. ConsoleInv /\ [Next]_vars =>
        [\A s \in Sessions : Exists(s) /\ ~Exists(s)' =>
           \/ Expired(s)
           \/ s \in ended' /\ worker' = worker
           \/ \E w \in Workers : /\ At(w, "handler") /\ worker'[w] = Idle
                                 /\ worker[w].user = sessions[s].user]_vars
  BY <1>1
<1> QED BY <1>2, ConsoleInvariant, PTL DEF Spec, SessionsKept

(***************************************************************************)
(* The signing pair                                                        *)
(***************************************************************************)

(* The two rows are written together and hold the keys of one pair.        *)
OnePair == stored.pub = stored.priv

(* What a call read of the public key is still the row.                    *)
ReadIsRow == \A c \in Callers : caller[c].pub \in {None, stored.pub}

(* A call has generated the pair it is about to insert.                    *)
InsertsItsOwn == \A c \in Callers : AtStep(c, "insert") => caller[c].own # None

KeyInv == SigningTypeOK /\ OneServerKey /\ OnePair /\ ReadIsRow /\ InsertsItsOwn

LEMMA InitKeyInv == KeyInit => KeyInv
BY SigningAssumption
   DEF KeyInit, KeyInv, SigningTypeOK, OneServerKey, OnePair, ReadIsRow, InsertsItsOwn,
       Rows, NotCalling, None, AtStep, Pairs

(* A call that fails.                                                      *)
LEMMA FailInv ==
  ASSUME KeyInv, NEW c \in Callers, Fail(c)
  PROVE  KeyInv'
BY SigningAssumption
   DEF Fail, Fault, KeyInv, SigningTypeOK, OneServerKey, OnePair, ReadIsRow, InsertsItsOwn,
       Rows, NotCalling, None, AtStep, Pairs

(* A call that moves on and changes no row: what it holds is the row.      *)
LEMMA ProceedInv ==
  ASSUME KeyInv, NEW c \in Callers,
         NEW step \in {"readPriv", "generate", "insert", "rereadPub", "rereadPriv"},
         NEW pub \in {None, stored.pub}, NEW own \in Pairs \cup {None},
         step = "insert" => own # None,
         Proceed(c, step, pub, own),
         UNCHANGED <<stored, given, unread>>,
         generated' \in Pairs \cup {None}, faults' \in 0..MaxFaults
  PROVE  KeyInv'
BY DEF Proceed, KeyInv, SigningTypeOK, OneServerKey, OnePair, ReadIsRow, InsertsItsOwn,
       Rows, None, AtStep

(* A call that returns what it read.                                       *)
LEMMA ReturnInv ==
  ASSUME KeyInv, NEW c \in Callers,
         caller[c].pub # None, stored.priv # None,
         Return(c, caller[c].pub, stored.priv),
         UNCHANGED <<stored, generated, unread, faults>>
  PROVE  KeyInv'
<1>1. caller[c].pub = stored.pub /\ stored = [pub |-> stored.pub, priv |-> stored.priv]
  BY DEF KeyInv, ReadIsRow, SigningTypeOK, Rows
<1>2. given' = given \cup {stored} /\ stored.pub # None /\ stored.pub = stored.priv
  BY <1>1 DEF Return, KeyInv, OnePair
<1>3. OneServerKey'
  BY <1>2 DEF KeyInv, OneServerKey
<1>4. SigningTypeOK' /\ OnePair' /\ ReadIsRow' /\ InsertsItsOwn'
  BY <1>2 DEF Return, KeyInv, SigningTypeOK, OnePair, ReadIsRow, InsertsItsOwn, NotCalling, None, AtStep
<1> QED BY <1>3, <1>4 DEF KeyInv

LEMMA ReadPubInv ==
  ASSUME KeyInv, NEW c \in Callers, ReadPub(c)
  PROVE  KeyInv'
<1>1. CASE Fail(c) BY <1>1, FailInv
<1>2. CASE /\ Proceed(c, "readPriv", stored.pub, None)
           /\ UNCHANGED <<stored, generated, given, unread, faults>>
  BY <1>2, ProceedInv DEF KeyInv, SigningTypeOK
<1> QED BY <1>1, <1>2 DEF ReadPub

LEMMA ReadPrivInv ==
  ASSUME KeyInv, NEW c \in Callers, ReadPriv(c)
  PROVE  KeyInv'
<1>1. CASE Fail(c) BY <1>1, FailInv
<1>2. CASE /\ caller[c].pub # None /\ stored.priv # None
           /\ Return(c, caller[c].pub, stored.priv)
           /\ UNCHANGED <<stored, generated, unread, faults>>
  BY <1>2, ReturnInv
<1>3. CASE /\ Proceed(c, "generate", None, None)
           /\ UNCHANGED <<stored, generated, given, unread, faults>>
  BY <1>3, ProceedInv DEF KeyInv, SigningTypeOK
<1> QED BY <1>1, <1>2, <1>3 DEF ReadPriv

LEMMA GenerateInv ==
  ASSUME KeyInv, NEW c \in Callers, Generate(c)
  PROVE  KeyInv'
<1>1. generated + 1 \in Pairs /\ generated + 1 # None
  BY SigningAssumption DEF Generate, KeyInv, SigningTypeOK, Pairs, None
<1> QED BY <1>1, ProceedInv DEF Generate, KeyInv, SigningTypeOK

(* The insert changes the rows only if both are absent; then no call holds *)
(* a public key and nothing has been given out.                            *)
LEMMA InsertPairInv ==
  ASSUME KeyInv, NEW c \in Callers, InsertPair(c)
  PROVE  KeyInv'
<1>1. CASE Fail(c) BY <1>1, FailInv
<1>2. CASE /\ stored' = [pub  |-> Inserted(stored.pub, caller[c].own),
                         priv |-> Inserted(stored.priv, caller[c].own)]
           /\ Proceed(c, "rereadPub", None, caller[c].own)
           /\ UNCHANGED <<generated, given, unread, faults>>
  <2>1. caller[c].own \in Pairs /\ AtStep(c, "insert")
    BY DEF InsertPair, KeyInv, SigningTypeOK, InsertsItsOwn
  <2>2. CASE stored.pub # None
    <3>1. stored' = stored
      BY <1>2, <2>2 DEF Inserted, KeyInv, OnePair, SigningTypeOK, Rows
    <3> QED BY <1>2, <2>1, <3>1, ProceedInv DEF KeyInv, SigningTypeOK
  <2>3. CASE stored.pub = None
    <3>1. /\ stored' = [pub |-> caller[c].own, priv |-> caller[c].own]
          /\ given = {} /\ \A d \in Callers : caller[d].pub = None
      BY <1>2, <2>3 DEF Inserted, KeyInv, OnePair, OneServerKey, ReadIsRow
    <3> QED
      BY <1>2, <2>1, <3>1
         DEF Proceed, KeyInv, SigningTypeOK, OneServerKey, OnePair, ReadIsRow, InsertsItsOwn, Rows, AtStep
  <2> QED BY <2>2, <2>3
<1> QED BY <1>1, <1>2 DEF InsertPair

LEMMA RereadPubInv ==
  ASSUME KeyInv, NEW c \in Callers, RereadPub(c)
  PROVE  KeyInv'
<1>1. caller[c].own \in Pairs \cup {None} /\ faults' \in 0..MaxFaults
  BY SigningAssumption DEF RereadPub, Fault, KeyInv, SigningTypeOK
<1>2. generated' \in Pairs \cup {None} /\ UNCHANGED <<stored, given, unread>>
  BY DEF RereadPub, KeyInv, SigningTypeOK
<1>3. CASE Proceed(c, "rereadPriv", stored.pub, caller[c].own)
  BY <1>1, <1>2, <1>3, ProceedInv
<1>4. CASE Proceed(c, "rereadPriv", None, caller[c].own)
  BY <1>1, <1>2, <1>4, ProceedInv
<1> QED BY <1>3, <1>4 DEF RereadPub

LEMMA RereadPrivInv ==
  ASSUME KeyInv, NEW c \in Callers, RereadPriv(c)
  PROVE  KeyInv'
<1>1. CASE /\ caller[c].pub # None /\ stored.priv # None
           /\ Return(c, caller[c].pub, stored.priv)
           /\ UNCHANGED <<unread, faults>>
  BY <1>1, ReturnInv DEF RereadPriv
<1>2. CASE /\ (caller[c].pub = None /\ UNCHANGED faults) \/ Fault
           /\ unread' = unread \cup {[pub |-> caller[c].own, priv |-> caller[c].own]}
           /\ caller' = [caller EXCEPT ![c] = NotCalling]
           /\ UNCHANGED given
  <2>1. faults' \in 0..MaxFaults
    BY <1>2, SigningAssumption DEF Fault, KeyInv, SigningTypeOK
  <2>2. unread' \subseteq Rows
    BY <1>2 DEF KeyInv, SigningTypeOK, Rows
  <2> QED
    BY <1>2, <2>1, <2>2
       DEF RereadPriv, KeyInv, SigningTypeOK, OneServerKey, OnePair, ReadIsRow, InsertsItsOwn,
           NotCalling, None, AtStep
<1> QED BY <1>1, <1>2 DEF RereadPriv

(* Every step keeps the inductive invariant.                               *)
THEOREM KeyInvPreserved == KeyInv /\ [KeyNext]_keyVars => KeyInv'
<1> SUFFICES ASSUME KeyInv, [KeyNext]_keyVars PROVE KeyInv'
  OBVIOUS
<1>1. CASE KeyNext
  BY <1>1, ReadPubInv, ReadPrivInv, GenerateInv, InsertPairInv, RereadPubInv, RereadPrivInv
     DEF KeyNext
<1>2. CASE UNCHANGED keyVars
  BY <1>2 DEF keyVars, KeyInv, SigningTypeOK, OneServerKey, OnePair, ReadIsRow, InsertsItsOwn, AtStep
<1> QED BY <1>1, <1>2

LEMMA KeyInvariance == KeySpec => []KeyInv
BY InitKeyInv, KeyInvPreserved, PTL DEF KeySpec

(* The rows, the calls and the returned pairs keep their types.            *)
THEOREM SigningTyped == KeySpec => []SigningTypeOK
<1>1. KeyInv => SigningTypeOK BY DEF KeyInv
<1> QED BY <1>1, KeyInvariance, PTL

(* All callers of GetOrCreateServerSigningKey whose reads succeed are given *)
(* the one stored pair.                                                    *)
THEOREM OneKeyGiven == KeySpec => []OneServerKey
<1>1. KeyInv => OneServerKey BY DEF KeyInv
<1> QED BY <1>1, KeyInvariance, PTL

(* Once stored, the pair the nodes have pinned is never replaced.          *)
THEOREM KeyKept == KeySpec => KeyNeverReplaced
<1>1. KeyInv /\ [KeyNext]_keyVars => [stored.pub # None => stored' = stored]_keyVars
  <2> SUFFICES ASSUME KeyInv, KeyNext, stored.pub # None PROVE stored' = stored
    OBVIOUS
  <2>1. PICK c \in Callers : \/ ReadPub(c) \/ ReadPriv(c) \/ Generate(c)
                             \/ InsertPair(c) \/ RereadPub(c) \/ RereadPriv(c)
    BY DEF KeyNext
  <2>2. CASE InsertPair(c)
    BY <2>2 DEF InsertPair, Fail, Inserted, KeyInv, OnePair, SigningTypeOK, Rows
  <2> QED
    BY <2>1, <2>2 DEF ReadPub, ReadPriv, Generate, RereadPub, RereadPriv, Fail
<1> QED BY <1>1, KeyInvariance, PTL DEF KeySpec, KeyNeverReplaced
=============================================================================
