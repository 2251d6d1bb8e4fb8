------------------------------ MODULE Console -------------------------------
(***************************************************************************)
(* Setup, users and sessions of the admin console: internal/api/auth.go,   *)
(* sessions.go and middleware.go over db/sqlite/users.go and sessions.go,  *)
(* the bootstrap and user commands of cli/root.go, and the session cleanup *)
(* of daemon/coordinator.go.  Requests are served concurrently, each       *)
(* reading the database before it acts on it; two writes are made by       *)
(* goroutines the request does not wait for.  Passwords, tokens, cookies   *)
(* and their wording are left out: a request has a cookie or a user's      *)
(* password, or it is refused.                                             *)
(***************************************************************************)
EXTENDS FiniteSets, Naturals

CONSTANTS Names,      \* usernames
          Sessions,   \* session ids; GenerateSessionID never repeats one
          Workers,    \* requests and commands served at the same time
          Lifetimes,  \* a session's: with and without "remember me"
          MaxTime     \* bound on the clock

ASSUME ConsoleAssumption == Lifetimes \subseteq Nat \ {0} /\ MaxTime \in Nat

VARIABLES now,       \* the clock
          users,     \* the names in the users table, which nothing deletes
          sessions,  \* the sessions table
          created,   \* the session ids created so far
          jobs,      \* goroutines not yet run
          worker,    \* the requests in progress
          ended      \* history: sessions logged out or revoked

vars == <<now, users, sessions, created, jobs, worker, ended>>

NoSession == [user |-> "none"]
Idle      == [step |-> "idle"]

Exists(s)  == sessions[s] # NoSession
Expired(s) == Exists(s) /\ sessions[s].expires <= now

Init ==
  /\ now = 0 /\ users = {} /\ created = {} /\ jobs = {} /\ ended = {}
  /\ sessions = [s \in Sessions |-> NoSession]
  /\ worker = [w \in Workers |-> Idle]

At(w, step) == worker[w].step = step
Goto(w, r)  == worker' = [worker EXCEPT ![w] = r]
Done(w)     == Goto(w, Idle)
-----------------------------------------------------------------------------
(***************************************************************************)
(* The first user                                                          *)
(***************************************************************************)

(* Setup and the bootstrap command read whether a user exists; Setup takes *)
(* a read that fails for "no", and goes on with a valid token.  Hashing    *)
(* the password comes between this read and the insert.                    *)
CheckNoUser(w, n, fails) ==
  /\ At(w, "idle")
  /\ users = {} \/ fails
  /\ Goto(w, [step |-> "create", name |-> n])
  /\ UNCHANGED <<now, users, sessions, created, jobs, ended>>

(* The user add command needs no such read.                                *)
UserAdd(w, n) ==
  /\ At(w, "idle")
  /\ Goto(w, [step |-> "create", name |-> n])
  /\ UNCHANGED <<now, users, sessions, created, jobs, ended>>

(* CreateUser: the name is UNIQUE, the insert of one that exists fails.    *)
CreateUser(w) ==
  /\ At(w, "create")
  /\ users' = users \cup {worker[w].name}
  /\ Done(w)
  /\ UNCHANGED <<now, sessions, created, jobs, ended>>
-----------------------------------------------------------------------------
(***************************************************************************)
(* Signing in and out                                                      *)
(***************************************************************************)

(* Login reads the user and sets the time the session will expire ...      *)
(* Mutated form: a name that is not in the table is not refused.           *)
Login_Unknown(w, n, lifetime) ==
  /\ At(w, "idle")
  /\ Goto(w, [step |-> "login", user |-> n, expires |-> now + lifetime])
  /\ UNCHANGED <<now, users, sessions, created, jobs, ended>>

Login(w, n, lifetime) ==
  /\ At(w, "idle") /\ n \in users
  /\ Goto(w, [step |-> "login", user |-> n, expires |-> now + lifetime])
  /\ UNCHANGED <<now, users, sessions, created, jobs, ended>>

(* ... stores it under a new id, and leaves a cleanup to a goroutine.      *)
CreateSession(w, s) ==
  /\ At(w, "login") /\ s \notin created
  /\ created' = created \cup {s}
  /\ sessions' = [sessions EXCEPT ![s] =
        [user |-> worker[w].user, expires |-> worker[w].expires, active |-> now]]
  /\ jobs' = jobs \cup {[kind |-> "cleanup"]}
  /\ Done(w)
  /\ UNCHANGED <<now, users, ended>>

(* Logout deletes the session of the cookie, whoever sends it.             *)
Logout(s) ==
  /\ s \in created
  /\ sessions' = [sessions EXCEPT ![s] = NoSession]
  /\ ended' = ended \cup {s}
  /\ UNCHANGED <<now, users, created, jobs, worker>>
-----------------------------------------------------------------------------
(***************************************************************************)
(* Requests of a signed-in user                                            *)
(***************************************************************************)

(* RequireAuth: GetSession finds the row and it has not expired; a row not *)
(* touched lately is touched by a goroutine.  The handler runs as the user *)
(* read here, whatever becomes of the session meanwhile.                   *)
RequireAuth(w, s) ==
  /\ At(w, "idle") /\ Exists(s) /\ sessions[s].expires > now
  /\ Goto(w, [step |-> "handler", user |-> sessions[s].user])
  /\ jobs' = IF sessions[s].active < now
             THEN jobs \cup {[kind |-> "touch", session |-> s]} ELSE jobs
  /\ UNCHANGED <<now, users, sessions, created, ended>>

(* RevokeSession: DELETE ... WHERE user_id = ? AND public_id = ?; of        *)
(* another user's session, or one that is gone, nothing (404).             *)
(* Mutated form: the row is not compared with the user.                    *)
RevokeSession_AnyUser(w, s) ==
  /\ At(w, "handler") /\ s \in created
  /\ sessions' = [sessions EXCEPT ![s] = NoSession]
  /\ ended' = ended \cup {s}
  /\ Done(w)
  /\ UNCHANGED <<now, users, created, jobs>>

RevokeSession(w, s) ==
  /\ At(w, "handler") /\ Exists(s) /\ sessions[s].user = worker[w].user
  /\ sessions' = [sessions EXCEPT ![s] = NoSession]
  /\ ended' = ended \cup {s}
  /\ Done(w)
  /\ UNCHANGED <<now, users, created, jobs>>

(* ListActiveSessions leaves a cleanup to a goroutine.                     *)
ListActiveSessions(w) ==
  /\ At(w, "handler")
  /\ jobs' = jobs \cup {[kind |-> "cleanup"]}
  /\ Done(w)
  /\ UNCHANGED <<now, users, sessions, created, ended>>

(* Any other handler; also one that fails, or a client that gives up.      *)
EndRequest(w) ==
  /\ ~At(w, "idle") /\ Done(w)
  /\ UNCHANGED <<now, users, sessions, created, jobs, ended>>
-----------------------------------------------------------------------------
(***************************************************************************)
(* What runs beside the requests                                           *)
(***************************************************************************)

(* UPDATE sessions SET last_active = now WHERE session_id = ?              *)
(* Mutated form: the row that was read is written back.                    *)
Touched_Written(s) ==
  [user |-> IF Exists(s) THEN sessions[s].user ELSE CHOOSE n \in Names : TRUE,
   expires |-> now + 1, active |-> now]

Touched(s) ==
  IF Exists(s) THEN [sessions[s] EXCEPT !.active = now] ELSE NoSession

TouchSession(s) ==
  /\ [kind |-> "touch", session |-> s] \in jobs
  /\ jobs' = jobs \ {[kind |-> "touch", session |-> s]}
  /\ sessions' = [sessions EXCEPT ![s] = Touched(s)]
  /\ UNCHANGED <<now, users, created, worker, ended>>

(* DELETE FROM sessions WHERE expires_at <= now                            *)
Cleaned == [s \in Sessions |-> IF Expired(s) THEN NoSession ELSE sessions[s]]

(* A request's goroutine ...                                               *)
CleanupJob ==
  /\ [kind |-> "cleanup"] \in jobs
  /\ jobs' = jobs \ {[kind |-> "cleanup"]}
  /\ sessions' = Cleaned
  /\ UNCHANGED <<now, users, created, worker, ended>>

(* ... and the daemon's, at its start and every two minutes.               *)
(* Mutated form: the daemon only cleans up when it starts.                 *)
PeriodicCleanup_Once ==
  /\ now = 0 /\ \E s \in Sessions : Expired(s)
  /\ sessions' = Cleaned
  /\ UNCHANGED <<now, users, created, jobs, worker, ended>>

PeriodicCleanup ==
  /\ \E s \in Sessions : Expired(s)
  /\ sessions' = Cleaned
  /\ UNCHANGED <<now, users, created, jobs, worker, ended>>

Tick ==
  /\ now < MaxTime /\ now' = now + 1
  /\ UNCHANGED <<users, sessions, created, jobs, worker, ended>>

(* The server restarts: requests and goroutines are gone, the tables not.  *)
Restart ==
  /\ jobs' = {} /\ worker' = [w \in Workers |-> Idle]
  /\ UNCHANGED <<now, users, sessions, created, ended>>

Serve(w) ==
  \/ \E n \in Names : CheckNoUser(w, n, TRUE) \/ CheckNoUser(w, n, FALSE) \/ UserAdd(w, n)
  \/ \E n \in Names, d \in Lifetimes : Login(w, n, d)
  \/ \E s \in Sessions : CreateSession(w, s) \/ RequireAuth(w, s) \/ RevokeSession(w, s)
  \/ CreateUser(w) \/ ListActiveSessions(w) \/ EndRequest(w)

Next ==
  \/ \E w \in Workers : Serve(w)
  \/ \E s \in Sessions : Logout(s) \/ TouchSession(s)
  \/ CleanupJob \/ PeriodicCleanup \/ Tick \/ Restart

(* The daemon's ticker comes round; nothing is asked of the requests.      *)
Spec == Init /\ [][Next]_vars /\ WF_vars(PeriodicCleanup)
-----------------------------------------------------------------------------
Expiries == {t + lifetime : t \in 0..MaxTime, lifetime \in Lifetimes}

(* The tables and the requests hold values of their types.                 *)
ConsoleTypeOK ==
  /\ now \in 0..MaxTime /\ users \subseteq Names
  /\ created \subseteq Sessions /\ ended \subseteq created
  /\ \A s \in Sessions :
       Exists(s) => /\ s \in created
                    /\ sessions[s].user \in users
                    /\ sessions[s].expires \in Expiries
                    /\ sessions[s].active \in 0..now
  /\ \A j \in jobs : j.kind = "touch" => j.session \in created
  /\ \A w \in Workers : worker[w].step \in {"idle", "create", "login", "handler"}

(* A session that was logged out or revoked never comes back, whatever     *)
(* request or goroutine that had read it before is still under way.        *)
SignedOutStaysOut == \A s \in ended : ~Exists(s)

(* Nobody loses a session but by its expiry, its own logout, or a request  *)
(* of a user who is signed in as its owner: not by the cleanups that run   *)
(* beside the requests, nor by another user's revocation.                  *)
SessionsKept ==
  [][\A s \in Sessions : Exists(s) /\ ~Exists(s)' =>
        \/ Expired(s)
        \/ s \in ended' /\ worker' = worker
        \/ \E w \in Workers : /\ At(w, "handler") /\ worker'[w] = Idle
                              /\ worker[w].user = sessions[s].user]_vars

(* An expired session is deleted sooner or later.                          *)
ExpiredDeleted == \A s \in Sessions : Expired(s) ~> ~Exists(s)
=============================================================================
