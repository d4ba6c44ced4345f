----------------------------- MODULE AdminAuth -----------------------------
(***************************************************************************)
(* The administrator's password, sessions and login limit.                 *)
(*                                                                         *)
(* admin_auth keeps the sessions and the failed logins in the memory of    *)
(* the server, behind one lock; the password hash is in PostgreSQL.  A     *)
(* request is a thread of the HTTP server.  It reads the hash, asks        *)
(* login_allowed, reads its body and computes PBKDF2 with 600,000          *)
(* iterations, and only then records a failure or opens a session, so that *)
(* logins and changes of the password overlap.                             *)
(*                                                                         *)
(* Times are kept as what is left of them, in ticks, and Tick takes away   *)
(* what has run out, as _purge does at the start of every function that    *)
(* looks.                                                                  *)
(***************************************************************************)
EXTENDS Integers, Sequences, FiniteSets

CONSTANTS
    Threads,      \* requests that the server handles at a time
    Addresses,    \* of clients
    Passwords,
    NoPassword,   \* not configured yet
    Tokens,       \* session tokens
    NoSession,
    MaxAttempts,  \* _LOGIN_MAX_ATTEMPTS
    Window,       \* _LOGIN_WINDOW_SECONDS
    LockTime,     \* _LOGIN_LOCK_SECONDS
    SessionTime   \* _SESSION_TTL_SECONDS

ASSUME TimesAssumption ==
    /\ {MaxAttempts, Window, LockTime, SessionTime} \subseteq Nat \ {0}
    /\ IsFiniteSet(Threads)
    /\ NoPassword \notin Passwords

VARIABLES
    hash,       \* admin_settings.password_hash
    sessions,   \* _sessions
    attempts,   \* _attempts: for how long each failed login still counts
    lockouts,   \* _lockouts: for how long an address is locked out
    thread,     \* the step of every request
    failures,   \* history: like attempts, but nothing ends a record early
    overtaken   \* history: the logins in progress at the last change

vars == <<hash, sessions, attempts, lockouts, thread, failures, overtaken>>

Idle == [step |-> "idle"]
NoSessions == [k \in Tokens |-> NoSession]
Open == {k \in Tokens : sessions[k] # NoSession}
Locked(a) == lockouts[a] > 0

\* The logins that have read the hash.
LoggingIn == {t \in Threads : thread[t].step \in {"read", "allowed"}}

Goto(t, state) == thread' = [thread EXCEPT ![t] = state]

-----------------------------------------------------------------------------
(* POST /api/admin/login                                                   *)

ReadHash(t, a) ==
    /\ thread[t].step = "idle"
    /\ hash # NoPassword
    /\ Goto(t, [step |-> "read", address |-> a, hash |-> hash])
    /\ UNCHANGED <<hash, sessions, attempts, lockouts, failures, overtaken>>

LoginAllowedAlways(t) ==
    /\ thread[t].step = "read"
    /\ Goto(t, [thread[t] EXCEPT !.step = "allowed"])
    /\ UNCHANGED <<hash, sessions, attempts, lockouts, failures, overtaken>>

\* login_allowed: a refused request ends and leaves no trace.
LoginAllowed(t) ==
    /\ thread[t].step = "read"
    /\ Goto(t, IF Locked(thread[t].address) THEN Idle
               ELSE [thread[t] EXCEPT !.step = "allowed"])
    /\ UNCHANGED <<hash, sessions, attempts, lockouts, failures, overtaken>>

\* A body that is no JSON object ends the request and does not count.
InvalidRequest(t) ==
    /\ thread[t].step = "allowed"
    /\ Goto(t, Idle)
    /\ UNCHANGED <<hash, sessions, attempts, lockouts, failures, overtaken>>

LocksAfterOneMore(n) == n > MaxAttempts

LocksAfter(n) == n >= MaxAttempts

\* record_failed_login, for a password other than the one whose hash was read.
\* The failures that led to a lockout are forgotten.
RecordFailedLogin(t) ==
    LET a == thread[t].address
        recorded == Append(attempts[a], Window)
    IN  /\ thread[t].step = "allowed"
        /\ \/ /\ LocksAfter(Len(recorded))
              /\ lockouts' = [lockouts EXCEPT ![a] = LockTime]
              /\ attempts' = [attempts EXCEPT ![a] = <<>>]
           \/ /\ ~LocksAfter(Len(recorded))
              /\ attempts' = [attempts EXCEPT ![a] = recorded]
              /\ UNCHANGED lockouts
        /\ failures' = [failures EXCEPT ![a] = Append(@, Window)]
        /\ Goto(t, Idle)
        /\ UNCHANGED <<hash, sessions, overtaken>>

\* create_session, for the password whose hash was read.
CreateSession(t) ==
    /\ thread[t].step = "allowed"
    /\ \E k \in Tokens \ Open :
        sessions' = [sessions EXCEPT ![k] =
                        [password |-> thread[t].hash, left |-> SessionTime]]
    /\ Goto(t, Idle)
    /\ UNCHANGED <<hash, attempts, lockouts, failures, overtaken>>

-----------------------------------------------------------------------------
(* The other requests                                                      *)

\* POST /api/admin/setup, first transaction: set_admin_password_hash.
SetHash(t, p) ==
    /\ thread[t].step = "idle"
    /\ hash' = p
    /\ overtaken' = Cardinality(LoggingIn)
    /\ Goto(t, [step |-> "changed"])
    /\ UNCHANGED <<sessions, attempts, lockouts, failures>>

RevokeOneSession(t) ==
    /\ thread[t].step = "changed"
    /\ \/ Open = {} /\ UNCHANGED sessions
       \/ \E k \in Open : sessions' = [sessions EXCEPT ![k] = NoSession]
    /\ Goto(t, Idle)
    /\ UNCHANGED <<hash, attempts, lockouts, failures, overtaken>>

\* revoke_all_sessions.
RevokeAllSessions(t) ==
    /\ thread[t].step = "changed"
    /\ sessions' = NoSessions
    /\ Goto(t, Idle)
    /\ UNCHANGED <<hash, attempts, lockouts, failures, overtaken>>

\* POST /api/admin/logout with a session that is still open and its CSRF token.
Logout(k) ==
    /\ k \in Open
    /\ sessions' = [sessions EXCEPT ![k] = NoSession]
    /\ UNCHANGED <<hash, attempts, lockouts, thread, failures, overtaken>>

\* The server starts again: its memory is lost.
Restart ==
    /\ sessions' = NoSessions
    /\ attempts' = [a \in Addresses |-> <<>>]
    /\ lockouts' = [a \in Addresses |-> 0]
    /\ failures' = [a \in Addresses |-> <<>>]
    /\ thread' = [t \in Threads |-> Idle]
    /\ UNCHANGED <<hash, overtaken>>

Less(n) == IF n > 0 THEN n - 1 ELSE 0

\* What still counts of times that were taken in this order: the last ones.
Aged(times) ==
    LET over == Cardinality({n \in DOMAIN times : times[n] <= 1})
    IN  [n \in 1..(Len(times) - over) |-> times[n + over] - 1]

Tick ==
    /\ sessions' = [k \in Tokens |->
            IF k \in Open /\ sessions[k].left > 1
            THEN [sessions[k] EXCEPT !.left = @ - 1] ELSE NoSession]
    /\ attempts' = [a \in Addresses |-> Aged(attempts[a])]
    /\ failures' = [a \in Addresses |-> Aged(failures[a])]
    /\ lockouts' = [a \in Addresses |-> Less(lockouts[a])]
    /\ UNCHANGED <<hash, thread, overtaken>>

Init ==
    /\ hash \in Passwords \cup {NoPassword}
    /\ sessions = NoSessions
    /\ attempts = [a \in Addresses |-> <<>>]
    /\ lockouts = [a \in Addresses |-> 0]
    /\ failures = [a \in Addresses |-> <<>>]
    /\ thread = [t \in Threads |-> Idle]
    /\ overtaken = 0

Next ==
    \/ \E t \in Threads, a \in Addresses : ReadHash(t, a)
    \/ \E t \in Threads, p \in Passwords : SetHash(t, p)
    \/ \E t \in Threads :
        \/ LoginAllowed(t) \/ InvalidRequest(t) \/ RecordFailedLogin(t)
        \/ CreateSession(t) \/ RevokeAllSessions(t)
    \/ \E k \in Tokens : Logout(k)
    \/ Restart
    \/ Tick

\* Time goes on.  Requests come and go as they like.
Spec == Init /\ [][Next]_vars /\ WF_vars(Tick)

-----------------------------------------------------------------------------
(* Properties                                                              *)

\* The limit is checked before the password and counted after it.  However the
\* logins of an address overlap, within the window at most those fail that the
\* limit allows, and those that were being computed when it was reached, one
\* for each other thread (a lock that lasts as long as the window).
FailuresBounded ==
    LockTime >= Window =>
        \A a \in Addresses :
            Len(failures[a]) <= MaxAttempts + Cardinality(Threads) - 1

\* "A change ends all the sessions" (notes/github_and_toss_collection_20260818.md:32):
\* when no change is in progress, a session of an earlier password comes from
\* a login that had read the earlier hash when it was replaced.
OldSessionsWereOvertaken ==
    (\A t \in Threads : thread[t].step # "changed") =>
        Cardinality({k \in Open : sessions[k].password # hash}) <= overtaken

\* A lockout ends: refused requests do not prolong it, and the requests that
\* were admitted before it can do so only a few times.
LockoutsEnd == \A a \in Addresses : Locked(a) ~> ~Locked(a)
=============================================================================
