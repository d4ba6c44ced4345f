-------------------------- MODULE AdminAuth_proofs --------------------------
(***************************************************************************)
(* Theorems about the administrator's sessions and the login limit, for    *)
(* any number of requests, addresses, passwords and tokens and for any     *)
(* times.                                                                  *)
(***************************************************************************)
EXTENDS AdminAuth, FiniteSetTheorems, SequenceTheorems, TLAPS

-----------------------------------------------------------------------------
(* Times                                                                   *)

Ordered(times) ==
    \A i \in 1..Len(times), j \in 1..Len(times) : i <= j => times[i] <= times[j]

\* The later part of a list of times, one tick later.
LEMMA ShiftedIs ==
    ASSUME NEW times \in Seq(Nat), NEW over \in 0..Len(times),
           \A n \in 1..Len(times) : n > over => times[n] > 1,
           NEW later, later = [n \in 1..(Len(times) - over) |-> times[n + over] - 1]
    PROVE  /\ later \in Seq(Nat) /\ Len(later) = Len(times) - over
           /\ \A n \in 1..Len(later) : later[n] = times[n + over] - 1
<1>1. Len(times) \in Nat /\ over \in Nat /\ Len(times) - over \in Nat
  BY LenProperties
<1>2. \A n \in 1..(Len(times) - over) :
        n + over \in 1..Len(times) /\ times[n + over] \in Nat /\ times[n + over] - 1 \in Nat
  <2> TAKE n \in 1..(Len(times) - over)
  <2>1. n + over \in 1..Len(times) /\ n + over > over
    BY <1>1
  <2>2. times[n + over] \in Nat
    BY <2>1, ElementOfSeq
  <2> QED BY <2>1, <2>2
<1>3. later \in [1..(Len(times) - over) -> Nat]
  BY <1>2
<1>4. later \in Seq(Nat)
  BY <1>1, <1>3
<1>5. Len(later) = Len(times) - over
  BY <1>1, <1>3, <1>4, LenProperties
<1> QED BY <1>4, <1>5

\* What Aged leaves of an ordered list is its end.
LEMMA AgedIs ==
    ASSUME NEW times \in Seq(Nat), Ordered(times)
    PROVE  \E over \in 0..Len(times) :
              /\ \A n \in 1..Len(times) : times[n] <= 1 <=> n <= over
              /\ Aged(times) \in Seq(Nat) /\ Len(Aged(times)) = Len(times) - over
              /\ \A n \in 1..Len(Aged(times)) : Aged(times)[n] = times[n + over] - 1
<1> DEFINE Over == {n \in DOMAIN times : times[n] <= 1}
           over == Cardinality(Over)
<1>1. Len(times) \in Nat /\ DOMAIN times = 1..Len(times)
      /\ \A n \in 1..Len(times) : times[n] \in Nat
  BY LenProperties, ElementOfSeq
<1>2. Over \subseteq 1..Len(times) /\ IsFiniteSet(1..Len(times))
      /\ Cardinality(1..Len(times)) = Len(times)
  BY <1>1, FS_Interval
<1>3. IsFiniteSet(Over) /\ over \in Nat /\ over <= Len(times)
  BY <1>2, FS_Subset, FS_CardinalityType
<1>4. \A n \in Over : n <= over
  <2> SUFFICES ASSUME NEW n \in Over PROVE n <= over
    OBVIOUS
  <2>1. n \in 1..Len(times) /\ times[n] <= 1
    BY <1>1
  <2>2. 1..n \subseteq Over
    <3> SUFFICES ASSUME NEW m \in 1..n PROVE m \in Over
      OBVIOUS
    <3>1. m \in 1..Len(times) /\ m <= n
      BY <1>1, <2>1
    <3>2. times[m] <= times[n] /\ times[m] \in Nat /\ times[n] \in Nat
      BY <1>1, <2>1, <3>1 DEF Ordered
    <3>3. times[m] <= 1
      BY <2>1, <3>2
    <3> QED BY <1>1, <3>1, <3>3
  <2>3. Cardinality(1..n) = n
    BY <2>1, FS_Interval
  <2>4. Cardinality(1..n) <= over
    BY <1>3, <2>2, FS_Subset
  <2> QED BY <2>3, <2>4
<1>5. Over = 1..over
  <2>1. Over \subseteq 1..over
    BY <1>1, <1>2, <1>4
  <2>2. IsFiniteSet(1..over) /\ Cardinality(1..over) = over
    BY <1>3, FS_Interval
  <2> QED BY <2>1, <2>2, FS_Subset
<1>6. \A n \in 1..Len(times) : times[n] <= 1 <=> n <= over
  BY <1>1, <1>3, <1>5
<1>7. Aged(times) = [n \in 1..(Len(times) - over) |-> times[n + over] - 1]
  BY DEF Aged
<1> HIDE DEF over
<1>8. over \in 0..Len(times)
  BY <1>1, <1>3
<1>9. \A n \in 1..Len(times) : n > over => times[n] > 1
  BY <1>1, <1>6, <1>8
<1>10. /\ Aged(times) \in Seq(Nat) /\ Len(Aged(times)) = Len(times) - over
       /\ \A n \in 1..Len(Aged(times)) : Aged(times)[n] = times[n + over] - 1
  BY <1>7, <1>8, <1>9, ShiftedIs
<1> QED BY <1>6, <1>8, <1>10

-----------------------------------------------------------------------------
(* The inductive invariant                                                 *)

Changing == [step |-> "changed"]
Login == [step : {"read", "allowed"}, address : Addresses, hash : Passwords]
Session == [password : Passwords, left : 1..SessionTime]

Types ==
    /\ hash \in Passwords \cup {NoPassword}
    /\ sessions \in [Tokens -> Session \cup {NoSession}] /\ IsFiniteSet(Open)
    /\ thread \in [Threads -> {Idle, Changing} \cup Login]
    /\ overtaken \in Nat

\* No change of the password is in progress.
Settled == \A t \in Threads : thread[t].step # "changed"

\* The sessions of an earlier password, and the logins that still can open one.
Old == {k \in Open : sessions[k].password # hash}
Pending == {t \in LoggingIn : thread[t].hash # hash}

\* Those logins were in progress at the last change.  When a change is no more
\* in progress, its end of all sessions has left only what they opened since.
SessionsInv ==
    /\ Cardinality(Pending) <= overtaken
    /\ Settled => Cardinality(Old) + Cardinality(Pending) <= overtaken

\* The logins of an address that will still fail or succeed.
Admitted(a) == {t \in Threads : thread[t].step = "allowed" /\ thread[t].address = a}

\* The failures of an address that _attempts does not hold any more.
Forgotten(a) == Len(failures[a]) - Len(attempts[a])

\* Every failure that counts is in _attempts or older than the lockout, which
\* ends after it; and no login is admitted meanwhile.
AddressInv(a) ==
    /\ attempts[a] \in Seq(Nat) /\ failures[a] \in Seq(Nat) /\ lockouts[a] \in 0..LockTime
    /\ \A i \in 1..Len(failures[a]) : failures[a][i] \in 1..Window
    /\ Ordered(failures[a])
    /\ Len(attempts[a]) < MaxAttempts /\ Len(attempts[a]) <= Len(failures[a])
    /\ \A i \in 1..Len(attempts[a]) : attempts[a][i] = failures[a][i + Forgotten(a)]
    /\ \A i \in 1..Forgotten(a) : failures[a][i] <= lockouts[a]
    /\ Locked(a) => Len(failures[a]) + Cardinality(Admitted(a))
                        <= MaxAttempts + Cardinality(Threads) - 1

FailuresInv ==
    LockTime >= Window =>
        /\ attempts = [a \in Addresses |-> attempts[a]]
        /\ failures = [a \in Addresses |-> failures[a]]
        /\ lockouts = [a \in Addresses |-> lockouts[a]]
        /\ \A a \in Addresses : AddressInv(a)

-----------------------------------------------------------------------------
(* Sessions of earlier passwords                                           *)

\* The sets of the invariant are finite.
LEMMA SetsAreFinite ==
    ASSUME Types
    PROVE  /\ IsFiniteSet(Old) /\ IsFiniteSet(Pending) /\ IsFiniteSet(LoggingIn)
           /\ Cardinality(Old) \in Nat /\ Cardinality(Pending) \in Nat
           /\ Cardinality(LoggingIn) \in Nat
           /\ \A a : IsFiniteSet(Admitted(a)) /\ Cardinality(Admitted(a)) \in Nat
<1>1. Old \subseteq Open /\ Pending \subseteq LoggingIn /\ LoggingIn \subseteq Threads
      /\ \A a : Admitted(a) \subseteq Threads
  BY DEF Old, Pending, LoggingIn, Admitted
<1>2. IsFiniteSet(Open) /\ IsFiniteSet(Threads)
  BY TimesAssumption DEF Types
<1>3. IsFiniteSet(Old) /\ IsFiniteSet(LoggingIn)
  BY <1>1, <1>2, FS_Subset
<1>4. IsFiniteSet(Pending) /\ \A a : IsFiniteSet(Admitted(a))
  BY <1>1, <1>2, <1>3, FS_Subset
<1> QED BY <1>3, <1>4, FS_CardinalityType

\* Steps after which there are no more old sessions and pending logins.
LEMMA FewerOldOnes ==
    ASSUME Types, SessionsInv, Old' \subseteq Old, Pending' \subseteq Pending,
           overtaken' = overtaken, Settled' => Settled
    PROVE  SessionsInv'
<1>1. Cardinality(Old') <= Cardinality(Old) /\ Cardinality(Pending') <= Cardinality(Pending)
  BY SetsAreFinite, FS_Subset
<1>2. IsFiniteSet(Old') /\ IsFiniteSet(Pending')
  BY SetsAreFinite, FS_Subset
<1>3. /\ Cardinality(Old') \in Nat /\ Cardinality(Pending') \in Nat /\ overtaken \in Nat
      /\ Cardinality(Old) \in Nat /\ Cardinality(Pending) \in Nat
  BY <1>2, SetsAreFinite, FS_CardinalityType DEF Types
<1> QED BY <1>1, <1>3 DEF SessionsInv

\* A request goes on, and nothing else happens to the threads.
LEMMA ThreadGoesOn ==
    ASSUME Types, NEW t \in Threads,
           NEW state \in {Idle, Changing} \cup Login, Goto(t, state)
    PROVE  /\ thread' \in [Threads -> {Idle, Changing} \cup Login] /\ thread'[t] = state
           /\ \A s \in Threads : s # t => thread'[s] = thread[s]
BY DEF Types, Goto

\* What a step of a login may do: the sessions and the password stay.
LEMMA LoginSteps ==
    ASSUME Types, NEW t \in Threads,
           \/ \E a \in Addresses : ReadHash(t, a)
           \/ LoginAllowed(t) \/ InvalidRequest(t) \/ RecordFailedLogin(t)
    PROVE  /\ UNCHANGED <<hash, sessions, overtaken>>
           /\ \E state \in {Idle} \cup Login :
                /\ Goto(t, state)
                /\ \/ state = Idle /\ thread[t].step \in {"read", "allowed"}
                   \/ state.hash = hash /\ thread[t].step = "idle"
                   \/ state.hash = thread[t].hash /\ thread[t].step = "read"
<1>0. thread[t] \in {Idle, Changing} \cup Login
  BY DEF Types
<1>1. ASSUME NEW a \in Addresses, ReadHash(t, a)
      PROVE  \E state \in {Idle} \cup Login :
                Goto(t, state) /\ state.hash = hash /\ thread[t].step = "idle"
  <2>1. [step |-> "read", address |-> a, hash |-> hash] \in Login
    BY <1>1 DEF ReadHash, Types, Login
  <2> QED BY <1>1, <2>1 DEF ReadHash
<1>2. CASE LoginAllowed(t)
  <2>1. thread[t] \in Login
    BY <1>0, <1>2 DEF LoginAllowed, Idle, Changing
  <2>2. /\ [thread[t] EXCEPT !.step = "allowed"] \in Login
        /\ [thread[t] EXCEPT !.step = "allowed"].hash = thread[t].hash
    BY <2>1 DEF Login
  <2> QED BY <1>2, <2>2 DEF LoginAllowed
<1>3. CASE InvalidRequest(t) \/ RecordFailedLogin(t)
  BY <1>3 DEF InvalidRequest, RecordFailedLogin
<1>4. UNCHANGED <<hash, sessions, overtaken>>
  BY DEF ReadHash, LoginAllowed, InvalidRequest, RecordFailedLogin
<1> QED BY <1>1, <1>2, <1>3, <1>4


\* Steps after which there are no old sessions.
LEMMA NoOldOnes ==
    ASSUME Types, SessionsInv, Old' = {}, Pending' \subseteq Pending, overtaken' = overtaken
    PROVE  SessionsInv'
<1>1. Cardinality(Pending') <= Cardinality(Pending) /\ IsFiniteSet(Pending')
  BY SetsAreFinite, FS_Subset
<1>2. Cardinality(Old') = 0
  BY FS_EmptySet
<1>3. Cardinality(Pending') \in Nat /\ Cardinality(Pending) \in Nat /\ overtaken \in Nat
  BY <1>1, SetsAreFinite, FS_CardinalityType DEF Types
<1> QED BY <1>1, <1>2, <1>3 DEF SessionsInv

\* The steps of a login before it opens a session.
LEMMA LoginsKeepSessions ==
    ASSUME Types, SessionsInv, NEW t \in Threads,
           \/ \E a \in Addresses : ReadHash(t, a)
           \/ LoginAllowed(t) \/ InvalidRequest(t) \/ RecordFailedLogin(t)
    PROVE  Types' /\ SessionsInv'
<1>1. PICK state \in {Idle} \cup Login :
        /\ Goto(t, state)
        /\ \/ state = Idle /\ thread[t].step \in {"read", "allowed"}
           \/ state.hash = hash /\ thread[t].step = "idle"
           \/ state.hash = thread[t].hash /\ thread[t].step = "read"
  BY LoginSteps
<1>2. UNCHANGED <<hash, sessions, overtaken>>
  BY LoginSteps
<1>3. /\ thread' \in [Threads -> {Idle, Changing} \cup Login] /\ thread'[t] = state
      /\ \A s \in Threads : s # t => thread'[s] = thread[s]
  BY <1>1, ThreadGoesOn
<1>4. Types'
  BY <1>2, <1>3 DEF Types, Open
<1>5. Old' \subseteq Old
  BY <1>2 DEF Old, Open
<1>6. Pending' \subseteq Pending
  <2> SUFFICES ASSUME NEW s \in Threads, s \in Pending' PROVE s \in Pending
    BY DEF Pending, LoggingIn
  <2>1. CASE s # t
    BY <1>2, <1>3, <2>1 DEF Pending, LoggingIn
  <2>2. CASE s = t
    <3>1. state.step \in {"read", "allowed"} /\ state.hash # hash
      BY <1>2, <1>3, <2>2 DEF Pending, LoggingIn
    <3>2. state.hash = thread[t].hash /\ thread[t].step = "read"
      BY <1>1, <3>1 DEF Idle
    <3> QED BY <2>2, <3>1, <3>2 DEF Pending, LoggingIn
  <2> QED BY <2>1, <2>2
<1>7. Settled' => Settled
  <2>1. thread[t].step # "changed"
    BY <1>1
  <2> QED BY <1>3, <2>1 DEF Settled
<1> QED BY <1>2, <1>4, <1>5, <1>6, <1>7, FewerOldOnes

\* A login opens a session, of the current password or of an earlier one.
LEMMA LoginsOpenSessions ==
    ASSUME Types, SessionsInv, NEW t \in Threads, CreateSession(t)
    PROVE  Types' /\ SessionsInv'
<1>1. PICK k \in Tokens \ Open :
        sessions' = [sessions EXCEPT ![k] = [password |-> thread[t].hash,
                                             left |-> SessionTime]]
  BY DEF CreateSession
<1>2. /\ thread[t].step = "allowed" /\ Goto(t, Idle) /\ UNCHANGED <<hash, overtaken>>
      /\ thread[t] \in Login
  BY DEF CreateSession, Types, Idle, Changing
<1>3. /\ thread' \in [Threads -> {Idle, Changing} \cup Login] /\ thread'[t] = Idle
      /\ \A s \in Threads : s # t => thread'[s] = thread[s]
  BY <1>2, ThreadGoesOn
<1>4. /\ sessions' \in [Tokens -> Session \cup {NoSession}]
      /\ sessions'[k].password = thread[t].hash
      /\ \A j \in Tokens : j # k => sessions'[j] = sessions[j]
  <2>1. SessionTime \in 1..SessionTime
    BY TimesAssumption
  <2>2. [password |-> thread[t].hash, left |-> SessionTime] \in Session
    BY <1>2, <2>1 DEF Login, Session
  <2> QED BY <1>1, <2>2 DEF Types
<1>5. Open' \subseteq Open \cup {k}
  BY <1>4 DEF Open
<1>6. IsFiniteSet(Open')
  <2>1. IsFiniteSet(Open \cup {k})
    BY FS_AddElement DEF Types
  <2> QED BY <1>5, <2>1, FS_Subset
<1>7. Types'
  BY <1>2, <1>3, <1>4, <1>6 DEF Types
<1>8. Pending' \subseteq Pending \ {t}
  BY <1>2, <1>3 DEF Pending, LoggingIn, Idle
<1>9. Settled' => Settled
  BY <1>2, <1>3 DEF Settled
<1>10. CASE thread[t].hash = hash
  <2>1. Old' \subseteq Old
    BY <1>2, <1>4, <1>5, <1>10 DEF Old, Open
  <2> QED BY <1>2, <1>7, <1>8, <1>9, <2>1, FewerOldOnes
<1>11. CASE thread[t].hash # hash
  <2>1. t \in Pending
    BY <1>2, <1>11 DEF Pending, LoggingIn
  <2>2. Old' \subseteq Old \cup {k}
    BY <1>2, <1>4, <1>5 DEF Old, Open
  <2>3. /\ IsFiniteSet(Pending \ {t}) /\ Cardinality(Pending \ {t}) = Cardinality(Pending) - 1
        /\ IsFiniteSet(Old \cup {k}) /\ Cardinality(Old \cup {k}) <= Cardinality(Old) + 1
    <3>1. IsFiniteSet(Pending) /\ IsFiniteSet(Old) /\ Cardinality(Old) \in Nat
      BY SetsAreFinite
    <3>2. IsFiniteSet(Pending \ {t}) /\ Cardinality(Pending \ {t}) = Cardinality(Pending) - 1
      BY <2>1, <3>1, FS_RemoveElement
    <3>3. IsFiniteSet(Old \cup {k}) /\ Cardinality(Old \cup {k}) =
            IF k \in Old THEN Cardinality(Old) ELSE Cardinality(Old) + 1
      BY <3>1, FS_AddElement
    <3>4. Cardinality(Old \cup {k}) <= Cardinality(Old) + 1
      BY <3>1, <3>3
    <3> QED BY <3>2, <3>3, <3>4
  <2>4. /\ IsFiniteSet(Pending') /\ Cardinality(Pending') <= Cardinality(Pending) - 1
        /\ IsFiniteSet(Old') /\ Cardinality(Old') <= Cardinality(Old \cup {k})
    BY <1>8, <2>2, <2>3, FS_Subset
  <2>5. /\ Cardinality(Pending') \in Nat /\ Cardinality(Old') \in Nat
        /\ Cardinality(Old \cup {k}) \in Nat
        /\ Cardinality(Pending) \in Nat /\ Cardinality(Old) \in Nat /\ overtaken \in Nat
    BY <2>3, <2>4, SetsAreFinite, FS_CardinalityType DEF Types
  <2>6. Cardinality(Old') <= Cardinality(Old) + 1
    BY <2>3, <2>4, <2>5
  <2> QED BY <1>2, <1>7, <1>9, <2>4, <2>5, <2>6 DEF SessionsInv
<1> QED BY <1>10, <1>11

\* The password is replaced, and then all sessions are ended.
LEMMA ChangesEndSessions ==
    ASSUME Types, SessionsInv, NEW t \in Threads,
           RevokeAllSessions(t) \/ \E p \in Passwords : SetHash(t, p)
    PROVE  Types' /\ SessionsInv'
<1>1. ASSUME NEW p \in Passwords, SetHash(t, p) PROVE Types' /\ SessionsInv'
  <2>1. /\ thread[t].step = "idle" /\ hash' = p /\ overtaken' = Cardinality(LoggingIn)
        /\ Goto(t, Changing) /\ sessions' = sessions
    BY <1>1 DEF SetHash, Changing
  <2>2. /\ thread' \in [Threads -> {Idle, Changing} \cup Login] /\ thread'[t] = Changing
        /\ \A s \in Threads : s # t => thread'[s] = thread[s]
    BY <2>1, ThreadGoesOn
  <2>3. Pending' \subseteq LoggingIn
    BY <2>2 DEF Pending, LoggingIn, Changing
  <2>4. ~(Settled')
    BY <2>2 DEF Settled, Changing
  <2>5. Cardinality(Pending') <= overtaken' /\ overtaken' \in Nat
    BY <2>1, <2>3, SetsAreFinite, FS_Subset
  <2>6. Types'
    BY <2>1, <2>2, <2>5 DEF Types, Open
  <2> QED BY <2>4, <2>5, <2>6 DEF SessionsInv
<1>2. CASE RevokeAllSessions(t)
  <2>1. /\ sessions' = NoSessions /\ Goto(t, Idle) /\ UNCHANGED <<hash, overtaken>>
    BY <1>2 DEF RevokeAllSessions
  <2>2. /\ thread' \in [Threads -> {Idle, Changing} \cup Login] /\ thread'[t] = Idle
        /\ \A s \in Threads : s # t => thread'[s] = thread[s]
    BY <2>1, ThreadGoesOn
  <2>3. Open' = {} /\ Old' = {}
    BY <2>1 DEF Open, NoSessions, Old
  <2>4. Pending' \subseteq Pending
    BY <2>1, <2>2 DEF Pending, LoggingIn, Idle
  <2>5. Types'
    <3>1. IsFiniteSet(Open')
      BY <2>3, FS_EmptySet
    <3> QED BY <2>1, <2>2, <3>1 DEF Types, NoSessions
  <2> QED BY <2>1, <2>3, <2>4, <2>5, NoOldOnes
<1> QED BY <1>1, <1>2

\* Sessions end, and no request goes on.
LEMMA SessionsEnd ==
    ASSUME Types, SessionsInv, UNCHANGED <<hash, thread, overtaken>>,
           sessions' \in [Tokens -> Session \cup {NoSession}],
           \A k \in Open' : k \in Open /\ sessions'[k].password = sessions[k].password
    PROVE  Types' /\ SessionsInv'
<1>1. Old' \subseteq Old /\ Pending' \subseteq Pending /\ (Settled' => Settled)
  BY DEF Old, Pending, LoggingIn, Settled
<1>2. IsFiniteSet(Open')
  <2>1. Open' \subseteq Open
    OBVIOUS
  <2> QED BY <2>1, FS_Subset DEF Types
<1>3. Types'
  BY <1>2 DEF Types
<1> QED BY <1>1, <1>3, FewerOldOnes

\* Logouts, restarts and time.
LEMMA OthersEndSessions ==
    ASSUME Types, SessionsInv, (\E k \in Tokens : Logout(k)) \/ Restart \/ Tick \/ UNCHANGED vars
    PROVE  Types' /\ SessionsInv'
<1>1. ASSUME NEW k \in Tokens, Logout(k) PROVE Types' /\ SessionsInv'
  <2>1. /\ sessions' = [sessions EXCEPT ![k] = NoSession] /\ UNCHANGED <<hash, thread, overtaken>>
    BY <1>1 DEF Logout
  <2>2. sessions' \in [Tokens -> Session \cup {NoSession}]
    BY <2>1 DEF Types
  <2>3. ASSUME NEW j \in Open' PROVE j \in Open /\ sessions'[j].password = sessions[j].password
    <3>1. j \in Tokens /\ sessions'[j] # NoSession
      BY DEF Open
    <3>2. sessions'[j] = sessions[j]
      BY <2>1, <3>1 DEF Types
    <3> QED BY <3>1, <3>2 DEF Open
  <2> QED BY <2>1, <2>2, <2>3, SessionsEnd
<1>2. CASE Restart
  <2>1. /\ sessions' = NoSessions /\ UNCHANGED <<hash, overtaken>>
        /\ thread' = [t \in Threads |-> Idle]
    BY <1>2 DEF Restart
  <2>2. Open' = {} /\ Old' = {} /\ Pending' = {}
    BY <2>1 DEF Open, NoSessions, Old, Pending, LoggingIn, Idle
  <2>3. Types'
    <3>1. IsFiniteSet(Open')
      BY <2>2, FS_EmptySet
    <3> QED BY <2>1, <3>1 DEF Types, NoSessions
  <2> QED BY <2>1, <2>2, <2>3, NoOldOnes
<1>3. CASE Tick
  <2>1. /\ UNCHANGED <<hash, thread, overtaken>>
        /\ sessions' = [k \in Tokens |-> IF k \in Open /\ sessions[k].left > 1
                                         THEN [sessions[k] EXCEPT !.left = @ - 1]
                                         ELSE NoSession]
    BY <1>3 DEF Tick
  <2>2. ASSUME NEW k \in Tokens
        PROVE  /\ sessions'[k] \in Session \cup {NoSession}
               /\ k \in Open' => k \in Open /\ sessions'[k].password = sessions[k].password
    <3>1. CASE k \in Open /\ sessions[k].left > 1
      <4>1. sessions[k] \in Session
        BY <3>1 DEF Types, Open
      <4>2. /\ [sessions[k] EXCEPT !.left = @ - 1] \in Session
            /\ [sessions[k] EXCEPT !.left = @ - 1].password = sessions[k].password
        BY <3>1, <4>1, TimesAssumption DEF Session
      <4> QED BY <2>1, <3>1, <4>2
    <3>2. CASE ~(k \in Open /\ sessions[k].left > 1)
      BY <2>1, <3>2 DEF Open
    <3> QED BY <3>1, <3>2
  <2>3. sessions' \in [Tokens -> Session \cup {NoSession}]
    BY <2>1, <2>2
  <2>4. \A k \in Open' : k \in Open /\ sessions'[k].password = sessions[k].password
    BY <2>2 DEF Open
  <2> QED BY <2>1, <2>3, <2>4, SessionsEnd
<1>4. CASE UNCHANGED vars
  BY <1>4 DEF vars, Types, SessionsInv, Old, Pending, Settled, Open, LoggingIn
<1> QED BY <1>1, <1>2, <1>3, <1>4


-----------------------------------------------------------------------------
(* Failed logins                                                           *)

\* What AddressInv says of the sizes.
LEMMA SizesAre ==
    ASSUME NEW a, AddressInv(a)
    PROVE  /\ Len(attempts[a]) \in Nat /\ Len(failures[a]) \in Nat /\ Forgotten(a) \in Nat
           /\ lockouts[a] \in Nat
           /\ \A i \in 1..Len(failures[a]) : failures[a][i] \in Nat /\ failures[a][i] >= 1
<1>1. Len(attempts[a]) \in Nat /\ Len(failures[a]) \in Nat
  BY LenProperties DEF AddressInv
<1>2. lockouts[a] \in Nat /\ LockTime \in Nat /\ Window \in Nat
  BY TimesAssumption DEF AddressInv
<1> QED BY <1>1, <1>2 DEF AddressInv, Forgotten

\* As long as an address is not locked out nothing is forgotten.
LEMMA UnlockedRemembers ==
    ASSUME NEW a, AddressInv(a), ~Locked(a)
    PROVE  Len(failures[a]) = Len(attempts[a])
<1>1. lockouts[a] = 0 /\ Forgotten(a) \in Nat
  BY SizesAre DEF Locked
<1>2. CASE Forgotten(a) >= 1
  <2>1. 1 \in 1..Forgotten(a) /\ 1 \in 1..Len(failures[a])
    BY <1>2, SizesAre DEF Forgotten
  <2>2. failures[a][1] <= 0 /\ failures[a][1] \in Nat /\ failures[a][1] >= 1
    BY <1>1, <2>1, SizesAre DEF AddressInv
  <2> QED BY <2>2
<1>3. CASE Forgotten(a) = 0
  BY <1>3, SizesAre DEF Forgotten
<1> QED BY <1>1, <1>2, <1>3

\* Steps that do not touch the failures of an address and admit no login of it
\* while it is locked out.
LEMMA AddressUntouched ==
    ASSUME Types, NEW a, AddressInv(a), attempts'[a] = attempts[a],
           failures'[a] = failures[a], lockouts'[a] = lockouts[a],
           Locked(a) => Admitted(a)' \subseteq Admitted(a)
    PROVE  AddressInv(a)'
<1>1. CASE Locked(a)
  <2>1. /\ Cardinality(Admitted(a)') <= Cardinality(Admitted(a))
        /\ IsFiniteSet(Admitted(a)') /\ Cardinality(Admitted(a)) \in Nat
    BY <1>1, SetsAreFinite, FS_Subset
  <2>2. Cardinality(Admitted(a)') \in Nat /\ Cardinality(Threads) \in Nat
    BY <2>1, FS_CardinalityType, TimesAssumption
  <2>3. Len(failures[a]) \in Nat /\ MaxAttempts \in Nat
    BY SizesAre, TimesAssumption
  <2>4. Len(failures[a]) + Cardinality(Admitted(a)')
            <= MaxAttempts + Cardinality(Threads) - 1
    <3>1. Len(failures[a]) + Cardinality(Admitted(a))
            <= MaxAttempts + Cardinality(Threads) - 1
      BY <1>1 DEF AddressInv
    <3> QED BY <2>1, <2>2, <2>3, <3>1
  <2> QED BY <2>4 DEF AddressInv, Locked, Forgotten, Ordered
<1>2. CASE ~Locked(a)
  BY <1>2 DEF AddressInv, Locked, Forgotten, Ordered
<1> QED BY <1>1, <1>2

\* A login of the address fails.
LEMMA AddressFails ==
    ASSUME Types, LockTime >= Window, NEW a, AddressInv(a), NEW t \in Admitted(a),
           Admitted(a)' \subseteq Admitted(a) \ {t},
           failures'[a] = Append(failures[a], Window),
           \/ /\ LocksAfter(Len(Append(attempts[a], Window)))
              /\ lockouts'[a] = LockTime /\ attempts'[a] = <<>>
           \/ /\ ~LocksAfter(Len(Append(attempts[a], Window)))
              /\ lockouts'[a] = lockouts[a] /\ attempts'[a] = Append(attempts[a], Window)
    PROVE  AddressInv(a)'
<1> DEFINE s == attempts[a]
           f == failures[a]
           failed == Append(f, Window)
           tried == Append(s, Window)
<1>0. /\ Window \in Nat /\ Window >= 1 /\ LockTime \in Nat /\ LockTime >= 1
      /\ MaxAttempts \in Nat /\ MaxAttempts >= 1
  BY TimesAssumption
<1>1. /\ s \in Seq(Nat) /\ f \in Seq(Nat) /\ Len(s) \in Nat /\ Len(f) \in Nat
      /\ Len(s) <= Len(f) /\ Len(s) < MaxAttempts
  BY SizesAre DEF AddressInv
<1>2. /\ failed \in Seq(Nat) /\ Len(failed) = Len(f) + 1 /\ failed[Len(f) + 1] = Window
      /\ \A i \in 1..Len(f) : failed[i] = f[i]
      /\ tried \in Seq(Nat) /\ Len(tried) = Len(s) + 1 /\ tried[Len(s) + 1] = Window
      /\ \A i \in 1..Len(s) : tried[i] = s[i]
  BY <1>0, <1>1, AppendProperties
<1>3. \A i \in 1..Len(f) : f[i] \in 1..Window
  BY DEF AddressInv
<1>4. Ordered(f) /\ \A i \in 1..Len(s) : s[i] = f[i + (Len(f) - Len(s))]
  BY DEF AddressInv, Forgotten
<1>5. \A i \in 1..(Len(f) - Len(s)) : f[i] <= lockouts[a]
  BY DEF AddressInv, Forgotten
<1>6. Locked(a) => Len(f) + Cardinality(Admitted(a))
                     <= MaxAttempts + Cardinality(Threads) - 1
  BY DEF AddressInv
<1>7. ~Locked(a) => Len(f) = Len(s)
  BY UnlockedRemembers
<1>8. lockouts[a] \in 0..LockTime
  BY DEF AddressInv
<1> HIDE DEF s, f, failed, tried
<1>9. \A i \in 1..Len(failed) : failed[i] \in 1..Window
  <2> TAKE i \in 1..Len(failed)
  <2>1. i \in 1..Len(f) \/ i = Len(f) + 1
    BY <1>1, <1>2
  <2>2. CASE i \in 1..Len(f)
    BY <1>2, <1>3, <2>2
  <2>3. CASE i = Len(f) + 1
    <3>1. failed[i] = Window
      BY <1>2, <2>3
    <3> QED BY <1>0, <3>1
  <2> QED BY <2>1, <2>2, <2>3
<1>10. Ordered(failed)
  <2> SUFFICES ASSUME NEW i \in 1..Len(failed), NEW j \in 1..Len(failed), i <= j
               PROVE  failed[i] <= failed[j]
    BY DEF Ordered
  <2>1. CASE j = Len(f) + 1
    BY <1>0, <1>2, <1>9, <2>1
  <2>2. CASE j # Len(f) + 1
    <3>1. i \in 1..Len(f) /\ j \in 1..Len(f)
      <4>1. Len(f) \in Nat /\ Len(failed) = Len(f) + 1
        BY <1>1, <1>2
      <4> QED BY <2>2, <4>1
    <3> QED BY <1>2, <1>4, <3>1 DEF Ordered
  <2> QED BY <2>1, <2>2
<1>11. /\ Cardinality(Admitted(a)') \in Nat /\ Cardinality(Admitted(a)) \in Nat
       /\ Cardinality(Threads) \in Nat
       /\ Cardinality(Admitted(a)') <= Cardinality(Admitted(a)) - 1
       /\ Cardinality(Admitted(a)) <= Cardinality(Threads)
  <2>1. /\ IsFiniteSet(Admitted(a)) /\ IsFiniteSet(Threads) /\ Admitted(a) \subseteq Threads
    BY SetsAreFinite, TimesAssumption DEF Admitted
  <2>2. IsFiniteSet(Admitted(a) \ {t})
        /\ Cardinality(Admitted(a) \ {t}) = Cardinality(Admitted(a)) - 1
    BY <2>1, FS_RemoveElement
  <2>3. IsFiniteSet(Admitted(a)') /\ Cardinality(Admitted(a)') <= Cardinality(Admitted(a) \ {t})
    BY <2>2, FS_Subset
  <2>4. Cardinality(Admitted(a)) <= Cardinality(Threads)
    BY <2>1, FS_Subset
  <2> QED BY <2>1, <2>2, <2>3, <2>4, FS_CardinalityType
<1>a. CASE LocksAfter(Len(tried))
  <2>1. lockouts'[a] = LockTime /\ attempts'[a] = <<>> /\ failures'[a] = failed
    BY <1>a DEF tried, s, f, failed
  <2>2. Len(<<>>) = 0 /\ <<>> \in Seq(Nat)
    BY EmptySeq
  <2>3. Len(failed) + Cardinality(Admitted(a)') <= MaxAttempts + Cardinality(Threads) - 1
    <3>1. CASE Locked(a)
      BY <1>0, <1>1, <1>2, <1>6, <1>11, <3>1
    <3>2. CASE ~Locked(a)
      <4>1. Len(f) + 1 <= MaxAttempts
        BY <1>0, <1>1, <1>7, <3>2
      <4> QED BY <1>0, <1>1, <1>2, <1>11, <4>1
    <3> QED BY <3>1, <3>2
  <2>4. Forgotten(a)' = Len(failed)
    BY <1>1, <1>2, <2>1, <2>2 DEF Forgotten
  <2>5. \A i \in 1..Len(failed) : failed[i] <= LockTime
    BY <1>0, <1>9
  <2> QED BY <1>0, <1>1, <1>2, <1>9, <1>10, <2>1, <2>2, <2>3, <2>4, <2>5 DEF AddressInv, Locked
<1>b. CASE ~LocksAfter(Len(tried))
  <2>1. lockouts'[a] = lockouts[a] /\ attempts'[a] = tried /\ failures'[a] = failed
    BY <1>b DEF tried, s, f, failed
  <2>2. Len(tried) < MaxAttempts
    BY <1>0, <1>1, <1>2, <1>b DEF LocksAfter
  <2>3. Forgotten(a)' = Len(f) - Len(s)
    <3>1. Forgotten(a)' = Len(failed) - Len(tried)
      BY <2>1 DEF Forgotten
    <3> QED BY <1>1, <1>2, <3>1
  <2>4. \A i \in 1..Len(tried) : tried[i] = failed[i + (Len(f) - Len(s))]
    <3> TAKE i \in 1..Len(tried)
    <3>1. CASE i = Len(s) + 1
      BY <1>1, <1>2, <3>1
    <3>2. CASE i # Len(s) + 1
      <4>1. i \in 1..Len(s) /\ i + (Len(f) - Len(s)) \in 1..Len(f)
        BY <1>1, <1>2, <3>2
      <4> QED BY <1>2, <1>4, <4>1
    <3> QED BY <3>1, <3>2
  <2>5. \A i \in 1..(Len(f) - Len(s)) : failed[i] <= lockouts[a]
    <3> TAKE i \in 1..(Len(f) - Len(s))
    <3>1. i \in 1..Len(f)
      BY <1>1
    <3> QED BY <1>2, <1>5, <3>1
  <2>6. Locked(a) =>
            Len(failed) + Cardinality(Admitted(a)') <= MaxAttempts + Cardinality(Threads) - 1
    BY <1>0, <1>1, <1>2, <1>6, <1>11
  <2>7. Len(tried) <= Len(failed)
    BY <1>1, <1>2
  <2> QED BY <1>2, <1>8, <1>9, <1>10, <2>1, <2>2, <2>3, <2>4, <2>5, <2>6, <2>7
          DEF AddressInv, Locked
<1> QED BY <1>a, <1>b


\* Time goes on: the oldest failures do not count any more, and a lockout that
\* is over has outlived all the failures before it.
LEMMA AddressAges ==
    ASSUME Types, NEW a, AddressInv(a), attempts'[a] = Aged(attempts[a]),
           failures'[a] = Aged(failures[a]), lockouts'[a] = Less(lockouts[a]),
           Admitted(a)' = Admitted(a)
    PROVE  AddressInv(a)'
<1> DEFINE s == attempts[a]
           f == failures[a]
           d == Len(f) - Len(s)
<1>0. /\ Window \in Nat /\ LockTime \in Nat /\ MaxAttempts \in Nat
      /\ lockouts[a] \in Nat /\ lockouts[a] <= LockTime
  BY TimesAssumption, SizesAre DEF AddressInv
<1>1. /\ s \in Seq(Nat) /\ f \in Seq(Nat) /\ Len(s) \in Nat /\ Len(f) \in Nat /\ d \in Nat
      /\ Len(s) < MaxAttempts
  BY SizesAre DEF AddressInv, Forgotten
<1>2. /\ \A i \in 1..Len(f) : f[i] \in Nat /\ f[i] >= 1 /\ f[i] <= Window
      /\ \A i \in 1..Len(f), j \in 1..Len(f) : i <= j => f[i] <= f[j]
  BY <1>0 DEF AddressInv, Ordered
<1>3. \A i \in 1..Len(s) : s[i] = f[i + d]
  BY DEF AddressInv, Forgotten
<1>4. \A i \in 1..d : f[i] <= lockouts[a]
  BY DEF AddressInv, Forgotten
<1>5. Locked(a) => Len(f) + Cardinality(Admitted(a))
                     <= MaxAttempts + Cardinality(Threads) - 1
  BY DEF AddressInv
<1>6. Ordered(f)
  BY DEF AddressInv
<1>s. failures'[a] = Aged(f) /\ attempts'[a] = Aged(s)
  OBVIOUS
<1> HIDE DEF s, f
<1>7. Ordered(s)
  <2> SUFFICES ASSUME NEW i \in 1..Len(s), NEW j \in 1..Len(s), i <= j
               PROVE  s[i] <= s[j]
    BY DEF Ordered
  <2>1. i + d \in 1..Len(f) /\ j + d \in 1..Len(f) /\ i + d <= j + d
    BY <1>1
  <2> QED BY <1>2, <1>3, <2>1
<1>8. PICK u \in 0..Len(f) :
        /\ \A n \in 1..Len(f) : f[n] <= 1 <=> n <= u
        /\ Aged(f) \in Seq(Nat) /\ Len(Aged(f)) = Len(f) - u
        /\ \A n \in 1..Len(Aged(f)) : Aged(f)[n] = f[n + u] - 1
  BY <1>1, <1>6, AgedIs
<1>9. PICK v \in 0..Len(s) :
        /\ \A n \in 1..Len(s) : s[n] <= 1 <=> n <= v
        /\ Aged(s) \in Seq(Nat) /\ Len(Aged(s)) = Len(s) - v
        /\ \A n \in 1..Len(Aged(s)) : Aged(s)[n] = s[n + v] - 1
  BY <1>1, <1>7, AgedIs
<1> HIDE DEF d
<1>10. d = Len(f) - Len(s)
  BY DEF d
\* The same failures are over in both lists.
<1>11. \A n \in 1..Len(s) : n <= v <=> n + d <= u
  <2> TAKE n \in 1..Len(s)
  <2>1. n + d \in 1..Len(f) /\ s[n] = f[n + d]
    <3>1. n + d \in 1..Len(f)
      BY <1>1, <1>10
    <3> QED BY <1>3, <3>1
  <2> QED BY <1>8, <1>9, <2>1
<1>12. \/ u <= d /\ v = 0
       \/ u > d /\ v = u - d
  <2>1. u \in Nat /\ v \in Nat /\ u <= Len(f) /\ v <= Len(s)
    BY <1>1, <1>8, <1>9
  <2>2. CASE u <= d
    <3>1. v >= 1 => 1 \in 1..Len(s) /\ 1 <= v
      BY <1>1, <2>1
    <3>2. v >= 1 => 1 + d <= u
      BY <1>11, <3>1
    <3> QED BY <1>1, <2>1, <2>2, <3>2
  <2>3. CASE u > d
    <3>1. u - d \in 1..Len(s) /\ (u - d) + d <= u
      BY <1>1, <1>10, <2>1, <2>3
    <3>2. u - d <= v
      BY <1>11, <3>1
    <3>3. v \in 1..Len(s)
      BY <1>1, <2>1, <3>1, <3>2
    <3>4. v + d <= u
      BY <1>11, <3>3
    <3> QED BY <1>1, <2>1, <2>3, <3>2, <3>4
  <2> QED BY <1>1, <2>1, <2>2, <2>3
<1> DEFINE left == Len(f) - u
           e == left - (Len(s) - v)
<1>13. /\ u \in Nat /\ v \in Nat /\ left \in Nat /\ e \in Nat /\ Len(s) - v \in Nat
       /\ e + u = d + v
  <2>1. u \in Nat /\ v \in Nat /\ u <= Len(f) /\ v <= Len(s)
    BY <1>1, <1>8, <1>9
  <2> QED BY <1>1, <1>10, <1>12, <2>1
<1>14. e >= 1 => v = 0 /\ e + u = d
  BY <1>1, <1>10, <1>12, <1>13
<1>15. Forgotten(a)' = e
  BY <1>s, <1>8, <1>9 DEF Forgotten
<1> HIDE DEF left, e
<1>16. Len(Aged(f)) = left /\ Len(Aged(s)) = Len(s) - v /\ left = Len(f) - u
       /\ e = left - (Len(s) - v)
  BY <1>8, <1>9 DEF left, e
<1>17. \A i \in 1..left : i + u \in 1..Len(f) /\ f[i + u] > 1 /\ Aged(f)[i] = f[i + u] - 1
  <2> TAKE i \in 1..left
  <2>1. i + u \in 1..Len(f) /\ ~(i + u <= u)
    BY <1>1, <1>13, <1>16
  <2>2. f[i + u] \in Nat /\ ~(f[i + u] <= 1)
    BY <1>2, <1>8, <2>1
  <2> QED BY <1>8, <1>16, <2>1, <2>2
<1>18. \A i \in 1..left : Aged(f)[i] \in 1..Window
  <2> TAKE i \in 1..left
  <2>1. /\ i + u \in 1..Len(f) /\ f[i + u] > 1 /\ Aged(f)[i] = f[i + u] - 1
        /\ f[i + u] \in Nat /\ f[i + u] <= Window
    BY <1>2, <1>17
  <2> QED BY <1>0, <2>1
<1>19. Ordered(Aged(f))
  <2> SUFFICES ASSUME NEW i \in 1..left, NEW j \in 1..left, i <= j
               PROVE  Aged(f)[i] <= Aged(f)[j]
    BY <1>16 DEF Ordered
  <2>1. i + u \in 1..Len(f) /\ j + u \in 1..Len(f) /\ i + u <= j + u
    <3>1. i + u \in 1..Len(f) /\ j + u \in 1..Len(f)
      BY <1>17
    <3>2. i + u <= j + u
      BY <1>13
    <3> QED BY <3>1, <3>2
  <2>2. f[i + u] <= f[j + u] /\ f[i + u] \in Nat /\ f[j + u] \in Nat
    BY <1>2, <2>1
  <2> QED BY <1>17, <2>2
<1>20. \A i \in 1..(Len(s) - v) : Aged(s)[i] = Aged(f)[i + e]
  <2> TAKE i \in 1..(Len(s) - v)
  <2>1. i + e \in 1..left /\ i + v \in 1..Len(s) /\ (i + e) + u = (i + v) + d
    <3>1. left = (Len(s) - v) + e
      BY <1>1, <1>13, <1>16
    <3>2. i + e \in 1..left
      BY <1>13, <3>1
    <3>3. i + v \in 1..Len(s)
      BY <1>1, <1>13
    <3>4. (i + e) + u = (i + v) + d
      BY <1>1, <1>13
    <3> QED BY <3>2, <3>3, <3>4
  <2>2. Aged(s)[i] = s[i + v] - 1 /\ s[i + v] = f[(i + v) + d]
    BY <1>3, <1>9, <1>16, <2>1
  <2>3. Aged(f)[i + e] = f[(i + e) + u] - 1
    BY <1>17, <2>1
  <2> QED BY <2>1, <2>2, <2>3
<1>21. \A i \in 1..e : Aged(f)[i] <= lockouts'[a]
  <2> TAKE i \in 1..e
  <2>1. e + u = d /\ i + u \in 1..d /\ i \in 1..left
    BY <1>1, <1>13, <1>14, <1>16
  <2>2. f[i + u] <= lockouts[a] /\ f[i + u] > 1 /\ Aged(f)[i] = f[i + u] - 1
        /\ f[i + u] \in Nat
    BY <1>2, <1>4, <1>17, <2>1
  <2>3. lockouts'[a] = lockouts[a] - 1
    BY <1>0, <2>2 DEF Less
  <2> QED BY <1>0, <2>2, <2>3
<1>22. lockouts'[a] \in 0..LockTime /\ (lockouts'[a] > 0 => lockouts[a] > 0)
  BY <1>0 DEF Less
<1>23. lockouts'[a] > 0 => left + Cardinality(Admitted(a)')
                              <= MaxAttempts + Cardinality(Threads) - 1
  <2>1. left <= Len(f) /\ Cardinality(Admitted(a)) \in Nat /\ Cardinality(Threads) \in Nat
    <3>1. left <= Len(f)
      BY <1>1, <1>13, <1>16
    <3>2. Cardinality(Admitted(a)) \in Nat /\ Cardinality(Threads) \in Nat
      BY SetsAreFinite, FS_CardinalityType, TimesAssumption
    <3> QED BY <3>1, <3>2
  <2> QED BY <1>0, <1>1, <1>5, <1>13, <1>22, <2>1 DEF Locked
<1>24. Len(s) - v < MaxAttempts /\ Len(s) - v <= left
  BY <1>0, <1>1, <1>13, <1>16
<1> QED BY <1>s, <1>8, <1>9, <1>15, <1>16, <1>18, <1>19, <1>20, <1>21, <1>22, <1>23, <1>24
        DEF AddressInv, Locked


\* Steps that record no failure.
LEMMA FailuresUntouched ==
    ASSUME Types, FailuresInv, UNCHANGED <<attempts, failures, lockouts>>,
           \A a \in Addresses : Locked(a) => Admitted(a)' \subseteq Admitted(a)
    PROVE  FailuresInv'
<1> SUFFICES ASSUME LockTime >= Window PROVE FailuresInv'
  BY DEF FailuresInv
<1>1. \A a \in Addresses : AddressInv(a)'
  BY AddressUntouched DEF FailuresInv
<1> QED BY <1>1 DEF FailuresInv

\* The steps of the requests.
LEMMA RequestsKeepFailures ==
    ASSUME Types, FailuresInv, NEW t \in Threads,
           \/ \E a \in Addresses : ReadHash(t, a)
           \/ \E p \in Passwords : SetHash(t, p)
           \/ LoginAllowed(t) \/ InvalidRequest(t) \/ RecordFailedLogin(t)
           \/ CreateSession(t) \/ RevokeAllSessions(t)
    PROVE  FailuresInv'
<1>0. thread \in [Threads -> {Idle, Changing} \cup Login]
  BY DEF Types
<1>a. ASSUME UNCHANGED <<attempts, failures, lockouts>>, NEW state, Goto(t, state),
             state.step # "allowed"
      PROVE  FailuresInv'
  <2>1. \A s \in Threads : thread'[s] = IF s = t THEN state ELSE thread[s]
    BY <1>0, <1>a DEF Goto
  <2>2. \A a \in Addresses : Admitted(a)' \subseteq Admitted(a)
    BY <1>a, <2>1 DEF Admitted
  <2> QED BY <1>a, <2>2, FailuresUntouched
<1>1. ASSUME NEW a \in Addresses, ReadHash(t, a) PROVE FailuresInv'
  <2> DEFINE state == [step |-> "read", address |-> a, hash |-> hash]
  <2>1. state.step # "allowed"
    OBVIOUS
  <2>2. Goto(t, state) /\ UNCHANGED <<attempts, failures, lockouts>>
    BY <1>1 DEF ReadHash
  <2> HIDE DEF state
  <2> QED BY <1>a, <2>1, <2>2
<1>2. ASSUME NEW p \in Passwords, SetHash(t, p) PROVE FailuresInv'
  <2>1. Goto(t, Changing) /\ UNCHANGED <<attempts, failures, lockouts>>
    BY <1>2 DEF SetHash, Changing
  <2>2. Changing.step # "allowed"
    BY DEF Changing
  <2> QED BY <1>a, <2>1, <2>2
<1>3. CASE InvalidRequest(t) \/ CreateSession(t) \/ RevokeAllSessions(t)
  <2>1. Goto(t, Idle) /\ UNCHANGED <<attempts, failures, lockouts>>
    BY <1>3 DEF InvalidRequest, CreateSession, RevokeAllSessions
  <2>2. Idle.step # "allowed"
    BY DEF Idle
  <2> QED BY <1>a, <2>1, <2>2
<1>4. CASE LoginAllowed(t)
  <2>1. thread[t] \in Login /\ UNCHANGED <<attempts, failures, lockouts>>
    BY <1>0, <1>4 DEF LoginAllowed, Idle, Changing
  <2>2. CASE Locked(thread[t].address)
    <3>1. Goto(t, Idle)
      BY <1>4, <2>2 DEF LoginAllowed
    <3>2. Idle.step # "allowed"
      BY DEF Idle
    <3> QED BY <1>a, <2>1, <3>1, <3>2
  <2>3. CASE ~Locked(thread[t].address)
    <3>1. thread' = [thread EXCEPT ![t] = [thread[t] EXCEPT !.step = "allowed"]]
      BY <1>4, <2>3 DEF LoginAllowed, Goto
    <3>2. \A s \in Threads : s # t => thread'[s] = thread[s]
      BY <1>0, <3>1
    <3>3. thread'[t].address = thread[t].address
      BY <1>0, <2>1, <3>1 DEF Login
    <3>4. \A a \in Addresses : Locked(a) => Admitted(a)' \subseteq Admitted(a)
      BY <2>3, <3>2, <3>3 DEF Admitted
    <3> QED BY <2>1, <3>4, FailuresUntouched
  <2> QED BY <2>2, <2>3
<1>5. CASE RecordFailedLogin(t)
  <2> SUFFICES ASSUME LockTime >= Window PROVE FailuresInv'
    BY DEF FailuresInv
  <2>0. PICK b : b = thread[t].address
    OBVIOUS
  <2>1. /\ thread[t] \in Login /\ thread[t].step = "allowed" /\ Goto(t, Idle)
    BY <1>0, <1>5 DEF RecordFailedLogin, Idle, Changing
  <2>2. b \in Addresses /\ t \in Admitted(b)
    BY <2>0, <2>1 DEF Login, Admitted
  <2>3. /\ failures' = [failures EXCEPT ![b] = Append(failures[b], Window)]
        /\ \/ /\ LocksAfter(Len(Append(attempts[b], Window)))
              /\ lockouts' = [lockouts EXCEPT ![b] = LockTime]
              /\ attempts' = [attempts EXCEPT ![b] = <<>>]
           \/ /\ ~LocksAfter(Len(Append(attempts[b], Window)))
              /\ lockouts' = lockouts
              /\ attempts' = [attempts EXCEPT ![b] = Append(attempts[b], Window)]
    BY <1>5, <2>0 DEF RecordFailedLogin
  <2>4. \A s \in Threads : thread'[s] = IF s = t THEN Idle ELSE thread[s]
    BY <1>0, <2>1 DEF Goto
  <2>5. Admitted(b)' \subseteq Admitted(b) \ {t}
        /\ \A a \in Addresses : Admitted(a)' \subseteq Admitted(a)
    <3>1. ASSUME NEW a, NEW s \in Admitted(a)' PROVE s \in Admitted(a) /\ s # t
      <4>1. s \in Threads /\ thread'[s].step = "allowed" /\ thread'[s].address = a
        BY DEF Admitted
      <4>2. s # t
        BY <2>4, <4>1 DEF Idle
      <4> QED BY <2>4, <4>1, <4>2 DEF Admitted
    <3> QED BY <3>1
  <2>6. /\ attempts = [a \in Addresses |-> attempts[a]]
        /\ failures = [a \in Addresses |-> failures[a]]
        /\ lockouts = [a \in Addresses |-> lockouts[a]]
        /\ \A a \in Addresses : AddressInv(a)
    BY DEF FailuresInv
  <2>7. AddressInv(b)'
    <3>1. failures'[b] = Append(failures[b], Window)
      BY <2>2, <2>3, <2>6
    <3>2. \/ /\ LocksAfter(Len(Append(attempts[b], Window)))
             /\ lockouts'[b] = LockTime /\ attempts'[b] = <<>>
          \/ /\ ~LocksAfter(Len(Append(attempts[b], Window)))
             /\ lockouts'[b] = lockouts[b] /\ attempts'[b] = Append(attempts[b], Window)
      BY <2>2, <2>3, <2>6
    <3>3. AddressInv(b) /\ t \in Admitted(b) /\ Admitted(b)' \subseteq Admitted(b) \ {t}
      BY <2>2, <2>5, <2>6
    <3>4. CASE /\ LocksAfter(Len(Append(attempts[b], Window)))
               /\ lockouts'[b] = LockTime /\ attempts'[b] = <<>>
      BY <3>1, <3>3, <3>4, AddressFails
    <3>5. CASE /\ ~LocksAfter(Len(Append(attempts[b], Window)))
               /\ lockouts'[b] = lockouts[b] /\ attempts'[b] = Append(attempts[b], Window)
      BY <3>1, <3>3, <3>5, AddressFails
    <3> QED BY <3>2, <3>4, <3>5
  <2>8. ASSUME NEW a \in Addresses, a # b PROVE AddressInv(a)'
    <3>1. attempts'[a] = attempts[a] /\ failures'[a] = failures[a] /\ lockouts'[a] = lockouts[a]
      BY <2>2, <2>3, <2>6, <2>8
    <3> QED BY <2>5, <2>6, <3>1, AddressUntouched
  <2>9. /\ attempts' = [a \in Addresses |-> attempts'[a]]
        /\ failures' = [a \in Addresses |-> failures'[a]]
        /\ lockouts' = [a \in Addresses |-> lockouts'[a]]
    BY <2>3, <2>6
  <2>10. \A a \in Addresses : AddressInv(a)'
    BY <2>7, <2>8
  <2> QED BY <2>9, <2>10 DEF FailuresInv
<1> QED BY <1>1, <1>2, <1>3, <1>4, <1>5

\* An address without failures.
LEMMA NothingFailedYet ==
    ASSUME NEW a, attempts[a] = <<>>, failures[a] = <<>>, lockouts[a] = 0
    PROVE  AddressInv(a)
<1>1. <<>> \in Seq(Nat) /\ Len(<<>>) = 0
  BY EmptySeq
<1>2. 0 \in 0..LockTime /\ 0 < MaxAttempts
  BY TimesAssumption
<1> QED BY <1>1, <1>2 DEF AddressInv, Ordered, Locked, Forgotten

\* The same after a step.
LEMMA NothingFailed ==
    ASSUME NEW a, attempts'[a] = <<>>, failures'[a] = <<>>, lockouts'[a] = 0
    PROVE  AddressInv(a)'
<1>1. <<>> \in Seq(Nat) /\ Len(<<>>) = 0
  BY EmptySeq
<1>2. 0 \in 0..LockTime /\ 0 < MaxAttempts
  BY TimesAssumption
<1> QED BY <1>1, <1>2 DEF AddressInv, Ordered, Locked, Forgotten

\* Logouts, restarts and time.
LEMMA OthersKeepFailures ==
    ASSUME Types, FailuresInv, (\E k \in Tokens : Logout(k)) \/ Restart \/ Tick \/ UNCHANGED vars
    PROVE  FailuresInv'
<1>1. CASE (\E k \in Tokens : Logout(k)) \/ UNCHANGED vars
  <2>1. UNCHANGED <<attempts, failures, lockouts, thread>>
    BY <1>1 DEF Logout, vars
  <2>2. \A a \in Addresses : Admitted(a)' \subseteq Admitted(a)
    BY <2>1 DEF Admitted
  <2> QED BY <2>1, <2>2, FailuresUntouched
<1>2. CASE Restart
  <2> SUFFICES ASSUME LockTime >= Window PROVE FailuresInv'
    BY DEF FailuresInv
  <2>1. /\ attempts' = [a \in Addresses |-> <<>>] /\ failures' = [a \in Addresses |-> <<>>]
        /\ lockouts' = [a \in Addresses |-> 0]
    BY <1>2 DEF Restart
  <2>2. ASSUME NEW a \in Addresses PROVE AddressInv(a)'
    <3>1. attempts'[a] = <<>> /\ failures'[a] = <<>> /\ lockouts'[a] = 0
      BY <2>1
    <3> QED BY <3>1, NothingFailed
  <2> QED BY <2>1, <2>2 DEF FailuresInv
<1>3. CASE Tick
  <2> SUFFICES ASSUME LockTime >= Window PROVE FailuresInv'
    BY DEF FailuresInv
  <2>1. /\ attempts' = [a \in Addresses |-> Aged(attempts[a])]
        /\ failures' = [a \in Addresses |-> Aged(failures[a])]
        /\ lockouts' = [a \in Addresses |-> Less(lockouts[a])] /\ thread' = thread
    BY <1>3 DEF Tick
  <2>2. ASSUME NEW a \in Addresses PROVE AddressInv(a)'
    <3>1. /\ attempts'[a] = Aged(attempts[a]) /\ failures'[a] = Aged(failures[a])
          /\ lockouts'[a] = Less(lockouts[a])
      BY <2>1
    <3>2. AddressInv(a) /\ Admitted(a)' = Admitted(a)
      BY <2>1 DEF FailuresInv, Admitted
    <3> QED BY <3>1, <3>2, AddressAges
  <2>3. /\ attempts' = [a \in Addresses |-> attempts'[a]]
        /\ failures' = [a \in Addresses |-> failures'[a]]
        /\ lockouts' = [a \in Addresses |-> lockouts'[a]]
    BY <2>1
  <2> QED BY <2>2, <2>3 DEF FailuresInv
<1> QED BY <1>1, <1>2, <1>3

-----------------------------------------------------------------------------
(* The invariant of the specification                                      *)

AuthInv == Types /\ SessionsInv /\ FailuresInv

\* The initial states.
LEMMA AuthInvHolds == Init => AuthInv
<1> SUFFICES ASSUME Init PROVE AuthInv
  OBVIOUS
<1>1. Open = {} /\ Old = {} /\ Pending = {}
  BY DEF Init, Open, NoSessions, Old, Pending, LoggingIn, Idle
<1>2. Types
  <2>1. IsFiniteSet(Open)
    BY <1>1, FS_EmptySet
  <2> QED BY <2>1 DEF Init, Types, NoSessions
<1>3. SessionsInv
  <2>1. Cardinality(Old) = 0 /\ Cardinality(Pending) = 0 /\ overtaken = 0
    BY <1>1, FS_EmptySet DEF Init
  <2> QED BY <2>1 DEF SessionsInv
<1>4. FailuresInv
  <2>1. /\ attempts = [a \in Addresses |-> <<>>] /\ failures = [a \in Addresses |-> <<>>]
        /\ lockouts = [a \in Addresses |-> 0]
    BY DEF Init
  <2>2. ASSUME NEW a \in Addresses PROVE AddressInv(a)
    <3>1. attempts[a] = <<>> /\ failures[a] = <<>> /\ lockouts[a] = 0
      BY <2>1
    <3> QED BY <3>1, NothingFailedYet
  <2> QED BY <2>1, <2>2 DEF FailuresInv
<1> QED BY <1>2, <1>3, <1>4 DEF AuthInv

\* Every step.
LEMMA AuthInvStays == AuthInv /\ [Next]_vars => AuthInv'
<1> SUFFICES ASSUME AuthInv, [Next]_vars PROVE AuthInv'
  OBVIOUS
<1> USE DEF AuthInv
<1>1. ASSUME NEW t \in Threads,
             \/ \E a \in Addresses : ReadHash(t, a)
             \/ LoginAllowed(t) \/ InvalidRequest(t) \/ RecordFailedLogin(t)
      PROVE  AuthInv'
  BY <1>1, LoginsKeepSessions, RequestsKeepFailures
<1>2. ASSUME NEW t \in Threads, CreateSession(t) PROVE AuthInv'
  BY <1>2, LoginsOpenSessions, RequestsKeepFailures
<1>3. ASSUME NEW t \in Threads, RevokeAllSessions(t) \/ \E p \in Passwords : SetHash(t, p)
      PROVE  AuthInv'
  BY <1>3, ChangesEndSessions, RequestsKeepFailures
<1>4. CASE (\E k \in Tokens : Logout(k)) \/ Restart \/ Tick \/ UNCHANGED vars
  BY <1>4, OthersEndSessions, OthersKeepFailures
<1> QED BY <1>1, <1>2, <1>3, <1>4 DEF Next

\* So it is an invariant.
LEMMA AuthInvAlways == Spec => []AuthInv
BY AuthInvHolds, AuthInvStays, PTL DEF Spec

-----------------------------------------------------------------------------
(* Theorems                                                                *)

\* When a change of the password is over, only logins that it overtook can
\* have a session of the old one (set_admin_password_hash, revoke_all_sessions).
THEOREM OldSessionsAreFew == Spec => []OldSessionsWereOvertaken
<1>1. AuthInv => OldSessionsWereOvertaken
  <2> SUFFICES ASSUME AuthInv, Settled PROVE Cardinality(Old) <= overtaken
    BY DEF OldSessionsWereOvertaken, Settled, Old
  <2>1. Cardinality(Old) \in Nat /\ Cardinality(Pending) \in Nat /\ overtaken \in Nat
    BY SetsAreFinite DEF AuthInv, Types
  <2> QED BY <2>1 DEF AuthInv, SessionsInv
<1> QED BY <1>1, AuthInvAlways, PTL

\* If a lockout lasts as long as failures count, an address fails within that
\* time at most as often as the limit and the other threads allow, however its
\* logins overlap (login_allowed before the password, record_failed_login after).
THEOREM FailuresStayBounded == Spec => []FailuresBounded
<1>1. AuthInv => FailuresBounded
  <2> SUFFICES ASSUME AuthInv, LockTime >= Window, NEW a \in Addresses
               PROVE  Len(failures[a]) <= MaxAttempts + Cardinality(Threads) - 1
    BY DEF FailuresBounded
  <2>1. AddressInv(a) /\ Types
    BY DEF AuthInv, FailuresInv
  <2>2. /\ Len(failures[a]) \in Nat /\ Len(attempts[a]) \in Nat /\ MaxAttempts \in Nat
        /\ Cardinality(Admitted(a)) \in Nat /\ Cardinality(Threads) \in Nat
    BY <2>1, SizesAre, SetsAreFinite, FS_CardinalityType, TimesAssumption
  <2>3. CASE Locked(a)
    BY <2>1, <2>2, <2>3 DEF AddressInv
  <2>4. CASE ~Locked(a)
    <3>1. Len(failures[a]) < MaxAttempts
      BY <2>1, <2>4, UnlockedRemembers DEF AddressInv
    <3> QED BY <2>2, <3>1
  <2> QED BY <2>3, <2>4
<1> QED BY <1>1, AuthInvAlways, PTL
=============================================================================
