--------------------------- MODULE CredentialsProofs ----------------------------
(* The password in memory never goes back, for any number of browsers, changes  *)
(* on the command line, reloads and restarts.                                   *)
EXTENDS Credentials, TLAPS

\* Whoever holds the lock knows a hash that is neither older than the one in
\* memory nor newer than the one stored.
HashesOrdered ==
  /\ stored \in Nat /\ current \in Nat /\ loaded \in Nat /\ MaxHashes \in Nat
  /\ current <= stored
  /\ lock = Watcher => current <= loaded /\ loaded <= stored

HolderInv(b) ==
  /\ request[b].step \in {"verified", "persisted"} => lock = b
  /\ request[b].step = "persisted" => current <= request[b].hash /\ request[b].hash <= stored

LockInv ==
  /\ HashesOrdered
  /\ request \in [Browsers -> Asked]
  /\ \A b \in Browsers : HolderInv(b)

LEMMA NamesDiffer ==
  /\ \A b \in Browsers : b # Watcher /\ b # Nobody
  /\ Watcher # Nobody
BY CredentialAssumption

LEMMA AnsweredAsked ==
  /\ Answered \in Asked
  /\ Answered.step = "idle"
<1>1. 0 \in 0..MaxHashes
  BY CredentialAssumption, SMT
<1> QED
  BY <1>1 DEF Answered, Asked, Steps

\* A form of a request with another step is a form, with the same hash.
LEMMA SteppedAsked ==
  ASSUME NEW r \in Asked, NEW s \in Steps
  PROVE  /\ [r EXCEPT !.step = s] \in Asked
         /\ [r EXCEPT !.step = s].step = s
         /\ [r EXCEPT !.step = s].hash = r.hash
BY DEF Asked

-----------------------------------------------------------------------------
LEMMA LockInit == CredInit => LockInv
<1> SUFFICES ASSUME CredInit PROVE LockInv
  OBVIOUS
<1>1. HashesOrdered
  BY CredentialAssumption, NamesDiffer, SMT DEF CredInit, HashesOrdered
<1>2. request = [b \in Browsers |-> Answered]
  BY DEF CredInit
<1>3. \A b \in Browsers : HolderInv(b)
  BY <1>2, AnsweredAsked DEF HolderInv
<1> QED
  BY <1>1, <1>2, <1>3, AnsweredAsked DEF LockInv

\* The request of one browser becomes r.  The others keep the invariant when the
\* hashes stay, or when none of them holds the lock.
LEMMA RequestMoves ==
  ASSUME LockInv, NEW b \in Browsers, NEW r \in Asked,
         request' = [request EXCEPT ![b] = r],
         HashesOrdered',
         r.step \in {"verified", "persisted"} => lock' = b,
         r.step = "persisted" => current' <= r.hash /\ r.hash <= stored',
         \/ UNCHANGED <<stored, current, lock>>
         \/ lock = Nobody \/ lock = b
  PROVE  LockInv'
<1>1. /\ request' \in [Browsers -> Asked]
      /\ request'[b] = r /\ \A x \in Browsers \ {b} : request'[x] = request[x]
  BY DEF LockInv
<1>2. HolderInv(b)'
  BY <1>1 DEF HolderInv
<1>3. ASSUME NEW x \in Browsers \ {b} PROVE HolderInv(x)'
  <2>1. HolderInv(x)
    BY DEF LockInv
  <2>2. CASE UNCHANGED <<stored, current, lock>>
    BY <1>1, <2>1, <2>2 DEF HolderInv
  <2>3. CASE lock = Nobody \/ lock = b
    <3>1. request[x].step \notin {"verified", "persisted"}
      BY <2>1, <2>3, NamesDiffer DEF HolderInv
    <3> QED BY <1>1, <2>1, <3>1 DEF HolderInv
  <2> QED BY <2>2, <2>3
<1> QED
  BY <1>1, <1>2, <1>3 DEF LockInv

\* Steps of the browsers other than those that store or activate a hash.
LEMMA PlainSteps ==
  ASSUME LockInv, NEW b \in Browsers,
         \/ Login(b) \/ RecordFailure(b) \/ ResetFailures(b)
         \/ VerifyCurrent(b) \/ PersistFails(b) \/ RefreshSession(b)
         \/ \E old \in Passwords, new \in Passwords \cup {Nobody} : Ask(b, old, new)
  PROVE  LockInv' /\ current' = current
<1>0. request[b] \in Asked /\ HolderInv(b) /\ request \in [Browsers -> Asked]
  BY DEF LockInv
<1>1. UNCHANGED <<stored, current, loaded>>
  BY DEF Login, RecordFailure, ResetFailures, VerifyCurrent, PersistFails,
         RefreshSession, Ask
<1>2. ASSUME lock' \in {lock, Nobody, b} PROVE HashesOrdered'
  BY <1>1, <1>2, NamesDiffer DEF LockInv, HashesOrdered
<1>3. ASSUME NEW s \in Steps \ {"persisted"}, request' = [request EXCEPT ![b].step = s],
             request[b].step # "idle",
             s = "verified" => lock' = b,
             lock' = lock \/ (lock = Nobody /\ lock' = b)
      PROVE  LockInv'
  <2>1. request' = [request EXCEPT ![b] = [request[b] EXCEPT !.step = s]]
    BY <1>3
  <2>3. HashesOrdered'
    BY <1>2, <1>3
  <2> DEFINE r == [request[b] EXCEPT !.step = s]
  <2>4. r \in Asked /\ r.step = s
    BY <1>0, SteppedAsked
  <2>5. r.step # "persisted" /\ (r.step = "verified" => lock' = b)
    BY <1>3, <2>4
  <2>6. UNCHANGED <<stored, current, lock>> \/ lock = Nobody \/ lock = b
    BY <1>1, <1>3
  <2>7. request' = [request EXCEPT ![b] = r]
    BY <2>1
  <2>8. r.step \in {"verified", "persisted"} => lock' = b
    BY <2>5
  <2> HIDE DEF r
  <2> QED BY <2>3, <2>4, <2>5, <2>6, <2>7, <2>8, RequestMoves
<1>4. ASSUME request' = [request EXCEPT ![b] = Answered],
             lock' = lock \/ (lock = b /\ lock' = Nobody)
      PROVE  LockInv'
  BY <1>1, <1>2, <1>4, AnsweredAsked, RequestMoves
<1>5. CASE Login(b)
  <2>1. PICK s \in {"succeeded", "failed"} : request' = [request EXCEPT ![b].step = s]
    BY <1>5 DEF Login, Step
  <2>2. UNCHANGED lock /\ request[b].step # "idle"
    BY <1>5 DEF Login, Is
  <2>3. s \in Steps \ {"persisted"} /\ s # "verified"
    BY DEF Steps
  <2> QED BY <1>1, <1>3, <2>1, <2>2, <2>3
<1>6. CASE RecordFailure(b) \/ ResetFailures(b)
  BY <1>1, <1>4, <1>6 DEF RecordFailure, ResetFailures, Answer
<1>7. CASE PersistFails(b)
  <2>1. lock = b
    BY <1>0, <1>7 DEF PersistFails, Is, HolderInv
  <2> QED BY <1>1, <1>4, <1>7, <2>1 DEF PersistFails, Answer
<1>8. CASE VerifyCurrent(b)
  <2>1. CASE request[b].old = hashed[current] /\ request[b].new # request[b].old
    <3>1. /\ lock = Nobody /\ lock' = b /\ request[b].step # "idle"
          /\ request' = [request EXCEPT ![b].step = "verified"]
      BY <1>8, <2>1 DEF VerifyCurrent, Step, Is
    <3> QED BY <1>1, <1>3, <3>1 DEF Steps
  <2>2. CASE ~(request[b].old = hashed[current] /\ request[b].new # request[b].old)
    BY <1>1, <1>4, <1>8, <2>2 DEF VerifyCurrent, Answer
  <2> QED BY <2>1, <2>2
<1>9. CASE RefreshSession(b)
  <2> DEFINE s == IF request[b].hash = current THEN current ELSE Nobody
             r == [Answered EXCEPT !.hash = request[b].hash, !.session = s]
  <2>1. request' = [request EXCEPT ![b] = r] /\ UNCHANGED lock
    BY <1>9 DEF RefreshSession
  <2>2. request[b].hash \in 0..MaxHashes /\ s \in {Nobody, request[b].hash}
    BY <1>0 DEF Asked
  <2>3. r \in Asked /\ r.step = "idle"
    <3> HIDE DEF s
    <3> QED BY <2>2, AnsweredAsked DEF Answered, Asked
  <2> HIDE DEF r, s
  <2> QED BY <1>1, <1>2, <2>1, <2>2, <2>3, RequestMoves
<1>10. ASSUME NEW old \in Passwords, NEW new \in Passwords \cup {Nobody}, Ask(b, old, new)
       PROVE  LockInv'
  <2> DEFINE r == [step |-> "admitted", old |-> old, new |-> new, hash |-> 0,
                   session |-> Nobody]
  <2>1. request' = [request EXCEPT ![b] = r] /\ UNCHANGED lock
    BY <1>10 DEF Ask
  <2>2. 0 \in 0..MaxHashes
    BY CredentialAssumption, SMT
  <2>3. r \in Asked /\ r.step = "admitted"
    BY <2>2 DEF Asked, Steps
  <2> HIDE DEF r
  <2> QED BY <1>1, <1>2, <2>1, <2>3, RequestMoves
<1> QED
  BY <1>1, <1>5, <1>6, <1>7, <1>8, <1>9, <1>10

LEMMA LockStep == LockInv /\ [CredNext]_credVars => LockInv' /\ current' >= current
<1> SUFFICES ASSUME LockInv, [CredNext]_credVars PROVE LockInv' /\ current' >= current
  OBVIOUS
<1>0. HashesOrdered /\ request \in [Browsers -> Asked] /\ \A b \in Browsers : HolderInv(b)
  BY DEF LockInv
<1>1. current \in Nat /\ current >= current
  BY <1>0, SMT DEF HashesOrdered
<1>2. ASSUME NEW b \in Browsers, PersistHash(b) PROVE LockInv' /\ current' >= current
  <2>1. /\ request[b].step = "verified" /\ stored < MaxHashes /\ stored' = stored + 1
        /\ request' = [request EXCEPT ![b] =
             [request[b] EXCEPT !.step = "persisted", !.hash = stored + 1]]
        /\ UNCHANGED <<current, lock, loaded>>
    BY <1>2 DEF PersistHash, Store, Is
  <2>2. lock = b
    BY <1>0, <2>1 DEF HolderInv
  <2>3. /\ HashesOrdered' /\ stored + 1 \in 0..MaxHashes
        /\ current' <= stored + 1 /\ stored + 1 <= stored'
    BY <1>0, <2>1, <2>2, NamesDiffer, SMT DEF HashesOrdered
  <2> DEFINE r == [request[b] EXCEPT !.step = "persisted", !.hash = stored + 1]
  <2>4. /\ r \in Asked /\ r.step = "persisted" /\ r.hash = stored + 1
    BY <1>0, <2>3 DEF Asked, Steps
  <2> HIDE DEF r
  <2>6. LockInv'
    BY <2>1, <2>2, <2>3, <2>4, RequestMoves DEF r
  <2> QED BY <1>1, <2>1, <2>6
<1>3. ASSUME NEW b \in Browsers, Activate(b) PROVE LockInv' /\ current' >= current
  <2>1. /\ request[b].step = "persisted" /\ current' = request[b].hash /\ lock' = Nobody
        /\ request' = [request EXCEPT ![b] = [request[b] EXCEPT !.step = "activated"]]
        /\ UNCHANGED <<stored, loaded>>
    BY <1>3 DEF Activate, Is, Step
  <2>2. lock = b /\ current <= request[b].hash /\ request[b].hash <= stored
    BY <1>0, <2>1 DEF HolderInv
  <2>3. request[b].hash \in Nat
    <3>1. request[b].hash \in 0..MaxHashes
      BY <1>0 DEF Asked
    <3> QED BY <3>1, SMT
  <2>4. HashesOrdered' /\ current' >= current
    BY <1>0, <2>1, <2>2, <2>3, NamesDiffer, SMT DEF HashesOrdered
  <2>5. LockInv'
    <3>1. "activated" \in Steps /\ request[b] \in Asked
      BY <1>0 DEF Steps
    <3> QED BY <2>1, <2>2, <2>4, <3>1, SteppedAsked, RequestMoves
  <2> QED BY <2>4, <2>5
<1>4. CASE \/ UNCHANGED credVars \/ Second
           \/ \E p \in Passwords : SetPassword(p)
           \/ Sync
  <2>1. UNCHANGED request
    BY <1>4 DEF credVars, Second, SetPassword, Sync, SyncLoad, SyncApply
  <2>2. /\ HashesOrdered' /\ current' >= current /\ stored' >= stored
        /\ current' = current \/ lock = Watcher
        /\ lock' = lock \/ lock \in {Watcher, Nobody}
    <3>1. CASE UNCHANGED credVars \/ Second
      BY <1>0, <3>1, SMT DEF credVars, Second, HashesOrdered
    <3>2. ASSUME NEW p \in Passwords, SetPassword(p)
          PROVE  /\ stored' = stored + 1 /\ UNCHANGED <<current, lock, loaded>>
      BY <3>2 DEF SetPassword, Store
    <3>3. CASE \E p \in Passwords : SetPassword(p)
      BY <1>0, <3>2, <3>3, SMT DEF HashesOrdered
    <3>4. CASE SyncLoad
      BY <1>0, <3>4, NamesDiffer, SMT DEF SyncLoad, HashesOrdered
    <3>5. CASE SyncApply
      BY <1>0, <3>5, NamesDiffer, SMT DEF SyncApply, HashesOrdered
    <3> QED BY <1>4, <3>1, <3>3, <3>4, <3>5 DEF Sync
  <2>3. ASSUME NEW b \in Browsers PROVE HolderInv(b)'
    <3>1. HolderInv(b) /\ request[b] \in Asked
      BY <1>0
    <3>2. CASE request[b].step \notin {"verified", "persisted"}
      BY <2>1, <3>1, <3>2 DEF HolderInv
    <3>3. CASE request[b].step \in {"verified", "persisted"}
      <4>1. lock = b /\ lock' = b /\ current' = current
        BY <2>2, <3>1, <3>3, NamesDiffer DEF HolderInv
      <4>2. request[b].step = "persisted" => request[b].hash <= stored'
        <5>1. request[b].hash \in 0..MaxHashes
          BY <3>1 DEF Asked
        <5>2. stored \in Nat /\ stored' \in Nat
          BY <1>0, <2>2 DEF HashesOrdered
        <5> QED BY <2>2, <3>1, <5>1, <5>2, SMT DEF HolderInv
      <4> QED BY <2>1, <3>1, <4>1, <4>2 DEF HolderInv
    <3> QED BY <3>2, <3>3
  <2> QED BY <1>0, <2>1, <2>2, <2>3 DEF LockInv
<1>5. CASE StartAgain
  <2>1. /\ current' = stored /\ lock' = Nobody /\ loaded' = 0
        /\ request' = [b \in Browsers |-> Answered] /\ UNCHANGED stored
    BY <1>5 DEF StartAgain
  <2>2. HashesOrdered' /\ current' >= current
    BY <1>0, <2>1, NamesDiffer, SMT DEF HashesOrdered
  <2>3. \A b \in Browsers : HolderInv(b)'
    BY <2>1, AnsweredAsked DEF HolderInv
  <2> QED BY <2>1, <2>2, <2>3, AnsweredAsked DEF LockInv
<1>6. ASSUME NEW b \in Browsers,
             \/ Serve(b)
             \/ \E old \in Passwords, new \in Passwords \cup {Nobody} : Ask(b, old, new)
      PROVE  LockInv' /\ current' >= current
  <2>1. CASE PersistHash(b) \/ Activate(b)
    BY <1>2, <1>3, <2>1
  <2>2. CASE ~(PersistHash(b) \/ Activate(b))
    <3>1. LockInv' /\ current' = current
      BY <1>6, <2>2, PlainSteps DEF Serve, Change
    <3> QED BY <1>1, <3>1
  <2> QED BY <2>1, <2>2
<1> QED
  BY <1>4, <1>5, <1>6 DEF CredNext

\* Neither a slow reload, nor a change that is answered late, nor a restart puts
\* an earlier password back in force (ChangePassword, SyncPasswordHash), for any
\* number of browsers, commands and restarts.
THEOREM PasswordForward == CredSpec => NeverBack
<1>1. LockInv /\ [CredNext]_credVars => [current' >= current]_credVars
  BY LockStep
<1>2. LockInv /\ [CredNext]_credVars => LockInv'
  BY LockStep
<1> QED
  BY <1>1, <1>2, LockInit, PTL DEF CredSpec, NeverBack
=============================================================================
