------------------------------ MODULE Credentials ------------------------------
(* The administrator's password: the hash in the database, which the command  *)
(* line may replace at any time, and the one in memory, which requests change  *)
(* and a watcher reloads; and the limit on failed attempts.  Hashes are salted, *)
(* so each is new: they are numbered in the order they were stored, 0 being     *)
(* the one from the environment.  A session is valid for the hash it names.     *)
EXTENDS Naturals, Sequences

CONSTANTS Browsers,        \* requests of one client (one IP address) at once
          Passwords,
          Watcher, Nobody, \* the watcher, no holder of the lock
          Max, Span,       \* failures allowed within Span seconds
          MaxHashes, MaxTries, MaxSeconds, MaxKills    \* bounds

ASSUME CredentialAssumption ==
  /\ Max \in Nat \ {0} /\ Span \in Nat \ {0}
  /\ MaxHashes \in Nat /\ MaxTries \in Nat /\ MaxSeconds \in Nat
  /\ MaxKills \in Nat
  /\ Watcher \notin Browsers /\ Nobody \notin Browsers \cup {Watcher}

VARIABLES stored,          \* number of the hash in app_settings, 0 if none
          hashed,          \* which password each hash is of
          current,         \* the hash in memory
          lock,            \* who holds credentialsMu for writing
          loaded,          \* what the watcher has read
          request,         \* what each browser asks for
          failures,        \* times of the client's failed attempts
          second, tries, kills                        \* bounded

credVars == <<stored, hashed, current, lock, loaded, request, failures,
              second, tries, kills>>

Steps == {"idle", "admitted", "verified", "persisted", "activated",
          "failed", "succeeded"}

\* session: what the answer to a change granted.
Asked == [step: Steps, old: Passwords \cup {Nobody}, new: Passwords \cup {Nobody},
          hash: 0..MaxHashes, session: 0..MaxHashes \cup {Nobody}]

Answered == [step |-> "idle", old |-> Nobody, new |-> Nobody, hash |-> 0,
             session |-> Nobody]

CredInit ==
  /\ stored = 0
  /\ hashed \in [0..MaxHashes -> Passwords]
  /\ \A n \in 1..MaxHashes : hashed[n] = hashed[0]
  /\ current = 0
  /\ lock = Nobody /\ loaded = 0
  /\ request = [b \in Browsers |-> Answered]
  /\ failures = <<>>
  /\ second = 0 /\ tries = 0 /\ kills = 0

-----------------------------------------------------------------------------
(* failureLimiter.  Its own lock makes each call one step.                   *)

\* activeLocked: the failures of the last Span seconds.
Active == SelectSeq(failures, LAMBDA t : t + Span > second)

Blocked == Len(Active) >= Max

\* record: while the client is blocked, nothing is added.
Recorded == IF Blocked THEN Active ELSE Append(Active, second)

-----------------------------------------------------------------------------
(* Requests.                                                                *)

Step(b, step) == request' = [request EXCEPT ![b].step = step]

Answer(b) == request' = [request EXCEPT ![b] = Answered]

Is(b, step) == request[b].step = step

\* Login or ChangePassword (with a new password) passes the limiter.
Ask(b, old, new) ==
  /\ Is(b, "idle") /\ tries < MaxTries
  /\ ~Blocked
  /\ failures' = Active
  /\ request' = [request EXCEPT
       ![b] = [step |-> "admitted", old |-> old, new |-> new, hash |-> 0,
               session |-> Nobody]]
  /\ tries' = tries + 1
  /\ UNCHANGED <<stored, hashed, current, lock, loaded, second, kills>>

\* The read lock: verify and sign, then the limiter.
Login(b) ==
  /\ Is(b, "admitted") /\ request[b].new = Nobody
  /\ lock = Nobody
  /\ Step(b, IF request[b].old = hashed[current] THEN "succeeded" ELSE "failed")
  /\ UNCHANGED <<stored, hashed, current, lock, loaded, failures, second, tries, kills>>

RecordFailure(b) ==
  /\ Is(b, "failed")
  /\ failures' = Recorded
  /\ Answer(b)
  /\ UNCHANGED <<stored, hashed, current, lock, loaded, second, tries, kills>>

ResetFailures(b) ==
  /\ Is(b, "succeeded")
  /\ failures' = <<>>
  /\ Answer(b)
  /\ UNCHANGED <<stored, hashed, current, lock, loaded, second, tries, kills>>

\* ChangePassword takes the lock and keeps it until the hash is active.
VerifyCurrent(b) ==
  /\ Is(b, "admitted") /\ request[b].new # Nobody
  /\ lock = Nobody
  /\ IF request[b].old = hashed[current] /\ request[b].new # request[b].old
     THEN /\ lock' = b
          /\ Step(b, "verified")
          /\ UNCHANGED failures
     ELSE /\ UNCHANGED lock
          /\ Answer(b)
          /\ failures' = IF request[b].old = hashed[current] THEN failures
                         ELSE Recorded
  /\ UNCHANGED <<stored, hashed, current, loaded, second, tries, kills>>

\* SetAuthPasswordHashAudited.
Store(p) == /\ stored < MaxHashes
            /\ stored' = stored + 1
            /\ hashed' = [hashed EXCEPT ![stored + 1] = p]

PersistHash(b) ==
  /\ Is(b, "verified")
  /\ Store(request[b].new)
  /\ request' = [request EXCEPT ![b].step = "persisted", ![b].hash = stored + 1]
  /\ UNCHANGED <<current, lock, loaded, failures, second, tries, kills>>

PersistFails(b) ==
  /\ Is(b, "verified")
  /\ lock' = Nobody
  /\ Answer(b)
  /\ UNCHANGED <<stored, hashed, current, loaded, failures, second, tries, kills>>

Activate(b) ==
  /\ Is(b, "persisted")
  /\ current' = request[b].hash
  /\ failures' = <<>>
  /\ lock' = Nobody
  /\ Step(b, "activated")
  /\ UNCHANGED <<stored, hashed, loaded, second, tries, kills>>

\* RefreshSession: only while the browser's own hash is current.
RefreshSession(b) ==
  /\ Is(b, "activated") /\ lock = Nobody
  /\ request' = [request EXCEPT
       ![b] = [Answered EXCEPT
         !.hash = request[b].hash,
         !.session = IF request[b].hash = current THEN current ELSE Nobody]]
  /\ UNCHANGED <<stored, hashed, current, lock, loaded, failures, second, tries, kills>>

-----------------------------------------------------------------------------
(* The watcher.                                                             *)

SyncLoadFirst ==                 \* mutant: only the first stored hash is adopted
  /\ lock = Nobody /\ stored # 0 /\ current = 0
  /\ lock' = Watcher
  /\ loaded' = stored
  /\ UNCHANGED <<stored, hashed, current, request, failures, second, tries, kills>>

\* SyncPasswordHash reads under the lock; without a stored hash, or when the
\* statement fails, it only tries again.
SyncLoad ==
  /\ lock = Nobody /\ stored # 0
  /\ lock' = Watcher
  /\ loaded' = stored
  /\ UNCHANGED <<stored, hashed, current, request, failures, second, tries, kills>>

SyncApply ==
  /\ lock = Watcher
  /\ current' = loaded
  /\ lock' = Nobody
  /\ UNCHANGED <<stored, hashed, loaded, request, failures, second, tries, kills>>

SyncUnlocked ==                  \* mutant: the hash is read before the lock
  \/ /\ stored # loaded
     /\ loaded' = stored
     /\ UNCHANGED <<stored, hashed, current, lock, request, failures, second, tries, kills>>
  \/ /\ lock = Nobody /\ loaded # 0
     /\ current' = loaded
     /\ UNCHANGED <<stored, hashed, lock, loaded, request, failures, second, tries, kills>>

Sync == SyncLoad \/ SyncApply

-----------------------------------------------------------------------------
(* The command line, the clock, restarts.                                    *)

SetPassword(p) ==
  /\ Store(p)
  /\ UNCHANGED <<current, lock, loaded, request, failures, second, tries, kills>>

Second ==
  /\ second < MaxSeconds
  /\ second' = second + 1
  /\ UNCHANGED <<stored, hashed, current, lock, loaded, request, failures, tries, kills>>

\* A stored hash overrides the environment's.
StartAgain ==
  /\ kills < MaxKills
  /\ kills' = kills + 1
  /\ current' = stored
  /\ lock' = Nobody /\ loaded' = 0
  /\ request' = [b \in Browsers |-> Answered]
  /\ failures' = <<>>
  /\ UNCHANGED <<stored, hashed, second, tries>>

-----------------------------------------------------------------------------
Change(b) == \/ VerifyCurrent(b) \/ PersistHash(b) \/ PersistFails(b)
             \/ Activate(b) \/ RefreshSession(b)

Serve(b) == Login(b) \/ RecordFailure(b) \/ ResetFailures(b) \/ Change(b)

CredNext ==
  \/ \E b \in Browsers :
       Serve(b) \/ \E old \in Passwords, new \in Passwords \cup {Nobody} : Ask(b, old, new)
  \/ Sync \/ Second \/ StartAgain
  \/ \E p \in Passwords : SetPassword(p)

\* The watcher reads every second; whoever has the lock goes on.
CredFairness == /\ \A b \in Browsers : WF_credVars(Serve(b))
                /\ WF_credVars(Sync)

CredSpec == CredInit /\ [][CredNext]_credVars /\ CredFairness

-----------------------------------------------------------------------------
(* Properties.                                                              *)

\* The password in memory never goes back to an earlier one, so a session
\* that a change has ended stays ended: neither a slow reload nor a restart
\* undoes a change (SyncPasswordHash, "a delayed poll").
NeverBack == [][current' >= current]_credVars

\* Whoever sets the password, memory follows the database in the end
\* (watchPersistedPassword).
Adopted == <>[](current = stored)
=============================================================================
