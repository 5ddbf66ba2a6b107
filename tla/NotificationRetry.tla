------------------------- MODULE NotificationRetry -------------------------
(***************************************************************************)
(* Retries of failed notifications: the rows of notification_attempts      *)
(* (internal/store/tracking.go), the maintenance pass of the scheduler     *)
(* that retries the rows that are due, the operators who press "retry"     *)
(* (POST /api/notification-attempts/{id}/retry), the first attempts other  *)
(* parts make, and the changes of configuration that stop retries.         *)
(*                                                                         *)
(* One monitor and one channel: a row never refers to more than one of     *)
(* each, and rows of other monitors do not touch it.  Time counts minutes. *)
(***************************************************************************)
EXTENDS Naturals, Sequences, FiniteSets

CONSTANTS
  Operators,    \* concurrent manual retry requests
  Maintenance,  \* the one maintenance goroutine
  None,         \* SQL NULL
  Kinds,        \* the kinds of notification in play
  Lease,        \* notificationRetryLease, in minutes
  MaxHold,      \* how long a retry may take after its claim
  Faults,       \* may store statements fail and requests be cut off?
  MaxFirst,     \* bound: first attempts made
  MaxManualNo,  \* bound: operators retry attempts up to this number
  MaxTime       \* bound: the clock

AllKinds == {"delivery", "monitor_failure", "monitor_recovery", "test"}

ASSUME NoneAssumption == None \notin Nat
ASSUME WorkersAssumption == Maintenance \notin Operators
ASSUME KindsAssumption == Kinds \subseteq AllKinds
ASSUME TimeAssumption ==
  Lease \in Nat /\ MaxHold \in Nat /\ MaxTime \in Nat
ASSUME BoundsAssumption ==
  Faults \in BOOLEAN /\ MaxFirst \in Nat /\ MaxManualNo \in Nat

VARIABLES
  attempts,  \* notification_attempts, in the order of their ids
  now,       \* the clock
  monitor,   \* archived (deleted_at) and incident (failure_alert_active)
  channel,   \* the notification channel
  worker,    \* what each retry worker is doing
  pass,      \* the maintenance pass
  sender     \* the first attempt under way, if any

vars == <<attempts, now, monitor, channel, worker, pass, sender>>

Workers == Operators \cup {Maintenance}

maxDeliveryAttempts == 3

\* 1 << (attemptNo - 1) minutes; only attempts 1 and 2 are ever scheduled.
retryDelay == <<1, 2, 4>>

Row == [kind : AllKinds, status : {"sent", "failed"}, no : Nat,
        next : Nat \cup {None}, claim : Nat \cup {None}, retryOf : Nat \cup {None}]

(* "claimed" and "channel" are the two lookups of retryAttempt, "sending"  *)
(* the call of the provider, "answered" the time between its answer and    *)
(* the transaction that records it.  The last three are the statement with *)
(* which runClaimedNotificationRetry ends when no row was created.         *)
Stages == {"idle", "claimed", "channel", "sending", "answered",
           "cancel", "stop", "release"}

(* "leased" is a history variable: TRUE from the claim until a statement   *)
(* clears retry_claimed_at of the row.  A second claim, which writes it     *)
(* anew, does not end it: both workers go on.                              *)
Work == [stage : Stages, src : Nat, since : Nat, sent : BOOLEAN, leased : BOOLEAN]

Idle == [stage |-> "idle", src |-> 0, since |-> 0, sent |-> FALSE, leased |-> FALSE]
NoPass == [phase |-> "off", now |-> 0, due |-> {}]
NoSend == [stage |-> "idle", kind |-> "test", deliver |-> FALSE]

TypeOK ==
  /\ attempts \in Seq(Row)
  /\ now \in Nat
  /\ monitor \in [archived : BOOLEAN, incident : BOOLEAN]
  /\ channel \in {"enabled", "disabled", "archived"}
  /\ worker \in [Workers -> Work]
  /\ pass \in [phase : {"off", "outbox", "retries"}, now : Nat, due : SUBSET Nat]
  /\ pass.due \subseteq DOMAIN attempts
  /\ sender \in [stage : {"idle", "stop", "sending"}, kind : AllKinds, deliver : BOOLEAN]

-----------------------------------------------------------------------------
(* Rows.                                                                   *)

HasSuccessor(id) == \E i \in DOMAIN attempts : attempts[i].retryOf = id

Busy(w) == worker[w].stage # "idle"

(* The operators named after what they get wrong are mutants: the forms a   *)
(* plausible bug would give the definition that follows them.  No action   *)
(* uses them; the runs show that the properties would notice.              *)

ClaimableIgnoringLease(id, t, requireDue) ==
  LET row == attempts[id] IN
    /\ row.status = "failed"
    /\ ~HasSuccessor(id)
    /\ requireDue => row.next # None /\ row.next <= t

\* The WHERE clause of claimNotificationAttempt at time t.
Claimable(id, t, requireDue) ==
  LET row == attempts[id] IN
    /\ row.status = "failed"
    /\ row.claim # None => row.claim + Lease <= t
    /\ ~HasSuccessor(id)
    /\ requireDue => row.next # None /\ row.next <= t

\* The WHERE clause of ListDueNotificationAttempts.
Due(t) == {id \in DOMAIN attempts : Claimable(id, t, TRUE)}

NewRowOfUnknownStatus(kind, sent, no, retryOf) ==
  [kind |-> kind, status |-> IF sent THEN "sent" ELSE "error", no |-> no,
   next |-> IF ~sent /\ no < maxDeliveryAttempts THEN now + retryDelay[no] ELSE None,
   claim |-> None, retryOf |-> retryOf]

NewRowOnceTooOften(kind, sent, no, retryOf) ==
  [kind |-> kind, status |-> IF sent THEN "sent" ELSE "failed", no |-> no,
   next |-> IF ~sent /\ no <= maxDeliveryAttempts THEN now + retryDelay[no] ELSE None,
   claim |-> None, retryOf |-> retryOf]

\* A new row and its schedule, as sendAndRecord fills them in.
NewRow(kind, sent, no, retryOf) ==
  [kind |-> kind, status |-> IF sent THEN "sent" ELSE "failed", no |-> no,
   next |-> IF ~sent /\ no < maxDeliveryAttempts THEN now + retryDelay[no] ELSE None,
   claim |-> None, retryOf |-> retryOf]

\* The rows with schedule next and no lease.
Unclaimed(ids, next) ==
  [i \in DOMAIN attempts |->
     IF i \in ids THEN [attempts[i] EXCEPT !.next = next, !.claim = None]
                  ELSE attempts[i]]

\* Whoever works on one of these rows has lost the lease.
Evict(ids, work) ==
  [w \in Workers |->
     IF work[w].src \in ids THEN [work[w] EXCEPT !.leased = FALSE] ELSE work[w]]

\* UPDATE ... SET next_retry_at = NULL, retry_claimed_at = NULL over the
\* failed rows with a schedule whose kind is one of kinds.
StopScheduled(kinds) ==
  LET ids == {i \in DOMAIN attempts : /\ attempts[i].status = "failed"
                                      /\ attempts[i].next # None
                                      /\ attempts[i].kind \in kinds}
  IN  /\ attempts' = Unclaimed(ids, None)
      /\ worker' = Evict(ids, worker)

-----------------------------------------------------------------------------
(* Claiming: an operator's request, and the maintenance pass.              *)

Claim(w, id, stamp) ==
  /\ attempts' = [attempts EXCEPT ![id].claim = stamp]
  /\ worker' = [worker EXCEPT ![w] = [stage |-> "claimed", src |-> id, since |-> now,
                                      sent |-> FALSE, leased |-> TRUE]]

\* RetryAttempt: the claim does not ask for a schedule and is stamped with
\* the present time.  When it fails (ErrRetryConflict) nothing changes.
RetryAttempt(w) ==
  /\ ~Busy(w)
  /\ \E id \in DOMAIN attempts :
       /\ attempts[id].no <= MaxManualNo
       /\ Claimable(id, now, FALSE)
       /\ Claim(w, id, now)
  /\ UNCHANGED <<now, monitor, channel, pass, sender>>

\* startMaintenance: the time of the pass is read here, once.
StartPass ==
  /\ pass.phase = "off"
  /\ pass' = [phase |-> "outbox", now |-> now, due |-> {}]
  /\ UNCHANGED <<attempts, now, monitor, channel, worker, sender>>

\* The outbox is done, which took any time; the due retries are listed as of
\* the start of the pass.  When the listing fails the pass ends.
ListDue ==
  /\ pass.phase = "outbox"
  /\ \/ pass' = [pass EXCEPT !.phase = "retries", !.due = Due(pass.now)]
     \/ Faults /\ pass' = NoPass
  /\ UNCHANGED <<attempts, now, monitor, channel, worker, sender>>

\* The rows are taken in the order of their ids.
NextDue(id) == id \in pass.due /\ \A i \in pass.due : id <= i

\* The claim is stamped with the time of the pass, not with the present time.
ClaimDue ==
  /\ pass.phase = "retries" /\ ~Busy(Maintenance)
  /\ \E id \in pass.due :
       /\ NextDue(id)
       /\ Claimable(id, pass.now, TRUE)
       /\ Claim(Maintenance, id, pass.now)
       /\ pass' = [pass EXCEPT !.due = @ \ {id}]
  /\ UNCHANGED <<now, monitor, channel, sender>>

\* The claim failed, or changed no row: the pass goes on with the next.
SkipDue ==
  /\ pass.phase = "retries" /\ ~Busy(Maintenance)
  /\ \E id \in pass.due :
       /\ NextDue(id)
       /\ Faults \/ ~Claimable(id, pass.now, TRUE)
       /\ pass' = [pass EXCEPT !.due = @ \ {id}]
  /\ UNCHANGED <<attempts, now, monitor, channel, worker, sender>>

EndPassWithoutNewTime ==
  /\ pass.phase = "retries" /\ pass.due = {} /\ ~Busy(Maintenance)
  /\ pass' = [pass EXCEPT !.phase = "outbox"]
  /\ UNCHANGED <<attempts, now, monitor, channel, worker, sender>>

EndPass ==
  /\ pass.phase = "retries" /\ pass.due = {} /\ ~Busy(Maintenance)
  /\ pass' = NoPass
  /\ UNCHANGED <<attempts, now, monitor, channel, worker, sender>>

-----------------------------------------------------------------------------
(* One claimed retry: retryAttempt and runClaimedNotificationRetry.        *)

GoTo(w, stage) == worker' = [worker EXCEPT ![w].stage = stage]

\* A health notification is stopped when its monitor is archived or its
\* incident has changed; other kinds do not look at the monitor.
MonitorAllows(kind) ==
  CASE kind = "monitor_failure"  -> ~monitor.archived /\ monitor.incident
    [] kind = "monitor_recovery" -> ~monitor.archived /\ ~monitor.incident
    [] OTHER                     -> TRUE

CheckMonitor(w) ==
  /\ worker[w].stage = "claimed"
  /\ \/ GoTo(w, IF MonitorAllows(attempts[worker[w].src].kind) THEN "channel" ELSE "stop")
     \/ Faults /\ GoTo(w, "release")
  /\ UNCHANGED <<attempts, now, monitor, channel, pass, sender>>

CheckChannel(w) ==
  /\ worker[w].stage = "channel"
  /\ \/ GoTo(w, IF channel = "enabled" THEN "sending" ELSE "stop")
     \/ Faults /\ GoTo(w, "release")
  /\ UNCHANGED <<attempts, now, monitor, channel, pass, sender>>

\* The provider answers or the 30 seconds are over.
Answer(w) ==
  /\ worker[w].stage = "sending"
  /\ \E sent \in BOOLEAN :
       worker' = [worker EXCEPT ![w].stage = "answered", ![w].sent = sent]
  /\ UNCHANGED <<attempts, now, monitor, channel, pass, sender>>

RecordRetryUnguarded(w) ==
  LET id == worker[w].src IN
  /\ worker[w].stage = "answered"
  /\ attempts' = Append(Unclaimed({id}, None),
                        NewRow(attempts[id].kind, worker[w].sent, attempts[id].no + 1, id))
  /\ worker' = Evict({id}, [worker EXCEPT ![w] = Idle])
  /\ UNCHANGED <<now, monitor, channel, pass, sender>>

RecordRetryLeavingSource(w) ==
  LET id == worker[w].src IN
  /\ worker[w].stage = "answered"
  /\ ~HasSuccessor(id)
  /\ attempts' = Append(attempts, NewRow(attempts[id].kind, worker[w].sent, attempts[id].no + 1, id))
  /\ worker' = [worker EXCEPT ![w] = Idle]
  /\ UNCHANGED <<now, monitor, channel, pass, sender>>

\* The transaction of CreateNotificationAttempt for a retry: the new row, and
\* the source without schedule and lease.  The row is read back after the
\* commit: when that fails the caller takes the retry for not recorded.
RecordRetry(w) ==
  LET id == worker[w].src
      source == attempts[id]
      done == [worker EXCEPT ![w] = Idle]
      released == [worker EXCEPT ![w].stage = "release"]
  IN
  /\ worker[w].stage = "answered"
  /\ ~HasSuccessor(id)
  /\ attempts' = Append(Unclaimed({id}, None),
                        NewRow(source.kind, worker[w].sent, source.no + 1, id))
  /\ \/ worker' = Evict({id}, done)
     \/ Faults /\ worker' = Evict({id}, released)
  /\ UNCHANGED <<now, monitor, channel, pass, sender>>

RecordConflictReleasing(w) ==
  /\ worker[w].stage = "answered"
  /\ Faults \/ HasSuccessor(worker[w].src)
  /\ GoTo(w, "release")
  /\ UNCHANGED <<attempts, now, monitor, channel, pass, sender>>

\* Another retry of the same source was recorded first, or the transaction
\* failed.
RecordConflict(w) ==
  /\ worker[w].stage = "answered"
  /\ \/ HasSuccessor(worker[w].src) /\ GoTo(w, "cancel")
     \/ Faults /\ GoTo(w, "release")
  /\ UNCHANGED <<attempts, now, monitor, channel, pass, sender>>

\* CancelNotificationRetry and StopNotificationRetry.
CancelOrStop(w) ==
  LET id == worker[w].src IN
  /\ worker[w].stage \in {"cancel", "stop"}
  /\ attempts' = Unclaimed({id}, None)
  /\ worker' = Evict({id}, [worker EXCEPT ![w] = Idle])
  /\ UNCHANGED <<now, monitor, channel, pass, sender>>

\* ReleaseNotificationRetry: due again in a minute.
Release(w) ==
  LET id == worker[w].src IN
  /\ worker[w].stage = "release"
  /\ attempts' = Unclaimed({id}, now + 1)
  /\ worker' = Evict({id}, [worker EXCEPT ![w] = Idle])
  /\ UNCHANGED <<now, monitor, channel, pass, sender>>

\* The last statement fails; or the operator's request is cut off, and with
\* its context every statement left to do.
Abandon(w) ==
  /\ Faults
  /\ Busy(w)
  /\ w \in Operators \/ worker[w].stage \in {"cancel", "stop", "release"}
  /\ worker' = [worker EXCEPT ![w] = Idle]
  /\ UNCHANGED <<attempts, now, monitor, channel, pass, sender>>

-----------------------------------------------------------------------------
(* First attempts, made by event dispatch, health alerts and channel tests.*)

FirstAttempts == {i \in DOMAIN attempts : attempts[i].no = 1}
MaySend == sender.stage = "idle" /\ Cardinality(FirstAttempts) < MaxFirst

\* dispatchEvent found the rule, its monitor and the channel enabled.
StartDelivery ==
  /\ "delivery" \in Kinds /\ MaySend
  /\ ~monitor.archived /\ channel = "enabled"
  /\ sender' = [stage |-> "sending", kind |-> "delivery", deliver |-> TRUE]
  /\ UNCHANGED <<attempts, now, monitor, channel, worker, pass>>

\* TestChannel does not ask whether the channel is enabled.
StartTest ==
  /\ "test" \in Kinds /\ MaySend
  /\ channel # "archived"
  /\ sender' = [stage |-> "sending", kind |-> "test", deliver |-> TRUE]
  /\ UNCHANGED <<attempts, now, monitor, channel, worker, pass>>

\* sendMonitorFailureAlert up to TryActivateMonitorFailureAlert.
OpenIncident ==
  /\ "monitor_failure" \in Kinds /\ MaySend
  /\ ~monitor.archived /\ ~monitor.incident /\ channel = "enabled"
  /\ monitor' = [monitor EXCEPT !.incident = TRUE]
  /\ sender' = [stage |-> "stop", kind |-> "monitor_failure", deliver |-> TRUE]
  /\ UNCHANGED <<attempts, now, channel, worker, pass>>

\* sendMonitorRecoveryAlert up to TryClearMonitorFailureAlert.
CloseIncident ==
  /\ "monitor_recovery" \in Kinds /\ MaySend
  /\ ~monitor.archived /\ monitor.incident
  /\ monitor' = [monitor EXCEPT !.incident = FALSE]
  /\ sender' = [stage |-> "stop", kind |-> "monitor_recovery", deliver |-> channel = "enabled"]
  /\ UNCHANGED <<attempts, now, channel, worker, pass>>

\* StopMonitorNotificationRetries for the other kind; its failure does not
\* keep the alert from being sent.
StopOpposite ==
  /\ sender.stage = "stop"
  /\ \/ StopScheduled({"monitor_failure", "monitor_recovery"} \ {sender.kind})
     \/ Faults /\ UNCHANGED <<attempts, worker>>
  /\ sender' = IF sender.deliver THEN [sender EXCEPT !.stage = "sending"] ELSE NoSend
  /\ UNCHANGED <<now, monitor, channel, pass>>

\* sendAndRecord with attempt number 1.
FirstAttempt ==
  /\ sender.stage = "sending"
  /\ \/ \E sent \in BOOLEAN :
          attempts' = Append(attempts, NewRow(sender.kind, sent, 1, None))
     \/ Faults /\ UNCHANGED attempts
  /\ sender' = NoSend
  /\ UNCHANGED <<now, monitor, channel, worker, pass>>

-----------------------------------------------------------------------------
(* Configuration, restart and time.                                        *)

\* DeleteMonitor: test messages do not belong to a monitor.
ArchiveMonitor ==
  /\ ~monitor.archived
  /\ monitor' = [monitor EXCEPT !.archived = TRUE]
  /\ StopScheduled(AllKinds \ {"test"})
  /\ UNCHANGED <<now, channel, pass, sender>>

\* DeleteNotifyChannel: the monitor loses its only channel and with it the
\* incident.
ArchiveChannel ==
  /\ channel # "archived"
  /\ channel' = "archived"
  /\ monitor' = [monitor EXCEPT !.incident = @ /\ monitor.archived]
  /\ StopScheduled(AllKinds)
  /\ UNCHANGED <<now, pass, sender>>

\* UpdateNotifyChannel turns the channel on or off.
SwitchChannel ==
  /\ channel # "archived"
  /\ channel' = IF channel = "enabled" THEN "disabled" ELSE "enabled"
  /\ UNCHANGED <<attempts, now, monitor, worker, pass, sender>>

\* UpdateMonitor with another source, or with failure alerts turned off.
ResetIncident ==
  /\ ~monitor.archived /\ monitor.incident
  /\ monitor' = [monitor EXCEPT !.incident = FALSE]
  /\ UNCHANGED <<attempts, now, channel, worker, pass, sender>>

\* The process dies, in the middle of whatever it was doing, and comes back:
\* repairActiveConfigReferences stops the retries of archived configuration.
Restart ==
  LET kinds == (IF monitor.archived THEN AllKinds \ {"test"} ELSE {})
               \cup (IF channel = "archived" THEN AllKinds ELSE {})
      ids == {i \in DOMAIN attempts : /\ attempts[i].status = "failed"
                                      /\ attempts[i].next # None
                                      /\ attempts[i].kind \in kinds}
  IN
  /\ attempts' = Unclaimed(ids, None)
  /\ worker' = [w \in Workers |-> Idle]
  /\ pass' = NoPass
  /\ sender' = NoSend
  /\ UNCHANGED <<now, monitor, channel>>

\* Time passes, but no retry outlasts MaxHold: the provider has 30 seconds.  A
\* pass takes any time: it dispatches up to 20 events and retries one row after
\* the other.
Tick ==
  /\ now < MaxTime
  /\ \A w \in Workers : Busy(w) => now < worker[w].since + MaxHold
  /\ now' = now + 1
  /\ UNCHANGED <<attempts, monitor, channel, worker, pass, sender>>

-----------------------------------------------------------------------------
Init ==
  /\ attempts = <<>>
  /\ now = 0
  /\ monitor = [archived |-> FALSE, incident |-> FALSE]
  /\ channel = "enabled"
  /\ worker = [w \in Workers |-> Idle]
  /\ pass = NoPass
  /\ sender = NoSend

WorkerStep(w) ==
  \/ CheckMonitor(w) \/ CheckChannel(w) \/ Answer(w)
  \/ RecordRetry(w) \/ RecordConflict(w) \/ CancelOrStop(w) \/ Release(w)

PassStep == StartPass \/ ListDue \/ ClaimDue \/ SkipDue \/ EndPass

SenderStep ==
  \/ StartDelivery \/ StartTest \/ OpenIncident \/ CloseIncident
  \/ StopOpposite \/ FirstAttempt

ConfigStep == ArchiveMonitor \/ ArchiveChannel \/ SwitchChannel \/ ResetIncident

Next ==
  \/ \E w \in Operators : RetryAttempt(w)
  \/ \E w \in Workers : WorkerStep(w) \/ Abandon(w)
  \/ PassStep
  \/ SenderStep
  \/ ConfigStep
  \/ Restart
  \/ Tick

Spec == Init /\ [][Next]_vars

\* The ticker of Start begins a pass whenever none runs, and a goroutine that
\* runs goes on: lookups return and the provider has 30 seconds.
Fairness ==
  /\ WF_vars(PassStep)
  /\ WF_vars(WorkerStep(Maintenance))

FairSpec == Spec /\ Fairness

-----------------------------------------------------------------------------
(* Properties.                                                             *)

\* A retry source has at most one successor, which is the next attempt of the
\* same notification; only failed attempts are retried.
\* (CreateNotificationAttempt, "A retry source may have at most one direct
\* successor".)
ChainIntegrity ==
  \A i \in DOMAIN attempts :
    LET source == attempts[i].retryOf IN
      source # None =>
        /\ source \in DOMAIN attempts /\ source < i
        /\ attempts[source].status = "failed"
        /\ attempts[source].kind = attempts[i].kind
        /\ attempts[source].no + 1 = attempts[i].no
        /\ \A j \in DOMAIN attempts : attempts[j].retryOf = source => j = i

\* A superseded source holds no lease: nobody who looks at the table takes it
\* for a retry in progress.
SupersededUnclaimed ==
  \A id \in DOMAIN attempts : HasSuccessor(id) => attempts[id].claim = None

\* The pass has gone on for longer than a lease: the claims it makes are stamped
\* with a time from which the lease is over already.
PassOutlastsLease == pass.phase = "retries" /\ pass.now + Lease <= now

\* A worker whose lease nobody took away works on a failed attempt that is
\* not superseded, and its lease is not yet up for others to take; only a pass
\* that has outlasted the lease works without its cover.
LeaseCovers ==
  \A w \in Workers :
    Busy(w) /\ worker[w].leased =>
      /\ worker[w].src \in DOMAIN attempts
      /\ attempts[worker[w].src].status = "failed"
      /\ ~HasSuccessor(worker[w].src)
      /\ \/ w = Maintenance /\ PassOutlastsLease
         \/ /\ attempts[worker[w].src].claim # None
            /\ now < attempts[worker[w].src].claim + Lease

\* v and w both work on one attempt, and nobody took the lease of either away.
BothRetry(v, w) ==
  /\ Busy(v) /\ worker[v].leased
  /\ Busy(w) /\ worker[w].leased
  /\ worker[v].src = worker[w].src

\* Two workers retry the same attempt at the same time, and may send its message
\* twice, only when one of them is a pass that has outlasted the lease: operators
\* never take a retry from each other.
OnlyLatePassOvertaken ==
  \A v, w \in Workers :
    BothRetry(v, w) /\ v # w => Maintenance \in {v, w} /\ PassOutlastsLease

\* Whoever owns a retry is alone with it: the others are refused (scheduler.go,
\* "another worker owns the retry [...] Retrying it again would duplicate
\* delivery").  The pass breaks it.
SingleSender == \A v, w \in Workers : BothRetry(v, w) => v = w

\* Without faults a schedule that was cleared stays cleared: a retry stopped
\* because its incident or configuration changed, or superseded, is not
\* scheduled again by a worker that was busy with it at the time.
StoppedStays ==
  [][\A id \in DOMAIN attempts :
       attempts[id].status = "failed" /\ attempts[id].next = None
         => attempts'[id].next = None]_vars

\* Once its monitor is archived the maintenance pass takes up no delivery of
\* it any more (DeleteMonitor, "no notification should be dispatched after the
\* owning monitor and its rules are archived").
ArchivedMonitorSilent ==
  [][ClaimDue /\ monitor.archived => attempts[worker'[Maintenance].src].kind = "test"]_vars

\* Without faults only attempts below the limit are retried by themselves:
\* the chain of automatic deliveries ends after maxDeliveryAttempts.
AutomaticBudget ==
  [][ClaimDue => attempts[worker'[Maintenance].src].no < maxDeliveryAttempts]_vars

\* A retry that is due is taken up, or stopped, as long as the process does
\* not keep dying: the passes get to it however long the outbox takes.
DueRetryTaken ==
  <>[][~Restart]_vars =>
    \A id \in 1..(MaxFirst * (MaxManualNo + 1)) :
      (id \in Due(now)) ~> (id \notin Due(now))
-----------------------------------------------------------------------------
(* What becomes of each message, for NotificationDelivery.                 *)

\* The latest attempt of each message: nothing has superseded it.
LatestAttempts == {i \in DOMAIN attempts : ~HasSuccessor(i)}

MessageState(row) ==
  IF row.status = "sent" THEN "sent" ELSE IF row.next # None THEN "scheduled" ELSE "resting"

Message == [i \in LatestAttempts |-> [state |-> MessageState(attempts[i]), tries |-> attempts[i].no]]

Delivery == INSTANCE NotificationDelivery WITH
  Limit <- maxDeliveryAttempts, message <- Message

\* Whoever retries what, and whatever fails in between: a message is tried
\* once more at a time and never after it was sent, it is scheduled only below
\* the limit or when a retry could not be ended, and once it rests without
\* faults it rests until an operator retries it.
DeliversMessages == Delivery!Spec
=============================================================================
