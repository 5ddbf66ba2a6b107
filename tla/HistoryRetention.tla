---------------------------- MODULE HistoryRetention ----------------------------
(* Which rows of events and notification_attempts a cleanup may remove while   *)
(* dispatches and retries still need them.  A retry is a row of its own that    *)
(* names the row it retries; a row with a successor is done with.               *)
EXTENDS Naturals, Sequences, FiniteSets

CONSTANTS Retriers,        \* workers that retry: operators, maintenance passes
          Events,          \* ids, a set of numbers
          NoEvent,         \* a row whose event is gone; Events do not hold it
          Unset,           \* NULL in a column of times
          ClaimLease,      \* notificationRetryLease
          EventAge, AttemptAge,   \* HistoryRetentionPolicy
          BatchSize,
          MaxAttempts, MaxDays    \* bounds

ASSUME RetentionAssumption ==
  /\ Events \subseteq Nat /\ NoEvent \notin Events /\ Unset \notin Nat
  /\ ClaimLease \in Nat /\ BatchSize \in Nat \ {0}
  /\ EventAge \in Nat /\ AttemptAge \in Nat
  /\ MaxAttempts \in Nat /\ MaxDays \in Nat

VARIABLES events,          \* the rows of events, with their outbox
          attempts,        \* the rows of notification_attempts by id
          retrier,         \* what each worker does
          day,             \* the time
          superseded,      \* history: rows that got a successor
          reopened         \* history: of those, rows scheduled again

historyVars == <<events, attempts, retrier, day, superseded, reopened>>

\* scheduled: next_retry_at is set; when it falls due is left open.
\* attached: the columns event_id and rule_evaluation_id; claimed: when, and
\* (history) by whom.
AttemptRows == [there: BOOLEAN, attached: Events \cup {NoEvent}, of: Nat,
                failed: BOOLEAN, scheduled: BOOLEAN, created: Nat,
                claimed: (Retriers \X Nat) \cup {Unset}]

EventRows == [there: BOOLEAN, outbox: {"none", "pending", "processing", "done"},
              created: Nat]

\* source: the row as it was read; seen: its event; held: its event when claimed.
Retrying == [stage: {"idle", "read", "sending"}, source: Nat, due: BOOLEAN,
             at: Nat, seen: Events \cup {NoEvent}, held: Events \cup {NoEvent}]

AtRest == [stage |-> "idle", source |-> 0, due |-> FALSE, at |-> 0,
           seen |-> NoEvent, held |-> NoEvent]

HistoryInit ==
  /\ events = [e \in Events |-> [there |-> FALSE, outbox |-> "none", created |-> 0]]
  /\ attempts = <<>>
  /\ retrier = [w \in Retriers |-> AtRest]
  /\ day = 0
  /\ superseded = {} /\ reopened = {}

AttemptIds == DOMAIN attempts

Row(r) == attempts[r]

There(r) == r \in AttemptIds /\ Row(r).there

Successors(r) == {s \in AttemptIds : Row(s).there /\ Row(s).of = r}

\* Nobody has claimed the row, or its lease is over at the time t.
Unclaimed(r, t) ==
  IF Row(r).claimed = Unset THEN TRUE ELSE Row(r).claimed[2] + ClaimLease <= t

\* A row of CreateNotificationAttempt; the last automatic attempt of a
\* notification is not scheduled again.
NewRows(e, source) ==
  {[there |-> TRUE, attached |-> e, of |-> source, failed |-> result # "sent",
    scheduled |-> result = "failed", claimed |-> Unset, created |-> day] :
      result \in {"sent", "failed", "failed for good"}}

-----------------------------------------------------------------------------
(* Events and their dispatch.                                               *)

CreateEvent(e) ==
  /\ ~events[e].there /\ events[e].outbox = "none"
  /\ \A f \in Events : f < e => events[f].outbox # "none"
  /\ events' = [events EXCEPT
       ![e] = [there |-> TRUE, outbox |-> "pending", created |-> day]]
  /\ UNCHANGED <<attempts, retrier, day, superseded, reopened>>

\* Claims, outcomes, dead letters and requeues of the outbox.
MoveOutbox(e, status) ==
  /\ events[e].there /\ status # events[e].outbox
  /\ status = "processing" => events[e].outbox = "pending"
  /\ status = "pending" => events[e].outbox = "processing"
  /\ events' = [events EXCEPT ![e].outbox = status]
  /\ UNCHANGED <<attempts, retrier, day, superseded, reopened>>

FirstAttempt(e) ==
  /\ events[e].there /\ events[e].outbox = "processing"
  /\ Len(attempts) < MaxAttempts
  /\ \E row \in NewRows(e, 0) : attempts' = Append(attempts, row)
  /\ UNCHANGED <<events, retrier, day, superseded, reopened>>

-----------------------------------------------------------------------------
(* Retries.                                                                 *)

\* RetryAttempt reads one row, ListDueNotificationAttempts the due ones.
ReadSource(w, r, due) ==
  /\ retrier[w].stage = "idle"
  /\ There(r) /\ Row(r).failed
  /\ due => Row(r).scheduled /\ Unclaimed(r, day) /\ Successors(r) = {}
  /\ retrier' = [retrier EXCEPT
       ![w] = [stage |-> "read", source |-> r, due |-> due,
               at |-> IF due THEN day ELSE 0,
               seen |-> Row(r).attached, held |-> NoEvent]]
  /\ UNCHANGED <<events, attempts, day, superseded, reopened>>

\* A pass claims with the time it began.
Stamp(w) == IF retrier[w].due THEN retrier[w].at ELSE day

Claimable(w) ==
  LET r == retrier[w].source IN
  /\ There(r) /\ Unclaimed(r, Stamp(w)) /\ Successors(r) = {}
  /\ retrier[w].due => Row(r).scheduled

ClaimSource(w) ==
  /\ retrier[w].stage = "read" /\ Claimable(w)
  /\ attempts' = [attempts EXCEPT ![retrier[w].source].claimed = <<w, Stamp(w)>>]
  /\ retrier' = [retrier EXCEPT ![w].stage = "sending",
                                ![w].held = Row(retrier[w].source).attached]
  /\ UNCHANGED <<events, day, superseded, reopened>>

GiveWay(w) ==
  /\ retrier[w].stage = "read" /\ ~Claimable(w)
  /\ retrier' = [retrier EXCEPT ![w] = AtRest]
  /\ UNCHANGED <<events, attempts, day, superseded, reopened>>

\* The source's event must exist, and a successor must not.
Insertable(w) == /\ \A e \in Events : e = retrier[w].seen => events[e].there
                 /\ There(retrier[w].source) /\ Successors(retrier[w].source) = {}

\* CreateNotificationAttempt; when the new row cannot be read back the source
\* is scheduled again all the same.
RecordSuccessor(w) ==
  LET r == retrier[w].source IN
  /\ retrier[w].stage = "sending" /\ Insertable(w)
  /\ Len(attempts) < MaxAttempts
  /\ \E row \in NewRows(retrier[w].seen, r), readBack \in BOOLEAN :
       /\ attempts' = Append([attempts EXCEPT ![r].scheduled = ~readBack,
                                               ![r].claimed = Unset], row)
       /\ reopened' = IF readBack THEN reopened ELSE reopened \cup {r}
  /\ superseded' = superseded \cup {r}
  /\ retrier' = [retrier EXCEPT ![w] = AtRest]
  /\ UNCHANGED <<events, day>>

\* ReleaseNotificationRetry: any step before the commit may have failed.
ReleaseSource(w) ==
  LET r == retrier[w].source IN
  /\ retrier[w].stage = "sending"
  /\ IF There(r)
     THEN /\ attempts' = [attempts EXCEPT ![r].scheduled = TRUE, ![r].claimed = Unset]
          /\ reopened' = reopened \cup ({r} \cap superseded)
     ELSE UNCHANGED <<attempts, reopened>>
  /\ retrier' = [retrier EXCEPT ![w] = AtRest]
  /\ UNCHANGED <<events, day, superseded>>

\* CancelNotificationRetry after a conflict, StopNotificationRetry when the
\* channel or the monitor is gone.
CancelSource(w) ==
  LET r == retrier[w].source IN
  /\ retrier[w].stage = "sending"
  /\ attempts' = IF There(r)
                 THEN [attempts EXCEPT ![r].scheduled = FALSE, ![r].claimed = Unset]
                 ELSE attempts
  /\ retrier' = [retrier EXCEPT ![w] = AtRest]
  /\ UNCHANGED <<events, day, superseded, reopened>>

\* StopMonitorNotificationRetries, archiving: schedules and leases are cleared.
StopRetries ==
  /\ \E r \in AttemptIds : There(r) /\ Row(r).scheduled
  /\ attempts' = [r \in AttemptIds |->
       IF There(r) /\ Row(r).scheduled
       THEN [Row(r) EXCEPT !.scheduled = FALSE, !.claimed = Unset] ELSE Row(r)]
  /\ UNCHANGED <<events, retrier, day, superseded, reopened>>

-----------------------------------------------------------------------------
(* CleanupHistory.  One transaction.                                         *)

NewestBatch(ids) ==              \* mutant: ORDER BY id DESC
  {i \in ids : Cardinality({j \in ids : j > i}) < BatchSize}

\* ORDER BY id LIMIT ?
Batch(ids) == {i \in ids : Cardinality({j \in ids : j < i}) < BatchSize}

NeededBySchedule(e) ==           \* mutant: leases are forgotten
  \E r \in AttemptIds : There(r) /\ Row(r).attached = e /\ Row(r).scheduled

\* A retry of the event is scheduled or being sent.
Needed(e) ==
  \E r \in AttemptIds : /\ There(r) /\ Row(r).attached = e
                        /\ Row(r).scheduled \/ ~Unclaimed(r, day)

expiredEventIDs ==
  Batch({e \in Events : /\ events[e].there /\ events[e].created + EventAge < day
                        /\ events[e].outbox \notin {"pending", "processing"}
                        /\ ~Needed(e)})

\* cleanupExpiredEvents: attempts outlive their event, detached from it.
Detached(expired) ==
  [r \in AttemptIds |-> IF Row(r).attached \in expired
                        THEN [Row(r) EXCEPT !.attached = NoEvent] ELSE Row(r)]

candidates ==
  Batch({r \in AttemptIds : /\ There(r) /\ Row(r).created + AttemptAge < day
                            /\ ~Row(r).scheduled /\ Unclaimed(r, day)})

\* cleanupExpiredNotificationAttempts: successors forget what they retried.
Purged(rows, gone) ==
  [r \in AttemptIds |->
     IF r \in gone THEN [rows[r] EXCEPT !.there = FALSE]
     ELSE IF rows[r].of \in gone THEN [rows[r] EXCEPT !.of = 0] ELSE rows[r]]

\* Either category may be switched off.
CleanupHistory(eventsToo, attemptsToo) ==
  LET expired == IF eventsToo THEN expiredEventIDs ELSE {}
      gone == IF attemptsToo THEN candidates ELSE {} IN
  /\ expired \cup gone # {}
  /\ events' = [e \in Events |-> IF e \in expired
                                 THEN [events[e] EXCEPT !.there = FALSE]
                                 ELSE events[e]]
  /\ attempts' = Purged(Detached(expired), gone)
  /\ UNCHANGED <<retrier, day, superseded, reopened>>

\* The process dies: workers are gone, leases and rows stay.
Restart ==
  /\ \E w \in Retriers : retrier[w].stage # "idle"
  /\ retrier' = [w \in Retriers |-> AtRest]
  /\ UNCHANGED <<events, attempts, day, superseded, reopened>>

Day ==
  /\ day < MaxDays
  /\ day' = day + 1
  /\ UNCHANGED <<events, attempts, retrier, superseded, reopened>>

-----------------------------------------------------------------------------
HistoryNext ==
  \/ \E e \in Events :
       \/ CreateEvent(e) \/ FirstAttempt(e)
       \/ \E status \in {"pending", "processing", "done"} : MoveOutbox(e, status)
  \/ \E w \in Retriers :
       \/ \E r \in AttemptIds, due \in BOOLEAN : ReadSource(w, r, due)
       \/ ClaimSource(w) \/ GiveWay(w)
       \/ RecordSuccessor(w) \/ ReleaseSource(w) \/ CancelSource(w)
  \/ \E eventsToo, attemptsToo \in BOOLEAN : CleanupHistory(eventsToo, attemptsToo)
  \/ StopRetries \/ Restart \/ Day

HistorySpec == HistoryInit /\ [][HistoryNext]_historyVars

-----------------------------------------------------------------------------
(* Properties.                                                              *)

\* A notification that was retried does not look unresolved again because its
\* later attempts were removed first: as long as its row is there, so is the
\* retry that followed it, unless a worker put the row back on the schedule
\* after it was followed (cleanupExpiredNotificationAttempts clears retry_of_id).
ResolvedStaysResolved ==
  \A r \in superseded \ reopened : There(r) => Successors(r) # {}

\* While a worker sends under a lease that is neither over nor revoked, the
\* row it retries and the event of that row stay (CleanupHistory, "actively
\* claimed notification retries are retained").
ClaimedRowKept ==
  \A w \in Retriers :
    LET r == retrier[w].source IN
    retrier[w].stage = "sending" =>
      \/ Unclaimed(r, day) \/ Row(r).claimed[1] # w
      \/ Row(r).there /\ Row(r).attached = retrier[w].held
=============================================================================
