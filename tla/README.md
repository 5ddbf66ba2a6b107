# WatchBell: verification project

WatchBell (Go, one process, SQLite) checks sources on a schedule (RSS,
TestFlight, web pages, GitHub releases, cinema schedules), turns what is new
into events, evaluates rules on them and sends notifications. This directory
holds TLA+ models of the parts where goroutines, requests, statements that
fail and restarts meet, the TLC runs that check them on small instances, and
TLAPS proofs of what matters most for all instances.

Contents: [the system](#the-system) · [modules](#modules) ·
[runs](#runs) · [proofs](#proofs) · [findings](#findings) ·
[fairness](#fairness) · [what is left out](#what-is-left-out) · [plan](#plan)

To check a run: `tlc -config MCRetryDelivery.cfg MCNotificationRetry`; to check
proofs: `tlapm NotificationRetryProofs.tla`. `PROJECT.json` lists runs,
mutants, theorems, hazards and, for every definition, the code it models.

## The system

One process holds a scheduler, the HTTP API, a cleaner of old history and a
watcher of the persisted password. All of them talk to one SQLite database
through `internal/store`; every statement is atomic, a few operations are
transactions, and almost everything else is a sequence of statements between
which other goroutines run and after which the process may die.

| Component | State | Operations | Talks to | What is hard | What makes it correct |
|---|---|---|---|---|---|
| Notification retries (`store/tracking.go`, `scheduler.go`) | `notification_attempts`: status, attempt number, `next_retry_at`, `retry_claimed_at`, `retry_of_id` | claim, send, record the successor, cancel, stop, release; first attempts | scheduler, API, configuration, notifiers | the maintenance pass against operators, stale leases, revoked leases, requests cut off, restarts | one successor per attempt, one sender at a time unless a pass is overtaken, stopped means stopped, automatic attempts end, due attempts are taken |
| Event outbox and dead letters (`store/tracking.go`, `dead_letters.go`) | `event_outbox`: status, attempts, `next_attempt_at`, `updated_at` | create with the event, claim, dispatch, mark, requeue, close on archive | checks, maintenance, API | crash in a dispatch, takeover of claims, dispatches that outlast the takeover, unconditional outcome writes | no event lost, none dispatched by two at once unless taken over, limits are kept, everything settles |
| Scheduler tick and workers (`scheduler.go`) | in-flight set, semaphore, `maintenance` flag | tick, enqueue, manual check, `processMonitor` | everything | stale snapshots of monitors, edits during a check, blocking on slots | one check per monitor, what is found is lost only with its own insert or with its check, every due monitor checked |
| Monitor health (`scheduler.go`, `monitor_failure_alert.go`) | `consecutive_failures`, `failure_alert_active` | count, open and close an incident | retries, channels | crash between flag and alert, alerts of an older incident | a source that stays down has an incident in the end, one that stays up has none |
| Rule dispatch (`scheduler.go`, `rule/`) | rule locks, `last_fired_at`, evaluations | evaluate, cooldown, quiet hours, send to each channel | outbox, retries | repeated and overlapping dispatch, channels switched in between, cooldown written without the lock by retries | no two firings within a cooldown, every rule evaluated, every channel served or accounted for |
| Configuration store (`store/sqlite.go`, `config_repair.go`, `proxies.go`) | monitors, rules, channels, templates, proxies, and references between them | create, copy, update, archive, repair | all | forms checked long before they are written; archiving in any order | rules watch active monitors, names stay apart, after a start all that is enabled refers to active records |
| Backup, import, snapshot (`config_backup.go`, `config_snapshot.go`) | the same tables | export, import by name, snapshot | API | merging into a changed configuration | a backup refers to nothing outside itself; an import reproduces what the backup names |
| History retention (`history_retention.go`, `maintenance/history.go`) | all history tables | purge in batches | retries, outbox | removing what a retry or dispatch still needs | what is being sent is never purged; what was retried does not look unresolved again |
| WeCom commands (`api/wecom.go`, `store/wecom.go`) | `wecom_callback_receipts`, four slots | claim a receipt, run a command, detached check, reply | scheduler, API | redelivered callbacks, slots held by detached jobs | a command is accepted at most once; slots are returned |
| Authentication (`auth/auth.go`, `main.go`) | credentials under a lock, login limiter, persisted hash | login, change password, reload, verify | API, settings | password change against reload | the password never goes back and follows the database |
| Rule conditions, quiet hours, check intervals | none | pure functions | rule dispatch, tick | boundaries (midnight, caps, jitter), early exits, errors | agree with a declarative definition |
| Checkers, notifiers, templates, variables, dates | checker state in the monitor | HTTP, parsing, rendering | checks, dispatch | I/O and text | out of reach of these models, see below |
| API handlers, history queries, settings, process start, web UI | none of their own | decode, validate, call the above | all | forms checked long before they are written, requests that are cut off | modelled with what they write |

What interacts with what: a tick starts the *maintenance pass* (unless one
runs) and then queues due monitors on worker slots. A *check* saves the
monitor's state, updates its health, stores new events with an outbox row each
and dispatches them. The pass first dispatches outbox events that are left,
then retries failed notifications. *Operators* retry a notification, requeue a
dead letter, edit and archive configuration at any time. All of them write the
same rows.

## Modules

| Module | Role |
|---|---|
| `NotificationDelivery` | abstract: what retries promise of a message |
| `NotificationRetry` | retries of notifications; implements `NotificationDelivery` |
| `MCNotificationRetry` | its small instances |
| `NotificationRetryProofs` | its theorems, the refinement among them |
| `EventDelivery` | abstract: what the outbox promises |
| `EventOutbox` | the outbox; implements `EventDelivery` |
| `MCEventOutbox` | its small instances |
| `EventOutboxProofs` | its theorems, the refinement among them |
| `CheckCycle` | how monitors come to be checked, and what a check saves |
| `MCCheckCycle` | its small instances |
| `CheckCycleProofs` | its theorems, and those of `CheckSchedule` |
| `RuleDispatch`, `RuleDispatchProofs` | dispatches of events against the rules of a monitor; proved |
| `MonitorHealth` | failures, threshold and incident of a monitor |
| `WeComCommands`, `WeComCommandsProofs` | commands of WeCom members; proved |
| `Credentials`, `CredentialsProofs` | the administrator's password, its reload, the limiter; proved |
| `MCServices` | these four on small instances |
| `ConfigReferences` | the configuration tables and the references between them |
| `ConfigBackup` | export and import, on the tables of `ConfigReferences` |
| `ConfigBackupProofs` | the theorems of both |
| `HistoryRetention`, `HistoryRetentionProofs` | what a cleanup removes next to retries; proved |
| `RuleConditions` | what a rule's form accepts and what its condition and quiet hours decide |
| `CheckSchedule` | when a check is due |
| `MCConfig` | these five on small instances |

Operators named after a mistake (`ClaimableIgnoringLease`, ...) are *mutants*:
what a plausible bug would make of the definition they precede. No action uses
them; replacing the definition by its mutant must make a run fail, which
`PROJECT.json` lists for each property.

### NotificationDelivery and NotificationRetry

`NotificationDelivery` knows messages, each by its latest attempt: it was sent,
it is scheduled, or it rests until an operator asks for it. It is tried once more
at a time and never after it was sent; a failure schedules it only below the limit;
and what rests is scheduled again only by a retry in which a statement failed.
No leases, workers, passes, configuration or time. `Message` is the refinement
mapping: the rows that have no successor, with what their status and schedule mean.

`NotificationRetry` is one monitor with one channel. `attempts` is the table in the order of ids;
the columns kept are the kind, status, attempt number, schedule
(`next_retry_at`), lease (`retry_claimed_at`) and the source
(`retry_of_id`). `worker` has one entry per operator request and one for the
maintenance goroutine, each at a *stage* of `RetryAttempt`/`retryAttempt`/
`runClaimedNotificationRetry`: after the claim, before the channel lookup,
sending, answered, and before the last statement (`CancelNotificationRetry`,
`StopNotificationRetry` or `ReleaseNotificationRetry`). Each step between two
stages is one statement or transaction of the code, so every interleaving of
statements is explored. `pass` holds the time the pass read when it started
and the ids it listed; the code stamps all claims of the pass with that time,
and so does `ClaimDue`. `sender` is a first attempt under way: a rule's
delivery, a channel test, or an alert of an incident that has just been opened
or closed (together with `StopMonitorNotificationRetries` for the other kind).
`DeleteMonitor`, `DeleteNotifyChannel`, `UpdateNotifyChannel` and
`UpdateMonitor` change what retries look at; `Restart` kills every goroutine
and runs the repair of `repairActiveConfigReferences`.

`leased` is a history variable: whether the lease was left to this worker since
it claimed; a second claim does not end it, for both go on. Nothing bounds a
pass: it dispatches up to 20 events before it retries rows one after the other,
and its claims carry the time it started with, so a late claim may be over when
it is written. `PassOutlastsLease` names that state. `OnlyLatePassOvertaken` says
that it is the only way for two workers to send one row (`retry_long_pass` shows
that it happens), `LeaseCovers` that everybody else works under a lease that is not
up. A single retry takes at most `MaxHold`: a few statements and a send with a
deadline of 30 seconds. A lease can also be taken away: `DeleteMonitor` clears the one of a
retry in flight too (`sqlite.go:400`), and since an operator's claim does not
ask for the monitor, the same row may then be sent by two workers at once. That
pair is outside `OnlyLatePassOvertaken`; the chain stays one all the same, because the
second successor is refused (`ChainIntegrity`).

Merged steps: `GetMonitor`, the lookup of the channels and the compare-and-set
of `failure_alert_active` are one step (`OpenIncident`, `CloseIncident`);
the compare-and-set decides, and what was read earlier only leads to an alert
about a channel that was switched off in between. A preview send behaves like
a test and is not a kind of its own. The list of a pass is not cut at 20 rows:
with at most 20 rows due the code lists all of them, too.

### EventDelivery and EventOutbox

`EventDelivery` has no timers, attempts or rows: what is written of each event (it
waits, was delivered, given up or dropped with its monitor) and what each
dispatcher is at. A dispatcher takes an event that waits; one that has been at
it for long (`late`) may be overtaken, and then both know that the event is
`shared`. A dispatcher that was alone delivers or fails an event that still waits
or was dropped in the meantime; only one that shared it may write over a
delivery. An operator revives what was given up; a crash ends all dispatchers.

`EventOutbox` is one monitor (whose checks exclude each other, so one check
goroutine) and its events. A row keeps status, attempts (up to
`maxOutboxAttempts`, where it is compared), the reason in `last_error` as far
as it matters, and a *timer*: the minutes left until `next_attempt_at` for a
pending row, until `updated_at` + 5 minutes for a row in processing. A dispatch
takes any time, as rules times channels times 30 seconds may; `held` counts its
minutes as far as the takeover asks for them. Keeping
the time left instead of a clock makes the state space finite, so the runs
have no bound on time. A worker goes through `processOutboxEvent`: claim,
lookups, dispatch, outcome. The pass lists a page with the attempts of each
event (`due`) and hands these attempts, not the column, to
`MarkOutboxFailed`, as the code does. Outcomes are written unconditionally:
after an archive they reopen a closed row.

The refinement reads the state of an event off its row, a row in processing being
an event that waits, and what a dispatcher is at off its worker: the row is
closed while its event is being dispatched, or taken over, and the holder may
still deliver it or put it back. `shared` is a history variable of the workers.

### CheckCycle

`monitor` is the table: configuration, state, whether the row is due, enabled,
archived. A configuration names a `source`, which shows items and changes. The
state is what a check remembers: for feeds (`Accumulates`) every item seen,
and an event is named by its item; for pages the last text only, and an event
is named by its second and hash, so the same change observed twice is two
events. `notifyExisting` is off.

`tick` is `enqueueDue`: `ListDue` copies the due rows at once (`isDue` compares
the copy with one reading of the clock, so it is decided here), then the
tick goes through them in the order of ids: `SkipInFlight`, or `Mark` and, as soon as a
slot is free, `StartScheduled`. A scheduled check is the goroutine in its slot,
so the semaphore needs no variable of its own; a caller of `RunOnce` is a
runner without slot that marks first and reads the row afterwards (`Load`).
Both go through `processMonitor` in the order of its statements: the check run
is created, the source is checked (or cannot be), the state is saved
(`UpdateMonitorCheckResult`), each item of the news gets its event
(`CreateEventForRun`, the insert and its outbox row), and the monitor is given
back. `UpdateMonitor` is two steps, the read that decides about the reset
(`OpenForm`) and the write (`SaveForm`). `Cancel` ends the context of a caller:
no statement of its check runs after that, and `Unwind` is its deferred
`clearInFlight`. A statement may fail: before the state is saved that ends the
check (`StatementFails`); an event that cannot be inserted is logged and the loop
goes on with the next (`CreateEventFails`). `Restart` leaves the tables only.

`reported`, `dropped` (items whose own insert failed or whose check was broken off
before it) and `fetched` are history variables, read by properties only.

Merged or left out: the slot and the monitor are given back in one step (in
the code the slot is first, so another goroutine may start a moment earlier); the
dispatch of each event, which `EventOutbox` models, takes time but changes
nothing here; alerts and failure counts, which only lengthen a check and its
interval (`BecomeDue` may come at any time); the rows of `check_runs`;
that a feed's memory is trimmed at `maxSeenItems`; items leaving a feed.

### RuleDispatch

The inside of one dispatch (`dispatchEvent`), of which `EventOutbox` only knows
that it ends well or not. A `job` is a dispatch at work: it has listed the
rules (`ListRules`), has locked one (`LockRule`; the mutexes of
`ruleDispatchLock`), has read the rule again (`ReadRule`), is sending to the
channels that were enabled when it matched (`Match`, `Notify`), has read the clock
(`StampRound`) or is done with the rule (`EndRule`, which writes
`last_fired_at`). `Pass` stands for all outcomes that send nothing; which one a
condition leads to is `RuleConditions`. A statement that fails ends the
dispatch (`GiveUp`), except where one channel cannot be recorded
(`NotifyUnrecorded`): the other channels are served first, and the error comes
back at the end. The event is then pending again, and another dispatch starts
over. An event in processing may also be taken by a second dispatcher while the first
is still at it, as `EventOutbox` allows after five minutes. A retry that got through
reads the clock (`RetryGetsThrough`) and, at some later time and without the lock,
writes what it read (`RetryWrites`), perhaps over a later firing. Rules are edited and
archived (`EditRule`), channels switched and archived (`SwitchReceiver`), and the
process dies (`Killed`). All these events and failing statements share the bound
`MaxSurprises`. History variables: `recorded` (channels with a row of an attempt,
by event and rule), `lastRound` (the last firing a dispatch recorded), `setBack`
(rules whose firing a retry has lowered below that since), `formed` and `switched`
(rules and channels that were touched).

`CooldownKept` exempts rules in `setBack`: that a late retry shortens a cooldown is
what the code does. `LossExplained` speaks of channels nobody touched: one that is
switched off before the event is dispatched again gets nothing and leaves no trace.

Merged: the evaluation with the decision it records, both under the lock; a channel's
answer with its row (after a crash between the two the channel has no row).
The rules are locked one at a time and each is released before the next one, so
no dispatch waits for another in a circle; `LocksReturn` says that every lock
comes back.

### MonitorHealth

One monitor's row as far as its health goes and the stages of one check at a
time (`CheckCycle` shows that there is one): `CheckSource`, `SaveResult`
(counts or resets the failures), `ReadHealth`, `ListChannels`, and
`TryActivate` or `TryClear`, each a statement. Failures above the largest
threshold are alike. A check may break off between any two of them
(`BreakOff`: a failing statement, a request that is cut off, a crash), the
row may be edited (a new threshold, other channels, another configuration that
starts over), a channel switched or archived. What is checked is what the code
undertakes across all that: a monitor that keeps failing has an incident in the
end if there is somebody to tell, and one that has recovered has none. The
alerts themselves, with the incident as one flag, are part of
`NotificationRetry`; that a flag is set before its alert is sent, so that a
crash in between leaves an incident nobody was told of, holds of the code and is no
property here.

### WeComCommands

A handler is one HTTP callback and the job it may leave behind. `Deliver` takes
a message that passes signature, decryption, time window and membership; then
`TakeSlot` or `TurnAway` (503, WeCom delivers again), the two statements of
`ClaimWeComCallback` (`PurgeReceipts`, `InsertReceipt`), and the command:
`ExecuteCommand` for those that are done with the answer, `AcceptCheck` for a
check, whose detached job asks for authorisation again before it runs and
before it reports (`StartCheck`, `EndCheck`, `SendResult`, `EndJob`). The slot
goes with the callback or with the job. Messages are delivered any number of
times, side by side, within their window; the channel is edited (another
application, other members, closed), the monitor archived, the server stopped.
Time counts minutes; the code's window is five minutes either way and its retention 24 hours,
here 1 and 4, in the order and with the gaps that matter. `Patience` bounds
the minutes between the check of the window and the receipt.

### Credentials

Hashes are salted, so each stored hash is new: they are numbered, and a session
is valid for the number it names, as the code's credential version is derived
from the hash. `stored` is the settings row, `current` the hash in memory,
`lock` the write lock of `credentialsMu`. `VerifyCurrent`, `PersistHash` or
`PersistFails`, and `Activate` are `ChangePassword`; the write lock is held
from the first to the last, and `SyncLoad`/`SyncApply`, the watcher's
`SyncPasswordHash`, take the same one. `RefreshSession` comes after the lock
was given back. `SetPassword` is the command line, another process that knows no
lock. All browsers share one address, hence one list in the limiter;
`Active`, `Blocked` and `Recorded` are `failureLimiter`. What `RefreshSession` grants
and what the limiter counts while it blocks is one comparison each, in one step;
no property repeats them.

### ConfigReferences and ConfigBackup

Five tables whose rows are `unused`, `active` or `archived`. References are
ids in JSON lists that no foreign key protects. Every write is two steps: a
`Submit...` reads, validates and holds the form, a `Write...` is the guarded
statement (its `WHERE` asks again for what the model's guards say, and for
nothing else: that channels and templates may have been archived meanwhile is
not asked, so `ArchivedUnreferenced` speaks of the archiving step and
`RunnableRules` of monitors). Copies find their name when they are written.
Archiving is one transaction that also edits what refers to the row, `Start`
the repair. Lists are sets, and a natural key (name, or name and type) is one
name. Where the code tries one suffix after the other, the model takes any free name.

`ConfigBackup` adds the file at hand. `ExportConfig` normalises
(`NormalMonitor`, `NormalRule`) and hides secrets or not; `ImportConfigMerge` is
one transaction: rows are found by natural key or created, ids translated,
rules merged one after the other (`RuleNow` is what a rule is when a given item is
looked up), and any refusal leaves everything as it was. Since requests edit the
configuration between an export and an import, and `Foreign` holds the file of
another instance, the rows of a backup and of the database differ in every way
the matching has to deal with.

### HistoryRetention

`attempts` again, now with what a cleanup looks at: the event a row belongs to,
its age, schedule and lease; when a scheduled row falls due is left open.
Workers read, claim, send and record as in `NotificationRetry`, in fewer steps.
`CleanupHistory` is the transaction with its two batches, each category on or
off; `Batch` is `ORDER BY id LIMIT`. Days and leases share one time scale here (a
lease is as long as a day), so a lease may be over while its worker is still
sending, and an old row may be leased: that is the hard case. In the code the
first takes a slow pass, the second a retry of an old attempt by an operator.

`ResolvedStaysResolved` leaves out rows that a worker put back on the schedule
after they were followed (`ReleaseSource`, and `RecordSuccessor` when the new
row cannot be read back): the code does that, and such a row is due once its
successor is gone.

### RuleConditions

`rule` goes from form to saved to decided. Forms are trees with up to two
levels and two children per node, each operator among the leaves, and forms
that must be refused; texts are sets of words, so "contains" is membership, and a
text may or may not be a time. What the code does by recursion is a recursive
function of a condition (`Conditions` holds every condition in play, `Depth`
its levels: a condition comes from JSON, so it is finite). The evaluation keeps
the code's order: the first child that settles a group or errs ends it, which
`evalSet` says of the sequence of the children's results. `DecidesRight`
compares with a definition without order: whatever a saved rule decides, it is
what the whole tree says, however the leaves that cannot be judged had gone. Quiet
hours use a day of four minutes and zones -1, 0 and 1, and times and zones that
are none.

### CheckSchedule

`dueInterval` in hundredths of a second, in which the percentages of the jitter
are exact, around a monitor that is checked, fails, waits, is edited and
switched. `Times` holds the instants around every bound.

### MCServices and MCConfig

The components of these two modules share no state, so a product of them would
say nothing and cost much. A behaviour is about one *subject*, chosen at the
start, and leaves the others in one initial state; the run explores the union of
their behaviours. Fairness and every property are those of the components,
unchanged.

## Runs

| Run | Question | Result |
|---|---|---|
| `retry_delivery` | two operators, the pass, failing statements, cut-off requests, archiving and restarts on the rows of one delivery: one chain, and one sender unless a pass outlasts the lease? | holds |
| `retry_health` | the same for alerts of incidents that open, close and are reset: is a stopped retry ever scheduled again? | holds |
| `retry_progress` | is every due retry taken up or stopped, and does `NotificationDelivery` allow every behaviour: none tried after it was sent or stopped, or by itself beyond the limit? | holds |
| `retry_long_pass` | is whoever owns a retry alone with it? | not when it is a pass that outlasts the lease |
| `retry_archived` | is an archived monitor silent? | it is not |
| `outbox` | two events, pages of one, with failing statements, archive, requeueing, restarts, dispatches of any length: dispatched twice at once only after a takeover, no early dead letters, refinement of `EventDelivery`, and is every event settled in the end? | holds |
| `check_flight` | a tick and a caller want two monitors with one slot, over archives, a cancelled call, a restart: do checks of one monitor exclude each other, is every due monitor checked? | holds |
| `check_news` | scheduled and requested checks on copies that may be old, while a form changes the configuration, inserts fail and calls are cut off: does an item get lost otherwise than with its own insert or its check, is an archived row written? | no |
| `check_lost` | what if a caller gives up, or the process stops, during a check? | news is lost |
| `check_baseline` | what if the configuration changes during a check? | old entries are reported |
| `config` | two requests, archiving, exports, imports and restarts on three databases: are references and names kept, does a backup reproduce what it names? Cleanups between the steps of a retry; rules submitted and judged; intervals | holds |
| `services` | commands delivered again, passwords changed from two sides, dispatches side by side while channels are switched, incidents over checks that break off: at most once, within the slots, forward only, a cooldown apart, announced and closed in the end? | holds |

Bounds. Time in `NotificationRetry` counts minutes up to `MaxTime`; the lease is
3 instead of 5 and a retry takes at most one minute, so the first delay (1),
the second (2), a lease that expires and a pass that is slower than a retry
all fit into the bound of the run. Operators retry attempts up to
`MaxManualNo`, which leaves chains of two or three rows: enough for a source
that is superseded while somebody else works on it, and for one that is
retried after its last automatic attempt. One first attempt per run of
deliveries, two for health alerts, since these differ in kind. Two operators
where they compete with each other (symmetric), one elsewhere. `StoppedStays`
is checked without faults: with them `ReleaseNotificationRetry` reschedules a
row by design. In `EventOutbox` two events show what one does to another (page
of one, order of the list), `MaxAttempts` 3 leaves two delays before the dead
letter, and `Stale` 2 lets a dispatch end before it is stale or go on beyond it. In
`CheckCycle` two monitors with one slot make the
tick wait, and a caller besides competes for the same monitor; there the
sources show nothing (`Items` is empty), since what a check finds does not
decide who checks. In `check_news` one monitor of one source that shows up to two
items and changes twice (`MaxChanges`), its configuration edited at any time but with one value
(which resets nothing; resets are part of `check_baseline` and of the proofs), with
one scheduled and two requested checks; two failing statements, cancelled callers
or restarts (`MaxStops`) lose one item and spare the other. In `check_lost` one
such stop is enough to lose an item. In `check_baseline` two editors, two
configurations and one item that either source may show let an edit meet a check and
another edit. Deadlock is not checked in these runs: when
all monitors are archived nothing is left to do.

In `config`, the three databases of `MCLegacy` are one in use (two monitors
that share a rule, a proxy, alerts), one that an older release left with dangling
references of every kind, and one nearly new; four requests (`MaxRequests`:
forms, archivings, backups, crashes) suffice for a form that waits while two
other requests go by. Two clients are alike, hence the symmetry. The history
has one event, two attempts and one worker for three days, which is enough for
a source and its successor to age past their bounds at different times; batches of
one row make the order of the deletions visible. Of the rules all 2,600 forms
are submitted, and those that are saved judge every event over one word and two
ages. In `services`, two callbacks and two messages with one slot make one of them
wait; three deliveries repeat a message after its receipt was purged; two
browsers, two hashes and one restart let the command line, a request and the
watcher meet; two dispatches of one event compete for one rule with two
channels; three failing statements, takeovers, edits, switches, retries or crashes
(`MaxSurprises`) let a dispatch lose a row, meet a switched channel and be overtaken,
or a retry read the clock, a dispatch fire and the retry write. For a monitor's
health, thresholds up to two, two forms and one check that breaks off. Deadlock is not
checked: every one of these systems may come to rest.

## Proofs

All proofs are of the specifications TLC runs, for every value of the
constants that satisfies the named assumptions (`...Assumption` in the modules,
which TLC evaluates on every run). Where a theorem needs more, the hypothesis is
part of its statement and named below. Every
invariant and action property of the passing runs is proved.

`NotificationRetryProofs`:

* `TypeCorrect`: types, and every busy worker works on a failed row.
  Inductive as `TInv`.
* `ChainsCorrect` and `SourcesUnclaimed`: `ChainIntegrity` and
  `SupersededUnclaimed`, inductive together as `CInv` (types and both). The one
  hard step is recording: the source of the new row is in the table, failed and
  without a successor, because the transaction checks it; and clearing its lease
  in the same transaction keeps the second part. Steps that only clear schedules
  and leases are handled by one lemma on rows whose other columns stay the same.
* `LeasesExclusive`: `LeaseCovers` and `OnlyLatePassOvertaken`, assuming
  `MaxHold < Lease`, and nothing of passes. Neither is inductive: that a lease is not
  up for others *now* depends on when the claim was made and how old its stamp was. The
  invariant `LInv` adds, for every worker that holds its lease, that its row carries
  the stamp it wrote, at most `MaxHold` ago (operators), or the start of the pass,
  unless that has outlasted the lease. A claim needs a row without lease or with an
  expired one, so a holder that is at it is a pass that has outlasted the lease.
* `StopsForGood` and `RetriesBounded`: `StoppedStays` and `AutomaticBudget`,
  assuming `Faults = FALSE`, as the two properties are meant: after a failing
  statement `ReleaseNotificationRetry` puts a row back on the schedule by
  design. The invariants are `NoRelease` (then no worker gets to that statement)
  and `ScheduledBelowLimit`; `SchedulesFall` says what every step does to the
  schedules of old rows (keeps or clears them) and of a new one (none at the
  limit).
* `RetriesDeliver`: every behaviour of `NotificationRetry` is one of
  `NotificationDelivery`, with or without faults and for any leases and times
  (`retry_progress` checks it without, where it also bounds what the pass takes up,
  `AutomaticBudget`, which no run repeats):
  what is promised of a message rests on the transaction that records a retry,
  not on leases. The invariant is `CInv` with `NoRelease` where there are no faults.
  A step that adds no row and gives no row a schedule stops some messages
  (`MessagesStop`); a release schedules one that rests, or shows nothing because
  the row is superseded or scheduled already (`MessagesResume`); recording moves a
  message from the source to the new row (`MessagesRetry`), a first attempt begins
  one (`MessagesBegin`). Rows do not go away here; what a cleanup may do to them
  between the steps of a retry is `HistoryRetention`.

`EventOutboxProofs`:

* `TypeCorrect`.
* `OvertakenOnlyLate`: `OnlyStaleOvertaken`, for dispatches of any length. The
  strengthening `OInv` says that the row of a held event is in processing with a timer
  that runs out no sooner than its holder is stale, unless it was closed by an archive or
  written over by somebody who shares the event (`HoldsClaim`); that two at one event
  both know it (`BothShare`) and that the check is stale then (`SharedLate`); and
  that rows closed by an archive belong to an archived monitor. A claim of the pass needs
  a timer at zero, one of the check a new row.
* `OutboxDelivers`: every behaviour of the outbox is one of `EventDelivery`
  under the refinement mapping, by `OInv` and one case per action; no assumption on
  how long a dispatch takes.
* `GivenUpLate`: `GivenUpOnlyAfterLimit`, assuming `MaxAttempts > 1` (the code
  has ten; with one, the first failure of a check, which counts from zero, would
  have to be the last). `CountInv`: what the pass listed of an event's attempts
  does not run ahead of the column while the event is listed or with the pass,
  and such an event is no dead letter yet; so nobody can requeue it, the only way
  for the column to go back.

`CheckCycleProofs`:

* `TypeCorrect`, action by action.
* `ChecksExclude`: `OneCheckAtATime` and `InFlightIsHeld`. The strengthening
  `FlightInv` adds that whoever has a monitor, a runner or the tick that waits
  for a slot, has it in flight and alone. Marking needs a monitor nobody has;
  starting hands it from the tick to the goroutine (the next id of a list is
  unique); and the one lemma `Released` covers every way a check ends.
* `NewsDelivered`: `NewsAccountedFor`, without an assumption: an item a saved check
  reported has its event, or is still with that check, or its own insert failed or its
  check was broken off before it. That the last two happen is `check_lost`. The
  invariant `NewsInv` is stronger than the property: it speaks of pages, too, whose
  items may be reported again.
* `ArchivedUntouched`: `ArchivedStays`, from types alone.
* `PaceBounded` (of `CheckSchedule`): from bounds of the jitter and of the
  doubled interval, for all intervals, ids and numbers of failures.

`RuleDispatchProofs`:

* `CooldownHolds`. `CooldownKept` compares what a dispatch
  read under the lock with the last firing that was recorded. `DispatchInv`:
  whoever is between lock and release is the holder; what it has read of the
  firing is at least as recent as the last round, and stays so, unless a retry has
  set the row back, for only the holder records rounds; and what retries have read of the clock
  is not in the future.
* `RulesRemembered` and `LossesExplained`: `NoRuleForgotten` and
  `LossExplained`. Both speak of events that are processed; `TraceInv` says what
  a dispatch under way owes (`Tracked`): every rule that was not edited is still on
  its list, or settled (judged, and each untouched channel recorded or the rule excused by
  another evaluation), or the dispatch knows that it has lost a row and will not report
  success. Since evaluations, rows, edits and switches only accumulate (`Growing`),
  what is settled stays so whatever other dispatches of the same event do. No
  assumption for any of the three.
* `ConditionsDecide` (of `RuleConditions`): `DecidesRight`, for all trees of any
  depth and width, texts, zones and lengths of a day. The specification is short
  (`ConditionInv`: what is saved was accepted, and the decision is `Decide` of it);
  the argument is about the functions it uses. The library's theorems on
  recursion and induction take operators, so the module states what it needs
  with sets and functions: `Climbing`, induction over a set of numbers, from
  `LeastOf`; `RankInduction`, induction over a set whose members have ranks; and
  `RankRecursion`, that a function exists which a step gives at each member from
  its values at those of a smaller rank (`Descends`). `EvalRecursion`,
  `HoldsRecursion`, `ValidRecursion` and `GivenRecursion` apply it, with `Depth`
  as the rank, to the four recursive functions of the module, each of which thereby
  satisfies its equation. `AcceptedRight` is the induction: a leaf that the form
  accepts is judged as it reads (`LeafRight`), a group of children that are judged
  so is as well, wherever it stops (`SetOutcome`, `GroupRight`). `WindowRight`
  reduces quiet hours to remainders for any length of a day (`WindowLength`).

`WeComCommandsProofs`: `CommandsOnce` assumes `KeptLongEnough`, that receipts
are kept for at least `2 * Window + Patience` (24 hours against ten minutes and the
time of a few statements). `OnceInv` says that a message that has run is closed: it has a
receipt, or its deadline, the last minute in which a callback may still leave
one, has passed. Purging keeps that, because a receipt is not older than the
message's window allows. `SlotsSuffice` assumes that the handlers are finitely
many: `SlotInv` equates the counter with the number of handlers at work.
`RefusedReturn` proves `RefusedMayReturn`, inductive with types (`ReceiptInv`):
only the claim leaves a receipt, and only a crash takes a claim away before it
runs.

`CredentialsProofs`: `PasswordForward` rests on `LockInv`:
the holder of the lock, and only the holder, is between its read and its
write; what it has read or stored is not older than the hash in memory, and memory is
not ahead of the database. No assumption.

`HistoryRetentionProofs`: `ClaimsRespected` with `ClaimInv` (a worker that
sends under its lease has its row, attached to the event it was claimed with),
and `ResolvedKept` with `ChainInv`: successors have larger ids and are not
older than what they follow, so a batch in the order of ids that removes a
successor removes its source as well. No assumption.

`ConfigBackupProofs` proves what both configuration modules promise, of
`BackupSpec`, that is with forms, copies, archiving, exports, imports, crashes
and repairs in any order:

* The invariant is `ConfInv /\ BackupInv`. `TablesTyped`, `FormsSound` (what a
  form holds may become an active row) and `RulesNotify` (active rules have
  channels, for otherwise the repair would keep a rule that notifies nobody)
  serve the rest; `NamesInv` is the theorem on names under its
  hypothesis; `BackupInv` says that the file at hand is `Valid`, that is what the
  import demands of a foreign file: an export of this program can be
  imported again.
* `RulesRunnable` (`RunnableRules`): the write asks again for its monitors and
  `DeleteMonitor` rewrites the rules; for an import, because ids are translated
  to rows that are active after it.
* `NamesStayApart` (`NamesApart`), assuming `LegacyNamesDiffer`: the databases the
  program is started on have no clashes. No index enforces that and the repair
  does not look for it, so an invariant can not do without; nothing else
  depends on it. The two steps that need an argument are a rule that loses
  monitors (it keeps its name, `NameKept`) and the import. There an item that
  has the key of an active row goes to that row (`IdMap`), so what is written never
  meets an untouched row of the same key (`MergedKeys`); and rules, which are merged
  one after the other, go to different rows because the items of a file do not
  overlap (`RulesInjective`), whence the rule of the smallest id among those that go
  to a row is the last to be written (`RuleNowItem`).
* `BackupsClosed` (`BackupSelfContained`): the export cuts every list to what it
  holds (`ExportedMonitors`, `ExportedRules`).
* `StartsWhole` (`RepairMakesWhole`), `ProxiesKept` (`ProxyNotPulled`) and
  `ReferencesDropped` (`ArchivedUnreferenced`): action by action, from the types.
  `StartsWhole` is about what can run: a monitor without its proxy is disabled and
  keeps the reference. It is about the start only: `SetMonitorEnabledAudited`
  (`wecom.go:24`) may enable such a monitor again, and its checks then fail.
* `ImportsReproduce` (`ImportReproduces`): from `MergedKeys` for each
  table, the names of translated lists are the names of the lists
  (`MergedKeys` gives every item its row, with its name).

What is assumed of the constants: ids of rules are positive numbers; inputs are
what the validators let through; databases hold typed rows, an active default
template (the schema brings it and nothing archives it) and no active rule
without channels (the validators refuse one); foreign files pass the import's
validation; names do not run out for rules (the code tries one number after
another); and conditions are finite trees.

`LeaseCovers` and `InFlightIsHeld` are parts of the invariants above and
proved with them; no run repeats them.

Only model-checked: the liveness properties `DueRetryTaken`, `Settles`, `DueIsChecked`,
`SlotsReturn`, `Adopted`, `LocksReturn`, `FailingIsAnnounced` and
`HealthyIsClosed` (liveness under fairness and `ENABLED` are out of the
prover's reach). The properties of the runs that expect a violation
are false.

## Findings

Four statements of the source do not hold of the program; each has a run
that shows how.

* *"no notification should be dispatched after the owning monitor and its rules
  are archived"* (`sqlite.go:395`): a delivery in flight when the monitor is archived
  is recorded afterwards with a schedule, and the pass retries it, since only
  health alerts look at the monitor (`retry_archived`).
* *"在出现新条目时生成事件"*, an event for every new entry (`rss.go:59`): the state is saved
  before the events are stored. A manual check runs under the context of its
  request; when the client goes away in between, or the process stops, the
  entries count as seen and have no event (`check_lost`).
* *"第一次拉取只记录已有条目，不通知"*, the first fetch is silent (`README.md:246`): an edit
  of the configuration resets the state, but a check of the old configuration
  that is running saves its state over it, and the first fetch of the new
  source reports everything (`check_baseline`).
* *"another worker owns the retry [...] Retrying it again would duplicate delivery"*
  (`scheduler.go:31`): claims of a pass carry the time the pass started, so one that has
  outlasted the lease writes leases that are over already, and an operator may claim
  and send the same row (`retry_long_pass`).

Two more things the code may do are visible in the models and contradict no
statement of it: a dispatch that takes more than five minutes is taken over while it
goes on, and its outcome is written over the other's (`EventDelivery` says when);
and a retry that writes its firing late sets a rule's cooldown back.

## Fairness

`FairSpec` of `NotificationRetry` assumes that a maintenance pass makes progress
(`Start`'s ticker calls `startMaintenance` on every tick, which starts a pass
unless one runs) and that the pass's worker does (lookups return, the provider
has a deadline of 30 seconds). Nothing is assumed of operators, of first
attempts, of configuration, of restarts, or of time. `EventOutbox` assumes the same of the
pass and of a check that is dispatching, and that time passes. Restarts may
come at any moment; the liveness properties assume that they stop, and
`Settles` that operators stop requeueing dead letters, since the pass lists the
oldest events first, and that statements stop failing (`StatementFails`).
`CheckCycle` assumes that the tick goes on (`Start` loops, and a slot it waits
for becomes free) and that checks do (each has a timeout, and so has every
statement after it); callers, users, sources and time may do nothing.

`WeComFairness`: a callback and its job go on; the check has three minutes, a
send its deadline, a statement returns. `CredFairness`: requests go on, and the
watcher's ticker fires every second. `DispatchFairness`: a dispatch goes on.
`HealthFairness`: the monitor is checked again and again, which is what
`DueIsChecked` shows for enabled monitors. Nobody needs to deliver a message,
edit anything, set a password or dispatch an event.

## What is left out

* Contents: messages, templates, payloads, provider protocols, formats. A send
  is an answer within the deadline. Templates, variables and dates are functions
  of strings without state.
* Checkers' HTTP and parsing, with what they keep to save requests (`ETag`,
  trimmed lists): I/O and text; how news follows from what is
  remembered is part of `CheckCycle`.
* Other monitors and channels in `NotificationRetry` and `EventOutbox`: rows refer to
  one of each, so they do not meet, except that they make a pass slower, which it
  may be anyway. `LIMIT 20` of the list of due retries.
* The rows of `check_runs`, audit logs and the notification log: nothing reads them
  but pages, and a cleanup removes them by age. (A check run whose request was cut
  off stays `running`, and `deleteLimited` passes over such rows.)
* Runtime settings other than the password: one row that is read, changed and written
  back, so that the later of two forms wins.
* Cookies, signatures, encryption: a session is the version it was signed for, a
  callback passes or does not.
* History queries, previews, trial runs of rules, discovery, the web UI: they read
  only.
* Clock jumps: SQLite stores UTC text, and the process clock is taken to go
  forward.

## Plan

Done: `NotificationRetry` with `NotificationDelivery`, `EventOutbox` with
`EventDelivery`, `CheckCycle`, `MonitorHealth`, `RuleDispatch`, `ConfigReferences` with `ConfigBackup`,
`HistoryRetention`, `WeComCommands`, `Credentials`, `RuleConditions` and
`CheckSchedule`; the safety properties of their passing runs are proved.

Open: `SetMonitorEnabledAudited` (`wecom.go:24`) as an action on the tables of
`ConfigReferences`, next to the forms, so that a monitor whose proxy was archived may be
enabled again.
