----------------------------- MODULE CheckCycle -----------------------------
(***************************************************************************)
(* How monitors come to be checked (internal/scheduler/scheduler.go):      *)
(* the tick lists the due monitors and starts a check of each as slots     *)
(* come free, callers of RunOnce (the API, WeCom commands) check one at    *)
(* once, and the set of monitors in flight keeps the checks of a monitor   *)
(* apart.  A check works on the copy of the monitor row it was given,      *)
(* saves what it observed, and only then stores an event per observation   *)
(* that is new.  Meanwhile users edit, switch and archive monitors, a      *)
(* caller may give up (its context is cancelled), statements may fail and  *)
(* the process may stop.                                                   *)
(*                                                                         *)
(* What follows an event is EventOutbox; the failure count and its alerts  *)
(* are left out.  The operators named after what they get wrong are        *)
(* mutants: no action uses them.                                           *)
(***************************************************************************)
EXTENDS Naturals, FiniteSets

CONSTANTS
  Monitors,    \* monitors by id; a tick takes them in this order
  Slots,       \* places for scheduled checks (WATCHBELL_WORKERS)
  Callers,     \* callers of RunOnce
  Editors,     \* requests that save a monitor form
  Configs,     \* configurations, each naming one source
  Items,       \* what a source may show
  Accumulates, \* TRUE: feeds, whose state keeps every item and whose events
               \* are named by their item; FALSE: web pages, whose state is
               \* the last hash and whose events are named by second and hash
  MaxChanges,  \* bound: how often each source changes
  MaxStops     \* bound: cancelled callers, failing statements and restarts

ASSUME ConstantsAssumption ==
  /\ Monitors \subseteq Nat /\ Monitors # {} /\ Configs # {}
  /\ Slots \intersect Callers = {}
  /\ Accumulates \in BOOLEAN
  /\ MaxChanges \in Nat /\ MaxStops \in Nat

VARIABLES
  monitor,   \* table monitors
  source,    \* what the source behind each configuration shows now
  changes,   \* how often it has changed
  inFlight,  \* Scheduler.inFlight
  tick,      \* where enqueueDue is and the rows it has still to go through
  job,       \* the goroutine in each slot, the RunOnce of each caller
  form,      \* UpdateMonitor calls between their read and their write
  events,    \* table events: rows by monitor and item
  reported,  \* history: items a saved check found to be new, by monitor
  dropped,   \* history: those whose event failed or was broken off, by monitor
  fetched,   \* history: configurations a monitor has a saved check of
  stops      \* cancelled callers, failing statements and restarts so far

vars == <<monitor, source, changes, inFlight, tick, job, form, events,
          reported, dropped, fetched, stops>>

Runners == Slots \union Callers

\* state_json: {} is init = FALSE.  due: isDue of the row, as time goes by.
Rows == [config : Configs, init : BOOLEAN, seen : SUBSET Items,
         due : BOOLEAN, enabled : BOOLEAN, deleted : BOOLEAN]

\* What a check copies from the row, or makes of it.
Copies == [config : Configs, init : BOOLEAN, seen : SUBSET Items]
Copy(row) == [config |-> row.config, init |-> row.init, seen |-> row.seen]

Stages == {"idle", "load", "start", "check", "save", "saveError", "events"}

Jobs == [stage : Stages, id : Monitors, copy : Copies, news : SUBSET Items,
         cancelled : BOOLEAN]

Forms == [busy : BOOLEAN, id : Monitors, config : Configs,
          enabled : BOOLEAN, reset : BOOLEAN]

\* Rows by id.
Lists == UNION {[ids -> Copies] : ids \in SUBSET Monitors}

TypeOK ==
  /\ monitor \in [Monitors -> Rows]
  /\ source \in [Configs -> SUBSET Items]
  /\ changes \in [Configs -> 0..MaxChanges]
  /\ inFlight \subseteq Monitors
  /\ tick \in [list : Lists, waiting : BOOLEAN]
  /\ job \in [Runners -> Jobs]
  /\ form \in [Editors -> Forms]
  /\ events \in [Monitors -> [Items -> Nat]]
  /\ reported \in [Monitors -> SUBSET Items]
  /\ dropped \in [Monitors -> SUBSET Items]
  /\ fetched \subseteq Monitors \X Configs
  /\ stops \in 0..MaxStops

-----------------------------------------------------------------------------
(* Any values in the records of the idle: no action reads them.            *)
IdleJob ==
  [stage |-> "idle", id |-> CHOOSE m \in Monitors : TRUE,
   copy |-> [config |-> CHOOSE c \in Configs : TRUE, init |-> FALSE, seen |-> {}],
   news |-> {}, cancelled |-> FALSE]

IdleForm ==
  [busy |-> FALSE, id |-> CHOOSE m \in Monitors : TRUE,
   config |-> CHOOSE c \in Configs : TRUE, enabled |-> FALSE, reset |-> FALSE]

IdleTick == [list |-> [m \in {} |-> {}], waiting |-> FALSE]

\* A feed starts with any items, a page with one text.
Shown == IF Accumulates THEN SUBSET Items ELSE {{i} : i \in Items}

\* Monitors are created enabled or not, without state and so due at once.
Init ==
  /\ monitor \in [Monitors -> {r \in Rows : ~r.init /\ r.seen = {} /\ r.due /\ ~r.deleted}]
  /\ source \in [Configs -> Shown]
  /\ changes = [c \in Configs |-> 0]
  /\ inFlight = {}
  /\ tick = IdleTick
  /\ job = [j \in Runners |-> IdleJob]
  /\ form = [e \in Editors |-> IdleForm]
  /\ events = [m \in Monitors |-> [i \in Items |-> 0]]
  /\ reported = [m \in Monitors |-> {}]
  /\ dropped = [m \in Monitors |-> {}]
  /\ fetched = {}
  /\ stops = 0

-----------------------------------------------------------------------------
(* The tick: runTick and enqueueDue.                                       *)

Listed == DOMAIN tick.list

\* ORDER BY id.
IsNext(m) == m \in Listed /\ \A n \in Listed : m <= n

Without(m) == [n \in Listed \ {m} |-> tick.list[n]]

\* ListEnabledMonitors and one "now" for the whole tick: which rows are due
\* is settled here, and so is what their checks will work on.
ListDue ==
  LET dueIds == {m \in Monitors : monitor[m].enabled /\ ~monitor[m].deleted /\ monitor[m].due}
  IN  /\ Listed = {} /\ dueIds # {}
      /\ tick' = [list |-> [m \in dueIds |-> Copy(monitor[m])], waiting |-> FALSE]
      /\ UNCHANGED <<monitor, source, changes, inFlight, job, form, events,
                     reported, dropped, fetched, stops>>

SkipInFlight(m) ==
  /\ IsNext(m) /\ ~tick.waiting /\ m \in inFlight
  /\ tick' = [tick EXCEPT !.list = Without(m)]
  /\ UNCHANGED <<monitor, source, changes, inFlight, job, form, events,
                 reported, dropped, fetched, stops>>

\* markInFlight; from here on enqueueDue blocks on the semaphore.
Mark(m) ==
  /\ IsNext(m) /\ ~tick.waiting /\ m \notin inFlight
  /\ inFlight' = inFlight \union {m}
  /\ tick' = [tick EXCEPT !.waiting = TRUE]
  /\ UNCHANGED <<monitor, source, changes, job, form, events, reported,
                 dropped, fetched, stops>>

\* A slot is free: the goroutine starts with the row as it was listed.
StartScheduled(m, s) ==
  /\ IsNext(m) /\ tick.waiting /\ job[s].stage = "idle"
  /\ job' = [job EXCEPT ![s] = [IdleJob EXCEPT !.stage = "start", !.id = m,
                                               !.copy = tick.list[m]]]
  /\ tick' = [list |-> Without(m), waiting |-> FALSE]
  /\ UNCHANGED <<monitor, source, changes, inFlight, form, events, reported,
                 dropped, fetched, stops>>

-----------------------------------------------------------------------------
(* RunOnce; a monitor in flight is ErrAlreadyRunning.                      *)

RunOnceUnmarked(m, c) ==
  /\ job[c].stage = "idle"
  /\ inFlight' = inFlight \union {m}
  /\ job' = [job EXCEPT ![c] = [IdleJob EXCEPT !.stage = "load", !.id = m]]
  /\ UNCHANGED <<monitor, source, changes, tick, form, events, reported,
                 dropped, fetched, stops>>

RunOnce(m, c) ==
  /\ job[c].stage = "idle" /\ m \notin inFlight
  /\ inFlight' = inFlight \union {m}
  /\ job' = [job EXCEPT ![c] = [IdleJob EXCEPT !.stage = "load", !.id = m]]
  /\ UNCHANGED <<monitor, source, changes, tick, form, events, reported,
                 dropped, fetched, stops>>

\* GetMonitor; an archived monitor is not found and the call returns.
Load(c) ==
  LET m == job[c].id
  IN  /\ job[c].stage = "load" /\ ~job[c].cancelled
      /\ IF monitor[m].deleted
         THEN /\ job' = [job EXCEPT ![c] = IdleJob]
              /\ inFlight' = inFlight \ {m}
         ELSE /\ job' = [job EXCEPT ![c] = [@ EXCEPT !.stage = "start", !.copy = Copy(monitor[m])]]
              /\ UNCHANGED inFlight
      /\ UNCHANGED <<monitor, source, changes, tick, form, events, reported,
                     dropped, fetched, stops>>

-----------------------------------------------------------------------------
(* processMonitor                                                          *)

\* The row of check_runs; nothing here depends on it.
CreateCheckRun(j) ==
  /\ job[j].stage = "start" /\ ~job[j].cancelled
  /\ job' = [job EXCEPT ![j].stage = "check"]
  /\ UNCHANGED <<monitor, source, changes, inFlight, tick, form, events,
                 reported, dropped, fetched, stops>>

(* RSSChecker.Check: without a baseline nothing is news (notifyExisting is *)
(* FALSE); WebpageChecker.Check: one event when the hash is another one.   *)
News(copy, shown) == IF copy.init THEN shown \ copy.seen ELSE {}
Remembered(copy, shown) == IF Accumulates THEN copy.seen \union shown ELSE shown

CheckSucceeds(j) ==
  LET copy == job[j].copy
      shown == source[copy.config]
  IN  /\ job[j].stage = "check" /\ ~job[j].cancelled
      /\ job' = [job EXCEPT ![j] = [@ EXCEPT !.stage = "save",
                    !.copy = [copy EXCEPT !.init = TRUE, !.seen = Remembered(copy, shown)],
                    !.news = News(copy, shown)]]
      /\ UNCHANGED <<monitor, source, changes, inFlight, tick, form, events,
                     reported, dropped, fetched, stops>>

CheckFails(j) ==
  /\ job[j].stage = "check" /\ ~job[j].cancelled
  /\ job' = [job EXCEPT ![j].stage = "saveError"]
  /\ UNCHANGED <<monitor, source, changes, inFlight, tick, form, events,
                 reported, dropped, fetched, stops>>

(* UpdateMonitorCheckResult: the state goes to whatever row has the id     *)
(* now, unless it is archived.                                             *)
Save(j) ==
  LET m == job[j].id
      copy == job[j].copy
  IN  /\ job[j].stage = "save" /\ ~job[j].cancelled
      /\ job' = [job EXCEPT ![j].stage = "events"]
      /\ IF monitor[m].deleted
         THEN UNCHANGED <<monitor, reported, dropped, fetched>>
         ELSE /\ monitor' = [monitor EXCEPT ![m] = [@ EXCEPT !.init = TRUE, !.seen = copy.seen,
                                                          !.due = FALSE]]
              /\ reported' = [reported EXCEPT ![m] = @ \union job[j].news]
              /\ dropped' = [dropped EXCEPT ![m] = @ \ job[j].news]
              /\ fetched' = fetched \union {<<m, copy.config>>}
      /\ UNCHANGED <<source, changes, inFlight, tick, form, events, stops>>

SaveErrorOfArchived(j) ==
  /\ job[j].stage = "saveError" /\ ~job[j].cancelled
  /\ job' = [job EXCEPT ![j].stage = "events"]
  /\ monitor' = [monitor EXCEPT ![job[j].id].due = FALSE]
  /\ UNCHANGED <<source, changes, inFlight, tick, form, events, reported,
                 dropped, fetched, stops>>

\* A failed check keeps the state; its run is closed after the alerts.
SaveError(j) ==
  LET m == job[j].id
  IN  /\ job[j].stage = "saveError" /\ ~job[j].cancelled
      /\ job' = [job EXCEPT ![j].stage = "events"]
      /\ monitor' = IF monitor[m].deleted THEN monitor
                    ELSE [monitor EXCEPT ![m].due = FALSE]
      /\ UNCHANGED <<source, changes, inFlight, tick, form, events, reported,
                     dropped, fetched, stops>>

(* CreateEventForRun, INSERT OR IGNORE by monitor and fingerprint, and the *)
(* first dispatch.  Of a page, two events of one second are one event.     *)
CreateEvent(j, i) ==
  LET m == job[j].id
  IN  /\ job[j].stage = "events" /\ ~job[j].cancelled /\ i \in job[j].news
      /\ job' = [job EXCEPT ![j].news = @ \ {i}]
      /\ \/ /\ (events[m][i] = 0 \/ ~Accumulates)
            /\ events' = [events EXCEPT ![m][i] = @ + 1]
         \/ events[m][i] > 0 /\ UNCHANGED events
      /\ UNCHANGED <<monitor, source, changes, inFlight, tick, form, reported,
                     dropped, fetched, stops>>

\* The insert fails: the loop over the events goes on with the next.
CreateEventFails(j, i) ==
  /\ job[j].stage = "events" /\ ~job[j].cancelled /\ i \in job[j].news
  /\ stops < MaxStops
  /\ stops' = stops + 1
  /\ job' = [job EXCEPT ![j].news = @ \ {i}]
  /\ dropped' = [dropped EXCEPT ![job[j].id] = @ \union {i}]
  /\ UNCHANGED <<monitor, source, changes, inFlight, tick, form, events,
                 reported, fetched>>

\* The loop over the events ends at the first that cannot be dispatched.
FinishAtFirstError(j) ==
  /\ job[j].stage = "events" /\ ~job[j].cancelled
  /\ job' = [job EXCEPT ![j] = IdleJob]
  /\ inFlight' = inFlight \ {job[j].id}
  /\ UNCHANGED <<monitor, source, changes, tick, form, events, reported,
                 dropped, fetched, stops>>

FinishInFlight(j) ==
  /\ job[j].stage = "events" /\ ~job[j].cancelled /\ job[j].news = {}
  /\ job' = [job EXCEPT ![j] = IdleJob]
  /\ UNCHANGED <<monitor, source, changes, inFlight, tick, form, events,
                 reported, dropped, fetched, stops>>

\* FinishCheckRun and the deferred release of the slot and of the monitor.
Finish(j) ==
  /\ job[j].stage = "events" /\ ~job[j].cancelled /\ job[j].news = {}
  /\ job' = [job EXCEPT ![j] = IdleJob]
  /\ inFlight' = inFlight \ {job[j].id}
  /\ UNCHANGED <<monitor, source, changes, tick, form, events, reported,
                 dropped, fetched, stops>>

\* Any other statement that fails ends the check, before it has saved a state.
StatementFails(j) ==
  /\ job[j].stage \in {"load", "start", "save", "saveError"} /\ ~job[j].cancelled
  /\ stops < MaxStops
  /\ stops' = stops + 1
  /\ job' = [job EXCEPT ![j] = IdleJob]
  /\ inFlight' = inFlight \ {job[j].id}
  /\ UNCHANGED <<monitor, source, changes, tick, form, events, reported,
                 dropped, fetched>>

-----------------------------------------------------------------------------
(* The context of a caller ends: its request is gone (r.Context()) or its  *)
(* three minutes are over.  No statement of its check runs after that.     *)

Cancel(c) ==
  /\ job[c].stage # "idle" /\ ~job[c].cancelled /\ stops < MaxStops
  /\ job' = [job EXCEPT ![c].cancelled = TRUE]
  /\ stops' = stops + 1
  /\ UNCHANGED <<monitor, source, changes, inFlight, tick, form, events,
                 reported, dropped, fetched>>

\* News whose check is broken off before it has stored them.
Unstored(j) == IF job[j].stage = "events" THEN job[j].news ELSE {}

Unwind(c) ==
  /\ job[c].cancelled
  /\ job' = [job EXCEPT ![c] = IdleJob]
  /\ inFlight' = inFlight \ {job[c].id}
  /\ dropped' = [dropped EXCEPT ![job[c].id] = @ \union Unstored(c)]
  /\ UNCHANGED <<monitor, source, changes, tick, form, events, reported,
                 fetched, stops>>

\* The process ends and starts again: what is in memory is gone.
Restart ==
  /\ stops < MaxStops
  /\ stops' = stops + 1
  /\ inFlight' = {}
  /\ tick' = IdleTick
  /\ job' = [j \in Runners |-> IdleJob]
  /\ form' = [e \in Editors |-> IdleForm]
  /\ dropped' = [m \in Monitors |->
       dropped[m] \union UNION {Unstored(j) : j \in {k \in Runners : job[k].id = m}}]
  /\ UNCHANGED <<monitor, source, changes, events, reported, fetched>>

-----------------------------------------------------------------------------
(* The users and the world.                                                *)

\* UpdateMonitor reads the row to see whether the configuration changes.
OpenForm(e, m, config, enabled) ==
  /\ ~form[e].busy /\ ~monitor[m].deleted
  /\ form' = [form EXCEPT ![e] = [busy |-> TRUE, id |-> m, config |-> config,
                                  enabled |-> enabled,
                                  reset |-> config # monitor[m].config]]
  /\ UNCHANGED <<monitor, source, changes, inFlight, tick, job, events,
                 reported, dropped, fetched, stops>>

\* ... and writes all of it, with or without an empty state.
SaveForm(e) ==
  LET f == form[e]
      row == monitor[f.id]
      saved == [row EXCEPT !.config = f.config, !.enabled = f.enabled]
  IN  /\ f.busy
      /\ form' = [form EXCEPT ![e] = IdleForm]
      /\ monitor' = CASE row.deleted -> monitor
                      [] ~row.deleted /\ f.reset ->
                           [monitor EXCEPT ![f.id] = [saved EXCEPT !.init = FALSE,
                                                      !.seen = {}, !.due = TRUE]]
                      [] OTHER -> [monitor EXCEPT ![f.id] = saved]
      /\ UNCHANGED <<source, changes, inFlight, tick, job, events, reported,
                     dropped, fetched, stops>>

SetMonitorEnabled(m) ==
  /\ ~monitor[m].deleted
  /\ monitor' = [monitor EXCEPT ![m].enabled = ~@]
  /\ UNCHANGED <<source, changes, inFlight, tick, job, form, events, reported,
                 dropped, fetched, stops>>

\* Of DeleteMonitor, what it does to the monitor's own row.
DeleteMonitor(m) ==
  /\ ~monitor[m].deleted
  /\ monitor' = [monitor EXCEPT ![m] = [@ EXCEPT !.deleted = TRUE, !.enabled = FALSE]]
  /\ UNCHANGED <<source, changes, inFlight, tick, job, form, events, reported,
                 dropped, fetched, stops>>

\* The interval since the last check is over.
BecomeDue(m) ==
  /\ ~monitor[m].due /\ ~monitor[m].deleted
  /\ monitor' = [monitor EXCEPT ![m].due = TRUE]
  /\ UNCHANGED <<source, changes, inFlight, tick, job, form, events, reported,
                 dropped, fetched, stops>>

\* A feed gains an item, a page changes its text.
Change(c, i) ==
  /\ changes[c] < MaxChanges /\ i \notin source[c]
  /\ changes' = [changes EXCEPT ![c] = @ + 1]
  /\ source' = [source EXCEPT ![c] = IF Accumulates THEN @ \union {i} ELSE {i}]
  /\ UNCHANGED <<monitor, inFlight, tick, job, form, events, reported,
                 dropped, fetched, stops>>

-----------------------------------------------------------------------------
Tick ==
  \/ ListDue
  \/ \E m \in Monitors : SkipInFlight(m) \/ Mark(m)
  \/ \E m \in Monitors, s \in Slots : StartScheduled(m, s)

Process(j) ==
  \/ CreateCheckRun(j) \/ CheckSucceeds(j) \/ CheckFails(j)
  \/ Save(j) \/ SaveError(j) \/ Finish(j)
  \/ \E i \in Items : CreateEvent(j, i)

Fails(j) == StatementFails(j) \/ \E i \in Items : CreateEventFails(j, i)

Users ==
  \/ \E e \in Editors, m \in Monitors, c \in Configs, enabled \in BOOLEAN :
       OpenForm(e, m, c, enabled)
  \/ \E e \in Editors : SaveForm(e)
  \/ \E m \in Monitors : SetMonitorEnabled(m) \/ DeleteMonitor(m)

Next ==
  \/ Tick
  \/ \E j \in Runners : Process(j) \/ Fails(j)
  \/ \E m \in Monitors, c \in Callers : RunOnce(m, c)
  \/ \E c \in Callers : Load(c) \/ Cancel(c) \/ Unwind(c)
  \/ Restart
  \/ Users
  \/ \E m \in Monitors : BecomeDue(m)
  \/ \E c \in Configs, i \in Items : Change(c, i)

Spec == Init /\ [][Next]_vars

(* The tick returns every tick; checks are bounded by their timeouts and   *)
(* return.  Nobody has to call, edit or wait.                              *)
Fairness ==
  /\ WF_vars(Tick)
  /\ \A j \in Runners : WF_vars(Process(j))
  /\ \A c \in Callers : WF_vars(Load(c) \/ Unwind(c))

FairSpec == Spec /\ Fairness

-----------------------------------------------------------------------------
Runs(j, m) == job[j].stage # "idle" /\ job[j].id = m
TickHolds(m) == tick.waiting /\ IsNext(m)

(* A monitor is checked by one goroutine at a time, scheduled or asked     *)
(* for: markInFlight is what keeps a tick, which decided long before it    *)
(* starts the check, and any number of callers apart.                      *)
OneCheckAtATime ==
  \A m \in Monitors, j \in Runners, k \in Runners :
     Runs(j, m) /\ Runs(k, m) => j = k

(* A monitor is in flight only while a check of it runs or waits for its   *)
(* slot, however the check ends: an id left behind in Scheduler.inFlight   *)
(* would never be checked again.                                           *)
InFlightIsHeld ==
  \A m \in inFlight : TickHolds(m) \/ \E j \in Runners : Runs(j, m)

(* What a saved state calls seen and a check called new has its event, or  *)
(* the check is still about to store it: the state is saved before the     *)
(* events, and an item in it is never reported again.                      *)
NoNewsLost ==
  Accumulates =>
    \A m \in Monitors : \A i \in reported[m] \intersect monitor[m].seen :
       \/ events[m][i] > 0
       \/ \E j \in Runners : Runs(j, m) /\ i \in job[j].news

(* An item a saved check reported has its event or is still with that      *)
(* check, unless its own insert failed, or the check was broken off before *)
(* it: an event that cannot be stored or delivered costs no other item its *)
(* event, and nothing users, the tick and other checks do costs any.       *)
NewsAccountedFor ==
  Accumulates =>
    \A m \in Monitors : \A i \in reported[m] :
       \/ events[m][i] > 0
       \/ \E j \in Runners : Runs(j, m) /\ i \in Unstored(j)
       \/ i \in dropped[m]

(* The row of an archived monitor changes no more: not by a check that was *)
(* running, nor by a form that was open (deleted_at IS NULL).              *)
ArchivedStays ==
  [][\A m \in Monitors : monitor[m].deleted => monitor'[m] = monitor[m]]_vars

(* The first fetch of a source only records what is there (README.md:246,  *)
(* "第一次拉取只记录已有条目，不通知").                                     *)
FirstFetchIsSilent ==
  \A j \in Runners : job[j].stage = "save" /\ job[j].news # {} =>
     <<job[j].id, job[j].copy.config>> \in fetched

(* A due monitor is checked, unless it is switched off or archived first:  *)
(* waiting for slots, skipping what is in flight and going on with an old  *)
(* list delay the tick but never make it pass a monitor over for good.     *)
DueIsChecked ==
  \A m \in Monitors : monitor[m].due ~> (~monitor[m].due \/ ~monitor[m].enabled)
=============================================================================
