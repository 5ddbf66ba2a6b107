---------------------------- MODULE EventOutbox ----------------------------
(***************************************************************************)
(* The event outbox (internal/store/tracking.go, event_outbox): an event is *)
(* stored together with a row that says its rules are still to be          *)
(* dispatched.  The check that discovered the event dispatches it at once; *)
(* the maintenance pass of the scheduler takes up what is left: failed     *)
(* dispatches when their delay is over, and claims nobody finished.        *)
(*                                                                         *)
(* One monitor, whose checks exclude each other, and its events.  Time is  *)
(* in the timers only: next_attempt_at and updated_at + 5 minutes are kept *)
(* as the minutes that are left until then.                                *)
(*                                                                         *)
(* The operators named after what they get wrong are mutants: no action    *)
(* uses them, the runs show that the properties would notice them.         *)
(***************************************************************************)
EXTENDS Naturals, FiniteSets

CONSTANTS
  NEvents,      \* events the checks may discover
  Stale,        \* minutes until a claim counts as abandoned (5)
  MaxAttempts,  \* maxOutboxAttempts (10)
  PageSize,     \* how many events a pass lists (20)
  Faults        \* may store statements fail?

ASSUME CountsAssumption ==
  /\ NEvents \in Nat /\ Stale \in Nat \ {0} /\ MaxAttempts \in Nat \ {0}
  /\ PageSize \in Nat \ {0}
  /\ Faults \in BOOLEAN

VARIABLES
  outbox,    \* event_outbox
  worker,    \* what the check and the maintenance goroutine are doing
  due,       \* what the pass listed and has not taken yet, with its attempts
  archived   \* deleted_at of the monitor

vars == <<outbox, worker, due, archived>>

\* Events are numbered in the order of created_at.
Events == 1..NEvents

Workers == {"check", "maintenance"}

\* 1 << shift minutes, shift capped at 6.
Delay == <<2, 4, 8, 16, 32, 64>>
DelayAfter(attempts) == Delay[IF attempts > 6 THEN 6 ELSE attempts]

\* "attempts" is only ever compared with MaxAttempts, where it stops.
OutboxRow == [status : {"none", "pending", "processing", "processed", "dead_letter"},
              attempts : 0..MaxAttempts, timer : Nat,
              error : {"none", "failed", "archived"}]

(* "claim" and "lookup" come before the statement and the reads they name; *)
(* "done" and "failed" before the statement that records the outcome.      *)
Stages == {"idle", "checking", "claim", "lookup", "dispatch", "done", "failed"}
Holding == {"lookup", "dispatch", "done", "failed"}

(* "held" is how many minutes ago a holder claimed its event, up to Stale;  *)
(* "shared" is a history variable: somebody else has held the event at the *)
(* same time.                                                              *)
Work == [stage : Stages, event : 0..NEvents, attempts : 0..MaxAttempts,
         held : 0..Stale, shared : BOOLEAN]

TypeOK ==
  /\ outbox \in [Events -> OutboxRow]
  /\ worker \in [Workers -> Work]
  /\ \A w \in Workers : worker[w].stage \in {"claim"} \cup Holding => worker[w].event # 0
  /\ due \subseteq (Events \X (0..MaxAttempts))
  /\ archived \in BOOLEAN

NoRow == [status |-> "none", attempts |-> 0, timer |-> 0, error |-> "none"]
Resting(stage) == [stage |-> stage, event |-> 0, attempts |-> 0,
                   held |-> 0, shared |-> FALSE]

\* Where a worker goes when it is through with an event: the check to the
\* next event of its result, the pass to the next one it listed.
After(w) == Resting(IF w = "check" THEN "checking" ELSE "idle")

AtMost(n, limit) == IF n > limit THEN limit ELSE n

Busy(w) == worker[w].stage \in Holding

-----------------------------------------------------------------------------
(* Creating and listing.                                                   *)

StartCheck ==
  /\ worker["check"].stage = "idle" /\ ~archived
  /\ worker' = [worker EXCEPT !["check"] = Resting("checking")]
  /\ UNCHANGED <<outbox, due, archived>>

EndCheck ==
  /\ worker["check"].stage = "checking"
  /\ worker' = [worker EXCEPT !["check"] = Resting("idle")]
  /\ UNCHANGED <<outbox, due, archived>>

\* CreateEventForRun: event and row in one transaction.  When the event can
\* not be read back it stays for the maintenance pass.
CreateEvent ==
  /\ worker["check"].stage = "checking"
  /\ \E e \in Events :
       /\ outbox[e].status = "none"
       /\ \A d \in Events : d < e => outbox[d].status # "none"
       /\ outbox' = [outbox EXCEPT ![e].status = "pending"]
       /\ \/ worker' = [worker EXCEPT !["check"].stage = "claim", !["check"].event = e]
          \/ Faults /\ UNCHANGED worker
  /\ UNCHANGED <<due, archived>>

ClaimableNeverStale(e) == outbox[e].status = "pending" /\ outbox[e].timer = 0

\* The WHERE clause of ListDueOutbox, and of ClaimOutbox with requireDue.
ClaimableDue(e) ==
  /\ outbox[e].status \in {"pending", "processing"}
  /\ outbox[e].timer = 0

\* ListDueOutbox: the first PageSize of them.
ListDueOutbox ==
  LET eligible == {e \in Events : ClaimableDue(e)}
      page == {e \in eligible : Cardinality({d \in eligible : d <= e}) <= PageSize}
  IN
  /\ due = {} /\ worker["maintenance"].stage = "idle"
  /\ due' = {<<e, outbox[e].attempts>> : e \in page}
  /\ UNCHANGED <<outbox, worker, archived>>

\* The pass turns to the next event it listed.
NextListed ==
  /\ worker["maintenance"].stage = "idle"
  /\ \E item \in due :
       /\ \A other \in due : item[1] <= other[1]
       /\ due' = due \ {item}
       /\ worker' = [worker EXCEPT !["maintenance"] =
            [stage |-> "claim", event |-> item[1], attempts |-> item[2],
             held |-> 0, shared |-> FALSE]]
  /\ UNCHANGED <<outbox, archived>>

-----------------------------------------------------------------------------
(* processOutboxEvent.                                                     *)

Claimable(w, e) ==
  IF w = "check" THEN outbox[e].status = "pending" ELSE ClaimableDue(e)

\* A worker takes an event that others may still hold.
Others(w, e) == {v \in Workers \ {w} : Busy(v) /\ worker[v].event = e}

Hold(w, e) ==
  worker' = [v \in Workers |->
    IF v = w THEN [worker[v] EXCEPT !.stage = "lookup", !.shared = Others(w, e) # {}]
    ELSE IF v \in Others(w, e) THEN [worker[v] EXCEPT !.shared = TRUE]
    ELSE worker[v]]

ClaimOutboxKeepingTimer(w) ==
  LET e == worker[w].event IN
  /\ worker[w].stage = "claim"
  /\ Claimable(w, e)
  /\ outbox' = [outbox EXCEPT ![e].status = "processing",
                              ![e].attempts = AtMost(@ + 1, MaxAttempts)]
  /\ Hold(w, e)
  /\ UNCHANGED <<due, archived>>

ClaimOutbox(w) ==
  LET e == worker[w].event IN
  /\ worker[w].stage = "claim"
  /\ Claimable(w, e)
  /\ outbox' = [outbox EXCEPT ![e].status = "processing",
                              ![e].attempts = AtMost(@ + 1, MaxAttempts),
                              ![e].timer = Stale]
  /\ Hold(w, e)
  /\ UNCHANGED <<due, archived>>

\* Somebody else was faster, or the statement failed.
NotClaimed(w) ==
  /\ worker[w].stage = "claim"
  /\ Faults \/ ~Claimable(w, worker[w].event)
  /\ worker' = [worker EXCEPT ![w] = After(w)]
  /\ UNCHANGED <<outbox, due, archived>>

\* GetEvent and GetMonitor.
Lookup(w) ==
  /\ worker[w].stage = "lookup"
  /\ \/ worker' = [worker EXCEPT ![w].stage = IF archived THEN "failed" ELSE "dispatch"]
     \/ Faults /\ worker' = [worker EXCEPT ![w].stage = "failed"]
  /\ UNCHANGED <<outbox, due, archived>>

\* dispatchEvent, with an error or without.
DispatchEvent(w) ==
  /\ worker[w].stage = "dispatch"
  /\ \E outcome \in {"done", "failed"} :
       worker' = [worker EXCEPT ![w].stage = outcome]
  /\ UNCHANGED <<outbox, due, archived>>

\* An outcome is written whatever the row says by now; when the statement
\* fails the row stays as it is.
MarkOutboxProcessed(w) ==
  LET e == worker[w].event IN
  /\ worker[w].stage = "done"
  /\ \/ outbox' = [outbox EXCEPT ![e].status = "processed", ![e].error = "none",
                                 ![e].timer = 0]
     \/ Faults /\ UNCHANGED outbox
  /\ worker' = [worker EXCEPT ![w] = After(w)]
  /\ UNCHANGED <<due, archived>>

FailedRowTooSoon(row, attempts) ==
  IF attempts + 1 >= MaxAttempts
  THEN [row EXCEPT !.status = "dead_letter", !.attempts = MaxAttempts,
                   !.error = "failed", !.timer = 0]
  ELSE [row EXCEPT !.status = "pending", !.error = "failed",
                   !.timer = DelayAfter(attempts)]

FailedRow(row, attempts) ==
  IF attempts >= MaxAttempts
  THEN [row EXCEPT !.status = "dead_letter", !.attempts = MaxAttempts,
                   !.error = "failed", !.timer = 0]
  ELSE [row EXCEPT !.status = "pending", !.error = "failed",
                   !.timer = DelayAfter(attempts)]

MarkOutboxFailedForgotten(w) ==
  LET e == worker[w].event IN
  /\ worker[w].stage = "failed"
  /\ outbox' = [outbox EXCEPT ![e].status = "processed", ![e].error = "failed"]
  /\ worker' = [worker EXCEPT ![w] = After(w)]
  /\ UNCHANGED <<due, archived>>

MarkOutboxFailed(w) ==
  LET e == worker[w].event IN
  /\ worker[w].stage = "failed"
  /\ \/ outbox' = [outbox EXCEPT ![e] = FailedRow(@, worker[w].attempts + 1)]
     \/ Faults /\ UNCHANGED outbox
  /\ worker' = [worker EXCEPT ![w] = After(w)]
  /\ UNCHANGED <<due, archived>>

-----------------------------------------------------------------------------
(* Operators, restart and time.                                            *)

\* RequeueDeadLetter.
RequeueDeadLetter(e) ==
  /\ outbox[e].status = "dead_letter" /\ ~archived
  /\ outbox' = [outbox EXCEPT ![e] = [NoRow EXCEPT !.status = "pending"]]
  /\ UNCHANGED <<worker, due, archived>>

\* Unfinished rows of an archived monitor count as processed.
Closed(row) ==
  IF row.status \in {"pending", "processing"}
  THEN [row EXCEPT !.status = "processed", !.error = "archived", !.timer = 0]
  ELSE row

\* DeleteMonitor.
ArchiveMonitor ==
  /\ ~archived
  /\ archived' = TRUE
  /\ outbox' = [e \in Events |-> Closed(outbox[e])]
  /\ UNCHANGED <<worker, due>>

\* The process dies and comes back: repairActiveConfigReferences.
Restart ==
  /\ outbox' = [e \in Events |-> IF archived THEN Closed(outbox[e]) ELSE outbox[e]]
  /\ worker' = [w \in Workers |-> Resting("idle")]
  /\ due' = {}
  /\ UNCHANGED archived

\* A minute passes.  Nothing bounds a dispatch: it may send one message after
\* the other, and goes on when its claim counts as abandoned.
Tick ==
  /\ outbox' = [e \in Events |->
                  [outbox[e] EXCEPT !.timer = IF @ > 0 THEN @ - 1 ELSE 0]]
  /\ worker' = [w \in Workers |->
                  IF Busy(w) THEN [worker[w] EXCEPT !.held = AtMost(@ + 1, Stale)]
                             ELSE worker[w]]
  /\ UNCHANGED <<due, archived>>

-----------------------------------------------------------------------------
Init ==
  /\ outbox = [e \in Events |-> NoRow]
  /\ worker = [w \in Workers |-> Resting("idle")]
  /\ due = {}
  /\ archived = FALSE

ProcessOutboxEvent(w) ==
  \/ ClaimOutbox(w) \/ NotClaimed(w) \/ Lookup(w) \/ DispatchEvent(w)
  \/ MarkOutboxProcessed(w) \/ MarkOutboxFailed(w)

Next ==
  \/ StartCheck \/ CreateEvent \/ EndCheck
  \/ ListDueOutbox \/ NextListed
  \/ \E w \in Workers : ProcessOutboxEvent(w)
  \/ \E e \in Events : RequeueDeadLetter(e)
  \/ ArchiveMonitor
  \/ Restart
  \/ Tick

Spec == Init /\ [][Next]_vars

\* A pass is started with every tick of the scheduler unless one is running,
\* a goroutine that runs goes on, and time passes.
Fairness ==
  /\ WF_vars(ListDueOutbox \/ NextListed \/ ProcessOutboxEvent("maintenance"))
  /\ WF_vars(ProcessOutboxEvent("check"))
  /\ WF_vars(Tick)

FairSpec == Spec /\ Fairness

-----------------------------------------------------------------------------
(* Properties.                                                             *)

\* An event is dispatched twice at the same time only when the maintenance pass
\* has taken it over from a check whose dispatch had lasted Stale minutes: the
\* check never takes an event from the pass, and the pass none too early.
OnlyStaleOvertaken ==
  \A v, w \in Workers :
    Busy(v) /\ Busy(w) /\ worker[v].event = worker[w].event /\ v # w
      => worker["check"].held = Stale

\* An event becomes a dead letter only after MaxAttempts claims since it was
\* created or requeued, although the code counts from the attempts it listed
\* and not from the column.
GivenUpOnlyAfterLimit ==
  [][\A e \in Events :
       outbox[e].status # "dead_letter" /\ outbox'[e].status = "dead_letter"
         => outbox[e].attempts = MaxAttempts]_vars

\* A claim or an outcome is not written although it could be.
StatementFails ==
  \E w \in Workers :
    \/ NotClaimed(w) /\ Claimable(w, worker[w].event)
    \/ worker[w].stage \in {"done", "failed"} /\ worker'[w] = After(w) /\ outbox' = outbox

\* Every event is settled, processed or given up, whatever was cut off by a
\* restart or not written, unless the process keeps dying, statements keep
\* failing or operators keep requeueing.
Settles ==
  <>[][~Restart /\ ~StatementFails /\ \A e \in Events : ~RequeueDeadLetter(e)]_vars =>
    \A e \in Events :
      outbox[e].status \in {"pending", "processing"}
        ~> outbox[e].status \in {"processed", "dead_letter"}

-----------------------------------------------------------------------------
(* The outbox implements EventDelivery.                                    *)

OfStatus == [none |-> "unknown", pending |-> "waiting", processing |-> "waiting",
             processed |-> "delivered", dead_letter |-> "dead"]

StateOf(row) == IF row.error = "archived" THEN "dropped" ELSE OfStatus[row.status]

TakenBy(work) ==
  IF work.stage \in Holding
  THEN [event |-> work.event, ended |-> work.stage = "done",
        late |-> work.held = Stale, shared |-> work.shared]
  ELSE [event |-> 0, ended |-> FALSE, late |-> FALSE, shared |-> FALSE]

Delivery == INSTANCE EventDelivery WITH
  Dispatchers <- Workers, None <- 0,
  state <- [e \in Events |-> StateOf(outbox[e])],
  taken <- [w \in Workers |-> TakenBy(worker[w])]

\* No event is lost or delivered without a dispatch that ended well; it is taken
\* from a dispatcher only when that has been at it for long, and is taken up after
\* it was delivered only when two have been at it.
DeliverySpec == Delivery!Spec
=============================================================================
