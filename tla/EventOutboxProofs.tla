------------------------- MODULE EventOutboxProofs -------------------------
(* EventOutbox: types, who may overtake whom, that it implements EventDelivery, *)
(* and that dead letters have had all their attempts, for any number of     *)
(* events and any delays.                                                   *)
EXTENDS EventOutbox, TLAPS

-----------------------------------------------------------------------------
(* Types.                                                                  *)

LEMMA DelayType == ASSUME NEW n \in Nat, n >= 1 PROVE DelayAfter(n) \in Nat
<1> DEFINE k == IF n > 6 THEN 6 ELSE n
<1>1. k \in 1..6
  OBVIOUS
<1>2. Delay[1] = 2 /\ Delay[2] = 4 /\ Delay[3] = 8 /\ Delay[4] = 16 /\ Delay[5] = 32 /\ Delay[6] = 64
  BY DEF Delay
<1>3. k = 1 \/ k = 2 \/ k = 3 \/ k = 4 \/ k = 5 \/ k = 6
  <2> HIDE DEF k
  <2> QED BY <1>1
<1>4. Delay[k] \in Nat
  <2> HIDE DEF k
  <2> QED BY <1>2, <1>3
<1> QED BY <1>4 DEF DelayAfter

LEMMA FailedRowType ==
  ASSUME NEW row \in OutboxRow, NEW n \in Nat, n >= 1
  PROVE  FailedRow(row, n) \in OutboxRow
<1>1. DelayAfter(n) \in Nat /\ MaxAttempts \in 0..MaxAttempts
  BY DelayType, CountsAssumption
<1>2. CASE n >= MaxAttempts
  <2>1. FailedRow(row, n) = [row EXCEPT !.status = "dead_letter", !.attempts = MaxAttempts,
                                        !.error = "failed", !.timer = 0]
    BY <1>2 DEF FailedRow
  <2>2. [row EXCEPT !.status = "dead_letter", !.attempts = MaxAttempts,
                    !.error = "failed", !.timer = 0] \in OutboxRow
    <3>1. [status |-> "dead_letter", attempts |-> MaxAttempts, timer |-> 0,
           error |-> "failed"] \in OutboxRow
      BY <1>1 DEF OutboxRow
    <3> QED BY <3>1, ZenonT(30) DEF OutboxRow
  <2> QED BY <2>1, <2>2
<1>3. CASE ~(n >= MaxAttempts)
  <2>1. FailedRow(row, n) = [row EXCEPT !.status = "pending", !.error = "failed",
                                        !.timer = DelayAfter(n)]
    BY <1>3 DEF FailedRow
  <2> QED BY <1>1, <2>1 DEF OutboxRow
<1> QED BY <1>2, <1>3

LEMMA ClosedType ==
  ASSUME NEW row \in OutboxRow PROVE Closed(row) \in OutboxRow
BY DEF Closed, OutboxRow

LEMMA InitTypes == Init => TypeOK
<1> SUFFICES ASSUME Init PROVE TypeOK
  OBVIOUS
<1>1. NoRow \in OutboxRow
  BY CountsAssumption DEF NoRow, OutboxRow
<1>2. Resting("idle") \in Work
  BY CountsAssumption DEF Resting, Work, Stages
<1>3. Resting("idle").stage = "idle"
  BY DEF Resting
<1> QED BY <1>1, <1>2, <1>3 DEF Init, TypeOK, Holding

\* What a worker is doing, with the event it is at.
WorkOK(work) ==
  /\ work \in Work
  /\ work.stage \in {"claim"} \cup Holding => work.event # 0

LEMMA OneStepTypes ==
  ASSUME TypeOK,
         NEW w \in Workers, NEW work, WorkOK(work), worker' = [worker EXCEPT ![w] = work],
         outbox' \in [Events -> OutboxRow],
         due' \subseteq (Events \X (0..MaxAttempts)), archived' \in BOOLEAN
  PROVE  TypeOK'
<1>1. worker' \in [Workers -> Work]
  BY DEF TypeOK, WorkOK
<1>2. \A v \in Workers : worker'[v].stage \in {"claim"} \cup Holding => worker'[v].event # 0
  BY DEF TypeOK, WorkOK
<1> QED BY <1>1, <1>2 DEF TypeOK

LEMMA RestingOK ==
  ASSUME NEW stage \in {"idle", "checking"} PROVE WorkOK(Resting(stage))
BY CountsAssumption DEF WorkOK, Work, Resting, Stages, Holding

\* Taking an event changes nothing but what is known of the others at it.
LEMMA HoldRows ==
  ASSUME TypeOK, NEW w \in Workers, NEW e, Hold(w, e)
  PROVE  /\ worker'[w] \in Work /\ worker'[w].stage = "lookup"
         /\ worker'[w].event = worker[w].event
         /\ worker'[w].attempts = worker[w].attempts /\ worker'[w].held = worker[w].held
         /\ worker'[w].shared = (Others(w, e) # {})
<1>1. worker \in [Workers -> Work]
  BY DEF TypeOK
<1>2. worker'[w] = [worker[w] EXCEPT !.stage = "lookup", !.shared = (Others(w, e) # {})]
  BY DEF Hold
<1>3. (Others(w, e) # {}) \in BOOLEAN
  OBVIOUS
<1> DEFINE others == (Others(w, e) # {})
<1>4. worker[w] \in Work
  BY <1>1
<1> HIDE DEF others
<1>5. worker'[w] = [worker[w] EXCEPT !.stage = "lookup", !.shared = others]
  BY <1>2 DEF others
<1>6. others \in BOOLEAN
  BY <1>3 DEF others
<1>7. /\ worker'[w] \in Work /\ worker'[w].stage = "lookup"
      /\ worker'[w].event = worker[w].event
      /\ worker'[w].attempts = worker[w].attempts /\ worker'[w].held = worker[w].held
      /\ worker'[w].shared = others
  BY <1>4, <1>5, <1>6 DEF Work, Stages
<1> QED BY <1>7 DEF others

LEMMA HoldOthers ==
  ASSUME TypeOK, NEW w \in Workers, NEW e, Hold(w, e), NEW v \in Workers \ {w}
  PROVE  /\ worker'[v] \in Work /\ worker'[v].stage = worker[v].stage
         /\ worker'[v].event = worker[v].event /\ worker'[v].attempts = worker[v].attempts
         /\ worker'[v].held = worker[v].held
         /\ v \in Others(w, e) => worker'[v] = [worker[v] EXCEPT !.shared = TRUE]
         /\ v \in Others(w, e) => worker'[v].shared
         /\ v \notin Others(w, e) => worker'[v] = worker[v]
<1>1. worker[v] \in Work
  BY DEF TypeOK
<1>2. CASE v \in Others(w, e)
  <2>1. worker'[v] = [worker[v] EXCEPT !.shared = TRUE]
    BY <1>2 DEF Hold
  <2>2. [worker[v] EXCEPT !.shared = TRUE] \in Work
    BY <1>1 DEF Work
  <2> QED BY <1>1, <1>2, <2>1, <2>2 DEF Work
<1>3. CASE v \notin Others(w, e)
  <2>1. worker'[v] = worker[v]
    BY <1>3 DEF Hold
  <2> QED BY <1>1, <1>3, <2>1
<1> QED BY <1>2, <1>3

LEMMA HoldTypes ==
  ASSUME TypeOK, NEW w \in Workers, Hold(w, worker[w].event),
         worker[w].stage = "claim",
         outbox' \in [Events -> OutboxRow],
         due' \subseteq (Events \X (0..MaxAttempts)), archived' \in BOOLEAN
  PROVE  TypeOK'
<1>1. \A v \in Workers \ {w} : /\ worker'[v] \in Work
                               /\ worker'[v].stage = worker[v].stage
                               /\ worker'[v].event = worker[v].event
  BY HoldOthers
<1>2. worker'[w] \in Work /\ worker'[w].event = worker[w].event
  BY HoldRows
<1>3. worker' = [v \in Workers |-> worker'[v]]
  BY DEF Hold
<1>4. worker' \in [Workers -> Work]
  BY <1>1, <1>2, <1>3
<1>5. worker[w].event # 0
  BY DEF TypeOK
<1>6. \A v \in Workers : worker'[v].stage \in {"claim"} \cup Holding => worker'[v].event # 0
  BY <1>1, <1>2, <1>5 DEF TypeOK
<1> QED BY <1>4, <1>6 DEF TypeOK

LEMMA NextTypes == TypeOK /\ [Next]_vars => TypeOK'
<1> SUFFICES ASSUME TypeOK, [Next]_vars PROVE TypeOK'
  OBVIOUS
<1> USE DEF Workers
<1>0. /\ outbox \in [Events -> OutboxRow] /\ worker \in [Workers -> Work]
      /\ due \subseteq (Events \X (0..MaxAttempts)) /\ archived \in BOOLEAN
      /\ \A w \in Workers : WorkOK(worker[w])
  BY DEF TypeOK, WorkOK
<1>1. CASE StartCheck
  <2>1. worker' = [worker EXCEPT !["check"] = Resting("checking")]
    BY <1>1 DEF StartCheck
  <2> QED BY <1>0, <1>1, <2>1, RestingOK, OneStepTypes DEF StartCheck
<1>2. CASE EndCheck
  <2>1. worker' = [worker EXCEPT !["check"] = Resting("idle")]
    BY <1>2 DEF EndCheck
  <2> QED BY <1>0, <1>2, <2>1, RestingOK, OneStepTypes DEF EndCheck
<1>3. CASE CreateEvent
  <2>1. PICK e \in Events :
          /\ outbox' = [outbox EXCEPT ![e].status = "pending"]
          /\ \/ worker' = [worker EXCEPT !["check"].stage = "claim", !["check"].event = e]
             \/ UNCHANGED worker
    BY <1>3 DEF CreateEvent
  <2>2. outbox' \in [Events -> OutboxRow]
    BY <1>0, <2>1 DEF OutboxRow
  <2>3. CASE UNCHANGED worker
    BY <1>3, <2>2, <2>3 DEF CreateEvent, TypeOK
  <2>4. CASE worker' = [worker EXCEPT !["check"].stage = "claim", !["check"].event = e]
    <3> DEFINE work == [worker["check"] EXCEPT !.stage = "claim", !.event = e]
    <3>1. worker' = [worker EXCEPT !["check"] = work]
      BY <2>4, <1>0
    <3>2. WorkOK(work)
      <4>1. worker["check"] \in Work /\ e \in 0..NEvents /\ e # 0
        BY <1>0, CountsAssumption DEF Events
      <4>2. work \in Work /\ work.event = e
        BY <4>1 DEF Work, Stages
      <4> QED BY <4>1, <4>2 DEF WorkOK
    <3> HIDE DEF work
    <3> QED BY <1>0, <1>3, <2>2, <3>1, <3>2, OneStepTypes DEF CreateEvent
  <2> QED BY <2>1, <2>3, <2>4
<1>4. CASE ListDueOutbox
  <2>1. due' \subseteq (Events \X (0..MaxAttempts))
    <3>1. \A e \in Events : <<e, outbox[e].attempts>> \in Events \X (0..MaxAttempts)
      BY <1>0 DEF OutboxRow
    <3>2. PICK page \in SUBSET Events : due' = {<<e, outbox[e].attempts>> : e \in page}
      <4> DEFINE eligible == {e \in Events : ClaimableDue(e)}
                 page == {e \in eligible : Cardinality({d \in eligible : d <= e}) <= PageSize}
      <4>1. page \in SUBSET Events /\ due' = {<<e, outbox[e].attempts>> : e \in page}
        BY <1>4 DEF ListDueOutbox
      <4> HIDE DEF page
      <4> QED BY <4>1
    <3> QED BY <3>1, <3>2
  <2> QED BY <1>4, <2>1 DEF ListDueOutbox, TypeOK
<1>5. CASE NextListed
  <2>1. PICK item \in due :
          /\ due' = due \ {item}
          /\ worker' = [worker EXCEPT !["maintenance"] =
               [stage |-> "claim", event |-> item[1], attempts |-> item[2],
                held |-> 0, shared |-> FALSE]]
    BY <1>5 DEF NextListed
  <2>2. item[1] \in Events /\ item[2] \in 0..MaxAttempts
    BY <1>0
  <2>3. WorkOK([stage |-> "claim", event |-> item[1], attempts |-> item[2],
                held |-> 0, shared |-> FALSE])
    <3> DEFINE work == [stage |-> "claim", event |-> item[1], attempts |-> item[2],
                        held |-> 0, shared |-> FALSE]
    <3>2. item[1] \in 0..NEvents /\ item[1] # 0 /\ 0 \in 0..Stale
      BY <2>2, CountsAssumption DEF Events
    <3>3. work \in Work
      <4>1. "claim" \in Stages /\ FALSE \in BOOLEAN
        BY DEF Stages
      <4> QED BY <2>2, <3>2, <4>1, Zenon DEF Work
    <3>a. work.event # 0
      BY <3>2
    <3> HIDE DEF work
    <3>4. WorkOK(work)
      BY <3>3, <3>a DEF WorkOK
    <3> QED BY <3>4 DEF work
  <2> QED BY <1>0, <1>5, <2>1, <2>3, OneStepTypes DEF NextListed
<1>6. ASSUME NEW w \in Workers, ProcessOutboxEvent(w) PROVE TypeOK'
  <2> DEFINE e == worker[w].event
  <2>0. /\ due' \subseteq (Events \X (0..MaxAttempts)) /\ archived' \in BOOLEAN
        /\ worker[w].stage \in {"claim"} \cup Holding
    BY <1>0, <1>6 DEF ProcessOutboxEvent, ClaimOutbox, NotClaimed, Lookup, DispatchEvent,
                      MarkOutboxProcessed, MarkOutboxFailed, Holding
  <2>e. e \in Events
    BY <1>0, <2>0, CountsAssumption DEF WorkOK, Work, Events
  <2>r. outbox[e] \in OutboxRow
    BY <1>0, <2>e
  <2>a. WorkOK(After(w))
    BY RestingOK DEF After
  <2>l. ASSUME NEW stage \in Holding PROVE WorkOK([worker[w] EXCEPT !.stage = stage])
    BY <1>0, <2>0 DEF WorkOK, Work, Stages, Holding
  <2>1. CASE ClaimOutbox(w)
    <3>3. AtMost(outbox[e].attempts + 1, MaxAttempts) \in 0..MaxAttempts
      BY <2>r, CountsAssumption DEF AtMost, OutboxRow
    <3>4. [outbox[e] EXCEPT !.status = "processing", !.timer = Stale,
             !.attempts = AtMost(outbox[e].attempts + 1, MaxAttempts)] \in OutboxRow
      BY <2>r, <3>3, CountsAssumption DEF OutboxRow
    <3>5. outbox' = [outbox EXCEPT ![e] = [outbox[e] EXCEPT !.status = "processing", !.timer = Stale,
             !.attempts = AtMost(outbox[e].attempts + 1, MaxAttempts)]]
      BY <1>0, <2>1, <2>e DEF ClaimOutbox, OutboxRow
    <3>6. outbox' \in [Events -> OutboxRow]
      BY <1>0, <3>4, <3>5
    <3> QED BY <2>0, <2>1, <3>6, HoldTypes DEF ClaimOutbox
  <2>2. CASE NotClaimed(w)
    BY <1>0, <2>2, <2>0, <2>a, OneStepTypes DEF NotClaimed
  <2>3. CASE Lookup(w)
    <3>1. PICK stage \in Holding : worker' = [worker EXCEPT ![w].stage = stage]
      BY <2>3 DEF Lookup, Holding
    <3>2. worker' = [worker EXCEPT ![w] = [worker[w] EXCEPT !.stage = stage]]
      BY <3>1, <1>0
    <3> QED BY <1>0, <2>0, <2>3, <2>l, <3>2, OneStepTypes DEF Lookup
  <2>4. CASE DispatchEvent(w)
    <3>1. PICK stage \in Holding : worker' = [worker EXCEPT ![w].stage = stage]
      BY <2>4 DEF DispatchEvent, Holding
    <3>2. worker' = [worker EXCEPT ![w] = [worker[w] EXCEPT !.stage = stage]]
      BY <3>1, <1>0
    <3> QED BY <1>0, <2>0, <2>4, <2>l, <3>2, OneStepTypes DEF DispatchEvent
  <2>5. CASE MarkOutboxProcessed(w)
    <3>1. outbox' \in [Events -> OutboxRow]
      BY <1>0, <2>5, <2>e DEF MarkOutboxProcessed, OutboxRow
    <3> QED BY <2>0, <2>5, <2>a, <3>1, OneStepTypes DEF MarkOutboxProcessed
  <2>6. CASE MarkOutboxFailed(w)
    <3>0. worker[w].attempts + 1 \in Nat /\ worker[w].attempts + 1 >= 1
      BY <1>0, CountsAssumption DEF Work
    <3>1. FailedRow(outbox[e], worker[w].attempts + 1) \in OutboxRow
      BY <2>r, <3>0, FailedRowType
    <3>2. outbox' \in [Events -> OutboxRow]
      BY <1>0, <2>6, <3>1 DEF MarkOutboxFailed
    <3> QED BY <2>0, <2>6, <2>a, <3>2, OneStepTypes DEF MarkOutboxFailed
  <2> QED BY <1>6, <2>1, <2>2, <2>3, <2>4, <2>5, <2>6 DEF ProcessOutboxEvent
<1>7. ASSUME NEW e \in Events, RequeueDeadLetter(e) PROVE TypeOK'
  <2>1. outbox' \in [Events -> OutboxRow]
    BY <1>0, <1>7, CountsAssumption DEF RequeueDeadLetter, OutboxRow, NoRow
  <2> QED BY <1>7, <2>1 DEF RequeueDeadLetter, TypeOK
<1>8. CASE ArchiveMonitor
  <2>1. outbox' \in [Events -> OutboxRow]
    BY <1>0, <1>8, ClosedType DEF ArchiveMonitor
  <2> QED BY <1>8, <2>1 DEF ArchiveMonitor, TypeOK
<1>9. CASE Restart
  <2>1. outbox' \in [Events -> OutboxRow]
    BY <1>0, <1>9, ClosedType DEF Restart
  <2>2. worker' \in [Workers -> Work] /\ \A w \in Workers : worker'[w].stage = "idle"
    BY <1>9, CountsAssumption DEF Restart, Resting, Work, Stages
  <2> QED BY <1>9, <2>1, <2>2 DEF Restart, TypeOK, Holding
<1>10. CASE Tick
  <2>1. outbox' \in [Events -> OutboxRow]
    BY <1>0, <1>10, SMTT(20) DEF Tick, OutboxRow
  <2>2. \A w \in Workers : /\ worker'[w] \in Work
                           /\ worker'[w].stage = worker[w].stage
                           /\ worker'[w].event = worker[w].event
    BY <1>0, <1>10, CountsAssumption DEF Tick, Work, AtMost
  <2>3. worker' \in [Workers -> Work]
    BY <1>10, <2>2 DEF Tick
  <2> QED BY <1>10, <2>1, <2>2, <2>3 DEF Tick, TypeOK
<1>11. CASE UNCHANGED vars
  BY <1>11 DEF vars, TypeOK
<1> QED
  BY <1>1, <1>2, <1>3, <1>4, <1>5, <1>6, <1>7, <1>8, <1>9, <1>10, <1>11 DEF Next

\* Rows, workers and the listed page keep their types, and whoever claims or
\* holds an event has one (processOutboxEvent).
THEOREM TypeCorrect == Spec => []TypeOK
BY InitTypes, NextTypes, PTL DEF Spec

-----------------------------------------------------------------------------
(* Overtaking.  An event that one worker holds alone has a claim as old as  *)
(* that worker's dispatch, or was closed while it was held; so only a check *)
(* that has held it for Stale minutes can be overtaken, and only by the     *)
(* pass.                                                                    *)

ClaimKept(row, work) ==
  \/ row.status = "processing" /\ row.timer + work.held >= Stale
  \/ row.status = "processed" /\ row.error = "archived"

HoldsClaim ==
  \A w \in Workers :
    Busy(w) /\ ~worker[w].shared => ClaimKept(outbox[worker[w].event], worker[w])

BothShare ==
  \A v, w \in Workers :
    Busy(v) /\ Busy(w) /\ worker[v].event = worker[w].event /\ v # w => worker[v].shared

SharedLate == Busy("check") /\ worker["check"].shared => worker["check"].held = Stale

\* Nobody was at a new event before the check that claims it.
ClaimsNew ==
  worker["check"].stage = "claim" /\ Busy("maintenance")
    /\ worker["maintenance"].event = worker["check"].event => ~worker["maintenance"].shared

RestingIsClean == \A w \in Workers : ~Busy(w) => worker[w].held = 0

RowsExist ==
  /\ \A w \in Workers :
       worker[w].stage \in {"claim"} \cup Holding => outbox[worker[w].event].status # "none"
  /\ \A item \in due : outbox[item[1]].status # "none"

ClosedOnlyByArchive ==
  \A e \in Events : outbox[e].error = "archived" => outbox[e].status = "processed" /\ archived

OInv ==
  /\ TypeOK
  /\ HoldsClaim /\ BothShare /\ SharedLate /\ ClaimsNew
  /\ RestingIsClean /\ RowsExist /\ ClosedOnlyByArchive

\* The events at which busy workers are.
LEMMA BusyEvent ==
  ASSUME TypeOK, NEW w \in Workers, worker[w].stage \in {"claim"} \cup Holding
  PROVE  worker[w].event \in Events
BY CountsAssumption DEF TypeOK, Work, Events

LEMMA OvertakenIsStale == OInv => OnlyStaleOvertaken
BY DEF OInv, OnlyStaleOvertaken, BothShare, SharedLate, Workers

\* What a step does to a worker that takes up no event.
Stays(w) ==
  IF worker'[w].stage \in Holding
  THEN /\ Busy(w) /\ worker'[w].event = worker[w].event /\ worker'[w].shared = worker[w].shared
       /\ worker'[w].held >= worker[w].held
       /\ ~worker[w].shared => ClaimKept(outbox'[worker[w].event], worker'[w])
  ELSE worker'[w].held = 0

LEMMA StillHeld ==
  ASSUME OInv, TypeOK', \A w \in Workers : Stays(w),
         RowsExist', ClosedOnlyByArchive', ClaimsNew'
  PROVE  OInv'
<1>1. HoldsClaim'
  BY DEF HoldsClaim, Stays, Busy
<1>2. BothShare'
  BY DEF OInv, BothShare, Stays, Busy
<1>3. SharedLate'
  <2>1. "check" \in Workers
    BY DEF Workers
  <2>2. /\ worker["check"].held \in 0..Stale /\ worker'["check"].held \in 0..Stale
        /\ Stale \in Nat
    BY <2>1, CountsAssumption DEF OInv, TypeOK, Work
  <2> QED BY <2>1, <2>2 DEF OInv, SharedLate, Stays, Busy
<1>4. RestingIsClean'
  BY DEF RestingIsClean, Stays, Busy
<1> QED BY <1>1, <1>2, <1>3, <1>4 DEF OInv

\* Rows stay, once they are there.
LEMMA RowsStay ==
  ASSUME OInv, TypeOK', \A e \in Events : outbox[e].status # "none" => outbox'[e].status # "none",
         due' \subseteq due,
         \A w \in Workers : worker'[w].stage \in {"claim"} \cup Holding =>
            /\ worker[w].stage \in {"claim"} \cup Holding
            /\ worker'[w].event = worker[w].event
  PROVE  RowsExist'
<1>1. \A item \in due : item[1] \in Events
  BY DEF OInv, TypeOK
<1>2. \A w \in Workers : worker[w].stage \in {"claim"} \cup Holding => worker[w].event \in Events
  BY BusyEvent DEF OInv
<1> QED BY <1>1, <1>2 DEF OInv, RowsExist

\* Whoever is at an event that is claimed is a check that has been for long.
LEMMA ClaimTakesOver ==
  ASSUME OInv, NEW w \in Workers, ClaimOutbox(w), NEW v \in Others(w, worker[w].event)
  PROVE  w = "maintenance" /\ v = "check" /\ worker[v].held = Stale
<1> DEFINE e == worker[w].event
<1>1. /\ v \in Workers /\ v # w /\ Busy(v) /\ worker[v].event = e
      /\ worker[w].stage = "claim" /\ Claimable(w, e)
  BY DEF Others, ClaimOutbox
<1>2. e \in Events /\ outbox[e] \in OutboxRow /\ worker[v] \in Work
  BY <1>1, BusyEvent DEF OInv, TypeOK
<1>3. outbox[e].timer \in Nat /\ worker[v].held \in 0..Stale /\ Stale \in Nat
  BY <1>2, CountsAssumption DEF OutboxRow, Work
<1>4. ~worker[v].shared => ClaimKept(outbox[e], worker[v])
  BY <1>1 DEF OInv, HoldsClaim
<1> HIDE DEF e
<1>5. CASE w = "check"
  <2>1. v = "maintenance" /\ outbox[e].status = "pending"
    BY <1>1, <1>5 DEF Workers, Claimable
  <2>2. ~worker[v].shared
    BY <1>1, <1>5, <2>1 DEF OInv, ClaimsNew, e
  <2> QED BY <1>4, <2>1, <2>2 DEF ClaimKept
<1>6. CASE w = "maintenance"
  <2>1. v = "check"
    BY <1>1, <1>6 DEF Workers
  <2>2. outbox[e].status \in {"pending", "processing"} /\ outbox[e].timer = 0
    BY <1>1, <1>6 DEF Claimable, ClaimableDue
  <2>3. CASE worker[v].shared
    BY <1>1, <1>6, <2>1, <2>3 DEF OInv, SharedLate
  <2>4. CASE ~worker[v].shared
    <3>1. outbox[e].timer + worker[v].held >= Stale
      BY <1>4, <2>2, <2>4 DEF ClaimKept
    <3> QED BY <1>3, <1>6, <2>1, <2>2, <3>1
  <2> QED BY <2>3, <2>4
<1> QED BY <1>5, <1>6 DEF Workers

LEMMA ClosedKept ==
  ASSUME NEW row \in OutboxRow, NEW work, NEW next, next.held = work.held, ClaimKept(row, work)
  PROVE  ClaimKept(Closed(row), next)
BY DEF ClaimKept, Closed, OutboxRow

LEMMA ClosedError ==
  ASSUME NEW row \in OutboxRow, row.error = "archived" => row.status = "processed"
  PROVE  Closed(row).error = "archived" => Closed(row).status = "processed"
BY DEF Closed, OutboxRow

\* A claim, with whomever it overtakes.
LEMMA ClaimOvertakes ==
  ASSUME OInv, NEW w \in Workers, ClaimOutbox(w), TypeOK'
  PROVE  OInv'
<1> DEFINE e == worker[w].event
<1> USE DEF Busy
<1>0. /\ TypeOK /\ outbox \in [Events -> OutboxRow] /\ worker \in [Workers -> Work]
      /\ worker[w].stage = "claim" /\ UNCHANGED <<due, archived>> /\ Hold(w, e)
      /\ Stale \in Nat
  BY CountsAssumption DEF OInv, TypeOK, ClaimOutbox
<1>1. e \in Events
  BY <1>0, BusyEvent
<1>2. /\ outbox'[e].status = "processing" /\ outbox'[e].timer = Stale
      /\ outbox'[e].error = outbox[e].error
      /\ \A d \in Events : d # e => outbox'[d] = outbox[d]
  BY <1>0, <1>1 DEF ClaimOutbox, OutboxRow
<1>3. /\ worker'[w].stage = "lookup" /\ worker'[w].event = e /\ worker'[w].held = 0
      /\ worker'[w].shared <=> Others(w, e) # {}
  <2>1. worker[w].held = 0
    BY <1>0 DEF OInv, RestingIsClean, Holding
  <2> QED BY <1>0, <2>1, HoldRows
<1>4. ASSUME NEW v \in Workers \ {w}
      PROVE  /\ worker'[v].stage = worker[v].stage /\ worker'[v].event = worker[v].event
             /\ worker'[v].held = worker[v].held
             /\ v \in Others(w, e) => worker'[v].shared
             /\ v \notin Others(w, e) => worker'[v].shared = worker[v].shared
  BY <1>0, HoldOthers
<1>5. \A v \in Others(w, e) : v = "check" /\ w = "maintenance" /\ worker[v].held = Stale
  BY ClaimTakesOver
<1>6. \A v \in Workers \ {w} : Busy(v) /\ worker[v].event = e <=> v \in Others(w, e)
  BY DEF Others
<1> HIDE DEF e
<1>7. HoldsClaim'
  <2> SUFFICES ASSUME NEW v \in Workers, worker'[v].stage \in Holding, ~worker'[v].shared
               PROVE  ClaimKept(outbox'[worker'[v].event], worker'[v])
    BY DEF HoldsClaim
  <2>1. CASE v = w
    BY <1>0, <1>2, <1>3, <2>1 DEF ClaimKept
  <2>2. CASE v # w
    <3>1. v \notin Others(w, e) /\ worker'[v].shared = worker[v].shared
      BY <1>4, <2>2
    <3>2. worker[v].event # e /\ worker[v].event \in Events /\ Busy(v)
      BY <1>0, <1>4, <1>6, <2>2, <3>1, BusyEvent
    <3>3. ClaimKept(outbox[worker[v].event], worker[v])
      BY <3>1, <3>2 DEF OInv, HoldsClaim
    <3> QED BY <1>2, <1>4, <2>2, <3>2, <3>3 DEF ClaimKept
  <2> QED BY <2>1, <2>2
<1>8. BothShare'
  <2> SUFFICES ASSUME NEW u \in Workers, NEW v \in Workers, u # v,
                      worker'[u].stage \in Holding, worker'[v].stage \in Holding,
                      worker'[u].event = worker'[v].event
               PROVE  worker'[u].shared
    BY DEF BothShare
  <2>1. CASE u = w
    BY <1>3, <1>4, <1>6, <2>1
  <2>2. CASE v = w
    BY <1>3, <1>4, <1>6, <2>2
  <2>3. CASE u # w /\ v # w
    BY <1>4, <2>3 DEF OInv, BothShare
  <2> QED BY <2>1, <2>2, <2>3
<1>9. SharedLate'
  <2>1. CASE w = "check"
    BY <1>3, <1>5, <2>1 DEF SharedLate
  <2>2. CASE w # "check"
    <3>1. "check" \in Workers \ {w}
      BY <2>2 DEF Workers
    <3> QED BY <1>4, <1>5, <3>1 DEF OInv, SharedLate
  <2> QED BY <2>1, <2>2
<1>10. ClaimsNew'
  <2>1. CASE w = "check"
    BY <1>3, <2>1 DEF ClaimsNew
  <2>2. CASE w # "check"
    <3>1. "check" \in Workers \ {w} /\ w = "maintenance"
      BY <2>2 DEF Workers
    <3>2. worker[("check")].stage = "claim" => Others(w, e) = {}
      BY <1>5, <3>1 DEF Others, Holding
    <3> QED BY <1>3, <1>4, <3>1, <3>2 DEF ClaimsNew
  <2> QED BY <2>1, <2>2
<1>11. RestingIsClean'
  BY <1>3, <1>4 DEF OInv, RestingIsClean, Holding
<1>12. RowsExist'
  <2>1. \A d \in Events : outbox[d].status # "none" => outbox'[d].status # "none"
    BY <1>2
  <2>2. \A v \in Workers : worker'[v].stage \in {"claim"} \cup Holding =>
            /\ worker[v].stage \in {"claim"} \cup Holding
            /\ worker'[v].event = worker[v].event
    BY <1>0, <1>3, <1>4 DEF e
  <2> QED BY <1>0, <2>1, <2>2, RowsStay
<1>13. ClosedOnlyByArchive'
  <2>1. outbox[e].status # "processed"
    BY <1>0 DEF ClaimOutbox, Claimable, ClaimableDue, e
  <2> QED BY <1>0, <1>1, <1>2, <2>1 DEF OInv, ClosedOnlyByArchive
<1> QED BY <1>7, <1>8, <1>9, <1>10, <1>11, <1>12, <1>13 DEF OInv

LEMMA NextOvertakes == ASSUME OInv, [Next]_vars PROVE OInv'
<1> USE DEF Busy
<1>0. /\ outbox \in [Events -> OutboxRow] /\ worker \in [Workers -> Work]
      /\ TypeOK' /\ TypeOK /\ "check" \in Workers /\ "maintenance" \in Workers
      /\ \A w \in Workers : worker[w].held \in Nat
  BY NextTypes, CountsAssumption DEF OInv, TypeOK, Workers, Work
<1>k. \A w \in Workers : Busy(w) /\ ~worker[w].shared => ClaimKept(outbox[worker[w].event], worker[w])
  BY DEF OInv, HoldsClaim
<1>h. \A w \in Workers : ~Busy(w) => worker[w].held = 0
  BY DEF OInv, RestingIsClean
<1>c. \A e \in Events : outbox[e].error = "archived" => outbox[e].status = "processed" /\ archived
  BY DEF OInv, ClosedOnlyByArchive
<1>b. \A w \in Workers : worker[w].stage \in {"claim"} \cup Holding =>
        worker[w].event \in Events /\ outbox[worker[w].event].status # "none"
  BY <1>0, BusyEvent DEF OInv, RowsExist
\* Workers that hold on to unchanged rows, or hold nothing.
<1>s. ASSUME NEW w \in Workers,
             \/ worker'[w].stage \notin Holding /\ worker'[w].held = 0
             \/ /\ worker'[w].stage \in Holding /\ Busy(w)
                /\ worker'[w].event = worker[w].event /\ worker'[w].shared = worker[w].shared
                /\ worker'[w].held = worker[w].held
                /\ outbox'[worker[w].event] = outbox[worker[w].event]
      PROVE  Stays(w)
  BY <1>0, <1>k, <1>s DEF Stays, ClaimKept
\* The check keeps its claim, and the pass what it holds.
<1>n. ASSUME worker'["check"].stage = "claim" => worker'["check"].stage = worker["check"].stage
                                              /\ worker'["check"].event = worker["check"].event,
             worker'["maintenance"].stage \in Holding =>
                /\ Busy("maintenance") /\ worker'["maintenance"].event = worker["maintenance"].event
                /\ worker'["maintenance"].shared = worker["maintenance"].shared
      PROVE  ClaimsNew'
  BY <1>n DEF OInv, ClaimsNew
<1>r. ASSUME NEW stage PROVE Resting(stage).stage = stage /\ Resting(stage).held = 0
  BY DEF Resting
<1>1. CASE StartCheck \/ EndCheck
  <2>1. /\ UNCHANGED <<outbox, due, archived>> /\ worker'["maintenance"] = worker["maintenance"]
        /\ worker'["check"].stage \in {"checking", "idle"} /\ worker'["check"].held = 0
    BY <1>0, <1>1, <1>r DEF StartCheck, EndCheck
  <2>2. \A w \in Workers : Stays(w)
    BY <1>h, <1>s, <2>1 DEF Workers, Holding
  <2>3. RowsExist'
    BY <1>0, <2>1, RowsStay DEF Workers, Holding
  <2>4. ClaimsNew' /\ ClosedOnlyByArchive'
    BY <1>c, <1>n, <2>1 DEF ClosedOnlyByArchive
  <2> QED BY <1>0, <2>2, <2>3, <2>4, StillHeld
<1>2. CASE ListDueOutbox
  <2>1. UNCHANGED <<outbox, worker, archived>>
    BY <1>2 DEF ListDueOutbox
  <2>2. \A w \in Workers : Stays(w)
    BY <1>h, <1>s, <2>1
  <2>3. PICK page \in SUBSET {e \in Events : ClaimableDue(e)} :
          due' = {<<e, outbox[e].attempts>> : e \in page}
    <3> DEFINE eligible == {e \in Events : ClaimableDue(e)}
               page == {e \in eligible : Cardinality({d \in eligible : d <= e}) <= PageSize}
    <3>1. page \in SUBSET eligible /\ due' = {<<e, outbox[e].attempts>> : e \in page}
      BY <1>2 DEF ListDueOutbox
    <3> HIDE DEF page
    <3> QED BY <3>1
  <2>4. RowsExist'
    <3>1. \A item \in due' : outbox[item[1]].status # "none"
      BY <2>3 DEF ClaimableDue
    <3> QED BY <1>b, <2>1, <3>1 DEF RowsExist
  <2>5. ClaimsNew' /\ ClosedOnlyByArchive'
    BY <1>c, <1>n, <2>1 DEF ClosedOnlyByArchive
  <2> QED BY <1>0, <2>2, <2>4, <2>5, StillHeld
<1>3. CASE NextListed
  <2>1. PICK item \in due :
          /\ due' = due \ {item}
          /\ worker' = [worker EXCEPT !["maintenance"] =
               [stage |-> "claim", event |-> item[1], attempts |-> item[2],
                held |-> 0, shared |-> FALSE]]
    BY <1>3 DEF NextListed
  <2>2. /\ worker'["maintenance"].stage = "claim" /\ worker'["maintenance"].held = 0
        /\ worker'["maintenance"].event = item[1] /\ worker'["check"] = worker["check"]
        /\ UNCHANGED <<outbox, archived>>
    BY <1>0, <1>3, <2>1 DEF NextListed, Resting
  <2>3. \A w \in Workers : Stays(w)
    BY <1>h, <1>s, <2>2 DEF Workers, Holding
  <2>4. RowsExist'
    <3>1. \A other \in due : outbox[other[1]].status # "none"
      BY DEF OInv, RowsExist
    <3> QED BY <1>b, <2>1, <2>2, <3>1 DEF RowsExist, Workers
  <2>5. ClaimsNew' /\ ClosedOnlyByArchive'
    BY <1>c, <1>n, <2>2 DEF ClosedOnlyByArchive, Holding
  <2> QED BY <1>0, <2>3, <2>4, <2>5, StillHeld
<1>4. CASE CreateEvent
  <2>1. PICK e \in Events :
          /\ outbox[e].status = "none"
          /\ outbox' = [outbox EXCEPT ![e].status = "pending"]
          /\ \/ worker' = [worker EXCEPT !["check"].stage = "claim", !["check"].event = e]
             \/ UNCHANGED worker
    BY <1>4 DEF CreateEvent
  <2>2. /\ worker["check"].stage = "checking" /\ UNCHANGED <<due, archived>>
        /\ worker'["maintenance"] = worker["maintenance"]
        /\ worker'["check"].held = worker["check"].held
        /\ \/ worker'["check"].stage = "claim" /\ worker'["check"].event = e
           \/ worker'["check"].stage = "checking"
    BY <1>0, <1>4, <2>1 DEF CreateEvent, Work
  <2>3. /\ outbox'[e].status = "pending" /\ outbox'[e].error = outbox[e].error
        /\ \A d \in Events : d # e => outbox'[d] = outbox[d]
    BY <1>0, <2>1 DEF OutboxRow
  <2>4. worker["maintenance"].stage \in {"claim"} \cup Holding =>
          /\ worker["maintenance"].event # e
          /\ outbox'[worker["maintenance"].event] = outbox[worker["maintenance"].event]
    BY <1>0, <1>b, <2>1, <2>3
  <2>5. \A w \in Workers : Stays(w)
    <3>1. Stays("maintenance")
      BY <1>0, <1>h, <1>s, <2>2, <2>4
    <3>2. Stays("check")
      BY <1>0, <1>h, <1>s, <2>2 DEF Holding
    <3> QED BY <3>1, <3>2 DEF Workers
  <2>6. RowsExist'
    <3>1. \A item \in due : item[1] \in Events /\ item[1] # e
      BY <2>1 DEF OInv, RowsExist, TypeOK
    <3>2. \A item \in due' : outbox'[item[1]].status # "none"
      <4>1. due' = due /\ \A item \in due : outbox[item[1]].status # "none"
        BY <2>2 DEF OInv, RowsExist
      <4> QED BY <2>3, <3>1, <4>1
    <3>3. \A w \in Workers : worker'[w].stage \in {"claim"} \cup Holding =>
            outbox'[worker'[w].event].status # "none"
      BY <1>0, <1>b, <2>2, <2>3, <2>4 DEF Workers, Holding
    <3> QED BY <3>2, <3>3 DEF RowsExist
  <2>7. ClaimsNew'
    BY <2>2, <2>4 DEF ClaimsNew
  <2>8. ClosedOnlyByArchive'
    BY <1>c, <2>1, <2>2, <2>3 DEF ClosedOnlyByArchive
  <2> QED BY <1>0, <2>5, <2>6, <2>7, <2>8, StillHeld
<1>5. ASSUME NEW w \in Workers, ProcessOutboxEvent(w) PROVE OInv'
  <2> DEFINE e == worker[w].event
  <2>e. e \in Events /\ outbox[e] \in OutboxRow
    BY <1>0, <1>5, BusyEvent DEF ProcessOutboxEvent, ClaimOutbox, NotClaimed, Lookup,
       DispatchEvent, MarkOutboxProcessed, MarkOutboxFailed, Holding
  <2>a. After(w).stage \notin {"claim"} \cup Holding /\ After(w).held = 0
    BY DEF After, Resting, Holding
  \* After a step that leaves w's event, whatever is written about it.
  <2>f. ASSUME worker' = [worker EXCEPT ![w] = After(w)], UNCHANGED <<due, archived>>,
               \/ UNCHANGED outbox
               \/ /\ Busy(w)
                  /\ \E row : /\ outbox' = [outbox EXCEPT ![e] = row]
                              /\ row.status # "none" /\ row.error # "archived"
        PROVE  OInv'
    <3>1. /\ worker'[w] = After(w) /\ \A v \in Workers \ {w} : worker'[v] = worker[v]
      BY <1>0, <2>f
    <3>2. \A d \in Events : \/ outbox'[d] = outbox[d]
                            \/ /\ d = e /\ Busy(w)
                               /\ outbox'[d].status # "none" /\ outbox'[d].error # "archived"
      BY <1>0, <2>e, <2>f
    <3> HIDE DEF e
    <3>3. ASSUME NEW v \in Workers \ {w} PROVE Stays(v)
      <4>1. CASE ~Busy(v)
        BY <1>h, <1>s, <3>1, <4>1
      <4>2. CASE Busy(v) /\ worker[v].event # e
        BY <1>b, <1>s, <3>1, <3>2, <4>2
      <4>3. CASE Busy(v) /\ worker[v].event = e
        <5>1. CASE Busy(w)
          <6>1. worker[v].shared
            BY <4>3, <5>1 DEF OInv, BothShare, e
          <6>2. worker'[v] = worker[v] /\ worker[v].held >= worker[v].held
            BY <1>0, <3>1
          <6> QED BY <4>3, <6>1, <6>2 DEF Stays
        <5>2. CASE ~Busy(w)
          BY <1>s, <3>1, <3>2, <2>e, <4>3, <5>2
        <5> QED BY <5>1, <5>2
      <4> QED BY <4>1, <4>2, <4>3
    <3>4. Stays(w)
      BY <1>s, <2>a, <3>1
    <3>5. RowsExist'
      <4>1. \A d \in Events : outbox[d].status # "none" => outbox'[d].status # "none"
        BY <3>2
      <4> QED BY <1>0, <2>a, <2>f, <3>1, <4>1, RowsStay
    <3>6. ClosedOnlyByArchive'
      BY <1>c, <2>f, <3>2 DEF ClosedOnlyByArchive
    <3>7. ClaimsNew'
      BY <1>0, <1>n, <2>a, <3>1
    <3> QED BY <1>0, <3>3, <3>4, <3>5, <3>6, <3>7, StillHeld
  \* After a step that takes w to its next stage.
  <2>h. ASSUME NEW stage \in Holding, worker' = [worker EXCEPT ![w].stage = stage],
               Busy(w), UNCHANGED <<outbox, due, archived>>
        PROVE  OInv'
    <3>1. /\ worker'[w].stage \in Holding /\ worker'[w].event = e
          /\ worker'[w].shared = worker[w].shared /\ worker'[w].held = worker[w].held
          /\ \A v \in Workers \ {w} : worker'[v] = worker[v]
      BY <1>0, <2>h DEF Work
    <3>2. \A v \in Workers : Stays(v)
      BY <1>h, <1>s, <2>h, <3>1
    <3>3. RowsExist'
      BY <1>0, <2>h, <3>1, RowsStay
    <3>4. ClosedOnlyByArchive'
      BY <1>c, <2>h DEF ClosedOnlyByArchive
    <3>5. ClaimsNew'
      BY <1>0, <1>n, <2>h, <3>1 DEF Holding
    <3> QED BY <1>0, <3>2, <3>3, <3>4, <3>5, StillHeld
  <2>1. CASE ClaimOutbox(w)
    BY <1>0, <2>1, ClaimOvertakes
  <2>2. CASE NotClaimed(w)
    BY <2>2, <2>f DEF NotClaimed
  <2>3. CASE Lookup(w)
    <3>1. PICK stage \in Holding : worker' = [worker EXCEPT ![w].stage = stage]
      BY <2>3 DEF Lookup, Holding
    <3> QED BY <2>3, <2>h, <3>1 DEF Lookup, Holding
  <2>4. CASE DispatchEvent(w)
    <3>1. PICK stage \in Holding : worker' = [worker EXCEPT ![w].stage = stage]
      BY <2>4 DEF DispatchEvent, Holding
    <3> QED BY <2>4, <2>h, <3>1 DEF DispatchEvent, Holding
  <2>5. CASE MarkOutboxProcessed(w)
    <3>1. /\ Busy(w) /\ worker' = [worker EXCEPT ![w] = After(w)] /\ UNCHANGED <<due, archived>>
      BY <2>5 DEF MarkOutboxProcessed, Holding
    <3> DEFINE row == [outbox[e] EXCEPT !.status = "processed", !.error = "none", !.timer = 0]
    <3>2. UNCHANGED outbox \/ outbox' = [outbox EXCEPT ![e] = row]
      BY <2>5, <1>0, <2>e DEF MarkOutboxProcessed
    <3>3. row.status # "none" /\ row.error # "archived"
      BY <2>e DEF OutboxRow
    <3> HIDE DEF row
    <3> QED BY <2>f, <3>1, <3>2, <3>3
  <2>6. CASE MarkOutboxFailed(w)
    <3>1. /\ Busy(w) /\ worker' = [worker EXCEPT ![w] = After(w)] /\ UNCHANGED <<due, archived>>
      BY <2>6 DEF MarkOutboxFailed, Holding
    <3> DEFINE row == FailedRow(outbox[e], worker[w].attempts + 1)
    <3>2. UNCHANGED outbox \/ outbox' = [outbox EXCEPT ![e] = row]
      BY <2>6, <1>0, <2>e DEF MarkOutboxFailed
    <3>3. row.status # "none" /\ row.error # "archived"
      BY <2>e DEF OutboxRow, FailedRow
    <3> HIDE DEF row
    <3> QED BY <2>f, <3>1, <3>2, <3>3
  <2> QED BY <1>5, <2>1, <2>2, <2>3, <2>4, <2>5, <2>6 DEF ProcessOutboxEvent
<1>6. ASSUME NEW e \in Events, RequeueDeadLetter(e) PROVE OInv'
  <2>1. /\ outbox[e].status = "dead_letter" /\ UNCHANGED <<worker, due, archived>>
        /\ outbox'[e].status = "pending" /\ outbox'[e].error = "none"
        /\ \A d \in Events : d # e => outbox'[d] = outbox[d]
    BY <1>0, <1>6 DEF RequeueDeadLetter, NoRow
  <2>2. \A w \in Workers : Stays(w)
    <3> SUFFICES ASSUME NEW w \in Workers PROVE Stays(w)
      OBVIOUS
    <3>1. CASE ~Busy(w)
      BY <1>h, <1>s, <2>1, <3>1
    <3>2. CASE Busy(w) /\ worker[w].event # e
      BY <1>b, <1>s, <2>1, <3>2
    <3>3. CASE Busy(w) /\ worker[w].event = e
      <4>1. worker[w].shared
        BY <1>k, <2>1, <3>3 DEF ClaimKept
      <4> QED BY <1>0, <2>1, <3>3, <4>1 DEF Stays
    <3> QED BY <3>1, <3>2, <3>3
  <2>3. RowsExist'
    <3>1. \A d \in Events : outbox[d].status # "none" => outbox'[d].status # "none"
      BY <2>1
    <3> QED BY <1>0, <2>1, <3>1, RowsStay
  <2>4. ClaimsNew' /\ ClosedOnlyByArchive'
    BY <1>c, <1>n, <2>1 DEF ClosedOnlyByArchive
  <2> QED BY <1>0, <2>2, <2>3, <2>4, StillHeld
<1>7. CASE ArchiveMonitor
  <2>1. /\ \A e \in Events : outbox'[e] = Closed(outbox[e]) /\ outbox[e] \in OutboxRow
        /\ UNCHANGED <<worker, due>> /\ archived'
    BY <1>0, <1>7 DEF ArchiveMonitor
  <2>2. ClosedOnlyByArchive'
    BY <1>c, <2>1, ClosedError DEF ClosedOnlyByArchive
  <2>3. \A w \in Workers : Stays(w)
    <3> SUFFICES ASSUME NEW w \in Workers PROVE Stays(w)
      OBVIOUS
    <3>1. CASE ~Busy(w)
      BY <1>h, <1>s, <2>1, <3>1
    <3>2. CASE Busy(w)
      <4>1. ~worker[w].shared => ClaimKept(outbox'[worker[w].event], worker'[w])
        BY <1>b, <1>k, <2>1, <3>2, ClosedKept
      <4> QED BY <1>0, <2>1, <3>2, <4>1 DEF Stays
    <3> QED BY <3>1, <3>2
  <2>4. RowsExist'
    <3>1. \A e \in Events : outbox[e].status # "none" => outbox'[e].status # "none"
      BY <2>1 DEF Closed, OutboxRow
    <3> QED BY <1>0, <2>1, <3>1, RowsStay
  <2>5. ClaimsNew'
    BY <1>n, <2>1
  <2> QED BY <1>0, <2>2, <2>3, <2>4, <2>5, StillHeld
<1>8. CASE Restart
  <2>1. /\ \A w \in Workers : worker'[w].stage = "idle" /\ worker'[w].held = 0
        /\ due' = {} /\ UNCHANGED archived
        /\ \A e \in Events : /\ outbox'[e] = IF archived THEN Closed(outbox[e]) ELSE outbox[e]
                             /\ outbox[e] \in OutboxRow
    BY <1>0, <1>8, <1>r DEF Restart
  <2>2. ClosedOnlyByArchive'
    BY <1>c, <2>1, ClosedError DEF ClosedOnlyByArchive
  <2>3. \A w \in Workers : Stays(w)
    BY <1>s, <2>1 DEF Holding
  <2>4. RowsExist' /\ ClaimsNew'
    BY <1>0, <2>1 DEF RowsExist, ClaimsNew, Holding
  <2> QED BY <1>0, <2>2, <2>3, <2>4, StillHeld
<1>9. CASE Tick
  <2>1. \A e \in Events : /\ outbox'[e].status = outbox[e].status
                          /\ outbox'[e].error = outbox[e].error
                          /\ outbox'[e].timer + 1 >= outbox[e].timer
                          /\ outbox'[e].timer \in Nat /\ outbox[e].timer \in Nat
    BY <1>0, <1>9 DEF Tick, OutboxRow
  <2>2. ASSUME NEW w \in Workers
        PROVE  /\ worker'[w].stage = worker[w].stage /\ worker'[w].event = worker[w].event
               /\ worker'[w].shared = worker[w].shared
               /\ Busy(w) => worker'[w].held = AtMost(worker[w].held + 1, Stale)
               /\ ~Busy(w) => worker'[w].held = worker[w].held
    <3>1. worker'[w] = IF Busy(w) THEN [worker[w] EXCEPT !.held = AtMost(worker[w].held + 1, Stale)]
                                  ELSE worker[w]
      BY <1>9 DEF Tick
    <3>2. worker[w] \in Work
      BY <1>0
    <3> QED BY <3>1, <3>2 DEF Work
  <2>3. ClosedOnlyByArchive'
    BY <1>9, <1>c, <2>1 DEF Tick, ClosedOnlyByArchive
  <2>4. ASSUME NEW w \in Workers PROVE Stays(w)
    <3>1. CASE ~Busy(w)
      BY <1>h, <1>s, <2>2, <3>1
    <3>2. CASE Busy(w)
      <4>1. /\ worker'[w].held \in Nat /\ worker[w].held \in 0..Stale /\ Stale \in Nat
            /\ worker'[w].held = worker[w].held + 1 \/ worker'[w].held = Stale
        BY <1>0, <2>2, <3>2, CountsAssumption DEF AtMost, Work
      <4>2. worker'[w].held >= worker[w].held
        BY <4>1
      <4>3. ~worker[w].shared => ClaimKept(outbox'[worker[w].event], worker'[w])
        <5> DEFINE e == worker[w].event
        <5>1. e \in Events
          BY <1>b, <3>2
        <5> HIDE DEF e
        <5>2. outbox[e].timer + worker[w].held >= Stale => outbox'[e].timer + worker'[w].held >= Stale
          BY <2>1, <4>1, <5>1
        <5> QED BY <1>k, <2>1, <3>2, <5>1, <5>2 DEF ClaimKept, e
      <4> QED BY <2>2, <3>2, <4>2, <4>3 DEF Stays
    <3> QED BY <3>1, <3>2
  <2>5. RowsExist'
    BY <1>0, <1>9, <2>1, <2>2, RowsStay DEF Tick
  <2>6. ClaimsNew'
    BY <1>0, <1>n, <2>2
  <2> QED BY <1>0, <2>3, <2>4, <2>5, <2>6, StillHeld
<1>10. CASE UNCHANGED vars
  <2>1. UNCHANGED <<outbox, worker, due, archived>>
    BY <1>10 DEF vars
  <2>2. \A w \in Workers : Stays(w)
    BY <1>h, <1>s, <2>1
  <2>3. RowsExist' /\ ClaimsNew' /\ ClosedOnlyByArchive'
    BY <2>1 DEF OInv, RowsExist, ClaimsNew, ClosedOnlyByArchive
  <2> QED BY <1>0, <2>2, <2>3, StillHeld
<1> QED BY <1>1, <1>2, <1>3, <1>4, <1>5, <1>6, <1>7, <1>8, <1>9, <1>10 DEF Next

LEMMA InitOvertakes == Init => OInv
<1> SUFFICES ASSUME Init PROVE OInv
  OBVIOUS
<1>1. \A w \in Workers : worker[w].stage = "idle" /\ worker[w].held = 0
  BY DEF Init, Resting
<1>2. /\ \A e \in Events : outbox[e].error = "none"
      /\ due = {} /\ "check" \in Workers /\ "maintenance" \in Workers
  BY DEF Init, NoRow, Workers
<1> QED BY <1>1, <1>2, InitTypes
       DEF OInv, HoldsClaim, BothShare, SharedLate, ClaimsNew, RestingIsClean, RowsExist,
           ClosedOnlyByArchive, Busy, Holding

\* However long dispatches take, an event is dispatched twice at the same time
\* only when the pass has taken it over from a check that had been at it for
\* Stale minutes (ClaimOutbox).
THEOREM OvertakenOnlyLate == Spec => []OnlyStaleOvertaken
<1>1. OInv /\ [Next]_vars => OInv'
  BY NextOvertakes
<1> QED BY <1>1, InitOvertakes, OvertakenIsStale, PTL DEF Spec

-----------------------------------------------------------------------------
(* Refinement.                                                             *)

LEMMA RowStates ==
  ASSUME NEW row, row.error = "archived" => row.status = "processed"
  PROVE  /\ row.status = "none" => StateOf(row) = "unknown"
         /\ row.status = "pending" => StateOf(row) = "waiting"
         /\ row.status = "processing" => StateOf(row) = "waiting"
         /\ row.status = "dead_letter" => StateOf(row) = "dead"
         /\ row.status = "processed" /\ row.error # "archived" => StateOf(row) = "delivered"
         /\ row.error = "archived" => StateOf(row) = "dropped"
BY DEF StateOf, OfStatus

\* A kept claim is on an event that waits, or was dropped.
LEMMA KeptStates ==
  ASSUME NEW row, NEW work, ClaimKept(row, work), row.error = "archived" => row.status = "processed"
  PROVE  StateOf(row) \in {"waiting", "dropped"}
BY RowStates DEF ClaimKept

LEMMA FailedStates ==
  ASSUME NEW row \in OutboxRow, NEW n
  PROVE  StateOf(FailedRow(row, n)) \in {"waiting", "dead"}
<1>1. FailedRow(row, n).error = "failed" /\ FailedRow(row, n).status \in {"pending", "dead_letter"}
  BY DEF FailedRow, OutboxRow
<1> QED BY <1>1, RowStates

\* Closing a row drops the event if it was waiting.
LEMMA ClosedStates ==
  ASSUME NEW row \in OutboxRow, row.error = "archived" => row.status = "processed"
  PROVE  StateOf(Closed(row)) = IF StateOf(row) = "waiting" THEN "dropped" ELSE StateOf(row)
<1>1. CASE row.status \in {"pending", "processing"}
  <2>1. Closed(row).error = "archived" /\ Closed(row).status = "processed"
    BY <1>1 DEF Closed, OutboxRow
  <2>2. StateOf(row) = "waiting"
    BY <1>1, RowStates
  <2> QED BY <2>1, <2>2, RowStates
<1>2. CASE row.status \notin {"pending", "processing"}
  <2>1. Closed(row) = row
    BY <1>2 DEF Closed
  <2>2. row.status \in {"none", "processed", "dead_letter"}
    BY <1>2 DEF OutboxRow
  <2>3. StateOf(row) # "waiting"
    BY <2>2, RowStates
  <2> QED BY <2>1, <2>3
<1> QED BY <1>1, <1>2

\* A worker that holds nothing has taken nothing.
LEMMA TakenByResting ==
  ASSUME NEW work, work.stage \notin Holding
  PROVE  TakenBy(work) = Delivery!Nothing
BY DEF TakenBy, Delivery!Nothing

LEMMA SharedTrue ==
  ASSUME NEW r, NEW a, NEW b, NEW c, NEW d,
         r = [event |-> a, ended |-> b, late |-> c, shared |-> d]
  PROVE  [r EXCEPT !.shared = TRUE] = [event |-> a, ended |-> b, late |-> c, shared |-> TRUE]
<1>1. PICK x : x = TRUE
  OBVIOUS
<1>2. [r EXCEPT !.shared = x] = [event |-> a, ended |-> b, late |-> c, shared |-> x]
  BY SMT
<1> QED BY <1>1, <1>2, Zenon

LEMMA StillNotEnded ==
  ASSUME NEW r, NEW a, NEW c, NEW d,
         r = [event |-> a, ended |-> FALSE, late |-> c, shared |-> d]
  PROVE  [r EXCEPT !.ended = FALSE] = r
<1>1. PICK x : x = FALSE
  OBVIOUS
<1>2. r = [event |-> a, ended |-> x, late |-> c, shared |-> d]
  BY <1>1, Zenon
<1>3. [r EXCEPT !.ended = x] = [event |-> a, ended |-> x, late |-> c, shared |-> d]
  BY <1>2, SMT
<1>4. [r EXCEPT !.ended = x] = r
  BY <1>2, <1>3, Zenon
<1> QED BY <1>1, <1>4, Zenon

LEMMA LateTrue ==
  ASSUME NEW r, NEW a, NEW b, NEW c, NEW d,
         r = [event |-> a, ended |-> b, late |-> c, shared |-> d]
  PROVE  [r EXCEPT !.late = TRUE] = [event |-> a, ended |-> b, late |-> TRUE, shared |-> d]
<1>1. PICK x : x = TRUE
  OBVIOUS
<1>2. [r EXCEPT !.late = x] = [event |-> a, ended |-> b, late |-> x, shared |-> d]
  BY SMT
<1> QED BY <1>1, <1>2, Zenon

LEMMA TakenByHolder ==
  ASSUME NEW work, work.stage \in Holding
  PROVE  TakenBy(work) = [event |-> work.event, ended |-> work.stage = "done",
                          late |-> work.held = Stale, shared |-> work.shared]
BY DEF TakenBy

\* Steps that leave the states of the events and the holders alone.
LEMMA SameDelivery ==
  ASSUME \A e \in Events : StateOf(outbox'[e]) = StateOf(outbox[e]),
         \A w \in Workers : TakenBy(worker'[w]) = TakenBy(worker[w]), UNCHANGED archived
  PROVE  UNCHANGED Delivery!vars
BY DEF Delivery!vars

\* One event takes another state.
LEMMA OneBecomes ==
  ASSUME NEW e \in Events, NEW to, StateOf(outbox'[e]) = to,
         \A d \in Events : d # e => outbox'[d] = outbox[d]
  PROVE  Delivery!Becomes(e, to)
BY DEF Delivery!Becomes

LEMMA LeavesOff ==
  ASSUME TypeOK, NEW w \in Workers, Busy(w), worker' = [worker EXCEPT ![w] = After(w)],
         UNCHANGED archived
  PROVE  Delivery!LeaveOff(w)
<1>1. worker \in [Workers -> Work] /\ worker[w].event # 0
  BY DEF TypeOK, Busy
<1>2. worker'[w] = After(w) /\ \A v \in Workers \ {w} : worker'[v] = worker[v]
  BY <1>1
<1>3. TakenBy(worker'[w]) = Delivery!Nothing
  <2>1. After(w).stage \notin Holding
    BY DEF After, Resting, Holding
  <2> QED BY <1>2, <2>1, TakenByResting
<1>4. TakenBy(worker[w]).event # 0
  BY <1>1, TakenByHolder DEF Busy
<1> DEFINE tk(v) == TakenBy(worker[v])
           next(v) == TakenBy(worker'[v])
<1>5. next(w) = Delivery!Nothing /\ \A v \in Workers \ {w} : next(v) = tk(v)
  BY <1>2, <1>3
<1> HIDE DEF tk, next
<1>6. [v \in Workers |-> next(v)] = [[v \in Workers |-> tk(v)] EXCEPT ![w] = Delivery!Nothing]
  BY <1>5
<1>7. [v \in Workers |-> TakenBy(worker'[v])]
        = [[v \in Workers |-> TakenBy(worker[v])] EXCEPT ![w] = Delivery!Nothing]
  BY <1>6 DEF tk, next
<1>8. [v \in Workers |-> TakenBy(worker[v])][w].event # 0
  BY <1>4
<1> QED BY <1>7, <1>8 DEF Delivery!LeaveOff

LEMMA Implements ==
  ASSUME OInv, OInv', [Next]_vars
  PROVE  [Delivery!Next]_(Delivery!vars)
<1>0. /\ outbox \in [Events -> OutboxRow] /\ worker \in [Workers -> Work] /\ TypeOK
  BY DEF OInv, TypeOK
<1>c. /\ \A e \in Events : outbox[e].error = "archived" => outbox[e].status = "processed"
      /\ \A e \in Events : outbox'[e].error = "archived" => outbox'[e].status = "processed"
  BY DEF OInv, ClosedOnlyByArchive
\* Steps that leave rows and busy workers alone.
<1>u. ASSUME UNCHANGED <<outbox, archived>>,
             \A w \in Workers : \/ worker'[w] = worker[w]
                              \/ (worker[w].stage \notin Holding /\ worker'[w].stage \notin Holding)
      PROVE  UNCHANGED Delivery!vars
  <2>1. \A w \in Workers : TakenBy(worker'[w]) = TakenBy(worker[w])
    BY <1>u, TakenByResting
  <2> QED BY <1>u, <2>1, SameDelivery
<1>1. CASE StartCheck \/ EndCheck \/ ListDueOutbox \/ NextListed
  <2>1. UNCHANGED <<outbox, archived>>
    BY <1>1 DEF StartCheck, EndCheck, ListDueOutbox, NextListed
  <2>r. ASSUME NEW stage PROVE Resting(stage).stage = stage
    BY DEF Resting
  <2>2. \A w \in Workers : \/ worker'[w] = worker[w]
                          \/ (worker[w].stage \notin Holding /\ worker'[w].stage \notin Holding)
    <3>1. CASE StartCheck \/ EndCheck
      BY <1>0, <2>r, <3>1 DEF StartCheck, EndCheck, Holding, Workers
    <3>2. CASE ListDueOutbox
      BY <3>2 DEF ListDueOutbox
    <3>3. CASE NextListed
      <4>1. PICK item \in due : worker' = [worker EXCEPT !["maintenance"] =
                   [stage |-> "claim", event |-> item[1], attempts |-> item[2],
                held |-> 0, shared |-> FALSE]]
        BY <3>3 DEF NextListed
      <4>2. worker["maintenance"].stage = "idle" /\ worker'["maintenance"].stage = "claim"
        BY <1>0, <3>3, <4>1 DEF NextListed, Workers
      <4> QED BY <1>0, <4>1, <4>2 DEF Holding, Workers
    <3> QED BY <1>1, <3>1, <3>2, <3>3
  <2> QED BY <1>u, <2>1, <2>2
<1>2. CASE CreateEvent
  <2>1. PICK e \in Events :
          /\ outbox[e].status = "none"
          /\ outbox' = [outbox EXCEPT ![e].status = "pending"]
          /\ \/ worker' = [worker EXCEPT !["check"].stage = "claim", !["check"].event = e]
             \/ UNCHANGED worker
    BY <1>2 DEF CreateEvent
  <2>2. worker["check"].stage = "checking" /\ UNCHANGED archived
    BY <1>2 DEF CreateEvent
  <2>3. \A w \in Workers : \/ worker'[w] = worker[w]
                          \/ (worker[w].stage \notin Holding /\ worker'[w].stage \notin Holding)
    BY <1>0, <2>1, <2>2 DEF Holding, Workers, Work
  <2>4. \A w \in Workers : TakenBy(worker'[w]) = TakenBy(worker[w])
    BY <2>3, TakenByResting
  <2>6. /\ outbox'[e].status = "pending"
        /\ \A d \in Events : d # e => outbox'[d] = outbox[d]
    BY <1>0, <2>1 DEF OutboxRow
  <2>7. StateOf(outbox[e]) = "unknown" /\ StateOf(outbox'[e]) = "waiting"
    BY <1>c, <2>1, <2>6, RowStates
  <2>8. Delivery!Becomes(e, "waiting")
    BY <2>6, <2>7, OneBecomes
  <2>9. Delivery!Discover(e)
    BY <2>2, <2>4, <2>7, <2>8 DEF Delivery!Discover
  <2> QED BY <2>9 DEF Delivery!Next
<1>3. ASSUME NEW w \in Workers, ProcessOutboxEvent(w)
      PROVE  [Delivery!Next]_(Delivery!vars)
  <2>e. PICK e \in Events : e = worker[w].event /\ outbox[e] \in OutboxRow
    BY <1>0, <1>3, BusyEvent DEF ProcessOutboxEvent, ClaimOutbox, NotClaimed, Lookup,
       DispatchEvent, MarkOutboxProcessed, MarkOutboxFailed, Holding
  <2>a. After(w).stage \notin Holding
    BY DEF After, Resting, Holding
  <2>t. e # 0 /\ Stale # 0
    BY <2>e, CountsAssumption DEF Events
  \* The outcome of a dispatch is written, or not.
  <2>f. ASSUME Busy(w), worker' = [worker EXCEPT ![w] = After(w)], UNCHANGED archived
        PROVE  /\ Delivery!LeaveOff(w)
               /\ Delivery!MayWrite(w)
               /\ TakenBy(worker[w]).event = e
               /\ TakenBy(worker[w]).ended = (worker[w].stage = "done")
    <3>1. Delivery!LeaveOff(w)
      BY <1>0, <2>f, LeavesOff
    <3>2. /\ TakenBy(worker[w]).event = e /\ TakenBy(worker[w]).shared = worker[w].shared
          /\ TakenBy(worker[w]).ended = (worker[w].stage = "done")
      BY <2>e, <2>f, TakenByHolder DEF Busy
    <3>5. [v \in Workers |-> TakenBy(worker[v])][w] = TakenBy(worker[w])
      OBVIOUS
    <3>3. ASSUME worker[w].shared PROVE Delivery!MayWrite(w)
      BY <3>2, <3>3, <3>5 DEF Delivery!MayWrite
    <3>4. ASSUME ~worker[w].shared PROVE Delivery!MayWrite(w)
      <4>1. ClaimKept(outbox[e], worker[w])
        BY <2>e, <2>f, <3>4 DEF OInv, HoldsClaim
      <4>2. StateOf(outbox[e]) \in {"waiting", "dropped"}
        BY <1>c, <2>e, <4>1, KeptStates
      <4>3. [d \in Events |-> StateOf(outbox[d])][e] = StateOf(outbox[e])
        OBVIOUS
      <4>4. [v \in Workers |-> TakenBy(worker[v])][w].event = e
        BY <3>2, <3>5
      <4> QED BY <4>2, <4>3, <4>4 DEF Delivery!MayWrite
    <3> QED BY <3>1, <3>2, <3>3, <3>4
  <2>g. ASSUME Busy(w), worker' = [worker EXCEPT ![w] = After(w)], UNCHANGED <<outbox, archived>>
        PROVE  Delivery!Next
    <3>1. Delivery!Forget(w)
      BY <2>f, <2>g DEF Delivery!Forget
    <3> QED BY <3>1 DEF Delivery!Next
  \* A worker goes on with its event.
  <2>h. ASSUME Busy(w), NEW stage \in Holding, worker' = [worker EXCEPT ![w].stage = stage],
               UNCHANGED <<outbox, archived>>
        PROVE  /\ worker'[w] = [worker[w] EXCEPT !.stage = stage]
               /\ \A v \in Workers \ {w} : TakenBy(worker'[v]) = TakenBy(worker[v])
               /\ TakenBy(worker'[w]) = [TakenBy(worker[w]) EXCEPT !.ended = (stage = "done")]
    <3>1. /\ worker'[w] = [worker[w] EXCEPT !.stage = stage]
          /\ \A v \in Workers \ {w} : worker'[v] = worker[v]
      BY <1>0, <2>h
    <3>2. /\ worker'[w].stage = stage /\ worker'[w].event = worker[w].event
          /\ worker'[w].held = worker[w].held /\ worker'[w].shared = worker[w].shared
      BY <1>0, <3>1 DEF Work
    <3>3. TakenBy(worker'[w]) = [event |-> worker[w].event, ended |-> stage = "done",
                                 late |-> worker[w].held = Stale, shared |-> worker[w].shared]
      BY <2>h, <3>2, TakenByHolder
    <3>4. TakenBy(worker[w]) = [event |-> worker[w].event, ended |-> worker[w].stage = "done",
                                late |-> worker[w].held = Stale, shared |-> worker[w].shared]
      BY <2>h, TakenByHolder DEF Busy
    <3> QED BY <3>1, <3>3, <3>4
  <2>1. CASE ClaimOutbox(w)
    <3> DEFINE others == {v \in Workers \ {w} : TakenBy(worker[v]).event = e}
    <3>0. /\ worker[w].stage = "claim" /\ Hold(w, e) /\ UNCHANGED archived
          /\ outbox[e].status \in {"pending", "processing"}
          /\ outbox'[e].status = "processing" /\ outbox'[e].error = outbox[e].error
          /\ \A d \in Events : d # e => outbox'[d] = outbox[d]
      BY <1>0, <2>1, <2>e DEF ClaimOutbox, Claimable, ClaimableDue, OutboxRow
    <3>1. \A d \in Events : StateOf(outbox'[d]) = StateOf(outbox[d])
      BY <1>c, <3>0, RowStates
    <3>2. StateOf(outbox[e]) = "waiting" /\ TakenBy(worker[w]) = Delivery!Nothing
      BY <1>c, <2>e, <3>0, RowStates, TakenByResting DEF Holding
    <3>3. others = Others(w, e)
      <4>1. \A v \in Workers : ~Busy(v) => TakenBy(worker[v]).event # e
        BY <2>t, TakenByResting DEF Busy, Delivery!Nothing
      <4>2. \A v \in Workers : Busy(v) => TakenBy(worker[v]).event = worker[v].event
        BY TakenByHolder DEF Busy
      <4> QED BY <4>1, <4>2 DEF Others
    <3>4. \A v \in others : /\ Busy(v) /\ TakenBy(worker[v]).late
                            /\ TakenBy(worker'[v]) = [TakenBy(worker[v]) EXCEPT !.shared = TRUE]
      <4> SUFFICES ASSUME NEW v \in others
                   PROVE  /\ Busy(v) /\ TakenBy(worker[v]).late
                          /\ TakenBy(worker'[v]) = [TakenBy(worker[v]) EXCEPT !.shared = TRUE]
        OBVIOUS
      <4>1. v \in Workers \ {w} /\ v \in Others(w, e) /\ Busy(v)
        BY <3>3 DEF Others
      <4>2. worker[v].held = Stale
        BY <2>1, <2>e, <4>1, ClaimTakesOver
      <4>3. worker'[v] = [worker[v] EXCEPT !.shared = TRUE]
        BY <1>0, <3>0, <4>1, HoldOthers
      <4>4. /\ worker'[v].stage = worker[v].stage /\ worker'[v].event = worker[v].event
            /\ worker'[v].held = worker[v].held /\ worker'[v].shared = TRUE
        BY <1>0, <4>1, <4>3 DEF Work
      <4> DEFINE ended == worker[v].stage = "done"
                 late == worker[v].held = Stale
                 shared == worker[v].shared
      <4>5. TakenBy(worker'[v]) = [event |-> worker[v].event, ended |-> ended,
                                   late |-> late, shared |-> TRUE]
        BY <4>1, <4>4, TakenByHolder DEF Busy
      <4>6. TakenBy(worker[v]) = [event |-> worker[v].event, ended |-> ended,
                                  late |-> late, shared |-> shared]
        BY <4>1, TakenByHolder DEF Busy
      <4>7. late
        BY <4>2
      <4> HIDE DEF ended, late, shared
      <4>8. TakenBy(worker'[v]) = [TakenBy(worker[v]) EXCEPT !.shared = TRUE]
        <5>1. [TakenBy(worker[v]) EXCEPT !.shared = TRUE]
                = [event |-> worker[v].event, ended |-> ended, late |-> late, shared |-> TRUE]
          BY <4>6, SharedTrue, Zenon
        <5> QED BY <4>5, <5>1, Zenon
      <4>9. TakenBy(worker[v]).late
        BY <4>6, <4>7
      <4> QED BY <4>1, <4>8, <4>9
    <3>5. TakenBy(worker'[w]) = [event |-> e, ended |-> FALSE, late |-> FALSE, shared |-> others # {}]
      <4>1. worker[w].held = 0
        BY <3>0 DEF OInv, RestingIsClean, Busy, Holding
      <4>2. /\ worker'[w].stage = "lookup" /\ worker'[w].event = e /\ worker'[w].held = 0
            /\ worker'[w].shared = (others # {})
        <5>1. /\ worker'[w].stage = "lookup" /\ worker'[w].event = e /\ worker'[w].held = 0
              /\ worker'[w].shared = (Others(w, e) # {})
          BY <1>0, <2>e, <3>0, <4>1, HoldRows, Zenon
        <5> QED BY <3>3, <5>1, Zenon
      <4>3. worker'[w].stage \in Holding
        BY <4>2 DEF Holding
      <4>4. TakenBy(worker'[w]) = [event |-> worker'[w].event, ended |-> worker'[w].stage = "done",
                                   late |-> worker'[w].held = Stale, shared |-> worker'[w].shared]
        BY <4>3, TakenByHolder
      <4>5. (worker'[w].stage = "done") = FALSE /\ (worker'[w].held = Stale) = FALSE
        BY <2>t, <4>2
      <4> QED BY <4>2, <4>4, <4>5
    <3>6. \A v \in Workers \ {w} : v \notin others => TakenBy(worker'[v]) = TakenBy(worker[v])
      <4>1. \A v \in Workers \ {w} : v \notin Others(w, e) => worker'[v] = worker[v]
        <5>1. Hold(w, e)
          BY <3>0
        <5> QED BY <1>0, <5>1, HoldOthers
      <4> HIDE DEF others
      <4> QED BY <3>3, <4>1
    <3> DEFINE tk == [v \in Workers |-> TakenBy(worker[v])]
    <3>7. others = {v \in Workers \ {w} : tk[v].event = e}
      OBVIOUS
    <3> HIDE DEF others
    <3>8. [v \in Workers |-> TakenBy(worker'[v])] =
            [v \in Workers |-> IF v = w THEN [event |-> e, ended |-> FALSE, late |-> FALSE, shared |-> others # {}]
                               ELSE IF v \in others THEN [tk[v] EXCEPT !.shared = TRUE]
                               ELSE tk[v]]
      <4> QED BY <3>4, <3>5, <3>6
    <3>9. \A v \in others : tk[v].late
      BY <3>4, <3>7
    <3>10. [d \in Events |-> StateOf(outbox'[d])] = [d \in Events |-> StateOf(outbox[d])]
      BY <3>1
    <3>11. Delivery!Take(w, e)
      BY <2>e, <3>0, <3>2, <3>7, <3>8, <3>9, <3>10 DEF Delivery!Take
    <3> QED BY <2>e, <3>11 DEF Delivery!Next
  <2>2. CASE NotClaimed(w)
    <3>1. /\ worker[w].stage \notin Holding /\ worker'[w].stage \notin Holding /\ UNCHANGED <<outbox, archived>>
          /\ \A v \in Workers \ {w} : worker'[v] = worker[v]
      BY <1>0, <2>2, <2>a DEF NotClaimed, Holding
    <3> QED BY <1>u, <3>1
  <2>3. CASE Lookup(w)
    <3>1. PICK stage \in {"dispatch", "failed"} : worker' = [worker EXCEPT ![w].stage = stage]
      BY <2>3 DEF Lookup
    <3>2. Busy(w) /\ stage \in Holding /\ worker[w].stage # "done" /\ UNCHANGED <<outbox, archived>>
      BY <2>3 DEF Lookup, Busy, Holding
    <3>3. TakenBy(worker'[w]) = TakenBy(worker[w])
      <4> DEFINE late == worker[w].held = Stale
                 shared == worker[w].shared
      <4>1. TakenBy(worker[w]) = [event |-> worker[w].event, ended |-> FALSE,
                                  late |-> late, shared |-> shared]
        BY <3>2, TakenByHolder DEF Busy
      <4>2. TakenBy(worker'[w]) = [TakenBy(worker[w]) EXCEPT !.ended = FALSE]
        BY <2>h, <3>1, <3>2
      <4> HIDE DEF late, shared
      <4>3. [TakenBy(worker[w]) EXCEPT !.ended = FALSE]
              = TakenBy(worker[w])
        BY <4>1, StillNotEnded, Zenon
      <4> QED BY <4>1, <4>2, <4>3, Zenon
    <3>4. \A v \in Workers : TakenBy(worker'[v]) = TakenBy(worker[v])
      BY <2>h, <3>1, <3>2, <3>3
    <3> QED BY <3>2, <3>4, SameDelivery
  <2>4. CASE DispatchEvent(w)
    <3>1. PICK stage \in {"done", "failed"} : worker' = [worker EXCEPT ![w].stage = stage]
      BY <2>4 DEF DispatchEvent
    <3>2. Busy(w) /\ stage \in Holding /\ worker[w].stage # "done" /\ UNCHANGED <<outbox, archived>>
      BY <2>4 DEF DispatchEvent, Busy, Holding
    <3>3. TakenBy(worker[w]) = [event |-> worker[w].event, ended |-> FALSE,
                                late |-> worker[w].held = Stale, shared |-> worker[w].shared]
      BY <3>2, TakenByHolder DEF Busy
    <3>4. /\ \A v \in Workers \ {w} : TakenBy(worker'[v]) = TakenBy(worker[v])
          /\ TakenBy(worker'[w]) = [TakenBy(worker[w]) EXCEPT !.ended = (stage = "done")]
      BY <2>h, <3>1, <3>2
    <3>5. CASE stage = "failed"
      <4>1. TakenBy(worker'[w]) = TakenBy(worker[w])
        <5> DEFINE late == worker[w].held = Stale
                   shared == worker[w].shared
        <5>1. TakenBy(worker'[w]) = [TakenBy(worker[w]) EXCEPT !.ended = FALSE]
          BY <3>4, <3>5
        <5>2. TakenBy(worker[w]) = [event |-> worker[w].event, ended |-> FALSE,
                                    late |-> late, shared |-> shared]
          BY <3>3
        <5> HIDE DEF late, shared
        <5>3. [TakenBy(worker[w]) EXCEPT !.ended = FALSE]
                = TakenBy(worker[w])
          BY <5>2, StillNotEnded, Zenon
        <5> QED BY <5>1, <5>2, <5>3, Zenon
      <4>2. \A v \in Workers : TakenBy(worker'[v]) = TakenBy(worker[v])
        BY <3>4, <4>1
      <4> QED BY <3>2, <4>2, SameDelivery
    <3>6. CASE stage = "done"
      <4>1. TakenBy(worker'[w]) = [TakenBy(worker[w]) EXCEPT !.ended = TRUE]
        BY <3>4, <3>6
      <4>2. TakenBy(worker[w]).event # 0
        BY <2>e, <2>t, <3>3
      <4>3. Delivery!Dispatch(w)
        BY <3>2, <3>4, <4>1, <4>2 DEF Delivery!Dispatch
      <4> QED BY <4>3 DEF Delivery!Next
    <3> QED BY <3>5, <3>6
  <2>5. CASE MarkOutboxProcessed(w)
    <3>1. /\ Busy(w) /\ worker[w].stage = "done" /\ worker' = [worker EXCEPT ![w] = After(w)]
          /\ UNCHANGED archived
      BY <2>5 DEF MarkOutboxProcessed, Busy, Holding
    <3>2. CASE UNCHANGED outbox
      BY <2>g, <3>1, <3>2
    <3>3. CASE ~UNCHANGED outbox
      <4>1. /\ outbox'[e].status = "processed" /\ outbox'[e].error = "none"
            /\ \A d \in Events : d # e => outbox'[d] = outbox[d]
        BY <1>0, <2>5, <2>e, <3>3 DEF MarkOutboxProcessed, OutboxRow
      <4>2. Delivery!Becomes(e, "delivered")
        BY <1>c, <2>e, <4>1, RowStates, OneBecomes
      <4>3. Delivery!Deliver(w)
        BY <2>f, <3>1, <4>2 DEF Delivery!Deliver
      <4> QED BY <4>3 DEF Delivery!Next
    <3> QED BY <3>2, <3>3
  <2>6. CASE MarkOutboxFailed(w)
    <3>1. /\ Busy(w) /\ worker[w].stage = "failed" /\ worker' = [worker EXCEPT ![w] = After(w)]
          /\ UNCHANGED archived
      BY <2>6 DEF MarkOutboxFailed, Busy, Holding
    <3>2. CASE UNCHANGED outbox
      BY <2>g, <3>1, <3>2
    <3>3. CASE ~UNCHANGED outbox
      <4>1. /\ outbox'[e] = FailedRow(outbox[e], worker[w].attempts + 1)
            /\ \A d \in Events : d # e => outbox'[d] = outbox[d]
        BY <1>0, <2>6, <2>e, <3>3 DEF MarkOutboxFailed
      <4>2. PICK to \in {"waiting", "dead"} : StateOf(outbox'[e]) = to
        BY <2>e, <4>1, FailedStates
      <4>3. Delivery!Becomes(e, to)
        BY <2>e, <4>1, <4>2, OneBecomes
      <4>4. Delivery!Fail(w)
        BY <2>f, <3>1, <4>3 DEF Delivery!Fail
      <4> QED BY <4>4 DEF Delivery!Next
    <3> QED BY <3>2, <3>3
  <2> QED BY <1>3, <2>1, <2>2, <2>3, <2>4, <2>5, <2>6 DEF ProcessOutboxEvent
<1>4. ASSUME NEW e \in Events, RequeueDeadLetter(e) PROVE Delivery!Next
  <2>1. /\ outbox[e].status = "dead_letter" /\ outbox'[e].status = "pending"
        /\ \A d \in Events : d # e => outbox'[d] = outbox[d]
        /\ UNCHANGED <<worker, archived>> /\ ~archived
    BY <1>0, <1>4 DEF RequeueDeadLetter, NoRow
  <2>2. StateOf(outbox[e]) = "dead" /\ StateOf(outbox'[e]) = "waiting"
    BY <1>c, <2>1, RowStates
  <2>3. Delivery!Becomes(e, "waiting")
    BY <2>1, <2>2, OneBecomes
  <2>4. Delivery!Revive(e)
    BY <2>1, <2>2, <2>3 DEF Delivery!Revive
  <2> QED BY <2>4 DEF Delivery!Next
<1>d. ASSUME \A e \in Events : outbox'[e] = Closed(outbox[e])
      PROVE  [e \in Events |-> StateOf(outbox'[e])] = Delivery!Dropped
  <2>1. \A e \in Events : StateOf(outbox'[e]) =
          IF StateOf(outbox[e]) = "waiting" THEN "dropped" ELSE StateOf(outbox[e])
    BY <1>0, <1>c, <1>d, ClosedStates
  <2> QED BY <2>1 DEF Delivery!Dropped
<1>5. CASE ArchiveMonitor
  <2>1. /\ \A e \in Events : outbox'[e] = Closed(outbox[e])
        /\ UNCHANGED worker /\ ~archived /\ archived' = TRUE
    BY <1>0, <1>5 DEF ArchiveMonitor
  <2>2. Delivery!Archive
    BY <1>d, <2>1 DEF Delivery!Archive
  <2> QED BY <2>2 DEF Delivery!Next
<1>6. CASE Restart
  <2>1. /\ \A e \in Events : outbox'[e] = IF archived THEN Closed(outbox[e]) ELSE outbox[e]
        /\ \A w \in Workers : worker'[w].stage = "idle"
        /\ UNCHANGED archived
    BY <1>0, <1>6 DEF Restart, Resting
  <2>2. \A w \in Workers : TakenBy(worker'[w]) = Delivery!Nothing
    BY <2>1, TakenByResting DEF Holding
  <2>3. [e \in Events |-> StateOf(outbox'[e])] =
          IF archived THEN Delivery!Dropped ELSE [e \in Events |-> StateOf(outbox[e])]
    BY <1>d, <2>1
  <2>4. Delivery!Crash
    BY <2>1, <2>2, <2>3 DEF Delivery!Crash
  <2> QED BY <2>4 DEF Delivery!Next
<1>7. CASE Tick
  <2>1. \A e \in Events : StateOf(outbox'[e]) = StateOf(outbox[e])
    <3>1. \A e \in Events : outbox'[e].status = outbox[e].status /\ outbox'[e].error = outbox[e].error
      BY <1>0, <1>7 DEF Tick, OutboxRow
    <3> QED BY <3>1 DEF StateOf
  <2> DEFINE late == {w \in Workers : worker'[w].held = Stale}
  <2>2. ASSUME NEW w \in Workers
        PROVE  TakenBy(worker'[w]) = IF w \in late /\ TakenBy(worker[w]).event # 0
                                     THEN [TakenBy(worker[w]) EXCEPT !.late = TRUE]
                                     ELSE TakenBy(worker[w])
    <3>1. CASE ~Busy(w)
      <4>1. worker'[w] = worker[w]
        BY <1>7, <3>1 DEF Tick
      <4>2. TakenBy(worker[w]).event = 0
        BY <3>1, TakenByResting DEF Busy, Delivery!Nothing
      <4> QED BY <4>1, <4>2
    <3>2. CASE Busy(w)
      <4>1. worker'[w] = [worker[w] EXCEPT !.held = AtMost(worker[w].held + 1, Stale)]
        BY <1>7, <3>2 DEF Tick
      <4>2. /\ worker'[w].stage = worker[w].stage /\ worker'[w].event = worker[w].event
            /\ worker'[w].shared = worker[w].shared
            /\ worker'[w].held = AtMost(worker[w].held + 1, Stale)
            /\ worker[w].held \in 0..Stale
        BY <1>0, <4>1 DEF Work
      <4>3. worker[w].held = Stale => worker'[w].held = Stale
        BY <4>2, CountsAssumption DEF AtMost
      <4>4. TakenBy(worker'[w]) = [event |-> worker[w].event, ended |-> worker[w].stage = "done",
                                   late |-> worker'[w].held = Stale, shared |-> worker[w].shared]
        BY <3>2, <4>2, TakenByHolder DEF Busy
      <4>5. TakenBy(worker[w]) = [event |-> worker[w].event, ended |-> worker[w].stage = "done",
                                  late |-> worker[w].held = Stale, shared |-> worker[w].shared]
        BY <3>2, TakenByHolder DEF Busy
      <4>6. worker[w].event # 0
        BY <1>0, <3>2 DEF TypeOK, Busy
      <4>7. CASE worker'[w].held = Stale
        <5>1. (worker'[w].held = Stale) = TRUE
          BY <4>7
        <5> DEFINE ended == worker[w].stage = "done"
                   before == worker[w].held = Stale
                   shared == worker[w].shared
        <5>2. TakenBy(worker'[w]) = [event |-> worker[w].event, ended |-> ended,
                                     late |-> TRUE, shared |-> shared]
          BY <4>4, <5>1
        <5>3. TakenBy(worker[w]) = [event |-> worker[w].event, ended |-> ended,
                                    late |-> before, shared |-> shared]
          BY <4>5
        <5> HIDE DEF ended, before, shared
        <5>4. [TakenBy(worker[w]) EXCEPT !.late = TRUE]
                = [event |-> worker[w].event, ended |-> ended, late |-> TRUE, shared |-> shared]
          <6>1. PICK r, event :
                  /\ r = TakenBy(worker[w]) /\ event = worker[w].event
                  /\ r = [event |-> event, ended |-> ended, late |-> before, shared |-> shared]
            BY <5>3
          <6>2. [r EXCEPT !.late = TRUE]
                  = [event |-> event, ended |-> ended, late |-> TRUE, shared |-> shared]
            BY <6>1, LateTrue
          <6> QED BY <6>1, <6>2, Zenon
        <5>5. TakenBy(worker'[w]) = [TakenBy(worker[w]) EXCEPT !.late = TRUE]
          BY <5>2, <5>4, Zenon
        <5>6. TakenBy(worker[w]).event # 0
          BY <4>6, <5>3
        <5> QED BY <4>7, <5>5, <5>6
      <4>8. CASE worker'[w].held # Stale
        <5>1. (worker'[w].held = Stale) = (worker[w].held = Stale)
          BY <4>3, <4>8
        <5> QED BY <4>4, <4>5, <4>8, <5>1
      <4> QED BY <4>7, <4>8
    <3> QED BY <3>1, <3>2
  <2>3. late \in SUBSET Workers /\ UNCHANGED archived
    BY <1>7 DEF Tick
  <2> HIDE DEF late
  <2>4. Delivery!Linger
    BY <2>1, <2>2, <2>3 DEF Delivery!Linger
  <2> QED BY <2>4 DEF Delivery!Next
<1>8. CASE UNCHANGED vars
  BY <1>8, <1>u DEF vars
<1> QED BY <1>1, <1>2, <1>3, <1>4, <1>5, <1>6, <1>7, <1>8 DEF Next

LEMMA InitStates == Init => Delivery!Init
<1> SUFFICES ASSUME Init PROVE Delivery!Init
  OBVIOUS
<1>1. /\ \A e \in Events : outbox[e].status = "none" /\ outbox[e].error = "none"
      /\ \A w \in Workers : worker[w].stage \notin Holding
  BY DEF Init, Resting, Holding, NoRow
<1>2. \A e \in Events : StateOf(outbox[e]) = "unknown"
  BY <1>1, RowStates
<1>3. \A w \in Workers : TakenBy(worker[w]) = Delivery!Nothing
  BY <1>1, TakenByResting
<1> QED BY <1>2, <1>3 DEF Init, Delivery!Init

\* The outbox implements EventDelivery, however long dispatches take: no event
\* is lost or delivered without a dispatch that ended well, and what was written
\* of an event is written over only when two have been at it.
THEOREM OutboxDelivers == Spec => DeliverySpec
<1>1. OInv /\ [Next]_vars => OInv'
  BY NextOvertakes
<1>2. OInv /\ OInv' /\ [Next]_vars => [Delivery!Next]_(Delivery!vars)
  BY Implements
<1> QED BY <1>1, <1>2, InitOvertakes, InitStates, PTL DEF Spec, DeliverySpec, Delivery!Spec

-----------------------------------------------------------------------------
(* A dead letter has had all its attempts.  The maintenance pass counts from    *)
(* the attempts it listed; that snapshot never runs ahead of the column, for    *)
(* only the pass gives events up, one at a time, and only what it has given up  *)
(* can be requeued, which sets the column back.                                 *)

ListedInv ==
  /\ \A item \in due : /\ outbox[item[1]].status # "dead_letter"
                       /\ item[2] <= outbox[item[1]].attempts
  /\ \A item, other \in due : item[1] = other[1] => item = other

PassInv ==
  LET m == worker["maintenance"]  e == m.event IN
  /\ m.stage \in {"claim"} \cup Holding =>
       /\ outbox[e].status # "dead_letter"
       /\ \A item \in due : item[1] # e
  /\ m.stage = "claim" => m.attempts <= outbox[e].attempts
  /\ m.stage \in Holding =>
       m.attempts < outbox[e].attempts \/ outbox[e].attempts = MaxAttempts

CountInv == ListedInv /\ PassInv /\ worker["check"].attempts = 0

\* A step that lets no event go that is listed or with the pass.
LEMMA StillCounts ==
  ASSUME TypeOK, CountInv, TypeOK', due' \subseteq due,
         worker'["check"].attempts = 0,
         \/ worker'["maintenance"].stage \notin {"claim"} \cup Holding
         \/ /\ worker'["maintenance"].stage = worker["maintenance"].stage
            /\ worker'["maintenance"].event = worker["maintenance"].event
            /\ worker'["maintenance"].attempts = worker["maintenance"].attempts,
         \A e \in Events : outbox[e].status # "dead_letter" =>
            /\ outbox'[e].status # "dead_letter"
            /\ outbox[e].attempts <= outbox'[e].attempts
  PROVE  CountInv'
<1>0. /\ \A e \in Events : /\ outbox[e].attempts \in Nat /\ outbox'[e].attempts \in Nat
                           /\ outbox'[e].attempts <= MaxAttempts
      /\ \A item \in due : item[1] \in Events /\ item[2] \in Nat
      /\ worker["maintenance"].attempts \in Nat
  BY CountsAssumption DEF TypeOK, OutboxRow, Work, Workers
<1>1. ListedInv'
  BY <1>0 DEF CountInv, ListedInv
<1>2. PassInv'
  <2>1. CASE worker'["maintenance"].stage \notin {"claim"} \cup Holding
    BY <2>1 DEF PassInv, Holding
  <2>2. CASE worker'["maintenance"].stage \in {"claim"} \cup Holding
    <3>1. PICK e \in Events : e = worker["maintenance"].event /\ e = worker'["maintenance"].event
      BY <2>2, BusyEvent DEF Workers
    <3>2. /\ outbox[e].status # "dead_letter" /\ \A item \in due : item[1] # e
          /\ outbox'[e].status # "dead_letter" /\ outbox[e].attempts <= outbox'[e].attempts
      BY <2>2, <3>1 DEF CountInv, PassInv
    <3>3. worker'["maintenance"].stage = "claim" =>
            worker'["maintenance"].attempts <= outbox'[e].attempts
      BY <1>0, <2>2, <3>1, <3>2 DEF CountInv, PassInv
    <3>4. worker'["maintenance"].stage \in Holding =>
            worker'["maintenance"].attempts < outbox'[e].attempts \/ outbox'[e].attempts = MaxAttempts
      BY <1>0, <2>2, <3>1, <3>2, CountsAssumption DEF CountInv, PassInv
    <3> QED BY <3>1, <3>2, <3>3, <3>4 DEF PassInv
  <2> QED BY <2>1, <2>2
<1> QED BY <1>1, <1>2 DEF CountInv

\* The row a failure leaves, by the attempts its holder believes it has had.
LEMMA FailedRowCounts ==
  ASSUME NEW row \in OutboxRow, NEW n \in Nat
  PROVE  /\ n < MaxAttempts => /\ FailedRow(row, n).status = "pending"
                               /\ FailedRow(row, n).attempts = row.attempts
         /\ row.attempts <= FailedRow(row, n).attempts
         /\ FailedRow(row, n).status = "dead_letter" => n >= MaxAttempts
<1>1. CASE n >= MaxAttempts
  <2>1. FailedRow(row, n).attempts = MaxAttempts
    BY <1>1 DEF FailedRow, OutboxRow
  <2>2. row.attempts <= MaxAttempts /\ ~(n < MaxAttempts)
    BY <1>1, CountsAssumption DEF OutboxRow
  <2> QED BY <1>1, <2>1, <2>2
<1>2. CASE ~(n >= MaxAttempts)
  <2>1. FailedRow(row, n).attempts = row.attempts /\ FailedRow(row, n).status = "pending"
    BY <1>2 DEF FailedRow, OutboxRow
  <2>2. row.attempts <= row.attempts
    BY CountsAssumption DEF OutboxRow
  <2> QED BY <1>2, <2>1, <2>2
<1> QED BY <1>1, <1>2

\* What every step does to the rows: a row leaves "dead_letter" only by an
\* operator, and becomes one only when the pass is through with it.
LEMMA RowsCount ==
  ASSUME MaxAttempts > 1, TypeOK, CountInv, [Next]_vars, TypeOK',
         NEW e \in Events, outbox[e].status # "dead_letter"
  PROVE  /\ outbox[e].attempts <= outbox'[e].attempts
         /\ outbox'[e].status = "dead_letter" =>
              /\ MarkOutboxFailed("maintenance") /\ worker["maintenance"].event = e
              /\ outbox[e].attempts = MaxAttempts
<1>0. /\ outbox \in [Events -> OutboxRow] /\ worker \in [Workers -> Work]
      /\ outbox[e] \in OutboxRow /\ outbox[e].attempts \in Nat /\ outbox[e].attempts <= MaxAttempts
      /\ outbox[e].attempts <= outbox[e].attempts
  BY CountsAssumption DEF TypeOK, OutboxRow
<1>1. CASE outbox'[e] = outbox[e]
  BY <1>0, <1>1
<1>2. CASE CreateEvent
  BY <1>0, <1>2 DEF CreateEvent, OutboxRow
<1>3. ASSUME NEW w \in Workers, ClaimOutbox(w), worker[w].event = e
      PROVE  outbox'[e].status = "processing" /\ outbox[e].attempts <= outbox'[e].attempts
  BY <1>0, <1>3, CountsAssumption DEF ClaimOutbox, AtMost, OutboxRow
<1>4. ASSUME NEW w \in Workers, MarkOutboxProcessed(w), outbox'[e] # outbox[e]
      PROVE  outbox'[e].status = "processed" /\ outbox[e].attempts <= outbox'[e].attempts
  BY <1>0, <1>4 DEF MarkOutboxProcessed, OutboxRow
<1>5. ASSUME NEW w \in Workers, MarkOutboxFailed(w), outbox'[e] # outbox[e]
      PROVE  /\ outbox[e].attempts <= outbox'[e].attempts
             /\ outbox'[e].status = "dead_letter" =>
                  w = "maintenance" /\ worker[w].event = e /\ outbox[e].attempts = MaxAttempts
  <2>1. worker[w].event = e /\ outbox'[e] = FailedRow(outbox[e], worker[w].attempts + 1)
    BY <1>0, <1>5 DEF MarkOutboxFailed
  <2>2. worker[w].attempts \in Nat /\ worker[w].attempts + 1 \in Nat
    BY <1>0, CountsAssumption DEF Work
  <2>3. /\ outbox[e].attempts <= outbox'[e].attempts
        /\ outbox'[e].status = "dead_letter" => worker[w].attempts + 1 >= MaxAttempts
    BY <1>0, <2>1, <2>2, FailedRowCounts
  <2>4. CASE w = "check"
    <3>1. worker[w].attempts + 1 = 1
      BY <2>4 DEF CountInv
    <3> QED BY <2>3, <3>1, CountsAssumption
  <2>5. CASE w = "maintenance"
    <3>1. worker[w].attempts < outbox[e].attempts \/ outbox[e].attempts = MaxAttempts
      BY <1>5, <2>1, <2>5 DEF CountInv, PassInv, MarkOutboxFailed, Holding
    <3> QED BY <1>0, <2>1, <2>2, <2>3, <2>5, <3>1, CountsAssumption
  <2> QED BY <2>4, <2>5 DEF Workers
<1>6. CASE \E d \in Events : RequeueDeadLetter(d)
  <2>1. outbox'[e] = outbox[e]
    BY <1>0, <1>6 DEF RequeueDeadLetter
  <2> QED BY <1>1, <2>1
<1>7. CASE ArchiveMonitor \/ Restart
  <2>1. outbox'[e] = outbox[e] \/ outbox'[e] = Closed(outbox[e])
    BY <1>7 DEF ArchiveMonitor, Restart
  <2>2. Closed(outbox[e]).attempts = outbox[e].attempts /\ Closed(outbox[e]).status # "dead_letter"
    BY <1>0 DEF Closed, OutboxRow
  <2> QED BY <1>0, <1>1, <2>1, <2>2
<1>8. CASE Tick
  BY <1>0, <1>8 DEF Tick, OutboxRow
<1>9. CASE UNCHANGED outbox
  BY <1>1, <1>9
<1>10. ASSUME NEW w \in Workers, ProcessOutboxEvent(w), outbox'[e] # outbox[e]
       PROVE  \/ ClaimOutbox(w) /\ worker[w].event = e
              \/ MarkOutboxProcessed(w)
              \/ MarkOutboxFailed(w)
  BY <1>0, <1>10 DEF ProcessOutboxEvent, ClaimOutbox, NotClaimed, Lookup, DispatchEvent
<1>11. CASE \E w \in Workers : ProcessOutboxEvent(w)
  BY <1>1, <1>3, <1>4, <1>5, <1>10, <1>11
<1>12. CASE StartCheck \/ EndCheck \/ ListDueOutbox \/ NextListed \/ UNCHANGED vars
  BY <1>9, <1>12 DEF StartCheck, EndCheck, ListDueOutbox, NextListed, vars
<1> QED BY <1>2, <1>6, <1>7, <1>8, <1>11, <1>12 DEF Next

\* What others do changes neither the stage of a worker nor its event.
LEMMA CoworkerStays ==
  ASSUME TypeOK, NEW w \in Workers, NEW v \in Workers \ {w}, ProcessOutboxEvent(w)
  PROVE  /\ worker'[v].stage = worker[v].stage /\ worker'[v].event = worker[v].event
         /\ worker'[v].attempts = worker[v].attempts
<1>1. CASE ClaimOutbox(w)
  <2>1. Hold(w, worker[w].event)
    BY <1>1 DEF ClaimOutbox
  <2> QED BY <2>1, HoldOthers
<1>2. CASE ~ClaimOutbox(w)
  <2>1. worker \in [Workers -> Work]
    BY DEF TypeOK
  <2>2. worker'[v] = worker[v]
    BY <1>2, <2>1 DEF ProcessOutboxEvent, NotClaimed, Lookup, DispatchEvent,
                      MarkOutboxProcessed, MarkOutboxFailed
  <2> QED BY <2>2
<1> QED BY <1>1, <1>2

LEMMA NextCounts ==
  ASSUME MaxAttempts > 1, TypeOK, CountInv, [Next]_vars, TypeOK' PROVE CountInv'
<1> DEFINE m == worker["maintenance"]
<1>0. /\ outbox \in [Events -> OutboxRow] /\ worker \in [Workers -> Work]
      /\ "check" \in Workers /\ "maintenance" \in Workers /\ "check" # "maintenance"
      /\ m.attempts \in 0..MaxAttempts /\ worker["check"].attempts = 0
  BY DEF TypeOK, Workers, Work, CountInv
<1>r. \A e \in Events : outbox[e].status # "dead_letter" =>
        /\ outbox[e].attempts <= outbox'[e].attempts
        /\ outbox'[e].status = "dead_letter" => MarkOutboxFailed("maintenance") /\ m.event = e
  BY RowsCount
\* The pass does not move on.
<1>k. ASSUME due' \subseteq due, worker'["check"].attempts = 0, ~MarkOutboxFailed("maintenance"),
             \/ worker'["maintenance"].stage \notin {"claim"} \cup Holding
             \/ /\ worker'["maintenance"].stage = m.stage
                /\ worker'["maintenance"].event = m.event
                /\ worker'["maintenance"].attempts = m.attempts
      PROVE  CountInv'
  BY <1>k, <1>r, StillCounts
<1>1. CASE StartCheck \/ EndCheck \/ CreateEvent
  <2>1. /\ UNCHANGED due /\ worker'["maintenance"] = m /\ worker'["check"].attempts = 0
    BY <1>0, <1>1, CountsAssumption DEF StartCheck, EndCheck, CreateEvent, Resting, Work
  <2>2. CASE MarkOutboxFailed("maintenance")
    <3>1. worker'["maintenance"] = After("maintenance") /\ m.stage = "failed"
      BY <1>0, <2>2 DEF MarkOutboxFailed
    <3>2. After("maintenance").stage = "idle"
      BY DEF After, Resting
    <3> QED BY <2>1, <3>1, <3>2
  <2> QED BY <1>k, <2>1, <2>2
<1>2. CASE ListDueOutbox
  <2>1. PICK page \in SUBSET {e \in Events : ClaimableDue(e)} :
          due' = {<<e, outbox[e].attempts>> : e \in page}
    <3> DEFINE eligible == {e \in Events : ClaimableDue(e)}
               page == {e \in eligible : Cardinality({d \in eligible : d <= e}) <= PageSize}
    <3>1. page \in SUBSET eligible /\ due' = {<<e, outbox[e].attempts>> : e \in page}
      BY <1>2 DEF ListDueOutbox
    <3> HIDE DEF page
    <3> QED BY <3>1
  <2>2. \A e \in page : outbox[e].status # "dead_letter" /\ outbox[e].attempts <= outbox[e].attempts
    BY <1>0, <2>1, CountsAssumption DEF ClaimableDue, OutboxRow
  <2>3. UNCHANGED <<outbox, worker>> /\ m.stage = "idle"
    BY <1>2 DEF ListDueOutbox
  <2>4. ListedInv'
    BY <2>1, <2>2, <2>3 DEF ListedInv
  <2>5. PassInv'
    BY <2>3 DEF PassInv, Holding
  <2> QED BY <1>0, <2>3, <2>4, <2>5 DEF CountInv
<1>3. CASE NextListed
  <2>1. PICK item \in due :
          /\ due' = due \ {item}
          /\ worker' = [worker EXCEPT !["maintenance"] =
               [stage |-> "claim", event |-> item[1], attempts |-> item[2],
                held |-> 0, shared |-> FALSE]]
    BY <1>3 DEF NextListed
  <2>2. /\ worker'["maintenance"].stage = "claim" /\ worker'["maintenance"].event = item[1]
        /\ worker'["maintenance"].attempts = item[2] /\ worker'["check"] = worker["check"]
        /\ UNCHANGED outbox
    BY <1>0, <1>3, <2>1 DEF NextListed
  <2>3. /\ outbox[item[1]].status # "dead_letter" /\ item[2] <= outbox[item[1]].attempts
        /\ \A other \in due \ {item} : other[1] # item[1]
    BY DEF CountInv, ListedInv
  <2>4. ListedInv'
    BY <2>1, <2>2 DEF CountInv, ListedInv
  <2>5. PassInv'
    BY <2>1, <2>2, <2>3 DEF PassInv, Holding
  <2> QED BY <1>0, <2>2, <2>4, <2>5 DEF CountInv
<1>4. CASE ProcessOutboxEvent("check")
  <2>0. UNCHANGED due
    BY <1>4 DEF ProcessOutboxEvent, ClaimOutbox, NotClaimed, Lookup,
       DispatchEvent, MarkOutboxProcessed, MarkOutboxFailed
  <2>m. /\ worker'["maintenance"].stage = m.stage /\ worker'["maintenance"].event = m.event
        /\ worker'["maintenance"].attempts = m.attempts
    BY <1>0, <1>4, CoworkerStays
  <2>c. worker'["check"].attempts = 0
    <3>1. CASE ClaimOutbox("check")
      <4>1. Hold("check", worker["check"].event)
        BY <3>1 DEF ClaimOutbox
      <4> QED BY <1>0, <4>1, HoldRows
    <3>2. CASE ~ClaimOutbox("check")
      BY <1>0, <1>4, <3>2 DEF ProcessOutboxEvent, NotClaimed, Lookup, DispatchEvent,
         MarkOutboxProcessed, MarkOutboxFailed, After, Resting, Work
    <3> QED BY <3>1, <3>2
  <2>1. /\ UNCHANGED due /\ worker'["maintenance"].stage = m.stage
        /\ worker'["maintenance"].event = m.event
        /\ worker'["maintenance"].attempts = m.attempts /\ worker'["check"].attempts = 0
    BY <2>0, <2>m, <2>c
  <2>2. CASE MarkOutboxFailed("maintenance")
    <3>1. worker'["maintenance"] = After("maintenance") /\ m.stage = "failed"
      BY <1>0, <2>2 DEF MarkOutboxFailed
    <3>2. After("maintenance").stage = "idle"
      BY DEF After, Resting
    <3> QED BY <2>1, <3>1, <3>2
  <2> QED BY <1>k, <2>1, <2>2
<1>5. CASE ProcessOutboxEvent("maintenance")
  <2>0. UNCHANGED due /\ worker'["check"].attempts = worker["check"].attempts
    <3>1. UNCHANGED due
      BY <1>5 DEF ProcessOutboxEvent, ClaimOutbox, NotClaimed, Lookup, DispatchEvent,
         MarkOutboxProcessed, MarkOutboxFailed
    <3>2. worker'["check"].attempts = worker["check"].attempts
      BY <1>0, <1>5, CoworkerStays
    <3> QED BY <3>1, <3>2
  <2>a. After("maintenance").stage \notin {"claim"} \cup Holding
    BY DEF After, Resting, Holding
  <2>1. CASE ClaimOutbox("maintenance")
    <3>1. PICK e \in Events : e = m.event /\ m.stage = "claim"
      BY <2>1, BusyEvent DEF ClaimOutbox, Workers
    <3>2. /\ outbox' = [outbox EXCEPT ![e].status = "processing",
                                      ![e].attempts = AtMost(@ + 1, MaxAttempts),
                                      ![e].timer = Stale]
          /\ worker'["maintenance"].stage = "lookup" /\ worker'["maintenance"].event = e
          /\ worker'["maintenance"].attempts = m.attempts
      <4>1. Hold("maintenance", e) /\ worker["maintenance"].event = e
        BY <2>1, <3>1 DEF ClaimOutbox
      <4>2. /\ worker'["maintenance"].stage = "lookup" /\ worker'["maintenance"].event = e
            /\ worker'["maintenance"].attempts = m.attempts
        BY <1>0, <4>1, HoldRows
      <4> QED BY <2>1, <3>1, <4>2 DEF ClaimOutbox
    <3>3. /\ outbox'[e].status = "processing"
          /\ outbox'[e].attempts = AtMost(outbox[e].attempts + 1, MaxAttempts)
          /\ \A d \in Events : d # e => outbox'[d] = outbox[d]
      BY <1>0, <3>2 DEF OutboxRow
    <3>4. m.attempts <= outbox[e].attempts /\ \A item \in due : item[1] # e /\ item[1] \in Events
      BY <3>1 DEF CountInv, PassInv, TypeOK
    <3>5. m.attempts < outbox'[e].attempts \/ outbox'[e].attempts = MaxAttempts
      BY <1>0, <3>3, <3>4, CountsAssumption DEF AtMost, OutboxRow
    <3>6. ListedInv'
      BY <2>0, <3>3, <3>4 DEF CountInv, ListedInv
    <3>7. PassInv'
      BY <2>0, <3>2, <3>3, <3>4, <3>5 DEF PassInv, Holding
    <3> QED BY <1>0, <2>0, <3>6, <3>7 DEF CountInv
  <2>2. CASE Lookup("maintenance") \/ DispatchEvent("maintenance")
    <3>1. /\ m.stage \in Holding /\ worker'["maintenance"].stage \in Holding
          /\ worker'["maintenance"].event = m.event
          /\ worker'["maintenance"].attempts = m.attempts /\ UNCHANGED outbox
      BY <1>0, <2>2 DEF Lookup, DispatchEvent, Work, Holding
    <3>2. ListedInv'
      BY <2>0, <3>1 DEF CountInv, ListedInv
    <3>3. PassInv'
      BY <2>0, <3>1 DEF CountInv, PassInv, Holding
    <3> QED BY <1>0, <2>0, <3>2, <3>3 DEF CountInv
  <2>3. CASE NotClaimed("maintenance") \/ MarkOutboxProcessed("maintenance")
    <3>1. worker'["maintenance"] = After("maintenance") /\ m.stage # "failed"
      BY <1>0, <2>3 DEF NotClaimed, MarkOutboxProcessed
    <3>2. ~MarkOutboxFailed("maintenance")
      BY <3>1 DEF MarkOutboxFailed
    <3> QED BY <1>0, <1>k, <2>0, <2>a, <3>1, <3>2
  <2>4. CASE MarkOutboxFailed("maintenance")
    <3>1. worker'["maintenance"] = After("maintenance") /\ m.stage = "failed"
      BY <1>0, <2>4 DEF MarkOutboxFailed
    <3>2. \A item \in due : item[1] # m.event /\ item[1] \in Events
      BY <3>1 DEF CountInv, PassInv, TypeOK, Holding
    <3>3. \A item \in due : outbox'[item[1]] = outbox[item[1]]
      BY <1>0, <2>4, <3>2 DEF MarkOutboxFailed
    <3>4. ListedInv'
      BY <2>0, <3>3 DEF CountInv, ListedInv
    <3>5. PassInv'
      BY <2>a, <3>1 DEF PassInv
    <3> QED BY <1>0, <2>0, <3>4, <3>5 DEF CountInv
  <2> QED BY <1>5, <2>1, <2>2, <2>3, <2>4 DEF ProcessOutboxEvent
<1>6. ASSUME NEW d \in Events, RequeueDeadLetter(d) PROVE CountInv'
  <2>1. UNCHANGED <<worker, due>> /\ outbox[d].status = "dead_letter"
        /\ \A e \in Events : e # d => outbox'[e] = outbox[e]
    BY <1>0, <1>6 DEF RequeueDeadLetter
  <2>2. \A item \in due : item[1] \in Events /\ item[1] # d
    BY <2>1 DEF CountInv, ListedInv, TypeOK
  <2>3. ListedInv'
    BY <2>1, <2>2 DEF CountInv, ListedInv
  <2>4. m.stage \in {"claim"} \cup Holding => m.event \in Events /\ m.event # d
    BY <2>1, BusyEvent DEF CountInv, PassInv, Workers
  <2>5. PassInv'
    BY <2>1, <2>4 DEF CountInv, PassInv
  <2> QED BY <1>0, <2>1, <2>3, <2>5 DEF CountInv
<1>7. CASE ArchiveMonitor \/ UNCHANGED vars
  <2>1. UNCHANGED <<worker, due>>
    BY <1>7 DEF ArchiveMonitor, vars
  <2>2. CASE MarkOutboxFailed("maintenance")
    BY <1>0, <2>1, <2>2 DEF MarkOutboxFailed, After, Resting
  <2> QED BY <1>0, <1>k, <2>1, <2>2
<1>8. CASE Restart
  <2>1. due' = {} /\ \A w \in Workers : worker'[w] = Resting("idle")
    BY <1>8 DEF Restart
  <2>2. worker'["maintenance"].stage = "idle" /\ worker'["check"].attempts = 0
    BY <1>0, <2>1 DEF Resting
  <2> QED BY <2>1, <2>2 DEF CountInv, ListedInv, PassInv, Holding
<1>9. CASE Tick
  <2>1. /\ UNCHANGED due /\ worker'["check"].attempts = 0
        /\ worker'["maintenance"].stage = m.stage /\ worker'["maintenance"].event = m.event
        /\ worker'["maintenance"].attempts = m.attempts
    BY <1>0, <1>9 DEF Tick, Work
  <2>2. CASE MarkOutboxFailed("maintenance")
    <3>1. worker'["maintenance"] = After("maintenance") /\ m.stage = "failed"
      BY <1>0, <2>2 DEF MarkOutboxFailed
    <3>2. After("maintenance").stage = "idle"
      BY DEF After, Resting
    <3> QED BY <2>1, <3>1, <3>2
  <2> QED BY <1>k, <2>1, <2>2
<1> QED BY <1>1, <1>2, <1>3, <1>4, <1>5, <1>6, <1>7, <1>8, <1>9 DEF Next, Workers

\* An event becomes a dead letter only after MaxAttempts claims since it was
\* created or requeued, although the pass counts from the attempts it listed.
\* With a single attempt the check itself would have to give up, and it counts
\* from none; the code allows ten.
THEOREM GivenUpLate == ASSUME MaxAttempts > 1 PROVE Spec => GivenUpOnlyAfterLimit
<1>1. Init => CountInv
  BY DEF Init, CountInv, ListedInv, PassInv, Resting, Holding, Workers
<1>2. TypeOK /\ CountInv /\ TypeOK' /\ [Next]_vars => CountInv'
  BY NextCounts
<1>3. TypeOK /\ CountInv /\ TypeOK' /\ [Next]_vars =>
        [\A e \in Events :
           outbox[e].status # "dead_letter" /\ outbox'[e].status = "dead_letter"
             => outbox[e].attempts = MaxAttempts]_vars
  BY RowsCount
<1> QED BY <1>1, <1>2, <1>3, InitTypes, NextTypes, PTL DEF Spec, GivenUpOnlyAfterLimit
=============================================================================
