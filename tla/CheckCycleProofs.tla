-------------------------- MODULE CheckCycleProofs --------------------------
(* Theorems about CheckCycle, for any monitors, slots, callers and forms, *)
(* and about CheckSchedule, for every interval, id and number of failures. *)
EXTENDS CheckCycle, CheckSchedule, TLAPS

-----------------------------------------------------------------------------
(* Types.                                                                  *)

LEMMA IdleTyped == IdleJob \in Jobs /\ IdleForm \in Forms /\ IdleTick \in [list : Lists, waiting : BOOLEAN]
<1>1. IdleJob \in Jobs
  BY ConstantsAssumption DEF IdleJob, Jobs, Stages, Copies
<1>2. IdleForm \in Forms
  BY ConstantsAssumption DEF IdleForm, Forms
<1>3. [m \in {} |-> {}] \in [{} -> Copies]
  OBVIOUS
<1>4. [m \in {} |-> {}] \in Lists
  BY <1>3 DEF Lists
<1> QED
  BY <1>1, <1>2, <1>4 DEF IdleTick

LEMMA CopyTyped == ASSUME NEW row \in Rows PROVE Copy(row) \in Copies
  BY DEF Copy, Rows, Copies

LEMMA ShorterList ==
  ASSUME TypeOK, NEW m PROVE Without(m) \in Lists
<1>1. PICK ids \in SUBSET Monitors : tick.list \in [ids -> Copies]
  BY DEF TypeOK, Lists
<1>2. Without(m) \in [ids \ {m} -> Copies]
  BY <1>1 DEF Without, Listed
<1>3. ids \ {m} \in SUBSET Monitors
  OBVIOUS
<1> QED
  BY <1>2, <1>3 DEF Lists

LEMMA ListedTyped ==
  ASSUME TypeOK PROVE Listed \subseteq Monitors /\ \A m \in Listed : tick.list[m] \in Copies
  BY DEF TypeOK, Lists, Listed

LEMMA InitTyped == Init => TypeOK
<1> SUFFICES ASSUME Init PROVE TypeOK
  OBVIOUS
<1>1. monitor \in [Monitors -> Rows] /\ source \in [Configs -> SUBSET Items]
  BY DEF Init, Shown
<1>2. job \in [Runners -> Jobs] /\ form \in [Editors -> Forms]
      /\ tick \in [list : Lists, waiting : BOOLEAN]
  BY IdleTyped DEF Init
<1>3. changes \in [Configs -> 0..MaxChanges] /\ stops \in 0..MaxStops
  BY ConstantsAssumption DEF Init
<1> QED
  BY <1>1, <1>2, <1>3 DEF Init, TypeOK

LEMMA TickTyped == TypeOK /\ Tick => TypeOK'
<1> SUFFICES ASSUME TypeOK, Tick PROVE TypeOK'
  OBVIOUS
<1>1. CASE ListDue
  <2> DEFINE dueIds == {m \in Monitors : monitor[m].enabled /\ ~monitor[m].deleted /\ monitor[m].due}
  <2>1. \A m \in dueIds : Copy(monitor[m]) \in Copies
    BY CopyTyped DEF TypeOK
  <2>2. [m \in dueIds |-> Copy(monitor[m])] \in [dueIds -> Copies]
    BY <2>1
  <2>3. [m \in dueIds |-> Copy(monitor[m])] \in Lists
    BY <2>2 DEF Lists
  <2> QED
    BY <1>1, <2>3 DEF ListDue, TypeOK
<1>2. ASSUME NEW m \in Monitors, SkipInFlight(m) PROVE TypeOK'
  BY <1>2, ShorterList DEF SkipInFlight, TypeOK
<1>3. ASSUME NEW m \in Monitors, Mark(m) PROVE TypeOK'
  BY <1>3 DEF Mark, TypeOK
<1>4. ASSUME NEW m \in Monitors, NEW s \in Slots, StartScheduled(m, s) PROVE TypeOK'
  <2>1. tick.list[m] \in Copies
    BY <1>4, ListedTyped DEF StartScheduled, IsNext
  <2>2. [IdleJob EXCEPT !.stage = "start", !.id = m, !.copy = tick.list[m]] \in Jobs
    BY <2>1, IdleTyped DEF Jobs, Stages
  <2>3. job' \in [Runners -> Jobs]
    BY <1>4, <2>2 DEF StartScheduled, TypeOK, Runners
  <2>4. tick' \in [list : Lists, waiting : BOOLEAN]
    BY <1>4, ShorterList DEF StartScheduled
  <2> QED
    BY <1>4, <2>3, <2>4 DEF StartScheduled, TypeOK
<1> QED
  BY <1>1, <1>2, <1>3, <1>4 DEF Tick

LEMMA ProcessTyped == ASSUME TypeOK, NEW j \in Runners, Process(j) PROVE TypeOK'
<1>0. job[j] \in Jobs /\ monitor[job[j].id] \in Rows /\ job[j].id \in Monitors
      /\ job[j].copy \in Copies
  BY DEF TypeOK, Jobs
<1>1. CASE CreateCheckRun(j)
  <2>1. [job[j] EXCEPT !.stage = "check"] \in Jobs
    BY <1>0 DEF Jobs, Stages
  <2> QED
    BY <1>1, <2>1 DEF CreateCheckRun, TypeOK
<1>2. CASE CheckSucceeds(j)
  <2> DEFINE copy == job[j].copy
             shown == source[copy.config]
  <2>1. copy.config \in Configs /\ copy.seen \subseteq Items /\ shown \subseteq Items
    BY <1>0 DEF Copies, TypeOK
  <2>2. Remembered(copy, shown) \subseteq Items /\ News(copy, shown) \subseteq Items
    BY <2>1 DEF Remembered, News
  <2>3. job'[j] \in Jobs
    BY <1>0, <1>2, <2>2 DEF CheckSucceeds, TypeOK, Jobs, Stages, Copies
  <2>4. job' \in [Runners -> Jobs]
    BY <1>2, <2>3 DEF CheckSucceeds, TypeOK
  <2> QED
    BY <1>2, <2>4 DEF CheckSucceeds, TypeOK
<1>3. CASE CheckFails(j)
  <2>1. [job[j] EXCEPT !.stage = "saveError"] \in Jobs
    BY <1>0 DEF Jobs, Stages
  <2> QED
    BY <1>3, <2>1 DEF CheckFails, TypeOK
<1>4. CASE Save(j)
  <2>1. [job[j] EXCEPT !.stage = "events"] \in Jobs
    BY <1>0 DEF Jobs, Stages
  <2>2. job' \in [Runners -> Jobs]
    BY <1>4, <2>1 DEF Save, TypeOK
  <2>3. [monitor[job[j].id] EXCEPT !.init = TRUE, !.seen = job[j].copy.seen, !.due = FALSE] \in Rows
    BY <1>0 DEF Rows, Copies
  <2>6. monitor' \in [Monitors -> Rows]
    BY <1>4, <2>3 DEF Save, TypeOK
  <2>4. job[j].news \subseteq Items /\ job[j].copy.config \in Configs
    BY <1>0 DEF Jobs, Copies
  <2>7. reported[job[j].id] \union job[j].news \subseteq Items
    BY <1>0, <2>4 DEF TypeOK
  <2>8. reported' \in [Monitors -> SUBSET Items]
    BY <1>4, <2>7 DEF Save, TypeOK
  <2>10. dropped' \in [Monitors -> SUBSET Items]
    BY <1>4 DEF Save, TypeOK
  <2>9. <<job[j].id, job[j].copy.config>> \in Monitors \X Configs
    BY <1>0, <2>4
  <2>5. fetched' \subseteq Monitors \X Configs
    BY <1>4, <2>9 DEF Save, TypeOK
  <2> QED
    BY <1>4, <2>2, <2>5, <2>6, <2>8, <2>10 DEF Save, TypeOK
<1>5. CASE SaveError(j)
  <2>1. [job[j] EXCEPT !.stage = "events"] \in Jobs
    BY <1>0 DEF Jobs, Stages
  <2>2. monitor' \in [Monitors -> Rows]
    BY <1>0, <1>5 DEF SaveError, TypeOK, Rows
  <2> QED
    BY <1>5, <2>1, <2>2 DEF SaveError, TypeOK
<1>6. CASE Finish(j)
  BY <1>6, IdleTyped DEF Finish, TypeOK
<1>7. ASSUME NEW i \in Items, CreateEvent(j, i) PROVE TypeOK'
  <2>1. [job[j] EXCEPT !.news = @ \ {i}] \in Jobs
    BY <1>0 DEF Jobs
  <2>3. job[j].id \in Monitors /\ events[job[j].id] \in [Items -> Nat]
    BY <1>0 DEF TypeOK
  <2>4. [events[job[j].id] EXCEPT ![i] = @ + 1] \in [Items -> Nat]
    BY <2>3
  <2>2. events' \in [Monitors -> [Items -> Nat]]
    BY <2>3, <2>4, <1>7 DEF CreateEvent, TypeOK
  <2> QED
    BY <1>7, <2>1, <2>2 DEF CreateEvent, TypeOK
<1> QED
  BY <1>1, <1>2, <1>3, <1>4, <1>5, <1>6, <1>7 DEF Process

LEMMA FailsTyped == ASSUME TypeOK, NEW j \in Runners, Fails(j) PROVE TypeOK'
<1>0. job[j] \in Jobs /\ job[j].id \in Monitors
  BY DEF TypeOK, Jobs
<1>1. stops' \in 0..MaxStops
  BY ConstantsAssumption DEF Fails, StatementFails, CreateEventFails, TypeOK
<1>2. CASE StatementFails(j)
  BY <1>1, <1>2, IdleTyped DEF StatementFails, TypeOK
<1>3. ASSUME NEW i \in Items, CreateEventFails(j, i) PROVE TypeOK'
  <2>1. [job[j] EXCEPT !.news = @ \ {i}] \in Jobs
    BY <1>0 DEF Jobs
  <2>2. dropped[job[j].id] \union {i} \subseteq Items
    BY <1>0 DEF TypeOK
  <2> QED
    BY <1>1, <1>3, <2>1, <2>2 DEF CreateEventFails, TypeOK
<1> QED
  BY <1>2, <1>3 DEF Fails

LEMMA CallerTyped ==
  ASSUME TypeOK, NEW c \in Callers,
         Load(c) \/ Cancel(c) \/ Unwind(c) \/ \E m \in Monitors : RunOnce(m, c)
  PROVE  TypeOK'
<1>0. c \in Runners /\ job[c] \in Jobs /\ job[c].id \in Monitors
  BY DEF TypeOK, Jobs, Runners
<1>1. CASE Load(c)
  <2>1. Copy(monitor[job[c].id]) \in Copies
    BY <1>0, CopyTyped DEF TypeOK
  <2>3. [job[c] EXCEPT !.stage = "start", !.copy = Copy(monitor[job[c].id])] \in Jobs
    BY <1>0, <2>1 DEF Jobs, Stages
  <2>2. job' \in [Runners -> Jobs]
    BY <1>1, <2>3, IdleTyped DEF Load, TypeOK
  <2> QED
    BY <1>1, <2>2 DEF Load, TypeOK
<1>2. CASE Cancel(c)
  <2>1. [job[c] EXCEPT !.cancelled = TRUE] \in Jobs
    BY <1>0 DEF Jobs
  <2>2. stops' \in 0..MaxStops
    BY <1>2, ConstantsAssumption DEF Cancel, TypeOK
  <2> QED
    BY <1>2, <2>1, <2>2 DEF Cancel, TypeOK
<1>3. CASE Unwind(c)
  <2>1. dropped[job[c].id] \union Unstored(c) \subseteq Items
    BY <1>0 DEF TypeOK, Jobs, Unstored
  <2>2. dropped' \in [Monitors -> SUBSET Items]
    BY <1>0, <1>3, <2>1 DEF Unwind, TypeOK
  <2> QED
    BY <1>3, <2>2, IdleTyped DEF Unwind, TypeOK
<1>4. ASSUME NEW m \in Monitors, RunOnce(m, c) PROVE TypeOK'
  <2>1. [IdleJob EXCEPT !.stage = "load", !.id = m] \in Jobs
    BY IdleTyped DEF Jobs, Stages
  <2> QED
    BY <1>4, <2>1 DEF RunOnce, TypeOK
<1> QED
  BY <1>1, <1>2, <1>3, <1>4

LEMMA UsersTyped == TypeOK /\ Users => TypeOK'
<1> SUFFICES ASSUME TypeOK, Users PROVE TypeOK'
  OBVIOUS
<1>1. ASSUME NEW e \in Editors, NEW m \in Monitors, NEW c \in Configs,
             NEW enabled \in BOOLEAN, OpenForm(e, m, c, enabled)
      PROVE  TypeOK'
  BY <1>1 DEF OpenForm, TypeOK, Forms
<1>2. ASSUME NEW e \in Editors, SaveForm(e) PROVE TypeOK'
  <2> DEFINE f == form[e]
             row == monitor[f.id]
             saved == [row EXCEPT !.config = f.config, !.enabled = f.enabled]
  <2>1. f.id \in Monitors /\ row \in Rows /\ f.config \in Configs /\ f.enabled \in BOOLEAN
    BY DEF TypeOK, Forms
  <2>2. saved \in Rows
    BY <2>1 DEF Rows
  <2>3. [saved EXCEPT !.init = FALSE, !.seen = {}, !.due = TRUE] \in Rows
    BY <2>2 DEF Rows
  <2> HIDE DEF saved, row
  <2>4. monitor' \in {monitor, [monitor EXCEPT ![f.id] = saved],
                      [monitor EXCEPT ![f.id] = [saved EXCEPT !.init = FALSE, !.seen = {}, !.due = TRUE]]}
    BY <1>2 DEF SaveForm, saved, row
  <2>5. monitor' \in [Monitors -> Rows]
    BY <2>1, <2>2, <2>3, <2>4 DEF TypeOK
  <2> QED
    BY <1>2, <2>5, IdleTyped DEF SaveForm, TypeOK
<1>3. ASSUME NEW m \in Monitors, SetMonitorEnabled(m) PROVE TypeOK'
  <2>0. monitor[m] \in Rows
    BY DEF TypeOK
  <2>1. [monitor[m] EXCEPT !.enabled = ~@] \in Rows
    BY <2>0 DEF Rows
  <2> QED
    BY <1>3, <2>1 DEF SetMonitorEnabled, TypeOK
<1>4. ASSUME NEW m \in Monitors, DeleteMonitor(m) PROVE TypeOK'
  <2>0. monitor[m] \in Rows
    BY DEF TypeOK
  <2>1. [monitor[m] EXCEPT !.deleted = TRUE, !.enabled = FALSE] \in Rows
    BY <2>0 DEF Rows
  <2> QED
    BY <1>4, <2>1 DEF DeleteMonitor, TypeOK
<1> QED
  BY <1>1, <1>2, <1>3, <1>4 DEF Users

LEMMA NextTyped == TypeOK /\ [Next]_vars => TypeOK'
<1> SUFFICES ASSUME TypeOK, [Next]_vars PROVE TypeOK'
  OBVIOUS
<1>1. CASE Restart
  <2>1. stops' \in 0..MaxStops
    BY <1>1, ConstantsAssumption DEF Restart, TypeOK
  <2>2. \A j \in Runners : Unstored(j) \subseteq Items
    BY DEF TypeOK, Jobs, Unstored
  <2>3. dropped' \in [Monitors -> SUBSET Items]
    BY <1>1, <2>2 DEF Restart, TypeOK
  <2> QED
    BY <1>1, <2>1, <2>3, IdleTyped DEF Restart, TypeOK
<1>2. ASSUME NEW m \in Monitors, BecomeDue(m) PROVE TypeOK'
  <2>0. monitor[m] \in Rows
    BY DEF TypeOK
  <2>1. [monitor[m] EXCEPT !.due = TRUE] \in Rows
    BY <2>0 DEF Rows
  <2> QED
    BY <1>2, <2>1 DEF BecomeDue, TypeOK
<1>3. ASSUME NEW c \in Configs, NEW i \in Items, Change(c, i) PROVE TypeOK'
  <2>1. changes' \in [Configs -> 0..MaxChanges]
    BY <1>3, ConstantsAssumption DEF Change, TypeOK
  <2>2. source' \in [Configs -> SUBSET Items]
    BY <1>3 DEF Change, TypeOK
  <2> QED
    BY <1>3, <2>1, <2>2 DEF Change, TypeOK
<1>4. CASE UNCHANGED vars
  BY <1>4 DEF vars, TypeOK
<1> QED
  BY <1>1, <1>2, <1>3, <1>4, TickTyped, ProcessTyped, FailsTyped, CallerTyped,
     UsersTyped DEF Next

(* Every variable keeps its type.                                          *)
THEOREM TypeCorrect == Spec => []TypeOK
  BY InitTyped, NextTyped, PTL DEF Spec

-----------------------------------------------------------------------------
(* One check of a monitor at a time.                                       *)

(* What keeps the checks apart: whoever has a monitor, a goroutine or the  *)
(* tick that waits for a slot, has it alone and has it in flight.          *)
FlightInv ==
  /\ OneCheckAtATime
  /\ InFlightIsHeld
  /\ \A m \in Monitors, j \in Runners : Runs(j, m) => m \in inFlight /\ ~TickHolds(m)
  /\ \A m \in Monitors : TickHolds(m) => m \in inFlight
  /\ \A j \in Runners : job[j].cancelled => job[j].stage # "idle"

\* The tick has at most one next monitor.
LEMMA NextAlone ==
  ASSUME TypeOK, NEW m, NEW n, IsNext(m), IsNext(n) PROVE m = n
<1>1. m \in Nat /\ n \in Nat
  BY ListedTyped, ConstantsAssumption DEF IsNext
<1>2. m <= n /\ n <= m
  BY DEF IsNext
<1> QED
  BY <1>1, <1>2

\* A step that neither starts nor ends a check, nor moves the tick.
LEMMA SameHolders ==
  ASSUME FlightInv, UNCHANGED <<inFlight, tick>>,
         \A j \in Runners : /\ job'[j].stage = "idle" <=> job[j].stage = "idle"
                            /\ job'[j].id = job[j].id
                            /\ job'[j].cancelled => job'[j].stage # "idle"
  PROVE  FlightInv'
<1>1. \A m, j : j \in Runners => (Runs(j, m)' <=> Runs(j, m))
  BY DEF Runs
<1>2. \A m : TickHolds(m)' <=> TickHolds(m)
  BY DEF TickHolds, IsNext, Listed
<1>3. OneCheckAtATime' /\ InFlightIsHeld'
  BY <1>1, <1>2 DEF FlightInv, OneCheckAtATime, InFlightIsHeld
<1> QED
  BY <1>1, <1>2, <1>3 DEF FlightInv

\* A check ends: its monitor is in flight no more.
LEMMA Released ==
  ASSUME TypeOK, FlightInv, NEW r \in Runners, job[r].stage # "idle",
         job' = [job EXCEPT ![r] = IdleJob], inFlight' = inFlight \ {job[r].id},
         UNCHANGED tick
  PROVE  FlightInv'
<1> DEFINE id == job[r].id
<1>1. id \in Monitors /\ Runs(r, id)
  BY DEF TypeOK, Jobs, Runs
<1>2. \A m \in Monitors, j \in Runners : Runs(j, m)' => Runs(j, m) /\ j # r
  BY DEF Runs, IdleJob, TypeOK
<1>3. \A m \in Monitors, j \in Runners : Runs(j, m) /\ j # r => Runs(j, m)'
  BY DEF Runs, TypeOK
<1>4. \A m : TickHolds(m)' <=> TickHolds(m)
  BY DEF TickHolds, IsNext, Listed
<1>5. \A m \in Monitors, j \in Runners : Runs(j, m) /\ j # r => m # id
  BY <1>1 DEF FlightInv, OneCheckAtATime
<1>6. \A m \in Monitors : TickHolds(m) => m # id
  BY <1>1 DEF FlightInv
<1>7. OneCheckAtATime'
  BY <1>2 DEF FlightInv, OneCheckAtATime
<1>8. InFlightIsHeld'
  <2> SUFFICES ASSUME NEW m \in inFlight' PROVE TickHolds(m)' \/ \E j \in Runners : Runs(j, m)'
    BY DEF InFlightIsHeld
  <2>1. m \in inFlight /\ m # id /\ m \in Monitors
    BY DEF TypeOK
  <2>2. CASE TickHolds(m)
    BY <2>2, <1>4
  <2>3. ASSUME NEW j \in Runners, Runs(j, m) PROVE Runs(j, m)'
    <3>1. j # r
      BY <2>1, <2>3 DEF Runs
    <3> QED
      BY <1>3, <2>1, <2>3, <3>1
  <2> QED
    BY <2>1, <2>2, <2>3 DEF FlightInv, InFlightIsHeld
<1>9. \A m \in Monitors, j \in Runners : Runs(j, m)' => m \in inFlight' /\ ~TickHolds(m)'
  BY <1>2, <1>4, <1>5 DEF FlightInv
<1>10. \A m \in Monitors : TickHolds(m)' => m \in inFlight'
  BY <1>4, <1>6 DEF FlightInv
<1>11. \A j \in Runners : job'[j].cancelled => job'[j].stage # "idle"
  BY DEF FlightInv, IdleJob, TypeOK
<1> QED
  BY <1>7, <1>8, <1>9, <1>10, <1>11 DEF FlightInv

LEMMA InitFlight == Init => FlightInv
<1> SUFFICES ASSUME Init PROVE FlightInv
  OBVIOUS
<1>1. \A m, j : j \in Runners => ~Runs(j, m)
  BY DEF Init, Runs, IdleJob
<1>2. \A m : ~TickHolds(m)
  BY DEF Init, TickHolds, IdleTick
<1>3. OneCheckAtATime /\ InFlightIsHeld
  BY <1>1 DEF Init, OneCheckAtATime, InFlightIsHeld
<1>4. \A j \in Runners : ~job[j].cancelled
  BY DEF Init, IdleJob
<1> QED
  BY <1>1, <1>2, <1>3, <1>4 DEF FlightInv

\* The tick lists or skips and has no monitor.
LEMMA ListFlight ==
  ASSUME FlightInv, \A m : ~TickHolds(m), ~tick'.waiting, UNCHANGED <<inFlight, job>>
  PROVE  FlightInv'
<1>1. \A m : ~TickHolds(m) /\ ~TickHolds(m)'
  BY DEF TickHolds
<1>2. \A m, j : Runs(j, m)' <=> Runs(j, m)
  BY DEF Runs
<1>3. OneCheckAtATime' /\ InFlightIsHeld'
  BY <1>1, <1>2 DEF FlightInv, OneCheckAtATime, InFlightIsHeld
<1> QED
  BY <1>1, <1>2, <1>3 DEF FlightInv

\* The tick marks the next monitor, which nobody has.
LEMMA Marked == ASSUME TypeOK, FlightInv, NEW m \in Monitors, Mark(m) PROVE FlightInv'
<1>1. \A n, j : Runs(j, n)' <=> Runs(j, n)
  BY DEF Mark, Runs
<1>2. \A n : IsNext(n)' <=> IsNext(n)
  BY DEF Mark, IsNext, Listed, TypeOK
<1>3. \A n : TickHolds(n)' => n = m
  BY <1>2, NextAlone DEF Mark, TickHolds
<1>4. TickHolds(m)'
  BY <1>2 DEF Mark, TickHolds, TypeOK
<1>5. \A j \in Runners : ~Runs(j, m)
  BY DEF Mark, FlightInv
<1>6. \A n : ~TickHolds(n)
  BY DEF Mark, TickHolds
<1>7. OneCheckAtATime' /\ InFlightIsHeld'
  BY <1>1, <1>4, <1>6 DEF FlightInv, Mark, OneCheckAtATime, InFlightIsHeld
<1>8. \A j \in Runners : job'[j].cancelled => job'[j].stage # "idle"
  BY DEF FlightInv, Mark
<1> QED
  BY <1>1, <1>3, <1>5, <1>7, <1>8 DEF FlightInv, Mark

\* The goroutine takes the monitor over from the tick.
LEMMA Started ==
  ASSUME TypeOK, FlightInv, NEW m \in Monitors, NEW s \in Slots, StartScheduled(m, s)
  PROVE  FlightInv'
<1>0. s \in Runners
  BY DEF Runners
<1>1. \A n, j : j \in Runners => (Runs(j, n)' <=> Runs(j, n) \/ (j = s /\ n = m))
  BY <1>0 DEF StartScheduled, Runs, IdleJob, TypeOK
<1>2. \A n : ~TickHolds(n)'
  BY DEF StartScheduled, TickHolds
<1>3. TickHolds(m) /\ m \in inFlight
  BY DEF StartScheduled, TickHolds, FlightInv
<1>4. \A j \in Runners : ~Runs(j, m)
  BY <1>3 DEF FlightInv
<1>5. \A n : Runs(s, n) => FALSE
  BY DEF StartScheduled, Runs
<1>6. OneCheckAtATime'
  BY <1>1, <1>4, <1>5 DEF FlightInv, OneCheckAtATime
<1>7. InFlightIsHeld'
  <2> SUFFICES ASSUME NEW n \in inFlight PROVE \E j \in Runners : Runs(j, n)'
    BY DEF StartScheduled, InFlightIsHeld
  <2>1. CASE TickHolds(n)
    BY <2>1, <1>0, <1>1, <1>3, NextAlone DEF TickHolds
  <2> QED
    BY <2>1, <1>1 DEF FlightInv, InFlightIsHeld
<1>8. \A j \in Runners : job'[j].cancelled => job'[j].stage # "idle"
  BY <1>0 DEF StartScheduled, FlightInv, IdleJob, TypeOK
<1> QED
  BY <1>1, <1>2, <1>3, <1>6, <1>7, <1>8 DEF FlightInv, StartScheduled

\* A caller marks a monitor nobody has.
LEMMA Called ==
  ASSUME TypeOK, FlightInv, NEW m \in Monitors, NEW c \in Callers, RunOnce(m, c)
  PROVE  FlightInv'
<1>0. c \in Runners
  BY DEF Runners
<1>1. \A n, j : j \in Runners => (Runs(j, n)' <=> Runs(j, n) \/ (j = c /\ n = m))
  BY <1>0 DEF RunOnce, Runs, IdleJob, TypeOK
<1>2. \A n : TickHolds(n)' <=> TickHolds(n)
  BY DEF RunOnce, TickHolds, IsNext, Listed
<1>3. ~TickHolds(m) /\ \A j \in Runners : ~Runs(j, m)
  BY DEF RunOnce, FlightInv
<1>4. \A n : ~Runs(c, n)
  BY DEF RunOnce, Runs
<1>5. OneCheckAtATime'
  BY <1>1, <1>3, <1>4 DEF FlightInv, OneCheckAtATime
<1>6. InFlightIsHeld'
  BY <1>0, <1>1, <1>2 DEF RunOnce, FlightInv, InFlightIsHeld
<1>7. \A j \in Runners : job'[j].cancelled => job'[j].stage # "idle"
  BY <1>0 DEF RunOnce, FlightInv, IdleJob, TypeOK
<1> QED
  BY <1>1, <1>2, <1>3, <1>5, <1>6, <1>7 DEF FlightInv, RunOnce

LEMMA NextFlight == TypeOK /\ FlightInv /\ [Next]_vars => FlightInv'
<1> SUFFICES ASSUME TypeOK, FlightInv, [Next]_vars PROVE FlightInv'
  OBVIOUS
<1>1. CASE Tick
  <2>1. CASE ListDue
    <3>1. \A m : ~TickHolds(m)
      BY <2>1 DEF ListDue, TickHolds, IsNext
    <3> QED
      BY <2>1, <3>1, ListFlight DEF ListDue
  <2>2. ASSUME NEW m \in Monitors, SkipInFlight(m) PROVE FlightInv'
    <3>1. ~tick'.waiting /\ \A n : ~TickHolds(n)
      BY <2>2 DEF SkipInFlight, TickHolds, TypeOK
    <3> QED
      BY <2>2, <3>1, ListFlight DEF SkipInFlight
  <2> QED
    BY <1>1, <2>1, <2>2, Marked, Started DEF Tick
<1>2. ASSUME NEW j \in Runners, Process(j) PROVE FlightInv'
  <2>1. CASE Finish(j)
    BY <2>1, Released DEF Finish
  <2>2. CASE ~Finish(j)
    <3>1. UNCHANGED <<inFlight, tick>>
      BY <1>2, <2>2 DEF Process, CreateCheckRun, CheckSucceeds, CheckFails, Save,
                        SaveError, CreateEvent
    <3>2. job[j].stage # "idle" /\ ~job[j].cancelled
      BY <1>2 DEF Process, CreateCheckRun, CheckSucceeds, CheckFails, Save,
                  SaveError, Finish, CreateEvent
    <3>3. \A k \in Runners \ {j} : job'[k] = job[k]
      BY <1>2, <2>2 DEF Process, CreateCheckRun, CheckSucceeds, CheckFails, Save,
                        SaveError, CreateEvent, TypeOK
    <3>4. job'[j].stage # "idle" /\ job'[j].id = job[j].id /\ ~job'[j].cancelled
      <4>1. job[j] \in Jobs
        BY DEF TypeOK
      <4>2. CASE CreateCheckRun(j) \/ CheckFails(j) \/ Save(j) \/ SaveError(j)
        <5>1. PICK stage \in Stages \ {"idle"} : job' = [job EXCEPT ![j].stage = stage]
          BY <4>2 DEF CreateCheckRun, CheckFails, Save, SaveError, Stages
        <5>2. job'[j] = [job[j] EXCEPT !.stage = stage]
          BY <5>1 DEF TypeOK
        <5> QED
          BY <3>2, <4>1, <5>2 DEF Jobs
      <4>3. CASE CheckSucceeds(j)
        <5>1. PICK copy, news : job'[j] = [job[j] EXCEPT !.stage = "save", !.copy = copy, !.news = news]
          BY <4>3 DEF CheckSucceeds, TypeOK
        <5> QED
          BY <3>2, <4>1, <5>1 DEF Jobs
      <4>4. ASSUME NEW i \in Items, CreateEvent(j, i)
            PROVE  job'[j].stage # "idle" /\ job'[j].id = job[j].id /\ ~job'[j].cancelled
        BY <3>2, <4>1, <4>4 DEF CreateEvent, TypeOK, Jobs
      <4> QED
        BY <1>2, <2>2, <4>2, <4>3, <4>4 DEF Process
    <3>5. \A k \in Runners : /\ job'[k].stage = "idle" <=> job[k].stage = "idle"
                             /\ job'[k].id = job[k].id
                             /\ job'[k].cancelled => job'[k].stage # "idle"
      BY <3>2, <3>3, <3>4 DEF FlightInv
    <3> QED
      BY <3>1, <3>5, SameHolders
  <2> QED
    BY <2>1, <2>2
<1>3. ASSUME NEW c \in Callers, Load(c) PROVE FlightInv'
  <2>1. CASE monitor[job[c].id].deleted
    BY <1>3, <2>1, Released DEF Load, Runners
  <2>2. CASE ~monitor[job[c].id].deleted
    <3>1. c \in Runners /\ job[c] \in Jobs
      BY DEF Runners, TypeOK
    <3>2. job'[c].stage = "start" /\ job'[c].id = job[c].id /\ ~job'[c].cancelled
      <4>1. job'[c] = [job[c] EXCEPT !.stage = "start", !.copy = Copy(monitor[job[c].id])]
        BY <1>3, <2>2, <3>1 DEF Load, TypeOK
      <4>2. ~job[c].cancelled
        BY <1>3 DEF Load
      <4> QED
        BY <3>1, <4>1, <4>2 DEF Jobs
    <3>3. \A k \in Runners \ {c} : job'[k] = job[k]
      BY <1>3, <2>2 DEF Load, TypeOK
    <3>4. \A k \in Runners : /\ job'[k].stage = "idle" <=> job[k].stage = "idle"
                             /\ job'[k].id = job[k].id
                             /\ job'[k].cancelled => job'[k].stage # "idle"
      BY <1>3, <3>1, <3>2, <3>3 DEF FlightInv, Load
    <3> QED
      BY <1>3, <2>2, <3>4, SameHolders DEF Load
  <2> QED
    BY <2>1, <2>2
<1>f. ASSUME NEW j \in Runners, Fails(j) PROVE FlightInv'
  <2>1. CASE StatementFails(j)
    BY <2>1, Released DEF StatementFails
  <2>2. ASSUME NEW i \in Items, CreateEventFails(j, i) PROVE FlightInv'
    BY <2>2, SameHolders DEF CreateEventFails, FlightInv, TypeOK, Jobs
  <2> QED
    BY <1>f, <2>1, <2>2 DEF Fails
<1>4. ASSUME NEW c \in Callers, Cancel(c) PROVE FlightInv'
  BY <1>4, SameHolders DEF Cancel, FlightInv, TypeOK, Jobs, Runners
<1>5. ASSUME NEW c \in Callers, Unwind(c) PROVE FlightInv'
  BY <1>5, Released DEF Unwind, FlightInv, Runners
<1>6. CASE Restart
  <2>1. \A m, j : j \in Runners => ~Runs(j, m)'
    BY <1>6 DEF Restart, Runs, IdleJob
  <2>2. \A m : ~TickHolds(m)'
    BY <1>6 DEF Restart, TickHolds, IdleTick
  <2>3. OneCheckAtATime' /\ InFlightIsHeld'
    BY <1>6, <2>1 DEF Restart, OneCheckAtATime, InFlightIsHeld
  <2>4. \A j \in Runners : ~job'[j].cancelled
    BY <1>6 DEF Restart, IdleJob
  <2> QED
    BY <2>1, <2>2, <2>3, <2>4 DEF FlightInv
<1>7. CASE UNCHANGED <<inFlight, tick, job>>
  BY <1>7, SameHolders DEF FlightInv
<1>8. Users \/ (\E m \in Monitors : BecomeDue(m)) \/ (\E c \in Configs, i \in Items : Change(c, i))
        => UNCHANGED <<inFlight, tick, job>>
  BY DEF Users, OpenForm, SaveForm, SetMonitorEnabled, DeleteMonitor, BecomeDue, Change
<1> QED
  BY <1>1, <1>2, <1>3, <1>f, <1>4, <1>5, <1>6, <1>7, <1>8, Called DEF Next, vars

LEMMA FlightInvariant == Spec => []FlightInv
  BY InitFlight, NextFlight, TypeCorrect, PTL DEF Spec

(* However many slots, callers and restarts: a monitor is checked by one   *)
(* goroutine at a time, and none stays in flight when its check is over.   *)
THEOREM ChecksExclude == Spec => [](OneCheckAtATime /\ InFlightIsHeld)
<1>1. FlightInv => OneCheckAtATime /\ InFlightIsHeld
  BY DEF FlightInv
<1> QED
  BY <1>1, FlightInvariant, PTL

-----------------------------------------------------------------------------
(* Archived monitors.                                                      *)

LEMMA ArchivedStep ==
  TypeOK /\ [Next]_vars => \A m \in Monitors : monitor[m].deleted => monitor'[m] = monitor[m]
<1> SUFFICES ASSUME TypeOK, [Next]_vars, NEW m \in Monitors, monitor[m].deleted
             PROVE  monitor'[m] = monitor[m]
  OBVIOUS
<1>1. ASSUME NEW j \in Runners, Process(j) PROVE monitor'[m] = monitor[m]
  BY <1>1 DEF Process, CreateCheckRun, CheckSucceeds, CheckFails, Save, SaveError,
              Finish, CreateEvent, TypeOK
<1>2. ASSUME NEW e \in Editors, SaveForm(e) PROVE monitor'[m] = monitor[m]
  <2>1. CASE form[e].id = m
    BY <1>2, <2>1 DEF SaveForm
  <2>2. CASE form[e].id # m
    BY <1>2, <2>2 DEF SaveForm, TypeOK
  <2> QED
    BY <2>1, <2>2
<1>3. ASSUME NEW n \in Monitors, SetMonitorEnabled(n) \/ DeleteMonitor(n) \/ BecomeDue(n)
      PROVE  monitor'[m] = monitor[m]
  BY <1>3 DEF SetMonitorEnabled, DeleteMonitor, BecomeDue, TypeOK
<1>4. CASE UNCHANGED monitor
  BY <1>4
<1>5. (\/ Tick \/ Restart
       \/ \E n \in Monitors, c \in Callers : RunOnce(n, c)
       \/ \E c \in Callers : Load(c) \/ Cancel(c) \/ Unwind(c)
       \/ \E j \in Runners : Fails(j)
       \/ \E c \in Configs, i \in Items : Change(c, i)
       \/ \E e \in Editors, n \in Monitors, c \in Configs, b \in BOOLEAN : OpenForm(e, n, c, b))
        => UNCHANGED monitor
  BY DEF Tick, ListDue, SkipInFlight, Mark, StartScheduled, Restart, RunOnce, Load,
         Cancel, Unwind, Fails, StatementFails, CreateEventFails, Change, OpenForm
<1> QED
  BY <1>1, <1>2, <1>3, <1>4, <1>5 DEF Next, Users, vars

(* Neither a late check nor an open form changes an archived monitor.      *)
THEOREM ArchivedUntouched == Spec => ArchivedStays
<1>1. TypeOK /\ [Next]_vars
        => [\A m \in Monitors : monitor[m].deleted => monitor'[m] = monitor[m]]_vars
  BY ArchivedStep
<1> QED
  BY <1>1, TypeCorrect, PTL DEF Spec, ArchivedStays

-----------------------------------------------------------------------------
(* News.                                                                   *)

(* Every item ever reported has its event, is still with the check that    *)
(* found it, or was dropped.  A check keeps the news it has saved until    *)
(* each is stored or dropped, so only the steps of a check at its events   *)
(* matter.                                                                 *)
NewsInv ==
  \A m \in Monitors : \A i \in reported[m] :
     \/ events[m][i] > 0
     \/ \E j \in Runners : Runs(j, m) /\ i \in Unstored(j)
     \/ i \in dropped[m]

LEMMA InitNews == Init => NewsInv
  BY DEF Init, NewsInv

\* A step that takes no news from a check that stores them.
LEMMA NewsKept ==
  ASSUME NewsInv, UNCHANGED <<events, reported, dropped>>,
         \A j \in Runners : Unstored(j) # {} => Unstored(j)' = Unstored(j) /\ job'[j].id = job[j].id
  PROVE  NewsInv'
<1>1. ASSUME NEW m \in Monitors, NEW j \in Runners, NEW i, Runs(j, m), i \in Unstored(j)
      PROVE  Runs(j, m)' /\ i \in Unstored(j)'
  BY <1>1 DEF Runs, Unstored
<1> QED
  BY <1>1 DEF NewsInv

\* A check that stores nothing moves on or ends.
LEMMA NewsMoved ==
  ASSUME TypeOK, NewsInv, NEW r \in Runners, Unstored(r) = {}, NEW next,
         job' = [job EXCEPT ![r] = next], UNCHANGED <<events, reported, dropped>>
  PROVE  NewsInv'
<1>1. \A j \in Runners \ {r} : Unstored(j)' = Unstored(j) /\ job'[j].id = job[j].id
  BY DEF TypeOK, Unstored
<1> QED
  BY <1>1, NewsKept

LEMMA NewsSaved == ASSUME TypeOK, NewsInv, NEW r \in Runners, Save(r) PROVE NewsInv'
<1> DEFINE id == job[r].id
<1>1. job'[r] = [job[r] EXCEPT !.stage = "events"] /\ \A j \in Runners \ {r} : job'[j] = job[j]
  BY DEF Save, TypeOK
<1>2. id \in Monitors /\ job[r] \in Jobs
  BY DEF TypeOK, Jobs
<1>3. Unstored(r) = {} /\ Unstored(r)' = job[r].news /\ \A m \in Monitors : m = id => Runs(r, m)'
  BY <1>1, <1>2 DEF Save, Unstored, Runs, Jobs
<1>4. \A j \in Runners \ {r}, m \in Monitors : Unstored(j)' = Unstored(j) /\ (Runs(j, m)' <=> Runs(j, m))
  BY <1>1 DEF Unstored, Runs
<1>5. ASSUME NEW m \in Monitors, NEW i \in reported'[m]
      PROVE  \/ events'[m][i] > 0
             \/ \E j \in Runners : Runs(j, m)' /\ i \in Unstored(j)'
             \/ i \in dropped'[m]
  <2>1. i \in reported[m] \/ (m = id /\ i \in job[r].news)
    BY <1>2, <1>5 DEF Save, TypeOK
  <2>2. CASE m = id /\ i \in job[r].news
    BY <1>3, <2>2
  <2>3. CASE i \in reported[m] /\ ~(m = id /\ i \in job[r].news)
    <3>1. i \in dropped[m] => i \in dropped'[m]
      BY <1>2, <2>3 DEF Save, TypeOK
    <3>2. events' = events
      BY DEF Save
    <3> QED
      BY <1>3, <1>4, <2>3, <3>1, <3>2 DEF NewsInv
  <2> QED
    BY <2>1, <2>2, <2>3
<1> QED
  BY <1>5 DEF NewsInv

\* A check leaves one of its items, stored or dropped.
LEMMA NewsLeft ==
  ASSUME TypeOK, NewsInv, NEW r \in Runners, NEW x \in Items, job[r].stage = "events",
         job' = [job EXCEPT ![r].news = @ \ {x}], reported' = reported,
         \A m \in Monitors, i \in Items : events[m][i] > 0 => events'[m][i] > 0,
         \A m \in Monitors : dropped[m] \subseteq dropped'[m],
         events'[job[r].id][x] > 0 \/ x \in dropped'[job[r].id]
  PROVE  NewsInv'
<1>1. job'[r] = [job[r] EXCEPT !.news = @ \ {x}] /\ \A j \in Runners \ {r} : job'[j] = job[j]
  BY DEF TypeOK
<1>2. job[r] \in Jobs
  BY DEF TypeOK
<1>3. Unstored(r)' = Unstored(r) \ {x} /\ \A m \in Monitors : Runs(r, m)' <=> Runs(r, m)
  BY <1>1, <1>2 DEF Unstored, Runs, Jobs
<1>4. \A j \in Runners \ {r}, m \in Monitors : Unstored(j)' = Unstored(j) /\ (Runs(j, m)' <=> Runs(j, m))
  BY <1>1 DEF Unstored, Runs
<1>5. ASSUME NEW m \in Monitors, NEW i \in reported[m]
      PROVE  \/ events'[m][i] > 0
             \/ \E j \in Runners : Runs(j, m)' /\ i \in Unstored(j)'
             \/ i \in dropped'[m]
  <2>1. i \in Items
    BY <1>5 DEF TypeOK
  <2>2. ASSUME NEW j \in Runners, Runs(j, m), i \in Unstored(j)
        PROVE  \/ events'[m][i] > 0
               \/ Runs(j, m)' /\ i \in Unstored(j)'
               \/ i \in dropped'[m]
    <3>1. CASE j = r /\ i = x
      BY <2>2, <3>1 DEF Runs
    <3>2. CASE j = r /\ i # x
      BY <1>3, <2>2, <3>2
    <3>3. CASE j # r
      BY <1>4, <2>2, <3>3
    <3> QED
      BY <3>1, <3>2, <3>3
  <2> QED
    BY <2>1, <2>2 DEF NewsInv
<1> QED
  BY <1>5 DEF NewsInv

LEMMA NewsStored ==
  ASSUME TypeOK, NewsInv, NEW r \in Runners, NEW x \in Items, CreateEvent(r, x)
  PROVE  NewsInv'
<1> DEFINE id == job[r].id
<1>1. id \in Monitors /\ \A m \in Monitors : events[m] \in [Items -> Nat]
  BY DEF TypeOK, Jobs
<1>2. events'[id][x] > 0 /\ \A m \in Monitors, i \in Items : events[m][i] > 0 => events'[m][i] > 0
  <2>1. CASE events' = [events EXCEPT ![id][x] = @ + 1]
    BY <1>1, <2>1 DEF TypeOK
  <2>2. CASE events[id][x] > 0 /\ UNCHANGED events
    BY <2>2
  <2> QED
    BY <2>1, <2>2 DEF CreateEvent
<1> QED
  BY <1>2, NewsLeft DEF CreateEvent

LEMMA NewsDropped ==
  ASSUME TypeOK, NewsInv, NEW r \in Runners, NEW x \in Items, CreateEventFails(r, x)
  PROVE  NewsInv'
<1>1. job[r].id \in Monitors
  BY DEF TypeOK, Jobs
<1>2. x \in dropped'[job[r].id] /\ \A m \in Monitors : dropped[m] \subseteq dropped'[m]
  BY <1>1 DEF CreateEventFails, TypeOK
<1> QED
  BY <1>2, NewsLeft DEF CreateEventFails

\* Checks that are broken off drop what they have not stored.
LEMMA NewsBrokenOff ==
  ASSUME NewsInv, UNCHANGED <<events, reported>>,
         \A m \in Monitors : dropped[m] \subseteq dropped'[m],
         \A j \in Runners : \/ job'[j] = job[j]
                            \/ job[j].id \in Monitors => Unstored(j) \subseteq dropped'[job[j].id]
  PROVE  NewsInv'
<1>1. ASSUME NEW m \in Monitors, NEW j \in Runners, NEW i, Runs(j, m), i \in Unstored(j)
      PROVE  (Runs(j, m)' /\ i \in Unstored(j)') \/ i \in dropped'[m]
  BY <1>1 DEF Runs, Unstored
<1> QED
  BY <1>1 DEF NewsInv

LEMMA NextNews == TypeOK /\ NewsInv /\ [Next]_vars => NewsInv'
<1> SUFFICES ASSUME TypeOK, NewsInv, [Next]_vars PROVE NewsInv'
  OBVIOUS
<1>1. CASE UNCHANGED <<job, events, reported, dropped>>
  BY <1>1, NewsKept DEF Unstored
<1>2. ASSUME NEW j \in Runners, Process(j) PROVE NewsInv'
  <2>1. CASE CreateCheckRun(j) \/ CheckFails(j) \/ SaveError(j) \/ CheckSucceeds(j) \/ Finish(j)
    <3>1. PICK next : job' = [job EXCEPT ![j] = next]
      BY <2>1 DEF CreateCheckRun, CheckFails, SaveError, CheckSucceeds, Finish
    <3>2. Unstored(j) = {} /\ UNCHANGED <<events, reported, dropped>>
      BY <2>1 DEF Unstored, CreateCheckRun, CheckFails, SaveError, CheckSucceeds, Finish
    <3> QED
      BY <3>1, <3>2, NewsMoved
  <2> QED
    BY <1>2, <2>1, NewsSaved, NewsStored DEF Process
<1>3. ASSUME NEW j \in Runners, Fails(j) PROVE NewsInv'
  <2>1. CASE StatementFails(j)
    BY <2>1, NewsMoved DEF StatementFails, Unstored
  <2> QED
    BY <1>3, <2>1, NewsDropped DEF Fails
<1>4. ASSUME NEW m \in Monitors, NEW s \in Slots, StartScheduled(m, s) PROVE NewsInv'
  BY <1>4, NewsMoved DEF StartScheduled, Unstored, Runners
<1>5. ASSUME NEW c \in Callers, Load(c) \/ \E m \in Monitors : RunOnce(m, c) PROVE NewsInv'
  <2>1. PICK next : job' = [job EXCEPT ![c] = next]
    BY <1>5 DEF Load, RunOnce
  <2>2. c \in Runners /\ Unstored(c) = {} /\ UNCHANGED <<events, reported, dropped>>
    BY <1>5 DEF Runners, Unstored, Load, RunOnce
  <2> QED
    BY <2>1, <2>2, NewsMoved
<1>6. ASSUME NEW c \in Callers, Cancel(c) PROVE NewsInv'
  <2>1. c \in Runners /\ job[c] \in Jobs
    BY DEF Runners, TypeOK
  <2>2. job'[c] = [job[c] EXCEPT !.cancelled = TRUE] /\ \A j \in Runners \ {c} : job'[j] = job[j]
    BY <1>6, <2>1 DEF Cancel, TypeOK
  <2>3. \A j \in Runners : Unstored(j)' = Unstored(j) /\ job'[j].id = job[j].id
    BY <2>1, <2>2 DEF Unstored, Jobs
  <2> QED
    BY <1>6, <2>3, NewsKept DEF Cancel
<1>7. ASSUME NEW c \in Callers, Unwind(c) PROVE NewsInv'
  <2>1. c \in Runners /\ job[c].id \in Monitors
    BY DEF Runners, TypeOK, Jobs
  <2>2. /\ \A m \in Monitors : dropped[m] \subseteq dropped'[m]
        /\ Unstored(c) \subseteq dropped'[job[c].id]
    BY <1>7, <2>1 DEF Unwind, TypeOK
  <2>3. \A j \in Runners \ {c} : job'[j] = job[j]
    BY <1>7 DEF Unwind, TypeOK
  <2> QED
    BY <1>7, <2>2, <2>3, NewsBrokenOff DEF Unwind
<1>8. CASE Restart
  <2>1. /\ \A m \in Monitors : dropped[m] \subseteq dropped'[m]
        /\ \A j \in Runners : job[j].id \in Monitors => Unstored(j) \subseteq dropped'[job[j].id]
    BY <1>8 DEF Restart
  <2> QED
    BY <1>8, <2>1, NewsBrokenOff DEF Restart
<1>9. (Users \/ (\E m \in Monitors : SkipInFlight(m) \/ Mark(m) \/ BecomeDue(m)) \/ ListDue
       \/ \E c \in Configs, i \in Items : Change(c, i))
        => UNCHANGED <<job, events, reported, dropped>>
  BY DEF Users, OpenForm, SaveForm, SetMonitorEnabled, DeleteMonitor, SkipInFlight, Mark,
         BecomeDue, ListDue, Change
<1> QED
  BY <1>1, <1>2, <1>3, <1>4, <1>5, <1>6, <1>7, <1>8, <1>9 DEF Next, Tick, vars

(* Nothing a saved check reported is lost but by a failing insert of its   *)
(* own event or by a check that is broken off before it, whatever users    *)
(* and other checks do meanwhile.                                          *)
THEOREM NewsDelivered == Spec => []NewsAccountedFor
<1>1. NewsInv => NewsAccountedFor
  BY DEF NewsInv, NewsAccountedFor
<1> QED
  BY <1>1, InitNews, NextNews, TypeCorrect, PTL DEF Spec

-----------------------------------------------------------------------------
(* When a check is due (CheckSchedule).                                     *)

ScheduleTyped ==
  /\ monitorId \in Nat /\ interval \in Nat \ {0} /\ switchedOn \in BOOLEAN
  /\ consecutive \in Nat /\ elapsed \in Nat \cup {Unchecked}

-----------------------------------------------------------------------------
LEMMA JitterBounded ==
  ASSUME NEW id \in Nat PROVE Jitter(id) \in -10..10
BY SMT DEF Jitter

LEMMA CapKept ==
  ASSUME NEW n \in Nat, NEW m \in Nat, n <= m
  PROVE  AtMost(n, Cap) \in 0..Cap /\ AtMost(n, Cap) <= AtMost(m, Cap) /\ Cap \in Nat
<1>1. Cap = 21600
  BY SMT DEF Cap
<1>2. CASE n > Cap
  <2>1. AtMost(n, Cap) = Cap
    BY <1>2 DEF AtMost
  <2>2. AtMost(m, Cap) = Cap
    <3>1. m > Cap
      BY <1>1, <1>2, SMT
    <3> QED BY <3>1 DEF AtMost
  <2> QED BY <1>1, <2>1, <2>2, SMTT(20)
<1>3. CASE ~(n > Cap)
  <2>1. AtMost(n, Cap) = n
    BY <1>3 DEF AtMost
  <2>2. AtMost(m, Cap) = m \/ AtMost(m, Cap) = Cap
    BY DEF AtMost
  <2>3. n \in 0..Cap /\ n <= Cap /\ Cap \in Nat
    BY <1>1, <1>3, SMT
  <2> QED BY <2>1, <2>2, <2>3
<1> QED
  BY <1>2, <1>3

LEMMA BackoffBounded ==
  ASSUME NEW s \in Nat \ {0}, NEW f \in Nat
  PROVE  /\ Backoff(s, f) \in Nat
         /\ Backoff(s, f) >= s
         /\ \A g \in 0..f : Backoff(s, g) <= Backoff(s, f)
<1>1. Backoff(s, 0) = s
  BY DEF Backoff
<1>2. ASSUME NEW k \in Nat \ {0}
      PROVE  Backoff(s, k) = s * (IF k = 1 THEN 2 ELSE IF k = 2 THEN 4 ELSE IF k = 3 THEN 8
               ELSE IF k = 4 THEN 16 ELSE IF k = 5 THEN 32 ELSE 64)
  BY <1>2, SMT DEF Backoff, Doubled, AtMost
<1> QED
  BY <1>1, <1>2, SMT

\* Between nine tenths of the interval (or of six hours) and 6.6 hours, and the
\* longer the more checks failed.
LEMMA DueBounded ==
  ASSUME NEW id \in Nat, NEW s \in Nat \ {0}, NEW f \in Nat
  PROVE  /\ dueInterval(id, s, f) >= 90 * AtMost(s, Cap)
         /\ dueInterval(id, s, f) <= 110 * Cap
         /\ dueInterval(id, s, f) \in Int
         /\ \A g \in 0..f : dueInterval(id, s, g) <= dueInterval(id, s, f)
<1> DEFINE j == Jitter(id)
<1>1. j \in -10..10
  BY JitterBounded
<1>2. ASSUME NEW b \in 0..Cap, NEW c \in 0..Cap, c <= b
      PROVE  /\ 90 * b <= b * (100 + j) /\ b * (100 + j) <= 110 * b
             /\ c * (100 + j) <= b * (100 + j)
  <2> HIDE DEF j
  <2> QED BY <1>1, <1>2, SMTT(20) DEF Cap
<1>3. ASSUME NEW g \in 0..f
      PROVE  /\ AtMost(Backoff(s, g), Cap) \in 0..Cap
             /\ AtMost(Backoff(s, g), Cap) <= AtMost(Backoff(s, f), Cap)
  <2>1. g \in Nat /\ Backoff(s, f) \in Nat /\ Backoff(s, g) <= Backoff(s, f)
    BY BackoffBounded, SMT
  <2>2. Backoff(s, g) \in Nat
    BY <2>1, BackoffBounded
  <2> QED BY <2>1, <2>2, CapKept
<1>4. \A g \in 0..f : dueInterval(id, s, g) = AtMost(Backoff(s, g), Cap) * (100 + j)
  BY DEF dueInterval
<1>5. AtMost(s, Cap) <= AtMost(Backoff(s, f), Cap) /\ AtMost(s, Cap) \in Nat
  <2>1. Backoff(s, f) \in Nat /\ Backoff(s, f) >= s
    BY BackoffBounded
  <2> QED BY <2>1, SMT DEF AtMost, Cap
<1> HIDE DEF j
<1>6. f \in 0..f
  BY SMT
<1>7. \A g \in 0..f : dueInterval(id, s, g) <= dueInterval(id, s, f)
  BY <1>2, <1>3, <1>4, <1>6
<1>8. AtMost(Backoff(s, f), Cap) \in 0..Cap /\ Cap \in Nat
  <2>1. Cap \in Nat
    BY SMT DEF Cap
  <2> QED BY <1>3, <1>6, <2>1
<1>9. /\ dueInterval(id, s, f) >= 90 * AtMost(Backoff(s, f), Cap)
      /\ dueInterval(id, s, f) <= 110 * AtMost(Backoff(s, f), Cap)
      /\ dueInterval(id, s, f) \in Int
  <2>1. /\ 90 * AtMost(Backoff(s, f), Cap) <= AtMost(Backoff(s, f), Cap) * (100 + j)
        /\ AtMost(Backoff(s, f), Cap) * (100 + j) <= 110 * AtMost(Backoff(s, f), Cap)
    BY <1>2, <1>8, SMT
  <2> QED BY <2>1, <1>1, <1>4, <1>6, <1>8, SMT
<1>10. /\ dueInterval(id, s, f) >= 90 * AtMost(s, Cap)
       /\ dueInterval(id, s, f) <= 110 * Cap
  BY <1>5, <1>8, <1>9, SMT
<1> QED
  BY <1>7, <1>9, <1>10

LEMMA ScheduleInitTyped == ScheduleInit => ScheduleTyped
BY ScheduleAssumption DEF ScheduleInit, ScheduleTyped

LEMMA ScheduleNextTyped ==
  ScheduleTyped /\ [ScheduleNext]_scheduleVars => ScheduleTyped'
<1> SUFFICES ASSUME ScheduleTyped, [ScheduleNext]_scheduleVars PROVE ScheduleTyped'
  OBVIOUS
<1>1. ASSUME NEW ok \in BOOLEAN, Checked(ok) PROVE ScheduleTyped'
  BY <1>1, SMT DEF ScheduleTyped, Checked
<1>2. CASE DueTick \/ RunNow
  BY <1>1, <1>2 DEF DueTick, RunNow
<1>3. CASE Wait
  BY <1>3, ScheduleAssumption DEF ScheduleTyped, Wait
<1>4. ASSUME NEW reset \in BOOLEAN, EditSchedule(reset) PROVE ScheduleTyped'
  BY <1>4, ScheduleAssumption DEF ScheduleTyped, EditSchedule
<1>5. CASE SwitchMonitor
  BY <1>5 DEF ScheduleTyped, SwitchMonitor
<1>6. CASE UNCHANGED scheduleVars
  BY <1>6 DEF ScheduleTyped, scheduleVars
<1> QED
  BY <1>2, <1>3, <1>4, <1>5, <1>6 DEF ScheduleNext

\* Whatever is edited, fails or is switched, a monitor falls due within the
\* bounds of IntervalBounds (dueInterval), for every interval the form accepts.
THEOREM PaceBounded == ScheduleSpec => []IntervalBounds
<1>1. ScheduleTyped => IntervalBounds
  <2> SUFFICES ASSUME ScheduleTyped, elapsed # Unchecked
               PROVE  /\ isDue => elapsed >= 90 * AtMost(interval, Cap)
                      /\ switchedOn /\ elapsed >= 110 * Cap => isDue
                      /\ isDue => \A fewer \in 0..consecutive :
                           elapsed >= dueInterval(monitorId, interval, fewer)
    BY DEF IntervalBounds
  <2> DEFINE due(f) == dueInterval(monitorId, interval, f)
  <2>1. elapsed \in Nat /\ consecutive \in Nat /\ interval \in Nat \ {0} /\ monitorId \in Nat
    BY DEF ScheduleTyped
  <2>2. \A f \in 0..consecutive : due(f) \in Int
    BY <2>1, DueBounded, SMT
  <2>3. /\ due(consecutive) >= 90 * AtMost(interval, Cap)
        /\ due(consecutive) <= 110 * Cap
        /\ \A f \in 0..consecutive : due(f) <= due(consecutive)
    BY <2>1, DueBounded
  <2>4. AtMost(interval, Cap) \in Nat /\ Cap \in Nat
    BY <2>1, SMT DEF AtMost, Cap
  <2> HIDE DEF due
  <2>5. isDue <=> switchedOn /\ elapsed >= due(consecutive)
    BY DEF isDue, due
  <2>6. isDue => \A fewer \in 0..consecutive : elapsed >= due(fewer)
    BY <2>1, <2>2, <2>3, <2>5, SMT
  <2>7. /\ isDue => elapsed >= 90 * AtMost(interval, Cap)
        /\ switchedOn /\ elapsed >= 110 * Cap => isDue
    BY <2>1, <2>2, <2>3, <2>4, <2>5, SMT
  <2> QED BY <2>6, <2>7 DEF due
<1> QED
  BY <1>1, ScheduleInitTyped, ScheduleNextTyped, PTL DEF ScheduleSpec
=============================================================================
