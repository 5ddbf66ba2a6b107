----------------------------- MODULE CheckSchedule ------------------------------
(* When a monitor's next check is due: its interval, doubled by failures, capped *)
(* and spread by its id.  Intervals are seconds, what is derived from them       *)
(* hundredths of a second, in which the jitter's percentages are exact.          *)
EXTENDS Integers

CONSTANTS MonitorIds,
          Intervals,       \* what the form accepts: 30 seconds to 30 days
          Times,           \* hundredths of a second after a check at which a tick looks
          Unchecked,       \* last_checked_at is NULL
          MaxFailures      \* bound

ASSUME ScheduleAssumption ==
  /\ MonitorIds \subseteq Nat /\ Intervals \subseteq Nat \ {0} /\ Times \subseteq Nat
  /\ Unchecked \notin Nat /\ MaxFailures \in Nat

VARIABLES monitorId, switchedOn, interval,
          consecutive,     \* consecutive_failures
          elapsed          \* since last_checked_at

scheduleVars == <<monitorId, switchedOn, interval, consecutive, elapsed>>

Cap == 6 * 3600
Doubled == <<2, 4, 8, 16, 32, 64>>           \* 1 << failures

AtMost(n, limit) == IF n > limit THEN limit ELSE n

Backoff(seconds, failures) ==
  LET base == IF seconds <= 0 THEN 300 ELSE seconds
  IN IF failures > 0 THEN base * Doubled[AtMost(failures, 6)] ELSE base

Jitter(id) == ((id * 37) % 21) - 10

dueIntervalUncapped(id, seconds, failures) ==     \* mutant: the cap comes first
  Backoff(AtMost(seconds, Cap), failures) * (100 + Jitter(id))

dueInterval(id, seconds, failures) ==
  AtMost(Backoff(seconds, failures), Cap) * (100 + Jitter(id))

isDue ==
  switchedOn /\ IF elapsed = Unchecked THEN TRUE
             ELSE elapsed >= dueInterval(monitorId, interval, consecutive)

-----------------------------------------------------------------------------
ScheduleInit ==
  /\ monitorId \in MonitorIds /\ interval \in Intervals /\ switchedOn \in BOOLEAN
  /\ consecutive = 0 /\ elapsed = Unchecked

\* UpdateMonitorAfterCheck
Checked(ok) ==
  /\ ok \/ consecutive < MaxFailures
  /\ consecutive' = IF ok THEN 0 ELSE consecutive + 1
  /\ elapsed' = 0
  /\ UNCHANGED <<monitorId, switchedOn, interval>>

\* enqueueDue finds the monitor due; RunOnce does not ask.
DueTick == isDue /\ \E ok \in BOOLEAN : Checked(ok)
RunNow == \E ok \in BOOLEAN : Checked(ok)

Wait ==
  /\ elapsed # Unchecked
  /\ \E t \in Times : t > elapsed /\ elapsed' = t
  /\ UNCHANGED <<monitorId, switchedOn, interval, consecutive>>

\* UpdateMonitor, which starts over when the configuration is another one, and
\* the switch.
EditSchedule(reset) ==
  /\ interval' \in Intervals
  /\ IF reset THEN consecutive' = 0 /\ elapsed' = Unchecked
              ELSE UNCHANGED <<consecutive, elapsed>>
  /\ UNCHANGED <<monitorId, switchedOn>>

SwitchMonitor == switchedOn' = ~switchedOn /\ UNCHANGED <<monitorId, interval, consecutive, elapsed>>

ScheduleNext ==
  \/ DueTick \/ RunNow \/ Wait \/ SwitchMonitor
  \/ \E reset \in BOOLEAN : EditSchedule(reset)

ScheduleSpec == ScheduleInit /\ [][ScheduleNext]_scheduleVars

-----------------------------------------------------------------------------
(* Properties.                                                              *)

\* Whatever the interval, the failures and the id: a monitor falls due no sooner
\* than nine tenths of its interval (or of six hours) after its last check, no
\* later than six hours and a tenth after it, and failing more never brings the
\* next check forward (dueInterval: default, doubling, cap, jitter, in that order).
IntervalBounds ==
  elapsed # Unchecked =>
    /\ isDue => elapsed >= 90 * AtMost(interval, Cap)
    /\ switchedOn /\ elapsed >= 110 * Cap => isDue
    /\ isDue => \A fewer \in 0..consecutive :
                 elapsed >= dueInterval(monitorId, interval, fewer)
=============================================================================
