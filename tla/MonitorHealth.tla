------------------------------ MODULE MonitorHealth ------------------------------
(* The health of one monitor: its checks count failures, open an incident once    *)
(* the count reaches the monitor's threshold, and close it with the next success.  *)
(* One check at a time (CheckCycle); what becomes of the alerts themselves is      *)
(* part of NotificationRetry.                                                      *)
EXTENDS Naturals

CONSTANTS AlertChannels,
          MaxThreshold,              \* bound of failure_alert_after
          MaxForms, MaxBreaks        \* bounds

ASSUME HealthAssumption ==
  MaxThreshold \in Nat \ {0} /\ MaxForms \in Nat /\ MaxBreaks \in Nat

VARIABLES health,          \* the monitor's row
          reachable,       \* state of each channel
          sourceUp,        \* whether a check of the source succeeds
          checking,        \* where the monitor's check is
          forms, breaks                        \* bounded

healthVars == <<health, reachable, sourceUp, checking, forms, breaks>>

\* Above every threshold failures are all alike.
MostFailures == MaxThreshold + 1

\* failures: consecutive_failures; after: failure_alert_after, 0 for no alerts;
\* incident: failure_alert_active.
HealthRows == [failures: 0..MostFailures, after: 0..MaxThreshold,
               to: SUBSET AlertChannels, incident: BOOLEAN, archived: BOOLEAN]

NoCheck == [at |-> "idle", ok |-> TRUE, to |-> {}]

HealthInit ==
  /\ health \in HealthRows
  /\ health.failures = 0 /\ ~health.incident /\ ~health.archived
  /\ health.after > 0 => health.to # {}
  /\ reachable = [c \in AlertChannels |-> "enabled"]
  /\ sourceUp \in BOOLEAN
  /\ checking = NoCheck
  /\ forms = 0 /\ breaks = 0

Reaches(cs) == {c \in cs : reachable[c] = "enabled"}

OverdueExactly(row) == row.failures = row.after     \* mutant: only at the limit

\* The threshold is reached, or has been passed without an alert.
Overdue(row) == row.failures >= row.after

MayOpen(row) == ~row.archived /\ ~row.incident /\ row.after > 0 /\ Overdue(row)

MayClose(row) == ~row.archived /\ row.incident

Concerned == IF checking.ok THEN MayClose(health) ELSE MayOpen(health)

-----------------------------------------------------------------------------
(* processMonitor, one statement after the other.                           *)

ProceedTo(at, cs) == checking' = [checking EXCEPT !.at = at, !.to = cs]

EndAlerts == checking' = NoCheck

CheckSource ==
  /\ checking.at = "idle" /\ ~health.archived
  /\ checking' = [at |-> "checked", ok |-> sourceUp, to |-> {}]
  /\ UNCHANGED <<health, reachable, sourceUp, forms, breaks>>

\* UpdateMonitorCheckResult, which leaves an archived row alone.
SaveResult ==
  /\ checking.at = "checked"
  /\ health' = [health EXCEPT !.failures =
       IF health.archived THEN @
       ELSE IF checking.ok THEN 0
       ELSE IF @ = MostFailures THEN @ ELSE @ + 1]
  /\ ProceedTo("saved", {})
  /\ UNCHANGED <<reachable, sourceUp, forms, breaks>>

\* GetMonitor: the row as it is now decides whether there is an alert.
ReadHealth ==
  /\ checking.at = "saved"
  /\ IF Concerned THEN ProceedTo("read", health.to) ELSE EndAlerts
  /\ UNCHANGED <<health, reachable, sourceUp, forms, breaks>>

ListChannelsAlways ==            \* mutant: without a channel nothing changes
  /\ checking.at = "read"
  /\ IF Reaches(checking.to) = {}
     THEN EndAlerts ELSE ProceedTo("listed", Reaches(checking.to))
  /\ UNCHANGED <<health, reachable, sourceUp, forms, breaks>>

\* ListNotifyChannelsByIDs: a failure nobody can be told of is left for the next
\* check, a success closes the incident all the same.
ListChannels ==
  /\ checking.at = "read"
  /\ IF Reaches(checking.to) = {} /\ ~checking.ok
     THEN EndAlerts ELSE ProceedTo("listed", Reaches(checking.to))
  /\ UNCHANGED <<health, reachable, sourceUp, forms, breaks>>

\* TryActivateMonitorFailureAlert asks again; the alerts follow.
TryActivate ==
  /\ checking.at = "listed" /\ ~checking.ok
  /\ health' = [health EXCEPT !.incident = @ \/ MayOpen(health)]
  /\ EndAlerts
  /\ UNCHANGED <<reachable, sourceUp, forms, breaks>>

\* TryClearMonitorFailureAlert.
TryClear ==
  /\ checking.at = "listed" /\ checking.ok
  /\ health' = [health EXCEPT !.incident = @ /\ ~MayClose(health)]
  /\ EndAlerts
  /\ UNCHANGED <<reachable, sourceUp, forms, breaks>>

\* The process dies, the request is cut off, or a statement fails: what was
\* written stays, the rest of the alerts is left out.
BreakOff ==
  /\ checking.at # "idle" /\ breaks < MaxBreaks
  /\ breaks' = breaks + 1
  /\ EndAlerts
  /\ UNCHANGED <<health, reachable, sourceUp, forms>>

-----------------------------------------------------------------------------
(* The source, and the configuration.                                       *)

SourceChanges ==
  /\ sourceUp' = ~sourceUp
  /\ UNCHANGED <<health, reachable, checking, forms, breaks>>

Form == /\ forms < MaxForms /\ ~health.archived
        /\ forms' = forms + 1
        /\ UNCHANGED <<sourceUp, checking, breaks>>

\* UpdateMonitor; another configuration starts over.
EditAlerts(after, cs, another) ==
  /\ Form
  /\ after > 0 => cs # {}
  /\ \A c \in cs : reachable[c] # "archived"
  /\ health' = [health EXCEPT !.after = after, !.to = cs,
                  !.failures = IF another THEN 0 ELSE @,
                  !.incident = @ /\ after > 0 /\ ~another]
  /\ UNCHANGED reachable

\* UpdateNotifyChannel.
SwitchChannel(c) ==
  /\ Form
  /\ reachable[c] # "archived"
  /\ reachable' = [reachable EXCEPT ![c] = IF @ = "enabled" THEN "disabled" ELSE "enabled"]
  /\ UNCHANGED health

\* DeleteNotifyChannel; with the last channel the alerts end.
DropChannel(c) ==
  /\ Form
  /\ reachable[c] # "archived"
  /\ reachable' = [reachable EXCEPT ![c] = "archived"]
  /\ health' = IF health.to = {c}
               THEN [health EXCEPT !.to = {}, !.after = 0, !.incident = FALSE]
               ELSE [health EXCEPT !.to = @ \ {c}]

\* DeleteMonitor.
ArchiveHealth ==
  /\ Form
  /\ health' = [health EXCEPT !.archived = TRUE]
  /\ UNCHANGED reachable

-----------------------------------------------------------------------------
CheckHealth ==
  \/ CheckSource \/ SaveResult \/ ReadHealth \/ ListChannels
  \/ TryActivate \/ TryClear

HealthNext ==
  \/ CheckHealth \/ BreakOff \/ SourceChanges \/ ArchiveHealth
  \/ \E after \in 0..MaxThreshold, cs \in SUBSET AlertChannels, another \in BOOLEAN :
       EditAlerts(after, cs, another)
  \/ \E c \in AlertChannels : SwitchChannel(c) \/ DropChannel(c)

\* The monitor is checked again and again, and statements return.
HealthFairness == WF_healthVars(CheckHealth)

HealthSpec == HealthInit /\ [][HealthNext]_healthVars /\ HealthFairness

-----------------------------------------------------------------------------
(* Properties.                                                              *)

CanAlert == ~health.archived /\ health.after > 0 /\ Reaches(health.to) # {}

\* A source that stays down has an incident in the end, although the check that
\* reached the threshold died before it opened one, the threshold was moved
\* or no channel was enabled at that time (sendMonitorFailureAlert, "so a later
\* failed check can try again").
FailingIsAnnounced == <>[](~sourceUp /\ CanAlert) => <>[]health.incident

\* A source that stays up has none in the end, although the check that found
\* it up died after it had reset the count, and whether or not anybody can be
\* told (sendMonitorRecoveryAlert).
HealthyIsClosed == <>[](sourceUp /\ ~health.archived) => <>[]~health.incident
=============================================================================
