------------------------------ MODULE RuleDispatch ------------------------------
(* dispatchEvent: one event against the rules of its monitor.  A rule is locked, *)
(* read again, judged and its channels are notified before the next one; the     *)
(* cooldown counts from the last notification that got through.  Dispatches of   *)
(* several events, and of one whose claim is old, run at once, and an event      *)
(* whose dispatch fails comes again.  Meanwhile retries of earlier messages get  *)
(* through, rules are edited and channels are switched.                          *)
EXTENDS Naturals, FiniteSets

CONSTANTS Dispatchers,     \* the dispatches at work at once
          News,            \* events to dispatch
          Rules,           \* ids of the monitor's rules, a set of numbers
          Receivers,       \* the channels of each rule
          NoRule, NoNews, NoOne,
          NeverFired,      \* last_fired_at is NULL
          Cooldown,        \* cooldown_seconds of the rules
          MaxNow, MaxSurprises             \* bounds

ASSUME DispatchAssumption ==
  /\ Rules \subseteq Nat /\ NoRule \notin Rules /\ NoNews \notin News
  /\ NoOne \notin Dispatchers /\ NeverFired \notin Nat
  /\ Cooldown \in Nat

VARIABLES rules,           \* the rows of the rules
          ruleLocks,       \* who holds the mutex of each rule
          job,             \* what each dispatch does
          outbox,          \* the events' state
          evaluations,     \* outcomes in rule_evaluations, by event and rule
          enabled,         \* the channels that are enabled and not archived
          stamps,          \* times that retries have read and may yet write, by rule
          recorded,        \* history: channels with a row of an attempt, by event and rule
          lastRound,       \* history: the last recorded firing of a dispatch
          setBack,         \* history: rules whose firing a retry has set back since
          formed,          \* history: rules that were edited
          switched,        \* history: channels that were switched or archived
          now, surprises                   \* bounded

firings == <<rules, lastRound, setBack>>
around == <<enabled, stamps, formed, switched>>

dispatchVars == <<rules, ruleLocks, job, outbox, evaluations, enabled, stamps,
                  recorded, lastRound, setBack, formed, switched, now, surprises>>

\* active: the rule is not archived, enabled and lists the monitor.
RuleRow == [active: BOOLEAN, fired: Nat \cup {NeverFired}]

\* fired: the last firing as it was read, from "stamped" on the one to be written.
Jobs == [at: {"free", "listed", "locked", "read", "sending", "stamped"},
         news: News \cup {NoNews}, todo: SUBSET Rules, rule: Rules \cup {NoRule},
         fired: Nat \cup {NeverFired}, left: SUBSET Receivers,
         through: BOOLEAN, lost: BOOLEAN]

NoJob == [at |-> "free", news |-> NoNews, todo |-> {}, rule |-> NoRule,
          fired |-> NeverFired, left |-> {}, through |-> FALSE, lost |-> FALSE]

DispatchInit ==
  /\ rules = [r \in Rules |-> [active |-> TRUE, fired |-> NeverFired]]
  /\ ruleLocks = [r \in Rules |-> NoOne]
  /\ job = [d \in Dispatchers |-> NoJob]
  /\ outbox = [n \in News |-> "pending"]
  /\ evaluations = [n \in News |-> [r \in Rules |-> {}]]
  /\ enabled = Receivers
  /\ stamps = [r \in Rules |-> {}]
  /\ recorded = [n \in News |-> [r \in Rules |-> {}]]
  /\ lastRound = [r \in Rules |-> NeverFired]
  /\ setBack = {} /\ formed = {} /\ switched = {}
  /\ now = 0 /\ surprises = 0

Doing(d, at) == job[d].at = at

\* A statement fails, or something else comes in between.
Surprise == surprises < MaxSurprises /\ surprises' = surprises + 1

Evaluation(n, r, outcome) ==
  evaluations' = [evaluations EXCEPT ![n][r] = @ \cup {outcome}]

NextRuleLocked(d) ==             \* mutant: an early exit keeps the lock
  /\ UNCHANGED ruleLocks
  /\ job' = [job EXCEPT ![d] = [job[d] EXCEPT !.at = "listed", !.rule = NoRule,
               !.todo = @ \ {job[d].rule}, !.fired = NeverFired, !.left = {},
               !.through = FALSE]]

\* ruleLock.Unlock() and the next rule.
NextRule(d) ==
  /\ ruleLocks' = [ruleLocks EXCEPT ![job[d].rule] = NoOne]
  /\ job' = [job EXCEPT ![d] = [job[d] EXCEPT !.at = "listed", !.rule = NoRule,
               !.todo = @ \ {job[d].rule}, !.fired = NeverFired, !.left = {},
               !.through = FALSE]]

\* dispatchEvent returns: MarkOutboxProcessed or MarkOutboxFailed.
Return(d, ok) ==
  /\ outbox' = [outbox EXCEPT ![job[d].news] = IF ok THEN "processed" ELSE "pending"]
  /\ job' = [job EXCEPT ![d] = NoJob]

-----------------------------------------------------------------------------
\* ListRulesForMonitor: the enabled rules that list the monitor.  An event whose
\* dispatch was killed is claimed once more after five minutes, and so is one
\* whose dispatch takes longer.
ListRules(d, n) ==
  /\ Doing(d, "free") /\ outbox[n] \in {"pending", "processing"}
  /\ IF \E x \in Dispatchers : job[x].news = n THEN Surprise ELSE UNCHANGED surprises
  /\ outbox' = [outbox EXCEPT ![n] = "processing"]
  /\ job' = [job EXCEPT ![d].at = "listed", ![d].news = n,
                        ![d].todo = {r \in Rules : rules[r].active}]
  /\ UNCHANGED <<ruleLocks, evaluations, recorded, firings, around, now>>

\* The next rule in the order of the listing, by id.
Upcoming(d) == {r \in job[d].todo : \A q \in job[d].todo : r <= q}

LockListed(d) ==                 \* mutant: the rule is judged as it was listed
  /\ Doing(d, "listed")
  /\ \E r \in Upcoming(d) :
       IF job[d].rule # r
       THEN /\ job' = [job EXCEPT ![d].rule = r, ![d].fired = rules[r].fired]
            /\ UNCHANGED ruleLocks
       ELSE /\ ruleLocks[r] = NoOne
            /\ ruleLocks' = [ruleLocks EXCEPT ![r] = d]
            /\ job' = [job EXCEPT ![d].at = "read"]
  /\ UNCHANGED <<outbox, evaluations, recorded, firings, around, now, surprises>>

LockRule(d) ==
  /\ Doing(d, "listed")
  /\ \E r \in Upcoming(d) :
       /\ ruleLocks[r] = NoOne
       /\ ruleLocks' = [ruleLocks EXCEPT ![r] = d]
       /\ job' = [job EXCEPT ![d].at = "locked", ![d].rule = r]
  /\ UNCHANGED <<outbox, evaluations, recorded, firings, around, now, surprises>>

\* GetRule: archived, disabled or moved rules are passed over.
ReadRule(d) ==
  LET r == job[d].rule IN
  /\ Doing(d, "locked")
  /\ IF rules[r].active
     THEN /\ job' = [job EXCEPT ![d].at = "read", ![d].fired = rules[r].fired]
          /\ UNCHANGED ruleLocks
     ELSE NextRule(d)
  /\ UNCHANGED <<outbox, evaluations, recorded, firings, around, now, surprises>>

Cooling(d) ==
  job[d].fired \in {t \in 0..now : now - t < Cooldown}

\* The rule sends nothing: cooldown, no match, quiet hours, no enabled channel,
\* or an error in the rule, its template or the data.
Pass(d) ==
  /\ Doing(d, "read")
  /\ \E outcome \in IF Cooling(d) THEN {"cooldown"}
                    ELSE {"error", "not_matched", "skipped"} :
       Evaluation(job[d].news, job[d].rule, outcome)
  /\ NextRule(d)
  /\ UNCHANGED <<outbox, recorded, firings, around, now, surprises>>

\* ListNotifyChannelsByIDs: the channels that are enabled at this moment.
Match(d) ==
  /\ Doing(d, "read") /\ ~Cooling(d) /\ enabled # {}
  /\ Evaluation(job[d].news, job[d].rule, "matched")
  /\ job' = [job EXCEPT ![d].at = "sending", ![d].left = enabled]
  /\ UNCHANGED <<ruleLocks, outbox, recorded, firings, around, now, surprises>>

PassOverFault(d) ==              \* mutant: an error moves on to the next rule
  /\ Doing(d, "locked") \/ Doing(d, "read")
  /\ Surprise
  /\ NextRule(d)
  /\ UNCHANGED <<outbox, evaluations, recorded, firings, around, now>>

\* ListRulesForMonitor, GetRule, ListNotifyChannelsByIDs or CreateRuleEvaluation
\* fails: so does the dispatch.
GiveUp(d) ==
  /\ job[d].at \in {"listed", "locked", "read"}
  /\ Surprise
  /\ ruleLocks' = [r \in Rules |-> IF ruleLocks[r] = d THEN NoOne ELSE ruleLocks[r]]
  /\ Return(d, FALSE)
  /\ UNCHANGED <<evaluations, recorded, firings, around, now>>

\* sendAndRecord: the channel answers well or badly, and that is recorded.
Notify(d, c) ==
  /\ Doing(d, "sending") /\ c \in job[d].left
  /\ \E sent \in BOOLEAN :
       job' = [job EXCEPT ![d].left = @ \ {c}, ![d].through = @ \/ sent]
  /\ recorded' = [recorded EXCEPT ![job[d].news][job[d].rule] = @ \cup {c}]
  /\ UNCHANGED <<ruleLocks, outbox, evaluations, firings, around, now, surprises>>

NotifyUnnoticed(d, c) ==         \* mutant: the error is not joined
  /\ Doing(d, "sending") /\ c \in job[d].left
  /\ Surprise
  /\ job' = [job EXCEPT ![d].left = @ \ {c}]
  /\ UNCHANGED <<ruleLocks, outbox, evaluations, recorded, firings, around, now>>

\* The attempt is not recorded: joined to dispatchErr, the next channel goes on.
NotifyUnrecorded(d, c) ==
  /\ Doing(d, "sending") /\ c \in job[d].left
  /\ Surprise
  /\ job' = [job EXCEPT ![d].left = @ \ {c}, ![d].lost = TRUE]
  /\ UNCHANGED <<ruleLocks, outbox, evaluations, recorded, firings, around, now>>

\* Some channel got the message: the clock is read ...
StampRound(d) ==
  /\ Doing(d, "sending") /\ job[d].left = {} /\ job[d].through
  /\ job' = [job EXCEPT ![d].at = "stamped", ![d].fired = now]
  /\ UNCHANGED <<ruleLocks, outbox, evaluations, recorded, firings, around, now,
                 surprises>>

\* ... and UpdateRuleFiredAt writes it; that this fails is only logged.
EndRule(d) ==
  LET r == job[d].rule IN
  /\ \/ /\ Doing(d, "stamped")
        /\ rules' = [rules EXCEPT ![r].fired = job[d].fired]
        /\ lastRound' = [lastRound EXCEPT ![r] = job[d].fired]
        /\ setBack' = setBack \ {r}
        /\ UNCHANGED surprises
     \/ /\ Doing(d, "stamped") /\ Surprise
        /\ UNCHANGED firings
     \/ /\ Doing(d, "sending") /\ job[d].left = {} /\ ~job[d].through
        /\ UNCHANGED <<firings, surprises>>
  /\ NextRule(d)
  /\ UNCHANGED <<outbox, evaluations, recorded, around, now>>

EndDispatch(d) ==
  /\ Doing(d, "listed") /\ job[d].todo = {}
  /\ Return(d, ~job[d].lost)
  /\ UNCHANGED <<ruleLocks, evaluations, recorded, firings, around, now, surprises>>

-----------------------------------------------------------------------------
\* retryAttempt: a retry that got through reads the clock and, without the rule's
\* lock, sets last_fired_at to it at some later time, or fails to.
RetryGetsThrough(r) ==
  /\ Surprise
  /\ stamps' = [stamps EXCEPT ![r] = @ \cup {now}]
  /\ UNCHANGED <<ruleLocks, job, outbox, evaluations, enabled, recorded, firings,
                 formed, switched, now>>

\* Other retries may have read the same time: it may be written again.
RetryWrites(r) ==
  /\ \E t \in stamps[r] :
       /\ rules' = [rules EXCEPT ![r].fired = t]
       /\ setBack' = IF lastRound[r] # NeverFired /\ t < lastRound[r]
                     THEN setBack \cup {r} ELSE setBack
       /\ stamps' \in {stamps, [stamps EXCEPT ![r] = @ \ {t}]}
  /\ UNCHANGED <<ruleLocks, job, outbox, evaluations, enabled, recorded, lastRound,
                 formed, switched, now, surprises>>

\* UpdateRule and DeleteRule.
EditRule(r) ==
  /\ Surprise
  /\ rules' = [rules EXCEPT ![r].active = ~@]
  /\ formed' = formed \cup {r}
  /\ UNCHANGED <<ruleLocks, job, outbox, evaluations, enabled, stamps, recorded,
                 lastRound, setBack, switched, now>>

\* UpdateNotifyChannel, and DeleteNotifyChannel as to what dispatches see of it.
SwitchReceiver(c) ==
  /\ Surprise
  /\ enabled' = IF c \in enabled THEN enabled \ {c} ELSE enabled \cup {c}
  /\ switched' = switched \cup {c}
  /\ UNCHANGED <<ruleLocks, job, outbox, evaluations, stamps, recorded, firings,
                 formed, now>>

\* The process ends; what was at work stays "processing".
Killed ==
  /\ Surprise
  /\ \E d \in Dispatchers : ~Doing(d, "free")
  /\ job' = [d \in Dispatchers |-> NoJob]
  /\ ruleLocks' = [r \in Rules |-> NoOne]
  /\ stamps' = [r \in Rules |-> {}]
  /\ UNCHANGED <<outbox, evaluations, enabled, recorded, firings, formed, switched,
                 now>>

PassTime ==
  /\ now < MaxNow
  /\ now' = now + 1
  /\ UNCHANGED <<ruleLocks, job, outbox, evaluations, recorded, firings, around,
                 surprises>>

-----------------------------------------------------------------------------
WorkOn(d) ==
  \/ LockRule(d) \/ ReadRule(d) \/ Pass(d) \/ Match(d) \/ GiveUp(d)
  \/ StampRound(d) \/ EndRule(d) \/ EndDispatch(d)
  \/ \E c \in Receivers : Notify(d, c) \/ NotifyUnrecorded(d, c)

DispatchNext ==
  \/ \E d \in Dispatchers : WorkOn(d) \/ \E n \in News : ListRules(d, n)
  \/ \E r \in Rules : EditRule(r) \/ RetryGetsThrough(r) \/ RetryWrites(r)
  \/ \E c \in Receivers : SwitchReceiver(c)
  \/ Killed \/ PassTime

\* Statements return, sends have deadlines.
DispatchFairness == \A d \in Dispatchers : WF_dispatchVars(WorkOn(d))

DispatchSpec == DispatchInit /\ [][DispatchNext]_dispatchVars /\ DispatchFairness

-----------------------------------------------------------------------------
(* Properties.                                                              *)

\* Two dispatches never notify for one rule within its cooldown: whoever is
\* sending got past the last recorded firing by the whole cooldown, unless a
\* retry that had read the clock before that firing has written since, and is
\* alone (ruleDispatchLock, GetRule under the lock, the unlocked write of
\* retryAttempt).
CooldownKept ==
  [][\A d \in Dispatchers :
       Doing(d, "read") /\ job'[d].at = "sending" =>
         /\ job[d].rule \in setBack
            \/ lastRound[job[d].rule] \notin {t \in 0..now : now - t < Cooldown}
         /\ \A x \in Dispatchers \ {d} :
              ~(job[x].at \in {"sending", "stamped"} /\ job[x].rule = job[d].rule)
    ]_dispatchVars

\* An event is processed only after every rule that listed its monitor all the
\* time has an evaluation for it, whatever fails in between (dispatchEvent
\* returns at the first evaluation it cannot record).
NoRuleForgotten ==
  \A n \in News : outbox[n] = "processed" =>
    \A r \in Rules \ formed : evaluations[n][r] # {}

\* No channel is forgotten in silence: when an event is processed, every channel
\* that was enabled all the time has a row of an attempt for it and the rule, or
\* an evaluation of the rule says why a dispatch of the event did not send: by
\* then the rule may not match or be in quiet hours, or in its own cooldown.
LossExplained ==
  \A n \in News : outbox[n] = "processed" =>
    \A r \in Rules \ formed :
      \/ Receivers \ switched \subseteq recorded[n][r]
      \/ evaluations[n][r] \ {"matched"} # {}

\* Every way through a rule returns its lock: whenever it is taken, it becomes
\* free again.
LocksReturn == \A r \in Rules : []<>(ruleLocks[r] = NoOne)
=============================================================================
