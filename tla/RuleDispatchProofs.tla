--------------------------- MODULE RuleDispatchProofs ---------------------------
(* For any number of dispatches, events and rules: the cooldown of a rule holds, *)
(* no rule is forgotten and no message is lost without an explanation.  And for  *)
(* any trees of conditions: a rule that was saved decides what it says.          *)
EXTENDS RuleDispatch, RuleConditions, WellFoundedInduction, TLAPS

Held == {"locked", "read", "sending", "stamped"}

Typed ==
  /\ job \in [Dispatchers -> Jobs]
  /\ rules \in [Rules -> RuleRow]
  /\ ruleLocks \in [Rules -> Dispatchers \cup {NoOne}]
  /\ lastRound \in [Rules -> Nat \cup {NeverFired}]
  /\ stamps \in [Rules -> SUBSET Nat] /\ enabled \subseteq Receivers
  /\ now \in Nat

\* A time that is not in the future, or none.
Past(t) == t # NeverFired => t <= now

\* What the row says of its last firing is not older than the last recorded one,
\* unless a retry has set it back.
FiredKnown ==
  \A r \in Rules :
    /\ Past(rules[r].fired) /\ \A t \in stamps[r] : t <= now
    /\ lastRound[r] # NeverFired =>
         r \in setBack \/ (rules[r].fired # NeverFired /\ lastRound[r] <= rules[r].fired)

\* Whoever read f as the last firing of r knows of the recorded one.
Knows(f, r) ==
  lastRound[r] # NeverFired => r \in setBack \/ (f # NeverFired /\ lastRound[r] <= f)

\* A dispatch between the lock of its rule and its release has the lock, and what
\* it has read of the last firing is still true.
JobInv(d) ==
  /\ job[d].at \in Held => job[d].rule \in Rules /\ ruleLocks[job[d].rule] = d
  /\ job[d].at = "read" => Past(job[d].fired) /\ Knows(job[d].fired, job[d].rule)
  /\ job[d].at = "stamped" => job[d].fired \in Nat /\ job[d].fired <= now

DispatchInv ==
  /\ Typed /\ FiredKnown
  /\ \A d \in Dispatchers : JobInv(d)

-----------------------------------------------------------------------------
LEMMA JobTyped ==
  ASSUME NEW j \in Jobs
  PROVE  /\ j.at \in {"free", "listed", "locked", "read", "sending", "stamped"}
         /\ j.todo \subseteq Rules /\ j.rule \in Rules \cup {NoRule}
         /\ j.fired \in Nat \cup {NeverFired}
BY DEF Jobs

LEMMA DispatchInitInv == DispatchInit => DispatchInv
<1> SUFFICES ASSUME DispatchInit PROVE DispatchInv
  OBVIOUS
<1>1. NoJob \in Jobs /\ NoJob.at = "free"
  BY DEF NoJob, Jobs
<1>2. Typed
  BY <1>1, SMT DEF DispatchInit, Typed, RuleRow
<1>3. FiredKnown
  BY DEF DispatchInit, FiredKnown, Past
<1>4. \A d \in Dispatchers : JobInv(d)
  BY <1>1 DEF DispatchInit, JobInv, Held
<1> QED
  BY <1>2, <1>3, <1>4 DEF DispatchInv

\* The job of one dispatch becomes j; rules, firings and time stay as they are.
LEMMA JobMoves ==
  ASSUME DispatchInv, NEW d \in Dispatchers, NEW j \in Jobs,
         job' = [job EXCEPT ![d] = j],
         ruleLocks' \in [Rules -> Dispatchers \cup {NoOne}],
         \A r \in Rules : ruleLocks'[r] = ruleLocks[r] \/ ruleLocks[r] \in {d, NoOne},
         j.at \in Held => j.rule \in Rules /\ ruleLocks'[j.rule] = d,
         j.at = "read" => j.fired = rules[j.rule].fired,
         j.at = "stamped" => j.fired = now,
         UNCHANGED <<rules, lastRound, setBack, stamps, enabled, now>>
  PROVE  DispatchInv'
<1>1. /\ job' \in [Dispatchers -> Jobs]
      /\ job'[d] = j /\ \A x \in Dispatchers \ {d} : job'[x] = job[x]
  BY DEF DispatchInv, Typed
<1>2. Typed'
  BY <1>1 DEF DispatchInv, Typed
<1>3. FiredKnown'
  BY DEF DispatchInv, FiredKnown, Past
<1>4. JobInv(d)'
  <2>1. now \in Nat /\ now <= now
    BY SMT DEF DispatchInv, Typed
  <2> QED BY <1>1, <2>1 DEF DispatchInv, JobInv, FiredKnown, Knows, Past, Held
<1>5. ASSUME NEW x \in Dispatchers \ {d} PROVE JobInv(x)'
  <2>1. JobInv(x) /\ x # NoOne
    BY DispatchAssumption DEF DispatchInv
  <2>2. job[x].at \in Held => ruleLocks'[job[x].rule] = x
    BY <2>1 DEF JobInv
  <2> QED BY <1>1, <2>1, <2>2 DEF JobInv, Knows, Past
<1> QED
  BY <1>2, <1>3, <1>4, <1>5 DEF DispatchInv

\* Leaving a rule: the lock is free again, and the job looks at the next one.
LEMMA RuleLeft ==
  ASSUME DispatchInv, NEW d \in Dispatchers, job[d].at \in Held, NextRule(d)
  PROVE  /\ ruleLocks' \in [Rules -> Dispatchers \cup {NoOne}]
         /\ \A r \in Rules : ruleLocks'[r] = ruleLocks[r] \/ ruleLocks[r] = d
         /\ \E j \in Jobs : /\ job' = [job EXCEPT ![d] = j] /\ j.at = "listed"
                            /\ j.news = job[d].news /\ j.lost = job[d].lost
                            /\ j.todo = job[d].todo \ {job[d].rule}
<1>1. job[d] \in Jobs /\ job[d].rule \in Rules /\ ruleLocks[job[d].rule] = d
  BY DEF DispatchInv, Typed, JobInv
<1>2. ruleLocks' = [ruleLocks EXCEPT ![job[d].rule] = NoOne]
  BY DEF NextRule
<1>3. /\ ruleLocks' \in [Rules -> Dispatchers \cup {NoOne}]
      /\ \A r \in Rules : ruleLocks'[r] = ruleLocks[r] \/ ruleLocks[r] = d
  BY <1>1, <1>2 DEF DispatchInv, Typed
<1> DEFINE j == [job[d] EXCEPT !.at = "listed", !.rule = NoRule,
                   !.todo = @ \ {job[d].rule}, !.fired = NeverFired, !.left = {},
                   !.through = FALSE]
<1>4. job' = [job EXCEPT ![d] = j]
  BY DEF NextRule
<1>5. /\ j \in Jobs /\ j.at = "listed"
      /\ j.news = job[d].news /\ j.lost = job[d].lost
      /\ j.todo = job[d].todo \ {job[d].rule}
  BY <1>1 DEF Jobs
<1> HIDE DEF j
<1> QED
  BY <1>3, <1>4, <1>5

-----------------------------------------------------------------------------
(* Steps of a dispatch that leave the rules' rows alone.                         *)

LEMMA JobSteps ==
  ASSUME DispatchInv, NEW d \in Dispatchers,
         \/ LockRule(d) \/ ReadRule(d) \/ Pass(d) \/ Match(d) \/ GiveUp(d)
         \/ StampRound(d) \/ EndDispatch(d)
         \/ \E c \in Receivers : Notify(d, c) \/ NotifyUnrecorded(d, c)
         \/ \E n \in News : ListRules(d, n)
  PROVE  DispatchInv'
<1>0. /\ job[d] \in Jobs /\ JobInv(d) /\ job \in [Dispatchers -> Jobs]
      /\ ruleLocks \in [Rules -> Dispatchers \cup {NoOne}]
      /\ rules \in [Rules -> RuleRow]
  BY DEF DispatchInv, Typed
<1>1. UNCHANGED <<rules, lastRound, setBack, stamps, enabled, now>>
  BY DEF LockRule, ReadRule, Pass, Match, GiveUp, StampRound, EndDispatch, Notify,
         NotifyUnrecorded, ListRules, firings, around
<1>2. CASE LockRule(d)
  <2>1. PICK r \in job[d].todo :
          /\ ruleLocks[r] = NoOne /\ ruleLocks' = [ruleLocks EXCEPT ![r] = d]
          /\ job' = [job EXCEPT ![d] = [job[d] EXCEPT !.at = "locked", !.rule = r]]
    BY <1>2 DEF LockRule, Upcoming
  <2>2. r \in Rules
    BY <1>0, JobTyped
  <2>3. /\ ruleLocks' \in [Rules -> Dispatchers \cup {NoOne}] /\ ruleLocks'[r] = d
        /\ \A q \in Rules : ruleLocks'[q] = ruleLocks[q] \/ ruleLocks[q] = NoOne
    BY <1>0, <2>1, <2>2
  <2> DEFINE j == [job[d] EXCEPT !.at = "locked", !.rule = r]
  <2>4. j \in Jobs /\ j.at = "locked" /\ j.rule = r
    BY <1>0, <2>2 DEF Jobs
  <2>5. job' = [job EXCEPT ![d] = j]
    BY <2>1
  <2> HIDE DEF j
  <2> QED BY <1>1, <2>2, <2>3, <2>4, <2>5, JobMoves
<1>3. CASE ReadRule(d)
  <2>1. job[d].at = "locked" /\ job[d].rule \in Rules /\ ruleLocks[job[d].rule] = d
    BY <1>0, <1>3 DEF ReadRule, Doing, JobInv, Held
  <2>2. CASE rules[job[d].rule].active
    <3> DEFINE j == [job[d] EXCEPT !.at = "read", !.fired = rules[job[d].rule].fired]
    <3>1. job' = [job EXCEPT ![d] = j] /\ UNCHANGED ruleLocks
      BY <1>3, <2>2 DEF ReadRule
    <3>2. rules[job[d].rule].fired \in Nat \cup {NeverFired}
      BY <1>0, <2>1 DEF RuleRow
    <3>3. /\ j \in Jobs /\ j.at = "read" /\ j.rule = job[d].rule
          /\ j.fired = rules[job[d].rule].fired
      BY <1>0, <3>2 DEF Jobs
    <3> HIDE DEF j
    <3> QED BY <1>0, <1>1, <2>1, <3>1, <3>3, JobMoves
  <2>3. CASE ~rules[job[d].rule].active
    <3>1. NextRule(d) /\ job[d].at \in Held
      BY <1>3, <2>1, <2>3 DEF ReadRule, Held
    <3> QED BY <1>1, <3>1, RuleLeft, JobMoves DEF Held
  <2> QED BY <2>2, <2>3
<1>4. CASE Pass(d)
  <2>1. NextRule(d) /\ job[d].at \in Held
    BY <1>4 DEF Pass, Doing, Held
  <2> QED BY <1>1, <2>1, RuleLeft, JobMoves DEF Held
<1>5. CASE Match(d)
  <2> DEFINE j == [job[d] EXCEPT !.at = "sending", !.left = enabled]
  <2>1. job' = [job EXCEPT ![d] = j] /\ UNCHANGED ruleLocks /\ job[d].at = "read"
    BY <1>5 DEF Match, Doing
  <2>2. j \in Jobs /\ j.at = "sending" /\ j.rule = job[d].rule
    BY <1>0 DEF Jobs, DispatchInv, Typed
  <2>3. job[d].rule \in Rules /\ ruleLocks[job[d].rule] = d
    BY <1>0, <2>1 DEF JobInv, Held
  <2> HIDE DEF j
  <2> QED BY <1>0, <1>1, <2>1, <2>2, <2>3, JobMoves
<1>6. CASE GiveUp(d)
  <2>1. /\ ruleLocks' = [r \in Rules |-> IF ruleLocks[r] = d THEN NoOne ELSE ruleLocks[r]]
        /\ job' = [job EXCEPT ![d] = NoJob]
    BY <1>6 DEF GiveUp, Return
  <2>2. /\ ruleLocks' \in [Rules -> Dispatchers \cup {NoOne}]
        /\ \A r \in Rules : ruleLocks'[r] = ruleLocks[r] \/ ruleLocks[r] = d
    BY <1>0, <2>1
  <2>3. NoJob \in Jobs /\ NoJob.at = "free"
    BY DEF NoJob, Jobs
  <2> QED BY <1>1, <2>1, <2>2, <2>3, JobMoves DEF Held
<1>7. CASE EndDispatch(d)
  <2>1. job' = [job EXCEPT ![d] = NoJob] /\ UNCHANGED ruleLocks
    BY <1>7 DEF EndDispatch, Return
  <2>2. NoJob \in Jobs /\ NoJob.at = "free"
    BY DEF NoJob, Jobs
  <2> QED BY <1>0, <1>1, <2>1, <2>2, JobMoves DEF Held
<1>8. ASSUME NEW c \in Receivers, Notify(d, c) \/ NotifyUnrecorded(d, c)
      PROVE  DispatchInv'
  <2>1. PICK through \in BOOLEAN, lost \in BOOLEAN :
          job' = [job EXCEPT ![d] = [job[d] EXCEPT !.left = job[d].left \ {c},
                                       !.through = through, !.lost = lost]]
    <3>1. job[d].through \in BOOLEAN /\ job[d].lost \in BOOLEAN
      BY <1>0 DEF Jobs
    <3>2. CASE Notify(d, c)
      <4>1. PICK sent \in BOOLEAN :
              job' = [job EXCEPT ![d].left = @ \ {c}, ![d].through = @ \/ sent]
        BY <3>2 DEF Notify
      <4>2. job' = [job EXCEPT ![d] = [job[d] EXCEPT !.left = job[d].left \ {c},
                      !.through = job[d].through \/ sent, !.lost = job[d].lost]]
        BY <1>0, <4>1 DEF Jobs
      <4> QED BY <3>1, <4>2
    <3>3. CASE NotifyUnrecorded(d, c)
      <4>1. job' = [job EXCEPT ![d].left = @ \ {c}, ![d].lost = TRUE]
        BY <3>3 DEF NotifyUnrecorded
      <4>2. job' = [job EXCEPT ![d] = [job[d] EXCEPT !.left = job[d].left \ {c},
                      !.through = job[d].through, !.lost = TRUE]]
        BY <1>0, <4>1 DEF Jobs
      <4> QED BY <3>1, <4>2
    <3> QED BY <1>8, <3>2, <3>3
  <2>2. UNCHANGED ruleLocks /\ job[d].at = "sending"
    BY <1>8 DEF Notify, NotifyUnrecorded, Doing
  <2> DEFINE j == [job[d] EXCEPT !.left = job[d].left \ {c},
                     !.through = through, !.lost = lost]
  <2>3. j \in Jobs /\ j.at = job[d].at /\ j.rule = job[d].rule
    BY <1>0 DEF Jobs
  <2>4. job[d].rule \in Rules /\ ruleLocks[job[d].rule] = d
    BY <1>0, <2>2 DEF JobInv, Held
  <2>5. job' = [job EXCEPT ![d] = j]
    BY <2>1
  <2> HIDE DEF j
  <2> QED BY <1>0, <1>1, <2>2, <2>3, <2>4, <2>5, JobMoves
<1>9. ASSUME NEW n \in News, ListRules(d, n) PROVE DispatchInv'
  <2> DEFINE j == [job[d] EXCEPT !.at = "listed", !.news = n,
                     !.todo = {r \in Rules : rules[r].active}]
  <2>1. job' = [job EXCEPT ![d] = j] /\ UNCHANGED ruleLocks
    BY <1>9, ZenonT(30) DEF ListRules
  <2>2. j \in Jobs /\ j.at = "listed"
    BY <1>0 DEF Jobs
  <2> HIDE DEF j
  <2> QED BY <1>0, <1>1, <2>1, <2>2, JobMoves DEF Held
<1>10. CASE StampRound(d)
  <2> DEFINE j == [job[d] EXCEPT !.at = "stamped", !.fired = now]
  <2>1. job' = [job EXCEPT ![d] = j] /\ UNCHANGED ruleLocks /\ job[d].at = "sending"
    BY <1>10 DEF StampRound, Doing
  <2>2. now \in Nat
    BY DEF DispatchInv, Typed
  <2>3. j \in Jobs /\ j.at = "stamped" /\ j.rule = job[d].rule /\ j.fired = now
    BY <1>0, <2>2 DEF Jobs
  <2>4. job[d].rule \in Rules /\ ruleLocks[job[d].rule] = d
    BY <1>0, <2>1 DEF JobInv, Held
  <2> HIDE DEF j
  <2> QED BY <1>0, <1>1, <2>1, <2>3, <2>4, JobMoves
<1> QED
  BY <1>2, <1>3, <1>4, <1>5, <1>6, <1>7, <1>8, <1>9, <1>10

-----------------------------------------------------------------------------
\* The recorded firing moves with the row.  Nobody is judging the rule then by
\* what it has read: the lock is held.
LEMMA EndRuleKeeps ==
  ASSUME DispatchInv, NEW d \in Dispatchers, EndRule(d) PROVE DispatchInv'
<1> DEFINE r == job[d].rule
<1>0. /\ job \in [Dispatchers -> Jobs] /\ rules \in [Rules -> RuleRow]
      /\ lastRound \in [Rules -> Nat \cup {NeverFired}] /\ now \in Nat
      /\ FiredKnown /\ \A x \in Dispatchers : JobInv(x)
  BY DEF DispatchInv, Typed
<1>1. job[d].at \in Held /\ NextRule(d) /\ UNCHANGED <<stamps, enabled, now>>
  BY DEF EndRule, Doing, Held, around
<1>2. r \in Rules /\ ruleLocks[r] = d
  BY <1>0, <1>1 DEF JobInv
<1>3. PICK j \in Jobs : job' = [job EXCEPT ![d] = j] /\ j.at = "listed"
  BY <1>1, RuleLeft
<1>9. /\ ruleLocks' \in [Rules -> Dispatchers \cup {NoOne}]
      /\ \A q \in Rules : ruleLocks'[q] = ruleLocks[q] \/ ruleLocks[q] = d
  BY <1>1, RuleLeft
<1>4. CASE UNCHANGED firings
  BY <1>1, <1>3, <1>4, <1>9, JobMoves DEF Held, firings
<1>5. CASE /\ Doing(d, "stamped")
           /\ rules' = [rules EXCEPT ![r].fired = job[d].fired]
           /\ lastRound' = [lastRound EXCEPT ![r] = job[d].fired]
           /\ setBack' = setBack \ {r}
  <2>0. PICK f \in Nat : f = job[d].fired /\ f <= now
    BY <1>0, <1>5 DEF JobInv, Doing
  <2>1. /\ rules' \in [Rules -> RuleRow] /\ rules'[r].fired = f
        /\ \A q \in Rules \ {r} : rules'[q] = rules[q]
    BY <1>0, <1>2, <1>5, <2>0 DEF RuleRow
  <2>2. /\ lastRound' \in [Rules -> Nat \cup {NeverFired}] /\ lastRound'[r] = f
        /\ \A q \in Rules \ {r} : lastRound'[q] = lastRound[q]
    BY <1>0, <1>2, <1>5, <2>0
  <2>3. \A q \in Rules \ {r} : q \in setBack' <=> q \in setBack
    BY <1>5
  <2>4. /\ job' \in [Dispatchers -> Jobs] /\ job'[d].at = "listed"
        /\ \A x \in Dispatchers \ {d} : job'[x] = job[x]
    BY <1>0, <1>3
  <2>5. Typed'
    BY <1>0, <1>1, <1>9, <2>1, <2>2, <2>4 DEF Typed, DispatchInv
  <2>6. f <= f /\ f # NeverFired
    BY DispatchAssumption, SMT
  <2>7. FiredKnown'
    BY <1>0, <1>1, <2>0, <2>1, <2>2, <2>3, <2>6 DEF FiredKnown, Past
  <2>8. ASSUME NEW x \in Dispatchers PROVE JobInv(x)'
    <3>1. CASE x = d
      BY <2>4, <3>1 DEF JobInv, Held
    <3>2. CASE x # d
      <4>1. JobInv(x) /\ job'[x] = job[x]
        BY <1>0, <2>4, <3>2
      <4>2. CASE job[x].at \notin Held
        BY <4>1, <4>2 DEF JobInv, Held
      <4>3. CASE job[x].at \in Held
        <5>1. job[x].rule \in Rules /\ ruleLocks[job[x].rule] = x
          BY <4>1, <4>3 DEF JobInv
        <5>2. job[x].rule # r /\ ruleLocks'[job[x].rule] = x
          BY <1>2, <1>9, <3>2, <5>1
        <5>3. lastRound'[job[x].rule] = lastRound[job[x].rule]
              /\ (job[x].rule \in setBack' <=> job[x].rule \in setBack)
          BY <2>2, <2>3, <5>1, <5>2
        <5> QED BY <1>1, <4>1, <5>1, <5>2, <5>3 DEF JobInv, Knows, Past
      <4> QED BY <4>2, <4>3
    <3> QED BY <3>1, <3>2
  <2> QED BY <2>5, <2>7, <2>8 DEF DispatchInv
<1> QED
  BY <1>4, <1>5 DEF EndRule, firings

\* Retries, forms, channels.
LEMMA RowSteps ==
  ASSUME DispatchInv, NEW r \in Rules,
         RetryGetsThrough(r) \/ RetryWrites(r) \/ EditRule(r)
  PROVE  DispatchInv'
<1>0. /\ rules \in [Rules -> RuleRow] /\ stamps \in [Rules -> SUBSET Nat]
      /\ now \in Nat /\ FiredKnown
  BY DEF DispatchInv, Typed
<1>1. UNCHANGED <<job, ruleLocks, lastRound, enabled, now>> /\ setBack \subseteq setBack'
  BY DEF RetryGetsThrough, RetryWrites, EditRule, firings
<1>2. \A d \in Dispatchers : JobInv(d)'
  BY <1>1 DEF DispatchInv, JobInv, Knows, Past
<1>3. CASE RetryGetsThrough(r)
  <2>1. stamps' = [stamps EXCEPT ![r] = @ \cup {now}] /\ UNCHANGED <<rules, setBack>>
    BY <1>3 DEF RetryGetsThrough, firings
  <2>2. /\ stamps' \in [Rules -> SUBSET Nat]
        /\ \A q \in Rules : stamps'[q] \subseteq stamps[q] \cup {now}
    BY <1>0, <2>1
  <2>3. now <= now
    BY <1>0, SMT
  <2>4. FiredKnown'
    BY <1>0, <1>1, <2>1, <2>2, <2>3 DEF FiredKnown, Past
  <2> QED BY <1>1, <1>2, <2>1, <2>2, <2>4 DEF DispatchInv, Typed
<1>4. CASE RetryWrites(r)
  <2>1. PICK t \in stamps[r] :
          /\ rules' = [rules EXCEPT ![r].fired = t]
          /\ setBack' = IF lastRound[r] # NeverFired /\ t < lastRound[r]
                        THEN setBack \cup {r} ELSE setBack
          /\ stamps' \in {stamps, [stamps EXCEPT ![r] = @ \ {t}]}
    BY <1>4 DEF RetryWrites
  <2>2. t \in Nat /\ t <= now /\ t # NeverFired
    BY <1>0, DispatchAssumption DEF FiredKnown
  <2>3. /\ rules' \in [Rules -> RuleRow] /\ rules'[r].fired = t
        /\ \A q \in Rules \ {r} : rules'[q] = rules[q]
    BY <1>0, <2>1, <2>2 DEF RuleRow
  <2>4. /\ stamps' \in [Rules -> SUBSET Nat]
        /\ \A q \in Rules : stamps'[q] \subseteq stamps[q]
    BY <1>0, <2>1
  <2>5. lastRound[r] # NeverFired => r \in setBack' \/ lastRound[r] <= t
    <3>1. lastRound[r] \in Nat \cup {NeverFired}
      BY DEF DispatchInv, Typed
    <3>2. lastRound[r] \in Nat => lastRound[r] <= t \/ t < lastRound[r]
      BY <2>2, SMT
    <3> QED BY <2>1, <3>1, <3>2
  <2>6. FiredKnown'
    BY <1>0, <1>1, <2>2, <2>3, <2>4, <2>5 DEF FiredKnown, Past
  <2> QED BY <1>1, <1>2, <2>3, <2>4, <2>6 DEF DispatchInv, Typed
<1>5. CASE EditRule(r)
  <2>1. /\ rules' = [rules EXCEPT ![r] = [rules[r] EXCEPT !.active = ~rules[r].active]]
        /\ UNCHANGED <<stamps, setBack>>
    BY <1>5 DEF EditRule
  <2>2. /\ [rules[r] EXCEPT !.active = ~rules[r].active] \in RuleRow
        /\ [rules[r] EXCEPT !.active = ~rules[r].active].fired = rules[r].fired
    BY <1>0 DEF RuleRow
  <2>3. /\ rules' \in [Rules -> RuleRow]
        /\ \A q \in Rules : rules'[q].fired = rules[q].fired
    BY <1>0, <2>1, <2>2
  <2>4. FiredKnown'
    BY <1>0, <1>1, <2>1, <2>3 DEF FiredKnown, Past
  <2> QED BY <1>1, <1>2, <2>1, <2>3, <2>4 DEF DispatchInv, Typed
<1> QED
  BY <1>3, <1>4, <1>5

LEMMA OtherSteps ==
  ASSUME DispatchInv,
         \/ \E c \in Receivers : SwitchReceiver(c)
         \/ Killed \/ PassTime \/ UNCHANGED dispatchVars
  PROVE  DispatchInv'
<1>0. /\ rules \in [Rules -> RuleRow] /\ now \in Nat /\ Typed
      /\ FiredKnown /\ \A d \in Dispatchers : JobInv(d)
  BY DEF DispatchInv, Typed
<1>1. CASE Killed
  <2>1. /\ job' = [d \in Dispatchers |-> NoJob] /\ ruleLocks' = [r \in Rules |-> NoOne]
        /\ stamps' = [r \in Rules |-> {}]
        /\ UNCHANGED <<rules, lastRound, setBack, enabled, now>>
    BY <1>1 DEF Killed, firings
  <2>2. NoJob \in Jobs /\ NoJob.at = "free"
    BY DEF NoJob, Jobs
  <2> QED BY <1>0, <2>1, <2>2 DEF DispatchInv, Typed, FiredKnown, Past, JobInv, Held
<1>2. CASE PassTime
  <2>1. /\ now' = now + 1
        /\ UNCHANGED <<rules, lastRound, setBack, stamps, enabled, job, ruleLocks>>
    BY <1>2 DEF PassTime, firings, around
  <2>2. now' \in Nat /\ \A t \in Nat : t <= now => t <= now'
    BY <1>0, <2>1, SMT
  <2>3. \A r \in Rules : rules[r].fired \in Nat \cup {NeverFired} /\ stamps[r] \subseteq Nat
    BY <1>0 DEF RuleRow, Typed
  <2>4. \A d \in Dispatchers : job[d].fired \in Nat \cup {NeverFired}
    BY <1>0, JobTyped DEF Typed
  <2>5. FiredKnown'
    BY <1>0, <2>1, <2>2, <2>3 DEF FiredKnown, Past
  <2>6. \A d \in Dispatchers : JobInv(d)'
    BY <1>0, <2>1, <2>2, <2>4 DEF JobInv, Knows, Past
  <2> QED BY <1>0, <2>1, <2>2, <2>5, <2>6 DEF DispatchInv, Typed
<1>3. CASE UNCHANGED dispatchVars
  BY <1>0, <1>3 DEF dispatchVars, DispatchInv, Typed, FiredKnown, JobInv, Knows, Past
<1>4. ASSUME NEW c \in Receivers, SwitchReceiver(c) PROVE DispatchInv'
  <2>1. /\ UNCHANGED <<rules, lastRound, setBack, stamps, now, job, ruleLocks>>
        /\ enabled' \subseteq enabled \cup {c}
    BY <1>4 DEF SwitchReceiver, firings
  <2> QED BY <1>0, <2>1 DEF DispatchInv, Typed, FiredKnown, JobInv, Knows, Past
<1> QED
  BY <1>1, <1>2, <1>3, <1>4

LEMMA DispatchStep == DispatchInv /\ [DispatchNext]_dispatchVars => DispatchInv'
BY JobSteps, EndRuleKeeps, RowSteps, OtherSteps DEF DispatchNext, WorkOn

\* Who starts to send has read a firing that is not older than the last recorded
\* one, unless a retry has set it back, and has the rule for itself.
LEMMA SendingAllowed ==
  ASSUME DispatchInv, [DispatchNext]_dispatchVars, NEW d \in Dispatchers,
         Doing(d, "read"), job'[d].at = "sending"
  PROVE  /\ job[d].rule \in setBack
            \/ lastRound[job[d].rule] \notin {t \in 0..now : now - t < Cooldown}
         /\ \A x \in Dispatchers \ {d} :
              ~(job[x].at \in {"sending", "stamped"} /\ job[x].rule = job[d].rule)
<1>0. /\ job \in [Dispatchers -> Jobs] /\ now \in Nat /\ JobInv(d)
      /\ lastRound \in [Rules -> Nat \cup {NeverFired}]
  BY DEF DispatchInv, Typed
<1>1. job[d].at = "read" /\ job[d].rule \in Rules /\ ruleLocks[job[d].rule] = d
  BY <1>0 DEF Doing, JobInv, Held
<1>2. Match(d)
  <2>1. ASSUME NEW x \in Dispatchers, WorkOn(x) \/ \E n \in News : ListRules(x, n), x # d
        PROVE  job'[d] = job[d]
    BY <1>0, <2>1 DEF WorkOn, ListRules, LockRule, ReadRule, Pass, Match, GiveUp,
                      StampRound, EndRule, EndDispatch, Notify, NotifyUnrecorded,
                      NextRule, Return
  <2>2. ASSUME UNCHANGED job PROVE FALSE
    BY <1>1, <2>2
  <2>3. /\ ~(\E r \in Rules : EditRule(r) \/ RetryGetsThrough(r) \/ RetryWrites(r))
        /\ ~(\E c \in Receivers : SwitchReceiver(c)) /\ ~PassTime
        /\ ~(UNCHANGED dispatchVars)
    BY <2>2 DEF EditRule, RetryGetsThrough, RetryWrites, SwitchReceiver, PassTime,
                dispatchVars
  <2>4. ~Killed
    BY <1>0 DEF Killed, NoJob
  <2>5. WorkOn(d) \/ \E n \in News : ListRules(d, n)
    BY <1>1, <2>1, <2>3, <2>4 DEF DispatchNext
  <2>6. /\ ~ReadRule(d) /\ ~LockRule(d) /\ ~EndRule(d) /\ ~EndDispatch(d)
        /\ ~StampRound(d)
        /\ ~(\E c \in Receivers : Notify(d, c) \/ NotifyUnrecorded(d, c))
        /\ ~(\E n \in News : ListRules(d, n))
    BY <1>1 DEF ReadRule, LockRule, EndRule, EndDispatch, StampRound, Notify,
                NotifyUnrecorded, ListRules, Doing
  <2>7. ~Pass(d) /\ ~GiveUp(d)
    <3>1. ASSUME Pass(d) PROVE FALSE
      <4>1. PICK j \in Jobs : job' = [job EXCEPT ![d] = j] /\ j.at = "listed"
        BY <1>1, <3>1, RuleLeft DEF Pass, Held
      <4> QED BY <1>0, <4>1
    <3>2. ASSUME GiveUp(d) PROVE FALSE
      BY <1>0, <3>2 DEF GiveUp, Return, NoJob
    <3> QED BY <3>1, <3>2
  <2> QED BY <2>5, <2>6, <2>7 DEF WorkOn
<1>3. job[d].rule \in setBack
      \/ lastRound[job[d].rule] \notin {t \in 0..now : now - t < Cooldown}
  <2> SUFFICES ASSUME job[d].rule \notin setBack, lastRound[job[d].rule] \in 0..now,
                      now - lastRound[job[d].rule] < Cooldown
               PROVE  FALSE
    OBVIOUS
  <2>1. lastRound[job[d].rule] # NeverFired
    BY DispatchAssumption, SMT
  <2>2. /\ job[d].fired # NeverFired /\ job[d].fired <= now
        /\ lastRound[job[d].rule] <= job[d].fired
    BY <1>0, <1>1, <2>1 DEF JobInv, Knows, Past
  <2>3. job[d].fired \in Nat
    BY <1>0, <2>2, JobTyped
  <2>4. job[d].fired \in 0..now /\ now - job[d].fired < Cooldown
    BY <1>0, <2>2, <2>3, DispatchAssumption, SMT
  <2> QED BY <1>2, <2>4 DEF Match, Cooling
<1>4. \A x \in Dispatchers \ {d} :
        ~(job[x].at \in {"sending", "stamped"} /\ job[x].rule = job[d].rule)
  BY <1>1 DEF DispatchInv, JobInv, Doing, Held
<1> QED
  BY <1>3, <1>4

\* However many events of however many checks are dispatched at once: nobody
\* starts to notify for a rule within its cooldown, unless a late retry has set
\* the last firing back, and never two at a time (dispatchEvent, ruleDispatchLock,
\* retryAttempt).
THEOREM CooldownHolds == DispatchSpec => CooldownKept
<1>1. DispatchInv /\ [DispatchNext]_dispatchVars =>
        [\A d \in Dispatchers :
          Doing(d, "read") /\ job'[d].at = "sending" =>
            /\ job[d].rule \in setBack
               \/ lastRound[job[d].rule] \notin {t \in 0..now : now - t < Cooldown}
            /\ \A x \in Dispatchers \ {d} :
                 ~(job[x].at \in {"sending", "stamped"} /\ job[x].rule = job[d].rule)
        ]_dispatchVars
  BY SendingAllowed
<1> QED
  BY <1>1, DispatchInitInv, DispatchStep, PTL DEF DispatchSpec, CooldownKept

-----------------------------------------------------------------------------
(* No rule is forgotten, no channel is passed over in silence.  What is known of *)
(* an event and a rule - evaluations, rows of attempts, edits and switches - only *)
(* grows; a dispatch that is through with a rule has settled it, or knows of an   *)
(* attempt that left no row, and will fail.                                       *)

Verdicts == {"cooldown", "error", "not_matched", "skipped", "matched"}

\* The event is through with the rule, and nothing was lost in silence.
Settled(n, r) == /\ evaluations[n][r] # {}
                 /\ \/ Receivers \ switched \subseteq recorded[n][r]
                    \/ evaluations[n][r] \ {"matched"} # {}

TraceTyped ==
  /\ outbox \in [News -> {"pending", "processing", "processed"}]
  /\ evaluations \in [News -> [Rules -> SUBSET Verdicts]]
  /\ recorded \in [News -> [Rules -> SUBSET Receivers]]
  /\ formed \subseteq Rules

\* What job j owes to its event.
Tracked(j) ==
  j.at # "free" =>
    /\ j.news \in News
    /\ j.lost \/ \A r \in Rules \ formed : r \in j.todo \/ Settled(j.news, r)
    /\ j.at \in {"sending", "stamped"} =>
         /\ evaluations[j.news][j.rule] # {}
         /\ j.lost \/ Receivers \ switched \subseteq recorded[j.news][j.rule] \cup j.left
    /\ j.at = "stamped" => j.left = {}

\* Rules and channels that nobody touched are as they were.
Untouched == /\ \A r \in Rules \ formed : rules[r].active
             /\ Receivers \ switched \subseteq enabled

TraceInv ==
  /\ TraceTyped /\ Untouched
  /\ \A d \in Dispatchers : Tracked(job[d])
  /\ \A n \in News : outbox[n] = "processed" => \A r \in Rules \ formed : Settled(n, r)

\* Nothing that is known is forgotten in a step.
Growing ==
  /\ formed \subseteq formed' /\ switched \subseteq switched'
  /\ \A n \in News, r \in Rules : /\ evaluations[n][r] \subseteq evaluations'[n][r]
                                  /\ recorded[n][r] \subseteq recorded'[n][r]

LEMMA TraceInitInv == DispatchInit => TraceInv
<1> SUFFICES ASSUME DispatchInit PROVE TraceInv
  OBVIOUS
<1>1. NoJob.at = "free"
  BY DEF NoJob
<1>2. TraceTyped
  BY DEF DispatchInit, TraceTyped
<1>3. Untouched
  BY DEF DispatchInit, Untouched
<1>4. \A n \in News : outbox[n] = "pending"
  BY DEF DispatchInit
<1>5. \A d \in Dispatchers : job[d].at = "free"
  BY <1>1 DEF DispatchInit
<1> QED
  BY <1>2, <1>3, <1>4, <1>5 DEF TraceInv, Tracked

LEMMA SettledGrows ==
  ASSUME Growing, NEW n \in News, NEW r \in Rules, Settled(n, r)
  PROVE  Settled(n, r)'
<1>1. /\ evaluations[n][r] \subseteq evaluations'[n][r] /\ switched \subseteq switched'
      /\ recorded[n][r] \subseteq recorded'[n][r]
  BY DEF Growing
<1> QED
  BY <1>1, Zenon DEF Settled

LEMMA TrackedGrows ==
  ASSUME Growing, NEW j \in Jobs, Tracked(j),
         j.at \in {"sending", "stamped"} => j.rule \in Rules
  PROVE  Tracked(j)'
<1> SUFFICES ASSUME j.at # "free" PROVE Tracked(j)'
  BY DEF Tracked
<1>1. j.news \in News /\ (j.at = "stamped" => j.left = {})
  BY DEF Tracked
<1>2. j.lost \/ \A r \in Rules \ formed' : r \in j.todo \/ Settled(j.news, r)'
  BY <1>1, SettledGrows DEF Tracked, Growing
<1>3. ASSUME j.at \in {"sending", "stamped"}
      PROVE  /\ evaluations'[j.news][j.rule] # {}
             /\ \/ j.lost
                \/ Receivers \ switched' \subseteq recorded'[j.news][j.rule] \cup j.left
  <2>1. /\ evaluations[j.news][j.rule] # {}
        /\ j.lost \/ Receivers \ switched \subseteq recorded[j.news][j.rule] \cup j.left
    BY <1>3 DEF Tracked
  <2>2. /\ evaluations[j.news][j.rule] \subseteq evaluations'[j.news][j.rule]
        /\ switched \subseteq switched'
        /\ recorded[j.news][j.rule] \subseteq recorded'[j.news][j.rule]
    BY <1>1, <1>3 DEF Growing
  <2>3. evaluations'[j.news][j.rule] # {}
    BY <2>1, <2>2
  <2>4. ASSUME ~j.lost
        PROVE  Receivers \ switched' \subseteq recorded'[j.news][j.rule] \cup j.left
    BY <2>1, <2>2, <2>4
  <2> QED BY <2>3, <2>4
<1> QED
  BY <1>1, <1>2, <1>3 DEF Tracked

\* Dispatch d turns to job j.
LEMMA TraceMoves ==
  ASSUME DispatchInv, TraceInv, NEW d \in Dispatchers, NEW j \in Jobs,
         job' = [job EXCEPT ![d] = j],
         Growing, TraceTyped', Untouched', Tracked(j)',
         \A n \in News : outbox'[n] = "processed" =>
           outbox[n] = "processed" \/ \A r \in Rules \ formed' : Settled(n, r)'
  PROVE  TraceInv'
<1>1. /\ job'[d] = j /\ \A x \in Dispatchers \ {d} : job'[x] = job[x]
      /\ \A x \in Dispatchers : job[x] \in Jobs
  BY DEF DispatchInv, Typed
<1>2. ASSUME NEW x \in Dispatchers PROVE Tracked(job[x])'
  <2>1. CASE x = d
    <3>1. ASSUME NEW k, k = j, k = job'[x] PROVE Tracked(job[x])'
      BY <3>1 DEF Tracked, Settled
    <3> QED BY <1>1, <2>1, <3>1
  <2>2. CASE x # d
    <3>1. PICK k \in Jobs : k = job[x]
      BY <1>1
    <3>2. Tracked(k) /\ (k.at \in {"sending", "stamped"} => k.rule \in Rules)
      BY <3>1 DEF TraceInv, DispatchInv, JobInv, Held
    <3>3. Tracked(k)' /\ job'[x] = k
      BY <1>1, <2>2, <3>1, <3>2, TrackedGrows
    <3> QED BY <3>3 DEF Tracked, Settled
  <2> QED BY <2>1, <2>2
<1>3. ASSUME NEW n \in News, outbox'[n] = "processed", NEW r \in Rules \ formed'
      PROVE  Settled(n, r)'
  <2>1. CASE outbox[n] = "processed"
    <3>1. Settled(n, r)
      BY <1>3, <2>1 DEF TraceInv, Growing
    <3> QED BY <3>1, SettledGrows
  <2> QED BY <1>3, <2>1
<1> QED
  BY <1>2, <1>3 DEF TraceInv

\* Nobody's job changes.
LEMMA TraceStays ==
  ASSUME DispatchInv, TraceInv, UNCHANGED <<job, outbox>>, Growing, TraceTyped', Untouched'
  PROVE  TraceInv'
<1>1. ASSUME NEW x \in Dispatchers PROVE Tracked(job[x])'
  <2>1. PICK k \in Jobs : k = job[x]
    BY DEF DispatchInv, Typed
  <2>2. Tracked(k) /\ (k.at \in {"sending", "stamped"} => k.rule \in Rules)
    BY <2>1 DEF TraceInv, DispatchInv, JobInv, Held
  <2>3. Tracked(k)' /\ job'[x] = k
    BY <2>1, <2>2, TrackedGrows
  <2> QED BY <2>3 DEF Tracked, Settled
<1>2. ASSUME NEW n \in News, outbox'[n] = "processed", NEW r \in Rules \ formed'
      PROVE  Settled(n, r)'
  <2>1. Settled(n, r)
    BY <1>2 DEF TraceInv, Growing
  <2> QED BY <2>1, SettledGrows
<1> QED
  BY <1>1, <1>2 DEF TraceInv

-----------------------------------------------------------------------------
(* Steps of a dispatch.                                                          *)

LEMMA NothingLearnt ==
  ASSUME TraceInv, UNCHANGED <<evaluations, recorded, formed, switched, enabled>>,
         \A r \in Rules : rules'[r].active = rules[r].active,
         outbox' \in [News -> {"pending", "processing", "processed"}]
  PROVE  Growing /\ TraceTyped' /\ Untouched'
BY DEF TraceInv, Growing, TraceTyped, Untouched

\* Dispatch d goes on with event n as job j: every rule that leaves the list is
\* settled.
LEMMA GoesOn ==
  ASSUME DispatchInv, TraceInv, NEW d \in Dispatchers, NEW n \in News, NEW j \in Jobs,
         job[d].at # "free", job[d].news = n,
         job' = [job EXCEPT ![d] = j], j.news = n, UNCHANGED outbox,
         Growing, TraceTyped', Untouched',
         job[d].lost => j.lost,
         \A r \in Rules \ formed' :
           r \in job[d].todo => r \in j.todo \/ Settled(n, r)' \/ j.lost,
         j.at \in {"sending", "stamped"} =>
           /\ evaluations'[n][j.rule] # {}
           /\ j.lost \/ Receivers \ switched' \subseteq recorded'[n][j.rule] \cup j.left,
         j.at = "stamped" => j.left = {}
  PROVE  TraceInv'
<1>1. job[d].lost \/ \A r \in Rules \ formed : r \in job[d].todo \/ Settled(n, r)
  BY DEF TraceInv, Tracked
<1>2. ASSUME ~j.lost, NEW r \in Rules \ formed' PROVE r \in j.todo \/ Settled(n, r)'
  <2>1. r \in job[d].todo \/ Settled(n, r)
    BY <1>1, <1>2 DEF Growing
  <2>2. Settled(n, r) => Settled(n, r)'
    BY SettledGrows
  <2> QED BY <1>2, <2>1, <2>2
<1>3. Tracked(j)'
  BY <1>2 DEF Tracked, Settled
<1> QED
  BY <1>3, TraceMoves

\* Dispatch d leaves rule q as settled, edited or with an attempt that left no row.
LEMMA LeavesRule ==
  ASSUME DispatchInv, TraceInv, NEW d \in Dispatchers, NEW n \in News, NEW q \in Rules,
         job[d].at \in Held, job[d].news = n, job[d].rule = q, NextRule(d),
         UNCHANGED outbox, Growing, TraceTyped', Untouched',
         q \in formed' \/ Settled(n, q)' \/ job[d].lost
  PROVE  TraceInv'
<1>1. PICK j \in Jobs : /\ job' = [job EXCEPT ![d] = j] /\ j.at = "listed"
                        /\ j.news = n /\ j.lost = job[d].lost
                        /\ j.todo = job[d].todo \ {q}
  BY RuleLeft
<1>2. job[d].at # "free"
  BY DEF Held
<1>3. \A r \in Rules \ formed' :
        r \in job[d].todo => r \in j.todo \/ Settled(n, r)' \/ j.lost
  <2> SUFFICES ASSUME NEW r \in Rules \ formed', r \in job[d].todo, r \notin j.todo, ~j.lost
               PROVE  Settled(n, r)'
    OBVIOUS
  <2>1. r = q
    BY <1>1
  <2>2. Settled(n, q)'
    BY <1>1, <2>1
  <2> QED BY <2>1, <2>2
<1> QED
  BY <1>1, <1>2, <1>3, GoesOn

LEMMA TraceSteps ==
  ASSUME DispatchInv, TraceInv, NEW d \in Dispatchers, WorkOn(d)
  PROVE  TraceInv'
<1>0. /\ TraceTyped /\ Untouched /\ job[d] \in Jobs /\ rules \in [Rules -> RuleRow]
      /\ job \in [Dispatchers -> Jobs] /\ JobInv(d) /\ Tracked(job[d])
      /\ enabled \subseteq Receivers
  BY DEF TraceInv, DispatchInv, Typed
<1>1. job[d].at # "free"
  BY DEF WorkOn, LockRule, ReadRule, Pass, Match, GiveUp, StampRound, EndRule,
         EndDispatch, Notify, NotifyUnrecorded, Doing
<1>2. PICK n \in News : job[d].news = n
  BY <1>0, <1>1 DEF Tracked
<1>3. PICK q : job[d].rule = q
  OBVIOUS
<1>4. job[d].at \in Held => q \in Rules
  BY <1>0, <1>3 DEF JobInv
<1>5. ASSUME UNCHANGED <<rules, outbox, evaluations, recorded, around>>
      PROVE  Growing /\ TraceTyped' /\ Untouched'
  BY <1>5, <1>0, NothingLearnt DEF around, TraceTyped
<1>6. CASE LockRule(d)
  <2>1. PICK r \in job[d].todo :
          job' = [job EXCEPT ![d] = [job[d] EXCEPT !.at = "locked", !.rule = r]]
    BY <1>6 DEF LockRule, Upcoming
  <2>2. r \in Rules
    BY <1>0, JobTyped
  <2>3. PICK j \in Jobs : j = [job[d] EXCEPT !.at = "locked", !.rule = r]
    BY <1>0, <2>2 DEF Jobs
  <2>4. /\ j.at = "locked" /\ j.news = n /\ j.lost = job[d].lost /\ j.todo = job[d].todo
        /\ job' = [job EXCEPT ![d] = j]
    BY <1>0, <1>2, <2>1, <2>3 DEF Jobs
  <2>5. UNCHANGED <<rules, outbox, evaluations, recorded, around>>
    BY <1>6 DEF LockRule, firings
  <2> QED BY <1>1, <1>2, <1>5, <2>4, <2>5, GoesOn
<1>7. CASE ReadRule(d)
  <2>1. /\ job[d].at = "locked" /\ q \in Rules
        /\ UNCHANGED <<rules, outbox, evaluations, recorded, around>>
    BY <1>4, <1>7 DEF ReadRule, Doing, Held, firings
  <2>2. CASE rules[q].active
    <3>1. job' = [job EXCEPT ![d] = [job[d] EXCEPT !.at = "read", !.fired = rules[q].fired]]
      BY <1>3, <1>7, <2>2 DEF ReadRule
    <3>2. rules[q].fired \in Nat \cup {NeverFired}
      BY <1>0, <2>1 DEF RuleRow
    <3>3. PICK j \in Jobs : j = [job[d] EXCEPT !.at = "read", !.fired = rules[q].fired]
      BY <1>0, <3>2 DEF Jobs
    <3>4. /\ j.at = "read" /\ j.news = n /\ j.lost = job[d].lost /\ j.todo = job[d].todo
          /\ job' = [job EXCEPT ![d] = j]
      BY <1>0, <1>2, <3>1, <3>3 DEF Jobs
    <3> QED BY <1>1, <1>2, <1>5, <2>1, <3>4, GoesOn
  <2>3. CASE ~rules[q].active
    <3>1. NextRule(d) /\ q \in formed /\ formed' = formed
      BY <1>0, <1>3, <1>7, <2>1, <2>3 DEF ReadRule, Untouched, around
    <3> QED BY <1>2, <1>3, <1>5, <2>1, <3>1, LeavesRule DEF Held
  <2> QED BY <2>2, <2>3
<1>8. ASSUME NEW outcome \in Verdicts, q \in Rules,
             evaluations' = [evaluations EXCEPT ![n][q] = @ \cup {outcome}],
             UNCHANGED <<rules, outbox, recorded, around>>
      PROVE  /\ Growing /\ TraceTyped' /\ Untouched'
             /\ evaluations'[n][q] = evaluations[n][q] \cup {outcome}
  <2>1. /\ evaluations' \in [News -> [Rules -> SUBSET Verdicts]]
        /\ evaluations'[n][q] = evaluations[n][q] \cup {outcome}
        /\ \A m \in News, r \in Rules : evaluations[m][r] \subseteq evaluations'[m][r]
    BY <1>0, <1>8 DEF TraceTyped
  <2> QED BY <1>0, <1>8, <2>1 DEF Growing, TraceTyped, Untouched, around
<1>9. CASE Pass(d)
  <2>1. /\ job[d].at = "read" /\ q \in Rules /\ NextRule(d)
        /\ UNCHANGED <<rules, outbox, recorded, around>>
    BY <1>4, <1>9 DEF Pass, Doing, Held, firings
  <2>2. PICK outcome \in Verdicts \ {"matched"} :
          evaluations' = [evaluations EXCEPT ![n][q] = @ \cup {outcome}]
    BY <1>2, <1>3, <1>9 DEF Pass, Evaluation, Verdicts
  <2>3. /\ Growing /\ TraceTyped' /\ Untouched'
        /\ evaluations'[n][q] = evaluations[n][q] \cup {outcome}
    BY <1>8, <2>1, <2>2
  <2>4. Settled(n, q)'
    BY <2>3 DEF Settled
  <2> QED BY <1>2, <1>3, <2>1, <2>3, <2>4, LeavesRule DEF Held
<1>10. CASE Match(d)
  <2>1. /\ job[d].at = "read" /\ q \in Rules
        /\ job' = [job EXCEPT ![d] = [job[d] EXCEPT !.at = "sending", !.left = enabled]]
        /\ evaluations' = [evaluations EXCEPT ![n][q] = @ \cup {"matched"}]
        /\ UNCHANGED <<rules, outbox, recorded, around>>
    BY <1>2, <1>3, <1>4, <1>10 DEF Match, Doing, Held, Evaluation, firings
  <2>2. /\ Growing /\ TraceTyped' /\ Untouched'
        /\ evaluations'[n][q] = evaluations[n][q] \cup {"matched"}
    BY <1>8, <2>1 DEF Verdicts
  <2>3. PICK j \in Jobs : j = [job[d] EXCEPT !.at = "sending", !.left = enabled]
    BY <1>0 DEF Jobs
  <2>4. /\ j.at = "sending" /\ j.news = n /\ j.lost = job[d].lost /\ j.todo = job[d].todo
        /\ j.rule = q /\ j.left = enabled /\ job' = [job EXCEPT ![d] = j]
    BY <1>0, <1>2, <1>3, <2>1, <2>3 DEF Jobs
  <2>5. /\ evaluations'[n][j.rule] # {}
        /\ Receivers \ switched' \subseteq recorded'[n][j.rule] \cup j.left
    BY <1>0, <2>1, <2>2, <2>4 DEF Untouched, around
  <2>6. j.at # "stamped" /\ \A r \in Rules : r \in job[d].todo => r \in j.todo
    BY <2>4
  <2> QED BY <1>1, <1>2, <2>1, <2>2, <2>4, <2>5, <2>6, GoesOn
<1>11. ASSUME GiveUp(d) \/ EndDispatch(d) PROVE TraceInv'
  <2>1. /\ job' = [job EXCEPT ![d] = NoJob]
        /\ UNCHANGED <<rules, evaluations, recorded, around>>
        /\ \E ok \in BOOLEAN :
             /\ outbox' = [outbox EXCEPT ![n] = IF ok THEN "processed" ELSE "pending"]
             /\ ok => EndDispatch(d) /\ ~job[d].lost
    BY <1>0, <1>2, <1>11 DEF GiveUp, EndDispatch, Return, Jobs, firings
  <2>2. NoJob \in Jobs /\ NoJob.at = "free"
    BY DEF NoJob, Jobs
  <2>3. /\ outbox' \in [News -> {"pending", "processing", "processed"}]
        /\ \A m \in News \ {n} : outbox'[m] = outbox[m]
    BY <1>0, <2>1 DEF TraceTyped
  <2>4. Growing /\ TraceTyped' /\ Untouched'
    BY <2>1, <2>3, NothingLearnt DEF around
  <2>5. outbox'[n] = "processed" => \A r \in Rules \ formed' : Settled(n, r)'
    <3> SUFFICES ASSUME outbox'[n] = "processed", NEW r \in Rules \ formed'
                 PROVE  Settled(n, r)'
      OBVIOUS
    <3>1. EndDispatch(d) /\ ~job[d].lost
      BY <1>0, <2>1 DEF TraceTyped
    <3>2. job[d].todo = {} /\ formed' = formed
      BY <2>1, <3>1 DEF EndDispatch, around
    <3>3. Settled(n, r)
      BY <1>0, <1>1, <1>2, <3>1, <3>2 DEF Tracked
    <3> QED BY <2>4, <3>3, SettledGrows
  <2>6. ASSUME NEW m \in News, outbox'[m] = "processed"
        PROVE  outbox[m] = "processed" \/ \A r \in Rules \ formed' : Settled(m, r)'
    BY <2>3, <2>5, <2>6
  <2>7. PICK j \in Jobs : j = NoJob
    BY <2>2
  <2>8. Tracked(j)'
    BY <2>2, <2>7 DEF Tracked
  <2> QED BY <2>1, <2>4, <2>6, <2>7, <2>8, TraceMoves
<1>12. CASE StampRound(d)
  <2>1. /\ job[d].at = "sending" /\ job[d].left = {} /\ q \in Rules
        /\ job' = [job EXCEPT ![d] = [job[d] EXCEPT !.at = "stamped", !.fired = now]]
        /\ UNCHANGED <<rules, outbox, evaluations, recorded, around>>
    BY <1>4, <1>12 DEF StampRound, Doing, Held, firings
  <2>2. now \in Nat
    BY DEF DispatchInv, Typed
  <2>3. PICK j \in Jobs : j = [job[d] EXCEPT !.at = "stamped", !.fired = now]
    BY <1>0, <2>2 DEF Jobs
  <2>4. /\ j.at = "stamped" /\ j.news = n /\ j.lost = job[d].lost /\ j.todo = job[d].todo
        /\ j.rule = q /\ j.left = {} /\ job' = [job EXCEPT ![d] = j]
    BY <1>0, <1>2, <1>3, <2>1, <2>3 DEF Jobs
  <2>5. /\ evaluations'[n][j.rule] # {}
        /\ j.lost \/ Receivers \ switched' \subseteq recorded'[n][j.rule] \cup j.left
    BY <1>0, <1>2, <1>3, <2>1, <2>4 DEF Tracked, around
  <2>6. Growing /\ TraceTyped' /\ Untouched'
    BY <1>5, <2>1
  <2>7. \A r \in Rules : r \in job[d].todo => r \in j.todo
    BY <2>4
  <2> QED BY <1>1, <1>2, <2>1, <2>4, <2>5, <2>6, <2>7, GoesOn
<1>13. CASE EndRule(d)
  <2>1. /\ job[d].at \in {"sending", "stamped"} /\ q \in Rules /\ NextRule(d)
        /\ UNCHANGED <<outbox, evaluations, recorded, around>>
    BY <1>4, <1>13 DEF EndRule, Doing, Held
  <2>2. job[d].left = {}
    BY <1>0, <1>13 DEF EndRule, Doing, Tracked
  <2>3. \A r \in Rules : rules'[r].active = rules[r].active
    <3>1. UNCHANGED rules \/ rules' = [rules EXCEPT ![q].fired = job[d].fired]
      BY <1>3, <1>13 DEF EndRule, firings
    <3> QED BY <1>0, <2>1, <3>1 DEF RuleRow
  <2>4. Growing /\ TraceTyped' /\ Untouched'
    BY <1>0, <2>1, <2>3, NothingLearnt DEF around, TraceTyped
  <2>5. Settled(n, q) \/ job[d].lost
    BY <1>0, <1>2, <1>3, <2>1, <2>2 DEF Tracked, Settled
  <2>6. Settled(n, q) => Settled(n, q)'
    BY <2>1, <2>4, SettledGrows
  <2> QED BY <1>2, <1>3, <2>1, <2>4, <2>5, <2>6, LeavesRule DEF Held
<1>14. ASSUME NEW c \in Receivers, Notify(d, c) \/ NotifyUnrecorded(d, c)
       PROVE  TraceInv'
  <2>1. /\ job[d].at = "sending" /\ q \in Rules
        /\ UNCHANGED <<rules, outbox, evaluations, around>>
    BY <1>4, <1>14 DEF Notify, NotifyUnrecorded, Doing, Held, firings
  <2>2. /\ evaluations[n][q] # {}
        /\ job[d].lost \/ Receivers \ switched \subseteq recorded[n][q] \cup job[d].left
    BY <1>0, <1>2, <1>3, <2>1 DEF Tracked
  <2>3. CASE Notify(d, c)
    <3>1. PICK sent \in BOOLEAN :
            job' = [job EXCEPT ![d].left = @ \ {c}, ![d].through = @ \/ sent]
      BY <2>3 DEF Notify
    <3>2. job[d].through \/ sent \in BOOLEAN
      BY <1>0 DEF Jobs
    <3>3. PICK j \in Jobs : j = [job[d] EXCEPT !.left = job[d].left \ {c},
                                                !.through = job[d].through \/ sent]
      BY <1>0, <3>2 DEF Jobs
    <3>4. /\ j.at = "sending" /\ j.news = n /\ j.todo = job[d].todo
          /\ j.lost = job[d].lost /\ j.left = job[d].left \ {c} /\ j.rule = q
          /\ job' = [job EXCEPT ![d] = j]
      BY <1>0, <1>2, <1>3, <2>1, <3>1, <3>3 DEF Jobs
    <3>5. recorded' = [recorded EXCEPT ![n][q] = @ \cup {c}]
      BY <1>2, <1>3, <2>3 DEF Notify
    <3>6. /\ recorded' \in [News -> [Rules -> SUBSET Receivers]]
          /\ recorded'[n][q] = recorded[n][q] \cup {c}
          /\ \A m \in News, r \in Rules : recorded[m][r] \subseteq recorded'[m][r]
      BY <1>0, <2>1, <3>5 DEF TraceTyped
    <3>7. Growing /\ TraceTyped' /\ Untouched'
      BY <1>0, <2>1, <3>6 DEF Growing, TraceTyped, Untouched, around
    <3>8. j.lost \/ Receivers \ switched' \subseteq recorded'[n][j.rule] \cup j.left
      BY <2>1, <2>2, <3>4, <3>6 DEF around
    <3>9. evaluations'[n][j.rule] # {}
      BY <2>1, <2>2, <3>4
    <3> QED BY <1>1, <1>2, <2>1, <3>4, <3>7, <3>8, <3>9, GoesOn
  <2>4. CASE NotifyUnrecorded(d, c)
    <3>1. job' = [job EXCEPT ![d].left = @ \ {c}, ![d].lost = TRUE] /\ UNCHANGED recorded
      BY <2>4 DEF NotifyUnrecorded
    <3>2. PICK j \in Jobs : j = [job[d] EXCEPT !.left = job[d].left \ {c}, !.lost = TRUE]
      BY <1>0 DEF Jobs
    <3>3. /\ j.at = "sending" /\ j.news = n /\ j.todo = job[d].todo
          /\ j.lost = TRUE /\ j.rule = q
          /\ job' = [job EXCEPT ![d] = j]
      BY <1>0, <1>2, <1>3, <2>1, <3>1, <3>2 DEF Jobs
    <3>4. evaluations'[n][j.rule] # {}
      BY <2>1, <2>2, <3>3
    <3> QED BY <1>1, <1>2, <1>5, <2>1, <3>1, <3>3, <3>4, GoesOn
  <2> QED BY <1>14, <2>3, <2>4
<1> QED
  BY <1>6, <1>7, <1>9, <1>10, <1>11, <1>12, <1>13, <1>14 DEF WorkOn

LEMMA TraceListed ==
  ASSUME DispatchInv, TraceInv, NEW d \in Dispatchers, NEW n \in News, ListRules(d, n)
  PROVE  TraceInv'
<1>0. /\ TraceTyped /\ Untouched /\ job \in [Dispatchers -> Jobs] /\ job[d] \in Jobs
      /\ UNCHANGED <<rules, evaluations, recorded, around>>
  BY DEF DispatchInv, Typed, TraceInv, ListRules, firings
<1>1. /\ outbox' = [outbox EXCEPT ![n] = "processing"]
      /\ outbox' \in [News -> {"pending", "processing", "processed"}]
      /\ \A m \in News : outbox'[m] = "processed" => outbox[m] = "processed"
  BY <1>0 DEF ListRules, TraceTyped
<1>2. Growing /\ TraceTyped' /\ Untouched'
  BY <1>0, <1>1, NothingLearnt DEF around, TraceInv
<1> DEFINE todo == {r \in Rules : rules[r].active}
<1>3. job' = [job EXCEPT ![d] = [job[d] EXCEPT !.at = "listed", !.news = n, !.todo = todo]]
  BY <1>0, ZenonT(30) DEF ListRules
<1>4. PICK t \in SUBSET Rules : t = todo
  OBVIOUS
<1>5. PICK j \in Jobs : j = [job[d] EXCEPT !.at = "listed", !.news = n, !.todo = t]
  BY <1>0 DEF Jobs
<1>6. /\ j.at = "listed" /\ j.news = n /\ j.todo = t /\ job' = [job EXCEPT ![d] = j]
  BY <1>0, <1>3, <1>4, <1>5 DEF Jobs
<1>7. \A r \in Rules \ formed' : r \in j.todo
  BY <1>0, <1>4, <1>6 DEF Untouched, around
<1>8. Tracked(j)'
  BY <1>6, <1>7 DEF Tracked
<1> QED
  BY <1>1, <1>2, <1>6, <1>8, TraceMoves

\* Forms, retries, channels, a crash, time.
LEMMA TraceOthers ==
  ASSUME DispatchInv, TraceInv,
         \/ \E r \in Rules : EditRule(r) \/ RetryGetsThrough(r) \/ RetryWrites(r)
         \/ \E c \in Receivers : SwitchReceiver(c)
         \/ Killed \/ PassTime \/ UNCHANGED dispatchVars
  PROVE  TraceInv'
<1>0. TraceTyped /\ Untouched /\ rules \in [Rules -> RuleRow]
  BY DEF DispatchInv, Typed, TraceInv
<1>1. ASSUME NEW r \in Rules, EditRule(r) PROVE TraceInv'
  <2>1. /\ UNCHANGED <<job, outbox, evaluations, recorded, enabled, switched>>
        /\ formed' = formed \cup {r} /\ rules' = [rules EXCEPT ![r].active = ~@]
    BY <1>1 DEF EditRule
  <2>2. Growing /\ TraceTyped'
    BY <1>0, <2>1 DEF Growing, TraceTyped
  <2>3. Untouched'
    BY <1>0, <2>1 DEF Untouched
  <2> QED BY <2>1, <2>2, <2>3, TraceStays
<1>2. ASSUME NEW r \in Rules, RetryGetsThrough(r) \/ RetryWrites(r) PROVE TraceInv'
  <2>1. UNCHANGED <<job, outbox, evaluations, recorded, enabled, formed, switched>>
    BY <1>2 DEF RetryGetsThrough, RetryWrites
  <2>2. UNCHANGED rules \/ \E t : rules' = [rules EXCEPT ![r].fired = t]
    BY <1>2 DEF RetryGetsThrough, RetryWrites, firings
  <2>3. \A q \in Rules : rules'[q].active = rules[q].active
    BY <1>0, <2>2 DEF RuleRow
  <2> QED BY <1>0, <2>1, <2>3, NothingLearnt, TraceStays DEF TraceTyped
<1>3. ASSUME NEW c \in Receivers, SwitchReceiver(c) PROVE TraceInv'
  <2>1. /\ UNCHANGED <<rules, job, outbox, evaluations, recorded, formed>>
        /\ switched' = switched \cup {c} /\ enabled \ {c} \subseteq enabled'
    BY <1>3 DEF SwitchReceiver, firings
  <2>2. Growing /\ TraceTyped' /\ Untouched'
    BY <1>0, <2>1 DEF Growing, TraceTyped, Untouched
  <2> QED BY <2>1, <2>2, TraceStays
<1>4. CASE Killed
  <2>1. /\ job' = [d \in Dispatchers |-> NoJob]
        /\ UNCHANGED <<rules, outbox, evaluations, recorded, enabled, formed, switched>>
    BY <1>4 DEF Killed, firings
  <2>2. NoJob.at = "free"
    BY DEF NoJob
  <2>3. Growing /\ TraceTyped' /\ Untouched'
    BY <1>0, <2>1, NothingLearnt DEF TraceTyped
  <2>4. \A d \in Dispatchers : Tracked(job[d])'
    BY <2>1, <2>2 DEF Tracked
  <2>5. ASSUME NEW n \in News, outbox'[n] = "processed", NEW r \in Rules \ formed'
        PROVE  Settled(n, r)'
    BY <2>1, <2>5 DEF TraceInv, Settled
  <2> QED BY <2>3, <2>4, <2>5 DEF TraceInv
<1>5. CASE PassTime \/ UNCHANGED dispatchVars
  <2>1. UNCHANGED <<rules, job, outbox, evaluations, recorded, enabled, formed, switched>>
    BY <1>5 DEF PassTime, dispatchVars, firings, around
  <2> QED BY <1>0, <2>1, NothingLearnt, TraceStays DEF TraceTyped
<1> QED
  BY <1>1, <1>2, <1>3, <1>4, <1>5

LEMMA TraceStep ==
  DispatchInv /\ TraceInv /\ [DispatchNext]_dispatchVars => TraceInv'
BY TraceSteps, TraceListed, TraceOthers DEF DispatchNext

\* However many events are dispatched at once, whatever fails and however often
\* the process dies: an event counts as processed only when every rule that was
\* not edited has judged it (dispatchEvent, MarkOutboxProcessed).
THEOREM RulesRemembered == DispatchSpec => []NoRuleForgotten
<1>1. TraceInv => NoRuleForgotten
  BY DEF TraceInv, NoRuleForgotten, Settled
<1> QED
  BY <1>1, DispatchInitInv, DispatchStep, TraceInitInv, TraceStep, PTL DEF DispatchSpec

\* And every channel that was enabled all the time is accounted for by then: it has
\* a row of an attempt, or another evaluation says why the message was not sent
\* again, for any number of channels that are switched on and off meanwhile
\* (sendAndRecord, dispatchErr, ListNotifyChannelsByIDs).
THEOREM LossesExplained == DispatchSpec => []LossExplained
<1>1. TraceInv => LossExplained
  BY DEF TraceInv, LossExplained, Settled
<1> QED
  BY <1>1, DispatchInitInv, DispatchStep, TraceInitInv, TraceStep, PTL DEF DispatchSpec

-----------------------------------------------------------------------------
(* Conditions are trees, and what is computed of them is defined by recursion:   *)
(* first, that such functions exist and how to reason about them.                *)

\* A non-empty set of numbers has a least element.
LEMMA LeastOf ==
  ASSUME NEW S \in SUBSET Nat, S # {}
  PROVE  \E j \in S : \A i \in S : j <= i
<1> DEFINE R == {ss \in Nat \X Nat : ss[1] < ss[2]}
<1>1. R = OpToRel(<, Nat)
  BY DEF OpToRel
<1>2. IsWellFoundedOn(R, Nat)
  BY <1>1, NatLessThanWellFounded
<1>3. PICK x \in S : \A y \in S : ~(<<y, x>> \in R)
  <2> HIDE DEF R
  <2> QED BY <1>2, WFMin
<1>4. \A y \in S : x <= y
  <2> TAKE y \in S
  <2>1. ~(y < x)
    BY <1>3
  <2> QED BY <2>1
<1> QED BY <1>4

\* A set of numbers that has 0 and the successors of its members has them all.
LEMMA Climbing ==
  ASSUME NEW S \in SUBSET Nat, 0 \in S, \A n \in S : n + 1 \in S
  PROVE  S = Nat
<1> SUFFICES ASSUME Nat \ S # {} PROVE FALSE
  OBVIOUS
<1>1. PICK j \in Nat \ S : \A i \in Nat \ S : j <= i
  BY LeastOf
<1>2. j # 0 /\ j - 1 \in Nat
  OBVIOUS
<1>3. j - 1 \in S
  BY <1>1, <1>2
<1>4. (j - 1) + 1 \in S
  BY <1>3
<1> QED BY <1>1, <1>4

\* Induction over a set whose members have ranks.
Inherited(T, C, rank) ==
  \A c \in C : (\A d \in C : rank[d] < rank[c] => d \in T) => c \in T

LEMMA RankInduction ==
  ASSUME NEW C, NEW rank \in [C -> Nat], NEW T, Inherited(T, C, rank)
  PROVE  C \subseteq T
<1> USE DEF Inherited
<1> DEFINE S == {n \in Nat : \A c \in C : rank[c] < n => c \in T}
<1>1. 0 \in S
  OBVIOUS
<1>2. ASSUME NEW n \in S PROVE n + 1 \in S
  <2>1. ASSUME NEW c \in C, rank[c] < n + 1 PROVE c \in T
    <3>1. \A d \in C : rank[d] < rank[c] => rank[d] < n
      BY <2>1
    <3> QED BY <3>1
  <2> QED BY <2>1
<1>3. S = Nat
  <2> HIDE DEF S
  <2>1. S \subseteq Nat
    BY DEF S
  <2> QED BY <1>1, <1>2, <2>1, Climbing
<1>4. \A c \in C : rank[c] + 1 \in S /\ rank[c] < rank[c] + 1
  <2> HIDE DEF S
  <2> QED BY <1>3
<1> QED BY <1>4

\* What a step gives at c is in X, and it looks only at what has a smaller rank.
Descends(step, C, X, rank) ==
  /\ \A c \in C, g \in [C -> X] : step[c][g] \in X
  /\ \A c \in C, g, h \in [C -> X] :
       (\A d \in C : rank[d] < rank[c] => g[d] = h[d]) => step[c][g] = step[c][h]

\* Recursion over a set whose members have ranks: there is a function that the
\* step gives at each c from its values at what has a smaller rank.
LEMMA RankRecursion ==
  ASSUME NEW C, NEW X, X # {}, NEW rank \in [C -> Nat], NEW step,
         Descends(step, C, X, rank)
  PROVE  \E f \in [C -> X] : f = [c \in C |-> step[c][f]]
<1> USE DEF Descends
<1> DEFINE Upto(n) == {g \in [C -> X] : \A c \in C : rank[c] < n => g[c] = step[c][g]}
<1>1. \A n \in Nat : Upto(n) # {}
  <2> DEFINE S == {n \in Nat : Upto(n) # {}}
  <2>1. 0 \in S
    <3>1. PICK x \in X : TRUE
      OBVIOUS
    <3>2. [c \in C |-> x] \in Upto(0)
      OBVIOUS
    <3> QED BY <3>2
  <2>2. ASSUME NEW n \in S PROVE n + 1 \in S
    <3>1. PICK g \in Upto(n) : TRUE
      OBVIOUS
    <3> DEFINE h == [c \in C |-> step[c][g]]
    <3>2. h \in [C -> X]
      OBVIOUS
    <3>3. ASSUME NEW c \in C, rank[c] < n + 1 PROVE h[c] = step[c][h]
      <4>1. \A d \in C : rank[d] < rank[c] => g[d] = h[d]
        <5> TAKE d \in C
        <5>1. rank[d] < rank[c] => rank[d] < n
          BY <3>3
        <5> QED BY <5>1
      <4>2. step[c][g] = step[c][h]
        <5> HIDE DEF h
        <5> QED BY <3>2, <4>1
      <4> QED BY <4>2
    <3>4. h \in Upto(n + 1)
      BY <3>2, <3>3
    <3>5. n + 1 \in Nat
      OBVIOUS
    <3> HIDE DEF Upto, h
    <3> QED BY <3>4, <3>5
  <2>3. S = Nat
    <3> HIDE DEF S
    <3>1. S \subseteq Nat
      BY DEF S
    <3> QED BY <2>1, <2>2, <3>1, Climbing
  <2> QED BY <2>3
<1>2. \A n, m \in Nat : \A g \in Upto(n), h \in Upto(m), c \in C :
        rank[c] < n /\ rank[c] < m => g[c] = h[c]
  <2> SUFFICES ASSUME NEW n \in Nat, NEW m \in Nat, NEW g \in Upto(n), NEW h \in Upto(m)
               PROVE  \A c \in C : rank[c] < n /\ rank[c] < m => g[c] = h[c]
    OBVIOUS
  <2> DEFINE T == {c \in C : rank[c] < n /\ rank[c] < m => g[c] = h[c]}
  <2>1. ASSUME NEW c \in C, \A d \in C : rank[d] < rank[c] => d \in T PROVE c \in T
    <3>1. ASSUME rank[c] < n, rank[c] < m PROVE g[c] = h[c]
      <4>1. \A d \in C : rank[d] < rank[c] => g[d] = h[d]
        <5> TAKE d \in C
        <5>1. rank[d] < rank[c] => rank[d] < n /\ rank[d] < m
          BY <3>1
        <5> QED BY <5>1, <2>1
      <4>2. step[c][g] = step[c][h]
        BY <4>1
      <4> QED BY <3>1, <4>2
    <3> QED BY <3>1
  <2>2. C \subseteq T
    <3>1. Inherited(T, C, rank)
      <4> HIDE DEF T
      <4> QED BY <2>1 DEF Inherited
    <3> HIDE DEF T
    <3> QED BY <3>1, RankInduction
  <2> QED BY <2>2
<1> DEFINE G(n) == CHOOSE g \in Upto(n) : TRUE
           f == [c \in C |-> G(rank[c] + 1)[c]]
<1>3. \A n \in Nat : G(n) \in Upto(n)
  <2> HIDE DEF Upto
  <2> QED BY <1>1
<1>4. \A c \in C : rank[c] + 1 \in Nat /\ G(rank[c] + 1) \in [C -> X]
  <2> TAKE c \in C
  <2>1. rank[c] + 1 \in Nat
    OBVIOUS
  <2> HIDE DEF G
  <2> QED BY <2>1, <1>3
<1>5. f \in [C -> X]
  <2> HIDE DEF G
  <2> QED BY <1>4
<1>6. ASSUME NEW c \in C PROVE f[c] = step[c][f]
  <2>1. G(rank[c] + 1) \in Upto(rank[c] + 1) /\ rank[c] < rank[c] + 1
    <3> HIDE DEF G, Upto
    <3> QED BY <1>3, <1>4
  <2>2. f[c] = G(rank[c] + 1)[c]
    <3> HIDE DEF G
    <3> QED OBVIOUS
  <2>3. G(rank[c] + 1)[c] = step[c][G(rank[c] + 1)]
    <3> HIDE DEF G
    <3> QED BY <2>1
  <2>4. ASSUME NEW d \in C, rank[d] < rank[c] PROVE G(rank[c] + 1)[d] = f[d]
    <3>1. G(rank[d] + 1) \in Upto(rank[d] + 1) /\ rank[d] < rank[d] + 1 /\ rank[d] < rank[c] + 1
      <4> HIDE DEF G, Upto
      <4> QED BY <1>3, <1>4, <2>4
    <3>2. f[d] = G(rank[d] + 1)[d]
      <4> HIDE DEF G
      <4> QED OBVIOUS
    <3>3. G(rank[c] + 1)[d] = G(rank[d] + 1)[d]
      <4> HIDE DEF G, Upto
      <4> QED BY <1>2, <1>4, <2>1, <3>1
    <3> QED BY <3>2, <3>3
  <2>5. step[c][G(rank[c] + 1)] = step[c][f]
    <3> HIDE DEF G, f
    <3> QED BY <1>4, <1>5, <2>4
  <2> QED BY <2>2, <2>3, <2>5
<1>7. f = [c \in C |-> step[c][f]]
  <2>1. \A c \in C : step[c][f] = f[c]
    BY <1>6
  <2> HIDE DEF G
  <2>2. f = [c \in C |-> f[c]]
    OBVIOUS
  <2> HIDE DEF f
  <2> QED BY <2>1, <2>2
<1> QED BY <1>5, <1>7

-----------------------------------------------------------------------------
Outcomes == {"yes", "no", "error"}

\* The children of a group are conditions of a smaller depth.
LEMMA ChildOf ==
  ASSUME NEW c \in Conditions
  PROVE  /\ SubConditions(c) \in Seq(Conditions)
         /\ \A i \in DOMAIN SubConditions(c) :
              SubConditions(c)[i] \in Conditions /\ Depth[SubConditions(c)[i]] < Depth[c]
<1> DEFINE s == SubConditions(c)
<1>1. s \in Seq(Conditions) /\ \A i \in DOMAIN s : Depth[s[i]] < Depth[c]
  BY ConditionAssumption
<1>2. \A i \in DOMAIN s : s[i] \in Conditions
  <2> HIDE DEF s
  <2> QED BY <1>1
<1> QED BY <1>1, <1>2

\* What a list of results comes to: the first of them that stops, or none does.
SettledBy(match) == IF Mode(match) = "any" THEN "yes" ELSE "no"

ComesTo(v, match, s, g) ==
  \/ s = <<>> /\ v = "yes"
  \/ /\ s # <<>> /\ v = YesNo(SettledBy(match) = "no")
     /\ \A i \in DOMAIN s : g[s[i]] \notin {"error", SettledBy(match)}
  \/ \E i \in DOMAIN s : v = g[s[i]] /\ v \in {"error", SettledBy(match)}

LEMMA SetOutcome ==
  ASSUME NEW s \in Seq(Conditions), NEW g \in [Conditions -> Outcomes],
         NEW match, Mode(match) \in {"all", "any"}
  PROVE  ComesTo(evalSet(match, [i \in DOMAIN s |-> g[s[i]]]), match, s, g)
<1> DEFINE r == [i \in DOMAIN s |-> g[s[i]]]
           settled == SettledBy(match)
           stops == {i \in DOMAIN r : r[i] \in {"error", settled}}
           first == CHOOSE i \in stops : \A j \in stops : i <= j
<1>1. evalSet(match, r) = IF r = <<>> THEN "yes"
                          ELSE IF stops = {} THEN YesNo(settled = "no") ELSE r[first]
  BY DEF evalSet, SettledBy
<1>2. s = <<>> => r = <<>>
  OBVIOUS
<1>3. s # <<>> => r # <<>>
  <2> SUFFICES ASSUME s # <<>> PROVE r # <<>>
    OBVIOUS
  <2>1. 1 \in DOMAIN s
    OBVIOUS
  <2>2. 1 \in DOMAIN r
    BY <2>1
  <2> HIDE DEF r
  <2> QED BY <2>2
<1>4. DOMAIN r = DOMAIN s /\ DOMAIN s \subseteq Nat /\ \A i \in DOMAIN s : r[i] = g[s[i]]
  OBVIOUS
<1>5. stops # {} => first \in stops
  <2>1. stops \in SUBSET Nat
    <3> HIDE DEF r
    <3> QED BY <1>4
  <2> HIDE DEF stops
  <2> QED BY <2>1, LeastOf
<1> HIDE DEF r, first
<1>6. CASE s = <<>>
  BY <1>1, <1>2, <1>6 DEF ComesTo
<1>7. CASE s # <<>> /\ stops = {}
  <2>1. \A i \in DOMAIN s : g[s[i]] \notin {"error", settled}
    BY <1>4, <1>7
  <2> QED BY <1>1, <1>3, <1>7, <2>1 DEF r, ComesTo
<1>8. CASE s # <<>> /\ stops # {}
  <2>1. evalSet(match, r) = r[first] /\ first \in stops
    BY <1>1, <1>3, <1>5, <1>8
  <2>2. first \in DOMAIN s /\ r[first] = g[s[first]] /\ r[first] \in {"error", settled}
    BY <1>4, <2>1
  <2> QED BY <2>1, <2>2 DEF r, ComesTo
<1> QED BY <1>6, <1>7, <1>8

LEMMA SetOutcomeTyped ==
  ASSUME NEW s \in Seq(Conditions), NEW g \in [Conditions -> Outcomes], NEW match
  PROVE  evalSet(match, [i \in DOMAIN s |-> g[s[i]]]) \in Outcomes
<1> DEFINE v == evalSet(match, [i \in DOMAIN s |-> g[s[i]]])
           settled == SettledBy(match)
<1> SUFFICES v \in Outcomes
  OBVIOUS
<1>1. CASE Mode(match) \in {"all", "any"}
  <2>1. v = "yes" \/ v = YesNo(settled = "no") \/ v \in {"error", settled}
    <3> HIDE DEF v
    <3> QED BY <1>1, SetOutcome DEF v, ComesTo
  <2>2. YesNo(settled = "no") \in Outcomes /\ settled \in Outcomes /\ "error" \in Outcomes
    BY DEF YesNo, Outcomes, SettledBy
  <2>3. "yes" \in Outcomes
    BY DEF Outcomes
  <2> HIDE DEF v, settled
  <2> QED BY <2>1, <2>2, <2>3
<1>2. CASE Mode(match) \notin {"all", "any"}
  BY <1>2 DEF evalSet, Outcomes
<1> QED BY <1>1, <1>2

LEMMA LeafTyped ==
  ASSUME NEW c, NEW e PROVE Leaf(c, e) \in Outcomes
BY DEF Leaf, YesNo, Outcomes

\* The outcome of a group is that of its children's outcomes.
EvalStep(c, g, e) ==
  IF isGroup(c)
  THEN evalSet(c.match, [i \in DOMAIN SubConditions(c) |-> g[SubConditions(c)[i]]])
  ELSE Leaf(c, e)

LEMMA EvalRecursion ==
  ASSUME NEW e
  PROVE  /\ eval(e) \in [Conditions -> Outcomes]
         /\ eval(e) = [c \in Conditions |-> EvalStep(c, eval(e), e)]
<1> DEFINE Fn == [Conditions -> Outcomes]
           step == [c \in Conditions |-> [g \in Fn |-> EvalStep(c, g, e)]]
<1>1. ASSUME NEW c \in Conditions, NEW g \in Fn PROVE EvalStep(c, g, e) \in Outcomes
  BY ChildOf, SetOutcomeTyped, LeafTyped DEF EvalStep
<1>2. ASSUME NEW c \in Conditions, NEW g, NEW h,
             \A d \in Conditions : Depth[d] < Depth[c] => g[d] = h[d]
      PROVE  EvalStep(c, g, e) = EvalStep(c, h, e)
  <2>1. \A i \in DOMAIN SubConditions(c) : g[SubConditions(c)[i]] = h[SubConditions(c)[i]]
    BY <1>2, ChildOf
  <2>2. [i \in DOMAIN SubConditions(c) |-> g[SubConditions(c)[i]]]
          = [i \in DOMAIN SubConditions(c) |-> h[SubConditions(c)[i]]]
    BY <2>1
  <2> QED BY <2>2 DEF EvalStep
<1>3. \A c \in Conditions, g \in Fn : step[c][g] = EvalStep(c, g, e)
  OBVIOUS
<1>4. PICK f \in Fn : f = [c \in Conditions |-> step[c][f]]
  <2>1. Descends(step, Conditions, Outcomes, Depth)
    <3> HIDE DEF step
    <3> QED BY <1>1, <1>2, <1>3 DEF Descends
  <2>2. Depth \in [Conditions -> Nat] /\ Outcomes # {}
    BY ConditionAssumption DEF Outcomes
  <2> HIDE DEF step
  <2> QED BY <2>1, <2>2, RankRecursion
<1>5. f = [c \in Conditions |-> EvalStep(c, f, e)]
  BY <1>4
<1>6. eval(e) = CHOOSE g : g = [c \in Conditions |-> EvalStep(c, g, e)]
  BY DEF eval, EvalStep
<1>7. eval(e) = [c \in Conditions |-> EvalStep(c, eval(e), e)]
  BY <1>5, <1>6
<1>8. eval(e) = f
  <2> DEFINE T == {c \in Conditions : eval(e)[c] = f[c]}
  <2>1. ASSUME NEW c \in Conditions, \A d \in Conditions : Depth[d] < Depth[c] => d \in T
        PROVE  c \in T
    <3>1. EvalStep(c, eval(e), e) = EvalStep(c, f, e)
      BY <1>2, <2>1
    <3>2. eval(e)[c] = EvalStep(c, eval(e), e)
      BY <1>7
    <3>3. f[c] = EvalStep(c, f, e)
      BY <1>5
    <3> QED BY <3>1, <3>2, <3>3
  <2>2. Conditions \subseteq T
    <3>1. Inherited(T, Conditions, Depth)
      <4> HIDE DEF T
      <4> QED BY <2>1 DEF Inherited
    <3>2. Depth \in [Conditions -> Nat]
      BY ConditionAssumption
    <3> HIDE DEF T
    <3> QED BY <3>1, <3>2, RankInduction
  <2>3. eval(e) = [c \in Conditions |-> eval(e)[c]]
    BY <1>7
  <2>4. f = [c \in Conditions |-> f[c]]
    OBVIOUS
  <2> QED BY <2>2, <2>3, <2>4
<1> QED BY <1>7, <1>8

\* What a condition says, order and errors aside.
HoldsStep(c, g, e, doubt) ==
  IF isGroup(c)
  THEN LET child == {SubConditions(c)[i] : i \in DOMAIN SubConditions(c)} IN
       IF c.match = "any" THEN \E x \in child : g[x] ELSE \A x \in child : g[x]
  ELSE IF Unreadable(c, e) THEN doubt ELSE Leaf(c, e) = "yes"

LEMMA HoldsRecursion ==
  ASSUME NEW e, NEW doubt \in BOOLEAN
  PROVE  Holds(e, doubt) = [c \in Conditions |-> HoldsStep(c, Holds(e, doubt), e, doubt)]
<1> DEFINE Fn == [Conditions -> BOOLEAN]
           step == [c \in Conditions |-> [g \in Fn |-> HoldsStep(c, g, e, doubt)]]
<1>1. ASSUME NEW c \in Conditions, NEW g \in Fn PROVE HoldsStep(c, g, e, doubt) \in BOOLEAN
  BY DEF HoldsStep
<1>2. ASSUME NEW c \in Conditions, NEW g \in Fn, NEW h \in Fn,
             \A d \in Conditions : Depth[d] < Depth[c] => g[d] = h[d]
      PROVE  HoldsStep(c, g, e, doubt) = HoldsStep(c, h, e, doubt)
  <2> DEFINE child == {SubConditions(c)[i] : i \in DOMAIN SubConditions(c)}
  <2>1. \A x \in child : g[x] = h[x]
    BY <1>2, ChildOf
  <2>2. (\E x \in child : g[x]) = (\E x \in child : h[x])
    <3> HIDE DEF child
    <3> QED BY <2>1
  <2>3. (\A x \in child : g[x]) = (\A x \in child : h[x])
    <3> HIDE DEF child
    <3> QED BY <2>1
  <2> QED BY <2>2, <2>3 DEF HoldsStep
<1>3. \A c \in Conditions, g \in Fn : step[c][g] = HoldsStep(c, g, e, doubt)
  OBVIOUS
<1>4. PICK f \in Fn : f = [c \in Conditions |-> step[c][f]]
  <2>1. Descends(step, Conditions, BOOLEAN, Depth)
    <3> HIDE DEF step
    <3> QED BY <1>1, <1>2, <1>3 DEF Descends
  <2>2. Depth \in [Conditions -> Nat] /\ BOOLEAN # {}
    BY ConditionAssumption
  <2> HIDE DEF step
  <2> QED BY <2>1, <2>2, RankRecursion
<1>5. f = [c \in Conditions |-> HoldsStep(c, f, e, doubt)]
  BY <1>4
<1>6. Holds(e, doubt) = CHOOSE g : g = [c \in Conditions |-> HoldsStep(c, g, e, doubt)]
  BY DEF Holds, HoldsStep
<1> QED BY <1>5, <1>6

\* What the form accepts: a tree of valid groups and leaves, ...
ValidStep(c, g) ==
  [depth \in 1..(MaxDepth + 1) |->
    /\ depth <= MaxDepth
    /\ IF isGroup(c)
       THEN /\ c.field = Blank /\ c.operator = "" /\ c.value = Blank
            /\ Mode(c.match) \in {"all", "any"}
            /\ SubConditions(c) # <<>>
            /\ \A i \in DOMAIN SubConditions(c) : g[SubConditions(c)[i]][depth + 1]
       ELSE LeafValid(c)]

LEMMA ValidRecursion ==
  validateCondition = [c \in Conditions |-> ValidStep(c, validateCondition)]
<1> DEFINE X == [1..(MaxDepth + 1) -> BOOLEAN]
           Fn == [Conditions -> X]
           step == [c \in Conditions |-> [g \in Fn |-> ValidStep(c, g)]]
<1>1. ASSUME NEW c \in Conditions, NEW g \in Fn PROVE ValidStep(c, g) \in X
  BY DEF ValidStep
<1>2. ASSUME NEW c \in Conditions, NEW g \in Fn, NEW h \in Fn,
             \A d \in Conditions : Depth[d] < Depth[c] => g[d] = h[d]
      PROVE  ValidStep(c, g) = ValidStep(c, h)
  <2>1. \A i \in DOMAIN SubConditions(c) : g[SubConditions(c)[i]] = h[SubConditions(c)[i]]
    BY <1>2, ChildOf
  <2> QED BY <2>1 DEF ValidStep
<1>3. \A c \in Conditions, g \in Fn : step[c][g] = ValidStep(c, g)
  OBVIOUS
<1>4. PICK f \in Fn : f = [c \in Conditions |-> step[c][f]]
  <2>1. Descends(step, Conditions, X, Depth)
    <3> HIDE DEF step, X
    <3> QED BY <1>1, <1>2, <1>3 DEF Descends
  <2>2. Depth \in [Conditions -> Nat]
    BY ConditionAssumption
  <2>3. X # {}
    <3>1. [depth \in 1..(MaxDepth + 1) |-> TRUE] \in X
      OBVIOUS
    <3> QED BY <3>1
  <2> HIDE DEF step, X
  <2> QED BY <2>1, <2>2, <2>3, RankRecursion
<1>5. f = [c \in Conditions |-> ValidStep(c, f)]
  BY <1>4
<1>6. validateCondition = CHOOSE g : g = [c \in Conditions |-> ValidStep(c, g)]
  BY DEF validateCondition, ValidStep
<1> QED BY <1>5, <1>6

\* ... whose leaves are about fields of the monitors' events.
GivenStep(c, g) ==
  IF isGroup(c) THEN \A i \in DOMAIN SubConditions(c) : g[SubConditions(c)[i]]
  ELSE /\ c.field \in Fields
       /\ c.operator = "within_last" => c.field \in TimeFields

LEMMA GivenRecursion ==
  validateConditionNodeFields = [c \in Conditions |-> GivenStep(c, validateConditionNodeFields)]
<1> DEFINE Fn == [Conditions -> BOOLEAN]
           step == [c \in Conditions |-> [g \in Fn |-> GivenStep(c, g)]]
<1>1. ASSUME NEW c \in Conditions, NEW g \in Fn PROVE GivenStep(c, g) \in BOOLEAN
  BY DEF GivenStep
<1>2. ASSUME NEW c \in Conditions, NEW g \in Fn, NEW h \in Fn,
             \A d \in Conditions : Depth[d] < Depth[c] => g[d] = h[d]
      PROVE  GivenStep(c, g) = GivenStep(c, h)
  <2>1. \A i \in DOMAIN SubConditions(c) : g[SubConditions(c)[i]] = h[SubConditions(c)[i]]
    BY <1>2, ChildOf
  <2> QED BY <2>1 DEF GivenStep
<1>3. \A c \in Conditions, g \in Fn : step[c][g] = GivenStep(c, g)
  OBVIOUS
<1>4. PICK f \in Fn : f = [c \in Conditions |-> step[c][f]]
  <2>1. Descends(step, Conditions, BOOLEAN, Depth)
    <3> HIDE DEF step
    <3> QED BY <1>1, <1>2, <1>3 DEF Descends
  <2>2. Depth \in [Conditions -> Nat] /\ BOOLEAN # {}
    BY ConditionAssumption
  <2> HIDE DEF step
  <2> QED BY <2>1, <2>2, RankRecursion
<1>5. f = [c \in Conditions |-> GivenStep(c, f)]
  BY <1>4
<1>6. validateConditionNodeFields = CHOOSE g : g = [c \in Conditions |-> GivenStep(c, g)]
  BY DEF validateConditionNodeFields, GivenStep
<1> QED BY <1>5, <1>6

-----------------------------------------------------------------------------
(* A valid condition is judged as it reads.                                    *)

Garbled(e) == \E f \in TimeFields : e[f] # Absent /\ e[f].age = NoTime /\ e[f].words # {}

\* The outcome v is what is said for either value of the doubt, or an error over
\* a time field that holds no time.
Fits(v, said, e) ==
  /\ v = "yes" => \A doubt \in BOOLEAN : said[doubt]
  /\ v = "no" => \A doubt \in BOOLEAN : ~said[doubt]
  /\ v = "error" => Garbled(e)

Right(c, e) == Fits(eval(e)[c], [doubt \in BOOLEAN |-> Holds(e, doubt)[c]], e)

\* What a list of conditions says.
SetSays(match, s, e, doubt) ==
  LET child == {s[i] : i \in DOMAIN s} IN
  IF match = "any" THEN \E x \in child : Holds(e, doubt)[x] ELSE \A x \in child : Holds(e, doubt)[x]

LEMMA LeafRight ==
  ASSUME NEW c \in Conditions, NEW e, ~isGroup(c), LeafValid(c), c.field \in Fields,
         c.operator = "within_last" => c.field \in TimeFields
  PROVE  Right(c, e)
<1>1. eval(e)[c] = Leaf(c, e)
  BY EvalRecursion DEF EvalStep
<1>2. ASSUME NEW doubt \in BOOLEAN
      PROVE  Holds(e, doubt)[c] = IF Unreadable(c, e) THEN doubt ELSE Leaf(c, e) = "yes"
  <2>1. Holds(e, doubt)[c] = HoldsStep(c, Holds(e, doubt), e, doubt)
    BY HoldsRecursion
  <2> QED BY <2>1 DEF HoldsStep
<1>3. Unreadable(c, e) => Leaf(c, e) = "error" /\ Garbled(e)
  <2> SUFFICES ASSUME Unreadable(c, e) PROVE Leaf(c, e) = "error" /\ Garbled(e)
    OBVIOUS
  <2>1. c.operator = "within_last" /\ Operator(c) = "within_last"
    BY DEF Unreadable, Operator
  <2>2. Garbled(e)
    BY <2>1 DEF Unreadable, Garbled
  <2>3. Leaf(c, e) = "error"
    BY <2>1 DEF Unreadable, Leaf
  <2> QED BY <2>2, <2>3
<1>4. Leaf(c, e) = "error" => Unreadable(c, e)
  BY DEF Leaf, LeafValid, Unreadable, YesNo
<1>5. \A doubt \in BOOLEAN : [d \in BOOLEAN |-> Holds(e, d)[c]][doubt] = Holds(e, doubt)[c]
  OBVIOUS
<1>6. CASE Unreadable(c, e)
  BY <1>1, <1>3, <1>6 DEF Right, Fits
<1>7. CASE ~Unreadable(c, e)
  <2>1. Leaf(c, e) # "error"
    BY <1>4, <1>7
  <2>2. \A doubt \in BOOLEAN : Holds(e, doubt)[c] <=> Leaf(c, e) = "yes"
    BY <1>2, <1>7
  <2> QED BY <1>1, <1>5, <2>1, <2>2 DEF Right, Fits
<1> QED BY <1>6, <1>7

LEMMA GroupRight ==
  ASSUME NEW s \in Seq(Conditions), s # <<>>, NEW match, Mode(match) \in {"all", "any"},
         NEW e, \A i \in DOMAIN s : Right(s[i], e)
  PROVE  Fits(evalSet(match, [i \in DOMAIN s |-> eval(e)[s[i]]]),
              [doubt \in BOOLEAN |-> SetSays(match, s, e, doubt)], e)
<1> DEFINE v == evalSet(match, [i \in DOMAIN s |-> eval(e)[s[i]]])
           says == [doubt \in BOOLEAN |-> SetSays(match, s, e, doubt)]
           settled == SettledBy(match)
<1>1. \/ /\ v = YesNo(settled = "no")
         /\ \A i \in DOMAIN s : eval(e)[s[i]] \notin {"error", settled}
      \/ \E i \in DOMAIN s : v = eval(e)[s[i]] /\ v \in {"error", settled}
  <2>1. PICK g \in [Conditions -> Outcomes] : g = eval(e)
    BY EvalRecursion
  <2>2. ComesTo(evalSet(match, [i \in DOMAIN s |-> g[s[i]]]), match, s, g)
    BY SetOutcome
  <2>3. ComesTo(v, match, s, eval(e))
    BY <2>1, <2>2
  <2> HIDE DEF v
  <2> QED BY <2>3 DEF ComesTo
<1>2. \A i \in DOMAIN s : eval(e)[s[i]] \in Outcomes
  <2>1. eval(e) \in [Conditions -> Outcomes]
    BY EvalRecursion
  <2>2. \A i \in DOMAIN s : s[i] \in Conditions
    OBVIOUS
  <2> QED BY <2>1, <2>2
<1>3. \A i \in DOMAIN s :
        /\ eval(e)[s[i]] = "yes" => \A doubt \in BOOLEAN : Holds(e, doubt)[s[i]]
        /\ eval(e)[s[i]] = "no" => \A doubt \in BOOLEAN : ~Holds(e, doubt)[s[i]]
        /\ eval(e)[s[i]] = "error" => Garbled(e)
  BY DEF Right, Fits
<1>4. \A doubt \in BOOLEAN : says[doubt] = SetSays(match, s, e, doubt)
  OBVIOUS
<1>5. Mode(match) = "any" <=> match = "any"
  BY DEF Mode
<1>6. DOMAIN s # {}
  OBVIOUS
<1> SUFFICES Fits(v, says, e)
  OBVIOUS
<1> HIDE DEF v, says
<1>7. CASE match = "any"
  <2>1. \A doubt \in BOOLEAN : SetSays(match, s, e, doubt) <=> \E i \in DOMAIN s : Holds(e, doubt)[s[i]]
    BY <1>7 DEF SetSays
  <2>2. settled = "yes"
    BY <1>5, <1>7 DEF SettledBy
  <2>3. \/ v = "no" /\ \A i \in DOMAIN s : eval(e)[s[i]] = "no"
        \/ \E i \in DOMAIN s : v = eval(e)[s[i]] /\ v \in {"error", "yes"}
    BY <1>1, <1>2, <2>2 DEF YesNo, Outcomes
  <2> QED BY <1>3, <1>4, <2>1, <2>3 DEF Fits
<1>8. CASE match # "any"
  <2>1. \A doubt \in BOOLEAN : SetSays(match, s, e, doubt) <=> \A i \in DOMAIN s : Holds(e, doubt)[s[i]]
    BY <1>8 DEF SetSays
  <2>2. settled = "no"
    BY <1>5, <1>8 DEF SettledBy
  <2>3. \/ v = "yes" /\ \A i \in DOMAIN s : eval(e)[s[i]] = "yes"
        \/ \E i \in DOMAIN s : v = eval(e)[s[i]] /\ v \in {"error", "no"}
    BY <1>1, <1>2, <2>2 DEF YesNo, Outcomes
  <2> QED BY <1>3, <1>4, <2>1, <2>3 DEF Fits
<1> QED BY <1>7, <1>8

\* A condition that the form accepts, at whatever level it is.
Accepted(c) ==
  /\ \E depth \in 1..(MaxDepth + 1) : validateCondition[c][depth]
  /\ validateConditionNodeFields[c]

LEMMA AcceptedParts ==
  ASSUME NEW c \in Conditions, Accepted(c)
  PROVE  /\ isGroup(c) => /\ Mode(c.match) \in {"all", "any"} /\ SubConditions(c) # <<>>
                          /\ \A i \in DOMAIN SubConditions(c) : Accepted(SubConditions(c)[i])
         /\ ~isGroup(c) => /\ LeafValid(c) /\ c.field \in Fields
                           /\ c.operator = "within_last" => c.field \in TimeFields
<1>1. PICK depth \in 1..(MaxDepth + 1) : validateCondition[c][depth]
  BY DEF Accepted
<1>2. validateCondition[c] = ValidStep(c, validateCondition)
  BY ValidRecursion
<1>3. /\ depth <= MaxDepth
      /\ IF isGroup(c)
         THEN /\ c.field = Blank /\ c.operator = "" /\ c.value = Blank
              /\ Mode(c.match) \in {"all", "any"}
              /\ SubConditions(c) # <<>>
              /\ \A i \in DOMAIN SubConditions(c) : validateCondition[SubConditions(c)[i]][depth + 1]
         ELSE LeafValid(c)
  BY <1>1, <1>2 DEF ValidStep
<1>4. GivenStep(c, validateConditionNodeFields)
  BY GivenRecursion DEF Accepted
<1>5. depth + 1 \in 1..(MaxDepth + 1)
  <2>1. depth <= MaxDepth
    BY <1>3
  <2> QED BY <2>1, ConditionAssumption
<1>6. CASE isGroup(c)
  BY <1>3, <1>4, <1>5, <1>6 DEF GivenStep, Accepted
<1>7. CASE ~isGroup(c)
  BY <1>3, <1>4, <1>7 DEF GivenStep
<1> QED BY <1>6, <1>7

LEMMA AcceptedRight ==
  ASSUME NEW e PROVE \A c \in Conditions : Accepted(c) => Right(c, e)
<1> DEFINE T == {c \in Conditions : Accepted(c) => Right(c, e)}
<1>1. ASSUME NEW c \in Conditions, \A d \in Conditions : Depth[d] < Depth[c] => d \in T,
             Accepted(c)
      PROVE  Right(c, e)
  <2>1. CASE isGroup(c)
    <3> DEFINE s == SubConditions(c)
    <3>1. s \in Seq(Conditions) /\ s # <<>> /\ Mode(c.match) \in {"all", "any"}
      BY <1>1, <2>1, AcceptedParts, ChildOf
    <3>2. \A i \in DOMAIN s : Right(s[i], e)
      BY <1>1, <2>1, AcceptedParts, ChildOf
    <3>3. Fits(evalSet(c.match, [i \in DOMAIN s |-> eval(e)[s[i]]]),
               [doubt \in BOOLEAN |-> SetSays(c.match, s, e, doubt)], e)
      <4> HIDE DEF s
      <4> QED BY <3>1, <3>2, GroupRight
    <3>4. eval(e)[c] = evalSet(c.match, [i \in DOMAIN s |-> eval(e)[s[i]]])
      BY <2>1, EvalRecursion DEF EvalStep
    <3>5. ASSUME NEW doubt \in BOOLEAN
          PROVE  Holds(e, doubt)[c] = SetSays(c.match, s, e, doubt)
      BY <2>1, HoldsRecursion DEF HoldsStep, SetSays
    <3>6. [doubt \in BOOLEAN |-> SetSays(c.match, s, e, doubt)]
            = [doubt \in BOOLEAN |-> Holds(e, doubt)[c]]
      <4> HIDE DEF s
      <4> QED BY <3>5
    <3> QED BY <3>3, <3>4, <3>6 DEF Right
  <2>2. CASE ~isGroup(c)
    BY <1>1, <2>2, AcceptedParts, LeafRight
  <2> QED BY <2>1, <2>2
<1>2. Inherited(T, Conditions, Depth)
  BY <1>1 DEF Inherited
<1>3. Depth \in [Conditions -> Nat]
  BY ConditionAssumption
<1>4. Conditions \subseteq T
  <2> HIDE DEF T
  <2> QED BY <1>2, <1>3, RankInduction
<1> QED BY <1>4

-----------------------------------------------------------------------------
(* Quiet hours.                                                                *)

LEMMA Division ==
  ASSUME NEW D \in Nat \ {0}, NEW a \in Int
  PROVE  a \div D \in Int /\ a % D \in 0..(D - 1) /\ a = D * (a \div D) + (a % D)
BY SMT

LEMMA Remainder ==
  ASSUME NEW D \in Nat \ {0}, NEW q \in Int, NEW r \in 0..(D - 1), NEW a \in Int,
         a = D * q + r
  PROVE  a % D = r
<1> DEFINE k == (a \div D) - q
<1>1. a \div D \in Int /\ a % D \in 0..(D - 1) /\ a = D * (a \div D) + (a % D)
  BY Division
<1>2. k \in Int /\ D * k = r - (a % D)
  BY <1>1
<1>3. D * k < D /\ D * k > -D
  BY <1>1, <1>2
<1>4. k = 0
  <2>1. ASSUME k >= 1 PROVE FALSE
    <3>1. D * k >= D * 1
      <4> HIDE DEF k
      <4> QED BY <1>2, <2>1
    <3> QED BY <1>2, <1>3, <3>1
  <2>2. ASSUME k <= -1 PROVE FALSE
    <3>1. D * k <= D * (-1)
      <4> HIDE DEF k
      <4> QED BY <1>2, <2>2
    <3> QED BY <1>2, <1>3, <3>1
  <2> HIDE DEF k
  <2> QED BY <1>2, <2>1, <2>2
<1> QED BY <1>1, <1>2, <1>4

\* The wall clock is within the window exactly when fewer minutes have passed
\* since its start than it is long, across midnight too.
LEMMA WindowLength ==
  ASSUME NEW D \in Nat \ {0}, NEW start \in 0..(D - 1), NEW end \in 0..(D - 1),
         start # end, NEW a \in Int
  PROVE  (a - start) % D < (end - start) % D
           <=> \/ start < end /\ a % D >= start /\ a % D < end
               \/ ~(start < end) /\ (a % D >= start \/ a % D < end)
<1> DEFINE l == a % D
           n == a \div D
           since == IF l >= start THEN l - start ELSE (l - start) + D
           long == IF end >= start THEN end - start ELSE (end - start) + D
<1>1. l \in 0..(D - 1) /\ n \in Int /\ a = D * n + l
  BY Division
<1> HIDE DEF l, n
<1>2. since \in 0..(D - 1) /\ long \in 0..(D - 1) /\ a - start \in Int /\ end - start \in Int
  BY <1>1
<1>3. (a - start) % D = since
  <2>1. CASE l >= start
    <3>1. a - start = D * n + since
      BY <1>1, <2>1
    <3> HIDE DEF since
    <3> QED BY <1>1, <1>2, <3>1, Remainder
  <2>2. CASE ~(l >= start)
    <3> DEFINE k == n - 1
    <3>1. D * k = D * n - D /\ k \in Int
      BY <1>1
    <3> HIDE DEF k
    <3>2. a - start = D * k + since
      BY <1>1, <2>2, <3>1
    <3> HIDE DEF since
    <3> QED BY <1>2, <3>1, <3>2, Remainder
  <2> QED BY <2>1, <2>2
<1>4. (end - start) % D = long
  <2>1. end - start = D * 0 + long \/ end - start = D * (-1) + long
    <3>1. D * 0 = 0 /\ D * (-1) = -D
      OBVIOUS
    <3> QED BY <3>1
  <2> HIDE DEF long
  <2>2. 0 \in Int /\ -1 \in Int
    OBVIOUS
  <2> QED BY <1>2, <2>1, <2>2, Remainder
<1>5. since < long <=> \/ start < end /\ l >= start /\ l < end
                       \/ ~(start < end) /\ (l >= start \/ l < end)
  BY <1>1
<1> QED BY <1>3, <1>4, <1>5 DEF l

QuietWindow(q, m) ==
  (m + q.zone - q.start) % DayLength < (q.end - q.start) % DayLength

LEMMA WindowRight ==
  ASSUME NEW q, NEW m \in Int, ValidateQuietHours(q), q.enabled
  PROVE  QuietHoursActiveAt(q, m) <=> QuietWindow(q, m)
<1> DEFINE a == m + q.zone
<1>1. /\ DayLength \in Nat \ {0}
      /\ q.start \in 0..(DayLength - 1) /\ q.end \in 0..(DayLength - 1)
      /\ q.start # q.end /\ q.zone \in Int /\ a \in Int
  BY ConditionAssumption DEF ValidateQuietHours
<1>2. (a - q.start) % DayLength < (q.end - q.start) % DayLength
        <=> \/ q.start < q.end /\ a % DayLength >= q.start /\ a % DayLength < q.end
            \/ ~(q.start < q.end) /\ (a % DayLength >= q.start \/ a % DayLength < q.end)
  <2> HIDE DEF a
  <2> QED BY <1>1, WindowLength
<1> HIDE DEF a
<1>3. QuietHoursActiveAt(q, m)
        <=> \/ q.start < q.end /\ a % DayLength >= q.start /\ a % DayLength < q.end
            \/ ~(q.start < q.end) /\ (a % DayLength >= q.start \/ a % DayLength < q.end)
  BY DEF QuietHoursActiveAt, a
<1>4. QuietWindow(q, m) <=> (a - q.start) % DayLength < (q.end - q.start) % DayLength
  <2>1. m + q.zone - q.start = a - q.start
    BY <1>1 DEF a
  <2> QED BY <2>1 DEF QuietWindow
<1> QED BY <1>2, <1>3, <1>4

-----------------------------------------------------------------------------
(* What is saved, and what it decides.                                         *)

ConditionInv ==
  /\ rule \in RuleForms
  /\ stage \in {"saved", "decided"} =>
       Validate(rule.condition) /\ ValidateQuietHours(rule.quiet)
  /\ stage = "decided" => minute \in Int /\ decision = Decide(rule, event, minute)

LEMMA ConditionInvHolds == ConditionSpec => []ConditionInv
<1>1. ConditionInit => ConditionInv
  BY DEF ConditionInit, ConditionInv
<1>2. ConditionInv /\ [ConditionNext]_conditionVars => ConditionInv'
  <2> SUFFICES ASSUME ConditionInv, [ConditionNext]_conditionVars PROVE ConditionInv'
    OBVIOUS
  <2>1. CASE SaveRule
    BY <2>1 DEF SaveRule, ConditionInv
  <2>2. ASSUME NEW e, NEW m \in 0..(DayLength - 1), DispatchRule(e, m) PROVE ConditionInv'
    <3>1. m \in Int
      BY ConditionAssumption
    <3> QED BY <2>2, <3>1 DEF DispatchRule, ConditionInv
  <2>3. CASE UNCHANGED conditionVars
    BY <2>3 DEF ConditionInv, conditionVars
  <2> QED BY <2>1, <2>2, <2>3 DEF ConditionNext
<1> QED BY <1>1, <1>2, PTL DEF ConditionSpec

\* A set of conditions that was accepted is judged as it reads.
LEMMA SetRight ==
  ASSUME NEW form \in RuleForms, Validate(form.condition), NEW e
  PROVE  LET v == EvaluateAt(form.condition, e) IN
         /\ v \in Outcomes
         /\ v = "yes" => {HoldsSet(form.condition, e, doubt) : doubt \in BOOLEAN} = {TRUE}
         /\ v = "no" => {HoldsSet(form.condition, e, doubt) : doubt \in BOOLEAN} = {FALSE}
         /\ v = "error" => Garbled(e)
<1> DEFINE set == form.condition
           s == set.conditions
           v == EvaluateAt(set, e)
           child == {s[i] : i \in DOMAIN s}
<1>1. s \in Seq(Conditions)
  BY ConditionAssumption
<1>2. CASE s = <<>>
  <2>1. v = "yes" /\ child = {}
    BY <1>2 DEF EvaluateAt
  <2>2. \A doubt \in BOOLEAN : HoldsSet(set, e, doubt) = TRUE
    BY <2>1 DEF HoldsSet
  <2>3. {HoldsSet(set, e, doubt) : doubt \in BOOLEAN} = {TRUE}
    BY <2>2
  <2> QED BY <2>1, <2>3 DEF Outcomes
<1>3. CASE s # <<>>
  <2>1. /\ Mode(set.match) \in {"all", "any"}
        /\ \A i \in DOMAIN s : validateCondition[s[i]][1] /\ validateConditionNodeFields[s[i]]
    BY DEF Validate
  <2>2. \A i \in DOMAIN s : Right(s[i], e)
    <3>1. 1 \in 1..(MaxDepth + 1)
      BY ConditionAssumption
    <3>2. \A i \in DOMAIN s : s[i] \in Conditions
      <4> HIDE DEF s
      <4> QED BY <1>1
    <3>3. \A i \in DOMAIN s : Accepted(s[i])
      BY <2>1, <3>1 DEF Accepted
    <3> QED BY <3>2, <3>3, AcceptedRight
  <2>3. Fits(evalSet(set.match, [i \in DOMAIN s |-> eval(e)[s[i]]]),
             [doubt \in BOOLEAN |-> SetSays(set.match, s, e, doubt)], e)
    <3> HIDE DEF s, set
    <3> QED BY <1>1, <1>3, <2>1, <2>2, GroupRight
  <2>4. v = evalSet(set.match, [i \in DOMAIN s |-> eval(e)[s[i]]])
    BY <1>3 DEF EvaluateAt
  <2>5. v \in Outcomes
    <3>1. PICK g \in [Conditions -> Outcomes] : g = eval(e)
      BY EvalRecursion
    <3>2. evalSet(set.match, [i \in DOMAIN s |-> g[s[i]]]) \in Outcomes
      <4> HIDE DEF s, set
      <4> QED BY <1>1, SetOutcomeTyped
    <3> QED BY <2>4, <3>1, <3>2
  <2>6. child # {}
    <3>1. 1 \in DOMAIN s
      <4> HIDE DEF s
      <4> QED BY <1>1, <1>3
    <3> QED BY <3>1
  <2>7. \A doubt \in BOOLEAN : HoldsSet(set, e, doubt) <=> SetSays(set.match, s, e, doubt)
    BY <2>6 DEF HoldsSet, SetSays
  <2>8. \A doubt \in BOOLEAN : HoldsSet(set, e, doubt) \in BOOLEAN
    BY DEF HoldsSet
  <2>9. /\ v = "yes" => \A doubt \in BOOLEAN : HoldsSet(set, e, doubt)
        /\ v = "no" => \A doubt \in BOOLEAN : ~HoldsSet(set, e, doubt)
        /\ v = "error" => Garbled(e)
    <3> HIDE DEF set, v, s
    <3> QED BY <2>3, <2>4, <2>7 DEF Fits
  <2>10. v = "yes" => {HoldsSet(set, e, doubt) : doubt \in BOOLEAN} = {TRUE}
    <3> HIDE DEF v, set
    <3> QED BY <2>8, <2>9
  <2>11. v = "no" => {HoldsSet(set, e, doubt) : doubt \in BOOLEAN} = {FALSE}
    <3> HIDE DEF v, set
    <3> QED BY <2>8, <2>9
  <2> HIDE DEF v
  <2> QED BY <2>5, <2>9, <2>10, <2>11 DEF v
<1> QED BY <1>2, <1>3

\* Whatever its tree of conditions, its quiet hours and the events are, a rule that
\* the form accepted decides what the tree says, and errs only over a time field
\* that holds no time (Validate, EvaluateAt, QuietHoursActiveAt, dispatchEvent).
THEOREM ConditionsDecide == ConditionSpec => []DecidesRight
<1>1. ConditionInv => DecidesRight
  <2> SUFFICES ASSUME ConditionInv, stage = "decided" PROVE DecidesRight
    BY DEF DecidesRight
  <2> DEFINE v == EvaluateAt(rule.condition, event)
             both == {HoldsSet(rule.condition, event, doubt) : doubt \in BOOLEAN}
             quiet == rule.quiet.enabled /\ QuietWindow(rule.quiet, minute)
  <2>1. /\ rule \in RuleForms /\ Validate(rule.condition)
        /\ ValidateQuietHours(rule.quiet) /\ minute \in Int
        /\ decision = Decide(rule, event, minute)
    BY DEF ConditionInv
  <2>2. /\ v \in Outcomes
        /\ v = "yes" => both = {TRUE}
        /\ v = "no" => both = {FALSE}
        /\ v = "error" => Garbled(event)
    BY <2>1, SetRight
  <2>3. QuietHoursActiveAt(rule.quiet, minute) <=> quiet
    BY <2>1, WindowRight DEF QuietHoursActiveAt
  <2>4. \/ v = "error" /\ decision = "error"
        \/ v = "no" /\ decision = "not_matched"
        \/ v = "yes" /\ quiet /\ decision = "skipped"
        \/ v = "yes" /\ ~quiet /\ decision = "matched"
    <3> HIDE DEF v, quiet
    <3> QED BY <2>1, <2>2, <2>3 DEF Decide, v, Outcomes
  <2>5. DecidesRight <=> CASE decision = "error" -> Garbled(event)
                           [] decision = "not_matched" -> both = {FALSE}
                           [] decision = "skipped" -> both = {TRUE} /\ quiet
                           [] decision = "matched" -> both = {TRUE} /\ ~quiet
    BY Zenon DEF DecidesRight, Garbled, QuietWindow
  <2> HIDE DEF v, both, quiet
  <2> QED BY <2>2, <2>4, <2>5
<1> QED BY <1>1, ConditionInvHolds, PTL
=============================================================================
