----------------------------- MODULE RuleConditions -----------------------------
(* A rule's condition and its quiet hours: what the form accepts, and what an    *)
(* event decides.  A condition is a tree; its groups stop at the first child     *)
(* that settles them, and a leaf that cannot be judged ends the evaluation.      *)
EXTENDS Integers, Sequences

CONSTANTS Fields,          \* fields of an event
          TimeFields,      \* those that eventvars defines as datetime
          Words,           \* what texts are made of
          Blank,           \* no condition value
          Absent,          \* the event lacks the field
          NoTime,          \* a text that is no time, no duration or no zone
          Nil,             \* no sub-conditions
          Ages,            \* how long ago a time is
          Conditions,      \* the conditions of those rules and all that is in them
          Depth,           \* levels of each: a condition is a finite tree
          RuleForms,       \* rules that are submitted: [condition, quiet]
          DayLength,             \* minutes of a day
          MaxDepth, MaxNodes,
          MaxSpan          \* bounds

VARIABLES rule,            \* the rule's row, or the form that is to be saved
          stage,
          event,           \* the fields of the event's payload
          minute,           \* minute of the day at which it is dispatched, in UTC
          decision

conditionVars == <<rule, stage, event, minute, decision>>

\* A text has words; the empty one has none.  Only some texts are times.
Texts == {t \in [words: SUBSET Words, age: Ages \cup {NoTime}] :
            t.words = {} => t.age = NoTime}
Payloads == [Fields -> Texts \cup {Absent}]

isGroup(c) == c.conditions # Nil \/ c.match # ""
Mode(match) == IF match = "" THEN "all" ELSE match
Operator(c) == IF c.operator = "" THEN "contains" ELSE c.operator
SubConditions(c) == IF c.conditions = Nil THEN <<>> ELSE c.conditions

ASSUME ConditionAssumption ==
  /\ TimeFields \subseteq Fields /\ Blank \notin Words
  /\ Absent \notin [words: SUBSET Words, age: Ages \cup {NoTime}]
  /\ Ages \subseteq Int /\ NoTime \notin Int
  /\ DayLength \in Nat \ {0} /\ MaxDepth \in Nat /\ MaxNodes \in Nat /\ MaxSpan \in Nat
  /\ Depth \in [Conditions -> Nat]
  /\ \A c \in Conditions :
       /\ SubConditions(c) \in Seq(Conditions)
       /\ \A i \in DOMAIN SubConditions(c) : Depth[SubConditions(c)[i]] < Depth[c]
  /\ \A form \in RuleForms :
       form.condition.conditions \in Seq(Conditions) /\ form.quiet.enabled \in BOOLEAN

-----------------------------------------------------------------------------
(* Saving: rule.Validate, ValidateQuietHours and the fields of the monitors.   *)

Nodes(c) ==
  LET count[x \in Conditions] ==
        LET cs == SubConditions(x)
            total[i \in 0..Len(cs)] ==
              IF i = 0 THEN 1 ELSE total[i - 1] + count[cs[i]]
        IN total[Len(cs)]
  IN count[c]

LeafValidAnySpan(c) ==           \* mutant: a window of no length is accepted
  /\ c.field # Blank
  /\ CASE Operator(c) \in {"contains", "not_contains", "equals"} -> c.value # Blank
       [] Operator(c) = "regex" -> c.pattern
       [] Operator(c) = "within_last" -> c.span # NoTime
       [] Operator(c) = "exists" -> TRUE
       [] OTHER -> FALSE

LeafValid(c) ==
  /\ c.field # Blank
  /\ CASE Operator(c) \in {"contains", "not_contains", "equals"} -> c.value # Blank
       [] Operator(c) = "regex" -> c.pattern
       [] Operator(c) = "within_last" -> c.span \in 1..MaxSpan
       [] Operator(c) = "exists" -> TRUE
       [] OTHER -> FALSE

validateCondition ==
  LET valid[c \in Conditions] == [depth \in 1..(MaxDepth + 1) |->
        /\ depth <= MaxDepth
        /\ IF isGroup(c)
           THEN /\ c.field = Blank /\ c.operator = "" /\ c.value = Blank
                /\ Mode(c.match) \in {"all", "any"}
                /\ SubConditions(c) # <<>>
                /\ \A i \in DOMAIN SubConditions(c) : valid[SubConditions(c)[i]][depth + 1]
           ELSE LeafValid(c)]
  IN valid

\* within_last only for datetime fields, and no field the monitors never give.
validateConditionNodeFields ==
  LET given[c \in Conditions] ==
        IF isGroup(c) THEN \A i \in DOMAIN SubConditions(c) : given[SubConditions(c)[i]]
        ELSE /\ c.field \in Fields
             /\ c.operator = "within_last" => c.field \in TimeFields
  IN given

Validate(set) ==
  /\ Mode(set.match) \in {"all", "any"}
  /\ \A i \in DOMAIN set.conditions :
       /\ validateCondition[set.conditions[i]][1]
       /\ validateConditionNodeFields[set.conditions[i]]
  /\ LET total[i \in 0..Len(set.conditions)] ==
           IF i = 0 THEN 0 ELSE total[i - 1] + Nodes(set.conditions[i])
     IN total[Len(set.conditions)] <= MaxNodes

ValidateQuietHours(q) ==
  q.enabled => /\ q.start \in 0..(DayLength - 1) /\ q.end \in 0..(DayLength - 1)
               /\ q.start # q.end /\ q.zone \in Int

-----------------------------------------------------------------------------
(* Judging an event: "yes", "no" or "error".                                   *)

YesNo(b) == IF b THEN "yes" ELSE "no"

Leaf(c, e) ==
  LET there == c.field \in Fields /\ e[c.field] # Absent
      actual == e[c.field]
      contained == c.value = Blank \/ c.value \in actual.words
  IN IF Operator(c) = "exists" THEN YesNo(there)
     ELSE IF ~there THEN "no"
     ELSE CASE Operator(c) = "contains" -> YesNo(contained)
            [] Operator(c) = "not_contains" -> YesNo(~contained)
            [] Operator(c) = "equals" -> YesNo(actual.words = {c.value} \ {Blank})
            [] Operator(c) = "regex" -> IF c.pattern THEN YesNo(contained) ELSE "error"
            [] Operator(c) = "within_last" ->
                 IF actual.words = {} THEN "no"
                 ELSE IF c.span \notin 1..MaxSpan \/ actual.age = NoTime THEN "error"
                 ELSE YesNo(actual.age \in 0..c.span)
            [] OTHER -> "error"

\* The first child that errs or settles the outcome ends the evaluation.
evalSet(match, results) ==
  LET settled == IF Mode(match) = "any" THEN "yes" ELSE "no"
      stops == {i \in DOMAIN results : results[i] \in {"error", settled}}
      first == CHOOSE i \in stops : \A j \in stops : i <= j
  IN IF Mode(match) \notin {"all", "any"} THEN "error"
     ELSE IF results = <<>> THEN "yes"
     ELSE IF stops = {} THEN YesNo(settled = "no")
     ELSE results[first]

eval(e) ==
  LET outcome[c \in Conditions] ==
        IF isGroup(c)
        THEN evalSet(c.match, [i \in DOMAIN SubConditions(c) |-> outcome[SubConditions(c)[i]]])
        ELSE Leaf(c, e)
  IN outcome

EvaluateAt(set, e) ==
  IF set.conditions = <<>> THEN "yes"
  ELSE evalSet(set.match, [i \in DOMAIN set.conditions |-> eval(e)[set.conditions[i]]])

\* Wall-clock minutes in the rule's zone; a window may pass midnight.
QuietHoursActiveAt(q, m) ==
  LET local == (m + q.zone) % DayLength IN
  q.enabled /\ IF q.start < q.end THEN local >= q.start /\ local < q.end
               ELSE local >= q.start \/ local < q.end

\* dispatchEvent, between the cooldown and the channels.
Decide(r, e, m) ==
  LET matched == EvaluateAt(r.condition, e) IN
  CASE matched = "error" -> "error"
    [] matched = "no" -> "not_matched"
    [] matched = "yes" /\ ~ValidateQuietHours(r.quiet) -> "error"
    [] matched = "yes" /\ ValidateQuietHours(r.quiet) ->
         IF QuietHoursActiveAt(r.quiet, m) THEN "skipped" ELSE "matched"

-----------------------------------------------------------------------------
EmptyEvent == [f \in Fields |-> Absent]

ConditionInit ==
  /\ rule \in RuleForms
  /\ stage = "form" /\ event = EmptyEvent /\ minute = 0 /\ decision = "none"

\* createRule and updateRule: the answer is 422 when the form is refused.
SaveRule ==
  /\ stage = "form"
  /\ stage' = IF Validate(rule.condition) /\ ValidateQuietHours(rule.quiet)
              THEN "saved" ELSE "refused"
  /\ UNCHANGED <<rule, event, minute, decision>>

DispatchRule(e, m) ==
  /\ stage = "saved"
  /\ stage' = "decided"
  /\ event' = e /\ minute' = m
  /\ decision' = Decide(rule, e, m)
  /\ UNCHANGED rule

ConditionNext ==
  \/ SaveRule
  \/ \E e \in Payloads, m \in 0..(DayLength - 1) :
       /\ ~rule.quiet.enabled => m = 0
       /\ DispatchRule(e, m)

ConditionSpec == ConditionInit /\ [][ConditionNext]_conditionVars

-----------------------------------------------------------------------------
(* Reference: a condition without order, errors or early exits.                *)

\* The leaves no saved rule can judge: a time field that holds some other text.
Unreadable(c, e) ==
  /\ Operator(c) = "within_last" /\ e[c.field] # Absent
  /\ e[c.field].words # {} /\ e[c.field].age = NoTime

Holds(e, doubt) ==
  LET holds[c \in Conditions] ==
        IF isGroup(c)
        THEN LET child == {SubConditions(c)[i] : i \in DOMAIN SubConditions(c)} IN
             IF c.match = "any" THEN \E x \in child : holds[x] ELSE \A x \in child : holds[x]
        ELSE IF Unreadable(c, e) THEN doubt ELSE Leaf(c, e) = "yes"
  IN holds

HoldsSet(set, e, doubt) ==
  LET child == {set.conditions[i] : i \in DOMAIN set.conditions} IN
  \/ child = {}
  \/ IF set.match = "any" THEN \E x \in child : Holds(e, doubt)[x]
     ELSE \A x \in child : Holds(e, doubt)[x]

\* A rule that was saved errs only over a time field that holds no time, and
\* whatever stops its evaluation early, the outcome is that of the whole tree
\* in any order, whichever way the unreadable leaves would have gone.  Matched
\* rules are silent for the (end - start) minutes from start, across midnight too.
DecidesRight ==
  stage = "decided" =>
    LET set == rule.condition
        quiet == rule.quiet.enabled /\
                 (minute + rule.quiet.zone - rule.quiet.start) % DayLength
                   < (rule.quiet.end - rule.quiet.start) % DayLength
        both == {HoldsSet(set, event, doubt) : doubt \in BOOLEAN}
    IN CASE decision = "error" ->
              \E f \in TimeFields : event[f] # Absent /\ event[f].age = NoTime
                                    /\ event[f].words # {}
         [] decision = "not_matched" -> both = {FALSE}
         [] decision = "skipped" -> both = {TRUE} /\ quiet
         [] decision = "matched" -> both = {TRUE} /\ ~quiet
=============================================================================
