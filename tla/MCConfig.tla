------------------------------ MODULE MCConfig ------------------------------
(* The configuration on a small instance and, in other behaviours, what is   *)
(* kept in the history, what rules decide and when checks are due: a         *)
(* behaviour is about its subject and leaves the rest in its initial state.  *)
EXTENDS ConfigBackup, HistoryRetention, RuleConditions, CheckSchedule, TLC

CONSTANTS p, c1, c2, d, t, m1, m2, n1, n2, s1, s2, k1, k2,
          word, when, title              \* a word, a time field and a text field

VARIABLE subject

Keyed(status, name, secret) ==
  [status |-> status, name |-> name, secret |-> secret]

Unborn == Keyed("unused", None, None)

MonitorRow(status, name, enabled, proxy, cs) ==
  [status |-> status, name |-> name, secret |-> None, enabled |-> enabled,
   proxy |-> proxy, channels |-> cs, alert |-> cs # {}]

RuleRow(status, name, ms, cs, template) ==
  [status |-> status, name |-> name, monitors |-> ms, channels |-> cs,
   template |-> template]

NoRule == RuleRow("unused", None, {}, {}, None)

\* Both monitors in use, one rule for both, room for another rule.
InUse ==
  [proxies |-> p :> Keyed("active", n1, None),
   channels |-> c1 :> Keyed("active", n1, s1) @@ c2 :> Keyed("active", n2, None),
   templates |-> d :> Keyed("active", n1, None) @@ t :> Keyed("active", n2, None),
   monitors |-> m1 :> MonitorRow("active", n1, TRUE, p, {c1})
             @@ m2 :> MonitorRow("active", n2, TRUE, None, {}),
   rules |-> 1 :> RuleRow("active", n1, {m1, m2}, {c1, c2}, t) @@ 2 :> NoRule]

\* What an older release left: references to archived rows of every kind.
Dangling ==
  [proxies |-> p :> Keyed("archived", n1, None),
   channels |-> c1 :> Keyed("active", n1, s1) @@ c2 :> Keyed("archived", n1, None),
   templates |-> d :> Keyed("active", n1, None) @@ t :> Keyed("archived", n1, None),
   monitors |-> m1 :> MonitorRow("active", n1, TRUE, p, {c2})
             @@ m2 :> MonitorRow("archived", n1, FALSE, None, {}),
   rules |-> 1 :> RuleRow("active", n1, {m1, m2}, {c1, c2}, t)
          @@ 2 :> RuleRow("active", n2, {m1}, {c2}, None)]

\* A new installation but for one monitor and channel.
Sparse ==
  [proxies |-> p :> Unborn,
   channels |-> c1 :> Keyed("active", n1, s1) @@ c2 :> Unborn,
   templates |-> d :> Keyed("active", n1, None) @@ t :> Unborn,
   monitors |-> m1 :> MonitorRow("active", n1, TRUE, None, {})
             @@ m2 :> MonitorRow("unused", None, FALSE, None, {}),
   rules |-> 1 :> NoRule @@ 2 :> NoRule]

MCLegacy == {InUse, Dangling, Sparse}

\* Another instance with a rule of the same name for each monitor.
MCForeign ==
  {[full |-> TRUE,
    proxies |-> p :> Keyed("active", n2, None),
    channels |-> c2 :> Keyed("active", n1, s2),
    templates |-> d :> Keyed("active", n2, None),
    monitors |-> m1 :> MonitorRow("active", n2, TRUE, p, {})
              @@ m2 :> MonitorRow("active", n1, TRUE, None, {c2}),
    rules |-> 1 :> RuleRow("active", n1, {m1}, {c2}, d)
           @@ 2 :> RuleRow("active", n1, {m2}, {c2}, None)]}

MCProxyInputs == {Keyed("active", n2, None)}
MCChannelInputs == {Keyed("active", n2, s2)}
MCTemplateInputs == {Keyed("active", n2, None)}
MCMonitorInputs ==
  {MonitorRow("active", n2, TRUE, p, {c2}), MonitorRow("active", n1, TRUE, None, {})}
MCRuleInputs ==
  {RuleRow("active", n1, {m2}, {c2}, None), RuleRow("active", n1, {m1, m2}, {c1}, t)}

-----------------------------------------------------------------------------
(* Rules to save: trees of up to two levels and two children, valid and not,   *)
(* and quiet hours around a day of four minutes.                               *)

MCLeaf(field, op, v, span) ==
  [field |-> field, operator |-> op, value |-> v, pattern |-> TRUE, span |-> span,
   match |-> "", conditions |-> Nil]
MCGroup(m, cs) ==
  [field |-> Blank, operator |-> "", value |-> Blank, pattern |-> FALSE,
   span |-> NoTime, match |-> m, conditions |-> cs]

MCLeaves ==
  {MCLeaf(title, "", word, NoTime), MCLeaf(title, "not_contains", word, NoTime),
   MCLeaf(when, "within_last", Blank, 1)}
MCOthers ==
  {MCLeaf(when, "exists", Blank, NoTime), MCLeaf(title, "regex", word, NoTime),
   MCLeaf(title, "equals", word, NoTime)}
MCRefused ==
  {MCLeaf(title, "equals", Blank, NoTime), MCLeaf(title, "within_last", Blank, 1),
   MCLeaf(when, "within_last", Blank, 0), MCLeaf(title, "like", word, NoTime),
   [MCLeaf(title, "regex", word, NoTime) EXCEPT !.pattern = FALSE],
   MCGroup("none", <<>>), MCGroup("any", <<>>),
   [MCGroup("all", <<MCLeaf(title, "exists", Blank, NoTime)>>) EXCEPT !.field = title]}
MCTrees ==
  MCLeaves \cup MCOthers \cup MCRefused
  \cup {MCGroup(m, <<f, g>>) : m \in {"", "any"}, f \in MCLeaves, g \in MCLeaves}
  \cup {MCGroup("all", <<MCGroup("", <<f>>)>>) : f \in MCLeaves}
MCConditions ==
  {[match |-> m, conditions |-> cs] : m \in {"", "any"},
     cs \in {<<>>} \cup {<<f>> : f \in MCTrees} \cup {<<f, g>> : f, g \in MCTrees}}
  \cup {[match |-> "none", conditions |-> <<>>]}
Sets == INSTANCE FiniteSetsExt
RECURSIVE MCLevels(_)            \* levels of a condition
MCLevels(c) ==
  IF c.conditions = Nil \/ c.conditions = <<>> THEN 1
  ELSE 1 + Sets!Max({MCLevels(c.conditions[i]) : i \in DOMAIN c.conditions})
MCAllConditions ==
  MCTrees \cup {MCGroup("", <<f>>) : f \in MCLeaves}
  \cup {MCLeaf(title, "exists", Blank, NoTime)}
MCDepth == [c \in MCAllConditions |-> MCLevels(c)]
MCQuiet ==
  [enabled: {TRUE}, start: 0..3, end: 0..3, zone: {0, 1, -1, NoTime}]
  \cup [enabled: {TRUE}, start: {1, NoTime}, end: {2, NoTime}, zone: {0}]
MCRuleForms ==
  [condition: MCConditions, quiet: {[enabled |-> FALSE, start |-> 0, end |-> 0, zone |-> 0]}]
  \cup [condition: {[match |-> "all", conditions |-> <<f>>] : f \in MCOthers}, quiet: MCQuiet]

-----------------------------------------------------------------------------
MCInit ==
  /\ subject \in {"configuration", "history", "conditions", "schedule"}
  /\ BackupInit
  /\ subject # "configuration" => proxies = Sparse.proxies /\ backup = NoBackup
  /\ HistoryInit
  /\ ConditionInit
  /\ subject # "conditions" =>
       rule.quiet.enabled = FALSE /\ rule.condition = [match |-> "", conditions |-> <<>>]
  /\ ScheduleInit
  /\ subject # "schedule" => monitorId = 1 /\ interval = 300 /\ switchedOn

MCNext ==
  /\ UNCHANGED subject
  /\ \/ /\ subject = "configuration" /\ BackupNext
        /\ UNCHANGED <<historyVars, conditionVars, scheduleVars>>
     \/ /\ subject = "history" /\ HistoryNext
        /\ UNCHANGED <<backupVars, conditionVars, scheduleVars>>
     \/ /\ subject = "conditions" /\ ConditionNext
        /\ UNCHANGED <<backupVars, historyVars, scheduleVars>>
     \/ /\ subject = "schedule" /\ ScheduleNext
        /\ UNCHANGED <<backupVars, historyVars, conditionVars>>

MCSpec == MCInit /\ [][MCNext]_<<backupVars, historyVars, conditionVars, scheduleVars, subject>>

Twins == Permutations(Clients)
=============================================================================
