------------------------- MODULE ConfigBackupProofs -------------------------
(* What ConfigReferences and ConfigBackup promise, for every number of rows,  *)
(* clients and requests, every set of inputs and every valid backup: names    *)
(* stay apart, rules stay runnable, nothing refers to what is archived, and   *)
(* an import reproduces the backup.                                           *)
EXTENDS ConfigBackup, WellFoundedInduction, TLAPS

\* The databases the program is started on have no two active rows of one natural
\* key.  The statements that write check it, but no index enforces it and no start
\* repairs it: the theorem on names needs it, and only that one.
LegacyNamesDiffer ==
  \A d \in Legacy :
    NamesDiffer(d.proxies, d.channels, d.templates, d.monitors, d.rules)

-----------------------------------------------------------------------------
(* The inductive invariant.                                                  *)

TablesTyped ==
  /\ proxies \in [Proxies -> KeyedRows] /\ channels \in [Channels -> KeyedRows]
  /\ templates \in [Templates -> KeyedRows]
  /\ monitors \in [Monitors -> MonitorRows] /\ rules \in [Rules -> RuleRows]

\* A form holds a row that may become active.
FormSound(f) ==
  /\ f.table \in {"proxies", "channels", "templates"} =>
       f.row \in KeyedRows /\ f.row.status = "active"
  /\ f.table = "monitors" => f.row \in MonitorRows /\ f.row.status = "active"
  /\ f.table = "rules" =>
       /\ f.row \in RuleRows /\ f.row.status = "active"
       /\ f.row.monitors # {} /\ f.row.channels # {}

FormsSound == DOMAIN forms = Clients /\ \A c \in Clients : FormSound(forms[c])

NamesInv == LegacyNamesDiffer => NamesApart

RulesNotify == \A r \in Live(rules) : rules[r].channels # {}

TablesInv ==
  /\ TablesTyped
  /\ NamesInv
  /\ RulesNotify
  /\ DefaultTemplate \in Live(templates)

ConfInv == TablesInv /\ FormsSound /\ RunnableRules

BackupInv == backup = NoBackup \/ Valid(backup)

-----------------------------------------------------------------------------
(* Tables and natural keys.                                                   *)

\* Writing one row whose key is not taken keeps the keys apart.
LEMMA KeyWritten ==
  ASSUME NEW t, NEW i \in DOMAIN t, NEW row,
         KeysDiffer(t), ~Taken(t, row.name, i)
  PROVE  KeysDiffer([t EXCEPT ![i] = row])
BY DEF KeysDiffer, Taken, Live

\* So does a change that keeps the keys of the rows that stay active.
LEMMA KeysFewer ==
  ASSUME NEW t, NEW u, KeysDiffer(t), Live(u) \subseteq Live(t),
         \A i \in Live(u) : u[i].name = t[i].name
  PROVE  KeysDiffer(u)
BY DEF KeysDiffer, Taken

LEMMA RuleWritten ==
  ASSUME NEW t, NEW i \in DOMAIN t, NEW row,
         RuleNamesDiffer(t), ~Overlaps(t, row.name, row.monitors, i)
  PROVE  RuleNamesDiffer([t EXCEPT ![i] = row])
<1> DEFINE u == [t EXCEPT ![i] = row]
<1>1. /\ DOMAIN u = DOMAIN t /\ u[i] = row
      /\ \A j \in DOMAIN t : j # i => u[j] = t[j]
  OBVIOUS
<1>2. Live(u) \subseteq Live(t) \cup {i}
  BY <1>1 DEF Live
<1> HIDE DEF u
<1>3. SUFFICES ASSUME NEW r \in Live(u), NEW s \in Live(u) \ {r},
                      u[s].name = u[r].name, u[s].monitors \cap u[r].monitors # {}
               PROVE FALSE
  BY DEF RuleNamesDiffer, Overlaps, u
<1>4. CASE r # i /\ s # i
  BY <1>1, <1>2, <1>3, <1>4 DEF RuleNamesDiffer, Overlaps, Live
<1>5. CASE r = i
  BY <1>1, <1>2, <1>3, <1>5 DEF Overlaps, Live
<1>6. CASE s = i
  <2>1. r \in Live(t) \ {i} /\ t[r] = u[r]
    BY <1>1, <1>2, <1>3, <1>6 DEF Live
  <2> QED BY <2>1, <1>1, <1>3, <1>6 DEF Overlaps
<1> QED BY <1>4, <1>5, <1>6

LEMMA RulesFewer ==
  ASSUME NEW t, NEW u, RuleNamesDiffer(t), Live(u) \subseteq Live(t),
         \A r \in Live(u) : /\ u[r].name = t[r].name
                            /\ u[r].monitors \subseteq t[r].monitors
  PROVE  RuleNamesDiffer(u)
BY DEF RuleNamesDiffer, Overlaps

\* A rule that only loses monitors is not renamed while names are apart.
LEMMA NameKept ==
  ASSUME RuleNamesDiffer(rules), NEW r \in Live(rules),
         NEW ms, ms \subseteq rules[r].monitors
  PROVE  availableRuleName(r, ms) = rules[r].name
BY DEF RuleNamesDiffer, Overlaps, availableRuleName

\* There is always a name for it.
LEMMA NameFound ==
  ASSUME TablesTyped, NEW r \in Rules, NEW ms
  PROVE  availableRuleName(r, ms) \in Names \cup {None}
<1> DEFINE f == [j \in Rules |-> rules[j].name]
<1>1. f \in [Rules -> Names \cup {None}] /\ DOMAIN rules = Rules
  BY DEF TablesTyped, RuleRows
<1> HIDE DEF f
<1>2. PICK n \in Names : \A j \in Rules \ {r} : f[j] # n
  BY <1>1, NamesAssumption
<1>3. ~Overlaps(rules, n, ms, r)
  BY <1>1, <1>2 DEF Overlaps, Live, f
<1>4. rules[r].name \in Names \cup {None}
  BY DEF TablesTyped, RuleRows
<1> QED BY <1>3, <1>4 DEF availableRuleName

\* Rule r with fewer monitors.
LEMMA FewerMonitors ==
  ASSUME TablesTyped, NEW r \in Live(rules), NEW ms, ms \subseteq rules[r].monitors
  PROVE  /\ WithMonitors(r, ms) \in RuleRows
         /\ WithMonitors(r, ms).status = (IF ms = {} THEN "archived" ELSE "active")
         /\ RuleNamesDiffer(rules) => WithMonitors(r, ms).name = rules[r].name
         /\ WithMonitors(r, ms).monitors = ms
         /\ WithMonitors(r, ms).channels = rules[r].channels
         /\ WithMonitors(r, ms).template = rules[r].template
<1>1. r \in Rules /\ rules[r] \in RuleRows /\ rules[r].status = "active"
  BY DEF TablesTyped, Live
<1>2. /\ availableRuleName(r, ms) \in Names \cup {None}
      /\ RuleNamesDiffer(rules) => availableRuleName(r, ms) = rules[r].name
  BY <1>1, NameFound, NameKept
<1> QED BY <1>1, <1>2 DEF WithMonitors, RuleRows, Statuses

LEMMA FewerChannels ==
  ASSUME NEW row \in RuleRows, row.channels # {},
         NEW cs, cs \subseteq row.channels
  PROVE  /\ WithChannels(row, cs) \in RuleRows
         /\ WithChannels(row, cs).status = (IF cs = {} THEN "archived" ELSE row.status)
         /\ WithChannels(row, cs).name = row.name
         /\ WithChannels(row, cs).monitors = row.monitors
         /\ WithChannels(row, cs).channels = cs
         /\ WithChannels(row, cs).template = row.template
BY DEF WithChannels, RuleRows, Statuses

LEMMA FewerAlerts ==
  ASSUME NEW row \in MonitorRows, NEW cs, cs \subseteq row.channels
  PROVE  /\ WithAlerts(row, cs) \in MonitorRows
         /\ WithAlerts(row, cs).status = row.status
         /\ WithAlerts(row, cs).name = row.name
         /\ WithAlerts(row, cs).enabled = row.enabled
         /\ WithAlerts(row, cs).proxy = row.proxy
         /\ WithAlerts(row, cs).channels = cs
BY DEF WithAlerts, MonitorRows

-----------------------------------------------------------------------------
(* What a step changes beside the invariant: the action properties.           *)

ProxyKept ==
  \A m \in Live(monitors)' :
    monitors'[m].proxy \notin Live(proxies)' \cup {None}
      => m \in Live(monitors) /\ monitors'[m].proxy = monitors[m].proxy
         /\ monitors[m].proxy \notin Live(proxies)

LetGo ==
  /\ \A c \in Live(channels) \ Live(channels)' :
       /\ \A r \in Live(rules)' : c \notin rules'[r].channels
       /\ \A m \in Live(monitors)' : c \notin monitors'[m].channels
  /\ \A t \in Live(templates) \ Live(templates)' :
       \A r \in Live(rules)' : rules'[r].template # t
  /\ \A m \in Live(monitors) \ Live(monitors)' :
       \A r \in Live(rules)' : m \notin rules'[r].monitors

-----------------------------------------------------------------------------
(* Starting the process.                                                     *)

LEMMA RepairedRuleFacts ==
  ASSUME TablesInv, NEW r \in Rules
  PROVE  /\ RepairedRule(r) \in RuleRows
         /\ RepairedRule(r).status = "active" =>
              /\ r \in Live(rules)
              /\ RuleNamesDiffer(rules) => RepairedRule(r).name = rules[r].name
              /\ RepairedRule(r).monitors = rules[r].monitors \cap Live(monitors)
              /\ RepairedRule(r).channels = rules[r].channels \cap Live(channels)
              /\ RepairedRule(r).template \in Live(templates) \cup {None}
              /\ RepairedRule(r).monitors # {} /\ RepairedRule(r).channels # {}
<1>1. rules[r] \in RuleRows /\ DOMAIN rules = Rules
  BY DEF TablesInv, TablesTyped
<1>2. CASE rules[r].status # "active"
  BY <1>1, <1>2 DEF RepairedRule
<1>3. CASE rules[r].status = "active"
  <2>1. r \in Live(rules)
    BY <1>1, <1>3 DEF Live
  <2> DEFINE ms == rules[r].monitors \cap Live(monitors)
             row == IF rules[r].monitors \subseteq Live(monitors)
                       /\ rules[r].monitors # {}
                    THEN rules[r] ELSE WithMonitors(r, ms)
             tpl == IF row.template \in Live(templates) \cup {None}
                    THEN row ELSE [row EXCEPT !.template = None]
  <2>2. rules[r].channels # {}
    BY <2>1 DEF TablesInv, RulesNotify
  <2>3. /\ row \in RuleRows
        /\ row.status = (IF ms = {} THEN "archived" ELSE "active")
        /\ RuleNamesDiffer(rules) => row.name = rules[r].name
        /\ row.monitors = ms
        /\ row.channels = rules[r].channels
    <3>1. CASE rules[r].monitors \subseteq Live(monitors) /\ rules[r].monitors # {}
      BY <3>1, <1>1, <1>3
    <3>2. CASE ~(rules[r].monitors \subseteq Live(monitors) /\ rules[r].monitors # {})
      <4>1. TablesTyped /\ ms \subseteq rules[r].monitors
        BY DEF TablesInv
      <4> HIDE DEF ms
      <4> QED BY <4>1, <2>1, <2>2, <3>2, FewerMonitors
    <3> QED BY <3>1, <3>2
  <2> HIDE DEF row, ms
  <2>4. /\ tpl \in RuleRows /\ tpl.status = row.status /\ tpl.name = row.name
        /\ tpl.monitors = row.monitors /\ tpl.channels = row.channels
        /\ tpl.template \in Live(templates) \cup {None}
    BY <2>3 DEF RuleRows
  <2> HIDE DEF tpl
  <2>5. RepairedRule(r) = (IF row.status # "active" THEN row
                           ELSE WithChannels(tpl, row.channels \cap Live(channels)))
    BY <1>3 DEF RepairedRule, tpl, row, ms
  <2>6. CASE row.status # "active"
    BY <2>3, <2>5, <2>6
  <2>7. CASE row.status = "active"
    <3> DEFINE cs == row.channels \cap Live(channels)
    <3>1. cs \subseteq tpl.channels /\ tpl.channels # {}
      BY <2>2, <2>3, <2>4
    <3>2. RepairedRule(r) = WithChannels(tpl, cs)
      BY <2>5, <2>7
    <3> HIDE DEF cs
    <3>3. /\ RepairedRule(r) \in RuleRows
          /\ RepairedRule(r).status = (IF cs = {} THEN "archived" ELSE tpl.status)
          /\ RepairedRule(r).name = tpl.name
          /\ RepairedRule(r).monitors = tpl.monitors
          /\ RepairedRule(r).channels = cs
          /\ RepairedRule(r).template = tpl.template
      BY <3>1, <3>2, <2>4, FewerChannels
    <3> QED BY <3>3, <2>1, <2>3, <2>4, <2>7 DEF ms, cs
  <2> QED BY <2>6, <2>7
<1> QED BY <1>2, <1>3

LEMMA RepairedMonitorFacts ==
  ASSUME TablesTyped, NEW m \in Monitors
  PROVE  /\ RepairedMonitor(m) \in MonitorRows
         /\ RepairedMonitor(m).status = monitors[m].status
         /\ RepairedMonitor(m).name = monitors[m].name
         /\ RepairedMonitor(m).proxy = monitors[m].proxy
         /\ m \in Live(monitors) =>
              /\ RepairedMonitor(m).enabled =>
                   monitors[m].proxy \in Live(proxies) \cup {None}
              /\ RepairedMonitor(m).channels \subseteq Live(channels)
<1> DEFINE row == [monitors[m] EXCEPT
             !.enabled = @ /\ monitors[m].proxy \in Live(proxies) \cup {None}]
           cs == row.channels \cap Live(channels)
<1>1. monitors[m] \in MonitorRows /\ DOMAIN monitors = Monitors
  BY DEF TablesTyped
<1>2. /\ row.status = monitors[m].status /\ row.name = monitors[m].name
      /\ row.proxy = monitors[m].proxy
      /\ row.enabled = (monitors[m].enabled /\
                         monitors[m].proxy \in Live(proxies) \cup {None})
      /\ row \in MonitorRows
  BY <1>1 DEF MonitorRows
<1>3. RepairedMonitor(m) =
        (IF monitors[m].status # "active" THEN monitors[m] ELSE WithAlerts(row, cs))
  BY DEF RepairedMonitor
<1>4. cs \subseteq row.channels /\ cs \subseteq Live(channels)
  OBVIOUS
<1> HIDE DEF row, cs
<1>5. CASE monitors[m].status # "active"
  BY <1>1, <1>3, <1>5 DEF Live
<1>6. CASE monitors[m].status = "active"
  <2>1. RepairedMonitor(m) = WithAlerts(row, cs)
    BY <1>3, <1>6
  <2>2. /\ WithAlerts(row, cs) \in MonitorRows
        /\ WithAlerts(row, cs).status = row.status
        /\ WithAlerts(row, cs).name = row.name
        /\ WithAlerts(row, cs).enabled = row.enabled
        /\ WithAlerts(row, cs).proxy = row.proxy
        /\ WithAlerts(row, cs).channels = cs
    BY <1>2, <1>4, FewerAlerts
  <2>3. row.enabled => monitors[m].proxy \in Live(proxies) \cup {None}
    BY <1>2
  <2> QED BY <1>2, <1>4, <2>1, <2>2, <2>3
<1> QED BY <1>5, <1>6

\* Names and active rows after a start.
LEMMA StartTables ==
  ASSUME TablesInv, Start
  PROVE  /\ TablesInv'
         /\ Whole'
         /\ Live(rules') \subseteq Live(rules)
         /\ Live(monitors') = Live(monitors)
<1>1. /\ rules' = [r \in Rules |-> RepairedRule(r)]
      /\ monitors' = [m \in Monitors |-> RepairedMonitor(m)]
      /\ proxies' = proxies /\ channels' = channels /\ templates' = templates
  BY DEF Start
<1>2. TablesTyped
  BY DEF TablesInv
<1>3. /\ DOMAIN rules = Rules /\ DOMAIN monitors = Monitors
      /\ DOMAIN rules' = Rules /\ DOMAIN monitors' = Monitors
  BY <1>1, <1>2 DEF TablesTyped
<1>4. \A m \in Monitors :
        /\ monitors'[m] \in MonitorRows
        /\ monitors'[m].status = monitors[m].status
        /\ monitors'[m].name = monitors[m].name
        /\ m \in Live(monitors) =>
             /\ monitors'[m].enabled =>
                  monitors'[m].proxy \in Live(proxies) \cup {None}
             /\ monitors'[m].channels \subseteq Live(channels)
  BY <1>1, <1>2, RepairedMonitorFacts
<1>5. Live(monitors') = Live(monitors)
  BY <1>3, <1>4 DEF Live
<1>6. \A r \in Rules : rules'[r] \in RuleRows
  BY <1>1, RepairedRuleFacts
<1>7. \A r \in Live(rules') :
        /\ r \in Live(rules)
        /\ RuleNamesDiffer(rules) => rules'[r].name = rules[r].name
        /\ rules'[r].monitors # {}
        /\ rules'[r].monitors = rules[r].monitors \cap Live(monitors)
        /\ rules'[r].channels # {} /\ rules'[r].channels \subseteq Live(channels)
        /\ rules'[r].template \in Live(templates) \cup {None}
  <2> TAKE r \in Live(rules')
  <2>1. r \in Rules /\ rules'[r].status = "active"
    BY <1>3 DEF Live
  <2>2. rules'[r] = RepairedRule(r)
    BY <1>1, <2>1
  <2> QED BY <2>1, <2>2, RepairedRuleFacts
<1>8. TablesTyped'
  BY <1>1, <1>2, <1>3, <1>4, <1>6 DEF TablesTyped
<1>9. NamesInv'
  <2> SUFFICES ASSUME LegacyNamesDiffer PROVE NamesApart'
    BY DEF NamesInv
  <2>1. NamesDiffer(proxies, channels, templates, monitors, rules)
    BY DEF TablesInv, NamesInv, NamesApart
  <2>2. KeysDiffer(monitors')
    BY <1>3, <1>4, <1>5, <2>1, KeysFewer DEF NamesDiffer, Live
  <2>3. RuleNamesDiffer(rules')
    BY <1>7, <2>1, RulesFewer DEF NamesDiffer
  <2> QED BY <1>1, <2>1, <2>2, <2>3 DEF NamesApart, NamesDiffer
<1>10. RulesNotify' /\ DefaultTemplate \in Live(templates')
  BY <1>1, <1>7 DEF RulesNotify, TablesInv
<1>11. Whole'
  BY <1>1, <1>3, <1>4, <1>5, <1>7 DEF Whole, Live
<1> QED BY <1>5, <1>7, <1>8, <1>9, <1>10, <1>11 DEF TablesInv

LEMMA StartStep ==
  ASSUME ConfInv, Start
  PROVE  ConfInv' /\ ProxyKept /\ LetGo
<1>1. TablesInv' /\ Whole' /\ Live(monitors') = Live(monitors)
  BY StartTables DEF ConfInv
<1>2. /\ proxies' = proxies /\ channels' = channels /\ templates' = templates
      /\ forms' = forms /\ monitors' = [m \in Monitors |-> RepairedMonitor(m)]
  BY DEF Start
<1>3. FormsSound'
  BY <1>2 DEF ConfInv, FormsSound
<1>4. RunnableRules'
  BY <1>1 DEF Whole, RunnableRules
<1>5. \A m \in Live(monitors') : m \in Live(monitors) /\ monitors'[m].proxy = monitors[m].proxy
  BY <1>1, <1>2, RepairedMonitorFacts DEF ConfInv, TablesInv, TablesTyped, Live
<1>6. ProxyKept
  BY <1>2, <1>5 DEF ProxyKept
<1>7. LetGo
  BY <1>1, <1>2 DEF LetGo
<1> QED BY <1>1, <1>3, <1>4, <1>6, <1>7 DEF ConfInv

-----------------------------------------------------------------------------
(* Forms.                                                                     *)

\* A step that leaves the tables alone.
LEMMA TablesKept ==
  ASSUME ConfInv, UNCHANGED tables, FormsSound', up' => up
  PROVE  ConfInv' /\ ProxyKept /\ LetGo
<1>1. /\ proxies' = proxies /\ channels' = channels /\ templates' = templates
      /\ monitors' = monitors /\ rules' = rules
  BY DEF tables
<1>2. TablesInv' /\ RunnableRules'
  BY <1>1
     DEF ConfInv, TablesInv, TablesTyped, NamesInv, NamesApart, RulesNotify, RunnableRules
<1>3. ProxyKept /\ LetGo
  BY <1>1 DEF ProxyKept, LetGo
<1> QED BY <1>2, <1>3 DEF ConfInv

LEMMA CrashStep ==
  ASSUME ConfInv, Crash
  PROVE  ConfInv' /\ ProxyKept /\ LetGo
<1>1. FormsSound'
  BY DEF Crash, FormsSound, FormSound, Idle
<1> QED BY <1>1, TablesKept DEF Crash

LEMMA HoldStep ==
  ASSUME ConfInv, NEW c \in Clients, NEW table, NEW i, NEW row, NEW keep,
         Hold(c, table, i, row, keep),
         FormSound([table |-> table, id |-> i, row |-> row, keep |-> keep])
  PROVE  ConfInv' /\ ProxyKept /\ LetGo
<1> DEFINE f == [table |-> table, id |-> i, row |-> row, keep |-> keep]
<1>1. forms' = [forms EXCEPT ![c] = f] /\ UNCHANGED tables /\ up' = up
  BY DEF Hold
<1>2. FormSound(f)
  OBVIOUS
<1> HIDE DEF f
<1>3. FormsSound'
  BY <1>1, <1>2 DEF ConfInv, FormsSound
<1> QED BY <1>1, <1>3, TablesKept

LEMMA MergedTyped ==
  ASSUME NEW t, NEW i \in DOMAIN t \cup {None},
         NEW input, input.secret \in Secrets \cup {None, Clear},
         i # None => t[i].secret \in Secrets \cup {None}
  PROVE  MergedSecret(input, t, i) \in Secrets \cup {None}
BY DEF MergedSecret

LEMMA SubmitStep ==
  ASSUME ConfInv, NEW c \in Clients, Submit(c)
  PROVE  ConfInv' /\ ProxyKept /\ LetGo
<1>1. TablesTyped /\ RulesNotify /\ RunnableRules
  BY DEF ConfInv, TablesInv
<1>2. ASSUME NEW i \in Proxies \cup {None}, NEW input \in ProxyInputs,
             SubmitProxy(c, i, input)
      PROVE  ConfInv' /\ ProxyKept /\ LetGo
  <2>1. input \in KeyedInputs
    BY InputsAssumption
  <2>2. MergedSecret(input, proxies, i) \in Secrets \cup {None}
    BY <1>1, <1>2, <2>1, MergedTyped
       DEF SubmitProxy, TablesTyped, KeyedRows, KeyedInputs, Live
  <2>3. Merged(input, proxies, i) \in KeyedRows
        /\ Merged(input, proxies, i).status = "active"
    BY <2>1, <2>2 DEF Merged, KeyedInputs, KeyedRows, Statuses
  <2> QED BY <1>2, <2>3, HoldStep DEF SubmitProxy, FormSound
<1>3. ASSUME NEW i \in Channels \cup {None}, NEW input \in ChannelInputs,
             SubmitChannel(c, i, input)
      PROVE  ConfInv' /\ ProxyKept /\ LetGo
  <2>1. input \in KeyedInputs
    BY InputsAssumption
  <2>2. MergedSecret(input, channels, i) \in Secrets \cup {None}
    BY <1>1, <1>3, <2>1, MergedTyped
       DEF SubmitChannel, TablesTyped, KeyedRows, KeyedInputs, Live
  <2>3. Merged(input, channels, i) \in KeyedRows
        /\ Merged(input, channels, i).status = "active"
    BY <2>1, <2>2 DEF Merged, KeyedInputs, KeyedRows, Statuses
  <2> QED BY <1>3, <2>3, HoldStep DEF SubmitChannel, FormSound
<1>4. ASSUME NEW i \in Templates \cup {None}, NEW input \in TemplateInputs,
             SubmitTemplate(c, i, input)
      PROVE  ConfInv' /\ ProxyKept /\ LetGo
  <2>1. input \in KeyedRows /\ input.status = "active"
    BY InputsAssumption DEF KeyedInputs, KeyedRows, Statuses
  <2> QED BY <1>4, <2>1, HoldStep DEF SubmitTemplate, FormSound
<1>5. ASSUME NEW i \in Monitors \cup {None}, NEW input \in MonitorInputs,
             SubmitMonitor(c, i, input)
      PROVE  ConfInv' /\ ProxyKept /\ LetGo
  <2>1. input \in MonitorInputRows
    BY InputsAssumption
  <2>2. MergedSecret(input, monitors, i) \in Secrets \cup {None}
    BY <1>1, <1>5, <2>1, MergedTyped
       DEF SubmitMonitor, TablesTyped, MonitorRows, MonitorInputRows, Live
  <2>3. Merged(input, monitors, i) \in MonitorRows
        /\ Merged(input, monitors, i).status = "active"
    BY <2>1, <2>2 DEF Merged, MonitorInputRows, MonitorRows, Statuses
  <2> QED BY <1>5, <2>3, HoldStep DEF SubmitMonitor, FormSound
<1>6. ASSUME NEW i \in Rules \cup {None}, NEW input \in RuleInputs,
             SubmitRule(c, i, input)
      PROVE  ConfInv' /\ ProxyKept /\ LetGo
  <2>1. input \in RuleRows /\ input.status = "active"
    BY InputsAssumption DEF RuleInputRows, RuleRows, Statuses
  <2>2. input.monitors # {} /\ input.channels # {}
    BY <1>6 DEF SubmitRule
  <2> QED BY <1>6, <2>1, <2>2, HoldStep DEF SubmitRule, FormSound
<1>7. ASSUME NEW i \in Monitors, CopyMonitor(c, i)
      PROVE  ConfInv' /\ ProxyKept /\ LetGo
  <2> DEFINE row == [monitors[i] EXCEPT !.name = None, !.enabled = FALSE]
  <2>1. monitors[i] \in MonitorRows /\ monitors[i].status = "active"
    BY <1>1, <1>7 DEF CopyMonitor, TablesTyped, Live
  <2>2. row \in MonitorRows /\ row.status = "active"
    BY <2>1 DEF MonitorRows
  <2>3. Hold(c, "monitors", None, row, FALSE)
    BY <1>7 DEF CopyMonitor
  <2> HIDE DEF row
  <2> QED BY <2>2, <2>3, HoldStep DEF FormSound
<1>8. ASSUME NEW i \in Rules, CopyRule(c, i)
      PROVE  ConfInv' /\ ProxyKept /\ LetGo
  <2> DEFINE row == [rules[i] EXCEPT !.name = None]
  <2>1. /\ rules[i] \in RuleRows /\ rules[i].status = "active"
        /\ rules[i].channels # {} /\ rules[i].monitors # {}
    BY <1>1, <1>8 DEF CopyRule, Hold, TablesTyped, RulesNotify, RunnableRules, Live
  <2>2. /\ row \in RuleRows /\ row.status = "active"
        /\ row.channels # {} /\ row.monitors # {}
    BY <2>1 DEF RuleRows
  <2>3. Hold(c, "rules", None, row, FALSE)
    BY <1>8 DEF CopyRule
  <2> HIDE DEF row
  <2> QED BY <2>2, <2>3, HoldStep DEF FormSound
<1>9. ASSUME NEW i \in Channels, CopyChannel(c, i)
      PROVE  ConfInv' /\ ProxyKept /\ LetGo
  <2> DEFINE row == [channels[i] EXCEPT !.name = None]
  <2>1. channels[i] \in KeyedRows /\ channels[i].status = "active"
    BY <1>1, <1>9 DEF CopyChannel, TablesTyped, Live
  <2>2. row \in KeyedRows /\ row.status = "active"
    BY <2>1 DEF KeyedRows
  <2>3. Hold(c, "channels", None, row, FALSE)
    BY <1>9 DEF CopyChannel
  <2> HIDE DEF row
  <2> QED BY <2>2, <2>3, HoldStep DEF FormSound
<1>10. ASSUME NEW i \in Templates, CopyTemplate(c, i)
       PROVE  ConfInv' /\ ProxyKept /\ LetGo
  <2> DEFINE row == [templates[i] EXCEPT !.name = None]
  <2>1. templates[i] \in KeyedRows /\ templates[i].status = "active"
    BY <1>1, <1>10 DEF CopyTemplate, TablesTyped, Live
  <2>2. row \in KeyedRows /\ row.status = "active"
    BY <2>1 DEF KeyedRows
  <2>3. Hold(c, "templates", None, row, FALSE)
    BY <1>10 DEF CopyTemplate
  <2> HIDE DEF row
  <2> QED BY <2>2, <2>3, HoldStep DEF FormSound
<1> QED BY <1>2, <1>3, <1>4, <1>5, <1>6, <1>7, <1>8, <1>9, <1>10 DEF Submit

-----------------------------------------------------------------------------
(* Writing.                                                                   *)

LEMMA ActiveWritten ==
  ASSUME NEW t, NEW i \in DOMAIN t, NEW row, row.status = "active"
  PROVE  Live([t EXCEPT ![i] = row]) = Live(t) \cup {i}
BY DEF Live

LEMMA Released ==
  ASSUME FormsSound, NEW c \in Clients, Release(c)
  PROVE  FormsSound'
<1>1. FormSound(Idle)
  BY DEF FormSound, Idle
<1> QED BY <1>1 DEF FormsSound, Release

\* A row under the name it is written with.
LEMMA Named ==
  ASSUME NEW rows, rows = KeyedRows \/ rows = MonitorRows \/ rows = RuleRows,
         NEW row \in rows, NEW n \in NamesFor(row)
  PROVE  /\ [row EXCEPT !.name = n] \in rows
         /\ [row EXCEPT !.name = n].name = n
         /\ [row EXCEPT !.name = n].status = row.status
<1>1. n \in Names \/ n = row.name
  BY DEF NamesFor
<1>2. CASE rows = KeyedRows
  BY <1>1, <1>2 DEF KeyedRows
<1>3. CASE rows = MonitorRows
  BY <1>1, <1>3 DEF MonitorRows
<1>4. CASE rows = RuleRows
  BY <1>1, <1>4 DEF RuleRows
<1> QED BY <1>2, <1>3, <1>4

LEMMA WriteProxyStep ==
  ASSUME ConfInv, NEW c \in Clients, WriteProxy(c)
  PROVE  ConfInv' /\ ProxyKept /\ LetGo
<1>1. TablesTyped /\ NamesInv /\ DOMAIN proxies = Proxies
  BY DEF ConfInv, TablesInv, TablesTyped
<1>2. PICK i, row :
        /\ i \in Targets(proxies, forms[c])
        /\ row = forms[c].row
        /\ ~Taken(proxies, row.name, i)
        /\ proxies' = [proxies EXCEPT ![i] = row]
  BY DEF WriteProxy
<1>3. i \in DOMAIN proxies
  BY <1>2 DEF Targets, Unused, Live
<1>4. row \in KeyedRows /\ row.status = "active"
  BY <1>2 DEF WriteProxy, ConfInv, FormsSound, FormSound
<1>5. /\ channels' = channels /\ templates' = templates /\ monitors' = monitors
      /\ rules' = rules /\ up' = up /\ FormsSound'
  BY Released DEF WriteProxy, ConfInv
<1>6. Live(proxies') = Live(proxies) \cup {i}
  BY <1>2, <1>3, <1>4, ActiveWritten
<1>7. LegacyNamesDiffer => KeysDiffer(proxies')
  BY <1>1, <1>2, <1>3, KeyWritten DEF NamesInv, NamesApart, NamesDiffer
<1>8. proxies' \in [Proxies -> KeyedRows]
  BY <1>1, <1>2, <1>3, <1>4 DEF TablesTyped
<1>9. TablesInv' /\ RunnableRules'
  BY <1>1, <1>5, <1>7, <1>8
     DEF ConfInv, TablesInv, TablesTyped, NamesInv, NamesApart, NamesDiffer, RulesNotify,
         RunnableRules
<1>10. ProxyKept /\ LetGo
  BY <1>5, <1>6 DEF ProxyKept, LetGo
<1> QED BY <1>5, <1>9, <1>10 DEF ConfInv

LEMMA WriteChannelStep ==
  ASSUME ConfInv, NEW c \in Clients, WriteChannel(c)
  PROVE  ConfInv' /\ ProxyKept /\ LetGo
<1>1. TablesTyped /\ NamesInv /\ DOMAIN channels = Channels
  BY DEF ConfInv, TablesInv, TablesTyped
<1>2. PICK i, n, row :
        /\ i \in Targets(channels, forms[c]) /\ n \in NamesFor(forms[c].row)
        /\ row = [forms[c].row EXCEPT !.name = n]
        /\ ~Taken(channels, n, i)
        /\ channels' = [channels EXCEPT ![i] = row]
  BY DEF WriteChannel
<1>3. i \in DOMAIN channels
  BY <1>2 DEF Targets, Unused, Live
<1>4. row \in KeyedRows /\ row.status = "active" /\ row.name = n
  <2>1. forms[c].row \in KeyedRows /\ forms[c].row.status = "active"
    BY DEF WriteChannel, ConfInv, FormsSound, FormSound
  <2> QED BY <2>1, <1>2, Named
<1>5. /\ proxies' = proxies /\ templates' = templates /\ monitors' = monitors
      /\ rules' = rules /\ up' = up /\ FormsSound'
  BY Released DEF WriteChannel, ConfInv
<1>6. Live(channels') = Live(channels) \cup {i}
  BY <1>2, <1>3, <1>4, ActiveWritten
<1>7. LegacyNamesDiffer => KeysDiffer(channels')
  BY <1>1, <1>2, <1>3, <1>4, KeyWritten DEF NamesInv, NamesApart, NamesDiffer
<1>8. channels' \in [Channels -> KeyedRows]
  BY <1>1, <1>2, <1>3, <1>4 DEF TablesTyped
<1>9. TablesInv' /\ RunnableRules'
  BY <1>1, <1>5, <1>7, <1>8
     DEF ConfInv, TablesInv, TablesTyped, NamesInv, NamesApart, NamesDiffer, RulesNotify,
         RunnableRules
<1>10. ProxyKept /\ LetGo
  BY <1>5, <1>6 DEF ProxyKept, LetGo
<1> QED BY <1>5, <1>9, <1>10 DEF ConfInv

LEMMA WriteTemplateStep ==
  ASSUME ConfInv, NEW c \in Clients, WriteTemplate(c)
  PROVE  ConfInv' /\ ProxyKept /\ LetGo
<1>1. TablesTyped /\ NamesInv /\ DOMAIN templates = Templates
  BY DEF ConfInv, TablesInv, TablesTyped
<1>2. PICK i, n, row :
        /\ i \in Targets(templates, forms[c]) /\ n \in NamesFor(forms[c].row)
        /\ row = [forms[c].row EXCEPT !.name = n]
        /\ ~Taken(templates, n, i)
        /\ templates' = [templates EXCEPT ![i] = row]
  BY DEF WriteTemplate
<1>3. i \in DOMAIN templates
  BY <1>2 DEF Targets, Unused, Live
<1>4. row \in KeyedRows /\ row.status = "active" /\ row.name = n
  <2>1. forms[c].row \in KeyedRows /\ forms[c].row.status = "active"
    BY DEF WriteTemplate, ConfInv, FormsSound, FormSound
  <2> QED BY <2>1, <1>2, Named
<1>5. /\ proxies' = proxies /\ channels' = channels /\ monitors' = monitors
      /\ rules' = rules /\ up' = up /\ FormsSound'
  BY Released DEF WriteTemplate, ConfInv
<1>6. Live(templates') = Live(templates) \cup {i}
  BY <1>2, <1>3, <1>4, ActiveWritten
<1>7. LegacyNamesDiffer => KeysDiffer(templates')
  BY <1>1, <1>2, <1>3, <1>4, KeyWritten DEF NamesInv, NamesApart, NamesDiffer
<1>8. templates' \in [Templates -> KeyedRows]
  BY <1>1, <1>2, <1>3, <1>4 DEF TablesTyped
<1>9. TablesInv' /\ RunnableRules'
  BY <1>1, <1>5, <1>6, <1>7, <1>8
     DEF ConfInv, TablesInv, TablesTyped, NamesInv, NamesApart, NamesDiffer, RulesNotify,
         RunnableRules
<1>10. ProxyKept /\ LetGo
  BY <1>5, <1>6 DEF ProxyKept, LetGo
<1> QED BY <1>5, <1>9, <1>10 DEF ConfInv

LEMMA WriteMonitorStep ==
  ASSUME ConfInv, NEW c \in Clients, WriteMonitor(c)
  PROVE  ConfInv' /\ ProxyKept /\ LetGo
<1>1. TablesTyped /\ NamesInv /\ DOMAIN monitors = Monitors
  BY DEF ConfInv, TablesInv, TablesTyped
<1>2. PICK i, n, row :
        /\ i \in Targets(monitors, forms[c]) /\ n \in NamesFor(forms[c].row)
        /\ row = [forms[c].row EXCEPT !.name = n]
        /\ ~Taken(monitors, n, i)
        /\ monitors' = [monitors EXCEPT ![i] = row]
  BY DEF WriteMonitor
<1>3. i \in DOMAIN monitors
  BY <1>2 DEF Targets, Unused, Live
<1>4. /\ row \in MonitorRows /\ row.status = "active" /\ row.name = n
      /\ row.proxy \in Live(proxies) \cup {None}
  <2>1. forms[c].row \in MonitorRows /\ forms[c].row.status = "active"
    BY DEF WriteMonitor, ConfInv, FormsSound, FormSound
  <2>2. row.proxy = forms[c].row.proxy
    BY <2>1, <1>2 DEF MonitorRows
  <2>3. forms[c].row.proxy \in Live(proxies) \cup {None}
    BY DEF WriteMonitor
  <2> QED BY <2>1, <2>2, <2>3, <1>2, Named
<1>5. /\ proxies' = proxies /\ channels' = channels /\ templates' = templates
      /\ rules' = rules /\ up' = up /\ FormsSound'
  BY Released DEF WriteMonitor, ConfInv
<1>6. Live(monitors') = Live(monitors) \cup {i}
  BY <1>2, <1>3, <1>4, ActiveWritten
<1>7. LegacyNamesDiffer => KeysDiffer(monitors')
  BY <1>1, <1>2, <1>3, <1>4, KeyWritten DEF NamesInv, NamesApart, NamesDiffer
<1>8. monitors' \in [Monitors -> MonitorRows]
  BY <1>1, <1>2, <1>3, <1>4 DEF TablesTyped
<1>9. TablesInv' /\ RunnableRules'
  BY <1>1, <1>5, <1>6, <1>7, <1>8
     DEF ConfInv, TablesInv, TablesTyped, NamesInv, NamesApart, NamesDiffer, RulesNotify,
         RunnableRules
<1>10. ProxyKept
  <2>1. monitors'[i] = row /\ \A m \in Live(monitors) : m # i => monitors'[m] = monitors[m]
    BY <1>2, <1>3 DEF Live
  <2> QED BY <2>1, <1>4, <1>5, <1>6 DEF ProxyKept
<1>11. LetGo
  BY <1>5, <1>6 DEF LetGo
<1> QED BY <1>5, <1>9, <1>10, <1>11 DEF ConfInv

LEMMA WriteRuleStep ==
  ASSUME ConfInv, NEW c \in Clients, WriteRule(c)
  PROVE  ConfInv' /\ ProxyKept /\ LetGo
<1>1. TablesTyped /\ NamesInv /\ DOMAIN rules = Rules
  BY DEF ConfInv, TablesInv, TablesTyped
<1>2. PICK i, n, row :
        /\ i \in Targets(rules, forms[c]) /\ n \in NamesFor(forms[c].row)
        /\ row = [forms[c].row EXCEPT !.name = n]
        /\ ~Overlaps(rules, n, forms[c].row.monitors, i)
        /\ rules' = [rules EXCEPT ![i] = row]
  BY DEF WriteRule
<1>3. i \in DOMAIN rules
  BY <1>2 DEF Targets, Unused, Live
<1>4. /\ row \in RuleRows /\ row.status = "active" /\ row.name = n
      /\ row.monitors = forms[c].row.monitors /\ row.monitors \subseteq Live(monitors)
      /\ row.monitors # {} /\ row.channels # {}
  <2>1. /\ forms[c].row \in RuleRows /\ forms[c].row.status = "active"
        /\ forms[c].row.monitors # {} /\ forms[c].row.channels # {}
    BY DEF WriteRule, ConfInv, FormsSound, FormSound
  <2>2. row.monitors = forms[c].row.monitors /\ row.channels = forms[c].row.channels
    BY <2>1, <1>2 DEF RuleRows
  <2>3. forms[c].row.monitors \subseteq Live(monitors)
    BY DEF WriteRule
  <2>4. row \in RuleRows /\ row.status = "active" /\ row.name = n
    BY <2>1, <1>2, Named
  <2> QED BY <2>1, <2>2, <2>3, <2>4
<1>5. /\ proxies' = proxies /\ channels' = channels /\ templates' = templates
      /\ monitors' = monitors /\ up' = up /\ FormsSound'
  BY Released DEF WriteRule, ConfInv
<1>6. /\ Live(rules') = Live(rules) \cup {i}
      /\ rules'[i] = row /\ \A r \in Live(rules) : r # i => rules'[r] = rules[r]
  BY <1>2, <1>3, <1>4, ActiveWritten DEF Live
<1>7. LegacyNamesDiffer => RuleNamesDiffer(rules')
  BY <1>1, <1>2, <1>3, <1>4, RuleWritten DEF NamesInv, NamesApart, NamesDiffer
<1>8. rules' \in [Rules -> RuleRows]
  BY <1>1, <1>2, <1>3, <1>4 DEF TablesTyped
<1>9. TablesInv' /\ RunnableRules'
  BY <1>1, <1>4, <1>5, <1>6, <1>7, <1>8
     DEF ConfInv, TablesInv, TablesTyped, NamesInv, NamesApart, NamesDiffer, RulesNotify,
         RunnableRules
<1>10. ProxyKept /\ LetGo
  BY <1>5 DEF ProxyKept, LetGo
<1> QED BY <1>5, <1>9, <1>10 DEF ConfInv

LEMMA WriteStep ==
  ASSUME ConfInv, NEW c \in Clients, Write(c)
  PROVE  ConfInv' /\ ProxyKept /\ LetGo
<1>1. CASE Refuse(c)
  <2>1. FormsSound'
    BY <1>1, Released DEF Refuse, ConfInv
  <2> QED BY <1>1, <2>1, TablesKept DEF Refuse
<1> QED BY <1>1, WriteProxyStep, WriteChannelStep, WriteTemplateStep,
           WriteMonitorStep, WriteRuleStep DEF Write

-----------------------------------------------------------------------------
(* Archiving.                                                                 *)

LEMMA ArchivedTable ==
  ASSUME NEW t, NEW i \in Live(t), "status" \in DOMAIN t[i]
  PROVE  /\ DOMAIN Archived(t, i) = DOMAIN t
         /\ Live(Archived(t, i)) = Live(t) \ {i}
         /\ \A j \in DOMAIN t : j # i => Archived(t, i)[j] = t[j]
         /\ Archived(t, i)[i] = [t[i] EXCEPT !.status = "archived"]
<1>1. i \in DOMAIN t
  BY DEF Live
<1>2. /\ DOMAIN Archived(t, i) = DOMAIN t
      /\ \A j \in DOMAIN t : j # i => Archived(t, i)[j] = t[j]
      /\ Archived(t, i)[i] = [t[i] EXCEPT !.status = "archived"]
  BY <1>1 DEF Archived
<1>3. Archived(t, i)[i].status # "active"
  BY <1>2
<1> QED BY <1>2, <1>3 DEF Live

LEMMA DeleteProxyStep ==
  ASSUME ConfInv, NEW i, DeleteProxyProfile(i)
  PROVE  ConfInv' /\ ProxyKept /\ LetGo
<1>1. TablesTyped /\ NamesInv
  BY DEF ConfInv, TablesInv
<1>2. /\ i \in Live(proxies) /\ \A m \in Live(monitors) : monitors[m].proxy # i
      /\ proxies' = Archived(proxies, i)
      /\ channels' = channels /\ templates' = templates /\ monitors' = monitors
      /\ rules' = rules /\ up' = up /\ forms' = forms
  BY DEF DeleteProxyProfile
<1>3. i \in Proxies /\ DOMAIN proxies = Proxies /\ proxies[i] \in KeyedRows
  BY <1>1, <1>2 DEF TablesTyped, Live
<1>4. /\ DOMAIN proxies' = Proxies /\ Live(proxies') = Live(proxies) \ {i}
      /\ \A j \in Proxies : j # i => proxies'[j] = proxies[j]
      /\ proxies'[i] = [proxies[i] EXCEPT !.status = "archived"]
  BY <1>2, <1>3, ArchivedTable DEF KeyedRows
<1>5. proxies' \in [Proxies -> KeyedRows]
  <2>1. proxies'[i] \in KeyedRows
    BY <1>3, <1>4 DEF KeyedRows, Statuses
  <2>2. \A j \in Proxies : proxies'[j] \in KeyedRows
    BY <2>1, <1>1, <1>4 DEF TablesTyped
  <2>3. proxies' = [j \in Proxies |-> proxies'[j]]
    BY <1>1, <1>2, <1>3 DEF Archived, TablesTyped
  <2> QED BY <2>2, <2>3
<1>6. LegacyNamesDiffer => KeysDiffer(proxies')
  BY <1>1, <1>2, <1>3, <1>4, KeysFewer DEF NamesInv, NamesApart, NamesDiffer, Live
<1>7. TablesInv' /\ RunnableRules' /\ FormsSound'
  BY <1>1, <1>2, <1>5, <1>6
     DEF ConfInv, TablesInv, TablesTyped, NamesInv, NamesApart, NamesDiffer, RulesNotify,
         RunnableRules, FormsSound
<1>8. ProxyKept /\ LetGo
  BY <1>2, <1>4 DEF ProxyKept, LetGo
<1> QED BY <1>7, <1>8 DEF ConfInv

LEMMA DeleteRuleStep ==
  ASSUME ConfInv, NEW i, DeleteRule(i)
  PROVE  ConfInv' /\ ProxyKept /\ LetGo
<1>1. TablesTyped /\ NamesInv
  BY DEF ConfInv, TablesInv
<1>2. /\ i \in Live(rules) /\ rules' = Archived(rules, i)
      /\ proxies' = proxies /\ channels' = channels /\ templates' = templates
      /\ monitors' = monitors /\ up' = up /\ forms' = forms
  BY DEF DeleteRule
<1>3. i \in Rules /\ DOMAIN rules = Rules /\ rules[i] \in RuleRows
  BY <1>1, <1>2 DEF TablesTyped, Live
<1>4. /\ DOMAIN rules' = Rules /\ Live(rules') = Live(rules) \ {i}
      /\ \A j \in Rules : j # i => rules'[j] = rules[j]
      /\ rules'[i] = [rules[i] EXCEPT !.status = "archived"]
  BY <1>2, <1>3, ArchivedTable DEF RuleRows
<1>5. rules' \in [Rules -> RuleRows]
  <2>1. rules'[i] \in RuleRows
    BY <1>3, <1>4 DEF RuleRows, Statuses
  <2>2. \A j \in Rules : rules'[j] \in RuleRows
    BY <2>1, <1>1, <1>4 DEF TablesTyped
  <2>3. rules' = [j \in Rules |-> rules'[j]]
    BY <1>1, <1>2, <1>3 DEF Archived, TablesTyped
  <2> QED BY <2>2, <2>3
<1>6. \A r \in Live(rules') : r \in Live(rules) /\ rules'[r] = rules[r]
  BY <1>3, <1>4 DEF Live
<1>7. LegacyNamesDiffer => RuleNamesDiffer(rules')
  BY <1>1, <1>6, RulesFewer DEF NamesInv, NamesApart, NamesDiffer
<1>8. TablesInv' /\ RunnableRules' /\ FormsSound'
  BY <1>1, <1>2, <1>5, <1>6, <1>7
     DEF ConfInv, TablesInv, TablesTyped, NamesInv, NamesApart, NamesDiffer, RulesNotify,
         RunnableRules, FormsSound
<1>9. ProxyKept /\ LetGo
  BY <1>2 DEF ProxyKept, LetGo
<1> QED BY <1>8, <1>9 DEF ConfInv

LEMMA DeleteTemplateStep ==
  ASSUME ConfInv, NEW i, DeleteNotificationTemplate(i)
  PROVE  ConfInv' /\ ProxyKept /\ LetGo
<1>1. TablesTyped /\ NamesInv
  BY DEF ConfInv, TablesInv
<1>2. /\ i \in Live(templates) \ {DefaultTemplate}
      /\ templates' = Archived(templates, i)
      /\ rules' = [r \in Rules |->
           IF r \in Live(rules) /\ rules[r].template = i
           THEN [rules[r] EXCEPT !.template = None] ELSE rules[r]]
      /\ proxies' = proxies /\ channels' = channels /\ monitors' = monitors
      /\ up' = up /\ forms' = forms
  BY DEF DeleteNotificationTemplate
<1>3. i \in Templates /\ DOMAIN templates = Templates /\ templates[i] \in KeyedRows
  BY <1>1, <1>2 DEF TablesTyped, Live
<1>4. /\ DOMAIN templates' = Templates /\ Live(templates') = Live(templates) \ {i}
      /\ \A j \in Templates : j # i => templates'[j] = templates[j]
      /\ templates'[i] = [templates[i] EXCEPT !.status = "archived"]
  BY <1>2, <1>3, ArchivedTable DEF KeyedRows
<1>5. templates' \in [Templates -> KeyedRows]
  <2>1. templates'[i] \in KeyedRows
    BY <1>3, <1>4 DEF KeyedRows, Statuses
  <2>2. \A j \in Templates : templates'[j] \in KeyedRows
    BY <2>1, <1>1, <1>4 DEF TablesTyped
  <2>3. templates' = [j \in Templates |-> templates'[j]]
    BY <1>1, <1>2, <1>3 DEF Archived, TablesTyped
  <2> QED BY <2>2, <2>3
<1>6. LegacyNamesDiffer => KeysDiffer(templates')
  BY <1>1, <1>2, <1>3, <1>4, KeysFewer DEF NamesInv, NamesApart, NamesDiffer, Live
<1>7. \A r \in Rules :
        /\ rules'[r] \in RuleRows /\ rules'[r].status = rules[r].status
        /\ rules'[r].name = rules[r].name /\ rules'[r].monitors = rules[r].monitors
        /\ rules'[r].channels = rules[r].channels
        /\ rules[r].status = "active" => rules'[r].template # i
  <2> TAKE r \in Rules
  <2>1. rules[r] \in RuleRows
    BY <1>1 DEF TablesTyped
  <2>2. i # None
    BY <1>3, IdsAssumption
  <2>3. CASE r \in Live(rules) /\ rules[r].template = i
    <3>1. rules'[r] = [rules[r] EXCEPT !.template = None]
      BY <1>2, <2>3
    <3> QED BY <2>1, <2>2, <3>1 DEF RuleRows
  <2>4. CASE ~(r \in Live(rules) /\ rules[r].template = i)
    BY <1>1, <1>2, <2>1, <2>4 DEF Live, TablesTyped
  <2> QED BY <2>3, <2>4
<1>8. DOMAIN rules = Rules /\ DOMAIN rules' = Rules /\ rules' \in [Rules -> RuleRows]
  BY <1>1, <1>2, <1>7 DEF TablesTyped
<1>9. /\ Live(rules') = Live(rules)
      /\ \A r \in Live(rules) :
           /\ rules'[r].name = rules[r].name /\ rules'[r].monitors = rules[r].monitors
           /\ rules'[r].channels = rules[r].channels /\ rules'[r].template # i
  BY <1>7, <1>8 DEF Live
<1>10. LegacyNamesDiffer => RuleNamesDiffer(rules')
  BY <1>1, <1>9, RulesFewer DEF NamesInv, NamesApart, NamesDiffer
<1>11. TablesInv' /\ RunnableRules' /\ FormsSound'
  <2>1. TablesTyped' /\ NamesInv'
    BY <1>1, <1>2, <1>5, <1>6, <1>8, <1>10 DEF TablesTyped, NamesInv, NamesApart, NamesDiffer
  <2>2. RulesNotify' /\ DefaultTemplate \in Live(templates')
    BY <1>2, <1>4, <1>9 DEF ConfInv, TablesInv, RulesNotify
  <2>3. RunnableRules' /\ FormsSound'
    BY <1>2, <1>9 DEF ConfInv, RunnableRules, FormsSound
  <2> QED BY <2>1, <2>2, <2>3 DEF TablesInv
<1>12. ProxyKept /\ LetGo
  BY <1>2, <1>4, <1>9 DEF ProxyKept, LetGo
<1> QED BY <1>11, <1>12 DEF ConfInv

LEMMA DeleteChannelStep ==
  ASSUME ConfInv, NEW i, DeleteNotifyChannel(i)
  PROVE  ConfInv' /\ ProxyKept /\ LetGo
<1>1. TablesTyped /\ NamesInv /\ RulesNotify
  BY DEF ConfInv, TablesInv
<1>2. /\ i \in Live(channels) /\ channels' = Archived(channels, i)
      /\ rules' = [r \in Rules |->
           IF r \in Live(rules) /\ i \in rules[r].channels
           THEN WithChannels(rules[r], rules[r].channels \ {i}) ELSE rules[r]]
      /\ monitors' = [m \in Monitors |->
           IF m \in Live(monitors) /\ i \in monitors[m].channels
           THEN WithAlerts(monitors[m], monitors[m].channels \ {i}) ELSE monitors[m]]
      /\ proxies' = proxies /\ templates' = templates
      /\ up' = up /\ forms' = forms
  BY DEF DeleteNotifyChannel
<1>3. i \in Channels /\ DOMAIN channels = Channels /\ channels[i] \in KeyedRows
  BY <1>1, <1>2 DEF TablesTyped, Live
<1>4. /\ DOMAIN channels' = Channels /\ Live(channels') = Live(channels) \ {i}
      /\ \A j \in Channels : j # i => channels'[j] = channels[j]
      /\ channels'[i] = [channels[i] EXCEPT !.status = "archived"]
  BY <1>2, <1>3, ArchivedTable DEF KeyedRows
<1>5. channels' \in [Channels -> KeyedRows]
  <2>1. channels'[i] \in KeyedRows
    BY <1>3, <1>4 DEF KeyedRows, Statuses
  <2>2. \A j \in Channels : channels'[j] \in KeyedRows
    BY <2>1, <1>1, <1>4 DEF TablesTyped
  <2>3. channels' = [j \in Channels |-> channels'[j]]
    BY <1>1, <1>2, <1>3 DEF Archived, TablesTyped
  <2> QED BY <2>2, <2>3
<1>6. LegacyNamesDiffer => KeysDiffer(channels')
  BY <1>1, <1>2, <1>3, <1>4, KeysFewer DEF NamesInv, NamesApart, NamesDiffer, Live
<1>7. \A r \in Rules :
        /\ rules'[r] \in RuleRows
        /\ rules'[r].name = rules[r].name /\ rules'[r].monitors = rules[r].monitors
        /\ rules'[r].status = "active" =>
             /\ rules[r].status = "active"
             /\ rules'[r].channels # {} /\ i \notin rules'[r].channels
  <2> TAKE r \in Rules
  <2>1. rules[r] \in RuleRows
    BY <1>1 DEF TablesTyped
  <2>2. CASE r \in Live(rules) /\ i \in rules[r].channels
    <3> DEFINE cs == rules[r].channels \ {i}
    <3>1. rules'[r] = WithChannels(rules[r], cs)
      BY <1>2, <2>2
    <3>2. rules[r].channels # {} /\ cs \subseteq rules[r].channels /\ i \notin cs
      BY <2>2
    <3>3. rules[r].status = "active"
      BY <2>2 DEF Live
    <3> HIDE DEF cs
    <3> QED BY <2>1, <3>1, <3>2, <3>3, FewerChannels
  <2>3. CASE ~(r \in Live(rules) /\ i \in rules[r].channels)
    <3>1. rules'[r] = rules[r]
      BY <1>2, <2>3
    <3> QED BY <1>1, <2>1, <2>3, <3>1 DEF Live, TablesTyped, RulesNotify
  <2> QED BY <2>2, <2>3
<1>8. \A m \in Monitors :
        /\ monitors'[m] \in MonitorRows
        /\ monitors'[m].status = monitors[m].status
        /\ monitors'[m].name = monitors[m].name
        /\ monitors'[m].proxy = monitors[m].proxy
        /\ monitors[m].status = "active" => i \notin monitors'[m].channels
  <2> TAKE m \in Monitors
  <2>1. monitors[m] \in MonitorRows
    BY <1>1 DEF TablesTyped
  <2>2. CASE m \in Live(monitors) /\ i \in monitors[m].channels
    <3> DEFINE cs == monitors[m].channels \ {i}
    <3>1. monitors'[m] = WithAlerts(monitors[m], cs)
      BY <1>2, <2>2
    <3>2. cs \subseteq monitors[m].channels /\ i \notin cs
      OBVIOUS
    <3> HIDE DEF cs
    <3> QED BY <2>1, <3>1, <3>2, FewerAlerts
  <2>3. CASE ~(m \in Live(monitors) /\ i \in monitors[m].channels)
    <3>1. monitors'[m] = monitors[m]
      BY <1>2, <2>3
    <3> QED BY <1>1, <2>1, <2>3, <3>1 DEF Live, TablesTyped
  <2> QED BY <2>2, <2>3
<1>9. /\ DOMAIN rules = Rules /\ DOMAIN rules' = Rules /\ rules' \in [Rules -> RuleRows]
      /\ DOMAIN monitors = Monitors /\ DOMAIN monitors' = Monitors
      /\ monitors' \in [Monitors -> MonitorRows]
  BY <1>1, <1>2, <1>7, <1>8 DEF TablesTyped
<1>10. /\ Live(monitors') = Live(monitors)
       /\ \A m \in Live(monitors) :
            /\ monitors'[m].name = monitors[m].name
            /\ monitors'[m].proxy = monitors[m].proxy
            /\ i \notin monitors'[m].channels
  BY <1>8, <1>9 DEF Live
<1>11. \A r \in Live(rules') :
         /\ r \in Live(rules)
         /\ rules'[r].name = rules[r].name /\ rules'[r].monitors = rules[r].monitors
         /\ rules'[r].channels # {} /\ i \notin rules'[r].channels
  BY <1>7, <1>9 DEF Live
<1>12. LegacyNamesDiffer => RuleNamesDiffer(rules') /\ KeysDiffer(monitors')
  BY <1>1, <1>10, <1>11, RulesFewer, KeysFewer DEF NamesInv, NamesApart, NamesDiffer
<1>13. TablesInv' /\ RunnableRules' /\ FormsSound'
  <2>1. TablesTyped' /\ NamesInv'
    BY <1>1, <1>2, <1>5, <1>6, <1>9, <1>12 DEF TablesTyped, NamesInv, NamesApart, NamesDiffer
  <2>2. RulesNotify' /\ DefaultTemplate \in Live(templates')
    BY <1>2, <1>11 DEF ConfInv, TablesInv, RulesNotify
  <2>3. RunnableRules'
    <3>1. \A r \in Live(rules) : /\ rules[r].monitors # {}
                                /\ rules[r].monitors \subseteq Live(monitors)
      <4>1. up
        BY DEF DeleteNotifyChannel
      <4> QED BY <4>1 DEF ConfInv, RunnableRules
    <3> QED BY <3>1, <1>10, <1>11 DEF RunnableRules
  <2>4. FormsSound'
    BY <1>2 DEF ConfInv, FormsSound
  <2> QED BY <2>1, <2>2, <2>3, <2>4 DEF TablesInv
<1>14. ProxyKept
  BY <1>2, <1>10 DEF ProxyKept
<1>15. LetGo
  <2>1. \A c \in Live(channels) \ Live(channels') : c = i
    BY <1>4
  <2>2. /\ \A r \in Live(rules') : i \notin rules'[r].channels
        /\ \A m \in Live(monitors') : i \notin monitors'[m].channels
    BY <1>10, <1>11
  <2>3. \A c \in Live(channels) \ Live(channels') :
          /\ \A r \in Live(rules') : c \notin rules'[r].channels
          /\ \A m \in Live(monitors') : c \notin monitors'[m].channels
    BY <2>1, <2>2, Zenon
  <2>4. Live(templates) \ Live(templates') = {} /\ Live(monitors) \ Live(monitors') = {}
    BY <1>2, <1>10
  <2> QED BY <2>3, <2>4 DEF LetGo
<1> QED BY <1>13, <1>14, <1>15 DEF ConfInv

LEMMA DeleteMonitorStep ==
  ASSUME ConfInv, NEW i, DeleteMonitor(i)
  PROVE  ConfInv' /\ ProxyKept /\ LetGo
<1>1. TablesTyped /\ NamesInv /\ RulesNotify
  BY DEF ConfInv, TablesInv
<1>2. /\ up /\ i \in Live(monitors)
      /\ monitors' = [Archived(monitors, i) EXCEPT ![i].enabled = FALSE]
      /\ rules' = [r \in Rules |->
           IF r \in Live(rules) /\ i \in rules[r].monitors
           THEN WithMonitors(r, rules[r].monitors \ {i}) ELSE rules[r]]
      /\ proxies' = proxies /\ channels' = channels /\ templates' = templates
      /\ up' = up /\ forms' = forms
  BY DEF DeleteMonitor
<1>3. i \in Monitors /\ DOMAIN monitors = Monitors /\ monitors[i] \in MonitorRows
  BY <1>1, <1>2 DEF TablesTyped, Live
<1>4. /\ DOMAIN monitors' = Monitors /\ Live(monitors') = Live(monitors) \ {i}
      /\ \A j \in Monitors : j # i => monitors'[j] = monitors[j]
      /\ monitors'[i] \in MonitorRows
  <2> DEFINE u == Archived(monitors, i)
  <2>1. /\ DOMAIN u = Monitors /\ Live(u) = Live(monitors) \ {i}
        /\ \A j \in Monitors : j # i => u[j] = monitors[j]
        /\ u[i] = [monitors[i] EXCEPT !.status = "archived"]
    BY <1>2, <1>3, ArchivedTable DEF MonitorRows
  <2>2. monitors' = [u EXCEPT ![i] = [u[i] EXCEPT !.enabled = FALSE]]
    BY <1>2
  <2> HIDE DEF u
  <2>3. /\ [u[i] EXCEPT !.enabled = FALSE] \in MonitorRows
        /\ [u[i] EXCEPT !.enabled = FALSE].status = "archived"
    BY <1>3, <2>1 DEF MonitorRows, Statuses
  <2> QED BY <1>3, <2>1, <2>2, <2>3 DEF Live
<1>5. monitors' \in [Monitors -> MonitorRows]
  <2>1. \A j \in Monitors : monitors'[j] \in MonitorRows
    BY <1>1, <1>4 DEF TablesTyped
  <2>2. monitors' = [j \in Monitors |-> monitors'[j]]
    BY <1>1, <1>2, <1>3 DEF Archived, TablesTyped
  <2> QED BY <2>1, <2>2
<1>6. LegacyNamesDiffer => KeysDiffer(monitors')
  <2>1. Live(monitors') \subseteq Live(monitors)
    BY <1>4
  <2>2. \A j \in Live(monitors') : monitors'[j].name = monitors[j].name
    BY <1>3, <1>4 DEF Live
  <2>3. LegacyNamesDiffer => KeysDiffer(monitors)
    BY <1>1 DEF NamesInv, NamesApart, NamesDiffer
  <2> QED BY <2>1, <2>2, <2>3, KeysFewer
<1>7. \A r \in Rules :
        /\ rules'[r] \in RuleRows
        /\ rules'[r].status = "active" =>
             /\ rules[r].status = "active"
             /\ RuleNamesDiffer(rules) => rules'[r].name = rules[r].name
             /\ rules'[r].channels = rules[r].channels
             /\ rules'[r].monitors \subseteq rules[r].monitors \ {i}
             /\ rules'[r].monitors # {}
  <2> TAKE r \in Rules
  <2>1. rules[r] \in RuleRows
    BY <1>1 DEF TablesTyped
  <2>2. CASE r \in Live(rules) /\ i \in rules[r].monitors
    <3> DEFINE ms == rules[r].monitors \ {i}
    <3>1. rules'[r] = WithMonitors(r, ms)
      BY <1>2, <2>2
    <3>2. ms \subseteq rules[r].monitors
      OBVIOUS
    <3>3. rules[r].status = "active" /\ r \in Live(rules)
      BY <2>2 DEF Live
    <3> HIDE DEF ms
    <3>4. /\ WithMonitors(r, ms) \in RuleRows
          /\ WithMonitors(r, ms).status = (IF ms = {} THEN "archived" ELSE "active")
          /\ RuleNamesDiffer(rules) => WithMonitors(r, ms).name = rules[r].name
          /\ WithMonitors(r, ms).monitors = ms
          /\ WithMonitors(r, ms).channels = rules[r].channels
      BY <1>1, <3>2, <3>3, FewerMonitors
    <3> QED BY <3>1, <3>3, <3>4 DEF ms
  <2>3. CASE ~(r \in Live(rules) /\ i \in rules[r].monitors)
    <3>1. rules'[r] = rules[r]
      BY <1>2, <2>3
    <3>2. rules[r].status = "active" => i \notin rules[r].monitors /\ rules[r].monitors # {}
      BY <1>1, <1>2, <2>3 DEF Live, TablesTyped, ConfInv, RunnableRules
    <3> QED BY <2>1, <3>1, <3>2
  <2> QED BY <2>2, <2>3
<1>8. DOMAIN rules = Rules /\ DOMAIN rules' = Rules /\ rules' \in [Rules -> RuleRows]
  BY <1>1, <1>2, <1>7 DEF TablesTyped
<1>9. \A r \in Live(rules') :
        /\ r \in Live(rules)
        /\ RuleNamesDiffer(rules) => rules'[r].name = rules[r].name
        /\ rules'[r].channels = rules[r].channels
        /\ rules'[r].monitors \subseteq rules[r].monitors \ {i}
        /\ rules'[r].monitors # {}
  BY <1>7, <1>8 DEF Live
<1>10. LegacyNamesDiffer => RuleNamesDiffer(rules')
  BY <1>1, <1>9, RulesFewer DEF NamesInv, NamesApart, NamesDiffer
<1>11. TablesInv' /\ RunnableRules' /\ FormsSound'
  <2>1. TablesTyped' /\ NamesInv'
    BY <1>1, <1>2, <1>5, <1>6, <1>8, <1>10 DEF TablesTyped, NamesInv, NamesApart, NamesDiffer
  <2>2. RulesNotify' /\ DefaultTemplate \in Live(templates')
    BY <1>2, <1>9 DEF ConfInv, TablesInv, RulesNotify
  <2>3. \A r \in Live(rules) : rules[r].monitors \subseteq Live(monitors)
    BY <1>2 DEF ConfInv, RunnableRules
  <2>4. RunnableRules'
    BY <1>4, <1>9, <2>3 DEF RunnableRules
  <2>5. FormsSound'
    BY <1>2 DEF ConfInv, FormsSound
  <2> QED BY <2>1, <2>2, <2>4, <2>5 DEF TablesInv
<1>12. ProxyKept /\ LetGo
  <2>1. \A m \in Live(monitors') : m \in Live(monitors) /\ monitors'[m] = monitors[m]
    BY <1>3, <1>4 DEF Live
  <2> QED BY <1>2, <1>4, <1>9, <2>1 DEF ProxyKept, LetGo
<1> QED BY <1>11, <1>12 DEF ConfInv

\* Every step of the configuration.
LEMMA ConfStep ==
  ASSUME ConfInv, ConfNext
  PROVE  ConfInv' /\ ProxyKept /\ LetGo
BY StartStep, CrashStep, SubmitStep, WriteStep, DeleteProxyStep, DeleteChannelStep,
   DeleteTemplateStep, DeleteMonitorStep, DeleteRuleStep DEF ConfNext, Delete

-----------------------------------------------------------------------------
(* Exporting.                                                                 *)

LEMMA ExportedKeyed ==
  ASSUME NEW ids, NEW t \in [ids -> KeyedRows], NEW full, KeysDiffer(t)
  PROVE  /\ ItemsOf(Exported(Rows(t), full), ids, KeyedItems)
         /\ DOMAIN Exported(Rows(t), full) = Live(t)
         /\ KeysDiffer(Exported(Rows(t), full))
<1> DEFINE u == Exported(Rows(t), full)
<1>1. DOMAIN u = Live(t) /\ Live(t) \subseteq ids
  BY DEF Exported, Rows, Live
<1>2. \A i \in Live(t) : u[i] \in KeyedItems /\ u[i].name = t[i].name
  <2> TAKE i \in Live(t)
  <2>1. t[i] \in KeyedRows /\ t[i].status = "active"
    BY DEF Live
  <2>2. u[i] = (IF full \/ t[i].secret = None THEN t[i] ELSE [t[i] EXCEPT !.secret = Hidden])
    BY DEF Exported, Rows
  <2> HIDE DEF u
  <2> QED BY <2>1, <2>2 DEF KeyedRows, KeyedItems
<1> HIDE DEF u
<1>3. Live(u) \subseteq Live(t)
  BY <1>1 DEF Live
<1>4. KeysDiffer(u)
  BY <1>1, <1>2, <1>3, KeysFewer
<1> QED BY <1>1, <1>2, <1>4 DEF ItemsOf, u

LEMMA NormalMonitorTyped ==
  ASSUME NEW m \in MonitorRows
  PROVE  /\ NormalMonitor(m) \in MonitorRows
         /\ NormalMonitor(m).status = m.status /\ NormalMonitor(m).name = m.name
         /\ NormalMonitor(m).proxy \in Live(proxies) \cup {None}
         /\ NormalMonitor(m).channels \subseteq Live(channels)
<1> DEFINE cs == m.channels \cap Live(channels)
           known == m.proxy \in Live(proxies) \cup {None}
<1>1. NormalMonitor(m) =
        [m EXCEPT !.proxy = IF known THEN m.proxy ELSE None,
                  !.enabled = m.enabled /\ known,
                  !.channels = cs, !.alert = m.alert /\ cs # {}]
  BY DEF NormalMonitor
<1>2. cs \subseteq m.channels /\ cs \subseteq Live(channels)
  OBVIOUS
<1>3. (IF known THEN m.proxy ELSE None) \in (Live(proxies) \cap {m.proxy}) \cup {None}
  OBVIOUS
<1> HIDE DEF cs, known
<1>4. /\ NormalMonitor(m).status = m.status /\ NormalMonitor(m).name = m.name
      /\ NormalMonitor(m).proxy \in Live(proxies) \cup {None}
      /\ NormalMonitor(m).channels \subseteq Live(channels)
  BY <1>1, <1>2, <1>3 DEF MonitorRows
<1>5. NormalMonitor(m) \in MonitorRows
  BY <1>1, <1>2, <1>3 DEF MonitorRows
<1> QED BY <1>4, <1>5

LEMMA ExportedMonitors ==
  ASSUME TablesTyped, KeysDiffer(monitors), NEW full
  PROVE  LET u == Exported([m \in Live(monitors) |-> NormalMonitor(monitors[m])], full) IN
         /\ ItemsOf(u, Monitors, MonitorItems) /\ DOMAIN u = Live(monitors)
         /\ KeysDiffer(u)
         /\ \A m \in DOMAIN u : /\ u[m].proxy \in Live(proxies) \cup {None}
                                /\ u[m].channels \subseteq Live(channels)
<1> DEFINE n == [m \in Live(monitors) |-> NormalMonitor(monitors[m])]
           u == Exported(n, full)
<1>1. DOMAIN u = Live(monitors) /\ Live(monitors) \subseteq Monitors
  BY DEF Exported, Live, TablesTyped
<1>2. \A m \in Live(monitors) :
        /\ u[m] \in MonitorItems /\ u[m].name = monitors[m].name
        /\ u[m].proxy \in Live(proxies) \cup {None}
        /\ u[m].channels \subseteq Live(channels)
  <2> TAKE m \in Live(monitors)
  <2>1. monitors[m] \in MonitorRows /\ monitors[m].status = "active"
    BY DEF Live, TablesTyped
  <2>2. /\ n[m] \in MonitorRows
        /\ n[m].status = "active" /\ n[m].name = monitors[m].name
        /\ n[m].proxy \in Live(proxies) \cup {None}
        /\ n[m].channels \subseteq Live(channels)
    BY <2>1, NormalMonitorTyped
  <2>3. u[m] = (IF full \/ n[m].secret = None THEN n[m] ELSE [n[m] EXCEPT !.secret = Hidden])
    BY DEF Exported
  <2> HIDE DEF u, n
  <2> QED BY <2>2, <2>3 DEF MonitorRows, MonitorItems
<1> HIDE DEF u, n
<1>3. Live(u) \subseteq Live(monitors)
  BY <1>1 DEF Live
<1>4. KeysDiffer(u)
  BY <1>1, <1>2, <1>3, KeysFewer
<1> QED BY <1>1, <1>2, <1>4 DEF ItemsOf, u, n

LEMMA ExportedRules ==
  ASSUME TablesTyped, RuleNamesDiffer(rules)
  PROVE  LET u == [r \in KeptRules |-> NormalRule(rules[r])] IN
         /\ ItemsOf(u, Rules, RuleItems)
         /\ RuleNamesDiffer(u)
         /\ \A r \in DOMAIN u : /\ u[r].monitors \subseteq Live(monitors)
                                /\ u[r].channels \subseteq Live(channels)
                                /\ u[r].template \in Live(templates) \cup {None}
<1> DEFINE u == [r \in KeptRules |-> NormalRule(rules[r])]
<1>1. DOMAIN u = KeptRules /\ KeptRules \subseteq Live(rules) /\ Live(rules) \subseteq Rules
  BY DEF KeptRules, Live, TablesTyped
<1>2. \A r \in KeptRules :
        /\ u[r] \in RuleItems /\ u[r].name = rules[r].name
        /\ u[r].monitors = rules[r].monitors \cap Live(monitors)
        /\ u[r].channels \subseteq Live(channels)
        /\ u[r].template \in Live(templates) \cup {None}
  <2> TAKE r \in KeptRules
  <2>1. rules[r] \in RuleRows /\ rules[r].status = "active"
    BY <1>1 DEF Live, TablesTyped
  <2>2. /\ NormalRule(rules[r]) \in RuleRows
        /\ NormalRule(rules[r]).status = "active"
        /\ NormalRule(rules[r]).name = rules[r].name
        /\ NormalRule(rules[r]).monitors = rules[r].monitors \cap Live(monitors)
        /\ NormalRule(rules[r]).channels \subseteq Live(channels)
        /\ NormalRule(rules[r]).template \in Live(templates) \cup {None}
    BY <2>1 DEF NormalRule, RuleRows
  <2>3. NormalRule(rules[r]).monitors # {} /\ NormalRule(rules[r]).channels # {}
    BY DEF KeptRules
  <2> QED BY <2>2, <2>3 DEF RuleItems
<1> HIDE DEF u
<1>3. Live(u) \subseteq Live(rules)
  BY <1>1 DEF Live
<1>4. RuleNamesDiffer(u)
  <2>1. \A r \in Live(u) : r \in KeptRules
    BY <1>1 DEF Live
  <2> QED BY <2>1, <1>2, <1>3, RulesFewer
<1> QED BY <1>1, <1>2, <1>4 DEF ItemsOf, u

\* What is exported can be imported.
LEMMA SnapshotValid ==
  ASSUME TablesInv, NEW full,
         NamesDiffer(proxies, channels, templates, monitors, rules)
  PROVE  Valid(ConfigSnapshot(full))
<1> DEFINE b == ConfigSnapshot(full)
<1>1. TablesTyped /\ NamesDiffer(proxies, channels, templates, monitors, rules)
  BY DEF TablesInv
<1>2. /\ b.proxies = Exported(Rows(proxies), full)
      /\ b.channels = Exported(Rows(channels), full)
      /\ b.templates = Rows(templates)
      /\ b.monitors = Exported([m \in Live(monitors) |-> NormalMonitor(monitors[m])], full)
      /\ b.rules = [r \in KeptRules |-> NormalRule(rules[r])]
  BY DEF ConfigSnapshot
<1> HIDE DEF b
<1>3. /\ ItemsOf(b.proxies, Proxies, KeyedItems) /\ DOMAIN b.proxies = Live(proxies)
      /\ KeysDiffer(b.proxies)
  BY <1>1, <1>2, ExportedKeyed DEF TablesTyped, NamesDiffer
<1>4. /\ ItemsOf(b.channels, Channels, KeyedItems) /\ DOMAIN b.channels = Live(channels)
      /\ KeysDiffer(b.channels)
  BY <1>1, <1>2, ExportedKeyed DEF TablesTyped, NamesDiffer
<1>5. /\ ItemsOf(b.templates, Templates, KeyedItems) /\ DOMAIN b.templates = Live(templates)
      /\ KeysDiffer(b.templates)
  <2>1. Exported(Rows(templates), TRUE) = Rows(templates)
    BY DEF Exported, Rows
  <2>2. templates \in [Templates -> KeyedRows] /\ KeysDiffer(templates)
    BY <1>1 DEF TablesTyped, NamesDiffer
  <2>3. /\ ItemsOf(Exported(Rows(templates), TRUE), Templates, KeyedItems)
        /\ DOMAIN Exported(Rows(templates), TRUE) = Live(templates)
        /\ KeysDiffer(Exported(Rows(templates), TRUE))
    BY <2>2, ExportedKeyed
  <2> QED BY <1>2, <2>1, <2>3
<1>6. /\ ItemsOf(b.monitors, Monitors, MonitorItems) /\ DOMAIN b.monitors = Live(monitors)
      /\ KeysDiffer(b.monitors)
      /\ \A m \in DOMAIN b.monitors :
           /\ b.monitors[m].proxy \in Live(proxies) \cup {None}
           /\ b.monitors[m].channels \subseteq Live(channels)
  BY <1>1, <1>2, ExportedMonitors DEF NamesDiffer
<1>7. /\ ItemsOf(b.rules, Rules, RuleItems) /\ RuleNamesDiffer(b.rules)
      /\ \A r \in DOMAIN b.rules : /\ b.rules[r].monitors \subseteq Live(monitors)
                                   /\ b.rules[r].channels \subseteq Live(channels)
                                   /\ b.rules[r].template \in Live(templates) \cup {None}
  BY <1>1, <1>2, ExportedRules DEF NamesDiffer
<1>8. SelfContained(b)
  BY <1>3, <1>4, <1>5, <1>6, <1>7 DEF SelfContained
<1> QED BY <1>3, <1>4, <1>5, <1>6, <1>7, <1>8 DEF Valid, NamesDiffer, TablesInv, b

LEMMA ExportStep ==
  ASSUME ConfInv, BackupInv, NEW full \in BOOLEAN, ExportConfig(full)
  PROVE  ConfInv' /\ BackupInv' /\ ProxyKept /\ LetGo
<1>1. /\ UNCHANGED tables /\ forms' = forms /\ up' = up
      /\ backup' = ConfigSnapshot(full)
      /\ NamesDiffer(proxies, channels, templates, monitors, rules)
  BY DEF ExportConfig
<1>2. FormsSound'
  BY <1>1 DEF ConfInv, FormsSound
<1>3. Valid(backup')
  <2>1. Valid(ConfigSnapshot(full))
    BY <1>1, SnapshotValid DEF ConfInv
  <2> QED BY <1>1, <2>1
<1> QED BY <1>1, <1>2, <1>3, TablesKept DEF BackupInv

-----------------------------------------------------------------------------
(* Merging items into a table.                                                *)

\* Different items go to different rows.
Injective(f, items) == \A j, k \in DOMAIN items : f[j] = f[k] => j = k

LEMMA MergedAt ==
  ASSUME NEW t, NEW f, NEW items, Injective(f, items),
         NEW j \in DOMAIN items, f[j] \in DOMAIN t
  PROVE  MergedTable(t, f, items)[f[j]] = MergedRow(items[j], t[f[j]])
<1>1. (CHOOSE k \in DOMAIN items : f[k] = f[j]) = j
  BY DEF Injective
<1> QED BY <1>1 DEF MergedTable

LEMMA MergedElsewhere ==
  ASSUME NEW t, NEW f, NEW items, NEW i \in DOMAIN t,
         \A j \in DOMAIN items : f[j] # i
  PROVE  MergedTable(t, f, items)[i] = t[i]
BY DEF MergedTable

\* The table after the merge: u.
LEMMA MergedKeys ==
  ASSUME NEW t, NEW f, NEW items, NEW u, u = MergedTable(t, f, items),
         KeysDiffer(items), Injective(f, items),
         \A j \in DOMAIN items :
           /\ items[j].status = "active" /\ f[j] \in DOMAIN t
           /\ MergedRow(items[j], t[f[j]]).status = "active"
           /\ MergedRow(items[j], t[f[j]]).name = items[j].name,
         \A j \in DOMAIN items, i \in Live(t) :
           t[i].name = items[j].name => \E k \in DOMAIN items : f[k] = i
  PROVE  /\ DOMAIN u = DOMAIN t
         /\ Live(t) \subseteq Live(u)
         /\ \A j \in DOMAIN items : /\ f[j] \in Live(u)
                                    /\ u[f[j]].name = items[j].name
         /\ KeysDiffer(t) => KeysDiffer(u)
<1>1. DOMAIN u = DOMAIN t
  BY DEF MergedTable
<1>2. \A j \in DOMAIN items : u[f[j]].status = "active" /\ u[f[j]].name = items[j].name
  BY MergedAt
<1>3. \A i \in DOMAIN t : u[i] = t[i] \/ \E j \in DOMAIN items : f[j] = i
  BY MergedElsewhere
<1>4. Live(t) \subseteq Live(u)
  BY <1>1, <1>2, <1>3 DEF Live
<1>5. \A j \in DOMAIN items : f[j] \in Live(u)
  BY <1>1, <1>2 DEF Live
<1>6. ASSUME KeysDiffer(t), NEW a \in Live(u), NEW b \in Live(u) \ {a}, u[b].name = u[a].name
      PROVE  FALSE
  <2>1. CASE \E j, k \in DOMAIN items : f[j] = a /\ f[k] = b
    <3>1. PICK j \in DOMAIN items, k \in DOMAIN items : f[j] = a /\ f[k] = b
      BY <2>1
    <3>2. items[j].name = items[k].name /\ j # k /\ j \in Live(items) /\ k \in Live(items)
      BY <1>2, <1>6, <3>1 DEF Live
    <3> QED BY <3>2 DEF KeysDiffer, Taken
  <2>2. ASSUME NEW x \in Live(u), NEW y \in Live(u), u[x].name = u[y].name,
               \E j \in DOMAIN items : f[j] = x, ~\E j \in DOMAIN items : f[j] = y
        PROVE  FALSE
    <3>1. PICK j \in DOMAIN items : f[j] = x
      BY <2>2
    <3>2. y \in Live(t) /\ t[y].name = items[j].name
      BY <1>1, <1>2, <1>3, <2>2, <3>1 DEF Live
    <3> QED BY <2>2, <3>2
  <2>3. CASE ~(\E j \in DOMAIN items : f[j] = a) /\ ~(\E j \in DOMAIN items : f[j] = b)
    <3>1. /\ a \in Live(t) /\ b \in Live(t) \ {a} /\ t[b].name = t[a].name
      BY <1>1, <1>3, <1>6, <2>3 DEF Live
    <3> QED BY <1>6, <3>1 DEF KeysDiffer, Taken
  <2> QED BY <1>6, <2>1, <2>2, <2>3
<1>7. KeysDiffer(t) => KeysDiffer(u)
  BY <1>6 DEF KeysDiffer, Taken
<1> QED BY <1>1, <1>2, <1>4, <1>5, <1>7

LEMMA KeyedMerged ==
  ASSUME NEW item \in KeyedItems, NEW row \in KeyedRows
  PROVE  /\ MergedRow(item, row) \in KeyedRows
         /\ MergedRow(item, row).status = "active"
         /\ MergedRow(item, row).name = item.name
<1>1. CASE item.secret = Hidden
  BY <1>1 DEF MergedRow, KeyedItems, KeyedRows, Statuses
<1>2. CASE item.secret # Hidden
  BY <1>2 DEF MergedRow, KeyedItems, KeyedRows, Statuses
<1> QED BY <1>1, <1>2

LEMMA MonitorMerged ==
  ASSUME NEW item \in MonitorItems, NEW row \in MonitorRows
  PROVE  /\ MergedRow(item, row) \in MonitorRows
         /\ MergedRow(item, row).status = "active"
         /\ MergedRow(item, row).name = item.name
         /\ MergedRow(item, row).proxy = item.proxy
         /\ MergedRow(item, row).channels = item.channels
<1>1. CASE item.secret = Hidden
  BY <1>1 DEF MergedRow, MonitorItems, MonitorRows, Statuses
<1>2. CASE item.secret # Hidden
  BY <1>2 DEF MergedRow, MonitorItems, MonitorRows, Statuses
<1> QED BY <1>1, <1>2

-----------------------------------------------------------------------------
(* Merging rules, the last id first.                                          *)

\* A non-empty set of numbers has a least element.
LEMMA LeastIndex ==
  ASSUME NEW S \in SUBSET Nat, S # {}
  PROVE  \E j \in S : \A i \in S : j <= i
<1> DEFINE R == {ss \in Nat \X Nat : ss[1] < ss[2]}
<1>1. R = OpToRel(<, Nat)
  BY DEF OpToRel
<1>2. IsWellFoundedOn(R, Nat)
  BY <1>1, NatLessThanWellFounded
<1>3. PICK x \in S : \A y \in S : ~(<<y, x>> \in R)
  <2> HIDE DEF R
  <2> QED BY <1>2, WFMin
<1>4. \A y \in S : x <= y
  <2> TAKE y \in S
  <2>1. x \in Nat /\ y \in Nat
    OBVIOUS
  <2>2. ~(y < x)
    BY <1>3, <2>1
  <2> QED BY <2>1, <2>2
<1> QED BY <1>4

\* The items that were merged before item k are those of greater ids.
LEMMA RuleNowItem ==
  ASSUME NEW items, DOMAIN items \subseteq Nat, NEW rf, NEW k \in Nat, NEW r,
         \E j \in DOMAIN items : j > k /\ rf[j] = r
  PROVE  \E j \in DOMAIN items :
           j > k /\ rf[j] = r /\ RuleNow(items, rf, k, r) = items[j]
<1> DEFINE before == {j \in DOMAIN items : j > k /\ rf[j] = r}
           last == CHOOSE j \in before : \A i \in before : j <= i
<1>1. before \in SUBSET Nat /\ before # {}
  OBVIOUS
<1>2. RuleNow(items, rf, k, r) = items[last]
  BY <1>1 DEF RuleNow
<1>3. last \in before
  <2>1. \E j \in before : \A i \in before : j <= i
    <3> HIDE DEF before
    <3> QED BY <1>1, LeastIndex
  <2> QED BY <2>1
<1> QED BY <1>2, <1>3

LEMMA RuleNowRow ==
  ASSUME NEW items, NEW rf, NEW k, NEW r,
         ~\E j \in DOMAIN items : j > k /\ rf[j] = r
  PROVE  RuleNow(items, rf, k, r) = rules[r]
BY DEF RuleNow

\* No two items of a backup are merged into the same rule: the later one finds
\* a rule only if the earlier one had its name and one of its monitors.
LEMMA RulesInjective ==
  ASSUME NEW items, DOMAIN items \subseteq Rules, NEW rf, RuleMap(items, rf),
         \A k \in DOMAIN items : items[k].status = "active", RuleNamesDiffer(items)
  PROVE  Injective(rf, items)
<1>1. DOMAIN items \subseteq Nat
  BY IdsAssumption
<1>2. ASSUME NEW k \in DOMAIN items, NEW j \in DOMAIN items, j > k, rf[j] = rf[k]
      PROVE  FALSE
  <2>1. RuleMatches(items, rf, k) # {} /\ rf[k] \in RuleMatches(items, rf, k)
    BY <1>2 DEF RuleMap
  <2>2. /\ RuleNow(items, rf, k, rf[k]).name = items[k].name
        /\ RuleNow(items, rf, k, rf[k]).monitors \cap items[k].monitors # {}
    BY <2>1 DEF RuleMatches
  <2>3. PICK i \in DOMAIN items : i > k /\ RuleNow(items, rf, k, rf[k]) = items[i]
    BY <1>1, <1>2, RuleNowItem
  <2>4. i # k
    BY <1>1, <2>3
  <2> QED BY <2>2, <2>3, <2>4 DEF RuleNamesDiffer, Overlaps, Live
<1> QED BY <1>1, <1>2 DEF Injective

\* What the rules are after the merge: u.
LEMMA MergedRules ==
  ASSUME NEW items, DOMAIN items \subseteq Rules,
         NEW rf \in [DOMAIN items -> Rules], RuleMap(items, rf),
         \A k \in DOMAIN items : items[k].status = "active",
         RuleNamesDiffer(items), DOMAIN rules = Rules,
         NEW u, u = [r \in Rules |-> RuleNow(items, rf, 0, r)]
  PROVE  /\ Live(rules) \subseteq Live(u)
         /\ \A k \in DOMAIN items : rf[k] \in Live(u) /\ u[rf[k]] = items[k]
         /\ \A r \in Rules : u[r] = rules[r] \/ \E k \in DOMAIN items : rf[k] = r
         /\ RuleNamesDiffer(rules) => RuleNamesDiffer(u)
<1>1. DOMAIN items \subseteq Nat /\ \A k \in DOMAIN items : k > 0
  <2>1. \A k \in Rules : k \in Nat /\ k > 0
    BY IdsAssumption
  <2> QED BY <2>1
<1>2. Injective(rf, items)
  BY RulesInjective
<1>3. \A k \in DOMAIN items : u[rf[k]] = items[k]
  <2> TAKE k \in DOMAIN items
  <2>1. PICK j \in DOMAIN items : rf[j] = rf[k] /\ RuleNow(items, rf, 0, rf[k]) = items[j]
    BY <1>1, RuleNowItem
  <2> QED BY <1>2, <2>1 DEF Injective
<1>4. \A r \in Rules : ~(\E k \in DOMAIN items : rf[k] = r) => u[r] = rules[r]
  BY RuleNowRow
<1>5. /\ Live(rules) \subseteq Live(u)
      /\ \A k \in DOMAIN items : rf[k] \in Live(u)
  <2>1. DOMAIN u = Rules
    OBVIOUS
  <2>2. \A k \in DOMAIN items : rf[k] \in Live(u)
    BY <1>3, <2>1 DEF Live
  <2>3. ASSUME NEW r \in Live(rules)
        PROVE  r \in Live(u)
    <3>1. r \in Rules /\ rules[r].status = "active"
      BY DEF Live
    <3>2. CASE \E k \in DOMAIN items : rf[k] = r
      BY <2>2, <3>2
    <3>3. CASE ~\E k \in DOMAIN items : rf[k] = r
      BY <1>4, <2>1, <3>1, <3>3 DEF Live
    <3> QED BY <3>2, <3>3
  <2> QED BY <2>2, <2>3
<1>6. ASSUME NEW k \in DOMAIN items, NEW s \in Live(rules),
             ~\E j \in DOMAIN items : rf[j] = s,
             rules[s].name = items[k].name, rules[s].monitors \cap items[k].monitors # {}
      PROVE  FALSE
  <2>1. RuleNow(items, rf, k, s) = rules[s] /\ rules[s].status = "active" /\ s \in Rules
    BY <1>6, RuleNowRow DEF Live
  <2>2. s \in RuleMatches(items, rf, k)
    BY <1>6, <2>1 DEF RuleMatches
  <2>3. rf[k] \in RuleMatches(items, rf, k) /\ Single(RuleMatches(items, rf, k))
    BY <2>2 DEF RuleMap
  <2> QED BY <1>6, <2>2, <2>3 DEF Single
<1>7. ASSUME RuleNamesDiffer(rules), NEW r \in Live(u), NEW s \in Live(u) \ {r},
             u[s].name = u[r].name, u[s].monitors \cap u[r].monitors # {}
      PROVE  FALSE
  <2>1. r \in Rules /\ s \in Rules
    BY DEF Live
  <2>2. CASE \E k, j \in DOMAIN items : rf[k] = r /\ rf[j] = s
    <3>1. PICK k \in DOMAIN items, j \in DOMAIN items : rf[k] = r /\ rf[j] = s
      BY <2>2
    <3>2. u[r] = items[k] /\ u[s] = items[j] /\ j # k
      BY <1>3, <3>1
    <3> QED BY <1>7, <3>2 DEF RuleNamesDiffer, Overlaps, Live
  <2>3. ASSUME NEW x \in Live(u), NEW y \in Live(u), u[x].name = u[y].name,
               u[x].monitors \cap u[y].monitors # {},
               \E k \in DOMAIN items : rf[k] = x, ~\E k \in DOMAIN items : rf[k] = y
        PROVE  FALSE
    <3>1. PICK k \in DOMAIN items : rf[k] = x
      BY <2>3
    <3>2. u[x] = items[k] /\ u[y] = rules[y] /\ y \in Live(rules)
      BY <1>3, <1>4, <2>3, <3>1 DEF Live
    <3> QED BY <1>6, <2>3, <3>2
  <2>4. CASE ~(\E k \in DOMAIN items : rf[k] = r) /\ ~(\E k \in DOMAIN items : rf[k] = s)
    <3>1. /\ u[r] = rules[r] /\ r \in Live(rules)
          /\ u[s] = rules[s] /\ s \in Live(rules)
      BY <1>4, <2>1, <2>4 DEF Live
    <3> QED BY <1>7, <3>1 DEF RuleNamesDiffer, Overlaps
  <2> QED BY <1>7, <2>2, <2>3, <2>4
<1>8. RuleNamesDiffer(rules) => RuleNamesDiffer(u)
  BY <1>7 DEF RuleNamesDiffer, Overlaps
<1> QED BY <1>3, <1>4, <1>5, <1>8

-----------------------------------------------------------------------------
(* The import.                                                                *)

\* The maps of one import: what pf, cf, tf, mf and rf are in it.
MonitorsFound(cf, pf) ==
  [j \in DOMAIN backup.monitors |-> ImportedMonitor(backup.monitors[j], cf, pf)]

RulesFound(mf, cf, tf) ==
  [k \in DOMAIN backup.rules |-> ImportedRule(backup.rules[k], mf, cf, tf)]

Merge(pf, cf, tf, mf, rf) ==
  /\ pf \in [DOMAIN backup.proxies -> Proxies]
  /\ cf \in [DOMAIN backup.channels -> Channels]
  /\ tf \in [DOMAIN backup.templates -> Templates]
  /\ mf \in [DOMAIN backup.monitors -> Monitors]
  /\ rf \in [DOMAIN RulesFound(mf, cf, tf) -> Rules]
  /\ IdMap(pf, backup.proxies, proxies,
           [j \in DOMAIN backup.proxies |-> Matches(proxies, backup.proxies[j])])
  /\ IdMap(cf, backup.channels, channels,
           [j \in DOMAIN backup.channels |-> Matches(channels, backup.channels[j])])
  /\ IdMap(tf, backup.templates, templates,
           [j \in DOMAIN backup.templates |-> TemplateMatches(j, backup.templates[j])])
  /\ IdMap(mf, backup.monitors, monitors,
           [j \in DOMAIN backup.monitors |-> Matches(monitors, backup.monitors[j])])
  /\ RuleMap(RulesFound(mf, cf, tf), rf)
  /\ proxies' = MergedTable(proxies, pf, backup.proxies)
  /\ channels' = MergedTable(channels, cf, backup.channels)
  /\ templates' = MergedTable(templates, tf, backup.templates)
  /\ monitors' = MergedTable(monitors, mf, MonitorsFound(cf, pf))
  /\ rules' = [r \in Rules |-> RuleNow(RulesFound(mf, cf, tf), rf, 0, r)]

LEMMA ImportMaps ==
  ASSUME ImportConfigMerge
  PROVE  /\ up /\ backup # NoBackup /\ DefaultNameFree
         /\ UNCHANGED <<forms, up, backup>>
         /\ \E pf, cf, tf, mf, rf : Merge(pf, cf, tf, mf, rf)
<1>1. /\ up /\ backup # NoBackup /\ DefaultNameFree
      /\ UNCHANGED <<forms, up, backup>>
  BY DEF ImportConfigMerge
<1>2. \E pf, cf, tf, mf, rf : Merge(pf, cf, tf, mf, rf)
  <2>1. PICK pf \in [DOMAIN backup.proxies -> Proxies],
             cf \in [DOMAIN backup.channels -> Channels],
             tf \in [DOMAIN backup.templates -> Templates],
             mf \in [DOMAIN backup.monitors -> Monitors] :
          /\ IdMap(pf, backup.proxies, proxies,
                   [j \in DOMAIN backup.proxies |-> Matches(proxies, backup.proxies[j])])
          /\ IdMap(cf, backup.channels, channels,
                   [j \in DOMAIN backup.channels |-> Matches(channels, backup.channels[j])])
          /\ IdMap(tf, backup.templates, templates,
                   [j \in DOMAIN backup.templates |->
                      TemplateMatches(j, backup.templates[j])])
          /\ IdMap(mf, backup.monitors, monitors,
                   [j \in DOMAIN backup.monitors |-> Matches(monitors, backup.monitors[j])])
          /\ /\ \E rf \in [DOMAIN RulesFound(mf, cf, tf) -> Rules] :
                  /\ RuleMap(RulesFound(mf, cf, tf), rf)
                  /\ rules' = [r \in Rules |-> RuleNow(RulesFound(mf, cf, tf), rf, 0, r)]
             /\ monitors' = MergedTable(monitors, mf, MonitorsFound(cf, pf))
          /\ proxies' = MergedTable(proxies, pf, backup.proxies)
          /\ channels' = MergedTable(channels, cf, backup.channels)
          /\ templates' = MergedTable(templates, tf, backup.templates)
    BY Zenon DEF ImportConfigMerge, MonitorsFound, RulesFound
  <2>2. PICK rf \in [DOMAIN RulesFound(mf, cf, tf) -> Rules] :
          /\ RuleMap(RulesFound(mf, cf, tf), rf)
          /\ rules' = [r \in Rules |-> RuleNow(RulesFound(mf, cf, tf), rf, 0, r)]
    BY <2>1
  <2>3. Merge(pf, cf, tf, mf, rf)
    BY <2>1, <2>2, Zenon DEF Merge
  <2> QED BY <2>3
<1> QED BY <1>1, <1>2

\* A table of rows with a key: every item gets a row of its own, a row with the
\* same key if there is one.
LEMMA KeyedMerge ==
  ASSUME NEW ids, NEW t \in [ids -> KeyedRows],
         NEW items, ItemsOf(items, ids, KeyedItems), KeysDiffer(items),
         NEW f \in [DOMAIN items -> ids], NEW match, IdMap(f, items, t, match),
         \A j \in DOMAIN items, i \in Live(t) :
           t[i].name = items[j].name =>
             i \in match[j] \/ \E k \in DOMAIN items : f[k] = i,
         NEW u, u = MergedTable(t, f, items)
  PROVE  /\ u \in [ids -> KeyedRows] /\ Live(t) \subseteq Live(u)
         /\ KeysDiffer(t) => KeysDiffer(u)
         /\ \A j \in DOMAIN items : f[j] \in Live(u) /\ u[f[j]].name = items[j].name
         /\ Injective(f, items)
<1>1. Injective(f, items)
  BY DEF IdMap, Injective
<1>2. \A j \in DOMAIN items :
        /\ items[j] \in KeyedItems /\ items[j].status = "active" /\ f[j] \in DOMAIN t
        /\ MergedRow(items[j], t[f[j]]) \in KeyedRows
        /\ MergedRow(items[j], t[f[j]]).status = "active"
        /\ MergedRow(items[j], t[f[j]]).name = items[j].name
  <2> TAKE j \in DOMAIN items
  <2>1. items[j] \in KeyedItems /\ f[j] \in ids /\ t[f[j]] \in KeyedRows
    BY DEF ItemsOf
  <2>2. items[j].status = "active"
    BY <2>1 DEF KeyedItems
  <2> QED BY <2>1, <2>2, KeyedMerged
<1>3. ASSUME NEW j \in DOMAIN items, NEW i \in Live(t), t[i].name = items[j].name
      PROVE  \E k \in DOMAIN items : f[k] = i
  <2>1. CASE i \in match[j]
    BY <2>1 DEF IdMap, Single
  <2> QED BY <1>3, <2>1
<1>4. /\ DOMAIN u = DOMAIN t /\ Live(t) \subseteq Live(u)
      /\ KeysDiffer(t) => KeysDiffer(u)
      /\ \A j \in DOMAIN items : f[j] \in Live(u) /\ u[f[j]].name = items[j].name
  BY <1>1, <1>2, <1>3, MergedKeys
<1>5. \A i \in ids : u[i] \in KeyedRows
  <2> TAKE i \in ids
  <2>1. CASE \E j \in DOMAIN items : f[j] = i
    <3>1. PICK j \in DOMAIN items : f[j] = i
      BY <2>1
    <3>2. u[i] = MergedRow(items[j], t[f[j]])
      BY <1>1, <1>2, <3>1, MergedAt
    <3> QED BY <1>2, <3>2
  <2>2. CASE ~\E j \in DOMAIN items : f[j] = i
    BY <2>2, MergedElsewhere
  <2> QED BY <2>1, <2>2
<1>6. u = [i \in ids |-> u[i]]
  BY DEF MergedTable
<1> QED BY <1>1, <1>4, <1>5, <1>6

\* The proxies, channels and templates after an import.
KeyedAfter(pf, cf, tf) ==
  /\ /\ proxies' \in [Proxies -> KeyedRows]
     /\ KeysDiffer(proxies) => KeysDiffer(proxies')
     /\ Live(proxies) \subseteq Live(proxies')
     /\ \A j \in DOMAIN backup.proxies :
          pf[j] \in Live(proxies') /\ proxies'[pf[j]].name = backup.proxies[j].name
  /\ /\ channels' \in [Channels -> KeyedRows]
     /\ KeysDiffer(channels) => KeysDiffer(channels')
     /\ Live(channels) \subseteq Live(channels')
     /\ \A j \in DOMAIN backup.channels :
          cf[j] \in Live(channels') /\ channels'[cf[j]].name = backup.channels[j].name
  /\ /\ templates' \in [Templates -> KeyedRows]
     /\ KeysDiffer(templates) => KeysDiffer(templates')
     /\ Live(templates) \subseteq Live(templates')
     /\ \A j \in DOMAIN backup.templates :
          /\ tf[j] \in Live(templates')
          /\ templates'[tf[j]].name = backup.templates[j].name

LEMMA KeyedTables ==
  ASSUME TablesInv, Valid(backup), DefaultNameFree,
         NEW pf, NEW cf, NEW tf, NEW mf, NEW rf, Merge(pf, cf, tf, mf, rf)
  PROVE  KeyedAfter(pf, cf, tf)
<1>1. /\ proxies \in [Proxies -> KeyedRows] /\ channels \in [Channels -> KeyedRows]
      /\ templates \in [Templates -> KeyedRows]
  BY DEF TablesInv, TablesTyped
<1>2. /\ ItemsOf(backup.proxies, Proxies, KeyedItems)
      /\ ItemsOf(backup.channels, Channels, KeyedItems)
      /\ ItemsOf(backup.templates, Templates, KeyedItems)
      /\ KeysDiffer(backup.proxies) /\ KeysDiffer(backup.channels)
      /\ KeysDiffer(backup.templates)
  BY DEF Valid, NamesDiffer
<1>3. /\ proxies' \in [Proxies -> KeyedRows]
      /\ KeysDiffer(proxies) => KeysDiffer(proxies')
      /\ Live(proxies) \subseteq Live(proxies')
      /\ \A j \in DOMAIN backup.proxies :
           pf[j] \in Live(proxies') /\ proxies'[pf[j]].name = backup.proxies[j].name
  <2> DEFINE match == [j \in DOMAIN backup.proxies |-> Matches(proxies, backup.proxies[j])]
  <2>1. \A j \in DOMAIN backup.proxies, i \in Live(proxies) :
          proxies[i].name = backup.proxies[j].name => i \in match[j]
    BY DEF Matches
  <2>2. /\ pf \in [DOMAIN backup.proxies -> Proxies]
        /\ IdMap(pf, backup.proxies, proxies, match)
        /\ proxies' = MergedTable(proxies, pf, backup.proxies)
    BY DEF Merge
  <2> HIDE DEF match
  <2> QED BY <1>1, <1>2, <2>1, <2>2, KeyedMerge
<1>4. /\ channels' \in [Channels -> KeyedRows]
      /\ KeysDiffer(channels) => KeysDiffer(channels')
      /\ Live(channels) \subseteq Live(channels')
      /\ \A j \in DOMAIN backup.channels :
           cf[j] \in Live(channels') /\ channels'[cf[j]].name = backup.channels[j].name
  <2> DEFINE match == [j \in DOMAIN backup.channels |-> Matches(channels, backup.channels[j])]
  <2>1. \A j \in DOMAIN backup.channels, i \in Live(channels) :
          channels[i].name = backup.channels[j].name => i \in match[j]
    BY DEF Matches
  <2>2. /\ cf \in [DOMAIN backup.channels -> Channels]
        /\ IdMap(cf, backup.channels, channels, match)
        /\ channels' = MergedTable(channels, cf, backup.channels)
    BY DEF Merge
  <2> HIDE DEF match
  <2> QED BY <1>1, <1>2, <2>1, <2>2, KeyedMerge
<1>5. /\ templates' \in [Templates -> KeyedRows]
      /\ KeysDiffer(templates) => KeysDiffer(templates')
      /\ Live(templates) \subseteq Live(templates')
      /\ \A j \in DOMAIN backup.templates :
           /\ tf[j] \in Live(templates')
           /\ templates'[tf[j]].name = backup.templates[j].name
  <2> DEFINE match == [j \in DOMAIN backup.templates |->
                         TemplateMatches(j, backup.templates[j])]
  <2>1. /\ tf \in [DOMAIN backup.templates -> Templates]
        /\ IdMap(tf, backup.templates, templates, match)
        /\ templates' = MergedTable(templates, tf, backup.templates)
    BY DEF Merge
  <2>2. DefaultTemplate \in DOMAIN backup.templates
    BY DEF Valid
  <2>3. tf[DefaultTemplate] = DefaultTemplate
    BY <2>1, <2>2 DEF IdMap, TemplateMatches
  <2>4. ASSUME NEW j \in DOMAIN backup.templates, NEW i \in Live(templates),
               templates[i].name = backup.templates[j].name
        PROVE  i \in match[j] \/ \E k \in DOMAIN backup.templates : tf[k] = i
    <3>1. CASE i = DefaultTemplate
      BY <2>2, <2>3, <3>1
    <3>2. CASE i # DefaultTemplate /\ j = DefaultTemplate
      BY <2>2, <2>4, <3>2 DEF DefaultNameFree, Taken
    <3>3. CASE i # DefaultTemplate /\ j # DefaultTemplate
      BY <2>4, <3>3 DEF TemplateMatches, Matches
    <3> QED BY <3>1, <3>2, <3>3
  <2> HIDE DEF match
  <2> QED BY <1>1, <1>2, <2>1, <2>4, KeyedMerge
<1> QED BY <1>3, <1>4, <1>5 DEF KeyedAfter

\* The monitors after an import, and what they refer to.
MonitorsAfter(mf, cf, pf) ==
  /\ monitors' \in [Monitors -> MonitorRows]
  /\ KeysDiffer(monitors) => KeysDiffer(monitors')
  /\ Live(monitors) \subseteq Live(monitors')
  /\ Injective(mf, backup.monitors)
  /\ \A j \in DOMAIN backup.monitors :
       /\ mf[j] \in Live(monitors')
       /\ monitors'[mf[j]].name = backup.monitors[j].name
       /\ monitors'[mf[j]].proxy =
            (IF backup.monitors[j].proxy = None THEN None
             ELSE pf[backup.monitors[j].proxy])
       /\ monitors'[mf[j]].channels =
            {cf[c] : c \in backup.monitors[j].channels}
  /\ \A m \in Monitors : \/ monitors'[m] = monitors[m]
                         \/ \E j \in DOMAIN backup.monitors : mf[j] = m

LEMMA MonitorTable ==
  ASSUME TablesInv, Valid(backup),
         NEW pf, NEW cf, NEW tf, NEW mf, NEW rf, Merge(pf, cf, tf, mf, rf)
  PROVE  MonitorsAfter(mf, cf, pf)
<1> DEFINE b == backup.monitors
           found == MonitorsFound(cf, pf)
           match == [j \in DOMAIN b |-> Matches(monitors, b[j])]
<1>1. monitors \in [Monitors -> MonitorRows]
  BY DEF TablesInv, TablesTyped
<1>2. /\ ItemsOf(b, Monitors, MonitorItems) /\ KeysDiffer(b)
      /\ \A j \in DOMAIN b : /\ b[j].proxy \in DOMAIN backup.proxies \cup {None}
                             /\ b[j].channels \subseteq DOMAIN backup.channels
  BY DEF Valid, NamesDiffer, SelfContained
<1>3. /\ pf \in [DOMAIN backup.proxies -> Proxies]
      /\ cf \in [DOMAIN backup.channels -> Channels]
      /\ mf \in [DOMAIN b -> Monitors] /\ IdMap(mf, b, monitors, match)
      /\ monitors' = MergedTable(monitors, mf, found)
  BY DEF Merge
<1>4. DOMAIN found = DOMAIN b
  BY DEF MonitorsFound
<1>5. \A j \in DOMAIN b :
        /\ found[j] \in MonitorItems
        /\ found[j].name = b[j].name
        /\ found[j].proxy = (IF b[j].proxy = None THEN None ELSE pf[b[j].proxy])
        /\ found[j].channels = {cf[c] : c \in b[j].channels}
  <2> TAKE j \in DOMAIN b
  <2> DEFINE cs == {cf[c] : c \in b[j].channels}
             px == IF b[j].proxy = None THEN None ELSE pf[b[j].proxy]
  <2>1. b[j] \in MonitorItems
    BY <1>2 DEF ItemsOf
  <2>2. cs \in SUBSET Channels /\ px \in Proxies \cup {None}
    BY <1>2, <1>3
  <2>3. found[j] = [b[j] EXCEPT !.channels = cs, !.proxy = px]
    BY DEF MonitorsFound, ImportedMonitor
  <2> HIDE DEF cs, px, found, b
  <2>4. found[j] \in MonitorItems /\ found[j].name = b[j].name
        /\ found[j].proxy = px /\ found[j].channels = cs
    BY <2>1, <2>2, <2>3 DEF MonitorItems
  <2> QED BY <2>4 DEF cs, px
<1>6. Injective(mf, found) /\ Injective(mf, b)
  BY <1>3, <1>4 DEF IdMap, Injective
<1>7. KeysDiffer(found)
  <2> HIDE DEF b, found
  <2>1. Live(found) \subseteq Live(b)
    BY <1>2, <1>4 DEF Live, ItemsOf, MonitorItems
  <2>2. \A j \in Live(found) : found[j].name = b[j].name
    BY <1>4, <1>5 DEF Live
  <2> QED BY <1>2, <2>1, <2>2, KeysFewer
<1>8. \A j \in DOMAIN b, i \in Live(monitors) :
        monitors[i].name = b[j].name => \E k \in DOMAIN b : mf[k] = i
  <2> TAKE j \in DOMAIN b, i \in Live(monitors)
  <2>1. monitors[i].name = b[j].name => i \in match[j]
    BY DEF Matches
  <2> HIDE DEF b, match
  <2>2. i \in match[j] => match[j] # {} /\ mf[j] = i
    BY <1>3 DEF IdMap, Single
  <2> QED BY <2>1, <2>2
<1> HIDE DEF b, found, match
<1>9. \A j \in DOMAIN b :
        LET row == MergedRow(found[j], monitors[mf[j]]) IN
        /\ found[j].status = "active" /\ mf[j] \in DOMAIN monitors
        /\ row \in MonitorRows /\ row.status = "active" /\ row.name = found[j].name
        /\ row.proxy = found[j].proxy /\ row.channels = found[j].channels
  <2> TAKE j \in DOMAIN b
  <2>1. found[j] \in MonitorItems /\ mf[j] \in Monitors /\ monitors[mf[j]] \in MonitorRows
    BY <1>1, <1>3, <1>5
  <2>2. found[j].status = "active"
    BY <2>1 DEF MonitorItems
  <2> QED BY <1>1, <2>1, <2>2, MonitorMerged
<1>10. /\ Live(monitors) \subseteq Live(monitors')
       /\ KeysDiffer(monitors) => KeysDiffer(monitors')
       /\ \A j \in DOMAIN b : mf[j] \in Live(monitors')
  <2>1. \A j \in DOMAIN found, i \in Live(monitors) :
          monitors[i].name = found[j].name => \E k \in DOMAIN found : mf[k] = i
    BY <1>4, <1>5, <1>8
  <2> QED BY <1>1, <1>3, <1>4, <1>6, <1>7, <1>9, <2>1, MergedKeys
<1>11. \A j \in DOMAIN b : monitors'[mf[j]] = MergedRow(found[j], monitors[mf[j]])
  BY <1>3, <1>4, <1>6, <1>9, MergedAt
<1>12. \A m \in Monitors : monitors'[m] = monitors[m] \/ \E j \in DOMAIN b : mf[j] = m
  BY <1>1, <1>3, <1>4, MergedElsewhere
<1>13. monitors' \in [Monitors -> MonitorRows]
  <2>1. \A m \in Monitors : monitors'[m] \in MonitorRows
    BY <1>1, <1>9, <1>11, <1>12
  <2>2. monitors' = [m \in Monitors |-> monitors'[m]]
    BY <1>1, <1>3 DEF MergedTable
  <2> QED BY <2>1, <2>2
<1>14. \A j \in DOMAIN b :
         /\ mf[j] \in Live(monitors')
         /\ monitors'[mf[j]].name = b[j].name
         /\ monitors'[mf[j]].proxy = (IF b[j].proxy = None THEN None ELSE pf[b[j].proxy])
         /\ monitors'[mf[j]].channels = {cf[c] : c \in b[j].channels}
  BY <1>5, <1>9, <1>10, <1>11
<1> QED BY <1>6, <1>10, <1>12, <1>13, <1>14 DEF b, MonitorsAfter

\* The rules after an import, and what they refer to.
RulesAfter(rf, mf, cf, tf) ==
  /\ rules' \in [Rules -> RuleRows]
  /\ RuleNamesDiffer(rules) => RuleNamesDiffer(rules')
  /\ Live(rules) \subseteq Live(rules')
  /\ \A k \in DOMAIN backup.rules :
       /\ rf[k] \in Live(rules')
       /\ rules'[rf[k]].name = backup.rules[k].name
       /\ rules'[rf[k]].monitors = {mf[m] : m \in backup.rules[k].monitors}
       /\ rules'[rf[k]].channels = {cf[c] : c \in backup.rules[k].channels}
       /\ rules'[rf[k]].template =
            (IF backup.rules[k].template = None THEN None
             ELSE tf[backup.rules[k].template])
  /\ \A r \in Rules : \/ rules'[r] = rules[r]
                      \/ \E k \in DOMAIN backup.rules : rf[k] = r

LEMMA RuleTable ==
  ASSUME TablesInv, Valid(backup),
         NEW pf, NEW cf, NEW tf, NEW mf, NEW rf, Merge(pf, cf, tf, mf, rf),
         Injective(mf, backup.monitors)
  PROVE  RulesAfter(rf, mf, cf, tf)
<1> DEFINE b == backup.rules
           items == RulesFound(mf, cf, tf)
<1>1. rules \in [Rules -> RuleRows]
  BY DEF TablesInv, TablesTyped
<1>2. /\ ItemsOf(b, Rules, RuleItems) /\ RuleNamesDiffer(b)
      /\ \A k \in DOMAIN b : /\ b[k].monitors \subseteq DOMAIN backup.monitors
                             /\ b[k].channels \subseteq DOMAIN backup.channels
                             /\ b[k].template \in DOMAIN backup.templates \cup {None}
  BY DEF Valid, NamesDiffer, SelfContained
<1>3. /\ cf \in [DOMAIN backup.channels -> Channels]
      /\ tf \in [DOMAIN backup.templates -> Templates]
      /\ mf \in [DOMAIN backup.monitors -> Monitors]
      /\ rf \in [DOMAIN items -> Rules] /\ RuleMap(items, rf)
      /\ rules' = [r \in Rules |-> RuleNow(items, rf, 0, r)]
  BY DEF Merge
<1>4. DOMAIN items = DOMAIN b
  BY DEF RulesFound
<1>5. \A k \in DOMAIN b :
        /\ items[k] \in RuleRows /\ items[k].status = "active"
        /\ items[k].name = b[k].name
        /\ items[k].monitors = {mf[m] : m \in b[k].monitors}
        /\ items[k].channels = {cf[c] : c \in b[k].channels}
        /\ items[k].template = (IF b[k].template = None THEN None ELSE tf[b[k].template])
  <2> TAKE k \in DOMAIN b
  <2> DEFINE ms == {mf[m] : m \in b[k].monitors}
             cs == {cf[c] : c \in b[k].channels}
             tx == IF b[k].template = None THEN None ELSE tf[b[k].template]
  <2>1. b[k] \in RuleRows /\ b[k].status = "active"
    BY <1>2 DEF ItemsOf, RuleItems
  <2>2. ms \in SUBSET Monitors /\ cs \in SUBSET Channels /\ tx \in Templates \cup {None}
    BY <1>2, <1>3
  <2>3. items[k] = [b[k] EXCEPT !.monitors = ms, !.channels = cs, !.template = tx]
    BY DEF RulesFound, ImportedRule
  <2> HIDE DEF ms, cs, tx, items, b
  <2>4. /\ items[k] \in RuleRows /\ items[k].status = "active"
        /\ items[k].name = b[k].name
        /\ items[k].monitors = ms /\ items[k].channels = cs /\ items[k].template = tx
    BY <2>1, <2>2, <2>3 DEF RuleRows
  <2> QED BY <2>4 DEF ms, cs, tx
<1> HIDE DEF b, items
<1>6. RuleNamesDiffer(items)
  <2>1. SUFFICES ASSUME NEW k \in DOMAIN b, NEW j \in DOMAIN b \ {k},
                        items[j].name = items[k].name,
                        items[j].monitors \cap items[k].monitors # {}
                 PROVE FALSE
    BY <1>4 DEF RuleNamesDiffer, Overlaps, Live
  <2>2. PICK m \in b[j].monitors, n \in b[k].monitors : mf[m] = mf[n]
    BY <1>5, <2>1
  <2>3. m = n
    BY <1>2, <2>2 DEF Injective
  <2>4. k \in Live(b) /\ j \in Live(b) \ {k}
    BY <1>2 DEF Live, ItemsOf, RuleItems
  <2>5. b[j].name = b[k].name
    BY <1>5, <2>1
  <2> QED BY <2>2, <2>3, <2>4, <2>5, <1>2 DEF RuleNamesDiffer, Overlaps
<1>7. /\ DOMAIN items \subseteq Rules /\ DOMAIN rules = Rules
      /\ \A k \in DOMAIN items : items[k].status = "active"
  BY <1>1, <1>2, <1>4, <1>5 DEF ItemsOf
<1>8. /\ Live(rules) \subseteq Live(rules')
      /\ \A k \in DOMAIN items : rf[k] \in Live(rules') /\ rules'[rf[k]] = items[k]
      /\ \A r \in Rules : rules'[r] = rules[r] \/ \E k \in DOMAIN items : rf[k] = r
      /\ RuleNamesDiffer(rules) => RuleNamesDiffer(rules')
  <2>1. PICK u : u = [r \in Rules |-> RuleNow(items, rf, 0, r)]
    OBVIOUS
  <2>2. rf \in [DOMAIN items -> Rules] /\ RuleMap(items, rf)
    BY <1>1, <1>3
  <2>3. /\ Live(rules) \subseteq Live(u)
        /\ \A k \in DOMAIN items : rf[k] \in Live(u) /\ u[rf[k]] = items[k]
        /\ \A r \in Rules : u[r] = rules[r] \/ \E k \in DOMAIN items : rf[k] = r
        /\ RuleNamesDiffer(rules) => RuleNamesDiffer(u)
    BY <1>6, <1>7, <2>1, <2>2, MergedRules
  <2>4. rules' = u
    BY <1>3, <2>1
  <2> QED BY <2>3, <2>4
<1>9. rules' \in [Rules -> RuleRows]
  <2>1. \A r \in Rules : rules'[r] \in RuleRows
    BY <1>1, <1>4, <1>5, <1>8
  <2>2. rules' = [r \in Rules |-> rules'[r]]
    BY <1>3
  <2> QED BY <2>1, <2>2
<1>10. \A k \in DOMAIN b :
         /\ rf[k] \in Live(rules')
         /\ rules'[rf[k]].name = b[k].name
         /\ rules'[rf[k]].monitors = {mf[m] : m \in b[k].monitors}
         /\ rules'[rf[k]].channels = {cf[c] : c \in b[k].channels}
         /\ rules'[rf[k]].template =
              (IF b[k].template = None THEN None ELSE tf[b[k].template])
  BY <1>4, <1>5, <1>8
<1>11. \A r \in Rules : rules'[r] = rules[r] \/ \E k \in DOMAIN b : rf[k] = r
  BY <1>4, <1>8
<1> QED BY <1>8, <1>9, <1>10, <1>11 DEF b, RulesAfter

\* What ImportReproduces says of a step.
Reproduced ==
  /\ Live(proxies) \subseteq Live(proxies)'
  /\ Live(channels) \subseteq Live(channels)'
  /\ Live(templates) \subseteq Live(templates)'
  /\ Live(monitors) \subseteq Live(monitors)'
  /\ Live(rules) \subseteq Live(rules)'
  /\ \A j \in DOMAIN backup.monitors : \E m \in Live(monitors)' :
       LET old == backup.monitors[j]  new == monitors'[m] IN
       /\ new.name = old.name
       /\ NamesIn({old.proxy}, backup.proxies) = NamesIn({new.proxy}, proxies')
       /\ NamesIn(old.channels, backup.channels) = NamesIn(new.channels, channels')
  /\ \A j \in DOMAIN backup.rules : \E r \in Live(rules)' :
       LET old == backup.rules[j]  new == rules'[r] IN
       /\ new.name = old.name
       /\ NamesIn(old.monitors, backup.monitors) = NamesIn(new.monitors, monitors')
       /\ NamesIn(old.channels, backup.channels) = NamesIn(new.channels, channels')
       /\ NamesIn({old.template}, backup.templates)
            = NamesIn({new.template}, templates')

LEMMA ImportStep ==
  ASSUME ConfInv, BackupInv, ImportConfigMerge
  PROVE  ConfInv' /\ BackupInv' /\ ProxyKept /\ LetGo /\ Reproduced
<1>1. /\ up /\ DefaultNameFree /\ up' = up /\ forms' = forms /\ backup' = backup
      /\ Valid(backup)
  BY ImportMaps DEF BackupInv
<1>2. TablesInv
  BY DEF ConfInv
<1>3. PICK pf, cf, tf, mf, rf : Merge(pf, cf, tf, mf, rf)
  BY ImportMaps
<1>4. KeyedAfter(pf, cf, tf)
  BY <1>1, <1>2, <1>3, KeyedTables
<1>5. MonitorsAfter(mf, cf, pf)
  BY <1>1, <1>2, <1>3, MonitorTable
<1>6. RulesAfter(rf, mf, cf, tf)
  <2>1. Injective(mf, backup.monitors)
    BY <1>5 DEF MonitorsAfter
  <2> QED BY <1>1, <1>2, <1>3, <2>1, RuleTable
<1>7. /\ \A j \in DOMAIN backup.monitors :
           /\ backup.monitors[j].proxy \in DOMAIN backup.proxies \cup {None}
           /\ backup.monitors[j].channels \subseteq DOMAIN backup.channels
      /\ \A k \in DOMAIN backup.rules :
           /\ backup.rules[k].monitors \subseteq DOMAIN backup.monitors
           /\ backup.rules[k].monitors # {}
           /\ backup.rules[k].channels \subseteq DOMAIN backup.channels
           /\ backup.rules[k].channels # {}
           /\ backup.rules[k].template \in DOMAIN backup.templates \cup {None}
  BY <1>1 DEF Valid, SelfContained, ItemsOf, RuleItems
<1>8. TablesTyped' /\ NamesInv' /\ DefaultTemplate \in Live(templates')
  BY <1>2, <1>4, <1>5, <1>6
     DEF TablesTyped, NamesInv, NamesApart, NamesDiffer, TablesInv,
         KeyedAfter, MonitorsAfter, RulesAfter
<1>9. \A r \in Live(rules') :
        \/ r \in Live(rules) /\ rules'[r] = rules[r]
        \/ \E k \in DOMAIN backup.rules : rf[k] = r
  BY <1>2, <1>6 DEF Live, TablesInv, TablesTyped, RulesAfter
<1>10. RulesNotify'
  <2> SUFFICES ASSUME NEW r \in Live(rules') PROVE rules'[r].channels # {}
    BY DEF RulesNotify
  <2>1. CASE r \in Live(rules) /\ rules'[r] = rules[r]
    BY <1>2, <2>1 DEF TablesInv, RulesNotify
  <2>2. CASE \E k \in DOMAIN backup.rules : rf[k] = r
    <3>1. PICK k \in DOMAIN backup.rules : rf[k] = r
      BY <2>2
    <3>2. rules'[r].channels = {cf[c] : c \in backup.rules[k].channels}
      BY <1>6, <3>1 DEF RulesAfter
    <3> QED BY <1>7, <3>2
  <2> QED BY <1>9, <2>1, <2>2
<1>11. RunnableRules'
  <2> SUFFICES ASSUME NEW r \in Live(rules')
               PROVE  rules'[r].monitors # {} /\ rules'[r].monitors \subseteq Live(monitors')
    BY DEF RunnableRules
  <2>1. CASE r \in Live(rules) /\ rules'[r] = rules[r]
    BY <1>1, <1>5, <2>1 DEF ConfInv, RunnableRules, MonitorsAfter
  <2>2. CASE \E k \in DOMAIN backup.rules : rf[k] = r
    <3>1. PICK k \in DOMAIN backup.rules : rf[k] = r
      BY <2>2
    <3>2. rules'[r].monitors = {mf[m] : m \in backup.rules[k].monitors}
      BY <1>6, <3>1 DEF RulesAfter
    <3>3. \A m \in backup.rules[k].monitors : mf[m] \in Live(monitors')
      BY <1>5, <1>7 DEF MonitorsAfter
    <3> QED BY <1>7, <3>2, <3>3
  <2> QED BY <1>9, <2>1, <2>2
<1>12. ConfInv' /\ BackupInv'
  BY <1>1, <1>8, <1>10, <1>11 DEF ConfInv, TablesInv, FormsSound, BackupInv
<1>13. ProxyKept
  <2> SUFFICES ASSUME NEW m \in Live(monitors'),
                      monitors'[m].proxy \notin Live(proxies') \cup {None}
               PROVE  m \in Live(monitors) /\ monitors'[m].proxy = monitors[m].proxy
                      /\ monitors[m].proxy \notin Live(proxies)
    BY DEF ProxyKept
  <2>1. ~\E j \in DOMAIN backup.monitors : mf[j] = m
    BY <1>4, <1>5, <1>7 DEF KeyedAfter, MonitorsAfter
  <2>2. m \in Monitors /\ monitors'[m] = monitors[m]
    BY <1>5, <2>1 DEF Live, MonitorsAfter
  <2> QED BY <1>2, <1>4, <2>2 DEF Live, TablesInv, TablesTyped, KeyedAfter
<1>14. LetGo
  BY <1>4, <1>5 DEF LetGo, KeyedAfter, MonitorsAfter
<1>15. /\ None \notin Proxies \cup Channels \cup Templates \cup Monitors
       /\ None \notin DOMAIN backup.proxies /\ None \notin DOMAIN backup.channels
       /\ None \notin DOMAIN backup.templates /\ None \notin DOMAIN backup.monitors
       /\ pf \in [DOMAIN backup.proxies -> Proxies]
       /\ cf \in [DOMAIN backup.channels -> Channels]
       /\ tf \in [DOMAIN backup.templates -> Templates]
       /\ mf \in [DOMAIN backup.monitors -> Monitors]
  BY <1>1, <1>3, IdsAssumption DEF Valid, ItemsOf, Merge
<1>16. ASSUME NEW j \in DOMAIN backup.monitors
       PROVE  LET old == backup.monitors[j]  new == monitors'[mf[j]] IN
              /\ new.name = old.name
              /\ NamesIn({old.proxy}, backup.proxies) = NamesIn({new.proxy}, proxies')
              /\ NamesIn(old.channels, backup.channels) = NamesIn(new.channels, channels')
  <2>1. PICK p, c : p = proxies' /\ c = channels'
    OBVIOUS
  <2>2. NamesIn({backup.monitors[j].proxy}, backup.proxies) =
          NamesIn({IF backup.monitors[j].proxy = None THEN None
                   ELSE pf[backup.monitors[j].proxy]}, p)
    <3>1. /\ None \notin Proxies /\ None \notin DOMAIN backup.proxies
          /\ pf \in [DOMAIN backup.proxies -> Proxies]
      BY <1>15
    <3>2. \A x \in DOMAIN backup.proxies : p[pf[x]].name = backup.proxies[x].name
      BY <1>4, <2>1 DEF KeyedAfter
    <3>3. backup.monitors[j].proxy \in DOMAIN backup.proxies \cup {None}
      BY <1>7
    <3> QED BY <3>1, <3>2, <3>3 DEF NamesIn
  <2>3. NamesIn(backup.monitors[j].channels, backup.channels) =
          NamesIn({cf[x] : x \in backup.monitors[j].channels}, c)
    <3>1. /\ None \notin Channels /\ None \notin DOMAIN backup.channels
          /\ cf \in [DOMAIN backup.channels -> Channels]
      BY <1>15
    <3>2. \A x \in DOMAIN backup.channels : c[cf[x]].name = backup.channels[x].name
      BY <1>4, <2>1 DEF KeyedAfter
    <3>3. backup.monitors[j].channels \subseteq DOMAIN backup.channels
      BY <1>7
    <3> QED BY <3>1, <3>2, <3>3 DEF NamesIn
  <2> QED BY <1>5, <2>1, <2>2, <2>3 DEF MonitorsAfter
<1>17. ASSUME NEW k \in DOMAIN backup.rules
       PROVE  LET old == backup.rules[k]  new == rules'[rf[k]] IN
              /\ new.name = old.name
              /\ NamesIn(old.monitors, backup.monitors) = NamesIn(new.monitors, monitors')
              /\ NamesIn(old.channels, backup.channels) = NamesIn(new.channels, channels')
              /\ NamesIn({old.template}, backup.templates)
                   = NamesIn({new.template}, templates')
  <2>1. PICK m, c, t : m = monitors' /\ c = channels' /\ t = templates'
    OBVIOUS
  <2>2. NamesIn(backup.rules[k].monitors, backup.monitors) =
          NamesIn({mf[x] : x \in backup.rules[k].monitors}, m)
    <3>1. /\ None \notin Monitors /\ None \notin DOMAIN backup.monitors
          /\ mf \in [DOMAIN backup.monitors -> Monitors]
      BY <1>15
    <3>2. \A x \in DOMAIN backup.monitors : m[mf[x]].name = backup.monitors[x].name
      BY <1>5, <2>1 DEF MonitorsAfter
    <3>3. backup.rules[k].monitors \subseteq DOMAIN backup.monitors
      BY <1>7
    <3> QED BY <3>1, <3>2, <3>3 DEF NamesIn
  <2>3. NamesIn(backup.rules[k].channels, backup.channels) =
          NamesIn({cf[x] : x \in backup.rules[k].channels}, c)
    <3>1. /\ None \notin Channels /\ None \notin DOMAIN backup.channels
          /\ cf \in [DOMAIN backup.channels -> Channels]
      BY <1>15
    <3>2. \A x \in DOMAIN backup.channels : c[cf[x]].name = backup.channels[x].name
      BY <1>4, <2>1 DEF KeyedAfter
    <3>3. backup.rules[k].channels \subseteq DOMAIN backup.channels
      BY <1>7
    <3> QED BY <3>1, <3>2, <3>3 DEF NamesIn
  <2>4. NamesIn({backup.rules[k].template}, backup.templates) =
          NamesIn({IF backup.rules[k].template = None THEN None
                   ELSE tf[backup.rules[k].template]}, t)
    <3>1. /\ None \notin Templates /\ None \notin DOMAIN backup.templates
          /\ tf \in [DOMAIN backup.templates -> Templates]
      BY <1>15
    <3>2. \A x \in DOMAIN backup.templates : t[tf[x]].name = backup.templates[x].name
      BY <1>4, <2>1 DEF KeyedAfter
    <3>3. backup.rules[k].template \in DOMAIN backup.templates \cup {None}
      BY <1>7
    <3> QED BY <3>1, <3>2, <3>3 DEF NamesIn
  <2> QED BY <1>6, <2>1, <2>2, <2>3, <2>4 DEF RulesAfter
<1>18. Reproduced
  <2>1. /\ Live(proxies) \subseteq Live(proxies') /\ Live(channels) \subseteq Live(channels')
        /\ Live(templates) \subseteq Live(templates')
    BY <1>4 DEF KeyedAfter
  <2>2. /\ Live(monitors) \subseteq Live(monitors')
        /\ \A j \in DOMAIN backup.monitors : mf[j] \in Live(monitors')
    BY <1>5 DEF MonitorsAfter
  <2>3. /\ Live(rules) \subseteq Live(rules')
        /\ \A k \in DOMAIN backup.rules : rf[k] \in Live(rules')
    BY <1>6 DEF RulesAfter
  <2> QED BY <1>16, <1>17, <2>1, <2>2, <2>3 DEF Reproduced
<1> QED BY <1>12, <1>13, <1>14, <1>18

-----------------------------------------------------------------------------
(* The theorems.                                                              *)

LEMMA InvInit ==
  ASSUME BackupInit
  PROVE  ConfInv /\ BackupInv
<1>1. PICK d \in Legacy : /\ proxies = d.proxies /\ channels = d.channels
                          /\ templates = d.templates /\ monitors = d.monitors
                          /\ rules = d.rules
  BY DEF BackupInit, ConfInit
<1>2. /\ d \in Databases /\ DefaultTemplate \in Live(d.templates)
      /\ \A r \in Live(d.rules) : d.rules[r].channels # {}
  BY LegacyAssumption
<1>3. TablesTyped /\ DefaultTemplate \in Live(templates)
  BY <1>1, <1>2 DEF Databases, TablesTyped
<1>4. NamesInv /\ RulesNotify
  BY <1>1, <1>2 DEF LegacyNamesDiffer, NamesInv, NamesApart, RulesNotify
<1>5. FormsSound /\ RunnableRules
  BY DEF BackupInit, ConfInit, FormsSound, FormSound, Idle, RunnableRules
<1>6. BackupInv
  BY ForeignAssumption DEF BackupInit, BackupInv
<1> QED BY <1>3, <1>4, <1>5, <1>6 DEF ConfInv, TablesInv

LEMMA InvStep ==
  ASSUME ConfInv, BackupInv, [BackupNext]_backupVars
  PROVE  ConfInv' /\ BackupInv' /\ ProxyKept /\ LetGo
<1>1. CASE ConfNext /\ UNCHANGED backup
  BY <1>1, ConfStep DEF BackupInv
<1>2. CASE \E full \in BOOLEAN : ExportConfig(full)
  BY <1>2, ExportStep
<1>3. CASE ImportConfigMerge
  BY <1>3, ImportStep
<1>4. CASE UNCHANGED backupVars
  <2>1. UNCHANGED tables /\ forms' = forms /\ up' = up /\ backup' = backup
    BY <1>4 DEF backupVars, confVars
  <2>2. FormsSound'
    BY <2>1 DEF ConfInv, FormsSound
  <2> QED BY <2>1, <2>2, TablesKept DEF BackupInv
<1> QED BY <1>1, <1>2, <1>3, <1>4 DEF BackupNext

LEMMA InvHolds ==
  BackupSpec => [](ConfInv /\ BackupInv)
<1>1. BackupInit => ConfInv /\ BackupInv
  BY InvInit
<1>2. ConfInv /\ BackupInv /\ [BackupNext]_backupVars => (ConfInv /\ BackupInv)'
  BY InvStep
<1> QED BY <1>1, <1>2, PTL DEF BackupSpec

\* Once the database is repaired, every active rule watches an active monitor
\* and nothing else, for any number of forms, archivings and imports under way.
THEOREM RulesRunnable ==
  BackupSpec => []RunnableRules
<1>1. ConfInv => RunnableRules
  BY DEF ConfInv
<1> QED BY <1>1, InvHolds, PTL

\* On databases whose natural keys differ, they go on to differ: the guards in
\* the statements that write are enough, whatever was looked up before.
THEOREM NamesStayApart ==
  ASSUME LegacyNamesDiffer
  PROVE  BackupSpec => []NamesApart
<1>1. ConfInv => NamesApart
  BY DEF ConfInv, TablesInv, NamesInv
<1> QED BY <1>1, InvHolds, PTL

\* A backup refers to nothing outside itself.
THEOREM BackupsClosed ==
  BackupSpec => []BackupSelfContained
<1>1. BackupInv => BackupSelfContained
  <2>1. CASE backup = NoBackup
    BY <2>1 DEF BackupSelfContained, SelfContained, NoBackup
  <2>2. CASE Valid(backup)
    BY <2>2 DEF Valid, BackupSelfContained
  <2> QED BY <2>1, <2>2 DEF BackupInv
<1> QED BY <1>1, InvHolds, PTL

\* Opening any database makes what can run refer to active rows only; a monitor
\* without its proxy is disabled, and may keep the reference
\* (repairActiveConfigReferences).
THEOREM StartsWhole ==
  BackupSpec => RepairMakesWhole
<1>1. ConfInv /\ BackupInv /\ [BackupNext]_backupVars => [Start => Whole']_confVars
  BY StartTables DEF ConfInv
<1> QED BY <1>1, InvHolds, PTL DEF BackupSpec, RepairMakesWhole

\* No step archives the proxy of an active monitor or gives a monitor one that
\* is archived.
THEOREM ProxiesKept ==
  BackupSpec => ProxyNotPulled
<1>1. ConfInv /\ BackupInv /\ [BackupNext]_backupVars => [ProxyKept]_confVars
  BY InvStep
<1>2. BackupSpec => [][ProxyKept]_confVars
  BY <1>1, InvHolds, PTL DEF BackupSpec
<1> QED BY <1>2 DEF ProxyNotPulled, ProxyKept

\* The step that archives a row removes every active reference to it.
THEOREM ReferencesDropped ==
  BackupSpec => ArchivedUnreferenced
<1>1. ConfInv /\ BackupInv /\ [BackupNext]_backupVars => [LetGo]_confVars
  BY InvStep
<1>2. BackupSpec => [][LetGo]_confVars
  BY <1>1, InvHolds, PTL DEF BackupSpec
<1> QED BY <1>2 DEF ArchivedUnreferenced, LetGo

\* An import archives nothing and reproduces the monitors and rules of the
\* backup, whichever rows they are merged into.
THEOREM ImportsReproduce ==
  BackupSpec => ImportReproduces
<1>1. ConfInv /\ BackupInv /\ [BackupNext]_backupVars
        => [ImportConfigMerge => Reproduced]_backupVars
  BY ImportStep
<1>2. BackupSpec => [][ImportConfigMerge => Reproduced]_backupVars
  BY <1>1, InvHolds, PTL DEF BackupSpec
<1> QED BY <1>2 DEF ImportReproduces, Reproduced
=============================================================================
