-------------------------- MODULE ConfigReferences --------------------------
(* The configuration tables - proxies, channels, templates, monitors and   *)
(* rules - and the references between their rows.  Rows are archived, never *)
(* deleted; a reference is an id (or a JSON list of ids) that no foreign key *)
(* protects.  A write goes through a form: the handler reads the row and    *)
(* checks the input, and a single guarded statement writes it later.        *)
(* Columns no other row depends on (intervals, conditions, texts, ...) are  *)
(* left out; of a row's configuration only its secret is kept.              *)
EXTENDS Naturals, FiniteSets

CONSTANTS Proxies, Channels, Templates, Monitors, Rules,   \* row ids
          DefaultTemplate,          \* the row with is_default = 1
          Names,                    \* natural keys: a name, with its type
          Secrets,                  \* values of secret fields
          None,                     \* NULL, an empty secret, a name to be found
          Clear,                    \* the command to remove a secret
          Clients,                  \* requests at work at the same time
          ProxyInputs, ChannelInputs, TemplateInputs,  \* what clients send
          MonitorInputs, RuleInputs,
          Legacy,                   \* databases the program may be started on
          MaxRequests               \* bound: forms, archivings, backups, crashes

VARIABLES proxies, channels, templates, monitors, rules,
          forms,                    \* what each request has read and checked
          up,                       \* the process has opened the database
          requests                  \* how many there have been (bounded)

tables == <<proxies, channels, templates, monitors, rules>>
confVars == <<tables, forms, up, requests>>

Statuses == {"unused", "active", "archived"}

\* Rows of proxies, channels and templates.
KeyedRows == [status: Statuses, name: Names \cup {None},
              secret: Secrets \cup {None}]

\* enabled is switched elsewhere as well; alert stands for
\* failure_alert_after > 0.
MonitorRows == [status: Statuses, name: Names \cup {None},
                secret: Secrets \cup {None}, enabled: BOOLEAN,
                proxy: Proxies \cup {None}, channels: SUBSET Channels,
                alert: BOOLEAN]

\* monitor_ids_json (whose first id is monitor_id) and
\* notify_channel_ids_json as sets.
RuleRows == [status: Statuses, name: Names \cup {None},
             monitors: SUBSET Monitors, channels: SUBSET Channels,
             template: Templates \cup {None}]

\* What the validators let through: a name, and what a new row may hold.
KeyedInputs == [status: {"active"}, name: Names, secret: Secrets \cup {None, Clear}]

MonitorInputRows ==
  [status: {"active"}, name: Names, secret: Secrets \cup {None, Clear},
   enabled: BOOLEAN, proxy: Proxies \cup {None}, channels: SUBSET Channels,
   alert: BOOLEAN]

RuleInputRows ==
  [status: {"active"}, name: Names, monitors: SUBSET Monitors,
   channels: SUBSET Channels, template: Templates \cup {None}]

\* Ids are numbers from 1; NULL is neither an id nor a name.
ASSUME IdsAssumption ==
  /\ Rules \subseteq Nat \ {0}
  /\ DefaultTemplate \in Templates
  /\ None \notin Proxies \cup Channels \cup Templates \cup Monitors \cup Rules
  /\ None \notin Names

ASSUME InputsAssumption ==
  /\ ProxyInputs \subseteq KeyedInputs /\ ChannelInputs \subseteq KeyedInputs
  /\ TemplateInputs \subseteq {i \in KeyedInputs : i.secret # Clear}
  /\ MonitorInputs \subseteq MonitorInputRows
  /\ RuleInputs \subseteq RuleInputRows

Databases ==
  [proxies: [Proxies -> KeyedRows], channels: [Channels -> KeyedRows],
   templates: [Templates -> KeyedRows], monitors: [Monitors -> MonitorRows],
   rules: [Rules -> RuleRows]]

\* Names do not run out for rules: a name that clashes gets a number.
ASSUME NamesAssumption ==
  \A f \in [Rules -> Names \cup {None}], r \in Rules :
    \E n \in Names : \A j \in Rules \ {r} : f[j] # n

Idle == [table |-> "none"]

\* keep: the client left the secret empty.
FormsOf(table, ids, rows) ==
  [table: {table}, id: ids \cup {None}, row: rows, keep: BOOLEAN]

Forms == {Idle}
  \cup FormsOf("proxies", Proxies, KeyedRows)
  \cup FormsOf("channels", Channels, KeyedRows)
  \cup FormsOf("templates", Templates, KeyedRows)
  \cup FormsOf("monitors", Monitors, MonitorRows)
  \cup FormsOf("rules", Rules, RuleRows)

Live(t) == {i \in DOMAIN t : t[i].status = "active"}

Unused(t) == {i \in DOMAIN t : t[i].status = "unused"}

Known(t) == DOMAIN t \ Unused(t)

\* Another active row has this natural key.
Taken(t, name, i) == \E j \in Live(t) \ {i} : t[j].name = name

\* Another active rule of this name shares a monitor (ruleNameOverlaps).
Overlaps(t, name, ms, r) ==
  \E j \in Live(t) \ {r} : t[j].name = name /\ t[j].monitors \cap ms # {}

\* The schema brings a default template, which nothing archives; a rule without
\* channels is never saved.
ASSUME LegacyAssumption ==
  \A d \in Legacy :
    /\ d \in Databases
    /\ DefaultTemplate \in Live(d.templates)
    /\ \A r \in Live(d.rules) : d.rules[r].channels # {}

Archived(t, i) == [t EXCEPT ![i].status = "archived"]

-----------------------------------------------------------------------------
(* Properties of the tables.                                               *)

KeysDiffer(t) == \A i \in Live(t) : ~Taken(t, t[i].name, i)

RuleNamesDiffer(t) ==
  \A r \in Live(t) : ~Overlaps(t, t[r].name, t[r].monitors, r)

NamesDiffer(p, c, t, m, r) ==
  /\ KeysDiffer(p) /\ KeysDiffer(c) /\ KeysDiffer(t) /\ KeysDiffer(m)
  /\ RuleNamesDiffer(r)

\* What a repaired database looks like.  A monitor that is disabled may keep a
\* proxy that is archived; everything else that is active refers to active rows.
Whole ==
  /\ \A m \in Live(monitors) :
       /\ monitors[m].enabled => monitors[m].proxy \in Live(proxies) \cup {None}
       /\ monitors[m].channels \subseteq Live(channels)
  /\ \A r \in Live(rules) :
       /\ rules[r].monitors # {} /\ rules[r].monitors \subseteq Live(monitors)
       /\ rules[r].channels # {} /\ rules[r].channels \subseteq Live(channels)
       /\ rules[r].template \in Live(templates) \cup {None}

-----------------------------------------------------------------------------
(* Starting the process.                                                    *)

ConfInit ==
  /\ \E d \in Legacy : /\ proxies = d.proxies /\ channels = d.channels
                       /\ templates = d.templates /\ monitors = d.monitors
                       /\ rules = d.rules
  /\ forms = [c \in Clients |-> Idle]
  /\ up = FALSE
  /\ requests = 0

Request == /\ requests < MaxRequests
           /\ requests' = requests + 1

\* A name for rule r once its monitors are ms: its own unless that clashes.
availableRuleName(r, ms) ==
  IF Overlaps(rules, rules[r].name, ms, r)
  THEN CHOOSE n \in Names : ~Overlaps(rules, n, ms, r)
  ELSE rules[r].name

\* Rule r with the monitors ms only; without monitors it is archived.
WithMonitors(r, ms) ==
  IF ms = {} THEN [rules[r] EXCEPT !.status = "archived", !.monitors = {}]
  ELSE [rules[r] EXCEPT !.monitors = ms, !.name = availableRuleName(r, ms)]

\* A rule row with the channels cs only; without channels it is archived.
WithChannels(row, cs) ==
  IF cs = {} /\ row.channels # {}
  THEN [row EXCEPT !.status = "archived", !.channels = {}]
  ELSE [row EXCEPT !.channels = cs]

\* A monitor row with the channels cs only; without channels, no alerts.
WithAlerts(row, cs) ==
  [row EXCEPT !.channels = cs,
              !.alert = @ /\ (cs # {} \/ row.channels = {})]

RepairedRuleMonitorsOnly(r) ==   \* mutant: the channels stay as they were
  IF rules[r].status = "active"
  THEN WithMonitors(r, rules[r].monitors \cap Live(monitors)) ELSE rules[r]

RepairedRule(r) ==
  LET row == IF rules[r].monitors \subseteq Live(monitors) /\ rules[r].monitors # {}
             THEN rules[r]
             ELSE WithMonitors(r, rules[r].monitors \cap Live(monitors))
      tpl == IF row.template \in Live(templates) \cup {None}
             THEN row ELSE [row EXCEPT !.template = None]
  IN IF rules[r].status # "active" THEN rules[r]
     ELSE IF row.status # "active" THEN row
     ELSE WithChannels(tpl, row.channels \cap Live(channels))

RepairedMonitor(m) ==
  LET row == [monitors[m] EXCEPT
                !.enabled = @ /\ monitors[m].proxy \in Live(proxies) \cup {None}]
  IN IF monitors[m].status # "active" THEN monitors[m]
     ELSE WithAlerts(row, row.channels \cap Live(channels))

Start ==
  /\ ~up
  /\ up' = TRUE
  /\ rules' = [r \in Rules |-> RepairedRule(r)]
  /\ monitors' = [m \in Monitors |-> RepairedMonitor(m)]
  /\ UNCHANGED <<proxies, channels, templates, forms, requests>>

Crash ==
  /\ up
  /\ up' = FALSE
  /\ forms' = [c \in Clients |-> Idle]
  /\ Request
  /\ UNCHANGED tables

-----------------------------------------------------------------------------
(* Forms.                                                                   *)

\* The secret of a form: an empty one means the one that was read.
MergedSecret(input, t, i) ==
  CASE input.secret = Clear -> None
    [] input.secret = None /\ i # None -> t[i].secret
    [] OTHER -> input.secret

Merged(input, t, i) == [input EXCEPT !.secret = MergedSecret(input, t, i)]

Hold(c, table, i, row, keep) ==
  /\ up /\ forms[c] = Idle
  /\ forms' = [forms EXCEPT
       ![c] = [table |-> table, id |-> i, row |-> row, keep |-> keep]]
  /\ Request
  /\ UNCHANGED <<tables, up>>

SubmitProxy(c, i, input) ==
  /\ i \in Live(proxies) \cup {None}
  /\ ~Taken(proxies, input.name, i)
  /\ Hold(c, "proxies", i, Merged(input, proxies, i), input.secret = None)

SubmitChannel(c, i, input) ==
  /\ i \in Live(channels) \cup {None}
  /\ ~Taken(channels, input.name, i)
  /\ Hold(c, "channels", i, Merged(input, channels, i), input.secret = None)

SubmitTemplate(c, i, input) ==
  /\ i \in Known(templates) \cup {None}
  /\ ~Taken(templates, input.name, i)
  /\ Hold(c, "templates", i, input, FALSE)

SubmitMonitor(c, i, input) ==
  /\ i \in Live(monitors) \cup {None}
  /\ input.proxy \in Live(proxies) \cup {None}
  /\ input.channels \subseteq Live(channels)
  /\ input.alert => input.channels # {}
  /\ ~Taken(monitors, input.name, i)
  /\ Hold(c, "monitors", i, Merged(input, monitors, i), input.secret = None)

SubmitRule(c, i, input) ==
  /\ i \in Known(rules) \cup {None}
  /\ input.monitors # {} /\ input.monitors \subseteq Live(monitors)
  /\ input.channels # {} /\ input.channels \subseteq Live(channels)
  /\ input.template \in Live(templates) \cup {None}
  /\ ~Overlaps(rules, input.name, input.monitors, i)
  /\ Hold(c, "rules", i, input, FALSE)

\* A copy is a new row whose name is found when it is written; what it
\* refers to is not looked up.
CopyMonitor(c, i) ==
  /\ i \in Live(monitors)
  /\ Hold(c, "monitors", None,
          [monitors[i] EXCEPT !.name = None, !.enabled = FALSE], FALSE)

CopyRule(c, i) ==
  /\ i \in Live(rules)
  /\ Hold(c, "rules", None, [rules[i] EXCEPT !.name = None], FALSE)

CopyChannel(c, i) ==
  /\ i \in Live(channels)
  /\ Hold(c, "channels", None, [channels[i] EXCEPT !.name = None], FALSE)

CopyTemplate(c, i) ==
  /\ i \in Live(templates)
  /\ Hold(c, "templates", None, [templates[i] EXCEPT !.name = None], FALSE)

-----------------------------------------------------------------------------
(* The statements that write.                                               *)

\* The rows a form may end up in: its own while active, or a new one.
Targets(t, f) == IF f.id = None THEN Unused(t) ELSE Live(t) \cap {f.id}

\* The names a form may be written under.
NamesFor(row) == IF row.name = None THEN Names ELSE {row.name}

Release(c) == forms' = [forms EXCEPT ![c] = Idle]

WriteProxy(c) ==
  LET f == forms[c] IN
  /\ f.table = "proxies"
  /\ \E i \in Targets(proxies, f) :
       /\ ~Taken(proxies, f.row.name, i)
       /\ proxies' = [proxies EXCEPT ![i] = f.row]
  /\ Release(c)
  /\ UNCHANGED <<channels, templates, monitors, rules, up, requests>>

WriteChannelUnguarded(c) ==      \* mutant: the name was looked up before
  LET f == forms[c] IN
  /\ f.table = "channels"
  /\ \E i \in Targets(channels, f), n \in NamesFor(f.row) :
       channels' = [channels EXCEPT ![i] = [f.row EXCEPT !.name = n]]
  /\ Release(c)
  /\ UNCHANGED <<proxies, templates, monitors, rules, up, requests>>

WriteChannel(c) ==
  LET f == forms[c] IN
  /\ f.table = "channels"
  /\ \E i \in Targets(channels, f), n \in NamesFor(f.row) :
       /\ ~Taken(channels, n, i)
       /\ channels' = [channels EXCEPT ![i] = [f.row EXCEPT !.name = n]]
  /\ Release(c)
  /\ UNCHANGED <<proxies, templates, monitors, rules, up, requests>>

WriteTemplate(c) ==
  LET f == forms[c] IN
  /\ f.table = "templates"
  /\ \E i \in Targets(templates, f), n \in NamesFor(f.row) :
       /\ ~Taken(templates, n, i)
       /\ templates' = [templates EXCEPT ![i] = [f.row EXCEPT !.name = n]]
  /\ Release(c)
  /\ UNCHANGED <<proxies, channels, monitors, rules, up, requests>>

WriteMonitorAnyProxy(c) ==       \* mutant: the proxy was looked up before
  LET f == forms[c] IN
  /\ f.table = "monitors"
  /\ \E i \in Targets(monitors, f), n \in NamesFor(f.row) :
       /\ ~Taken(monitors, n, i)
       /\ monitors' = [monitors EXCEPT ![i] = [f.row EXCEPT !.name = n]]
  /\ Release(c)
  /\ UNCHANGED <<proxies, channels, templates, rules, up, requests>>

WriteMonitor(c) ==
  LET f == forms[c] IN
  /\ f.table = "monitors"
  /\ f.row.proxy \in Live(proxies) \cup {None}
  /\ \E i \in Targets(monitors, f), n \in NamesFor(f.row) :
       /\ ~Taken(monitors, n, i)
       /\ monitors' = [monitors EXCEPT ![i] = [f.row EXCEPT !.name = n]]
  /\ Release(c)
  /\ UNCHANGED <<proxies, channels, templates, rules, up, requests>>

WriteRuleAnyMonitor(c) ==        \* mutant: the monitors were looked up before
  LET f == forms[c] IN
  /\ f.table = "rules"
  /\ \E i \in Targets(rules, f), n \in NamesFor(f.row) :
       /\ ~Overlaps(rules, n, f.row.monitors, i)
       /\ rules' = [rules EXCEPT ![i] = [f.row EXCEPT !.name = n]]
  /\ Release(c)
  /\ UNCHANGED <<proxies, channels, templates, monitors, up, requests>>

WriteRule(c) ==
  LET f == forms[c] IN
  /\ f.table = "rules"
  /\ f.row.monitors \subseteq Live(monitors)
  /\ \E i \in Targets(rules, f), n \in NamesFor(f.row) :
       /\ ~Overlaps(rules, n, f.row.monitors, i)
       /\ rules' = [rules EXCEPT ![i] = [f.row EXCEPT !.name = n]]
  /\ Release(c)
  /\ UNCHANGED <<proxies, channels, templates, monitors, up, requests>>

\* The statement affects no row, or the request is cut off before it.
Refuse(c) ==
  /\ forms[c] # Idle
  /\ Release(c)
  /\ UNCHANGED <<tables, up, requests>>

-----------------------------------------------------------------------------
(* Archiving, each in one transaction.                                      *)

DeleteProxyProfile(i) ==
  /\ up /\ i \in Live(proxies)
  /\ \A m \in Live(monitors) : monitors[m].proxy # i
  /\ proxies' = Archived(proxies, i)
  /\ Request
  /\ UNCHANGED <<channels, templates, monitors, rules, forms, up>>

DeleteNotifyChannel(i) ==
  /\ up /\ i \in Live(channels)
  /\ channels' = Archived(channels, i)
  /\ rules' = [r \in Rules |->
       IF r \in Live(rules) /\ i \in rules[r].channels
       THEN WithChannels(rules[r], rules[r].channels \ {i}) ELSE rules[r]]
  /\ monitors' = [m \in Monitors |->
       IF m \in Live(monitors) /\ i \in monitors[m].channels
       THEN WithAlerts(monitors[m], monitors[m].channels \ {i}) ELSE monitors[m]]
  /\ Request
  /\ UNCHANGED <<proxies, templates, forms, up>>

DeleteTemplateOnly(i) ==         \* mutant: rules keep the template
  /\ up /\ i \in Live(templates) \ {DefaultTemplate}
  /\ templates' = Archived(templates, i)
  /\ Request
  /\ UNCHANGED <<proxies, channels, monitors, rules, forms, up>>

DeleteNotificationTemplate(i) ==
  /\ up /\ i \in Live(templates) \ {DefaultTemplate}
  /\ templates' = Archived(templates, i)
  /\ rules' = [r \in Rules |->
       IF r \in Live(rules) /\ rules[r].template = i
       THEN [rules[r] EXCEPT !.template = None] ELSE rules[r]]
  /\ Request
  /\ UNCHANGED <<proxies, channels, monitors, forms, up>>

DeleteMonitor(i) ==
  /\ up /\ i \in Live(monitors)
  /\ monitors' = [Archived(monitors, i) EXCEPT ![i].enabled = FALSE]
  /\ rules' = [r \in Rules |->
       IF r \in Live(rules) /\ i \in rules[r].monitors
       THEN WithMonitors(r, rules[r].monitors \ {i}) ELSE rules[r]]
  /\ Request
  /\ UNCHANGED <<proxies, channels, templates, forms, up>>

DeleteRule(i) ==
  /\ up /\ i \in Live(rules)
  /\ rules' = Archived(rules, i)
  /\ Request
  /\ UNCHANGED <<proxies, channels, templates, monitors, forms, up>>

-----------------------------------------------------------------------------
Submit(c) ==
  \/ \E i \in Proxies \cup {None}, input \in ProxyInputs : SubmitProxy(c, i, input)
  \/ \E i \in Channels \cup {None}, input \in ChannelInputs : SubmitChannel(c, i, input)
  \/ \E i \in Templates \cup {None}, input \in TemplateInputs : SubmitTemplate(c, i, input)
  \/ \E i \in Monitors \cup {None}, input \in MonitorInputs : SubmitMonitor(c, i, input)
  \/ \E i \in Rules \cup {None}, input \in RuleInputs : SubmitRule(c, i, input)
  \/ \E i \in Monitors : CopyMonitor(c, i)
  \/ \E i \in Rules : CopyRule(c, i)
  \/ \E i \in Channels : CopyChannel(c, i)
  \/ \E i \in Templates : CopyTemplate(c, i)

Write(c) ==
  \/ WriteProxy(c) \/ WriteChannel(c) \/ WriteTemplate(c)
  \/ WriteMonitor(c) \/ WriteRule(c) \/ Refuse(c)

Delete ==
  \/ \E i \in Proxies : DeleteProxyProfile(i)
  \/ \E i \in Channels : DeleteNotifyChannel(i)
  \/ \E i \in Templates : DeleteNotificationTemplate(i)
  \/ \E i \in Monitors : DeleteMonitor(i)
  \/ \E i \in Rules : DeleteRule(i)

ConfNext ==
  \/ Start \/ Crash \/ Delete
  \/ \E c \in Clients : Submit(c) \/ Write(c)

ConfSpec == ConfInit /\ [][ConfNext]_confVars

-----------------------------------------------------------------------------
(* Properties.                                                              *)

\* Once the database is repaired, every active rule watches something, and
\* nothing archived, although forms that were checked earlier are written
\* after monitors were archived (CreateRule, UpdateRule, DeleteMonitor).
RunnableRules ==
  up => \A r \in Live(rules) : /\ rules[r].monitors # {}
                              /\ rules[r].monitors \subseteq Live(monitors)

\* Active rows have different natural keys, and rules of one name share no
\* monitor, whichever forms, copies and imports run side by side: a backup
\* can always be made (validateSnapshotNaturalKeys).
NamesApart == NamesDiffer(proxies, channels, templates, monitors, rules)

\* Opening a database makes all that can run refer to active rows, whatever an
\* older release or a lost race left behind: every enabled monitor's proxy, the
\* channels of every monitor, and what the rules name.  A monitor without its
\* proxy is disabled and keeps the reference (repairActiveConfigReferences).
RepairMakesWhole == [][Start => Whole']_confVars

\* An active monitor's proxy is never archived under it, not even by a form
\* that was checked while the proxy was active (DeleteProxyProfile,
\* UpdateMonitor): a monitor without its proxy had none when it was found.
ProxyNotPulled ==
  [][\A m \in Live(monitors)' :
       monitors'[m].proxy \notin Live(proxies)' \cup {None}
         => m \in Live(monitors) /\ monitors'[m].proxy = monitors[m].proxy
            /\ monitors[m].proxy \notin Live(proxies)]_confVars

\* In the step that archives a row, every active row lets go of it.
ArchivedUnreferenced ==
  [][/\ \A c \in Live(channels) \ Live(channels)' :
          /\ \A r \in Live(rules)' : c \notin rules'[r].channels
          /\ \A m \in Live(monitors)' : c \notin monitors'[m].channels
     /\ \A t \in Live(templates) \ Live(templates)' :
          \A r \in Live(rules)' : rules'[r].template # t
     /\ \A m \in Live(monitors) \ Live(monitors)' :
          \A r \in Live(rules)' : m \notin rules'[r].monitors]_confVars
=============================================================================
