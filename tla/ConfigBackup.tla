---------------------------- MODULE ConfigBackup ----------------------------
(* Exporting the configuration and merging a backup into it, on the tables  *)
(* and forms of ConfigReferences.  A backup names rows by the ids they had   *)
(* when it was made; the import matches them with active rows by natural    *)
(* key, creates the others and translates the references.                   *)
EXTENDS ConfigReferences

CONSTANT Foreign            \* backups made by other instances

VARIABLE backup             \* the file at hand

backupVars == <<confVars, backup>>

NoBackup == [full |-> FALSE, proxies |-> <<>>, channels |-> <<>>,
             templates |-> <<>>, monitors |-> <<>>, rules |-> <<>>]

\* A secret that is left out of a backup (redactedSecrets).
Hidden == "hidden"

\* What a file must be to be imported: distinct ids, distinct natural keys and
\* references to items of the same file.  (Files of releases without a default
\* template are left out.)
KeyedItems == [status: {"active"}, name: Names \cup {None},
               secret: Secrets \cup {None, Hidden}]

MonitorItems == [status: {"active"}, name: Names \cup {None},
                 secret: Secrets \cup {None, Hidden}, enabled: BOOLEAN,
                 proxy: Proxies \cup {None}, channels: SUBSET Channels,
                 alert: BOOLEAN]

RuleItems == {r \in RuleRows : r.status = "active" /\ r.monitors # {} /\ r.channels # {}}

ItemsOf(items, ids, rows) ==
  DOMAIN items \subseteq ids /\ \A j \in DOMAIN items : items[j] \in rows

SelfContained(b) ==
  /\ \A m \in DOMAIN b.monitors :
       /\ b.monitors[m].proxy \in DOMAIN b.proxies \cup {None}
       /\ b.monitors[m].channels \subseteq DOMAIN b.channels
  /\ \A r \in DOMAIN b.rules :
       /\ b.rules[r].monitors \subseteq DOMAIN b.monitors
       /\ b.rules[r].channels \subseteq DOMAIN b.channels
       /\ b.rules[r].template \in DOMAIN b.templates \cup {None}

Valid(b) ==
  /\ ItemsOf(b.proxies, Proxies, KeyedItems)
  /\ ItemsOf(b.channels, Channels, KeyedItems)
  /\ ItemsOf(b.templates, Templates, KeyedItems)
  /\ ItemsOf(b.monitors, Monitors, MonitorItems)
  /\ ItemsOf(b.rules, Rules, RuleItems)
  /\ NamesDiffer(b.proxies, b.channels, b.templates, b.monitors, b.rules)
  /\ SelfContained(b)
  /\ DefaultTemplate \in DOMAIN b.templates

ASSUME ForeignAssumption == \A b \in Foreign : Valid(b)

\* The active rows of a table as a partial function on ids.
Rows(t) == [i \in Live(t) |-> t[i]]

-----------------------------------------------------------------------------
(* Export.                                                                  *)

\* normalizeConfigSnapshot: nothing refers outside the snapshot.
NormalMonitor(m) ==
  LET cs == m.channels \cap Live(channels)
      known == m.proxy \in Live(proxies) \cup {None}
  IN [m EXCEPT !.proxy = IF known THEN @ ELSE None,
               !.enabled = @ /\ known,
               !.channels = cs, !.alert = @ /\ cs # {}]

NormalRuleAllChannels(r) ==      \* mutant: archived channels stay in it
  [r EXCEPT !.monitors = @ \cap Live(monitors),
            !.template = IF @ \in Live(templates) THEN @ ELSE None]

NormalRule(r) ==
  [r EXCEPT !.monitors = @ \cap Live(monitors),
            !.channels = @ \cap Live(channels),
            !.template = IF @ \in Live(templates) THEN @ ELSE None]

KeptRules == {r \in Live(rules) : /\ NormalRule(rules[r]).monitors # {}
                                  /\ NormalRule(rules[r]).channels # {}}

\* Without secrets, a row only says whether it has one (redactedSecrets).
Exported(rows, full) ==
  [i \in DOMAIN rows |->
     IF full \/ rows[i].secret = None THEN rows[i]
     ELSE [rows[i] EXCEPT !.secret = Hidden]]

ConfigSnapshot(full) ==
  [full |-> full,
   proxies |-> Exported(Rows(proxies), full),
   channels |-> Exported(Rows(channels), full),
   templates |-> Rows(templates),
   monitors |-> Exported([m \in Live(monitors) |-> NormalMonitor(monitors[m])], full),
   rules |-> [r \in KeptRules |-> NormalRule(rules[r])]]

\* A database whose natural keys clash is refused (ambiguous_config).
ExportConfig(full) ==
  /\ up
  /\ NamesDiffer(proxies, channels, templates, monitors, rules)
  /\ backup' = ConfigSnapshot(full)
  /\ Request
  /\ UNCHANGED <<tables, forms, up>>

-----------------------------------------------------------------------------
(* Import.                                                                  *)

\* The active row an item of a backup is merged into, if any.
Matches(t, item) == {i \in Live(t) : t[i].name = item.name}

\* The default template is found by its role, the others by name.
TemplateMatches(j, item) ==
  IF j = DefaultTemplate THEN {DefaultTemplate}
  ELSE Matches(templates, item) \ {DefaultTemplate}

\* At most one row is found (LIMIT 2 and ambiguous otherwise).
Single(found) == \A i, j \in found : i = j

\* f gives every item the row it is merged into, or a new one of its own.
IdMap(f, items, t, match) ==
  /\ \A j \in DOMAIN items : /\ Single(match[j])
                             /\ f[j] \in match[j] \cup Unused(t)
                             /\ match[j] # {} => f[j] \in match[j]
  /\ \A j, k \in DOMAIN items : j # k => f[j] # f[k]

\* A hidden secret can be kept only where there is one.
SecretsKept(items, t, match) ==
  \A j \in DOMAIN items :
    items[j].secret = Hidden => \E i \in match[j] : t[i].secret # None

MergedRow(item, row) ==
  IF item.secret = Hidden THEN [item EXCEPT !.secret = row.secret] ELSE item

\* Table t after the items were written to the rows f gives them.
MergedTable(t, f, items) ==
  [i \in DOMAIN t |->
     IF \E j \in DOMAIN items : f[j] = i
     THEN LET j == CHOOSE k \in DOMAIN items : f[k] = i
          IN MergedRow(items[j], t[i])
     ELSE t[i]]

ImportedMonitor(item, cf, pf) ==
  [item EXCEPT !.channels = {cf[c] : c \in item.channels},
               !.proxy = IF @ = None THEN None ELSE pf[@]]

ImportedRule(item, mf, cf, tf) ==
  [item EXCEPT !.monitors = {mf[m] : m \in item.monitors},
               !.channels = {cf[c] : c \in item.channels},
               !.template = IF @ = None THEN None ELSE tf[@]]

\* Rules are merged one after the other, the last id first: what row r is
\* when item k is looked up.
RuleNow(items, rf, k, r) ==
  LET before == {j \in DOMAIN items : j > k /\ rf[j] = r} IN
  IF before = {} THEN rules[r]
  ELSE items[CHOOSE j \in before : \A i \in before : j <= i]

RuleMatchesBefore(items, rf, k) ==   \* mutant: all rules are looked up first
  {r \in Live(rules) : /\ rules[r].name = items[k].name
                       /\ rules[r].monitors \cap items[k].monitors # {}}

RuleMatches(items, rf, k) ==
  {r \in Rules : /\ RuleNow(items, rf, k, r).status = "active"
                 /\ RuleNow(items, rf, k, r).name = items[k].name
                 /\ RuleNow(items, rf, k, r).monitors \cap items[k].monitors # {}}

RuleMap(items, rf) ==
  \A k \in DOMAIN items :
    LET found == RuleMatches(items, rf, k) IN
    /\ Single(found)
    /\ IF found = {}
       THEN /\ rf[k] \in Unused(rules)
            /\ \A j \in DOMAIN items : j > k => rf[j] # rf[k]
       ELSE rf[k] \in found

\* The name of the default template must not be that of a custom one.
DefaultNameFree ==
  \A j \in DOMAIN backup.templates \cap {DefaultTemplate} :
    ~Taken(templates, backup.templates[j].name, DefaultTemplate)

\* One transaction: any refusal leaves everything as it was.
ImportConfigMerge ==
  LET b == backup
      proxyMatch == [j \in DOMAIN b.proxies |-> Matches(proxies, b.proxies[j])]
      channelMatch == [j \in DOMAIN b.channels |-> Matches(channels, b.channels[j])]
      templateMatch == [j \in DOMAIN b.templates |-> TemplateMatches(j, b.templates[j])]
      monitorMatch == [j \in DOMAIN b.monitors |-> Matches(monitors, b.monitors[j])]
  IN
  /\ up /\ b # NoBackup
  /\ Request
  /\ UNCHANGED <<forms, up, backup>>
  /\ SecretsKept(b.proxies, proxies, proxyMatch)
  /\ SecretsKept(b.channels, channels, channelMatch)
  /\ SecretsKept(b.monitors, monitors, monitorMatch)
  /\ DefaultNameFree
  /\ \E pf \in [DOMAIN b.proxies -> Proxies],
        cf \in [DOMAIN b.channels -> Channels],
        tf \in [DOMAIN b.templates -> Templates],
        mf \in [DOMAIN b.monitors -> Monitors] :
       /\ IdMap(pf, b.proxies, proxies, proxyMatch)
       /\ IdMap(cf, b.channels, channels, channelMatch)
       /\ IdMap(tf, b.templates, templates, templateMatch)
       /\ IdMap(mf, b.monitors, monitors, monitorMatch)
       /\ LET items == [k \in DOMAIN b.rules |->
                          ImportedRule(b.rules[k], mf, cf, tf)]
              found == [j \in DOMAIN b.monitors |->
                          ImportedMonitor(b.monitors[j], cf, pf)]
          IN /\ \E rf \in [DOMAIN items -> Rules] :
                  /\ RuleMap(items, rf)
                  /\ rules' = [r \in Rules |-> RuleNow(items, rf, 0, r)]
             /\ monitors' = MergedTable(monitors, mf, found)
       /\ proxies' = MergedTable(proxies, pf, b.proxies)
       /\ channels' = MergedTable(channels, cf, b.channels)
       /\ templates' = MergedTable(templates, tf, b.templates)

-----------------------------------------------------------------------------
BackupInit == ConfInit /\ backup \in Foreign \cup {NoBackup}

BackupNext ==
  \/ ConfNext /\ UNCHANGED backup
  \/ \E full \in BOOLEAN : ExportConfig(full)
  \/ ImportConfigMerge

BackupSpec == BackupInit /\ [][BackupNext]_backupVars

-----------------------------------------------------------------------------
(* Properties.                                                              *)

\* A backup refers to nothing outside itself, even when it is made while
\* rules and monitors still refer to rows archived under them
\* (normalizeConfigSnapshot).
BackupSelfContained == SelfContained(backup)

NamesIn(ids, t) == {t[i].name : i \in ids \ {None}}

\* An import archives nothing, and afterwards every monitor and rule of the
\* backup is active and refers to the rows of the same names, whichever rows
\* it was merged into (ImportConfigMerge).
ImportReproduces ==
  [][ImportConfigMerge =>
     /\ Live(proxies) \subseteq Live(proxies)'
     /\ Live(channels) \subseteq Live(channels)'
     /\ Live(templates) \subseteq Live(templates)'
     /\ Live(monitors) \subseteq Live(monitors)'
     /\ Live(rules) \subseteq Live(rules)'
     /\ \A j \in DOMAIN backup.monitors : \E m \in Live(monitors)' :
          LET old == backup.monitors[j]  new == monitors'[m] IN
          /\ new.name = old.name
          /\ NamesIn({old.proxy}, backup.proxies) = NamesIn({new.proxy}, proxies')
          /\ NamesIn(old.channels, backup.channels) = NamesIn(new.channels, channels')
     /\ \A j \in DOMAIN backup.rules : \E r \in Live(rules)' :
          LET old == backup.rules[j]  new == rules'[r] IN
          /\ new.name = old.name
          /\ NamesIn(old.monitors, backup.monitors) = NamesIn(new.monitors, monitors')
          /\ NamesIn(old.channels, backup.channels) = NamesIn(new.channels, channels')
          /\ NamesIn({old.template}, backup.templates)
               = NamesIn({new.template}, templates')]_backupVars
=============================================================================
