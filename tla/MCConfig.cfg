CONSTANTS
  p = p
  c1 = c1
  c2 = c2
  d = d
  t = t
  m1 = m1
  m2 = m2
  n1 = n1
  n2 = n2
  s1 = s1
  s2 = s2
  k1 = k1
  k2 = k2
  None = None
  Clear = Clear
  Proxies = {p}
  Channels = {c1, c2}
  Templates = {d, t}
  Monitors = {m1, m2}
  Rules = {1, 2}
  DefaultTemplate = d
  Names = {n1, n2}
  Secrets = {s1, s2}
  Clients = {k1, k2}
  ProxyInputs <- MCProxyInputs
  ChannelInputs <- MCChannelInputs
  TemplateInputs <- MCTemplateInputs
  MonitorInputs <- MCMonitorInputs
  RuleInputs <- MCRuleInputs
  Legacy <- MCLegacy
  Foreign <- MCForeign
  MaxRequests = 4
  Retriers = {w1}
  Events = {1}
  NoEvent = NoEvent
  Unset = Unset
  ClaimLease = 1
  EventAge = 1
  AttemptAge = 1
  BatchSize = 1
  MaxAttempts = 2
  MaxDays = 3
  word = word
  when = when
  title = title
  Fields = {when, title}
  TimeFields = {when}
  Words = {word}
  Blank = Blank
  Absent = Absent
  NoTime = NoTime
  Nil = Nil
  Ages = {0, 2}
  Conditions <- MCAllConditions
  Depth <- MCDepth
  RuleForms <- MCRuleForms
  DayLength = 4
  MaxDepth = 2
  MaxNodes = 5
  MaxSpan = 2
  MonitorIds = {0, 1, 2, 5, 20}
  Intervals = {30, 300, 21600, 24000, 604800}
  Times = {2699, 2700, 3299, 3300, 27000, 33000, 1943999, 1944000, 2375999, 2376000}
  Unchecked = Unchecked
  MaxFailures = 8
SPECIFICATION MCSpec
INVARIANTS RunnableRules NamesApart BackupSelfContained ResolvedStaysResolved ClaimedRowKept
           DecidesRight IntervalBounds
PROPERTIES RepairMakesWhole ProxyNotPulled ArchivedUnreferenced ImportReproduces
SYMMETRY Twins
CHECK_DEADLOCK FALSE
