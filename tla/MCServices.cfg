CONSTANTS
  Handlers = {h1, h2}
  Messages = {q1, q2}
  Envelope <- MCEnvelope
  Members = {u}
  Apps = {x, y}
  NoMessage = NoMessage
  Never = Never
  x = x
  y = y
  u = u
  q1 = q1
  q2 = q2
  Slots = 1
  Window = 1
  Retention = 4
  Patience = 1
  MaxTime = 5
  MaxDeliveries = 3
  MaxEdits = 1
  MaxCrashes = 1
  Browsers = {b1, b2}
  Passwords = {pw1, pw2}
  pw1 = pw1
  pw2 = pw2
  Watcher = Watcher
  Nobody = Nobody
  Max = 1
  Span = 2
  MaxHashes = 2
  MaxTries = 2
  MaxSeconds = 2
  MaxKills = 1
  Dispatchers = {d1, d2}
  News = {n1}
  Rules = {1}
  Receivers = {c1, c2}
  NoRule = NoRule
  NoNews = NoNews
  NoOne = NoOne
  NeverFired = NeverFired
  Cooldown = 1
  MaxNow = 1
  MaxSurprises = 3
  AlertChannels = {a1}
  MaxThreshold = 2
  MaxForms = 2
  MaxBreaks = 1
SPECIFICATION ServicesSpec
INVARIANTS AtMostOnce CapacityKept RefusedMayReturn NoRuleForgotten LossExplained
PROPERTIES SlotsReturn NeverBack Adopted CooldownKept LocksReturn
           FailingIsAnnounced HealthyIsClosed
CHECK_DEADLOCK FALSE
