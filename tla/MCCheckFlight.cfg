SPECIFICATION FairSpec
CONSTANTS
  Monitors = {1, 2}
  Slots = {s1}
  Callers = {c1}
  Editors = {}
  Configs = {a}
  Items = {}
  Accumulates = TRUE
  MaxChanges = 0
  MaxStops = 1
  s1 = s1
  c1 = c1
  a = a
INVARIANTS
  OneCheckAtATime
PROPERTIES
  DueIsChecked
CHECK_DEADLOCK FALSE
