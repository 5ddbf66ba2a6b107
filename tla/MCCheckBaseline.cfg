SPECIFICATION Spec
CONSTANTS
  Monitors = {1}
  Slots = {s1}
  Callers = {}
  Editors = {e1, e2}
  Configs = {a, b}
  Items = {x}
  Accumulates = TRUE
  MaxChanges = 0
  MaxStops = 0
  s1 = s1
  e1 = e1
  e2 = e2
  a = a
  b = b
  x = x
INVARIANTS
  FirstFetchIsSilent
CHECK_DEADLOCK FALSE
