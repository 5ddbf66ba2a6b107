SPECIFICATION Spec
CONSTANTS
  Monitors = {1}
  Slots = {s1}
  Callers = {c1}
  Editors = {}
  Configs = {a}
  Items = {x, y}
  Accumulates = TRUE
  MaxChanges = 1
  MaxStops = 1
  s1 = s1
  c1 = c1
  a = a
  x = x
  y = y
INVARIANTS
  NoNewsLost
CHECK_DEADLOCK FALSE
