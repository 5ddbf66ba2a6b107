SPECIFICATION Spec
CONSTANTS
  Monitors = {1}
  Slots = {s1}
  Callers = {c1, c2}
  Editors = {e1}
  Configs = {a}
  Items = {x, y}
  Accumulates = TRUE
  MaxChanges = 2
  MaxStops = 2
  s1 = s1
  c1 = c1
  c2 = c2
  e1 = e1
  a = a
  x = x
  y = y
INVARIANTS
  NewsAccountedFor
PROPERTIES
  ArchivedStays
CHECK_DEADLOCK FALSE
