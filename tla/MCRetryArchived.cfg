SPECIFICATION Spec
CONSTANTS
  Operators = {op1}
  Maintenance = maint
  None = None
  Kinds = {"delivery"}
  Lease = 3
  MaxHold = 1
  Faults = FALSE
  MaxFirst = 1
  MaxManualNo = 1
  MaxTime = 4
PROPERTY
  ArchivedMonitorSilent
