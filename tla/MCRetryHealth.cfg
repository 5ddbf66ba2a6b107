SPECIFICATION Spec
CONSTANTS
  Operators = {op1}
  Maintenance = maint
  None = None
  Kinds = {"monitor_failure", "monitor_recovery"}
  Lease = 3
  MaxHold = 1
  Faults = FALSE
  MaxFirst = 2
  MaxManualNo = 1
  MaxTime = 3
PROPERTIES
  StoppedStays
