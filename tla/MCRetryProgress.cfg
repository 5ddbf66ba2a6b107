SPECIFICATION FairSpec
CONSTANTS
  Operators = {op1}
  Maintenance = maint
  None = None
  Kinds = {"delivery", "test"}
  Lease = 3
  MaxHold = 1
  Faults = FALSE
  MaxFirst = 1
  MaxManualNo = 2
  MaxTime = 6
PROPERTIES
  DeliversMessages
  DueRetryTaken
