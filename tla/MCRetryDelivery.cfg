SPECIFICATION Spec
CONSTANTS
  Operators = {op1, op2}
  Maintenance = maint
  None = None
  Kinds = {"delivery"}
  Lease = 3
  MaxHold = 1
  Faults = TRUE
  MaxFirst = 1
  MaxManualNo = 2
  MaxTime = 4
SYMMETRY OperatorSymmetry
INVARIANTS
  TypeOK
  ChainIntegrity
  SupersededUnclaimed
  OnlyLatePassOvertaken
