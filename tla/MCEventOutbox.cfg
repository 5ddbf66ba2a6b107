SPECIFICATION FairSpec
CONSTANTS
  NEvents = 2
  Stale = 2
  MaxAttempts = 3
  PageSize = 1
  Faults = TRUE
INVARIANTS
  OnlyStaleOvertaken
PROPERTIES
  GivenUpOnlyAfterLimit
  DeliverySpec
  Settles
