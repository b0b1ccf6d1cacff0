SPECIFICATION FairSpec
CONSTANTS
  MaxSent = 2
  MaxBurst = 2
CHECK_DEADLOCK FALSE
PROPERTIES
  AllDataRead
