SPECIFICATION FairSpec
CONSTANTS
  MaxSent = 4
  MaxBurst = 2
CHECK_DEADLOCK FALSE
INVARIANTS
  TypeOK
  NothingLeaks
  KeepsUpWithSingleBytes
PROPERTIES
  NeverHangsInRead
