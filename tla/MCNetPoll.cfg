\* A closed connection that nobody reads any more stops.
SPECIFICATION FairSpec
CONSTANTS
  NetPolls = 2
  MaxSets = 2
  MaxBytes = 2
INVARIANTS
  TypeOK
  OneWakeForEachPark
  ConsistentDeadline
PROPERTY
  Implements
