SPECIFICATION Spec
CONSTANTS
  Readers = {g1, g2}
  Addr = {a1, a2, a3, a4}
  MaxWrites = 3
INVARIANTS
  TypeOK
  NoConcurrentMapAccess
  WholeSnapshots
PROPERTIES
  MonotonicReads
  FreshReads
