\* The program ends.
SPECIFICATION Spec
CONSTANTS
  Types <- MCTypes
  Inputs <- MCInputs
  Stack = 17
  MaxWrites = 1
INVARIANTS
  TypeOK
  EqualIsJustified
  
  OverflowMeansCycle
  CopyStandsAlone
CHECK_DEADLOCK FALSE
