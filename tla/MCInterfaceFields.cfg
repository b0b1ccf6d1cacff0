\* The program ends.
SPECIFICATION Spec
CONSTANTS
  Types <- MCTypes
  Inputs <- MCFields
  Stack = 17
  MaxWrites = 1
INVARIANT EqualIsDeepEqual
CHECK_DEADLOCK FALSE
