\* Main returns.
CHECK_DEADLOCK FALSE
SPECIFICATION SqlSpec
CONSTANTS
  MaxRows = 2
  Columns = 3
  Dests = 2
INVARIANT RowsPrinted
