\* A program that has returned, or was ended, stops.
CHECK_DEADLOCK FALSE
SPECIFICATION Spec
CONSTANTS
  N = 5
  ThreadCount = 3
  BunkSize = 1
  MaxBytes = 2
  MaxRows = 2
  Columns = 3
  Dests = 2
  Names <- MCNames
  Person <- MCPerson
  Group = 2
  Word = 16
  PcSteps = {1, 2}
  ValSteps <- MCValSteps
  MaxTable = 3
  Entry = 1
  Strings = {"i", "name"}
  Slices = {"b"}
  Bytes = {0, 65, 97}
  Literal <- MCLiteral
  MaxBlocks = 2
  MaxLen = 2
INVARIANTS
  TypeOK
  DoneOnceBeforeAnybodyGoesOn
  OneMessageEach
  NothingIsKept
  InsertNeedsUpdate
  PersonRefersToItself
  ValueOfTheInstruction
PROPERTIES
  OnceReturns
  EndsWithoutListener
  StringsKeepTheirBytes
