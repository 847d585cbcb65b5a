SPECIFICATION Spec
CONSTANTS
  Int32Bits = 3
  Utf8 <- MCUtf8
  Classes <- AllClasses
  Strings <- MCStrings
  Numbers = {1, 5}
  MaxEdits = 4
  MaxRepeated = 2
  MaxUnknown = 12
INVARIANTS TypeOK RoundTrip MergeIsConcatenation CutStreamInventsNothing ThroughAnotherType
CHECK_DEADLOCK FALSE
