SPECIFICATION FairSpec
CONSTANTS
  gauge = gauge
  other = other
  memory0 = memory0
  Nil = nil
  Low = low
  Absent = absent
  Garbled = garbled
  Text <- MCText
  Empty = ""
  Trim <- MCTrim
  Wasm = "wasm"
  Memory = "_mem"
  Callbacks = {"_cap"}
  Words = {"named"}
  BuiltIn <- MCBuiltIn
  Files <- MCFiles
  Module = {gauge, other}
  Place <- MCPlace
  Hinted <- MCHinted
  Generated = {other}
  Ending <- MCEnding
  Images <- MCImages
  Base = {memory0}
  Contents <- MCContents
INVARIANTS UniqueIds MergedAsWhole AcceptsOnlyCompatible
  EarlierProfileWins RejectionExplained
CONSTRAINT OtherIsSimple
ACTION_CONSTRAINT OtherStays
PROPERTY Recognised
CHECK_DEADLOCK FALSE
