SPECIFICATION Spec
CONSTANTS
  BatchSize = 2
  MaxSequenceCache = 2
  TradesLimit = 2
  Radix = 3
  DayLength = 1
  Prices = {1}
  MaxQuantity = 2
  MaxTime = 1
  MaxMessages = 3
  MaxRestRows = 4
  MaxChanges = 3
  MaxWire = 2
  MaxStarts = 2
INVARIANTS
  CaptureTypeOK
  AppendedIsKept
  ReplayedBookIsTheVenues
  TradesNotInflated
CHECK_DEADLOCK FALSE
