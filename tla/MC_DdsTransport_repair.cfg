\* What the unit test says of repairs: they reach the reader that asks.
CONSTANTS
  w1 = w1
  w2 = w2
  r1 = r1
  r2 = r2
  Writers <- TwoWriters
  Readers <- TwoReaders
  ReaderId <- OwnId
  Profiles <- DocumentedProfiles
  BitmapBits = 256
SPECIFICATION Spec
INVARIANT RepairsReachRequester
CHECK_DEADLOCK FALSE
