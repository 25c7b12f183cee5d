\* What a repair request says of it: no sample is missing, whoever wrote it.
CONSTANTS
  w1 = w1
  w2 = w2
  r1 = r1
  r2 = r2
  Writers <- TwoWriters
  Readers <- TwoReaders
  ReaderId <- OwnId
  Profiles <- DocumentedProfiles
  BitmapBits = 256
SPECIFICATION Spec
INVARIANT NothingHiddenOfAny
CHECK_DEADLOCK FALSE
