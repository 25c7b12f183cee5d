CONSTANTS
  k1 = k1
  k2 = k2
  Nothing = Nothing
  Corrupted = Corrupted
  Denied = Denied
  Keys <- TwoKeys
  Values = {1, 2}
  Quota = 3
  Configured = 1
  MaxSchema = 2
  Faulty = FALSE
SYMMETRY KeysAlike
SPECIFICATION StoreSpec
INVARIANTS
  StoreReopens
