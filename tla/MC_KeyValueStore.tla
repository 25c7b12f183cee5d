-------------------------- MODULE MC_KeyValueStore --------------------------
(* Two keys with values of one and two bytes, which do not all fit the       *)
(* quota together, and one schema migration.                                 *)
EXTENDS KeyValueStore, TLC
CONSTANTS k1, k2
TwoKeys == {k1, k2}
KeysAlike == Permutations(TwoKeys)
=============================================================================
