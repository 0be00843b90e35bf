\* Three runs over two accounts and three spellings, at most one call each.
CONSTANTS
  r1 = r1
  r2 = r2
  r3 = r3
  None = None
  Runs <- ThreeRuns
  Spelled <- Spellings
  Account = {10, 20}
  normalizeSuiAddress <- SpellingsOf
  Entries = {1, 2, 3, 4}
  Recipes <- Calls
  MaxRuns = 1
SPECIFICATION Spec
SYMMETRY RunSymmetry
INVARIANTS TypeOK BuildersExclusive ReservationIsQuiet EntriesLiveWhileUsed SomeoneMoves
CHECK_DEADLOCK FALSE
