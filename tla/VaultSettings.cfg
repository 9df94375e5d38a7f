SPECIFICATION VaultSpec
CONSTANTS
  Windows = {w1}
  Passwords = {p1, p2}
  Mnemonics = {m1}
  Ids = {i1, i2}
  Origins = {o1}
  None = None
  Background = Background
  MaxRestarts = 1
  Quota = 1
  ResetWhen = {TRUE}
CHECK_DEADLOCK FALSE
SYMMETRY Alike
INVARIANTS
  OpenHasItsKeys
  MapsShowStores
PROPERTIES
  KeepsItsPromise
