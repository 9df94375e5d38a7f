SPECIFICATION VaultSpec
CONSTANTS
  Windows = {w1, w2}
  Passwords = {p1, p2}
  Mnemonics = {m1}
  Ids = {i1, i2}
  Origins = {o1}
  None = None
  Background = Background
  MaxRestarts = 0
  Quota = 1
  ResetWhen = {}
CHECK_DEADLOCK FALSE
SYMMETRY Alike
INVARIANTS
  VaultTypeOK
  MapsShowStores
  LockedForgets
PROPERTIES
  KeepsItsPromise
