SPECIFICATION LockerSpec
CONSTANTS
  Windows = {w1, w2}
  Passwords = {p1, p2}
  Mnemonics = {m1, m2}
  None = None
  Background = Background
  MaxRestarts = 1
CHECK_DEADLOCK FALSE
SYMMETRY Interchangeable
INVARIANTS
  LockerTypeOK
  KeysOnlyWhileOpen
  SeedMatchesAccounts
  KeysAreTheWallets
  
  
