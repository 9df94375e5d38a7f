SPECIFICATION VaultSpec
CONSTANTS
  Windows = {w1}
  Passwords = {p1, p2}
  Mnemonics = {m1}
  Ids = {i1, i2}
  Origins = {o1}
  None = None
  Background = Background
  MaxRestarts = 0
  Quota = 2
  ResetWhen = {TRUE, FALSE}
CHECK_DEADLOCK FALSE
PROPERTIES
  KeepsItsPromise
