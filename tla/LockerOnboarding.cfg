SPECIFICATION LockerSpec
CONSTANTS
  Windows = {w1, w2}
  Passwords = {p1}
  Mnemonics = {m1, m2}
  None = None
  Background = Background
  MaxRestarts = 0
CHECK_DEADLOCK FALSE
PROPERTIES
  MnemonicIsFinal
