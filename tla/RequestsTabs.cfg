CONSTANTS
  t1 = t1
  t2 = t2
  Tabs = {t1, t2}
  Ui = Ui
  None = None
  MaxWindows = 2
  MaxRequests = 3
  MaxRestarts = 1
SPECIFICATION RequestsSpec
INVARIANTS RequestsTypeOK Consent QueueIsAlive CachedIsReal CallbacksWake
SYMMETRY TabSymmetry
CHECK_DEADLOCK FALSE
