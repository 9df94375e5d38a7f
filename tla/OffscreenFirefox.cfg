CONSTANTS
  p1 = p1
  p2 = p2
  Proofs = {p1, p2}
  Platforms = {"firefox"}
  MaxRestarts = 0
SPECIFICATION OffscreenSpec
INVARIANTS FirefoxProves
CHECK_DEADLOCK FALSE
