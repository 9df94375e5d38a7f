CONSTANTS
  p1 = p1
  p2 = p2
  p3 = p3
  Proofs = {p1, p2, p3}
  Platforms = {"chrome", "firefox"}
  MaxRestarts = 1
SPECIFICATION OffscreenSpec
INVARIANTS OffscreenTypeOK AloneProves DocumentIsClosed
PROPERTIES ProofsReturn
CHECK_DEADLOCK FALSE
