CONSTANTS
  Sites = {s1, s2}
  Kinds = {"connect", "reveal", "join", "merkle", "import", "credential", "present"}
  Identities = {i1, i2}
  None = None
  MaxRequests = 2
  MaxRemounts = 1
  MaxSubmits = 1
  MaxElsewhere = 2
  MaxRestarts = 1
SPECIFICATION Spec
INVARIANTS PagesTypeOK RepliesMatch AnswersWereAsked RevealsWhatWasShown LockReachesPages WaitingIsAnswered

CONSTRAINT Bounded
SYMMETRY Symmetric
CHECK_DEADLOCK FALSE
