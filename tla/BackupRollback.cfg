CONSTANTS
  Services = {"approval", "identity", "credentials"}
  a = a
  b = b
  Entries = {a, b}
  Mine = Mine
  Theirs = Theirs
  None = None
  MaxUploads = 1
  MaxRestarts = 0
SPECIFICATION BackupSpec
INVARIANTS RollbackRestores
SYMMETRY EntrySymmetry
CHECK_DEADLOCK FALSE
