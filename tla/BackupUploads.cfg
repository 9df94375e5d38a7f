CONSTANTS
  Services = {"approval", "identity", "credentials"}
  a = a
  b = b
  Entries = {a, b}
  Mine = Mine
  Theirs = Theirs
  None = None
  MaxUploads = 2
  MaxRestarts = 1
SPECIFICATION BackupSpec
INVARIANTS BackupTypeOK NothingLost UploadIsWhole FailedInstallIsUndone
SYMMETRY EntrySymmetry
CHECK_DEADLOCK FALSE
