CONSTANTS
  Windows = {w1, w2}
  Credentials = {c1, c2}
  Names = {n1}
  None = None
  MaxCalls = 3
  MaxRestarts = 1
SPECIFICATION Spec
SYMMETRY Symmetric
INVARIANTS CredentialsTypeOK HistoryKept SettingObeyed PresentsAsSigned
PROPERTIES ImplementsCatalog
CONSTRAINT Healthy
