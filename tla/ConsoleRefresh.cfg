\* Three requests race on one session that lives long enough to be refreshed
\* twice, with providers of every kind.
CONSTANTS
  Requests = {r1, r2, r3}
  SessionIds = {a}
  LoginStates = {s1}
  SessionTTL = 4
  PendingTTL = 1
  RequestLimit = 1
  AccessTTL = 2
  RefreshMargin = 1
  Loopback = FALSE
  Rotations = {"strict", "grace", "static"}
  MaxTime = 6
  MaxTokens = 5
SPECIFICATION SafetySpec
INVARIANTS TypeOK RefreshableAtRest
PROPERTIES AdmittedInTime AdmittedWithLiveToken TokensMoveForward RenewableForLife
SYMMETRY ConsoleSymmetry
