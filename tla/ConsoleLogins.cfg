\* Two logins and the loopback bootstrap race for two sessions.  No symmetry:
\* EveryRequestAnswered is a liveness property.
CONSTANTS
  Requests = {r1, r2}
  SessionIds = {a, b}
  LoginStates = {s1, s2}
  SessionTTL = 2
  PendingTTL = 1
  RequestLimit = 1
  AccessTTL = 2
  RefreshMargin = 1
  Loopback = TRUE
  Rotations = {"strict"}
  MaxTime = 2
  MaxTokens = 2
SPECIFICATION Spec
INVARIANTS OneSessionPerLogin
PROPERTIES ImplementsLedger EveryRequestAnswered
