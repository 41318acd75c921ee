SPECIFICATION Spec
CONSTANTS
  Workers = {w1, w2}
  i1 = i1
  i2 = i2
  Logins = {i1, i2}
  Tokens = {t1, t2}
  Requests = {r1, r2}
  MaxDeliveries = 2
  Credentials = {c1, c2}
  EntraCredentials = {c1}
  EntraSub = EntraSub
  Scenarios <- AllScenarios
  None = None
SYMMETRY Symmetry
INVARIANTS TypeOK LoginOnOwnPresentation LoginOnRecorded LoginAsRequested TokensOfEntraUser
CHECK_DEADLOCK FALSE
