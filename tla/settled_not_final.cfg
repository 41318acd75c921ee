SPECIFICATION Spec
CONSTANTS
  Workers = {w1, w2}
  Requests = {r1}
  Kinds <- CancelAndClaim
  Contacts = {"none"}
  Expiring = {}
  Nobody = Nobody
  NoRequest = NoRequest
SYMMETRY Symmetry
CHECK_DEADLOCK FALSE
PROPERTY SettledIsFinal
