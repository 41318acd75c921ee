SPECIFICATION Spec
CONSTANTS
  Workers = {w1, w2}
  Requests = {r1}
  Kinds <- ClaimKinds
  Contacts = {"otp"}
  Expiring = {"session"}
  Nobody = Nobody
  NoRequest = NoRequest
SYMMETRY Symmetry
CHECK_DEADLOCK FALSE
INVARIANT IssuedLinksIssuance
PROPERTY SettledLeftOnlyByStaleSave
