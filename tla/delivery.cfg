SPECIFICATION Spec
CONSTANTS
  Workers = {w1, w2}
  Requests = {r1}
  Kinds <- DeliveryKinds
  Contacts = {"none", "notify", "otp"}
  Expiring = {"throttle", "details"}
  Nobody = Nobody
  NoRequest = NoRequest
SYMMETRY Symmetry
CHECK_DEADLOCK FALSE
INVARIANT TypeOK
INVARIANT SnapshotCurrent
