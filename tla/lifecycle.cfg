SPECIFICATION Spec
CONSTANTS
  Workers = {w1, w2}
  Requests = {r1}
  Kinds <- InTransactionKinds
  Contacts = {"otp"}
  Expiring = {"code", "details"}
  Nobody = Nobody
  NoRequest = NoRequest
SYMMETRY Symmetry
CHECK_DEADLOCK FALSE
INVARIANT IssuedHasNoData
INVARIANT ListedOnce
PROPERTY ImplementsOffer
PROPERTY VerificationFlagKept
