-------------------------- MODULE MCAsyncIssuance --------------------------
EXTENDS AsyncIssuance, TLC

Symmetry == Permutations(Workers)

\* From creation to the recipient's notification and verification code, failed
\* sends and bounces included, with what an issuer can do to the request meanwhile.
DeliveryKinds ==
  {"create", "notify", "notifyFail", "update", "cancel", "cancelJob",
   "bounceIssuance", "otp", "otpFail", "bounceVerification"}

\* From a request to the issued credential, by verification code or as an
\* authenticated identity, with the error handlers of the claims and the batch
\* cancellation beside it.
ClaimKinds ==
  {"create", "otp", "acquire", "concierge", "claim", "claimFail",
   "claimReject", "callback", "cancelJob"}

\* Handlers that read and save in one transaction, while a request is claimed.
InTransactionKinds ==
  {"create", "otp", "bounceVerification", "acquire", "claim", "callback", "cancel", "update"}

\* The least that shows a disagreement with the documentation.
CancelAndClaim == {"create", "cancel", "concierge"}
CancelAndUpdate == {"create", "cancel", "update"}
BatchCancel == {"create", "concierge", "claim", "callback", "cancelJob"}
OtpAndConcierge == {"create", "otp", "concierge"}
ClaimOnly == {"create", "concierge", "claim", "callback"}
=============================================================================
