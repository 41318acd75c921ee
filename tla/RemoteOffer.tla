---------------------------- MODULE RemoteOffer ----------------------------
(***************************************************************************)
(* What a remote issuance request promises its issuer and its recipient:   *)
(* it is offered once, and then settled once, either cancelled or issued   *)
(* with one credential, and nothing happens to it after that.              *)
(***************************************************************************)
CONSTANTS
  Requests,  \* ids of the credentials that can come of it
  NoRequest  \* no credential

VARIABLES
  stage,      \* "none", "open", "cancelled" or "issued"
  credential  \* the credential it was issued as

offer == <<stage, credential>>

Offer == stage = "none" /\ stage' = "open" /\ UNCHANGED credential

Cancel == stage = "open" /\ stage' = "cancelled" /\ UNCHANGED credential

Issue(r) == stage = "open" /\ stage' = "issued" /\ credential' = r

Init == stage = "none" /\ credential = NoRequest

Next == Offer \/ Cancel \/ \E r \in Requests : Issue(r)

Spec == Init /\ [][Next]_offer
=============================================================================
