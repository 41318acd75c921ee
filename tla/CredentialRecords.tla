------------------------- MODULE CredentialRecords --------------------------
(***************************************************************************)
(* FindCredentialRecordsQuery: the life cycle status of a credential       *)
(* record, computed from three tables by a UNION of three branches, and    *)
(* the filter by status and issuance method, which is written a second     *)
(* time, as WHERE conditions and as the choice of the branches to run.     *)
(*                                                                         *)
(* A record is what the tables hold under one credential record id, with   *)
(* the comparisons of its dates with now already made.  Conditions on ids  *)
(* and dates, which all branches share, and paging are left out.           *)
(*                                                                         *)
(* A "Variant" is a faulty form of the definition after it, kept to show   *)
(* that a property notices the fault.                                      *)
(***************************************************************************)
AsyncStates ==
  {"pending", "contacted", "contact-failed", "verification-complete",
   "issuance-verification-failed", "issuance-failed", "issued", "cancelled"}

Records ==
  [issuance     : {"none", "active", "revoked"},  \* issuance row, is_revoked
   past         : BOOLEAN,                        \* issuance.expires_at < now
   async        : {"none"} \cup AsyncStates,      \* async_issuance row, state
   verification : BOOLEAN,                        \* has_verification_communication
   asyncPast    : BOOLEAN,                        \* async_issuance.expires_on < now
   cancelled    : BOOLEAN,                        \* credential_record.cancelled_at
   failed       : BOOLEAN,                        \* credential_record.failed_at
   lapsed       : BOOLEAN]                        \* credential_record.expires_at < now

\* An async_issuance row is issued exactly when the record has an issuance.
Consistent(r) == r.async # "none" => (r.async = "issued" <=> r.issuance # "none")

Branches == {"issuance", "async", "record"}
Methods == {"inPerson", "remote"}

\* Variant: the third branch is joined with the issuance table only.
HasRowUnjoined(b, r) ==
  CASE b = "issuance" -> r.issuance # "none"
    [] b = "async"    -> r.async \notin {"none", "issued"}
    [] b = "record"   -> r.issuance = "none"

\* Where a branch finds the record at all.
HasRow(b, r) ==
  CASE b = "issuance" -> r.issuance # "none"
    [] b = "async"    -> r.async \notin {"none", "issued"}
    [] b = "record"   -> r.issuance = "none" /\ r.async = "none"

-----------------------------------------------------------------------------
(* The CASE expressions. *)

IssuanceStatus(r) ==
  CASE r.issuance = "revoked" -> "revoked"
    [] r.issuance # "revoked" /\ r.past -> "expired"
    [] OTHER -> "issuanceCompleted"

AsyncStatus(r) ==
  LET open(state) == r.async = state /\ ~r.asyncPast
  IN CASE r.async = "cancelled" -> "offerCancelled"
       [] r.async # "cancelled" /\ r.asyncPast -> "offerExpired"
       [] open("issuance-verification-failed") -> "identityNotVerified"
       [] open("contact-failed") -> "offerFailed"
       [] open("issuance-failed") -> "issuanceFailed"
       [] open("verification-complete") -> "issuanceStarted"
       [] ~r.asyncPast /\ r.async \in {"pending", "contacted", "issued"} ->
            (IF r.verification THEN "verificationStarted" ELSE "offered")
       [] OTHER -> "offered"

RecordStatus(r) ==
  CASE r.cancelled -> "offerCancelled"
    [] ~r.cancelled /\ r.failed -> "issuanceFailed"
    [] ~r.cancelled /\ ~r.failed /\ r.lapsed -> "issuanceExpired"
    [] OTHER -> "issuanceStarted"

Status(b, r) ==
  CASE b = "issuance" -> IssuanceStatus(r)
    [] b = "async"    -> AsyncStatus(r)
    [] b = "record"   -> RecordStatus(r)

Method(b, r) ==
  IF b = "async" \/ (b = "issuance" /\ r.async # "none") THEN "remote" ELSE "inPerson"

\* The status of a record in an unfiltered query.
credentialRecordStatus(r) == Status(CHOOSE b \in Branches : HasRow(b, r), r)

-----------------------------------------------------------------------------
(* The filter: status is a status or "any", method a method or "any". *)

Included ==
  [issuance |-> {"issuanceCompleted", "revoked", "expired"},
   async    |-> {"offered", "offerFailed", "offerExpired", "offerCancelled",
                 "verificationStarted", "identityNotVerified", "verificationFailed",
                 "issuanceFailed", "issuanceStarted"},
   record   |-> {"issuanceStarted", "issuanceFailed", "offerCancelled", "issuanceExpired"}]

\* Variant: remote requests are looked for in the pending tables only.
PendingOnly(b, status, method) ==
  /\ status = "any" \/ status \in Included[b]
  /\ b = "async" => method # "inPerson"
  /\ b \in {"issuance", "record"} => method # "remote"

shouldInclude(b, status, method) ==
  /\ status = "any" \/ status \in Included[b]
  /\ b = "async" => method # "inPerson"
  /\ b = "record" => method # "remote"

IssuanceCondition(r, status) ==
  CASE status = "issuanceCompleted" -> r.issuance # "revoked" /\ ~r.past
    [] status = "revoked" -> r.issuance = "revoked"
    [] status = "expired" -> r.issuance # "revoked" /\ r.past
    [] OTHER -> TRUE

AsyncCondition(r, status) ==
  CASE status = "offered" -> r.async \in {"pending", "contacted"} /\ ~r.asyncPast
    [] status = "offerExpired" -> r.async \notin {"issued", "cancelled"} /\ r.asyncPast
    [] status = "offerFailed" -> r.async = "contact-failed" /\ ~r.asyncPast
    [] status = "issuanceFailed" -> r.async = "issuance-failed" /\ ~r.asyncPast
    [] status = "offerCancelled" -> r.async = "cancelled"
    [] status = "identityNotVerified" -> r.async = "issuance-verification-failed" /\ ~r.asyncPast
    [] status = "verificationFailed" -> FALSE
    [] status = "verificationStarted" ->
         /\ r.verification /\ ~r.asyncPast
         /\ r.async \notin {"contact-failed", "issuance-failed",
                            "issuance-verification-failed", "cancelled"}
    [] status = "issuanceStarted" -> r.async = "verification-complete" /\ ~r.asyncPast
    [] OTHER -> TRUE

RecordCondition(r, status) ==
  CASE status = "offerCancelled" -> r.cancelled
    [] status = "issuanceFailed" -> r.failed /\ ~r.cancelled
    [] status = "issuanceExpired" -> ~r.cancelled /\ ~r.failed /\ r.lapsed
    [] status = "issuanceStarted" -> ~r.failed /\ ~r.cancelled /\ ~r.lapsed
    [] OTHER -> TRUE

Condition(b, r, status) ==
  CASE b = "issuance" -> IssuanceCondition(r, status)
    [] b = "async"    -> AsyncCondition(r, status)
    [] b = "record"   -> RecordCondition(r, status)

\* Only the issuance branch has a condition on the method.
MethodCondition(b, r, method) ==
  (b = "issuance" /\ method # "any") => (method = "remote" <=> r.async # "none")

\* The branches that return the record.
Listed(r, status, method) ==
  {b \in Branches :
     /\ shouldInclude(b, status, method) /\ HasRow(b, r)
     /\ Condition(b, r, status) /\ MethodCondition(b, r, method)}

-----------------------------------------------------------------------------
(* What the query promises. *)

Statuses == Included.issuance \cup Included.async \cup Included.record \cup
            {"offerAccepted", "verificationCompleted"}

\* The statuses whose condition in the async branch is wider than its CASE.
LooseStatuses == {"offered", "verificationStarted"}

\* The branches partition the consistent records: none is missing from an
\* unfiltered query and none is counted twice.
ListedByOneBranch(r) ==
  \E b \in Branches : Listed(r, "any", "any") = {b}

\* A filter is the unfiltered query narrowed down: the WHERE conditions, the
\* choice of branches and the CASE expressions say the same.
FilterNarrows(r, status, method) ==
  Listed(r, status, method) =
    {b \in Listed(r, "any", "any") :
       /\ status \in {"any", Status(b, r)}
       /\ method \in {"any", Method(b, r)}}
=============================================================================
