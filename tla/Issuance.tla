------------------------------ MODULE Issuance ------------------------------
(***************************************************************************)
(* One Verified ID issuance request from its creation to the revocation of *)
(* its credential: the wallet, the callbacks of the Verified ID service,   *)
(* their handler and the forwarding to the consumer, cancellation and      *)
(* revocation by operators, and the credential record's status.            *)
(*                                                                         *)
(* A callback that is not answered with a success is sent again, so its    *)
(* handler runs again after whatever the first run has done.  Callbacks of *)
(* different kinds are handled side by side.  Operators' transactions read *)
(* first and save in a later step; all columns they write are their own.   *)
(*                                                                         *)
(* The request details live for an hour, the QR code for five minutes: the *)
(* details are taken to be there for every callback.  A "Variant" is a     *)
(* faulty form of the definition after it, kept to show that a property    *)
(* notices the fault.                                                      *)
(***************************************************************************)
EXTENDS Naturals

CONSTANTS
  Dated,        \* the request gives the date on which the credential expires
  Workers,      \* operators' handlers that run at the same time
  MaxFailures   \* bound: callback handlers that fail, and failed forwards

ASSUME FailuresAssumption == MaxFailures \in Nat
ASSUME DatedAssumption == Dated \in BOOLEAN

VARIABLES
  remote,    \* the request was made for a remote issuance
  request,   \* "none", "shown", "scanned" or "accepted" by the wallet
  callback,  \* per kind of event: "none", "pending" or "answered"
  entra,     \* the credential in Verified ID: "none", "valid" or "revoked"
  record,    \* the credential_record row
  issuance,  \* the issuance row: "none", "active" or "revoked"
  past,      \* issuance.expires_at has passed
  cached,    \* the event in issuanceCache, or "none"
  told,      \* events the consumer's endpoint received
  failures,  \* failures so far
  handler,   \* per kind of event: next step of its callback's handler
  op         \* per worker: next step of its command

db    == <<record, issuance, past>>
world == <<remote, request, callback, entra>>
vars  == <<world, db, cached, told, failures, handler, op>>

Success == "issuance_successful"
Error == "issuance_error"
Retrieved == "request_retrieved"
Final == {Success, Error}
Kinds == {Success, Error, Retrieved}

Send(k) == callback' = [callback EXCEPT ![k] = IF @ = "none" THEN "pending" ELSE @]

-----------------------------------------------------------------------------
(* CreateIssuanceRequestCommand, the wallet and Verified ID. *)

\* The record is inserted, the request details are cached, the QR code is shown.
Create ==
  /\ request = "none"
  /\ request' = "shown"
  /\ UNCHANGED <<remote, callback, entra, db, cached, told, failures, handler, op>>

Scan ==
  /\ request = "shown" /\ ~record.lapsed
  /\ request' = "scanned"
  /\ Send(Retrieved)
  /\ UNCHANGED <<remote, entra, db, cached, told, failures, handler, op>>

\* An invalid PIN; the recipient may try again.
RejectPin ==
  /\ request = "scanned"
  /\ Send(Error)
  /\ UNCHANGED <<remote, request, entra, db, cached, told, failures, handler, op>>

Accept ==
  /\ request = "scanned"
  /\ request' = "accepted"
  /\ entra' = "valid"
  /\ Send(Success)
  /\ UNCHANGED <<remote, db, cached, told, failures, handler, op>>

-----------------------------------------------------------------------------
(* requestCallbackMiddleware and issuanceCallbackHandler. *)

Step(k, s) == handler' = [handler EXCEPT ![k] = s]

\* Variant: every event is taken for a failure or a success.
AlwaysSaves(k) == "save"

\* Variant: the event goes out before it is recorded.
NeverSaves(k) == "cache"

\* Only a success, and an error of an in-person request, is recorded.
FirstStep(k) == IF k = Success \/ (k = Error /\ ~remote) THEN "save" ELSE "cache"

Deliver(k) ==
  /\ callback[k] = "pending" /\ handler[k] = "idle"
  /\ Step(k, FirstStep(k))
  /\ UNCHANGED <<world, db, cached, told, failures, op>>

\* Variant: the row is written anew.
Overwritten(i) == "active"

\* The id comes from the request details: a second save finds the row, and
\* leaves the columns alone that it does not set.
Upserted(i) == IF i = "none" THEN "active" ELSE i

\* Without a given date the validity begins with the save, each time.
ExpiryRenewed(p) == Dated /\ p

\* Completing a remote issuance throws when it was completed before.
SaveSuccess ==
  /\ handler[Success] = "save"
  /\ remote => issuance = "none"
  /\ issuance' = Upserted(issuance)
  /\ past' = ExpiryRenewed(past)
  /\ Step(Success, "cache")
  /\ UNCHANGED <<world, record, cached, told, failures, op>>

\* The exception rolls back and is answered with a 500.
RefuseSuccess ==
  /\ handler[Success] = "save"
  /\ remote /\ issuance # "none"
  /\ Step(Success, "idle")
  /\ UNCHANGED <<world, db, cached, told, failures, op>>

SaveFailed ==
  /\ handler[Error] = "save"
  /\ record' = [record EXCEPT !.failed = TRUE]
  /\ Step(Error, "cache")
  /\ UNCHANGED <<world, issuance, past, cached, told, failures, op>>

\* addIssuanceDataToCache; publishIssuanceEvent is not awaited.
CacheEvent(k) ==
  /\ handler[k] = "cache"
  /\ cached' = k
  /\ Step(k, "forward")
  /\ UNCHANGED <<world, db, told, failures, op>>

\* The database, the cache or the instance fails: no answer, or a 500.
HandlerFails(k) ==
  /\ handler[k] \in {"save", "cache"} /\ failures < MaxFailures
  /\ failures' = failures + 1
  /\ Step(k, "idle")
  /\ UNCHANGED <<world, db, cached, told, op>>

\* Variant: the callback is answered before the consumer has answered.
AnsweredFirst(k, ok) == [callback EXCEPT ![k] = "answered"]

\* The consumer's answer is passed on to Verified ID.
Answered(k, ok) == [callback EXCEPT ![k] = IF ok THEN "answered" ELSE @]

Forward(k) ==
  /\ handler[k] = "forward"
  /\ told' = told \cup {k}
  /\ callback' = Answered(k, TRUE)
  /\ Step(k, "idle")
  /\ UNCHANGED <<remote, request, entra, db, cached, failures, op>>

\* The consumer does not get the event, or fails after it got it.
ForwardFails(k) ==
  /\ handler[k] = "forward" /\ failures < MaxFailures
  /\ failures' = failures + 1
  /\ told' \in {told, told \cup {k}}
  /\ callback' = Answered(k, FALSE)
  /\ Step(k, "idle")
  /\ UNCHANGED <<remote, request, entra, db, cached, op>>

-----------------------------------------------------------------------------
(* CancelIssuanceRequestCommand. *)

Goto(w, s) == op' = [op EXCEPT ![w] = s]

CancelRead(w) ==
  /\ op[w] = "idle"
  /\ request # "none" /\ ~record.cancelled
  /\ Goto(w, "cancelCheck")
  /\ UNCHANGED <<world, db, cached, told, failures, handler>>

\* Neither an issuance nor a remote issuance belongs to the record.
CancelCheck(w) ==
  /\ op[w] = "cancelCheck"
  /\ issuance = "none" /\ ~remote
  /\ Goto(w, "cancelSave")
  /\ UNCHANGED <<world, db, cached, told, failures, handler>>

CancelSave(w) ==
  /\ op[w] = "cancelSave"
  /\ record' = [record EXCEPT !.cancelled = TRUE]
  /\ Goto(w, "idle")
  /\ UNCHANGED <<world, issuance, past, cached, told, failures, handler>>

-----------------------------------------------------------------------------
(* RevokeIssuanceCommand and the revocation jobs, which read all rows up front
   and revoke each in a transaction of its own, from the row as it was. *)

\* Variant: the row is saved without a call to Verified ID.
RevokeReadOnly(w) ==
  /\ op[w] = "idle" /\ issuance = "active"
  /\ Goto(w, "revokeSave")
  /\ UNCHANGED <<world, db, cached, told, failures, handler>>

RevokeRead(w) ==
  /\ op[w] = "idle" /\ issuance = "active"
  /\ Goto(w, "revokeEntra")
  /\ UNCHANGED <<world, db, cached, told, failures, handler>>

\* An expired credential need not be found any more; then nothing is saved.
RevokeEntra(w) ==
  /\ op[w] = "revokeEntra"
  /\ \/ entra' = "revoked" /\ Goto(w, "revokeSave")
     \/ past /\ Goto(w, "idle") /\ UNCHANGED entra
  /\ UNCHANGED <<remote, request, callback, db, cached, told, failures, handler>>

RevokeSave(w) ==
  /\ op[w] = "revokeSave"
  /\ issuance' = "revoked"
  /\ Goto(w, "idle")
  /\ UNCHANGED <<world, record, past, cached, told, failures, handler>>

\* A command fails, is refused or its instance stops: its transaction rolls
\* back, what it did in Verified ID stays.
Abort(w) ==
  /\ op[w] # "idle"
  /\ Goto(w, "idle")
  /\ UNCHANGED <<world, db, cached, told, failures, handler>>

-----------------------------------------------------------------------------
(* Time: the QR code's window closes, the credential expires. *)

Lapse ==
  /\ request # "none" /\ ~record.lapsed
  /\ record' = [record EXCEPT !.lapsed = TRUE]
  /\ UNCHANGED <<world, issuance, past, cached, told, failures, handler, op>>

Expire ==
  /\ issuance # "none" /\ ~past
  /\ past' = TRUE
  /\ UNCHANGED <<world, record, issuance, cached, told, failures, handler, op>>

-----------------------------------------------------------------------------
Init ==
  /\ remote \in BOOLEAN
  /\ request = "none" /\ entra = "none"
  /\ callback = [k \in Kinds |-> "none"]
  /\ record = [cancelled |-> FALSE, failed |-> FALSE, lapsed |-> FALSE]
  /\ issuance = "none" /\ past = FALSE
  /\ cached = "none" /\ told = {} /\ failures = 0
  /\ handler = [k \in Kinds |-> "idle"]
  /\ op = [w \in Workers |-> "idle"]

Handle(k) ==
  \/ Deliver(k) \/ CacheEvent(k) \/ HandlerFails(k) \/ Forward(k) \/ ForwardFails(k)
  \/ k = Success /\ (SaveSuccess \/ RefuseSuccess)
  \/ k = Error /\ SaveFailed

Operate(w) ==
  \/ CancelRead(w) \/ CancelCheck(w) \/ CancelSave(w)
  \/ RevokeRead(w) \/ RevokeEntra(w) \/ RevokeSave(w)
  \/ Abort(w)

Next ==
  \/ Create \/ Scan \/ RejectPin \/ Accept \/ Lapse \/ Expire
  \/ \E k \in Kinds : Handle(k)
  \/ \E w \in Workers : Operate(w)

Spec == Init /\ [][Next]_vars

\* Verified ID sends a callback again until it is answered, and its handler
\* goes on; operators and the wallet may do nothing.
FairSpec == Spec /\ \A k \in Kinds : WF_vars(Handle(k))

-----------------------------------------------------------------------------
(* Properties. *)

Records == INSTANCE CredentialRecords

\* What findCredentialRecords says of the record of an in-person request.
credentialRecordStatus ==
  Records!credentialRecordStatus(
    [issuance |-> issuance, past |-> past,
     async |-> "none", verification |-> FALSE, asyncPast |-> FALSE,
     cancelled |-> record.cancelled, failed |-> record.failed, lapsed |-> record.lapsed])

Steps(k) ==
  {"idle", "cache", "forward"} \cup
  (IF k = Success \/ (k = Error /\ ~remote) THEN {"save"} ELSE {})

TypeOK ==
  /\ remote \in BOOLEAN
  /\ request \in {"none", "shown", "scanned", "accepted"}
  /\ callback \in [Kinds -> {"none", "pending", "answered"}]
  /\ entra \in {"none", "valid", "revoked"}
  /\ record \in [cancelled : BOOLEAN, failed : BOOLEAN, lapsed : BOOLEAN]
  /\ issuance \in {"none", "active", "revoked"} /\ past \in BOOLEAN
  /\ cached \in Kinds \cup {"none"} /\ told \subseteq Kinds
  /\ failures \in 0..MaxFailures
  /\ handler \in [Kinds -> {"idle", "save", "cache", "forward"}]
  /\ \A k \in Kinds : handler[k] \in Steps(k)
  /\ op \in [Workers -> {"idle", "cancelCheck", "cancelSave", "revokeEntra", "revokeSave"}]

\* Whoever is told of a success, by polling or by callback, finds the issuance:
\* the transaction commits before the event is cached and forwarded, in every
\* attempt, and a retry never takes the row away.
SuccessIsRecorded ==
  (cached = Success \/ Success \in told) => issuance # "none"

\* A credential that is listed as revoked is revoked in Verified ID, whatever
\* failed between the two.
RevokedInEntra == issuance = "revoked" => entra = "revoked"

\* The lifecycle of an in-person record goes forward only, also when the success
\* callback comes again: an issuance that is revoked is not active again, nor one that is
\* expired on a given date.  (Without one it gets another validity, and a cancellation
\* that overlaps the callback gives way to the issuance.)
Phase(status) ==
  CASE status = "issuanceStarted" -> 1
    [] status \in {"offerCancelled", "issuanceFailed", "issuanceExpired"} -> 2
    [] status = "issuanceCompleted" -> 3
    [] status = "expired" -> IF Dated THEN 4 ELSE 3
    [] status = "revoked" -> 4

PhaseNeverGoesBack ==
  [][~remote => Phase(credentialRecordStatus') >= Phase(credentialRecordStatus)]_vars

\* Every event of an in-person request reaches the consumer, however often its
\* handler or the consumer fails in between.
EventsReachConsumer ==
  \A k \in Kinds : (callback[k] = "pending" /\ ~remote) ~> k \in told

\* "Upon successful issuance, the issuing application can receive data by ...
\* server-side callback": the same, for every issuance.
SuccessReachesConsumer == request = "accepted" ~> Success \in told

\* The offer was "cancelled by an operator before the credential was issued":
\* nothing is issued under a cancelled record.
CancelledIsNotIssued ==
  [][(~remote /\ credentialRecordStatus = "offerCancelled")
       => credentialRecordStatus' = "offerCancelled"]_vars

\* "You cannot poll for issuance received events because they are not stored":
\* polling for a finished issuance gives its final event, not one before it.
FinalEventStaysCached == [][(cached \in Final) => (cached' \in Final)]_vars
=============================================================================
