--------------------------- MODULE AsyncIssuance ---------------------------
(***************************************************************************)
(* One remote ("async") issuance request of the VO API: its row in the     *)
(* async_issuance table, the blob that holds the recipient's data, the     *)
(* Redis entries around it and the handlers that act on it concurrently.   *)
(* Requests share none of this state, so one request is the whole          *)
(* component; Workers are the GraphQL calls, callbacks and job runs that   *)
(* are in flight on it at the same time, on any instance.                  *)
(*                                                                         *)
(* Transactions run at REPEATABLE READ on a locking database: a read takes *)
(* a shared lock on the row that lasts to the end of the transaction, a    *)
(* save needs the row exclusively, and of two transactions that read the   *)
(* row and both want to save it one is rolled back.  Blob, Redis, job      *)
(* queue and Verified ID calls made inside a transaction are not rolled    *)
(* back with it.  TypeORM's save writes every column in which the entity   *)
(* in memory differs from the row, so an entity that was read in an        *)
(* earlier transaction overwrites what was committed since.                *)
(*                                                                         *)
(* A call whose first check refuses it changes nothing: it is a stuttering *)
(* step and has no action.  A "Variant" is a faulty form of the definition *)
(* after it, kept to show that a property notices the fault.               *)
(***************************************************************************)
EXTENDS Naturals, FiniteSets

CONSTANTS
  Workers,    \* handler executions that can be in flight together
  Requests,   \* ids of Verified ID issuance requests (bounds how many are made)
  Kinds,      \* the handlers, error handlers included, that the instance has
  Contacts,   \* the contact details a request can be given
  Expiring,   \* the cache entries that can reach their TTL in the instance
  Nobody,     \* no worker holds the row exclusively
  NoRequest   \* no issuance request or issuance id

\* Handlers whose save writes back an entity they read in another transaction,
\* or outside one.
StaleSavers == {"cancelJob", "concierge", "otpFail", "claimFail", "claimReject"}

AllKinds == StaleSavers \cup
  {"create", "notify", "notifyFail", "update", "cancel", "otp", "acquire",
   "claim", "callback", "bounceIssuance", "bounceVerification"}

\* "none": no contact; "notify": notification only; "otp": notification and
\* verification.
AllContacts == {"none", "notify", "otp"}

ASSUME ConstantsOK ==
  /\ Kinds \subseteq AllKinds
  /\ Contacts \subseteq AllContacts
  /\ Expiring \subseteq {"code", "throttle", "session", "details"}
  /\ Nobody \notin Workers
  /\ NoRequest \notin Requests \cup {"fresh", "none"}
  /\ {"fresh", "none"} \cap Requests = {}

VARIABLES
  row,         \* the committed row: state, issuanceId, hasVerificationCommunication
  expired,     \* expiresOn has passed
  readers,     \* workers whose transaction holds a shared lock on the row
  writer,      \* the worker whose transaction holds it exclusively
  issuances,   \* committed issuance rows of this request's credential record
  blob,        \* contact details in the stored request data, or "absent"
  jobs,        \* queued sendAsyncIssuanceNotifications jobs
  sent,        \* purposes for which a message went out to the recipient
  code,        \* a verification code is in the cache
  throttle,    \* the verification throttle key is set
  session,     \* asyncIssuance cache: "none", "fresh" or the issuance request id
  details,     \* requests with an entry in requestDetailsCache
  terminating, \* floating terminateInProgressIssuanceRequest calls
  request,     \* each Verified ID request, as Microsoft and the wallet see it
  op, pc,      \* each worker's handler and the next step in it
  ent,         \* each worker's AsyncIssuanceEntity in memory
  rid          \* the issuance request each worker deals with

db     == <<row, readers, writer, issuances>>
caches == <<code, throttle, session, details>>
outer  == <<blob, jobs, sent, terminating, request, expired>>
local  == <<op, pc, ent, rid>>
vars   == <<db, caches, outer, local>>

FailedStates == {"contact-failed", "issuance-failed", "issuance-verification-failed"}
States == FailedStates \cup
  {"absent", "pending", "contacted", "issued", "cancelled", "verification-complete"}

Rows == [state: States, issuanceId: Requests \cup {NoRequest}, otpSent: BOOLEAN]
NoRow == [state |-> "absent", issuanceId |-> NoRequest, otpSent |-> FALSE]
PendingRow == [NoRow EXCEPT !.state = "pending"]

-----------------------------------------------------------------------------
(* The entity: its status and the checks built on it. *)

status(e) ==
  CASE e.state = "issued" -> "Issued"
    [] e.state = "cancelled" -> "Cancelled"
    [] e.state = "verification-complete" -> "Pending"
    [] expired /\ e.state \notin {"issued", "cancelled", "verification-complete"} -> "Expired"
    [] ~expired /\ e.state \in FailedStates -> "Failed"
    [] OTHER -> "Pending"

\* Variant: a cancelled request is taken for an open one.
CancelledNotFinal(e) == status(e) \in {"Expired", "Issued"}

isStatusFinal(e) == status(e) \in {"Expired", "Cancelled", "Issued"}
canCancel(e) == status(e) \notin {"Cancelled", "Issued"}
\* Variant: only an issued request is refused.
IssuableUnlessIssued(e) == status(e) # "Issued"

canIssue(e) == ~isStatusFinal(e)

\* A request that was issued or cancelled.
Settled(e) == e.state \in {"issued", "cancelled"}

\* The state a handler's save leaves behind.
Target(o) ==
  CASE o \in {"notify", "update"} -> "contacted"
    [] o \in {"notifyFail", "bounceIssuance"} -> "contact-failed"
    [] o \in {"otpFail", "bounceVerification"} -> "issuance-verification-failed"
    [] o \in {"claimFail", "claimReject"} -> "issuance-failed"
    [] o \in {"cancel", "cancelJob"} -> "cancelled"
    [] OTHER -> "verification-complete"

\* The invariant of the entity method that the handler calls before its save:
\* failed, contacted and contactUpdated, or canceled; acquire and the Concierge
\* path assign the state directly.
MayApply(o, e) ==
  CASE o \in {"cancel", "cancelJob"} -> canCancel(e)
    [] o \in {"acquire", "concierge"} -> TRUE
    [] OTHER -> ~isStatusFinal(e)

-----------------------------------------------------------------------------
(* Workers and the lock on the row. *)

At(w, o, p) == op[w] = o /\ pc[w] = p
Idle(w) == pc[w] = "idle"

\* Worker w goes on at step p of handler o, with entity e and issuance request r.
Become(w, o, p, e, r) ==
  /\ op' = [op EXCEPT ![w] = o]
  /\ pc' = [pc EXCEPT ![w] = p]
  /\ ent' = [ent EXCEPT ![w] = e]
  /\ rid' = [rid EXCEPT ![w] = r]

Goto(w, o, p) == Become(w, o, p, ent[w], rid[w])
Load(w, o, p) == Become(w, o, p, row, rid[w])
Finish(w) == Become(w, "none", "idle", NoRow, NoRequest)
\* Enter the handler o, or end when the instance does not have it.
GotoIf(w, o, p) ==
  \/ o \in Kinds /\ Goto(w, o, p)
  \/ o \notin Kinds /\ Finish(w)

\* A read inside a transaction that goes on.
ReadShared(w) ==
  /\ writer = Nobody
  /\ row.state # "absent"
  /\ readers' = readers \cup {w}
  /\ UNCHANGED <<row, writer, issuances>>

\* A read that leaves no lock: in a transaction of its own, or in none.
ReadCopy ==
  /\ writer = Nobody
  /\ row.state # "absent"
  /\ UNCHANGED db

\* Variant: READ COMMITTED, where a read leaves no lock behind.
CanLockOverReaders(w) == writer \in {Nobody, w}

\* What a save waits for: no other transaction has a lock on the row.
CanLockExclusive(w) == writer \in {Nobody, w} /\ readers \subseteq {w}

Release(w) ==
  /\ readers' = readers \ {w}
  /\ writer' = IF writer = w THEN Nobody ELSE writer

\* End of a transaction that wrote nothing.
EndTransaction(w) == Release(w) /\ UNCHANGED <<row, issuances>>

\* The last save of a handler's transaction, with its commit.
Save(w) ==
  LET new == [ent[w] EXCEPT !.state = Target(op[w])]
  IN /\ pc[w] = "save" /\ op[w] # "callback"
     /\ MayApply(op[w], ent[w])
     /\ CanLockExclusive(w)
     /\ row' = new
     /\ Release(w)
     /\ \/ op[w] = "acquire" /\ Goto(w, "acquire", "data")
        \/ op[w] = "concierge" /\ "claim" \in Kinds /\ Become(w, "claim", "data", new, NoRequest)
        \/ op[w] # "acquire" /\ ~(op[w] = "concierge" /\ "claim" \in Kinds) /\ Finish(w)
     /\ UNCHANGED <<issuances, caches, outer>>

\* A database error, a deadlock or a refused entity method rolls the transaction
\* back; what the handler did outside the database stays done.
Abort(w) ==
  /\ \/ pc[w] \in {"save", "upload", "enqueue", "commit", "purge"}
     \/ op[w] \in {"notify", "update", "cancel"}
     \/ op[w] = "claim" /\ pc[w] \in {"request", "session"}
  /\ \/ op[w] = "notify" /\ GotoIf(w, "notifyFail", "read")
     \/ op[w] \in {"claim", "claimReject"} /\ GotoIf(w, "claimFail", "save")
     \/ op[w] \notin {"notify", "claim", "claimReject"} /\ Finish(w)
  /\ EndTransaction(w)
  /\ UNCHANGED <<caches, outer>>

\* The instance stops: its transactions roll back, its handlers are gone, and
\* with them the calls they left floating, if those ran here.
Crash(w) ==
  /\ ~Idle(w)
  /\ Finish(w)
  /\ EndTransaction(w)
  /\ terminating' \in {terminating, {}}
  /\ UNCHANGED <<caches, blob, jobs, sent, request, expired>>

-----------------------------------------------------------------------------
(* CreateAsyncIssuanceRequestCommand: insert the row, upload the data, queue
   the notification job, commit. *)

CreateInsert(w) ==
  /\ Idle(w) /\ "create" \in Kinds
  /\ row.state = "absent" /\ blob = "absent" /\ writer = Nobody
  /\ writer' = w
  /\ Become(w, "create", "upload", PendingRow, NoRequest)
  /\ UNCHANGED <<row, readers, issuances, caches, outer>>

CreateUpload(w) ==
  /\ At(w, "create", "upload")
  /\ blob' \in Contacts
  /\ Goto(w, "create", "enqueue")
  /\ UNCHANGED <<db, caches, jobs, sent, terminating, request, expired>>

CreateEnqueue(w) ==
  /\ At(w, "create", "enqueue")
  /\ jobs' = jobs + 1
  /\ Goto(w, "create", "commit")
  /\ UNCHANGED <<db, caches, blob, sent, terminating, request, expired>>

CreateCommit(w) ==
  /\ At(w, "create", "commit")
  /\ row' = ent[w]
  /\ Release(w)
  /\ Finish(w)
  /\ UNCHANGED <<issuances, caches, outer>>

-----------------------------------------------------------------------------
(* sendAsyncIssuanceNotification, called by the job and by the resend mutation,
   and the error handler both share. *)

\* Variant: the queue hands out a job it does not have.
AnyJob == TRUE

JobQueued == jobs > 0

\* The job takes the row if it is there and open; otherwise both of its
\* transactions throw and the job is spent.
NotifyJob(w) ==
  /\ Idle(w) /\ "notify" \in Kinds
  /\ JobQueued /\ writer = Nobody
  /\ jobs' = jobs - 1
  /\ \/ ~isStatusFinal(row) /\ ReadShared(w) /\ Load(w, "notify", "data")
     \/ (row.state = "absent" \/ isStatusFinal(row)) /\ UNCHANGED <<db, local>>
  /\ UNCHANGED <<caches, blob, sent, terminating, request, expired>>

NotifyResend(w) ==
  /\ Idle(w) /\ "notify" \in Kinds
  /\ ReadShared(w) /\ ~isStatusFinal(row)
  /\ Load(w, "notify", "data")
  /\ UNCHANGED <<caches, outer>>

NotifyDownload(w) ==
  /\ At(w, "notify", "data")
  /\ \/ blob = "absent" /\ GotoIf(w, "notifyFail", "read") /\ EndTransaction(w)
     \/ blob = "none" /\ Finish(w) /\ EndTransaction(w)
     \/ blob \in {"notify", "otp"} /\ Goto(w, "notify", "send") /\ UNCHANGED db
  /\ UNCHANGED <<caches, outer>>

\* A failed delivery rolls back (Abort) and enters the error handler.
NotifySend(w) ==
  /\ At(w, "notify", "send")
  /\ sent' = sent \cup {"issuance"}
  /\ Goto(w, "notify", "save")
  /\ UNCHANGED <<db, caches, blob, jobs, terminating, request, expired>>

NotifyFailRead(w) ==
  /\ At(w, "notifyFail", "read")
  /\ \/ ~isStatusFinal(row) /\ ReadShared(w) /\ Load(w, "notifyFail", "save")
     \/ isStatusFinal(row) /\ Finish(w) /\ UNCHANGED db
  /\ UNCHANGED <<caches, outer>>

-----------------------------------------------------------------------------
(* UpdateAsyncIssuanceContactCommand: one transaction around download, upload
   and save. *)

\* Variant: the row is read before the transaction.
UpdateReadOutside(w) ==
  /\ Idle(w) /\ "update" \in Kinds
  /\ ReadCopy /\ ~isStatusFinal(row)
  /\ Load(w, "update", "data")
  /\ UNCHANGED <<caches, outer>>

UpdateRead(w) ==
  /\ Idle(w) /\ "update" \in Kinds
  /\ ReadShared(w) /\ ~isStatusFinal(row)
  /\ Load(w, "update", "data")
  /\ UNCHANGED <<caches, outer>>

UpdateDownload(w) ==
  /\ At(w, "update", "data")
  /\ blob # "absent"
  /\ Goto(w, "update", "upload")
  /\ UNCHANGED <<db, caches, outer>>

UpdateUpload(w) ==
  /\ At(w, "update", "upload")
  /\ blob' \in Contacts
  /\ Goto(w, "update", "save")
  /\ UNCHANGED <<db, caches, jobs, sent, terminating, request, expired>>

-----------------------------------------------------------------------------
(* Cancellation: the mutation reads inside its transaction, the batch job
   reads every row up front, outside any.  Both delete the data, then save. *)

\* Variant: the mutation reads as the batch job does.
CancelReadOutside(w) ==
  /\ Idle(w) /\ "cancel" \in Kinds
  /\ ReadCopy /\ canCancel(row)
  /\ Load(w, "cancel", "delete")
  /\ UNCHANGED <<caches, outer>>

CancelRead(w) ==
  /\ Idle(w) /\ "cancel" \in Kinds
  /\ ReadShared(w) /\ canCancel(row)
  /\ Load(w, "cancel", "delete")
  /\ UNCHANGED <<caches, outer>>

CancelJobRead(w) ==
  /\ Idle(w) /\ "cancelJob" \in Kinds
  /\ ReadCopy /\ canCancel(row)
  /\ Load(w, "cancelJob", "delete")
  /\ UNCHANGED <<caches, outer>>

CancelDelete(w) ==
  /\ op[w] \in {"cancel", "cancelJob"} /\ pc[w] = "delete"
  /\ blob' = "absent"
  /\ Goto(w, op[w], "save")
  /\ UNCHANGED <<db, caches, jobs, sent, terminating, request, expired>>

-----------------------------------------------------------------------------
(* SendAsyncIssuanceVerificationCommand. *)

OtpRead(w) ==
  /\ Idle(w) /\ "otp" \in Kinds
  /\ ReadCopy /\ ~isStatusFinal(row)
  /\ Load(w, "otp", "data")
  /\ UNCHANGED <<caches, outer>>

\* The data has a verification contact and the throttle was free: set the code.
OtpSetCode(w) ==
  /\ At(w, "otp", "data")
  /\ \/ /\ blob = "otp" /\ ~throttle
        /\ throttle' = TRUE /\ code' = TRUE
        /\ Goto(w, "otp", "send")
     \/ /\ blob # "otp" \/ throttle
        /\ Finish(w) /\ UNCHANGED <<throttle, code>>
  /\ UNCHANGED <<db, session, details, outer>>

\* The message goes out and its transaction sets one column of the row.
OtpSend(w) ==
  /\ At(w, "otp", "send")
  /\ CanLockExclusive(w)
  /\ sent' = sent \cup {"verification"}
  /\ row' = [row EXCEPT !.otpSent = TRUE]
  /\ Finish(w)
  /\ UNCHANGED <<readers, writer, issuances, caches, blob, jobs, terminating, request, expired>>

\* Delivery, or the transaction after it, fails: the entity of the first read
\* is saved.
OtpSendFails(w) ==
  /\ At(w, "otp", "send")
  /\ sent' \in {sent, sent \cup {"verification"}}
  /\ GotoIf(w, "otpFail", "save")
  /\ UNCHANGED <<db, caches, blob, jobs, terminating, request, expired>>

-----------------------------------------------------------------------------
(* AcquireAsyncIssuanceTokenCommand: the code is read, then deleted; the row is
   marked; a session replaces the one in progress. *)

AcquireCheck(w) ==
  /\ Idle(w) /\ "acquire" \in Kinds
  /\ code
  /\ Goto(w, "acquire", "redeem")
  /\ UNCHANGED <<db, caches, outer>>

AcquireRedeem(w) ==
  /\ At(w, "acquire", "redeem")
  /\ code' = FALSE /\ throttle' = FALSE
  /\ Goto(w, "acquire", "read")
  /\ UNCHANGED <<db, session, details, outer>>

AcquireRead(w) ==
  /\ At(w, "acquire", "read")
  /\ \/ ~isStatusFinal(row) /\ ReadShared(w) /\ Load(w, "acquire", "save")
     \/ isStatusFinal(row) /\ Finish(w) /\ UNCHANGED db
  /\ UNCHANGED <<caches, outer>>

\* The call that ends the session in progress is not awaited.
AcquireDownload(w) ==
  /\ At(w, "acquire", "data")
  /\ \/ /\ blob # "absent"
        /\ terminating' = terminating \cup ({session} \cap Requests)
        /\ Goto(w, "acquire", "session")
     \/ blob = "absent" /\ Finish(w) /\ UNCHANGED terminating
  /\ UNCHANGED <<db, caches, blob, jobs, sent, request, expired>>

AcquireSession(w) ==
  /\ At(w, "acquire", "session")
  /\ session' = "fresh"
  /\ Finish(w)
  /\ UNCHANGED <<db, code, throttle, details, outer>>

\* terminateInProgressIssuanceRequest: its entry goes, so its callbacks are
\* ignored from here on.
Terminate(r) ==
  /\ r \in terminating
  /\ terminating' = terminating \ {r}
  /\ details' = details \ {r}
  /\ UNCHANGED <<db, code, throttle, session, blob, jobs, sent, request, expired, local>>

-----------------------------------------------------------------------------
(* CreateIssuanceRequestForAsyncIssuanceCommand, for the holder of a session
   and for an authenticated identity (the Concierge path). *)

ClaimRead(w) ==
  /\ Idle(w) /\ "claim" \in Kinds
  /\ session # "none"
  /\ ReadCopy /\ ~isStatusFinal(row)
  /\ Load(w, "claim", "data")
  /\ UNCHANGED <<caches, outer>>

\* The identity's copy is marked and saved before its status is looked at; once
\* marked its status is Pending, so the check that follows always passes.
ConciergeRead(w) ==
  /\ Idle(w) /\ "concierge" \in Kinds
  /\ ReadCopy
  /\ IF row.state = "verification-complete" /\ "claim" \in Kinds
       THEN Load(w, "claim", "data")
       ELSE Load(w, "concierge", "save")
  /\ UNCHANGED <<caches, outer>>

ClaimDownload(w) ==
  /\ At(w, "claim", "data")
  /\ IF blob = "absent" THEN Finish(w) ELSE Goto(w, "claim", "request")
  /\ UNCHANGED <<db, caches, outer>>

\* Verified ID makes a request; the callback will look it up in the cache.
ClaimRequest(w, r) ==
  /\ At(w, "claim", "request")
  /\ request[r] = "unused"
  /\ request' = [request EXCEPT ![r] = "made"]
  /\ details' = details \cup {r}
  /\ Become(w, "claim", "session", ent[w], r)
  /\ UNCHANGED <<db, code, throttle, session, blob, jobs, sent, terminating, expired>>

\* Verified ID answers with an error; a call that throws is an Abort.
ClaimRejected(w) ==
  /\ At(w, "claim", "request")
  /\ "claimReject" \in Kinds
  /\ Goto(w, "claimReject", "save")
  /\ UNCHANGED <<db, caches, outer>>

ClaimSession(w) ==
  /\ At(w, "claim", "session")
  /\ session' = rid[w]
  /\ Goto(w, "claim", "commit")
  /\ UNCHANGED <<db, code, throttle, details, outer>>

\* The transaction wrote no row of async_issuance; the QR code goes out.
ClaimCommit(w) ==
  /\ At(w, "claim", "commit")
  /\ request' = [request EXCEPT ![rid[w]] = "shown"]
  /\ Finish(w)
  /\ UNCHANGED <<db, caches, blob, jobs, sent, terminating, expired>>

-----------------------------------------------------------------------------
(* The wallet and issuanceCallbackHandler.  The success callback is sent again
   until it gets a 200; other callbacks do not touch a remote issuance. *)

WalletAccept(r) ==
  /\ request[r] = "shown"
  /\ request' = [request EXCEPT ![r] = "accepted"]
  /\ UNCHANGED <<db, caches, blob, jobs, sent, terminating, expired, local>>

\* No request details: logged and answered with 200.
CallbackIgnored(w, r) ==
  /\ Idle(w) /\ "callback" \in Kinds
  /\ request[r] = "accepted" /\ r \notin details
  /\ request' = [request EXCEPT ![r] = "ignored"]
  /\ UNCHANGED <<db, caches, blob, jobs, sent, terminating, expired, local>>

CallbackStart(w, r) ==
  /\ Idle(w) /\ "callback" \in Kinds
  /\ request[r] = "accepted" /\ r \in details
  /\ Become(w, "callback", "read", NoRow, r)
  /\ UNCHANGED <<db, caches, outer>>

\* The insert of the issuance waits for another insert under the same
\* credential record, whose index is unique; then the session leads to the row.
CallbackRead(w) ==
  /\ At(w, "callback", "read")
  /\ \A v \in Workers \ {w} : op[v] = "callback" => pc[v] = "read"
  /\ \/ /\ issuances \subseteq {rid[w]} /\ session # "none"
        /\ ReadShared(w) /\ canIssue(row)
        /\ Load(w, "callback", "save")
     \/ /\ ~(issuances \subseteq {rid[w]}) \/ session = "none" \/ ~canIssue(row)
        /\ Finish(w) /\ UNCHANGED db
  /\ UNCHANGED <<caches, outer>>

CallbackSave(w) ==
  /\ At(w, "callback", "save")
  /\ canIssue(ent[w])
  /\ CanLockExclusive(w)
  /\ writer' = w
  /\ Goto(w, "callback", "purge")
  /\ UNCHANGED <<row, readers, issuances, caches, outer>>

CallbackPurge(w) ==
  /\ At(w, "callback", "purge")
  /\ blob' = "absent"
  /\ Goto(w, "callback", "commit")
  /\ UNCHANGED <<db, caches, jobs, sent, terminating, request, expired>>

\* Variant: the issuance is taken from the session, which may hold a later one.
IssuedAsSession(w) == [ent[w] EXCEPT !.state = "issued", !.issuanceId = session]

Issued(w) == [ent[w] EXCEPT !.state = "issued", !.issuanceId = rid[w]]

\* The answer is a 200 unless caching or publishing the event fails.
CallbackCommit(w) ==
  /\ At(w, "callback", "commit")
  /\ row' = Issued(w)
  /\ issuances' = issuances \cup {rid[w]}
  /\ Release(w)
  /\ request' \in {request, [request EXCEPT ![rid[w]] = "acknowledged"]}
  /\ Finish(w)
  /\ UNCHANGED <<caches, blob, jobs, sent, terminating, expired>>

-----------------------------------------------------------------------------
(* handleEmailStatusCallback and handleSmsStatusCallback: a bounce of a message
   that went out. *)

BounceRead(w, purpose) ==
  LET o == IF purpose = "issuance" THEN "bounceIssuance" ELSE "bounceVerification"
  IN /\ Idle(w) /\ o \in Kinds
     /\ purpose \in sent
     /\ ReadShared(w) /\ ~isStatusFinal(row)
     /\ Load(w, o, "save")
     /\ UNCHANGED <<caches, outer>>

-----------------------------------------------------------------------------
(* Time: the request expires, cache entries reach their TTL. *)

Expire ==
  /\ row.state # "absent" /\ ~expired
  /\ expired' = TRUE
  /\ UNCHANGED <<db, caches, blob, jobs, sent, terminating, request, local>>

CacheExpiry ==
  /\ \/ "code" \in Expiring /\ code /\ code' = FALSE /\ UNCHANGED <<throttle, session, details>>
     \/ "throttle" \in Expiring /\ throttle /\ throttle' = FALSE /\ UNCHANGED <<code, session, details>>
     \/ "session" \in Expiring /\ session # "none" /\ session' = "none" /\ UNCHANGED <<code, throttle, details>>
     \/ "details" \in Expiring /\ \E r \in details : details' = details \ {r} /\ UNCHANGED <<code, throttle, session>>
  /\ UNCHANGED <<db, outer, local>>

-----------------------------------------------------------------------------
Init ==
  /\ row = NoRow /\ expired = FALSE
  /\ readers = {} /\ writer = Nobody
  /\ issuances = {}
  /\ blob = "absent" /\ jobs = 0 /\ sent = {}
  /\ code = FALSE /\ throttle = FALSE
  /\ session = "none" /\ details = {} /\ terminating = {}
  /\ request = [r \in Requests |-> "unused"]
  /\ op = [w \in Workers |-> "none"]
  /\ pc = [w \in Workers |-> "idle"]
  /\ ent = [w \in Workers |-> NoRow]
  /\ rid = [w \in Workers |-> NoRequest]

Step(w) ==
  \/ Save(w) \/ Abort(w) \/ Crash(w)
  \/ CreateInsert(w) \/ CreateUpload(w) \/ CreateEnqueue(w) \/ CreateCommit(w)
  \/ NotifyJob(w) \/ NotifyResend(w) \/ NotifyDownload(w) \/ NotifySend(w) \/ NotifyFailRead(w)
  \/ UpdateRead(w) \/ UpdateDownload(w) \/ UpdateUpload(w)
  \/ CancelRead(w) \/ CancelJobRead(w) \/ CancelDelete(w)
  \/ OtpRead(w) \/ OtpSetCode(w) \/ OtpSend(w) \/ OtpSendFails(w)
  \/ AcquireCheck(w) \/ AcquireRedeem(w) \/ AcquireRead(w) \/ AcquireDownload(w) \/ AcquireSession(w)
  \/ ClaimRead(w) \/ ConciergeRead(w) \/ ClaimDownload(w) \/ ClaimRejected(w)
  \/ \E r \in Requests : ClaimRequest(w, r)
  \/ ClaimSession(w) \/ ClaimCommit(w)
  \/ \E r \in Requests : CallbackIgnored(w, r) \/ CallbackStart(w, r)
  \/ CallbackRead(w) \/ CallbackSave(w) \/ CallbackPurge(w) \/ CallbackCommit(w)
  \/ \E purpose \in {"issuance", "verification"} : BounceRead(w, purpose)

Next ==
  \/ \E w \in Workers : Step(w)
  \/ \E r \in Requests : Terminate(r) \/ WalletAccept(r)
  \/ Expire
  \/ CacheExpiry

Spec == Init /\ [][Next]_vars

-----------------------------------------------------------------------------
(* Properties. *)

Steps == {"idle", "upload", "enqueue", "commit", "data", "send", "read", "save",
          "delete", "redeem", "session", "request", "purge"}

TypeOK ==
  /\ row \in Rows /\ expired \in BOOLEAN
  /\ readers \subseteq Workers /\ writer \in Workers \cup {Nobody}
  /\ issuances \subseteq Requests
  /\ blob \in Contacts \cup {"absent"}
  /\ jobs \in Nat /\ sent \subseteq {"issuance", "verification"}
  /\ code \in BOOLEAN /\ throttle \in BOOLEAN
  /\ session \in Requests \cup {"none", "fresh"}
  /\ details \subseteq Requests /\ terminating \subseteq Requests
  /\ request \in [Requests -> {"unused", "made", "shown", "accepted", "acknowledged", "ignored"}]
  /\ op \in [Workers -> Kinds \cup {"none"}]
  /\ pc \in [Workers -> Steps]
  /\ ent \in [Workers -> Rows]
  /\ rid \in [Workers -> Requests \cup {NoRequest}]

\* What REPEATABLE READ buys a handler that reads and saves in one transaction:
\* as long as its shared lock lasts, its entity is the committed row, whatever
\* the other handlers do, so its checks still hold when it saves.
SnapshotCurrent == \A w \in readers : ent[w] = row

\* A request says it is issued only with the id of an issuance that exists: the
\* callback's insert, the entity's issued() and the stale saves of other
\* handlers never leave a dangling or a missing issuanceId.
IssuedLinksIssuance == row.state = "issued" => row.issuanceId \in issuances

\* completeAsyncIssuance deletes the recipient's data after its save has the row
\* exclusively, so no contact update in flight can bring it back: an issued
\* request never has stored personal data.
IssuedHasNoData == row.state = "issued" => blob = "absent"

\* Issued and cancelled are left only by the save of an entity that was read in
\* another transaction: no handler that reads and saves in one can do it.
SettledLeftOnlyByStaleSave ==
  [][Settled(row) /\ row'.state # row.state =>
       \E w \in Workers : op[w] \in StaleSavers /\ pc[w] = "save" /\ pc'[w] # "save"]_vars

\* The stage of the offer that a row stands for.
Stage ==
  CASE row.state = "absent" -> "none"
    [] Settled(row) -> row.state
    [] OTHER -> "open"

Offer == INSTANCE RemoteOffer WITH stage <- Stage, credential <- row.issuanceId

\* The handlers that read and save in one transaction implement the offer: it is
\* settled once, as cancelled or as issued with the id of its issuance, whatever
\* the interleaving, the aborts and the crashes.
ImplementsOffer == Offer!Spec

\* The credential record of the request is listed once: FindCredentialRecordsQuery
\* takes it from the issuance table or, unless its state is 'issued', from
\* async_issuance, so the callback's two writes and later saves must agree.
ListedOnce == row.state = "issued" <=> issuances # {}

\* hasVerificationCommunication is set when a verification message is recorded
\* and never lost to another handler's save of the row.
VerificationFlagKept == [][row.otpSent => row'.otpSent]_vars

\* What "Async issuance cannot be modified" promises of a final state: a
\* cancelled or issued request keeps its state and its issuance.
SettledIsFinal ==
  [][Settled(row) => row'.state = row.state /\ row'.issuanceId = row.issuanceId]_vars

\* Personal data is deleted once the request is cancelled or issued: with no
\* handler in flight, a settled request has none.
SettledHasNoData ==
  (\A w \in Workers : Idle(w)) /\ Settled(row) => blob = "absent"

\* After the expiration of the remote issuance it cannot be completed.
NotIssuedAfterExpiry ==
  [][row.state # "issued" /\ row'.state = "issued" => ~expired]_vars
=============================================================================
