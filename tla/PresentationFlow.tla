-------------------------- MODULE PresentationFlow --------------------------
(***************************************************************************)
(* One presentation flow: its row in presentation_flow, the presentation   *)
(* requests made for it, the callbacks of Verified ID, the notification of *)
(* the responder and the callback of the application that wants to know    *)
(* the outcome.  Flows share none of this state.                           *)
(*                                                                         *)
(* A handler runs in one REPEATABLE READ transaction: it reads the row     *)
(* under a shared lock that lasts to the end, saves it exclusively and     *)
(* commits.  "draft" is the row as the transaction that saved it sees it.  *)
(* The callback job and the resolver of the subscription read the          *)
(* committed row and wait for nobody.  Redis, the queue, the blob and the  *)
(* calls to other services do not roll back.  A call whose first check     *)
(* refuses it is a stuttering step.  hasContactNotification, which only a  *)
(* resolver reads, is left out.                                            *)
(***************************************************************************)
EXTENDS Naturals

CONSTANTS
  Workers,        \* handler executions that can be in flight together
  Requests,       \* ids of presentation requests (bounds how many are made)
  MaxDeliveries,  \* times the "verified" callback of a request is delivered
  MaxJobs,        \* callback jobs that can be queued together
  MaxSent,        \* messages to the responder
  Modes,          \* what ends a flow of the instance
  Scenarios,      \* sets of the events that behaviours of the instance are made of
  Nobody,         \* no worker holds the row exclusively
  None            \* no request, no presentation

\* "auto": a credential flow without data or actions ends by the presentation;
\* "manual": it ends by the responder's submit; "mdoc": by the wallet's response.
AllModes == {"auto", "manual", "mdoc"}

\* The handlers, the clock, the caches' time to live and the subscriber.
AllEvents ==
  {"request", "retrieved", "verified", "respond", "submit", "cancel", "notify",
   "bounce", "update", "expire", "forget", "resolve"}

ASSUME FlowConstants ==
  /\ Modes \subseteq AllModes
  /\ Scenarios \subseteq SUBSET AllEvents
  /\ Nobody \notin Workers
  /\ None \notin Requests \cup (Requests \X (1..MaxDeliveries))
  /\ {MaxDeliveries, MaxJobs, MaxSent} \subseteq Nat \ {0}

VARIABLES
  mode,          \* the member of Modes this flow is of
  calls,         \* the member of Scenarios this behaviour is of
  row,           \* the committed row
  draft,         \* the row as its writer has saved it, not yet committed
  expired,       \* expiresAt has passed
  readers,       \* workers whose transaction holds a shared lock on the row
  writer,        \* the worker whose transaction has saved the row
  presentations, \* committed rows of the presentation table
  request,       \* each presentation request, as Verified ID or the wallet sees it
  details,       \* requests with an entry in a request details cache
  tokens,        \* requests whose creator has a limitedPresentationFlow entry
  contact,       \* contact details are in blob storage
  notices,       \* queued sendPresentationFlowNotifications jobs
  sent,          \* messages that went out to the responder
  jobs,          \* queued invokePresentationFlowCallback jobs
  posting,       \* payloads of the callback jobs that are being posted
  told,          \* payloads the application's callback accepted
  event,         \* a presentationFlow event waits for the subscriber
  view,          \* the status the subscriber last resolved
  op, pc, on     \* each worker's handler, the next step in it, its request

db     == <<mode, calls, row, draft, expired, readers, writer, presentations>>
wallet == <<request, details, tokens>>
notify == <<contact, notices, sent>>
queue  == <<jobs, posting, told>>
watch  == <<event, view>>
local  == <<op, pc, on>>
vars   == <<db, wallet, notify, queue, watch, local>>

\* The nth delivery of a request's verified callback makes this presentation.
Presentations == Requests \X (1..MaxDeliveries)

Flows ==
  [exists: BOOLEAN, cancelled: BOOLEAN, submitted: BOOLEAN, created: BOOLEAN,
   retrieved: BOOLEAN, presentation: Presentations \cup {None},
   notification: {"none", "pending", "sent", "failed"}]

NoFlow ==
  [exists |-> FALSE, cancelled |-> FALSE, submitted |-> FALSE, created |-> FALSE,
   retrieved |-> FALSE, presentation |-> None, notification |-> "none"]

-----------------------------------------------------------------------------
(* The entity. *)

\* The status without the clock.
Stage(r) ==
  CASE r.cancelled -> "Cancelled"
    [] ~r.cancelled /\ r.submitted -> "Submitted"
    [] ~r.cancelled /\ ~r.submitted /\ r.presentation # None -> "PresentationVerified"
    [] OTHER -> IF r.retrieved THEN "RequestRetrieved"
                ELSE IF r.created THEN "RequestCreated" ELSE "Pending"

status(r) ==
  IF expired /\ Stage(r) \in {"Pending", "RequestCreated", "RequestRetrieved"}
  THEN "Expired" ELSE Stage(r)

Terminal(r) == Stage(r) \in {"Submitted", "Cancelled"}

\* cancelled, submitted or presented: no notification, no change of contact.
Closed(r) == r.cancelled \/ r.submitted \/ r.presentation # None

isNotificationFinal(r) == r.notification \in {"sent", "failed"}

\* What the application is sent: actionedPresentationFlowData of row r.
Payload(r) == [status |-> Stage(r), presentation |-> r.presentation]

-----------------------------------------------------------------------------
(* Workers and transactions. *)

Idle(w) == pc[w] = "idle"
At(w, o, p) == op[w] = o /\ pc[w] = p

Goto(w, o, p, r) ==
  /\ op' = [op EXCEPT ![w] = o]
  /\ pc' = [pc EXCEPT ![w] = p]
  /\ on' = [on EXCEPT ![w] = r]

Finish(w) == Goto(w, "none", "idle", None)

\* Variant: READ COMMITTED, where a read leaves no lock behind.
ReadUnlocked(w) ==
  /\ writer = Nobody /\ row.exists
  /\ UNCHANGED <<mode, calls, row, draft, expired, writer, presentations, readers>>

\* The handler's transaction reads the row.
Read(w) ==
  /\ writer = Nobody /\ row.exists
  /\ readers' = readers \cup {w}
  /\ UNCHANGED <<mode, calls, row, draft, expired, writer, presentations>>

\* It saves the row as r, and goes on to commit.
Save(w, r) ==
  /\ writer = Nobody /\ readers \subseteq {w}
  /\ writer' = w
  /\ draft' = r
  /\ Goto(w, op[w], "saved", on[w])
  /\ UNCHANGED <<mode, calls, row, expired, readers, presentations>>

Release(w) ==
  /\ readers' = readers \ {w}
  /\ writer' = IF writer = w THEN Nobody ELSE writer
  /\ draft' = IF writer = w THEN NoFlow ELSE draft
  /\ UNCHANGED <<mode, calls, expired>>

\* Variant: nobody publishes after the commit.
CommitAndFinish(w) ==
  /\ pc[w] = "saved"
  /\ row' = draft
  /\ presentations' = presentations \cup ({draft.presentation} \ {None})
  /\ Release(w) /\ Finish(w)
  /\ UNCHANGED <<wallet, notify, queue, watch>>

\* The mDoc resolver publishes after the commit, the others did so before it.
Commit(w) ==
  /\ pc[w] = "saved"
  /\ row' = draft
  /\ presentations' = presentations \cup ({draft.presentation} \ {None})
  /\ Release(w)
  /\ \/ op[w] = "respond" /\ Goto(w, "respond", "publish", None)
     \/ op[w] # "respond" /\ Finish(w)
  /\ UNCHANGED <<wallet, notify, queue, watch>>

\* An error, a deadlock or a crash rolls the transaction back; a notification's
\* transaction is followed by its error handler's.
Abort(w) ==
  /\ pc[w] \in {"found", "read", "called", "set", "cleared", "saved"}
  /\ Release(w)
  /\ \/ op[w] = "notify" /\ Goto(w, "notifyFail", "retry", None)
     \/ Finish(w)
  /\ UNCHANGED <<row, presentations, wallet, notify, queue, watch>>

publishPresentationFlowEvent == event' = TRUE /\ UNCHANGED view

\* addToJobQueue, inside the transaction and before its commit.
EnqueueCallback ==
  /\ jobs < MaxJobs
  /\ jobs' = jobs + 1
  /\ UNCHANGED <<posting, told>>

-----------------------------------------------------------------------------
(* Creation of the flow: insert, upload of the contact, notification job. *)

Create(w) ==
  /\ Idle(w) /\ ~row.exists /\ writer = Nobody
  /\ \E c \in BOOLEAN :
       /\ draft' = [NoFlow EXCEPT !.exists = TRUE,
                                  !.notification = IF c THEN "pending" ELSE "none"]
       /\ contact' = (c \/ contact)
       /\ notices' = IF c THEN 1 ELSE notices
  /\ writer' = w
  /\ Goto(w, "create", "saved", None)
  /\ UNCHANGED <<mode, calls, row, expired, readers, presentations, sent, wallet, queue, watch>>

-----------------------------------------------------------------------------
(* CreatePresentationRequestForPresentationFlow: the call to Verified ID, or
   the mDoc request, inside the transaction that holds the shared lock. *)

RequestRead(w) ==
  /\ Idle(w) /\ "request" \in calls
  /\ status(row) \notin {"Expired", "Submitted", "Cancelled"}
  /\ Read(w)
  /\ Goto(w, "request", "read", None)
  /\ UNCHANGED <<wallet, notify, queue, watch>>

\* A holder's key finds a token entry, the key of another user's token none; the
\* mDoc path keeps no key.
RequestCall(w) ==
  /\ At(w, "request", "read")
  /\ \E r \in Requests :
       /\ request[r].state = "none"
       /\ request' = [request EXCEPT ![r].state = "open"]
       /\ details' = details \cup {r}
       /\ tokens' \in {tokens \cup {r}, tokens}
       /\ Goto(w, "request", "called", r)
  /\ UNCHANGED <<db, notify, queue, watch>>

\* update by primary key, whatever became of the flow.
RequestSave(w) ==
  /\ At(w, "request", "called")
  /\ Save(w, [row EXCEPT !.created = TRUE])
  /\ publishPresentationFlowEvent
  /\ UNCHANGED <<wallet, notify, queue>>

-----------------------------------------------------------------------------
(* The wallet, and the callbacks of Verified ID, which come in any order and
   again when they were not answered with success. *)

WalletRetrieves(r) ==
  /\ request[r].state = "open" /\ mode # "mdoc"
  /\ request' = [request EXCEPT ![r].state = "retrieved"]
  /\ UNCHANGED <<db, details, tokens, notify, queue, watch, local>>

WalletPresents(r) ==
  /\ request[r].state = IF mode = "mdoc" THEN "open" ELSE "retrieved"
  /\ request' = [request EXCEPT ![r].state = "presented"]
  /\ UNCHANGED <<db, details, tokens, notify, queue, watch, local>>

RetrievedRead(w) ==
  /\ Idle(w) /\ "retrieved" \in calls /\ mode # "mdoc"
  /\ \E r \in details :
       /\ request[r].state \in {"retrieved", "presented"}
       /\ ~row.retrieved
       /\ Goto(w, "retrieved", "read", r)
  /\ Read(w)
  /\ UNCHANGED <<wallet, notify, queue, watch>>

RetrievedSave(w) ==
  /\ At(w, "retrieved", "read")
  /\ Save(w, [row EXCEPT !.retrieved = TRUE])
  /\ publishPresentationFlowEvent
  /\ UNCHANGED <<wallet, notify, queue>>

\* The presentation is inserted, the token's entry updated (without one the
\* handler throws) and the flow read, whatever its status.
VerifiedRead(w) ==
  /\ Idle(w) /\ "verified" \in calls /\ mode # "mdoc"
  /\ \E r \in details \cap tokens :
       /\ request[r].state = "presented"
       /\ request[r].deliveries < MaxDeliveries
       /\ request' = [request EXCEPT ![r].deliveries = @ + 1]
       /\ Goto(w, "verified", "read", r)
  /\ Read(w)
  /\ UNCHANGED <<details, tokens, notify, queue, watch>>

VerifiedSave(w) ==
  /\ At(w, "verified", "read")
  /\ LET presented == [row EXCEPT !.presentation = <<on[w], request[on[w]].deliveries>>]
     IN \/ /\ mode = "auto"
           /\ Save(w, [presented EXCEPT !.submitted = TRUE])
           /\ EnqueueCallback
        \/ /\ mode # "auto"
           /\ Save(w, presented)
           /\ UNCHANGED queue
  /\ publishPresentationFlowEvent
  /\ UNCHANGED <<wallet, notify>>

\* ProcessMDocPresentationResponseCommand: the response comes from the browser.
RespondFind(w) ==
  /\ Idle(w) /\ "respond" \in calls /\ mode = "mdoc"
  /\ \E r \in details :
       request[r].state = "presented" /\ Goto(w, "respond", "found", r)
  /\ UNCHANGED <<db, wallet, notify, queue, watch>>

\* It is decoded and validated, and the entry of the request deleted, whoever has found
\* it as well.  The presentation is inserted.
RespondRead(w) ==
  /\ At(w, "respond", "found")
  /\ request[on[w]].deliveries < MaxDeliveries
  /\ request' = [request EXCEPT ![on[w]].deliveries = @ + 1]
  /\ details' = details \ {on[w]}
  /\ Goto(w, "respond", "read", on[w])
  /\ Read(w)
  /\ UNCHANGED <<tokens, notify, queue, watch>>

RespondSave(w) ==
  /\ At(w, "respond", "read")
  /\ Save(w, [row EXCEPT !.presentation = <<on[w], request[on[w]].deliveries>>,
                         !.submitted = TRUE])
  /\ UNCHANGED <<wallet, notify, queue, watch>>

RespondPublish(w) ==
  /\ At(w, "respond", "publish")
  /\ publishPresentationFlowEvent
  /\ Finish(w)
  /\ UNCHANGED <<db, wallet, notify, queue>>

-----------------------------------------------------------------------------
(* The responder's submit and the cancellation. *)

\* Variant: only a flow that has ended is refused.
SubmittableUnlessEnded(r) == ~Terminal(r) /\ ~expired

canSubmit(r) == status(r) = "PresentationVerified" /\ ~expired

SubmitRead(w) ==
  /\ Idle(w) /\ "submit" \in calls /\ canSubmit(row)
  /\ Read(w)
  /\ Goto(w, "submit", "read", None)
  /\ UNCHANGED <<wallet, notify, queue, watch>>

SubmitSave(w) ==
  /\ At(w, "submit", "read")
  /\ Save(w, [row EXCEPT !.submitted = TRUE])
  /\ publishPresentationFlowEvent
  /\ EnqueueCallback
  /\ UNCHANGED <<wallet, notify>>

\* Variant: only a cancelled flow is refused.
CancellableUnlessCancelled(r) == r.exists /\ ~r.cancelled

canCancel(r) == status(r) \in {"Pending", "RequestCreated", "RequestRetrieved"}

CancelRead(w) ==
  /\ Idle(w) /\ "cancel" \in calls /\ canCancel(row)
  /\ Read(w)
  /\ Goto(w, "cancel", "read", None)
  /\ UNCHANGED <<wallet, notify, queue, watch>>

CancelSave(w) ==
  /\ At(w, "cancel", "read")
  /\ Save(w, [row EXCEPT !.cancelled = TRUE])
  /\ publishPresentationFlowEvent
  /\ EnqueueCallback
  /\ UNCHANGED <<wallet, notify>>

-----------------------------------------------------------------------------
(* The application's callback: a job that is retried until it succeeds, for
   three days. *)

\* The job reads the committed row outside any transaction; a flow that has not
\* ended yet makes it throw, and it stays queued for the next attempt.
InvokeRead ==
  /\ jobs > 0 /\ Terminal(row)
  /\ jobs' = jobs - 1
  /\ posting' = posting \cup {Payload(row)}
  /\ UNCHANGED <<told, db, wallet, notify, watch, local>>

InvokeSucceeds ==
  /\ \E p \in posting : posting' = posting \ {p} /\ told' = told \cup {p}
  /\ UNCHANGED <<jobs, db, wallet, notify, watch, local>>

\* Variant: the queue does not retry the job.
InvokeFailsForGood ==
  /\ \E p \in posting : posting' = posting \ {p}
  /\ UNCHANGED <<jobs, told, db, wallet, notify, watch, local>>

\* Variant: a failed post is queued again and stays where it was.
InvokeFailsTwice ==
  /\ posting # {}
  /\ jobs' = jobs + 1
  /\ UNCHANGED <<posting, told, db, wallet, notify, watch, local>>

InvokeFails ==
  /\ jobs < MaxJobs
  /\ \E p \in posting : posting' = posting \ {p}
  /\ jobs' = jobs + 1
  /\ UNCHANGED <<told, db, wallet, notify, watch, local>>

\* A job that a rolled-back transaction left behind uses up its attempts; no
\* transaction stays open that long.
InvokeGivesUp ==
  /\ jobs > 0 /\ ~Terminal(row)
  /\ \A w \in Workers : Idle(w)
  /\ jobs' = jobs - 1
  /\ UNCHANGED <<posting, told, db, wallet, notify, watch, local>>

-----------------------------------------------------------------------------
(* The notification of the responder, by the job or by the resend mutation,
   with the error handler both share. *)

NotifyRead(w) ==
  /\ Idle(w) /\ "notify" \in calls
  /\ notices' \in {notices, IF notices > 0 THEN notices - 1 ELSE 0}
  /\ \/ ~Closed(row) /\ contact /\ Read(w) /\ Goto(w, "notify", "read", None)
     \/ /\ row.exists /\ (Closed(row) \/ ~contact)
        /\ Goto(w, "notifyFail", "retry", None)
        /\ UNCHANGED db
  /\ UNCHANGED <<contact, sent, wallet, queue, watch>>

NotifySend(w) ==
  /\ At(w, "notify", "read")
  /\ sent < MaxSent
  /\ sent' = sent + 1
  /\ Goto(w, "notify", "called", None)
  /\ UNCHANGED <<db, wallet, contact, notices, queue, watch>>

NotifySave(w) ==
  /\ At(w, "notify", "called")
  /\ Save(w, [row EXCEPT !.notification = "sent"])
  /\ UNCHANGED <<wallet, notify, queue, watch>>

\* Without a look at the status of the flow or of the notification.
NotifyFailRead(w) ==
  /\ At(w, "notifyFail", "retry")
  /\ Read(w)
  /\ Goto(w, "notifyFail", "read", None)
  /\ UNCHANGED <<wallet, notify, queue, watch>>

NotifyFailSave(w) ==
  /\ At(w, "notifyFail", "read")
  /\ Save(w, [row EXCEPT !.notification = "failed"])
  /\ UNCHANGED <<wallet, notify, queue, watch>>

\* An e-mail or SMS status callback that reports a failed delivery.
BounceRead(w) ==
  /\ Idle(w) /\ "bounce" \in calls /\ sent > 0
  /\ ~isNotificationFinal(row)
  /\ Read(w)
  /\ Goto(w, "bounce", "read", None)
  /\ UNCHANGED <<wallet, notify, queue, watch>>

BounceSave(w) ==
  /\ At(w, "bounce", "read")
  /\ Save(w, [row EXCEPT !.notification = "failed"])
  /\ UNCHANGED <<wallet, notify, queue, watch>>

\* UpdatePresentationFlowContactCommand: new contact details, or none.
UpdateRead(w) ==
  /\ Idle(w) /\ "update" \in calls /\ ~Closed(row)
  /\ Read(w)
  /\ Goto(w, "update", "read", None)
  /\ UNCHANGED <<wallet, notify, queue, watch>>

UpdateBlob(w) ==
  /\ At(w, "update", "read")
  /\ contact' \in BOOLEAN
  /\ Goto(w, "update", IF contact' THEN "set" ELSE "cleared", None)
  /\ UNCHANGED <<db, wallet, notices, sent, queue, watch>>

UpdateSave(w) ==
  /\ op[w] = "update" /\ pc[w] \in {"set", "cleared"}
  /\ Save(w, [row EXCEPT !.notification = IF pc[w] = "set" THEN "pending" ELSE "none"])
  /\ UNCHANGED <<wallet, notify, queue, watch>>

-----------------------------------------------------------------------------
(* The subscriber, the clock and the caches' time to live. *)

\* The event is resolved by a read of the committed row.
Resolve ==
  /\ event /\ "resolve" \in calls
  /\ event' = FALSE
  /\ view' = Stage(row)
  /\ UNCHANGED <<db, wallet, notify, queue, local>>

Expire ==
  /\ ~expired /\ "expire" \in calls
  /\ expired' = TRUE
  /\ UNCHANGED <<mode, calls, row, draft, readers, writer, presentations>>
  /\ UNCHANGED <<wallet, notify, queue, watch, local>>

EntryExpires(r) ==
  /\ "forget" \in calls
  /\ \/ r \in details /\ details' = details \ {r} /\ UNCHANGED tokens
     \/ r \in tokens /\ tokens' = tokens \ {r} /\ UNCHANGED details
  /\ UNCHANGED <<request, db, notify, queue, watch, local>>

-----------------------------------------------------------------------------
Init ==
  /\ mode \in Modes /\ calls \in Scenarios
  /\ row = NoFlow /\ draft = NoFlow /\ expired = FALSE
  /\ readers = {} /\ writer = Nobody /\ presentations = {}
  /\ request = [r \in Requests |-> [state |-> "none", deliveries |-> 0]]
  /\ details = {} /\ tokens = {}
  /\ contact = FALSE /\ notices = 0 /\ sent = 0
  /\ jobs = 0 /\ posting = {} /\ told = {}
  /\ event = FALSE /\ view = "Pending"
  /\ op = [w \in Workers |-> "none"]
  /\ pc = [w \in Workers |-> "idle"]
  /\ on = [w \in Workers |-> None]

Step(w) ==
  \/ Create(w) \/ RequestRead(w) \/ RequestCall(w) \/ RequestSave(w)
  \/ RetrievedRead(w) \/ RetrievedSave(w) \/ VerifiedRead(w) \/ VerifiedSave(w)
  \/ RespondFind(w) \/ RespondRead(w) \/ RespondSave(w) \/ RespondPublish(w)
  \/ SubmitRead(w) \/ SubmitSave(w) \/ CancelRead(w) \/ CancelSave(w)
  \/ NotifyRead(w) \/ NotifySend(w) \/ NotifySave(w)
  \/ NotifyFailRead(w) \/ NotifyFailSave(w) \/ BounceRead(w) \/ BounceSave(w)
  \/ UpdateRead(w) \/ UpdateBlob(w) \/ UpdateSave(w)
  \/ Commit(w) \/ Abort(w)

Next ==
  \/ \E w \in Workers : Step(w)
  \/ \E r \in Requests : WalletRetrieves(r) \/ WalletPresents(r) \/ EntryExpires(r)
  \/ InvokeRead \/ InvokeSucceeds \/ InvokeFails \/ InvokeGivesUp
  \/ Resolve \/ Expire

\* The queue runs its jobs, and the application's endpoint does not refuse for
\* three days on end; nothing else needs to happen.
Fairness == WF_vars(InvokeRead) /\ SF_vars(InvokeSucceeds)

Spec == Init /\ [][Next]_vars /\ Fairness

-----------------------------------------------------------------------------
(* Properties. *)

Steps == {"idle", "found", "read", "called", "set", "cleared", "saved", "publish", "retry"}
Operations ==
  {"none", "create", "request", "retrieved", "verified", "respond", "submit",
   "cancel", "notify", "notifyFail", "bounce", "update"}
Stages ==
  {"Pending", "RequestCreated", "RequestRetrieved", "PresentationVerified",
   "Submitted", "Cancelled"}
Payloads == [status: Stages, presentation: Presentations \cup {None}]

\* The types of the variables.
TypeOK ==
  /\ mode \in AllModes /\ calls \in SUBSET AllEvents
  /\ row \in Flows /\ draft \in Flows /\ expired \in BOOLEAN
  /\ readers \subseteq Workers /\ writer \in Workers \cup {Nobody}
  /\ presentations \subseteq Presentations
  /\ request \in [Requests -> [state: {"none", "open", "retrieved", "presented"},
                               deliveries: 0..MaxDeliveries]]
  /\ details \subseteq Requests /\ tokens \subseteq Requests
  /\ contact \in BOOLEAN /\ notices \in 0..1 /\ sent \in 0..MaxSent
  /\ jobs \in 0..MaxJobs /\ posting \subseteq Payloads /\ told \subseteq Payloads
  /\ event \in BOOLEAN /\ view \in Stages
  /\ op \in [Workers -> Operations]
  /\ pc \in [Workers -> Steps]
  /\ on \in [Workers -> Requests \cup {None}]

\* How the flow ended, as the application understands it.  An mDoc flow is left
\* out: its submission does not queue the callback.
OutcomeOf ==
  CASE mode # "mdoc" /\ Stage(row) = "Submitted" -> "submitted"
    [] mode # "mdoc" /\ Stage(row) = "Cancelled" -> "cancelled"
    [] OTHER -> "open"
ToldOutcomes ==
  IF mode = "mdoc" THEN {}
  ELSE {IF p.status = "Submitted" THEN "submitted" ELSE "cancelled" : p \in told}

Outcome == INSTANCE FlowOutcome WITH outcome <- OutcomeOf, told <- ToldOutcomes

\* The flow keeps its promise: whatever the order of cancellation, submit,
\* presentations, redelivered callbacks, roll-backs and retried jobs, it ends once
\* and the application hears of that end, and of no other, in the end.
KeepsOutcomePromise == Outcome!Spec
\* The same without the fairness.
KeepsOutcomeSafely == Outcome!Safe

\* The callback job is queued before the transaction that ends the flow commits:
\* an ended flow has a job queued or running, or was told.
OutcomeQueued ==
  mode # "mdoc" /\ Terminal(row) => jobs > 0 \/ posting # {} \/ told # {}

\* A flow is only submitted on a presentation, and only refers to presentations
\* that were committed, whatever was rolled back or delivered again.
SubmittedOnPresentation ==
  /\ row.submitted => row.presentation # None
  /\ row.presentation # None => row.presentation \in presentations

\* The resolver of an mDoc response publishes after the commit: once its event is
\* resolved the subscriber has seen the end of the flow.
MdocOutcomeSeen ==
  mode = "mdoc" /\ Stage(row) = "Submitted" /\ ~event
    /\ (\A w \in Workers : pc[w] # "publish") => view = "Submitted"

\* No message goes out to the responder of a flow that is cancelled, submitted or
\* presented at that moment.
NoMessageOnceClosed == [][sent' # sent => ~Closed(row)]_vars

\* The documentation: the application is told when a flow is submitted or
\* cancelled, whatever its type.
EveryOutcomeQueued ==
  Terminal(row) => jobs > 0 \/ posting # {} \/ told # {}

\* The documentation: EXPIRED is a terminal state.  A flow that is expired with no
\* handler in flight stays expired.
ExpiredIsTerminal ==
  [](status(row) = "Expired" /\ (\A w \in Workers : Idle(w))
       => [](status(row) = "Expired"))

\* What the mDoc resolver's comment asks for: after the last event is resolved
\* the subscriber has seen the committed end of the flow.
OutcomeSeen ==
  Terminal(row) /\ ~event /\ (\A w \in Workers : pc[w] # "publish")
    => view = Stage(row)
=============================================================================
