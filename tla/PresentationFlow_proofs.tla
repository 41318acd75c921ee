----------------------- MODULE PresentationFlow_proofs -----------------------
(***************************************************************************)
(* Proofs about PresentationFlow, for any number of handlers, requests and *)
(* deliveries: its types, that a flow is submitted on a committed          *)
(* presentation, that the end of a flow is queued for the application, and *)
(* that the flow implements FlowOutcome.  All of them need to know what    *)
(* the locks protect: what a handler has read still holds when it saves,   *)
(* and what is saved keeps an end that was committed.                      *)
(***************************************************************************)
EXTENDS PresentationFlow, TLAPS

\* The steps of a handler whose transaction is open, and the saving one apart.
Reading == {"read", "called", "set", "cleared"}

\* The locks of REPEATABLE READ: a transaction that has read the row keeps others
\* from saving it, and one that has saved it keeps them from reading it.
Locks ==
  /\ writer # Nobody => pc[writer] = "saved" /\ readers \subseteq {writer}
  /\ \A w \in Workers :
       /\ pc[w] = "saved" => writer = w
       /\ pc[w] \in Reading => w \in readers

\* The row is created once: what is read or saved exists.
Exists ==
  /\ ~row.exists => row = NoFlow /\ readers = {}
  /\ writer # Nobody => draft.exists

\* What a handler found when it read the row still holds.
Checked ==
  \A w \in Workers : pc[w] = "read" =>
    /\ op[w] \in {"cancel", "notify"} => ~Closed(row)
    /\ op[w] = "submit" => ~Terminal(row) /\ row.presentation # None
    /\ op[w] \in {"verified", "respond"} =>
         on[w] \in Requests /\ request[on[w]].deliveries \in 1..MaxDeliveries

\* What ends a flow is a matter of its type.
OfMode ==
  /\ \A w \in Workers :
       /\ op[w] = "respond" => mode = "mdoc"
       /\ op[w] = "verified" => mode # "mdoc"
       /\ pc[w] = "found" => op[w] = "respond" /\ on[w] \in Requests
  /\ mode = "mdoc" =>
       /\ row.presentation # None => row.submitted
       /\ writer # Nobody /\ draft.presentation # None => draft.submitted

\* No save ends a flow in another way than it had ended.
EndKept == writer # Nobody /\ Terminal(row) => Stage(draft) = Stage(row)

\* What the application was told, or is about to be, is how the flow ended.
ToldTheEnd == \A p \in posting \cup told : Terminal(row) /\ p.status = Stage(row)

\* The job is queued before the end of the flow is committed.
QueuedBefore ==
  mode # "mdoc" /\ writer # Nobody /\ Terminal(draft) /\ ~Terminal(row) => jobs > 0

\* A submission that is not committed yet has its presentation, too.
DraftPresented == writer # Nobody /\ draft.submitted => draft.presentation # None

\* An mDoc flow is submitted by the response only, whose resolver will publish.
SubmittedByResponse ==
  mode = "mdoc" /\ writer # Nobody /\ Stage(draft) = "Submitted" =>
    Stage(row) = "Submitted" \/ op[writer] = "respond"

-----------------------------------------------------------------------------
(* Types. *)

\* The status of a row is one of the stages, and depends on its fields only.
LEMMA StageType ==
  ASSUME NEW r
  PROVE  /\ Stage(r) \in Stages
         /\ Stage(r) = "Cancelled" <=> r.cancelled
         /\ Stage(r) = "Submitted" <=> ~r.cancelled /\ r.submitted
         /\ Terminal(r) <=> r.cancelled \/ r.submitted
  BY DEF Stage, Stages, Terminal

LEMMA InitTypes == Init => TypeOK
<1> SUFFICES ASSUME Init PROVE TypeOK
  OBVIOUS
<1> USE FlowConstants DEF Init
<1>1. NoFlow \in Flows
  BY DEF NoFlow, Flows
<1>2. request \in [Requests -> [state: {"none", "open", "retrieved", "presented"},
                                deliveries: 0..MaxDeliveries]]
  OBVIOUS
<1>3. op \in [Workers -> Operations] /\ pc \in [Workers -> Steps]
        /\ on \in [Workers -> Requests \cup {None}]
  BY DEF Operations, Steps
<1>4. /\ mode \in AllModes /\ calls \in SUBSET AllEvents /\ expired \in BOOLEAN
      /\ readers \subseteq Workers /\ writer \in Workers \cup {Nobody}
      /\ presentations \subseteq Presentations
      /\ details \subseteq Requests /\ tokens \subseteq Requests
  OBVIOUS
<1>5. MaxSent \in Nat /\ MaxJobs \in Nat
  OBVIOUS
<1>6. notices \in 0..1 /\ sent \in 0..MaxSent /\ jobs \in 0..MaxJobs
  BY <1>5
<1>7. /\ contact \in BOOLEAN /\ posting \subseteq Payloads /\ told \subseteq Payloads
      /\ event \in BOOLEAN /\ view \in Stages
  BY DEF Stages
<1> QED  BY <1>1, <1>2, <1>3, <1>4, <1>6, <1>7, Zenon DEF TypeOK, Init

LEMMA TypeStep == TypeOK /\ Checked /\ OfMode /\ [Next]_vars => TypeOK'
<1> SUFFICES ASSUME TypeOK, Checked, OfMode, [Next]_vars PROVE TypeOK'
  OBVIOUS
<1> USE FlowConstants DEF TypeOK
<1> USE DEF db, wallet, notify, queue, watch, local
<1>1. ASSUME NEW w \in Workers, Step(w) PROVE TypeOK'
  <2> USE <1>1 DEF Goto, Finish, Save, Release, Read, EnqueueCallback, publishPresentationFlowEvent,
        At, Idle, Operations, Steps
  <2>1. CASE Create(w)
    <3>1. PICK c \in BOOLEAN :
            draft' = [NoFlow EXCEPT !.exists = TRUE,
                                    !.notification = IF c THEN "pending" ELSE "none"]
      BY <2>1 DEF Create
    <3>2. draft' \in Flows
      BY <3>1 DEF Flows, NoFlow
    <3> QED  BY <2>1, <3>2 DEF Create
  <2>2. CASE RequestRead(w)  BY <2>2 DEF RequestRead
  <2>3. CASE RequestCall(w)  BY <2>3 DEF RequestCall
  <2>4. CASE RequestSave(w)  BY <2>4 DEF RequestSave, Flows
  <2>5. CASE RetrievedRead(w)  BY <2>5 DEF RetrievedRead
  <2>6. CASE RetrievedSave(w)  BY <2>6 DEF RetrievedSave, Flows
  <2>7. CASE VerifiedRead(w)  BY <2>7 DEF VerifiedRead
  <2>9. CASE RespondRead(w)
    <3>1. on[w] \in Requests
      BY <2>9 DEF RespondRead, OfMode
    <3> QED  BY <2>9, <3>1 DEF RespondRead
  <2>10. CASE RespondFind(w)  BY <2>10 DEF RespondFind
  <2>11. CASE RespondPublish(w)  BY <2>11 DEF RespondPublish
  <2>12. CASE SubmitRead(w)  BY <2>12 DEF SubmitRead
  <2>13. CASE SubmitSave(w)
    <3>1. [row EXCEPT !.submitted = TRUE] \in Flows
      BY DEF Flows
    <3> QED  BY <2>13, <3>1 DEF SubmitSave
  <2>14. CASE CancelRead(w)  BY <2>14 DEF CancelRead
  <2>15. CASE CancelSave(w)
    <3>1. [row EXCEPT !.cancelled = TRUE] \in Flows
      BY DEF Flows
    <3> QED  BY <2>15, <3>1 DEF CancelSave
  <2>16. CASE NotifyRead(w)  BY <2>16 DEF NotifyRead
  <2>17. CASE NotifySend(w)  BY <2>17 DEF NotifySend
  <2>18. CASE NotifySave(w)  BY <2>18 DEF NotifySave, Flows
  <2>19. CASE NotifyFailRead(w)  BY <2>19 DEF NotifyFailRead
  <2>20. CASE NotifyFailSave(w)  BY <2>20 DEF NotifyFailSave, Flows
  <2>21. CASE BounceRead(w)  BY <2>21 DEF BounceRead
  <2>22. CASE BounceSave(w)  BY <2>22 DEF BounceSave, Flows
  <2>23. CASE UpdateRead(w)  BY <2>23 DEF UpdateRead
  <2>24. CASE UpdateBlob(w)  BY <2>24 DEF UpdateBlob
  <2>25. CASE UpdateSave(w)  BY <2>25 DEF UpdateSave, Flows
  <2>26. CASE Commit(w)  BY <2>26 DEF Commit, Flows, NoFlow
  <2>27. CASE Abort(w)  BY <2>27 DEF Abort, Flows, NoFlow
  <2>8. ASSUME At(w, "verified", "read") \/ At(w, "respond", "read")
        PROVE  <<on[w], request[on[w]].deliveries>> \in Presentations
    BY <2>8 DEF Checked, Presentations
  <2>28. CASE VerifiedSave(w)
    <3>1. [row EXCEPT !.presentation = <<on[w], request[on[w]].deliveries>>] \in Flows
      BY <2>8, <2>28 DEF VerifiedSave, Flows
    <3>2. \A r \in Flows : [r EXCEPT !.submitted = TRUE] \in Flows
      BY DEF Flows
    <3>3. draft' \in Flows
      BY <2>28, <3>1, <3>2 DEF VerifiedSave
    <3> QED  BY <2>28, <3>3 DEF VerifiedSave
  <2>29. CASE RespondSave(w)
    <3>1. [row EXCEPT !.presentation = <<on[w], request[on[w]].deliveries>>,
                      !.submitted = TRUE] \in Flows
      BY <2>8, <2>29 DEF RespondSave, Flows
    <3> QED  BY <2>29, <3>1 DEF RespondSave
  <2> QED  BY <1>1, <2>1, <2>2, <2>3, <2>4, <2>5, <2>6, <2>7, <2>28, <2>9, <2>10, <2>29, <2>11, <2>12,
            <2>13, <2>14, <2>15, <2>16, <2>17, <2>18, <2>19, <2>20, <2>21, <2>22, <2>23, <2>24,
            <2>25, <2>26, <2>27 DEF Step
<1>2. ASSUME NEW r \in Requests, WalletRetrieves(r) \/ WalletPresents(r) \/ EntryExpires(r)
      PROVE  TypeOK'
  BY <1>2 DEF WalletRetrieves, WalletPresents, EntryExpires
<1>3. CASE InvokeRead  BY <1>3, StageType DEF InvokeRead, Payload, Payloads, Flows
<1>4. CASE InvokeSucceeds \/ InvokeFails \/ InvokeGivesUp
  BY <1>4 DEF InvokeSucceeds, InvokeFails, InvokeGivesUp
<1>5. CASE Resolve \/ Expire  BY <1>5, StageType DEF Resolve, Expire
<1>6. CASE UNCHANGED vars  BY <1>6 DEF vars
<1> QED  BY <1>1, <1>2, <1>3, <1>4, <1>5, <1>6 DEF Next
-----------------------------------------------------------------------------
(* The inductive invariant.  Its parts, and the steps that can disturb them,
   come in groups: a read, a save, the two ends of a transaction, the
   application's callback, and what leaves row and handlers alone. *)

RowInv ==
  /\ Locks /\ Exists /\ Checked /\ OfMode /\ EndKept
  /\ DraftPresented /\ SubmittedByResponse /\ SubmittedOnPresentation

ToldInv == ToldTheEnd /\ QueuedBefore /\ OutcomeQueued

IInv == TypeOK /\ RowInv /\ ToldInv /\ MdocOutcomeSeen

LEMMA InitIInv == Init => IInv
<1> SUFFICES ASSUME Init PROVE IInv
  OBVIOUS
<1>1. TypeOK
  BY InitTypes
<1>2. ~Terminal(row) /\ Stage(row) # "Submitted"
  BY StageType DEF Init, NoFlow
<1>3. RowInv
  BY <1>2, FlowConstants DEF Init, NoFlow, RowInv, Locks, Exists, Checked, OfMode, EndKept,
     DraftPresented, SubmittedByResponse, SubmittedOnPresentation, Reading
<1>4. ToldInv /\ MdocOutcomeSeen
  BY <1>2 DEF Init, ToldInv, ToldTheEnd, QueuedBefore, OutcomeQueued, MdocOutcomeSeen
<1> QED  BY <1>1, <1>3, <1>4 DEF IInv

\* A handler that reads the row finds it saved by nobody.
LEMMA ReadStep ==
  ASSUME IInv, NEW w \in Workers, NEW o, NEW r,
         pc[w] \in {"idle", "retry", "found"}, Read(w), Goto(w, o, "read", r),
         o \in {"cancel", "notify"} => ~Closed(row),
         o = "submit" => ~Terminal(row) /\ row.presentation # None,
         o \in {"verified", "respond"} =>
           r \in Requests /\ request'[r].deliveries \in 1..MaxDeliveries,
         o = "respond" => mode = "mdoc", o = "verified" => mode # "mdoc",
         \A q \in Requests : request[q].deliveries \in 1..MaxDeliveries =>
           request'[q].deliveries \in 1..MaxDeliveries,
         UNCHANGED <<queue, watch>>
  PROVE  RowInv' /\ ToldInv' /\ MdocOutcomeSeen'
<1> USE FlowConstants DEF IInv, RowInv, TypeOK, Read, Goto, queue, watch
<1>1. Locks' /\ Exists'  BY DEF Locks, Exists, Reading
<1>2. Checked'  BY DEF Checked, Closed, Terminal, Stage
<1>3. OfMode'  BY DEF OfMode
<1>4. EndKept' /\ DraftPresented' /\ SubmittedByResponse' /\ SubmittedOnPresentation'
  BY DEF EndKept, DraftPresented, SubmittedByResponse, SubmittedOnPresentation, Terminal, Stage
<1>5. ToldInv'
  BY DEF ToldInv, ToldTheEnd, QueuedBefore, OutcomeQueued, Terminal, Stage
<1>6. MdocOutcomeSeen'
  BY DEF MdocOutcomeSeen, Stage
<1> QED  BY <1>1, <1>2, <1>3, <1>4, <1>5, <1>6 DEF RowInv

\* A handler that saves the row is the only one that has read it.
LEMMA SaveStep ==
  ASSUME IInv, NEW w \in Workers, NEW r \in Flows,
         pc[w] \in Reading, Save(w, r), r.exists,
         Terminal(row) => Stage(r) = Stage(row),
         mode # "mdoc" /\ Terminal(r) /\ ~Terminal(row) => jobs' > 0,
         r.submitted => r.presentation # None,
         mode = "mdoc" => /\ r.presentation # None => r.submitted
                          /\ Stage(r) = "Submitted" =>
                               Stage(row) = "Submitted" \/ op[w] = "respond",
         jobs' \in {jobs, jobs + 1}, event' \in {event, TRUE},
         UNCHANGED <<request, posting, told, view>>
  PROVE  RowInv' /\ ToldInv' /\ MdocOutcomeSeen'
<1> USE FlowConstants DEF IInv, RowInv, TypeOK, Save, Goto
<1>1. Locks' /\ Exists'  BY DEF Locks, Exists, Reading
<1>2. Checked'  BY DEF Checked, Closed, Terminal, Stage
<1>3. OfMode'  BY DEF OfMode
<1>4. EndKept' /\ DraftPresented' /\ SubmittedByResponse' /\ SubmittedOnPresentation'
  BY DEF EndKept, DraftPresented, SubmittedByResponse, SubmittedOnPresentation, Terminal, Stage
<1>5. ToldInv'
  BY DEF ToldInv, ToldTheEnd, QueuedBefore, OutcomeQueued, Terminal, Stage
<1>6. MdocOutcomeSeen'
  BY DEF MdocOutcomeSeen, Stage, Reading
<1> QED  BY <1>1, <1>2, <1>3, <1>4, <1>5, <1>6 DEF RowInv

\* A handler that goes on, neither reading nor saving the row.
LEMMA GoStep ==
  ASSUME IInv, NEW w \in Workers, NEW o, NEW p, NEW r,
         \/ pc[w] \in Reading /\ p \in Reading \ {"read"} /\ o = op[w]
         \/ pc[w] \in {"idle", "publish"} /\ p \in {"idle", "retry"} /\ o \in {"none", "notifyFail"}
         \/ /\ pc[w] = "idle" /\ p = "found"
            /\ o = "respond" /\ mode = "mdoc" /\ r \in Requests,
         Goto(w, o, p, r),
         \A q \in Requests : request'[q].deliveries = request[q].deliveries,
         pc[w] = "publish" => event',
         event' \in {event, TRUE},
         UNCHANGED <<db, queue, view>>
  PROVE  RowInv' /\ ToldInv' /\ MdocOutcomeSeen'
<1> USE FlowConstants DEF IInv, RowInv, TypeOK, Goto, queue, db, Reading
<1>1. Locks' /\ Exists'  BY DEF Locks, Exists
<1>2. Checked'  BY DEF Checked, Closed, Terminal, Stage
<1>3. OfMode'  BY DEF OfMode
<1>4. EndKept' /\ DraftPresented' /\ SubmittedByResponse' /\ SubmittedOnPresentation'
  BY DEF EndKept, DraftPresented, SubmittedByResponse, SubmittedOnPresentation, Terminal, Stage, Locks
<1>5. ToldInv'
  BY DEF ToldInv, ToldTheEnd, QueuedBefore, OutcomeQueued, Terminal, Stage
<1>6. MdocOutcomeSeen'
  BY DEF MdocOutcomeSeen, Stage
<1> QED  BY <1>1, <1>2, <1>3, <1>4, <1>5, <1>6 DEF RowInv

\* What leaves the row and the handlers alone.
LEMMA QuietStep ==
  ASSUME IInv,
         UNCHANGED <<mode, row, draft, readers, writer, presentations, local>>,
         \A q \in Requests : request'[q].deliveries = request[q].deliveries
  PROVE  RowInv'
<1> USE DEF IInv, RowInv, local
<1>1. Locks' /\ Exists'  BY DEF Locks, Exists
<1>2. Checked'  BY DEF Checked, Closed, Terminal, Stage
<1>3. OfMode'  BY DEF OfMode
<1>4. EndKept' /\ DraftPresented' /\ SubmittedByResponse' /\ SubmittedOnPresentation'
  BY DEF EndKept, DraftPresented, SubmittedByResponse, SubmittedOnPresentation, Terminal, Stage
<1> QED  BY <1>1, <1>2, <1>3, <1>4 DEF RowInv

-----------------------------------------------------------------------------
(* Every step preserves the invariant. *)

LEMMA ReadingSteps ==
  ASSUME IInv, NEW w \in Workers,
         \/ RequestRead(w) \/ RetrievedRead(w) \/ VerifiedRead(w) \/ RespondRead(w)
         \/ SubmitRead(w) \/ CancelRead(w) \/ NotifyRead(w) \/ NotifyFailRead(w)
         \/ BounceRead(w) \/ UpdateRead(w)
  PROVE  RowInv' /\ ToldInv' /\ MdocOutcomeSeen'
<1> USE FlowConstants DEF Idle, At, wallet, notify, queue, watch
<1>1. CASE RequestRead(w)  BY <1>1, ReadStep DEF RequestRead
<1>2. CASE RetrievedRead(w)  BY <1>2, ReadStep DEF RetrievedRead
<1>3. CASE VerifiedRead(w)
  <2>1. PICK r \in details \cap tokens :
          /\ request[r].deliveries < MaxDeliveries
          /\ request' = [request EXCEPT ![r].deliveries = @ + 1]
          /\ Goto(w, "verified", "read", r)
    BY <1>3 DEF VerifiedRead
  <2>2. r \in Requests /\ request[r].deliveries \in 0..MaxDeliveries
    BY <2>1 DEF IInv, TypeOK
  <2>3. request'[r].deliveries \in 1..MaxDeliveries
    BY <2>1, <2>2 DEF IInv, TypeOK
  <2>4. \A q \in Requests : request[q].deliveries \in 1..MaxDeliveries =>
           request'[q].deliveries \in 1..MaxDeliveries
    BY <2>1, <2>3 DEF IInv, TypeOK
  <2> QED  BY <1>3, <2>1, <2>2, <2>3, <2>4, ReadStep DEF VerifiedRead
<1>4. CASE RespondRead(w)
  <2>1. /\ request[on[w]].deliveries < MaxDeliveries
        /\ request' = [request EXCEPT ![on[w]].deliveries = @ + 1]
        /\ pc[w] = "found" /\ Read(w) /\ Goto(w, "respond", "read", on[w])
        /\ UNCHANGED <<queue, watch>>
    BY <1>4 DEF RespondRead
  <2>2. on[w] \in Requests /\ request[on[w]].deliveries \in 0..MaxDeliveries /\ mode = "mdoc"
    BY <2>1, <1>4 DEF IInv, TypeOK, RowInv, OfMode, RespondRead
  <2>3. request'[on[w]].deliveries \in 1..MaxDeliveries
    BY <2>1, <2>2 DEF IInv, TypeOK
  <2>4. \A q \in Requests : request[q].deliveries \in 1..MaxDeliveries =>
           request'[q].deliveries \in 1..MaxDeliveries
    BY <2>1, <2>3 DEF IInv, TypeOK
  <2> QED  BY <2>1, <2>2, <2>3, <2>4, ReadStep
<1>5. CASE SubmitRead(w)
  <2>1. ~Terminal(row) /\ row.presentation # None
    BY <1>5 DEF SubmitRead, canSubmit, status, Stage, Terminal
  <2> QED  BY <1>5, <2>1, ReadStep DEF SubmitRead
<1>6. CASE CancelRead(w)
  <2>1. ~Closed(row)
    BY <1>6 DEF CancelRead, canCancel, status, Stage, Closed
  <2> QED  BY <1>6, <2>1, ReadStep DEF CancelRead
<1>7. CASE NotifyRead(w)
  <2>1. CASE ~Closed(row) /\ Read(w) /\ Goto(w, "notify", "read", None)
    BY <1>7, <2>1, ReadStep DEF NotifyRead
  <2>2. CASE Goto(w, "notifyFail", "retry", None) /\ UNCHANGED db
    BY <1>7, <2>2, GoStep DEF NotifyRead
  <2> QED  BY <1>7, <2>1, <2>2 DEF NotifyRead
<1>8. CASE NotifyFailRead(w)  BY <1>8, ReadStep DEF NotifyFailRead
<1>9. CASE BounceRead(w)  BY <1>9, ReadStep DEF BounceRead
<1>10. CASE UpdateRead(w)  BY <1>10, ReadStep DEF UpdateRead
<1> QED  BY <1>1, <1>2, <1>3, <1>4, <1>5, <1>6, <1>7, <1>8, <1>9, <1>10

LEMMA GoingSteps ==
  ASSUME IInv, NEW w \in Workers,
         RequestCall(w) \/ NotifySend(w) \/ UpdateBlob(w) \/ RespondPublish(w) \/ RespondFind(w)
  PROVE  RowInv' /\ ToldInv' /\ MdocOutcomeSeen'
<1> USE DEF At, Reading, wallet, notify, queue, watch
<1>1. CASE RequestCall(w)
  <2>1. PICK r \in Requests :
          /\ request' = [request EXCEPT ![r].state = "open"]
          /\ Goto(w, "request", "called", r)
    BY <1>1 DEF RequestCall
  <2>2. \A q \in Requests : request'[q].deliveries = request[q].deliveries
    BY <2>1 DEF IInv, TypeOK
  <2> QED  BY <1>1, <2>1, <2>2, GoStep DEF RequestCall
<1>2. CASE NotifySend(w)  BY <1>2, GoStep DEF NotifySend
<1>3. CASE UpdateBlob(w)  BY <1>3, GoStep DEF UpdateBlob
<1>4. CASE RespondPublish(w)
  BY <1>4, GoStep DEF RespondPublish, Finish, publishPresentationFlowEvent
<1>5. CASE RespondFind(w)
  <2>1. PICK r \in details : Goto(w, "respond", "found", r)
    BY <1>5 DEF RespondFind
  <2>2. r \in Requests
    BY DEF IInv, TypeOK
  <2> QED  BY <1>5, <2>1, <2>2, GoStep DEF RespondFind, Idle
<1> QED  BY <1>1, <1>2, <1>3, <1>4, <1>5

\* A save that touches none of the fields that tell how far the flow is.
LEMMA AsideStep ==
  ASSUME IInv, NEW w \in Workers, pc[w] \in Reading, NEW r \in Flows, Save(w, r),
         r.exists = row.exists, r.cancelled = row.cancelled,
         r.submitted = row.submitted, r.presentation = row.presentation,
         event' \in {event, TRUE}, UNCHANGED <<request, queue, view>>
  PROVE  RowInv' /\ ToldInv' /\ MdocOutcomeSeen'
<1>1. row.exists /\ (row.submitted => row.presentation # None)
  BY DEF IInv, RowInv, Locks, Exists, SubmittedOnPresentation
<1>2. Terminal(row) => Stage(r) = Stage(row)
  BY DEF Terminal, Stage
<1>3. (Terminal(r) <=> Terminal(row)) /\ (Stage(r) = "Submitted" <=> Stage(row) = "Submitted")
  BY StageType
<1>4. mode = "mdoc" /\ row.presentation # None => row.submitted
  BY DEF IInv, RowInv, OfMode
<1> QED  BY <1>1, <1>2, <1>3, <1>4, SaveStep DEF queue

LEMMA SavingSteps ==
  ASSUME IInv, NEW w \in Workers,
         \/ RequestSave(w) \/ RetrievedSave(w) \/ VerifiedSave(w) \/ RespondSave(w)
         \/ SubmitSave(w) \/ CancelSave(w) \/ NotifySave(w) \/ NotifyFailSave(w)
         \/ BounceSave(w) \/ UpdateSave(w)
  PROVE  RowInv' /\ ToldInv' /\ MdocOutcomeSeen'
<1> USE DEF At, Reading, wallet, notify, queue, watch, EnqueueCallback,
      publishPresentationFlowEvent
<1>1. row \in Flows /\ jobs \in Nat
  BY FlowConstants DEF IInv, TypeOK
<1>2. (\E u \in Workers : pc[u] \in Reading) =>
        row.exists /\ (row.submitted => row.presentation # None)
  BY DEF IInv, RowInv, Locks, Exists, SubmittedOnPresentation
<1>3. CASE RequestSave(w)  BY <1>1, <1>3, AsideStep DEF RequestSave, Flows
<1>4. CASE RetrievedSave(w)  BY <1>1, <1>4, AsideStep DEF RetrievedSave, Flows
<1>5. CASE NotifySave(w)  BY <1>1, <1>5, AsideStep DEF NotifySave, Flows
<1>6. CASE NotifyFailSave(w)  BY <1>1, <1>6, AsideStep DEF NotifyFailSave, Flows
<1>7. CASE BounceSave(w)  BY <1>1, <1>7, AsideStep DEF BounceSave, Flows
<1>8. CASE UpdateSave(w)  BY <1>1, <1>8, AsideStep DEF UpdateSave, Flows
<1>9. CASE CancelSave(w)
  <2> DEFINE r == [row EXCEPT !.cancelled = TRUE]
  <2>1. r \in Flows /\ r.exists /\ r.presentation = row.presentation
        /\ r.submitted = row.submitted /\ r.cancelled
    BY <1>1, <1>2, <1>9 DEF CancelSave, Flows
  <2>2. ~Closed(row)
    BY <1>9 DEF CancelSave, IInv, RowInv, Checked
  <2>3. ~Terminal(row) /\ ~r.submitted /\ r.presentation = None /\ Stage(r) # "Submitted"
    BY <2>1, <2>2, StageType DEF Closed
  <2>4. Save(w, r) /\ pc[w] \in Reading
    BY <1>9 DEF CancelSave
  <2> HIDE DEF r
  <2> QED  BY <1>1, <1>9, <2>1, <2>3, <2>4, SaveStep DEF CancelSave
<1>10. CASE SubmitSave(w)
  <2> DEFINE r == [row EXCEPT !.submitted = TRUE]
  <2>1. r \in Flows /\ r.exists /\ r.presentation = row.presentation
        /\ r.submitted /\ r.cancelled = row.cancelled
    BY <1>1, <1>2, <1>10 DEF SubmitSave, Flows
  <2>2. ~Terminal(row) /\ row.presentation # None
    BY <1>10 DEF SubmitSave, IInv, RowInv, Checked
  <2>3. mode # "mdoc"
    BY <2>2, StageType DEF IInv, RowInv, OfMode
  <2>4. Save(w, r) /\ pc[w] \in Reading
    BY <1>10 DEF SubmitSave
  <2> HIDE DEF r
  <2> QED  BY <1>1, <1>10, <2>1, <2>2, <2>3, <2>4, SaveStep DEF SubmitSave
<1>11. ASSUME At(w, "verified", "read") \/ At(w, "respond", "read")
       PROVE  /\ <<on[w], request[on[w]].deliveries>> \in Presentations
              /\ <<on[w], request[on[w]].deliveries>> # None
  BY <1>11, FlowConstants DEF IInv, RowInv, Checked, Presentations
<1>12. CASE VerifiedSave(w)
  <2> DEFINE p == <<on[w], request[on[w]].deliveries>>
             r == [row EXCEPT !.presentation = p]
             s == [r EXCEPT !.submitted = TRUE]
  <2>1. p \in Presentations /\ p # None
    BY <1>11, <1>12 DEF VerifiedSave
  <2>2. mode # "mdoc"
    BY <1>12 DEF VerifiedSave, IInv, RowInv, OfMode
  <2> HIDE DEF p
  <2>3. /\ r \in Flows /\ r.exists /\ r.presentation # None
        /\ r.submitted = row.submitted /\ r.cancelled = row.cancelled
    BY <1>1, <1>2, <1>12, <2>1 DEF VerifiedSave, Flows
  <2>4. /\ s \in Flows /\ s.exists /\ s.presentation # None
        /\ s.submitted /\ s.cancelled = row.cancelled
    BY <1>1, <1>2, <1>12, <2>1 DEF VerifiedSave, Flows
  <2> HIDE DEF r, s
  <2>5. Terminal(row) => Stage(r) = Stage(row) /\ Stage(s) = Stage(row)
    BY <2>3, <2>4 DEF Terminal, Stage
  <2>6. Terminal(r) <=> Terminal(row)
    BY <2>3, StageType
  <2>7. CASE Save(w, s) /\ EnqueueCallback
    BY <1>1, <1>12, <2>2, <2>4, <2>5, <2>7, SaveStep DEF VerifiedSave
  <2>8. CASE Save(w, r) /\ UNCHANGED queue
    BY <1>1, <1>12, <2>2, <2>3, <2>5, <2>6, <2>8, <1>2, SaveStep DEF VerifiedSave
  <2> QED  BY <1>12, <2>7, <2>8 DEF VerifiedSave, p, r, s
<1>13. CASE RespondSave(w)
  <2> DEFINE p == <<on[w], request[on[w]].deliveries>>
             r == [row EXCEPT !.presentation = p, !.submitted = TRUE]
  <2>1. p \in Presentations /\ p # None
    BY <1>11, <1>13 DEF RespondSave
  <2>2. mode = "mdoc"
    BY <1>13 DEF RespondSave, IInv, RowInv, OfMode
  <2> HIDE DEF p
  <2>3. /\ r \in Flows /\ r.exists /\ r.presentation # None
        /\ r.submitted /\ r.cancelled = row.cancelled
    BY <1>1, <1>2, <1>13, <2>1 DEF RespondSave, Flows
  <2> HIDE DEF r
  <2>4. Terminal(row) => Stage(r) = Stage(row)
    BY <2>3 DEF Terminal, Stage
  <2> QED  BY <1>1, <1>13, <2>2, <2>3, <2>4, SaveStep DEF RespondSave, p, r
<1> QED  BY <1>3, <1>4, <1>5, <1>6, <1>7, <1>8, <1>9, <1>10, <1>12, <1>13

\* The insert: nobody has read a row that does not exist.
LEMMA CreateStep ==
  ASSUME IInv, NEW w \in Workers, Create(w)
  PROVE  RowInv' /\ ToldInv' /\ MdocOutcomeSeen'
<1> USE FlowConstants DEF IInv, RowInv, TypeOK, Idle, Goto, wallet, queue, watch
<1>1. PICK c \in BOOLEAN :
        draft' = [NoFlow EXCEPT !.exists = TRUE,
                                !.notification = IF c THEN "pending" ELSE "none"]
  BY DEF Create
<1>2. /\ draft'.exists /\ ~draft'.cancelled /\ ~draft'.submitted /\ draft'.presentation = None
      /\ row = NoFlow /\ readers = {}
  BY <1>1 DEF Create, NoFlow, Exists
<1>3. ~Terminal(row) /\ ~Terminal(draft') /\ Stage(draft') # "Submitted"
      /\ Stage(row) # "Submitted"
  BY <1>2, StageType DEF NoFlow
<1>4. Locks' /\ Exists'  BY <1>2 DEF Create, Locks, Exists, Reading
<1>5. Checked' /\ OfMode'  BY <1>2 DEF Create, Checked, OfMode, NoFlow, Closed, Terminal, Stage
<1>6. EndKept' /\ SubmittedByResponse'
  BY <1>3 DEF Create, EndKept, SubmittedByResponse, Terminal, Stage
<1>7. DraftPresented' /\ SubmittedOnPresentation'
  BY <1>2 DEF Create, DraftPresented, SubmittedOnPresentation
<1>8. ToldInv'
  BY <1>3 DEF Create, ToldInv, ToldTheEnd, QueuedBefore, OutcomeQueued, Terminal, Stage
<1>9. MdocOutcomeSeen'
  BY <1>3 DEF Create, MdocOutcomeSeen, Stage
<1> QED  BY <1>4, <1>5, <1>6, <1>7, <1>8, <1>9 DEF RowInv

\* The row becomes what its writer saved.
LEMMA CommitStep ==
  ASSUME IInv, NEW w \in Workers, Commit(w)
  PROVE  RowInv' /\ ToldInv' /\ MdocOutcomeSeen'
<1> USE FlowConstants DEF IInv, RowInv, TypeOK, Goto, Finish, Release, wallet, queue, watch
<1>1. /\ writer = w /\ readers \subseteq {w} /\ draft.exists /\ row' = draft
      /\ writer' = Nobody /\ readers' = {} /\ draft' = NoFlow
      /\ \A v \in Workers \ {w} : pc[v] \notin Reading \cup {"saved"}
      /\ pc'[w] \in {"idle", "publish"}
      /\ \A v \in Workers \ {w} : pc'[v] = pc[v] /\ op'[v] = op[v] /\ on'[v] = on[v]
      /\ op'[w] \in {"none", "respond"} /\ (op'[w] = "respond" => op[w] = "respond")
      /\ UNCHANGED <<mode, jobs, posting, told, event, view>>
  BY DEF Commit, Locks, Exists, Reading
<1>2. Terminal(row) => Stage(draft) = Stage(row) /\ Terminal(draft)
  BY <1>1, StageType DEF EndKept, Terminal
<1>3. Stage(row)' = Stage(draft) /\ Terminal(row)' = Terminal(draft)
  BY <1>1 DEF Stage, Terminal
<1>4. Locks' /\ Exists'  BY <1>1 DEF Locks, Exists, Reading
<1>5. Checked' /\ OfMode'
  BY <1>1 DEF Checked, OfMode, Reading
<1>6. EndKept' /\ DraftPresented' /\ SubmittedByResponse'
  BY <1>1 DEF EndKept, DraftPresented, SubmittedByResponse
<1>7. SubmittedOnPresentation'
  BY <1>1 DEF Commit, SubmittedOnPresentation, DraftPresented
<1>8. ToldInv'
  BY <1>1, <1>2, <1>3 DEF ToldInv, ToldTheEnd, QueuedBefore, OutcomeQueued
<1>9. MdocOutcomeSeen'
  <2> SUFFICES ASSUME mode = "mdoc", Stage(draft) = "Submitted", ~event,
                      \A v \in Workers : pc'[v] # "publish"
               PROVE  view = "Submitted"
    BY <1>1, <1>3 DEF MdocOutcomeSeen
  <2>1. op[w] # "respond"
    BY DEF Commit
  <2>2. Stage(row) = "Submitted"
    BY <1>1, <2>1 DEF SubmittedByResponse
  <2>3. \A v \in Workers : pc[v] # "publish"
    BY <1>1 DEF Commit
  <2> QED  BY <2>2, <2>3 DEF MdocOutcomeSeen
<1> QED  BY <1>4, <1>5, <1>6, <1>7, <1>8, <1>9 DEF RowInv

\* A transaction that is rolled back leaves the row, and releases its locks.
LEMMA AbortStep ==
  ASSUME IInv, NEW w \in Workers, Abort(w)
  PROVE  RowInv' /\ ToldInv' /\ MdocOutcomeSeen'
<1> USE FlowConstants DEF IInv, RowInv, TypeOK, Goto, Finish, Release, wallet, queue, watch
<1>1. /\ readers' = readers \ {w} /\ UNCHANGED row
      /\ \/ writer = w /\ writer' = Nobody
         \/ writer # w /\ UNCHANGED <<writer, draft>>
      /\ pc'[w] \in {"idle", "retry"} /\ op'[w] \in {"none", "notifyFail"}
      /\ \A v \in Workers \ {w} : pc'[v] = pc[v] /\ op'[v] = op[v] /\ on'[v] = on[v]
      /\ UNCHANGED <<mode, presentations, request, jobs, posting, told, event, view>>
  BY DEF Abort
<1>2. Locks' /\ Exists'  BY <1>1 DEF Locks, Exists, Reading
<1>3. Checked' /\ OfMode'
  BY <1>1 DEF Checked, OfMode, Closed, Terminal, Stage
<1>4. EndKept' /\ DraftPresented' /\ SubmittedByResponse' /\ SubmittedOnPresentation'
  BY <1>1 DEF EndKept, DraftPresented, SubmittedByResponse, SubmittedOnPresentation,
     Terminal, Stage
<1>5. ToldInv'
  BY <1>1 DEF ToldInv, ToldTheEnd, QueuedBefore, OutcomeQueued, Terminal, Stage
<1>6. MdocOutcomeSeen'
  BY <1>1 DEF Abort, MdocOutcomeSeen, Stage
<1> QED  BY <1>2, <1>3, <1>4, <1>5, <1>6 DEF RowInv

\* The callback job tells what it read of a flow that has ended.
LEMMA InvokeSteps ==
  ASSUME IInv, InvokeRead \/ InvokeSucceeds \/ InvokeFails \/ InvokeGivesUp
  PROVE  RowInv' /\ ToldInv' /\ MdocOutcomeSeen'
<1> USE DEF IInv, RowInv, TypeOK, db, wallet, watch, local
<1>1. UNCHANGED <<db, wallet, watch, local>>
  BY DEF InvokeRead, InvokeSucceeds, InvokeFails, InvokeGivesUp
<1>2. RowInv'
  BY <1>1, QuietStep
<1>3. MdocOutcomeSeen'
  BY <1>1 DEF MdocOutcomeSeen, Stage
<1>4. jobs \in Nat
  BY FlowConstants
<1>5. ToldTheEnd'
  BY <1>1 DEF ToldInv, ToldTheEnd, InvokeRead, InvokeSucceeds, InvokeFails, InvokeGivesUp,
     Payload, Terminal, Stage
<1>6. OutcomeQueued'
  <2>1. (mode # "mdoc" /\ Terminal(row))' => mode # "mdoc" /\ Terminal(row)
    BY <1>1 DEF Terminal, Stage
  <2>2. CASE InvokeRead  BY <2>2 DEF InvokeRead, OutcomeQueued
  <2>3. CASE InvokeSucceeds  BY <2>3 DEF InvokeSucceeds, OutcomeQueued
  <2>4. CASE InvokeFails  BY <1>4, <2>4 DEF InvokeFails, OutcomeQueued
  <2>5. CASE InvokeGivesUp  BY <2>1, <2>5 DEF InvokeGivesUp, OutcomeQueued
  <2> QED  BY <2>2, <2>3, <2>4, <2>5
<1>7. QueuedBefore'
  BY <1>1, <1>4, FlowConstants DEF ToldInv, QueuedBefore, Locks, InvokeRead, InvokeSucceeds,
     InvokeFails, InvokeGivesUp, Idle, Terminal, Stage
<1> QED  BY <1>2, <1>3, <1>5, <1>6, <1>7 DEF ToldInv

\* The wallet, the clock, the caches and the subscriber.
LEMMA OtherSteps ==
  ASSUME IInv,
         \/ \E r \in Requests : WalletRetrieves(r) \/ WalletPresents(r) \/ EntryExpires(r)
         \/ Resolve \/ Expire
         \/ UNCHANGED vars
  PROVE  RowInv' /\ ToldInv' /\ MdocOutcomeSeen'
<1> USE DEF IInv, RowInv, TypeOK, db, wallet, notify, queue, watch, local
<1>1. /\ UNCHANGED <<mode, row, draft, readers, writer, presentations, local, queue>>
      /\ \A q \in Requests : request'[q].deliveries = request[q].deliveries
  BY DEF WalletRetrieves, WalletPresents, EntryExpires, Resolve, Expire, vars
<1>2. RowInv'
  BY <1>1, QuietStep
<1>3. ToldInv'
  BY <1>1 DEF ToldInv, ToldTheEnd, QueuedBefore, OutcomeQueued, Terminal, Stage
<1>4. CASE Resolve  BY <1>1, <1>2, <1>3, <1>4 DEF Resolve, MdocOutcomeSeen, Stage
<1>5. CASE UNCHANGED watch  BY <1>1, <1>2, <1>3, <1>5 DEF MdocOutcomeSeen, Stage
<1> QED  BY <1>4, <1>5 DEF WalletRetrieves, WalletPresents, EntryExpires, Expire, vars

LEMMA StepIInv == IInv /\ [Next]_vars => IInv'
<1> SUFFICES ASSUME IInv, [Next]_vars PROVE IInv'
  OBVIOUS
<1>1. TypeOK'
  BY TypeStep DEF IInv, RowInv
<1>2. ASSUME NEW w \in Workers, Step(w)
      PROVE  RowInv' /\ ToldInv' /\ MdocOutcomeSeen'
  BY <1>2, ReadingSteps, GoingSteps, SavingSteps, CreateStep, CommitStep, AbortStep DEF Step
<1> QED  BY <1>1, <1>2, InvokeSteps, OtherSteps DEF Next, IInv

-----------------------------------------------------------------------------
(* The results. *)

\* The inductive invariant of the specification.
THEOREM IInvHolds == Spec => []IInv
  BY InitIInv, StepIInv, PTL DEF Spec

\* Every variable keeps its type.
THEOREM TypeCorrect == Spec => []TypeOK
<1>1. IInv => TypeOK  BY DEF IInv
<1> QED  BY IInvHolds, <1>1, PTL

\* A flow that a presentation or a submit ends, and that has ended as committed, has a
\* callback job queued or being posted, or the application was told.  Nothing is said of
\* mDoc flows, whose end queues no job.
THEOREM EndIsQueued == Spec => []OutcomeQueued
<1>1. IInv => OutcomeQueued  BY DEF IInv, ToldInv
<1> QED  BY IInvHolds, <1>1, PTL

\* A flow is submitted on a presentation only, and refers to committed ones only.
THEOREM SubmittedWithPresentation == Spec => []SubmittedOnPresentation
<1>1. IInv => SubmittedOnPresentation  BY DEF IInv, RowInv
<1> QED  BY IInvHolds, <1>1, PTL

\* When an mDoc flow is submitted and no event of it is left to be published or resolved,
\* what the subscriber resolved last is its end.  (That it is resolved is not said.)
THEOREM ResponseIsSeen == Spec => []MdocOutcomeSeen
<1>1. IInv => MdocOutcomeSeen  BY DEF IInv
<1> QED  BY IInvHolds, <1>1, PTL

\* A message goes out while the flow is open, as the sender has read it so.
THEOREM MessagesWhileOpen == Spec => NoMessageOnceClosed
<1>1. IInv /\ [Next]_vars => [sent' # sent => ~Closed(row)]_vars
  <2> SUFFICES ASSUME IInv, Next, sent' # sent PROVE ~Closed(row)
    OBVIOUS
  <2> USE DEF db, wallet, notify, queue, watch, local
  <2>1. PICK w \in Workers : NotifySend(w)
    BY DEF Next, Step, Create, RequestRead, RequestCall, RequestSave, RetrievedRead,
       RetrievedSave, VerifiedRead, VerifiedSave, RespondFind, RespondRead, RespondSave,
       RespondPublish, SubmitRead, SubmitSave, CancelRead, CancelSave, NotifyRead, NotifySave, NotifyFailRead,
       NotifyFailSave, BounceRead, BounceSave, UpdateRead, UpdateBlob, UpdateSave, Commit, Abort,
       WalletRetrieves, WalletPresents, EntryExpires, InvokeRead, InvokeSucceeds, InvokeFails,
       InvokeGivesUp, Resolve, Expire
  <2> QED  BY <2>1 DEF NotifySend, At, IInv, RowInv, Checked
<1> QED  BY IInvHolds, <1>1, PTL DEF NoMessageOnceClosed, Spec

\* Only a commit changes the row, and only a successful job what was told.
LEMMA OthersKeep ==
  ASSUME [Next]_vars
  PROVE  (\E w \in Workers : Commit(w)) \/ InvokeSucceeds \/ UNCHANGED <<mode, row, told>>
<1> USE DEF db, wallet, notify, queue, watch, local, EnqueueCallback, Read, Save, Release
<1>1. ASSUME NEW w \in Workers, Step(w), ~Commit(w)
      PROVE  UNCHANGED <<mode, row, told>>
  <2>1. CASE Create(w) \/ Abort(w)  BY <2>1 DEF Create, Abort
  <2>2. CASE RequestRead(w) \/ RetrievedRead(w) \/ VerifiedRead(w) \/ RespondRead(w)
             \/ SubmitRead(w) \/ CancelRead(w) \/ NotifyRead(w)
             \/ NotifyFailRead(w) \/ BounceRead(w) \/ UpdateRead(w)
    BY <2>2 DEF RequestRead, RetrievedRead, VerifiedRead, RespondRead, SubmitRead, CancelRead,
       NotifyRead, NotifyFailRead, BounceRead, UpdateRead
  <2>3. CASE RequestCall(w) \/ NotifySend(w) \/ UpdateBlob(w) \/ RespondPublish(w) \/ RespondFind(w)
    BY <2>3 DEF RequestCall, NotifySend, UpdateBlob, RespondPublish, RespondFind
  <2>4. CASE RequestSave(w) \/ RetrievedSave(w) \/ VerifiedSave(w) \/ RespondSave(w)
    BY <2>4 DEF RequestSave, RetrievedSave, VerifiedSave, RespondSave
  <2>5. CASE SubmitSave(w) \/ CancelSave(w) \/ NotifySave(w) \/ NotifyFailSave(w)
             \/ BounceSave(w) \/ UpdateSave(w)
    BY <2>5 DEF SubmitSave, CancelSave, NotifySave, NotifyFailSave, BounceSave, UpdateSave
  <2> QED  BY <1>1, <2>1, <2>2, <2>3, <2>4, <2>5 DEF Step
<1>2. ASSUME NEW r \in Requests, WalletRetrieves(r) \/ WalletPresents(r) \/ EntryExpires(r)
      PROVE  UNCHANGED <<mode, row, told>>
  BY <1>2 DEF WalletRetrieves, WalletPresents, EntryExpires
<1>3. CASE InvokeRead \/ InvokeFails \/ InvokeGivesUp \/ Resolve \/ Expire \/ UNCHANGED vars
  BY <1>3 DEF InvokeRead, InvokeFails, InvokeGivesUp, Resolve, Expire, vars
<1> QED  BY <1>1, <1>2, <1>3 DEF Next

\* The flow implements FlowOutcome: it ends once, and the application is told of
\* that end only.
THEOREM FlowKeepsOutcome == Spec => KeepsOutcomeSafely
<1> USE DEF OutcomeOf, ToldOutcomes
<1>1. Init => Outcome!Init
  <2> SUFFICES ASSUME Init PROVE OutcomeOf = "open" /\ ToldOutcomes = {}
    BY DEF Outcome!Init
  <2>1. Stage(row) \notin {"Submitted", "Cancelled"}
    BY StageType DEF Init, NoFlow
  <2> QED  BY <2>1 DEF Init
<1>2. IInv /\ [Next]_vars => [Outcome!Next]_<<OutcomeOf, ToldOutcomes>>
  <2> SUFFICES ASSUME IInv, IInv', [Next]_vars
               PROVE  \/ Outcome!Next
                      \/ UNCHANGED <<OutcomeOf, ToldOutcomes>>
    BY StepIInv
  <2>1. CASE \E w \in Workers : Commit(w)
    <3>1. PICK w \in Workers : Commit(w)  BY <2>1
    <3>2. UNCHANGED <<mode, told>> /\ row' = draft /\ writer # Nobody
      BY <3>1, FlowConstants DEF Commit, Release, queue, IInv, RowInv, Locks
    <3>3. ToldOutcomes' = ToldOutcomes
      BY <3>2
    <3>4. Terminal(row) => Stage(draft) = Stage(row)
      BY <3>2 DEF IInv, RowInv, EndKept
    <3>5. Stage(row)' = Stage(draft)
      BY <3>2 DEF Stage
    <3> QED  BY <3>2, <3>3, <3>4, <3>5 DEF Outcome!Next, Outcome!End, Terminal
  <2>2. CASE InvokeSucceeds
    <3>1. UNCHANGED <<mode, row>> /\ Stage(row)' = Stage(row) /\ OutcomeOf' = OutcomeOf
      BY <2>2 DEF InvokeSucceeds, db, Stage
    <3>2. PICK p \in posting : told' = told \cup {p}
      BY <2>2 DEF InvokeSucceeds
    <3>3. /\ \A q \in told' : q.status = Stage(row)
          /\ Stage(row) \in {"Submitted", "Cancelled"} /\ told' # {}
      BY <3>1, <3>2 DEF IInv, ToldInv, ToldTheEnd, Terminal
    <3>4. mode # "mdoc" => OutcomeOf # "open" /\ ToldOutcomes' = {OutcomeOf}
      BY <3>1, <3>3
    <3>5. mode = "mdoc" => ToldOutcomes' = ToldOutcomes
      BY <3>1
    <3> QED  BY <3>1, <3>4, <3>5 DEF Outcome!Next, Outcome!Tell
  <2>3. CASE UNCHANGED <<mode, row, told>>
    BY <2>3 DEF Stage
  <2> QED  BY <2>1, <2>2, <2>3, OthersKeep
<1> QED  BY IInvHolds, <1>1, <1>2, PTL DEF Spec, KeepsOutcomeSafely, Outcome!Safe
=============================================================================
