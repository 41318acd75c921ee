------------------------ MODULE AsyncIssuance_proofs ------------------------
(***************************************************************************)
(* Proofs about AsyncIssuance for any number of workers and issuance       *)
(* requests and any choice of handlers.  IInv is the inductive invariant:  *)
(* it adds to the properties what the transactions in flight hold and      *)
(* know.  Four lemmas say how a worker's step can change locks and local   *)
(* state (go on, take a shared lock, leave, write and leave); each action  *)
(* is one of them, or takes the row exclusively.                           *)
(***************************************************************************)
EXTENDS AsyncIssuance, TLAPS

\* The handlers that read the row and save it in one transaction.
ReadAndSave ==
  {"notify", "notifyFail", "update", "cancel", "acquire", "callback",
   "bounceIssuance", "bounceVerification"}

\* Step p of handler o lies between such a handler's read and its commit.
Shared(o, p) ==
  \/ o \in ReadAndSave /\ p \in {"save", "send", "upload", "delete", "purge", "commit"}
  \/ o \in {"notify", "update"} /\ p = "data"

\* Step p of handler o comes after a write in a transaction that goes on.
Exclusive(o, p) ==
  \/ o = "create"
  \/ o = "callback" /\ p \in {"purge", "commit"}

\* What step p of handler o, which deals with request r, can rely on.
Fits(o, p, r) ==
  /\ o = "create" => p \in {"upload", "enqueue", "commit"}
  /\ p = "save" => o \in StaleSavers \cup ReadAndSave
  /\ o = "callback" \/ (o = "claim" /\ p \in {"session", "commit"}) => r \in Requests

\* The locks are those of the transactions in flight, and exclusive means it.
LockInv ==
  /\ \A w \in Workers : w \in readers <=> Shared(op[w], pc[w])
  /\ \A w \in Workers : writer = w <=> Exclusive(op[w], pc[w])
  /\ writer # Nobody => readers \subseteq {writer}

\* What a transaction in flight knows: its entity is the committed row, which is
\* open; a row being created is not there yet.
EntityInv ==
  /\ \A w \in readers : ent[w] = row /\ ~Settled(row) /\ row.state # "absent"
  /\ \A w \in Workers : op[w] = "create" => row.state = "absent" /\ ent[w] = PendingRow

StepInv == \A w \in Workers : Fits(op[w], pc[w], rid[w])

CoreInv == LockInv /\ EntityInv /\ StepInv

\* Before a callback commits, the data is gone.
PurgedInv == \A w \in Workers : At(w, "callback", "commit") => blob = "absent"

\* An absent row has no columns, and the verification message of an absent row
\* is never sent.
RowInv ==
  /\ row.state = "absent" => row = NoRow
  /\ \A w \in Workers : op[w] = "otp" => row.state # "absent"

IInv ==
  /\ TypeOK
  /\ CoreInv
  /\ RowInv
  /\ PurgedInv
  /\ IssuedLinksIssuance
  /\ IssuedHasNoData

LocalType ==
  /\ op \in [Workers -> Kinds \cup {"none"}]
  /\ pc \in [Workers -> Steps]
  /\ ent \in [Workers -> Rows]
  /\ rid \in [Workers -> Requests \cup {NoRequest}]

USE ConstantsOK DEF AllKinds, StaleSavers

-----------------------------------------------------------------------------
(* The entity. *)

\* An issued or cancelled request is final, whatever the time.
LEMMA SettledStatus ==
  ASSUME NEW e, Settled(e), expired \in BOOLEAN
  PROVE  isStatusFinal(e) /\ ~canCancel(e) /\ ~canIssue(e)
<1>1. CASE e.state = "issued"
  <2>1. status(e) = "Issued"
    BY <1>1 DEF status, FailedStates
  <2> QED
    BY <2>1 DEF isStatusFinal, canCancel, canIssue
<1>2. CASE e.state = "cancelled"
  <2>1. status(e) = "Cancelled"
    BY <1>2 DEF status, FailedStates
  <2> QED
    BY <2>1 DEF isStatusFinal, canCancel, canIssue
<1> QED
  BY <1>1, <1>2 DEF Settled

\* A handler that got past its status check has an open request.
LEMMA SettledRow ==
  TypeOK /\ (~isStatusFinal(row) \/ canIssue(row) \/ canCancel(row)) => ~Settled(row)
BY SettledStatus DEF TypeOK, canIssue

\* A save at the end of a handler's transaction never makes a row issued.
LEMMA TargetOpen ==
  ASSUME NEW o
  PROVE  Target(o) \in States \ {"absent", "issued"}
BY DEF Target, States, FailedStates

-----------------------------------------------------------------------------
(* The ways a worker moves. *)

\* A worker's next step, entity and request keep their types,
LEMMA BecomeType ==
  ASSUME LocalType, NEW w \in Workers,
         NEW o \in Kinds \cup {"none"}, NEW p \in Steps, NEW e \in Rows,
         NEW r \in Requests \cup {NoRequest}, Become(w, o, p, e, r)
  PROVE  LocalType'
BY DEF LocalType, Become

\* The entity of no handler and of a new request are rows.
LEMMA RowTypes == NoRow \in Rows /\ PendingRow \in Rows
BY DEF NoRow, PendingRow, Rows, States, FailedStates

\* and so do the usual ways to go there.
LEMMA MoveType ==
  ASSUME TypeOK, NEW w \in Workers, NEW p \in Steps
  PROVE  /\ \A o \in Kinds \cup {"none"} : Goto(w, o, p) => LocalType'
         /\ \A o \in Kinds \cup {"none"} : Load(w, o, p) => LocalType'
         /\ \A o : GotoIf(w, o, p) => LocalType'
         /\ Finish(w) => LocalType'
<1>1. LocalType /\ row \in Rows
  BY DEF TypeOK, LocalType
<1>2. ent[w] \in Rows /\ rid[w] \in Requests \cup {NoRequest}
  BY <1>1 DEF LocalType
<1>3. ASSUME NEW o \in Kinds \cup {"none"}, Goto(w, o, p) PROVE LocalType'
  BY <1>1, <1>2, <1>3, BecomeType DEF Goto
<1>4. ASSUME NEW o \in Kinds \cup {"none"}, Load(w, o, p) PROVE LocalType'
  BY <1>1, <1>2, <1>4, BecomeType DEF Load
<1>5. ASSUME Finish(w) PROVE LocalType'
  BY <1>1, <1>5, BecomeType, RowTypes DEF Finish, Steps
<1> QED
  BY <1>3, <1>4, <1>5 DEF GotoIf

\* A step that changes no lock and keeps the entity of a transaction in flight.
LEMMA Advance ==
  ASSUME TypeOK, CoreInv, NEW w \in Workers, NEW o, NEW p, NEW e, NEW r,
         Become(w, o, p, e, r), UNCHANGED db, Fits(o, p, r),
         Shared(o, p) <=> Shared(op[w], pc[w]),
         Exclusive(o, p) <=> Exclusive(op[w], pc[w]),
         Shared(o, p) \/ o = "create" => e = ent[w],
         o = "create" => op[w] = "create"
  PROVE  CoreInv'
<1>1. LockInv'
  BY DEF CoreInv, LockInv, Become, db, TypeOK
<1>2. EntityInv'
  BY DEF CoreInv, LockInv, EntityInv, Become, db, TypeOK, Settled
<1>3. StepInv'
  BY DEF CoreInv, StepInv, Become, TypeOK, Fits
<1> QED
  BY <1>1, <1>2, <1>3 DEF CoreInv

\* The read that begins a transaction which goes on.
LEMMA TakeShared ==
  ASSUME TypeOK, CoreInv, NEW w \in Workers, NEW o, NEW p, NEW r,
         ReadShared(w), Become(w, o, p, row, r), Fits(o, p, r),
         Shared(o, p), ~Exclusive(o, p), o # "create", ~Settled(row)
  PROVE  CoreInv'
<1>1. LockInv'
  BY DEF CoreInv, LockInv, Become, ReadShared, TypeOK
<1>2. EntityInv'
  BY DEF CoreInv, EntityInv, Become, ReadShared, TypeOK, Settled
<1>3. StepInv'
  BY DEF CoreInv, StepInv, Become, TypeOK, Fits
<1> QED
  BY <1>1, <1>2, <1>3 DEF CoreInv

\* The end of a transaction that wrote nothing, or a step outside any.
LEMMA Leave ==
  ASSUME TypeOK, CoreInv, NEW w \in Workers, NEW o, NEW p, NEW e, NEW r,
         EndTransaction(w), Become(w, o, p, e, r), Fits(o, p, r),
         ~Shared(o, p), ~Exclusive(o, p)
  PROVE  CoreInv'
<1>1. LockInv'
  BY DEF CoreInv, LockInv, Become, EndTransaction, Release, TypeOK
<1>2. EntityInv'
  BY DEF CoreInv, EntityInv, Become, EndTransaction, Release, TypeOK, Settled, Exclusive
<1>3. StepInv'
  BY DEF CoreInv, StepInv, Become, TypeOK, Fits
<1> QED
  BY <1>1, <1>2, <1>3 DEF CoreInv

\* A write with its commit: nobody else knows the row.
LEMMA WriteAndLeave ==
  ASSUME TypeOK, CoreInv, NEW w \in Workers, NEW o, NEW p, NEW e, NEW r,
         CanLockExclusive(w), Release(w), Become(w, o, p, e, r), Fits(o, p, r),
         ~Shared(o, p), ~Exclusive(o, p)
  PROVE  CoreInv'
<1>1. LockInv'
  BY DEF CoreInv, LockInv, Become, CanLockExclusive, Release, TypeOK
<1>2. EntityInv'
  <2>1. readers' = {}
    BY DEF CanLockExclusive, Release
  <2>2. \A v \in Workers : op'[v] # "create"
    BY DEF CoreInv, LockInv, Become, CanLockExclusive, Exclusive, TypeOK
  <2> QED
    BY <2>1, <2>2 DEF EntityInv
<1>3. StepInv'
  BY DEF CoreInv, StepInv, Become, TypeOK, Fits
<1> QED
  BY <1>1, <1>2, <1>3 DEF CoreInv

-----------------------------------------------------------------------------

\* The inductive invariant holds at first.
LEMMA InitIInv == Init => IInv
<1> SUFFICES ASSUME Init PROVE IInv
  OBVIOUS
<1> USE DEF Init, NoRow
<1>1. TypeOK
  BY DEF TypeOK, Rows, States, FailedStates, Steps
<1>2. LockInv
  BY DEF LockInv, Shared, Exclusive, ReadAndSave
<1>3. EntityInv
  BY DEF EntityInv
<1>4. StepInv /\ RowInv /\ PurgedInv
  BY DEF StepInv, Fits, RowInv, PurgedInv, At
<1>5. IssuedLinksIssuance /\ IssuedHasNoData
  BY DEF IssuedLinksIssuance, IssuedHasNoData
<1> QED
  BY <1>1, <1>2, <1>3, <1>4, <1>5 DEF IInv, CoreInv

\* What a save writes is a row,
LEMMA SavedRow ==
  ASSUME NEW e \in Rows, NEW o
  PROVE  [e EXCEPT !.state = Target(o)] \in Rows
BY TargetOpen DEF Rows

\* Every step keeps the types.
LEMMA TypeStep == IInv /\ [Next]_vars => TypeOK'
<1> SUFFICES ASSUME IInv, [Next]_vars PROVE TypeOK'
  OBVIOUS
<1> USE DEF IInv, db, caches, outer, local, At, Idle, Steps
<1>0. TypeOK /\ LocalType /\ row \in Rows
  BY DEF TypeOK, LocalType
<1>1. CASE UNCHANGED vars
  BY <1>1 DEF TypeOK, vars
<1>2. ASSUME NEW w \in Workers, Step(w) PROVE TypeOK'
  <2> USE <1>0
  <2>0. /\ op[w] \in Kinds \cup {"none"}
        /\ ent[w] \in Rows
        /\ rid[w] \in Requests \cup {NoRequest}
    BY DEF LocalType
  <2>1. CASE Save(w)
    <3>1. [ent[w] EXCEPT !.state = Target(op[w])] \in Rows
      BY <2>0, SavedRow
    <3>2. LocalType'
      BY <2>0, <2>1, <3>1, MoveType, BecomeType DEF Save
    <3> QED
      BY <2>1, <3>1, <3>2 DEF Save, Release, TypeOK, LocalType
  <2>2. CASE Abort(w)
    BY <2>0, <2>2, MoveType DEF Abort, Release, EndTransaction, TypeOK, LocalType
  <2>3. CASE Crash(w)
    BY <2>0, <2>3, MoveType DEF Crash, Release, EndTransaction, TypeOK, LocalType
  <2>4. CASE CreateInsert(w)
    <3>1. LocalType'
      BY <2>0, <2>4, BecomeType, RowTypes DEF CreateInsert
    <3> QED
      BY <2>4, <3>1 DEF CreateInsert, TypeOK, LocalType
  <2>5. CASE CreateUpload(w)
    BY <2>0, <2>5, MoveType DEF CreateUpload, TypeOK, LocalType
  <2>6. CASE CreateEnqueue(w)
    BY <2>0, <2>6, MoveType DEF CreateEnqueue, TypeOK, LocalType
  <2>7. CASE CreateCommit(w)
    BY <2>0, <2>7, MoveType DEF CreateCommit, Release, TypeOK, LocalType
  <2>8. CASE NotifyJob(w)
    BY <2>0, <2>8, MoveType DEF NotifyJob, ReadShared, JobQueued, TypeOK, LocalType
  <2>9. CASE NotifyResend(w)
    BY <2>0, <2>9, MoveType DEF NotifyResend, ReadShared, TypeOK, LocalType
  <2>10. CASE NotifyDownload(w)
    BY <2>0, <2>10, MoveType DEF NotifyDownload, Release, EndTransaction, TypeOK, LocalType
  <2>11. CASE NotifySend(w)
    BY <2>0, <2>11, MoveType DEF NotifySend, TypeOK, LocalType
  <2>12. CASE NotifyFailRead(w)
    BY <2>0, <2>12, MoveType DEF NotifyFailRead, ReadShared, TypeOK, LocalType
  <2>13. CASE UpdateRead(w)
    BY <2>0, <2>13, MoveType DEF UpdateRead, ReadShared, TypeOK, LocalType
  <2>14. CASE UpdateDownload(w)
    BY <2>0, <2>14, MoveType DEF UpdateDownload, TypeOK, LocalType
  <2>15. CASE UpdateUpload(w)
    BY <2>0, <2>15, MoveType DEF UpdateUpload, TypeOK, LocalType
  <2>16. CASE CancelRead(w)
    BY <2>0, <2>16, MoveType DEF CancelRead, ReadShared, TypeOK, LocalType
  <2>17. CASE CancelJobRead(w)
    BY <2>0, <2>17, MoveType DEF CancelJobRead, ReadCopy, TypeOK, LocalType
  <2>18. CASE CancelDelete(w)
    BY <2>0, <2>18, MoveType DEF CancelDelete, TypeOK, LocalType
  <2>19. CASE OtpRead(w)
    BY <2>0, <2>19, MoveType DEF OtpRead, ReadCopy, TypeOK, LocalType
  <2>20. CASE OtpSetCode(w)
    BY <2>0, <2>20, MoveType DEF OtpSetCode, TypeOK, LocalType
  <2>21. CASE OtpSend(w)
    BY <2>0, <2>21, MoveType DEF OtpSend, Rows, TypeOK, LocalType
  <2>22. CASE OtpSendFails(w)
    BY <2>0, <2>22, MoveType DEF OtpSendFails, TypeOK, LocalType
  <2>23. CASE AcquireCheck(w)
    BY <2>0, <2>23, MoveType DEF AcquireCheck, TypeOK, LocalType
  <2>24. CASE AcquireRedeem(w)
    BY <2>0, <2>24, MoveType DEF AcquireRedeem, TypeOK, LocalType
  <2>25. CASE AcquireRead(w)
    BY <2>0, <2>25, MoveType DEF AcquireRead, ReadShared, TypeOK, LocalType
  <2>26. CASE AcquireDownload(w)
    BY <2>0, <2>26, MoveType DEF AcquireDownload, TypeOK, LocalType
  <2>27. CASE AcquireSession(w)
    BY <2>0, <2>27, MoveType DEF AcquireSession, TypeOK, LocalType
  <2>28. CASE ClaimRead(w)
    BY <2>0, <2>28, MoveType DEF ClaimRead, ReadCopy, TypeOK, LocalType
  <2>29. CASE ConciergeRead(w)
    BY <2>0, <2>29, MoveType DEF ConciergeRead, ReadCopy, TypeOK, LocalType
  <2>30. CASE ClaimDownload(w)
    BY <2>0, <2>30, MoveType DEF ClaimDownload, TypeOK, LocalType
  <2>31. CASE ClaimRejected(w)
    BY <2>0, <2>31, MoveType DEF ClaimRejected, TypeOK, LocalType
  <2>32. ASSUME NEW r \in Requests, ClaimRequest(w, r) PROVE TypeOK'
    <3>1. LocalType'
      BY <2>0, <2>32, BecomeType, RowTypes DEF ClaimRequest
    <3> QED
      BY <2>32, <3>1 DEF ClaimRequest, TypeOK, LocalType
  <2>33. CASE ClaimSession(w)
    <3>1. rid[w] \in Requests
      BY <2>33 DEF ClaimSession, CoreInv, StepInv, Fits
    <3> QED
      BY <2>0, <2>33, <3>1, MoveType DEF ClaimSession, TypeOK, LocalType
  <2>34. CASE ClaimCommit(w)
    BY <2>0, <2>34, MoveType DEF ClaimCommit, TypeOK, LocalType
  <2>35. ASSUME NEW r \in Requests, CallbackIgnored(w, r) PROVE TypeOK'
    BY <2>0, <2>35, MoveType DEF CallbackIgnored, TypeOK, LocalType
  <2>36. ASSUME NEW r \in Requests, CallbackStart(w, r) PROVE TypeOK'
    <3>1. LocalType'
      BY <2>0, <2>36, BecomeType, RowTypes DEF CallbackStart
    <3> QED
      BY <2>36, <3>1 DEF CallbackStart, TypeOK, LocalType
  <2>37. CASE CallbackRead(w)
    BY <2>0, <2>37, MoveType DEF CallbackRead, ReadShared, TypeOK, LocalType
  <2>38. CASE CallbackSave(w)
    BY <2>0, <2>38, MoveType DEF CallbackSave, TypeOK, LocalType
  <2>39. CASE CallbackPurge(w)
    BY <2>0, <2>39, MoveType DEF CallbackPurge, TypeOK, LocalType
  <2>40. CASE CallbackCommit(w)
    <3>1. rid[w] \in Requests
      BY <2>40 DEF CallbackCommit, CoreInv, StepInv, Fits
    <3>2. Issued(w) \in Rows
      BY <2>0, <3>1 DEF Issued, Rows, States
    <3>3. LocalType'
      BY <2>40, MoveType DEF CallbackCommit
    <3> QED
      BY <2>40, <3>1, <3>2, <3>3 DEF CallbackCommit, Release, TypeOK, LocalType
  <2>41. ASSUME NEW purpose \in {"issuance", "verification"}, BounceRead(w, purpose)
       PROVE  TypeOK'
    BY <2>0, <2>41, MoveType DEF BounceRead, ReadShared, TypeOK, LocalType
  <2> QED
    BY <1>2, <2>1, <2>2, <2>3, <2>4, <2>5, <2>6, <2>7, <2>8, <2>9, <2>10,
       <2>11, <2>12, <2>13, <2>14, <2>15, <2>16, <2>17, <2>18, <2>19, <2>20,
       <2>21, <2>22, <2>23, <2>24, <2>25, <2>26, <2>27, <2>28, <2>29, <2>30,
       <2>31, <2>32, <2>33, <2>34, <2>35, <2>36, <2>37, <2>38, <2>39, <2>40,
       <2>41
    DEF Step
<1>3. ASSUME NEW r \in Requests, Terminate(r) PROVE TypeOK'
  BY <1>3 DEF Terminate, TypeOK
<1>4. ASSUME NEW r \in Requests, WalletAccept(r) PROVE TypeOK'
  BY <1>4 DEF WalletAccept, TypeOK
<1>5. CASE Expire
  BY <1>5 DEF Expire, TypeOK
<1>6. CASE CacheExpiry
  BY <1>6 DEF CacheExpiry, TypeOK
<1> QED
  BY <1>1, <1>2, <1>3, <1>4, <1>5, <1>6 DEF Next

\* Every step keeps what the transactions in flight hold and know.
LEMMA CoreStep == IInv /\ [Next]_vars => CoreInv'
<1> SUFFICES ASSUME IInv, [Next]_vars PROVE CoreInv'
  OBVIOUS
<1> USE DEF IInv, db, caches, outer, local, At, Idle
<1>1. CASE UNCHANGED vars
  BY <1>1 DEF CoreInv, LockInv, EntityInv, StepInv, Settled, vars
<1>2. ASSUME NEW w \in Workers, Step(w) PROVE CoreInv'
  <2>0. Fits(op[w], pc[w], rid[w])
    BY DEF CoreInv, StepInv
  <2>1. CASE Save(w)
    <3>1. \E o, p, e, r : Become(w, o, p, e, r) /\ Fits(o, p, r) /\ ~Shared(o, p) /\ ~Exclusive(o, p)
      BY <2>1 DEF Save, Goto, Finish, Shared, Exclusive, ReadAndSave, Fits
    <3> QED
      BY <2>1, <3>1, WriteAndLeave DEF Save
  <2>2. CASE Abort(w)
    BY <2>2, Leave DEF Abort, Goto, Finish, GotoIf, Shared, Exclusive, ReadAndSave, Fits
  <2>3. CASE Crash(w)
    BY <2>3, Leave DEF Crash, Goto, Finish, GotoIf, Shared, Exclusive, ReadAndSave, Fits
  <2>4. CASE CreateInsert(w)
    BY <2>4 DEF CreateInsert, Goto, Become, CanLockExclusive, CoreInv, LockInv, EntityInv, StepInv, TypeOK, Settled, Shared, Exclusive, ReadAndSave, Fits
  <2>5. CASE CreateUpload(w)
    BY <2>0, <2>5, Advance DEF CreateUpload, Load, Goto, Finish, GotoIf, Shared, Exclusive, ReadAndSave, Fits
  <2>6. CASE CreateEnqueue(w)
    BY <2>0, <2>6, Advance DEF CreateEnqueue, Load, Goto, Finish, GotoIf, Shared, Exclusive, ReadAndSave, Fits
  <2>7. CASE CreateCommit(w)
    <3>1. CanLockExclusive(w) /\ Release(w)
      BY <2>7 DEF CreateCommit, CoreInv, LockInv, TypeOK, CanLockExclusive, Release, Shared, Exclusive, ReadAndSave, Fits
    <3> QED
      BY <2>7, <3>1, WriteAndLeave DEF CreateCommit, Finish, Shared, Exclusive, ReadAndSave, Fits
  <2>8. CASE NotifyJob(w)
    <3>1. CASE ~isStatusFinal(row) /\ ReadShared(w) /\ Load(w, "notify", "data")
      BY <2>0, <3>1, SettledRow, TakeShared DEF Load, Shared, Exclusive, ReadAndSave, Fits
    <3>2. CASE UNCHANGED <<db, local>>
      BY <3>2 DEF CoreInv, LockInv, EntityInv, StepInv, Settled
    <3> QED
      BY <2>8, <3>1, <3>2 DEF NotifyJob
  <2>9. CASE NotifyResend(w)
    BY <2>0, <2>9, SettledRow, TakeShared, Advance DEF NotifyResend, Load, Goto, Finish, canIssue, Shared, Exclusive, ReadAndSave, Fits
  <2>10. CASE NotifyDownload(w)
    BY <2>0, <2>10, Advance, Leave DEF NotifyDownload, Goto, Finish, GotoIf, Shared, Exclusive, ReadAndSave, Fits
  <2>11. CASE NotifySend(w)
    BY <2>0, <2>11, Advance DEF NotifySend, Load, Goto, Finish, GotoIf, Shared, Exclusive, ReadAndSave, Fits
  <2>12. CASE NotifyFailRead(w)
    BY <2>0, <2>12, SettledRow, TakeShared, Advance DEF NotifyFailRead, Load, Goto, Finish, canIssue, Shared, Exclusive, ReadAndSave, Fits
  <2>13. CASE UpdateRead(w)
    BY <2>0, <2>13, SettledRow, TakeShared, Advance DEF UpdateRead, Load, Goto, Finish, canIssue, Shared, Exclusive, ReadAndSave, Fits
  <2>14. CASE UpdateDownload(w)
    BY <2>0, <2>14, Advance DEF UpdateDownload, Load, Goto, Finish, GotoIf, Shared, Exclusive, ReadAndSave, Fits
  <2>15. CASE UpdateUpload(w)
    BY <2>0, <2>15, Advance DEF UpdateUpload, Load, Goto, Finish, GotoIf, Shared, Exclusive, ReadAndSave, Fits
  <2>16. CASE CancelRead(w)
    BY <2>0, <2>16, SettledRow, TakeShared, Advance DEF CancelRead, Load, Goto, Finish, canIssue, Shared, Exclusive, ReadAndSave, Fits
  <2>17. CASE CancelJobRead(w)
    BY <2>0, <2>17, Advance DEF CancelJobRead, Load, Goto, Finish, GotoIf, ReadCopy, Shared, Exclusive, ReadAndSave, Fits
  <2>18. CASE CancelDelete(w)
    BY <2>0, <2>18, Advance DEF CancelDelete, Load, Goto, Finish, GotoIf, Shared, Exclusive, ReadAndSave, Fits
  <2>19. CASE OtpRead(w)
    BY <2>0, <2>19, Advance DEF OtpRead, Load, Goto, Finish, GotoIf, ReadCopy, Shared, Exclusive, ReadAndSave, Fits
  <2>20. CASE OtpSetCode(w)
    BY <2>0, <2>20, Advance DEF OtpSetCode, Load, Goto, Finish, GotoIf, Shared, Exclusive, ReadAndSave, Fits
  <2>21. CASE OtpSend(w)
    <3>1. CanLockExclusive(w) /\ Release(w)
      BY <2>21 DEF OtpSend, CoreInv, LockInv, TypeOK, CanLockExclusive, Release, Shared, Exclusive, ReadAndSave, Fits
    <3> QED
      BY <2>21, <3>1, WriteAndLeave DEF OtpSend, Finish, Shared, Exclusive, ReadAndSave, Fits
  <2>22. CASE OtpSendFails(w)
    BY <2>0, <2>22, Advance DEF OtpSendFails, Load, Goto, Finish, GotoIf, Shared, Exclusive, ReadAndSave, Fits
  <2>23. CASE AcquireCheck(w)
    BY <2>0, <2>23, Advance DEF AcquireCheck, Load, Goto, Finish, GotoIf, Shared, Exclusive, ReadAndSave, Fits
  <2>24. CASE AcquireRedeem(w)
    BY <2>0, <2>24, Advance DEF AcquireRedeem, Load, Goto, Finish, GotoIf, Shared, Exclusive, ReadAndSave, Fits
  <2>25. CASE AcquireRead(w)
    BY <2>0, <2>25, SettledRow, TakeShared, Advance DEF AcquireRead, Load, Goto, Finish, canIssue, Shared, Exclusive, ReadAndSave, Fits
  <2>26. CASE AcquireDownload(w)
    BY <2>0, <2>26, Advance DEF AcquireDownload, Load, Goto, Finish, GotoIf, Shared, Exclusive, ReadAndSave, Fits
  <2>27. CASE AcquireSession(w)
    BY <2>0, <2>27, Advance DEF AcquireSession, Load, Goto, Finish, GotoIf, Shared, Exclusive, ReadAndSave, Fits
  <2>28. CASE ClaimRead(w)
    BY <2>0, <2>28, Advance DEF ClaimRead, Load, Goto, Finish, GotoIf, ReadCopy, Shared, Exclusive, ReadAndSave, Fits
  <2>29. CASE ConciergeRead(w)
    BY <2>0, <2>29, Advance DEF ConciergeRead, Load, Goto, Finish, GotoIf, ReadCopy, Shared, Exclusive, ReadAndSave, Fits
  <2>30. CASE ClaimDownload(w)
    BY <2>0, <2>30, Advance DEF ClaimDownload, Load, Goto, Finish, GotoIf, Shared, Exclusive, ReadAndSave, Fits
  <2>31. CASE ClaimRejected(w)
    BY <2>0, <2>31, Advance DEF ClaimRejected, Load, Goto, Finish, GotoIf, Shared, Exclusive, ReadAndSave, Fits
  <2>32. ASSUME NEW r \in Requests, ClaimRequest(w, r) PROVE CoreInv'
    BY <2>0, <2>32, Advance DEF ClaimRequest, Load, Goto, Finish, GotoIf, Shared, Exclusive, ReadAndSave, Fits
  <2>33. CASE ClaimSession(w)
    BY <2>0, <2>33, Advance DEF ClaimSession, Load, Goto, Finish, GotoIf, Shared, Exclusive, ReadAndSave, Fits
  <2>34. CASE ClaimCommit(w)
    BY <2>0, <2>34, Advance DEF ClaimCommit, Load, Goto, Finish, GotoIf, Shared, Exclusive, ReadAndSave, Fits
  <2>35. ASSUME NEW r \in Requests, CallbackIgnored(w, r) PROVE CoreInv'
    BY <2>35 DEF CallbackIgnored, CoreInv, LockInv, EntityInv, StepInv, Settled
  <2>36. ASSUME NEW r \in Requests, CallbackStart(w, r) PROVE CoreInv'
    BY <2>0, <2>36, Advance DEF CallbackStart, Load, Goto, Finish, GotoIf, Shared, Exclusive, ReadAndSave, Fits
  <2>37. CASE CallbackRead(w)
    BY <2>0, <2>37, SettledRow, TakeShared, Advance DEF CallbackRead, Load, Goto, Finish, canIssue, Shared, Exclusive, ReadAndSave, Fits
  <2>38. CASE CallbackSave(w)
    BY <2>38 DEF CallbackSave, Goto, Become, CanLockExclusive, CoreInv, LockInv, EntityInv, StepInv, TypeOK, Settled, Shared, Exclusive, ReadAndSave, Fits
  <2>39. CASE CallbackPurge(w)
    BY <2>0, <2>39, Advance DEF CallbackPurge, Load, Goto, Finish, GotoIf, Shared, Exclusive, ReadAndSave, Fits
  <2>40. CASE CallbackCommit(w)
    <3>1. CanLockExclusive(w) /\ Release(w)
      BY <2>40 DEF CallbackCommit, CoreInv, LockInv, TypeOK, CanLockExclusive, Release, Shared, Exclusive, ReadAndSave, Fits
    <3> QED
      BY <2>40, <3>1, WriteAndLeave DEF CallbackCommit, Finish, Shared, Exclusive, ReadAndSave, Fits
  <2>41. ASSUME NEW purpose \in {"issuance", "verification"}, BounceRead(w, purpose)
       PROVE  CoreInv'
    BY <2>0, <2>41, SettledRow, TakeShared, Advance DEF BounceRead, Load, Goto, Finish, canIssue, Shared, Exclusive, ReadAndSave, Fits
  <2> QED
    BY <1>2, <2>1, <2>2, <2>3, <2>4, <2>5, <2>6, <2>7, <2>8, <2>9, <2>10,
       <2>11, <2>12, <2>13, <2>14, <2>15, <2>16, <2>17, <2>18, <2>19, <2>20,
       <2>21, <2>22, <2>23, <2>24, <2>25, <2>26, <2>27, <2>28, <2>29, <2>30,
       <2>31, <2>32, <2>33, <2>34, <2>35, <2>36, <2>37, <2>38, <2>39, <2>40,
       <2>41
    DEF Step
<1>3. ASSUME NEW r \in Requests, Terminate(r) \/ WalletAccept(r) PROVE CoreInv'
  BY <1>3 DEF Terminate, WalletAccept, CoreInv, LockInv, EntityInv, StepInv, Settled
<1>4. CASE Expire \/ CacheExpiry
  BY <1>4 DEF Expire, CacheExpiry, CoreInv, LockInv, EntityInv, StepInv, Settled
<1> QED
  BY <1>1, <1>2, <1>3, <1>4 DEF Next

\* in the state it was given.
LEMMA SavedState ==
  ASSUME NEW e \in Rows, NEW s
  PROVE  [e EXCEPT !.state = s].state = s
BY DEF Rows

\* Every step keeps the agreement of row, issuances and data.
LEMMA DataStep ==
  IInv /\ [Next]_vars => (RowInv /\ PurgedInv /\ IssuedLinksIssuance /\ IssuedHasNoData)'
<1> DEFINE Data == RowInv /\ PurgedInv /\ IssuedLinksIssuance /\ IssuedHasNoData
<1> SUFFICES ASSUME IInv, [Next]_vars PROVE Data'
  OBVIOUS
<1> USE DEF IInv, db, caches, outer, local, At, Idle
<1>1. CASE UNCHANGED vars
  BY <1>1 DEF RowInv, PurgedInv, IssuedLinksIssuance, IssuedHasNoData, vars
<1>2. ASSUME NEW w \in Workers, Step(w) PROVE Data'
  <2>0. row \in Rows /\ ent[w] \in Rows
    BY DEF TypeOK
  <2>1. CASE Save(w)
    <3>1. row'.state \notin {"absent", "issued"}
      BY <2>0, <2>1, TargetOpen, SavedState DEF Save
    <3>2. PurgedInv'
      BY <2>1 DEF Save, Goto, Finish, Become, PurgedInv, TypeOK
    <3> QED
      BY <3>1, <3>2 DEF RowInv, IssuedLinksIssuance, IssuedHasNoData
  <2>2. CASE Abort(w)
    BY <2>0, <2>2 DEF Abort, EndTransaction, Goto, Load, Finish, GotoIf, Become, TypeOK, PurgedInv, RowInv, IssuedLinksIssuance, IssuedHasNoData
  <2>3. CASE Crash(w)
    BY <2>0, <2>3 DEF Crash, EndTransaction, Goto, Load, Finish, GotoIf, Become, TypeOK, PurgedInv, RowInv, IssuedLinksIssuance, IssuedHasNoData
  <2>4. CASE CreateInsert(w)
    BY <2>0, <2>4 DEF CreateInsert, Goto, Load, Finish, GotoIf, Become, TypeOK, PurgedInv, RowInv, IssuedLinksIssuance, IssuedHasNoData, NoRow
  <2>5. CASE CreateUpload(w)
    BY <2>0, <2>5 DEF CreateUpload, Goto, Load, Finish, GotoIf, Become, TypeOK, CoreInv, LockInv, EntityInv, Exclusive, PurgedInv, RowInv, IssuedLinksIssuance, IssuedHasNoData
  <2>6. CASE CreateEnqueue(w)
    BY <2>0, <2>6 DEF CreateEnqueue, Goto, Load, Finish, GotoIf, Become, TypeOK, PurgedInv, RowInv, IssuedLinksIssuance, IssuedHasNoData
  <2>7. CASE CreateCommit(w)
    BY <2>0, <2>7 DEF CreateCommit, Goto, Load, Finish, GotoIf, Become, TypeOK, PendingRow, NoRow, CoreInv, EntityInv, PurgedInv, RowInv, IssuedLinksIssuance, IssuedHasNoData
  <2>8. CASE NotifyJob(w)
    BY <2>0, <2>8 DEF NotifyJob, ReadShared, Goto, Load, Finish, GotoIf, Become, TypeOK, PurgedInv, RowInv, IssuedLinksIssuance, IssuedHasNoData
  <2>9. CASE NotifyResend(w)
    BY <2>0, <2>9 DEF NotifyResend, ReadShared, Goto, Load, Finish, GotoIf, Become, TypeOK, PurgedInv, RowInv, IssuedLinksIssuance, IssuedHasNoData
  <2>10. CASE NotifyDownload(w)
    BY <2>0, <2>10 DEF NotifyDownload, EndTransaction, Goto, Load, Finish, GotoIf, Become, TypeOK, PurgedInv, RowInv, IssuedLinksIssuance, IssuedHasNoData
  <2>11. CASE NotifySend(w)
    BY <2>0, <2>11 DEF NotifySend, Goto, Load, Finish, GotoIf, Become, TypeOK, PurgedInv, RowInv, IssuedLinksIssuance, IssuedHasNoData
  <2>12. CASE NotifyFailRead(w)
    BY <2>0, <2>12 DEF NotifyFailRead, ReadShared, Goto, Load, Finish, GotoIf, Become, TypeOK, PurgedInv, RowInv, IssuedLinksIssuance, IssuedHasNoData
  <2>13. CASE UpdateRead(w)
    BY <2>0, <2>13 DEF UpdateRead, ReadShared, Goto, Load, Finish, GotoIf, Become, TypeOK, PurgedInv, RowInv, IssuedLinksIssuance, IssuedHasNoData
  <2>14. CASE UpdateDownload(w)
    BY <2>0, <2>14 DEF UpdateDownload, Goto, Load, Finish, GotoIf, Become, TypeOK, PurgedInv, RowInv, IssuedLinksIssuance, IssuedHasNoData
  <2>15. CASE UpdateUpload(w)
    BY <2>0, <2>15 DEF UpdateUpload, Goto, Load, Finish, GotoIf, Become, TypeOK, CoreInv, LockInv, EntityInv, Shared, Exclusive, ReadAndSave, Settled, PurgedInv, RowInv, IssuedLinksIssuance, IssuedHasNoData
  <2>16. CASE CancelRead(w)
    BY <2>0, <2>16 DEF CancelRead, ReadShared, Goto, Load, Finish, GotoIf, Become, TypeOK, PurgedInv, RowInv, IssuedLinksIssuance, IssuedHasNoData
  <2>17. CASE CancelJobRead(w)
    BY <2>0, <2>17 DEF CancelJobRead, ReadCopy, Goto, Load, Finish, GotoIf, Become, TypeOK, PurgedInv, RowInv, IssuedLinksIssuance, IssuedHasNoData
  <2>18. CASE CancelDelete(w)
    BY <2>0, <2>18 DEF CancelDelete, Goto, Load, Finish, GotoIf, Become, TypeOK, PurgedInv, RowInv, IssuedLinksIssuance, IssuedHasNoData
  <2>19. CASE OtpRead(w)
    BY <2>0, <2>19 DEF OtpRead, ReadCopy, Goto, Load, Finish, GotoIf, Become, TypeOK, PurgedInv, RowInv, IssuedLinksIssuance, IssuedHasNoData
  <2>20. CASE OtpSetCode(w)
    BY <2>0, <2>20 DEF OtpSetCode, Goto, Load, Finish, GotoIf, Become, TypeOK, PurgedInv, RowInv, IssuedLinksIssuance, IssuedHasNoData
  <2>21. CASE OtpSend(w)
    BY <2>0, <2>21 DEF OtpSend, Goto, Load, Finish, GotoIf, Become, TypeOK, Rows, PurgedInv, RowInv, IssuedLinksIssuance, IssuedHasNoData
  <2>22. CASE OtpSendFails(w)
    BY <2>0, <2>22 DEF OtpSendFails, Goto, Load, Finish, GotoIf, Become, TypeOK, PurgedInv, RowInv, IssuedLinksIssuance, IssuedHasNoData
  <2>23. CASE AcquireCheck(w)
    BY <2>0, <2>23 DEF AcquireCheck, Goto, Load, Finish, GotoIf, Become, TypeOK, PurgedInv, RowInv, IssuedLinksIssuance, IssuedHasNoData
  <2>24. CASE AcquireRedeem(w)
    BY <2>0, <2>24 DEF AcquireRedeem, Goto, Load, Finish, GotoIf, Become, TypeOK, PurgedInv, RowInv, IssuedLinksIssuance, IssuedHasNoData
  <2>25. CASE AcquireRead(w)
    BY <2>0, <2>25 DEF AcquireRead, ReadShared, Goto, Load, Finish, GotoIf, Become, TypeOK, PurgedInv, RowInv, IssuedLinksIssuance, IssuedHasNoData
  <2>26. CASE AcquireDownload(w)
    BY <2>0, <2>26 DEF AcquireDownload, Goto, Load, Finish, GotoIf, Become, TypeOK, PurgedInv, RowInv, IssuedLinksIssuance, IssuedHasNoData
  <2>27. CASE AcquireSession(w)
    BY <2>0, <2>27 DEF AcquireSession, Goto, Load, Finish, GotoIf, Become, TypeOK, PurgedInv, RowInv, IssuedLinksIssuance, IssuedHasNoData
  <2>28. CASE ClaimRead(w)
    BY <2>0, <2>28 DEF ClaimRead, ReadCopy, Goto, Load, Finish, GotoIf, Become, TypeOK, PurgedInv, RowInv, IssuedLinksIssuance, IssuedHasNoData
  <2>29. CASE ConciergeRead(w)
    BY <2>0, <2>29 DEF ConciergeRead, ReadCopy, Goto, Load, Finish, GotoIf, Become, TypeOK, PurgedInv, RowInv, IssuedLinksIssuance, IssuedHasNoData
  <2>30. CASE ClaimDownload(w)
    BY <2>0, <2>30 DEF ClaimDownload, Goto, Load, Finish, GotoIf, Become, TypeOK, PurgedInv, RowInv, IssuedLinksIssuance, IssuedHasNoData
  <2>31. CASE ClaimRejected(w)
    BY <2>0, <2>31 DEF ClaimRejected, Goto, Load, Finish, GotoIf, Become, TypeOK, PurgedInv, RowInv, IssuedLinksIssuance, IssuedHasNoData
  <2>32. ASSUME NEW r \in Requests, ClaimRequest(w, r) PROVE Data'
    BY <2>0, <2>32 DEF ClaimRequest, Goto, Load, Finish, GotoIf, Become, TypeOK, PurgedInv, RowInv, IssuedLinksIssuance, IssuedHasNoData
  <2>33. CASE ClaimSession(w)
    BY <2>0, <2>33 DEF ClaimSession, Goto, Load, Finish, GotoIf, Become, TypeOK, PurgedInv, RowInv, IssuedLinksIssuance, IssuedHasNoData
  <2>34. CASE ClaimCommit(w)
    BY <2>0, <2>34 DEF ClaimCommit, Goto, Load, Finish, GotoIf, Become, TypeOK, PurgedInv, RowInv, IssuedLinksIssuance, IssuedHasNoData
  <2>35. ASSUME NEW r \in Requests, CallbackIgnored(w, r) PROVE Data'
    BY <2>0, <2>35 DEF CallbackIgnored, Goto, Load, Finish, GotoIf, Become, TypeOK, PurgedInv, RowInv, IssuedLinksIssuance, IssuedHasNoData
  <2>36. ASSUME NEW r \in Requests, CallbackStart(w, r) PROVE Data'
    BY <2>0, <2>36 DEF CallbackStart, Goto, Load, Finish, GotoIf, Become, TypeOK, PurgedInv, RowInv, IssuedLinksIssuance, IssuedHasNoData
  <2>37. CASE CallbackRead(w)
    BY <2>0, <2>37 DEF CallbackRead, ReadShared, Goto, Load, Finish, GotoIf, Become, TypeOK, PurgedInv, RowInv, IssuedLinksIssuance, IssuedHasNoData
  <2>38. CASE CallbackSave(w)
    BY <2>0, <2>38 DEF CallbackSave, Goto, Load, Finish, GotoIf, Become, TypeOK, PurgedInv, RowInv, IssuedLinksIssuance, IssuedHasNoData
  <2>39. CASE CallbackPurge(w)
    BY <2>0, <2>39 DEF CallbackPurge, Goto, Load, Finish, GotoIf, Become, TypeOK, PurgedInv, RowInv, IssuedLinksIssuance, IssuedHasNoData
  <2>40. CASE CallbackCommit(w)
    BY <2>0, <2>40 DEF CallbackCommit, Goto, Load, Finish, GotoIf, Become, TypeOK, Issued, Rows, PurgedInv, RowInv, IssuedLinksIssuance, IssuedHasNoData
  <2>41. ASSUME NEW purpose \in {"issuance", "verification"}, BounceRead(w, purpose)
       PROVE  Data'
    BY <2>0, <2>41 DEF BounceRead, ReadShared, Goto, Load, Finish, GotoIf, Become, TypeOK, PurgedInv, RowInv, IssuedLinksIssuance, IssuedHasNoData
  <2> QED
    BY <1>2, <2>1, <2>2, <2>3, <2>4, <2>5, <2>6, <2>7, <2>8, <2>9, <2>10,
       <2>11, <2>12, <2>13, <2>14, <2>15, <2>16, <2>17, <2>18, <2>19, <2>20,
       <2>21, <2>22, <2>23, <2>24, <2>25, <2>26, <2>27, <2>28, <2>29, <2>30,
       <2>31, <2>32, <2>33, <2>34, <2>35, <2>36, <2>37, <2>38, <2>39, <2>40,
       <2>41
    DEF Step
<1>3. ASSUME NEW r \in Requests, Terminate(r) \/ WalletAccept(r) PROVE Data'
  BY <1>3 DEF Terminate, WalletAccept, RowInv, PurgedInv, IssuedLinksIssuance, IssuedHasNoData
<1>4. CASE Expire \/ CacheExpiry
  BY <1>4 DEF Expire, CacheExpiry, RowInv, PurgedInv, IssuedLinksIssuance, IssuedHasNoData
<1> QED
  BY <1>1, <1>2, <1>3, <1>4 DEF Next

\* The inductive invariant is one.
THEOREM IInvHolds == Spec => []IInv
<1>1. IInv /\ [Next]_vars => IInv'
  BY TypeStep, CoreStep, DataStep DEF IInv
<1> QED
  BY InitIInv, <1>1, PTL DEF Spec

-----------------------------------------------------------------------------
(* Theorems for every choice of handlers. *)

\* Every variable keeps its type: in particular no handler is in flight that the
\* instance does not have, and the job queue is never overdrawn.
THEOREM TypeCorrect == Spec => []TypeOK
BY IInvHolds, PTL DEF IInv

\* However many handlers run at once, the entity a handler read in its open
\* transaction is the committed row, so its status check still holds at the save.
THEOREM SnapshotStaysCurrent == Spec => []SnapshotCurrent
<1>1. IInv => SnapshotCurrent
  BY DEF IInv, CoreInv, EntityInv, SnapshotCurrent
<1> QED
  BY <1>1, IInvHolds, PTL

\* An issued request names an issuance that exists, stale saves included.
THEOREM IssuedIsLinked == Spec => []IssuedLinksIssuance
BY IInvHolds, PTL DEF IInv

\* No contact update or create can put data under an issued request.
THEOREM IssuedKeepsNoData == Spec => []IssuedHasNoData
BY IInvHolds, PTL DEF IInv

\* The steps that write to the database.
LEMMA DbWrites ==
  ASSUME IInv, [Next]_vars
  PROVE  \/ row' = row /\ issuances' = issuances
         \/ \E w \in Workers :
              Save(w) \/ CreateCommit(w) \/ OtpSend(w) \/ CallbackCommit(w)
<1> USE DEF db, caches, outer, local
<1>1. CASE UNCHANGED vars
  BY <1>1 DEF vars
<1>2. ASSUME NEW w \in Workers, Step(w),
             ~(Save(w) \/ CreateCommit(w) \/ OtpSend(w) \/ CallbackCommit(w))
      PROVE  row' = row /\ issuances' = issuances
  <2>1. CASE Abort(w) \/ Crash(w)
    BY <2>1 DEF Abort, Crash, EndTransaction
  <2>2. CASE CreateInsert(w) \/ CreateUpload(w) \/ CreateEnqueue(w)
    BY <2>2 DEF CreateInsert, CreateUpload, CreateEnqueue
  <2>3. CASE \/ NotifyJob(w) \/ NotifyResend(w) \/ NotifyDownload(w)
             \/ NotifySend(w) \/ NotifyFailRead(w)
    BY <2>3 DEF NotifyJob, NotifyResend, NotifyDownload, NotifySend, NotifyFailRead,
                ReadShared, EndTransaction
  <2>4. CASE UpdateRead(w) \/ UpdateDownload(w) \/ UpdateUpload(w)
    BY <2>4 DEF UpdateRead, UpdateDownload, UpdateUpload, ReadShared
  <2>5. CASE CancelRead(w) \/ CancelJobRead(w) \/ CancelDelete(w)
    BY <2>5 DEF CancelRead, CancelJobRead, CancelDelete, ReadShared, ReadCopy
  <2>6. CASE OtpRead(w) \/ OtpSetCode(w) \/ OtpSendFails(w)
    BY <2>6 DEF OtpRead, OtpSetCode, OtpSendFails, ReadCopy
  <2>7. CASE \/ AcquireCheck(w) \/ AcquireRedeem(w) \/ AcquireRead(w)
             \/ AcquireDownload(w) \/ AcquireSession(w)
    BY <2>7 DEF AcquireCheck, AcquireRedeem, AcquireRead, AcquireDownload,
                AcquireSession, ReadShared
  <2>8. CASE \/ ClaimRead(w) \/ ConciergeRead(w) \/ ClaimDownload(w) \/ ClaimRejected(w)
             \/ ClaimSession(w) \/ ClaimCommit(w) \/ \E r \in Requests : ClaimRequest(w, r)
    BY <2>8 DEF ClaimRead, ConciergeRead, ClaimDownload, ClaimRejected, ClaimSession,
                ClaimCommit, ClaimRequest, ReadCopy
  <2>9. CASE \/ CallbackRead(w) \/ CallbackSave(w) \/ CallbackPurge(w)
             \/ \E r \in Requests : CallbackIgnored(w, r) \/ CallbackStart(w, r)
             \/ \E purpose \in {"issuance", "verification"} : BounceRead(w, purpose)
    BY <2>9 DEF CallbackRead, CallbackSave, CallbackPurge, CallbackIgnored,
                CallbackStart, BounceRead, ReadShared
  <2> QED
    BY <1>2, <2>1, <2>2, <2>3, <2>4, <2>5, <2>6, <2>7, <2>8, <2>9 DEF Step
<1>3. ASSUME NEW r \in Requests, Terminate(r) \/ WalletAccept(r)
      PROVE  row' = row /\ issuances' = issuances
  BY <1>3 DEF Terminate, WalletAccept
<1>4. CASE Expire \/ CacheExpiry
  BY <1>4 DEF Expire, CacheExpiry
<1> QED
  BY <1>1, <1>2, <1>3, <1>4 DEF Next

\* A save by a handler that read the row in the same transaction.
LEMMA SaveInTransaction ==
  ASSUME IInv, NEW w \in Workers, Save(w), op[w] \notin StaleSavers
  PROVE  ent[w] = row /\ ~Settled(row) /\ row.state # "absent"
<1>1. op[w] \in ReadAndSave /\ pc[w] = "save"
  BY DEF IInv, CoreInv, StepInv, Fits, Save
<1>2. w \in readers
  BY <1>1 DEF IInv, CoreInv, LockInv, Shared
<1> QED
  BY <1>2 DEF IInv, CoreInv, EntityInv

\* The entity of a callback that commits.
LEMMA CallbackInTransaction ==
  ASSUME IInv, NEW w \in Workers, CallbackCommit(w)
  PROVE  /\ ent[w] = row /\ ~Settled(row) /\ row.state # "absent"
         /\ rid[w] \in Requests
<1>1. w \in readers
  BY DEF IInv, CoreInv, LockInv, Shared, ReadAndSave, CallbackCommit, At
<1> QED
  BY <1>1 DEF IInv, CoreInv, EntityInv, StepInv, Fits, CallbackCommit, At

\* Whatever runs at once, an issued or cancelled request is left only by the
\* save of an entity from an earlier transaction.
THEOREM OnlyStaleSavesUnsettle == Spec => SettledLeftOnlyByStaleSave
<1> DEFINE Left == Settled(row) /\ row'.state # row.state =>
       \E w \in Workers : op[w] \in StaleSavers /\ pc[w] = "save" /\ pc'[w] # "save"
<1>1. IInv /\ [Next]_vars => [Left]_vars
  <2> SUFFICES ASSUME IInv, [Next]_vars, Settled(row), row'.state # row.state
               PROVE  \E w \in Workers : op[w] \in StaleSavers /\ pc[w] = "save" /\ pc'[w] # "save"
    OBVIOUS
  <2>0. row \in Rows /\ row.state # "absent"
    BY DEF IInv, TypeOK, Settled
  <2>1. PICK w \in Workers : Save(w) \/ CreateCommit(w) \/ OtpSend(w) \/ CallbackCommit(w)
    BY DbWrites
  <2>2. ~CreateCommit(w)
    BY <2>0 DEF IInv, CoreInv, EntityInv, CreateCommit, At
  <2>3. ~OtpSend(w)
    BY <2>0 DEF OtpSend, Rows
  <2>4. ~CallbackCommit(w)
    BY CallbackInTransaction
  <2>5. Save(w) /\ op[w] \in StaleSavers
    BY <2>1, <2>2, <2>3, <2>4, SaveInTransaction
  <2>6. pc[w] = "save" /\ pc'[w] # "save"
    BY <2>5 DEF Save, Goto, Finish, Become, IInv, TypeOK
  <2> QED
    BY <2>5, <2>6
<1> QED
  BY <1>1, IInvHolds, PTL DEF Spec, SettledLeftOnlyByStaleSave

-----------------------------------------------------------------------------
(* What every step but a stale save keeps, for every choice of handlers. *)

\* A handler of StaleSavers saves the entity of an earlier transaction.
StaleSave == \E w \in Workers : op[w] \in StaleSavers /\ pc[w] = "save" /\ pc'[w] # "save"

\* A save that is no stale save was made by a handler that read the row in the
\* same transaction.
LEMMA OtherSaves ==
  ASSUME IInv, ~StaleSave, NEW w \in Workers, Save(w)
  PROVE  ent[w] = row /\ ~Settled(row) /\ row.state # "absent"
<1>1. pc[w] = "save" /\ pc'[w] # "save"
  BY DEF Save, Goto, Finish, Become, IInv, TypeOK
<1>2. op[w] \notin StaleSavers
  BY <1>1 DEF StaleSave
<1> QED
  BY <1>2, SaveInTransaction

\* Whatever handlers run at once, stale ones included, every step but a stale save
\* is one the abstract offer allows: the request is offered once, then issued or
\* cancelled once and left alone.
THEOREM RefinesOffer ==
  Spec => Offer!Init /\ [][Offer!Next \/ UNCHANGED (Offer!offer) \/ StaleSave]_vars
<1>1. Init => Offer!Init
  BY DEF Init, Offer!Init, Stage, NoRow, Settled
<1>2. IInv /\ [Next]_vars => [Offer!Next \/ UNCHANGED (Offer!offer) \/ StaleSave]_vars
  <2> SUFFICES ASSUME IInv, [Next]_vars, row' # row, ~StaleSave
               PROVE  Offer!Next \/ UNCHANGED (Offer!offer)
    BY DEF Offer!offer, Stage, Settled
  <2>0. row \in Rows /\ op \in [Workers -> Kinds \cup {"none"}]
    BY DEF IInv, TypeOK
  <2>1. PICK w \in Workers : Save(w) \/ CreateCommit(w) \/ OtpSend(w) \/ CallbackCommit(w)
    BY DbWrites
  <2>2. CASE CreateCommit(w)
    <3>1. row = NoRow /\ row' = PendingRow
      BY <2>2 DEF CreateCommit, At, IInv, CoreInv, EntityInv, RowInv
    <3> QED
      BY <3>1 DEF Offer!Next, Offer!Offer, Stage, Settled, NoRow, PendingRow
  <2>3. CASE OtpSend(w)
    <3>1. row'.state = row.state /\ row'.issuanceId = row.issuanceId
      BY <2>0, <2>3 DEF OtpSend, Rows
    <3> QED
      BY <3>1 DEF Offer!offer, Stage, Settled
  <2>4. CASE CallbackCommit(w)
    <3>1. Stage = "open"
      BY <2>4, CallbackInTransaction DEF Stage
    <3>2. row'.state = "issued" /\ row'.issuanceId = rid[w]
      BY <2>0, <2>4, CallbackInTransaction DEF CallbackCommit, Issued, Rows
    <3>3. Stage' = "issued"
      BY <3>2 DEF Stage, Settled
    <3> QED
      BY <2>4, <3>1, <3>2, <3>3, CallbackInTransaction DEF Offer!Next, Offer!Issue
  <2>5. CASE Save(w)
    <3>2. Stage = "open" /\ ent[w] = row
      BY <2>5, OtherSaves DEF Stage
    <3>3. /\ row'.state \in States \ {"absent", "issued"}
          /\ row'.issuanceId = row.issuanceId
      BY <2>0, <2>5, <3>2, TargetOpen, SavedState DEF Save, Rows
    <3>4. Stage' \in {"open", "cancelled"}
      BY <3>3 DEF Stage, Settled
    <3> QED
      BY <3>2, <3>3, <3>4 DEF Offer!Next, Offer!Cancel, Offer!offer
  <2> QED
    BY <2>1, <2>2, <2>3, <2>4, <2>5
<1> QED
  BY <1>1, <1>2, IInvHolds, PTL DEF Spec

\* Only a stale save can make a credential record listed from both tables or from
\* none: no other step, before or after one, takes a record that is listed once
\* to one that is not.
THEOREM IsListedOnce ==
  Spec => ListedOnce /\ [][ListedOnce => ListedOnce' \/ StaleSave]_vars
<1>1. Init => ListedOnce
  BY DEF Init, ListedOnce, NoRow
<1>2. IInv /\ [Next]_vars => [ListedOnce => ListedOnce' \/ StaleSave]_vars
  <2> SUFFICES ASSUME IInv, ListedOnce, [Next]_vars, ~StaleSave PROVE ListedOnce'
    OBVIOUS
  <2>0. row \in Rows /\ op \in [Workers -> Kinds \cup {"none"}]
    BY DEF IInv, TypeOK
  <2>1. CASE row' = row /\ issuances' = issuances
    BY <2>1 DEF ListedOnce
  <2>2. ASSUME NEW w \in Workers, CreateCommit(w) PROVE ListedOnce'
    BY <2>2 DEF CreateCommit, At, IInv, CoreInv, EntityInv, PendingRow, NoRow, ListedOnce
  <2>3. ASSUME NEW w \in Workers, OtpSend(w) PROVE ListedOnce'
    BY <2>0, <2>3 DEF OtpSend, Rows, ListedOnce
  <2>4. ASSUME NEW w \in Workers, CallbackCommit(w) PROVE ListedOnce'
    BY <2>0, <2>4, CallbackInTransaction DEF CallbackCommit, Issued, Rows, ListedOnce
  <2>5. ASSUME NEW w \in Workers, Save(w) PROVE ListedOnce'
    <3>2. ent[w] = row /\ row.state # "issued"
      BY <2>5, OtherSaves DEF Settled
    <3> QED
      BY <2>0, <2>5, <3>2, TargetOpen, SavedState DEF Save, ListedOnce
  <2> QED
    BY <2>1, <2>2, <2>3, <2>4, <2>5, DbWrites
<1> QED
  BY <1>1, <1>2, IInvHolds, PTL DEF Spec

\* Only a stale save can lose hasVerificationCommunication: a save in the
\* transaction of its read keeps it, though it writes the whole entity and the
\* flag is set by an UPDATE of its own.
THEOREM FlagIsKept ==
  Spec => [][row.otpSent => row'.otpSent \/ StaleSave]_vars
<1>1. IInv /\ [Next]_vars => [row.otpSent => row'.otpSent \/ StaleSave]_vars
  <2> SUFFICES ASSUME IInv, [Next]_vars, row.otpSent, row' # row, ~StaleSave
               PROVE  row'.otpSent
    OBVIOUS
  <2>0. row \in Rows /\ op \in [Workers -> Kinds \cup {"none"}]
    BY DEF IInv, TypeOK
  <2>1. PICK w \in Workers : Save(w) \/ CreateCommit(w) \/ OtpSend(w) \/ CallbackCommit(w)
    BY DbWrites
  <2>2. ~CreateCommit(w)
    BY DEF CreateCommit, At, IInv, CoreInv, EntityInv, RowInv, NoRow
  <2>3. CASE OtpSend(w)
    BY <2>0, <2>3 DEF OtpSend, Rows
  <2>4. CASE CallbackCommit(w)
    BY <2>0, <2>4, CallbackInTransaction DEF CallbackCommit, Issued, Rows
  <2>5. CASE Save(w)
    BY <2>0, <2>5, OtherSaves DEF Save, Rows
  <2> QED
    BY <2>1, <2>2, <2>3, <2>4, <2>5
<1> QED
  BY <1>1, IInvHolds, PTL DEF Spec
=============================================================================
