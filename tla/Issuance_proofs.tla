--------------------------- MODULE Issuance_proofs --------------------------
(***************************************************************************)
(* Proofs about Issuance, for any number of operators and failures: its    *)
(* types, that whoever is told of a success finds the issuance, and that   *)
(* an issuance listed as revoked is revoked in Verified ID.  Both need to  *)
(* know how far a handler has come: what is not announced or saved yet     *)
(* must already be true one step before.                                   *)
(***************************************************************************)
EXTENDS Issuance, TLAPS

\* A success is about to be cached or forwarded only when it is recorded.
Recorded == handler[Success] \in {"cache", "forward"} => issuance # "none"

\* A revocation is about to be saved only when Verified ID has done it.
Revoking == \A w \in Workers : op[w] = "revokeSave" => entra = "revoked"

\* Verified ID issues the credential once, so it never gets valid again.
IssuedOnce == request # "accepted" => entra = "none" /\ callback[Success] = "none"

\* No issuance is recorded, and no success handled, before the wallet accepted.
NothingBefore ==
  /\ callback[Success] = "none" => handler[Success] = "idle" /\ issuance = "none"
  /\ issuance = "none" => \A w \in Workers : op[w] \notin {"revokeEntra", "revokeSave"}

IInv ==
  /\ TypeOK /\ Recorded /\ SuccessIsRecorded
  /\ Revoking /\ RevokedInEntra /\ IssuedOnce /\ NothingBefore

\* The three kinds of events are different.
LEMMA KindsDiffer ==
  /\ Success \in Kinds /\ Error \in Kinds /\ Retrieved \in Kinds
  /\ Success # Error /\ Success # Retrieved /\ Error # Retrieved
  BY DEF Success, Error, Retrieved, Kinds, Final

\* IInv holds at the start.
LEMMA InitIInv == Init => IInv
<1> SUFFICES ASSUME Init PROVE IInv
  OBVIOUS
<1> USE DEF Init
<1>1. TypeOK
  <2>1. handler \in [Kinds -> {"idle", "save", "cache", "forward"}]
    OBVIOUS
  <2>2. \A k \in Kinds : handler[k] \in Steps(k)
    BY DEF Steps
  <2>3. op \in [Workers -> {"idle", "cancelCheck", "cancelSave", "revokeEntra", "revokeSave"}]
    OBVIOUS
  <2>4. callback \in [Kinds -> {"none", "pending", "answered"}]
    OBVIOUS
  <2>5. failures \in 0..MaxFailures
    BY FailuresAssumption
  <2>6. /\ record \in [cancelled : BOOLEAN, failed : BOOLEAN, lapsed : BOOLEAN]
        /\ cached \in Kinds \cup {"none"} /\ told \subseteq Kinds
        /\ remote \in BOOLEAN /\ past \in BOOLEAN
    OBVIOUS
  <2> QED  BY <2>1, <2>2, <2>3, <2>4, <2>5, <2>6, Zenon DEF TypeOK
<1>2. Recorded /\ SuccessIsRecorded
  BY KindsDiffer, Zenon DEF Recorded, SuccessIsRecorded, Success, Kinds, Final
<1>3. Revoking /\ RevokedInEntra
  BY DEF Revoking, RevokedInEntra
<1>4. IssuedOnce /\ NothingBefore
  BY KindsDiffer DEF IssuedOnce, NothingBefore
<1> QED  BY <1>1, <1>2, <1>3, <1>4 DEF IInv

\* The requester's, the wallet's and the clock's steps preserve IInv.
LEMMA WalletStep ==
  ASSUME IInv, Create \/ Scan \/ RejectPin \/ Accept \/ Lapse \/ Expire
  PROVE  IInv'
<1> USE FailuresAssumption, DatedAssumption DEF IInv, TypeOK, Recorded, SuccessIsRecorded, Revoking, RevokedInEntra,
      IssuedOnce, NothingBefore, Steps, Success, Error, Retrieved, Kinds, Final, Send, world, db
<1>1. CASE Create  BY <1>1 DEF Create
<1>2. CASE Scan  BY <1>2 DEF Scan
<1>3. CASE RejectPin  BY <1>3 DEF RejectPin
<1>4. CASE Accept  BY <1>4 DEF Accept
<1>5. CASE Lapse  BY <1>5 DEF Lapse
<1>6. CASE Expire  BY <1>6 DEF Expire
<1> QED  BY <1>1, <1>2, <1>3, <1>4, <1>5, <1>6

\* The steps of a callback's handler preserve IInv.
LEMMA HandleStep ==
  ASSUME IInv, NEW k \in Kinds, Handle(k)
  PROVE  IInv'
<1> USE FailuresAssumption, DatedAssumption DEF IInv, TypeOK, Recorded, SuccessIsRecorded, Revoking, RevokedInEntra,
      IssuedOnce, NothingBefore, Steps, Success, Error, Retrieved, Kinds, Final, Step, world, db
<1>1. CASE Deliver(k)  BY <1>1 DEF Deliver, FirstStep
<1>2. CASE CacheEvent(k)  BY <1>2 DEF CacheEvent
<1>3. CASE HandlerFails(k)  BY <1>3 DEF HandlerFails
<1>4. CASE Forward(k)  BY <1>4 DEF Forward, Answered
<1>5. CASE ForwardFails(k)  BY <1>5 DEF ForwardFails, Answered
<1>6. CASE SaveSuccess  BY <1>6 DEF SaveSuccess, Upserted, ExpiryRenewed
<1>7. CASE RefuseSuccess  BY <1>7 DEF RefuseSuccess
<1>8. CASE SaveFailed  BY <1>8 DEF SaveFailed
<1> QED  BY <1>1, <1>2, <1>3, <1>4, <1>5, <1>6, <1>7, <1>8 DEF Handle

\* The operators' steps preserve IInv.
LEMMA OperateStep ==
  ASSUME IInv, NEW w \in Workers, Operate(w)
  PROVE  IInv'
<1> USE FailuresAssumption, DatedAssumption DEF IInv, TypeOK, Recorded, SuccessIsRecorded, Revoking, RevokedInEntra,
      IssuedOnce, NothingBefore, Steps, Success, Error, Retrieved, Kinds, Final, Goto, world, db
<1>1. CASE CancelRead(w)  BY <1>1 DEF CancelRead
<1>2. CASE CancelCheck(w)  BY <1>2 DEF CancelCheck
<1>3. CASE CancelSave(w)  BY <1>3 DEF CancelSave
<1>4. CASE RevokeRead(w)  BY <1>4 DEF RevokeRead
<1>5. CASE RevokeEntra(w)  BY <1>5 DEF RevokeEntra
<1>6. CASE RevokeSave(w)  BY <1>6 DEF RevokeSave
<1>7. CASE Abort(w)  BY <1>7 DEF Abort
<1> QED  BY <1>1, <1>2, <1>3, <1>4, <1>5, <1>6, <1>7 DEF Operate

\* Every step of the request preserves IInv.
LEMMA StepIInv == IInv /\ [Next]_vars => IInv'
<1> SUFFICES ASSUME IInv, [Next]_vars PROVE IInv'
  OBVIOUS
<1>1. CASE UNCHANGED vars
  BY <1>1 DEF vars, world, db, IInv, TypeOK, Recorded, SuccessIsRecorded, Revoking,
      RevokedInEntra, IssuedOnce, NothingBefore, Steps
<1>2. CASE Next
  BY <1>2, WalletStep, HandleStep, OperateStep DEF Next
<1> QED  BY <1>1, <1>2

\* The inductive invariant of the specification.
THEOREM IInvHolds == Spec => []IInv
  BY InitIInv, StepIInv, PTL DEF Spec

\* Every variable keeps its type, and no handler takes a step of another kind.
THEOREM TypeCorrect == Spec => []TypeOK
<1>1. IInv => TypeOK  BY DEF IInv
<1> QED  BY IInvHolds, <1>1, PTL

\* Whoever is told of a success finds the issuance in the database.
THEOREM ToldIsRecorded == Spec => []SuccessIsRecorded
<1>1. IInv => SuccessIsRecorded  BY DEF IInv
<1> QED  BY IInvHolds, <1>1, PTL

\* An issuance listed as revoked is revoked in Verified ID.
THEOREM ListedRevokedIsRevoked == Spec => []RevokedInEntra
<1>1. IInv => RevokedInEntra  BY DEF IInv
<1> QED  BY IInvHolds, <1>1, PTL

-----------------------------------------------------------------------------
\* The record of an in-person request, for the query.
Row(i, p, r) ==
  [issuance |-> i, past |-> p, async |-> "none", verification |-> FALSE, asyncPast |-> FALSE,
   cancelled |-> r.cancelled, failed |-> r.failed, lapsed |-> r.lapsed]

\* The phase, from the columns it depends on.
PhaseOf(i, p, r) ==
  IF i # "none" THEN IF i = "revoked" \/ (p /\ Dated) THEN 4 ELSE 3
  ELSE IF r.cancelled \/ r.failed \/ r.lapsed THEN 2 ELSE 1

\* The query finds an in-person record in one branch, which gives its phase.
LEMMA QueryPhase ==
  ASSUME NEW i \in {"none", "active", "revoked"}, NEW p \in BOOLEAN,
         NEW r \in [cancelled : BOOLEAN, failed : BOOLEAN, lapsed : BOOLEAN]
  PROVE  Phase(Records!credentialRecordStatus(Row(i, p, r))) = PhaseOf(i, p, r)
<1> DEFINE row == Row(i, p, r)
<1>0. /\ row.issuance = i /\ row.past = p /\ row.async = "none"
      /\ row.cancelled = r.cancelled /\ row.failed = r.failed /\ row.lapsed = r.lapsed
  BY DEF Row
<1> HIDE DEF row
<1>1. CASE i # "none"
  <2>1. \A b \in Records!Branches : Records!HasRow(b, row) <=> b = "issuance"
    BY <1>0, <1>1 DEF Records!Branches, Records!HasRow
  <2>2. (CHOOSE b \in Records!Branches : Records!HasRow(b, row)) = "issuance"
    BY <2>1 DEF Records!Branches
  <2>3. Records!credentialRecordStatus(row) = Records!IssuanceStatus(row)
    BY <2>2 DEF Records!credentialRecordStatus, Records!Status
  <2>4. Phase(Records!IssuanceStatus(row)) = PhaseOf(i, p, r)
    <3>1. CASE i = "revoked"
      BY <1>0, <3>1 DEF Records!IssuanceStatus, Phase, PhaseOf
    <3>2. CASE i # "revoked" /\ p
      BY <1>0, <1>1, <3>2 DEF Records!IssuanceStatus, Phase, PhaseOf
    <3>3. CASE i # "revoked" /\ ~p
      BY <1>0, <1>1, <3>3 DEF Records!IssuanceStatus, Phase, PhaseOf
    <3> QED  BY <3>1, <3>2, <3>3
  <2> QED  BY <2>3, <2>4 DEF row
<1>2. CASE i = "none"
  <2>1. \A b \in Records!Branches : Records!HasRow(b, row) <=> b = "record"
    BY <1>0, <1>2 DEF Records!Branches, Records!HasRow
  <2>2. (CHOOSE b \in Records!Branches : Records!HasRow(b, row)) = "record"
    BY <2>1 DEF Records!Branches
  <2>3. Records!credentialRecordStatus(row) = Records!RecordStatus(row)
    BY <2>2 DEF Records!credentialRecordStatus, Records!Status
  <2>4. Phase(Records!RecordStatus(row)) = PhaseOf(i, p, r)
    <3>1. CASE r.cancelled
      BY <1>0, <1>2, <3>1 DEF Records!RecordStatus, Phase, PhaseOf
    <3>2. CASE ~r.cancelled /\ r.failed
      BY <1>0, <1>2, <3>2 DEF Records!RecordStatus, Phase, PhaseOf
    <3>3. CASE ~r.cancelled /\ ~r.failed /\ r.lapsed
      BY <1>0, <1>2, <3>3 DEF Records!RecordStatus, Phase, PhaseOf
    <3>4. CASE ~r.cancelled /\ ~r.failed /\ ~r.lapsed
      BY <1>0, <1>2, <3>4 DEF Records!RecordStatus, Phase, PhaseOf
    <3> QED  BY <3>1, <3>2, <3>3, <3>4
  <2> QED  BY <2>3, <2>4 DEF row
<1> QED  BY <1>1, <1>2

\* No step takes a column back: an issuance row stays, stays revoked and stays
\* past a given date, and a mark on the record is never removed.
LEMMA ColumnsGrow ==
  ASSUME IInv, [Next]_vars
  PROVE  /\ issuance # "none" => issuance' # "none"
         /\ issuance = "revoked" => issuance' = "revoked"
         /\ Dated /\ past => past'
         /\ record.cancelled => record'.cancelled
         /\ record.failed => record'.failed
         /\ record.lapsed => record'.lapsed
<1>1. CASE UNCHANGED vars
  BY <1>1 DEF vars, db
<1>2. CASE Next
  <2>1. CASE Create \/ Scan \/ RejectPin \/ Accept
    BY <2>1 DEF Create, Scan, RejectPin, Accept, db
  <2>2. CASE Lapse \/ Expire
    BY <2>2 DEF Lapse, Expire, IInv, TypeOK
  <2>3. CASE \E k \in Kinds : Handle(k)
    <3>1. PICK k \in Kinds : Handle(k)
      BY <2>3
    <3>2. CASE SaveSuccess
      BY <3>2 DEF SaveSuccess, Upserted, ExpiryRenewed
    <3>3. CASE SaveFailed
      BY <3>3 DEF SaveFailed, IInv, TypeOK
    <3>4. CASE UNCHANGED db
      BY <3>4 DEF db
    <3>5. SaveSuccess \/ SaveFailed \/ UNCHANGED db
      BY <3>1 DEF Handle, Deliver, CacheEvent, HandlerFails, Forward, ForwardFails, RefuseSuccess
    <3> QED  BY <3>2, <3>3, <3>4, <3>5
  <2>4. CASE \E w \in Workers : Operate(w)
    BY <2>4 DEF Operate, CancelRead, CancelCheck, CancelSave, RevokeRead, RevokeEntra, RevokeSave,
        Abort, IInv, TypeOK, db, world
  <2> QED  BY <1>2, <2>1, <2>2, <2>3, <2>4 DEF Next
<1> QED  BY <1>1, <1>2

\* The listed life cycle of an in-person record goes forward only, but that an issuance
\* without a given date may be active again after it has expired.
THEOREM LifecycleGoesForward == Spec => PhaseNeverGoesBack
<1>1. IInv /\ IInv' /\ [Next]_vars => Phase(credentialRecordStatus') >= Phase(credentialRecordStatus)
  <2> SUFFICES ASSUME IInv, IInv', [Next]_vars
               PROVE  Phase(credentialRecordStatus') >= Phase(credentialRecordStatus)
    OBVIOUS
  <2>1. Phase(credentialRecordStatus) = PhaseOf(issuance, past, record)
    BY QueryPhase DEF credentialRecordStatus, Row, IInv, TypeOK
  <2>2. Phase(credentialRecordStatus') = PhaseOf(issuance', past', record')
    BY QueryPhase DEF credentialRecordStatus, Row, IInv, TypeOK
  <2> QED  BY <2>1, <2>2, ColumnsGrow DEF PhaseOf
<1>2. IInv /\ IInv' /\ [Next]_vars
      => [~remote => Phase(credentialRecordStatus') >= Phase(credentialRecordStatus)]_vars
  BY <1>1
<1> QED  BY IInvHolds, <1>2, PTL DEF Spec, PhaseNeverGoesBack
=============================================================================
