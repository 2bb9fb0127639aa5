----------------------- MODULE MachineInterfaceProofs -----------------------
(***************************************************************************)
(* Proofs about MachineInterface for every number of workers, requests,    *)
(* attempts and sends.                                                     *)
(***************************************************************************)
EXTENDS MachineInterfaceInvariant, TLAPS

LEMMA EmptyRecordType == EmptyRecord \in Record
  BY DEF EmptyRecord, Record, Guid

LEMMA NoDataType == NoData \in [Request -> Nat]
  BY DEF NoData

LEMMA SideEffectsType ==
  ASSUME NEW r \in Record
  PROVE  /\ CommittedSideEffects(r) \subseteq OutgoingMessage \cup HttpResponse
         /\ AbortedSideEffects(r) \subseteq OutgoingMessage \cup HttpResponse
         /\ \A e \in r.sideEffects : e.attemptId \in Attempt
  BY DEF CommittedSideEffects, AbortedSideEffects, Record, OutgoingMessage, HttpResponse

(* A worker that stops leaves everything well-typed.                       *)
LEMMA ResetType ==
  ASSUME TypeOK, NEW p \in Worker, Reset(p),
         data' = data /\ blobs' = blobs /\ dispatched' = dispatched,
         execution' = execution /\ emitted' = emitted /\ responses' = responses,
         requests' \subseteq Request, responseId' \in [Request -> Guid],
         client' \in [Request -> {"new", "put", "stored", "posted", "answered", "aborted"}],
         answers' \in [Request -> SUBSET Attempt],
         refused' \subseteq Request, deleted' \subseteq Request
  PROVE  TypeOK'
  BY EmptyRecordType, NoDataType DEF TypeOK, Reset, Forget, Goto, Guid, Stage, Attempting

LEMMA FailType ==
  ASSUME TypeOK, NEW p \in Worker, Fail(p)
  PROVE  TypeOK'
  BY ResetType DEF TypeOK, Fail, storeVars, clientVars

LEMMA RefuseType ==
  ASSUME TypeOK, NEW p \in Worker, pc[p] # "idle", Refuse(p)
  PROVE  TypeOK'
  BY ResetType DEF TypeOK, Refuse, storeVars

(* Every variable keeps its type.                                          *)
THEOREM TypeCorrect == Spec => []TypeOK
<1>1. Init => TypeOK
  <2>. SUFFICES ASSUME Init PROVE TypeOK
    OBVIOUS
  <2>1. created \in BOOLEAN /\ record \in Record /\ val \in [Worker -> Record]
        /\ current \subseteq Worker
    BY EmptyRecordType DEF Init, RecordInit
  <2>2. /\ data \in [Request -> Nat]
        /\ snapshot \in [Worker -> [Request -> Nat]]
    BY NoDataType DEF Init
  <2>3. /\ requests \subseteq Request /\ responseId \in [Request -> Guid]
        /\ responses \subseteq Attempt /\ blobs \subseteq OutgoingMessage
        /\ dispatched \subseteq OutgoingMessage
        /\ client \in [Request -> {"new", "put", "stored", "posted", "answered", "aborted"}]
        /\ answers \in [Request -> SUBSET Attempt]
        /\ refused \subseteq Request /\ deleted \subseteq Request
        /\ execution \in [Request -> Guid] /\ emitted \subseteq OutgoingMessage
    BY DEF Init, Guid
  <2>4. /\ pc \in [Worker -> Stage] /\ req \in [Worker -> Request \cup {None}]
        /\ \A p \in Worker : pc[p] = "idle" <=> req[p] = None
        /\ att \in [Worker -> Guid] /\ resp \in [Worker -> Guid]
        /\ \A p \in Worker : Attempting(p) <=> att[p] # None
        /\ \A p \in Worker : pc[p] \in {"get", "answer", "delete response"} => resp[p] # None
        /\ outbox \in [Worker -> SUBSET OutgoingMessage]
        /\ discard \in [Worker -> SUBSET (OutgoingMessage \cup HttpResponse)]
    BY DEF Init, Stage, Guid, Attempting
  <2>. QED
    BY <2>1, <2>2, <2>3, <2>4 DEF TypeOK
<1>2. TypeOK /\ [Next]_vars => TypeOK'
  <2>. SUFFICES ASSUME TypeOK, [Next]_vars PROVE TypeOK'
    OBVIOUS
  <2>. USE MachineAssumption DEF recordVars, storeVars, clientVars, workerVars, Goto, Attempting
  <2>1. ASSUME NEW p \in Worker, NEW r \in Request, Put(p, r) PROVE TypeOK'
    BY <2>1 DEF Put, Begin, TypeOK, Stage
  <2>2. ASSUME NEW p \in Worker, NEW r \in Request, Post(p, r) PROVE TypeOK'
    BY <2>2 DEF Post, Begin, TypeOK, Stage
  <2>3. ASSUME NEW p \in Worker, NEW r \in Request, Delete(p, r) PROVE TypeOK'
    BY <2>3 DEF Delete, Begin, TypeOK, Stage
  <2>4. ASSUME NEW p \in Worker, CreateRequest(p) PROVE TypeOK'
    <3>1. req[p] \in Request
      BY <2>4 DEF CreateRequest, TypeOK
    <3>2. /\ requests' \subseteq Request
          /\ client' \in [Request -> {"new", "put", "stored", "posted", "answered", "aborted"}]
      BY <2>4, <3>1 DEF CreateRequest, TypeOK
    <3>. QED
      BY <2>4, <3>2, ResetType DEF CreateRequest, TypeOK
  <2>5. ASSUME NEW p \in Worker, GetBody(p) PROVE TypeOK'
    BY <2>5 DEF GetBody, TypeOK, Stage
  <2>6. ASSUME NEW p \in Worker, NoBody(p) \/ NoResponseId(p) \/ NoResponse(p) PROVE TypeOK'
    BY <2>6, RefuseType DEF NoBody, NoResponseId, NoResponse
  <2>7. ASSUME NEW p \in Worker, LoadFree(p) PROVE TypeOK'
    BY <2>7 DEF LoadFree, Read, TypeOK, Stage
  <2>8. ASSUME NEW p \in Worker, LoadUnfinished(p) PROVE TypeOK'
    <3>1. record \in Record
      BY DEF TypeOK
    <3>2. /\ CommittedSideEffects(record) \cap OutgoingMessage \subseteq OutgoingMessage
          /\ AbortedSideEffects(record) \subseteq OutgoingMessage \cup HttpResponse
      BY <3>1, SideEffectsType
    <3>. QED
      BY <2>8, <3>2 DEF LoadUnfinished, Read, BeginFinish, TypeOK, Stage
  <2>9. ASSUME NEW p \in Worker, LoadMissing(p) PROVE TypeOK'
    BY <2>9 DEF LoadMissing, TypeOK, Stage
  <2>10. ASSUME NEW p \in Worker, CreateRecord(p) PROVE TypeOK'
    BY <2>10, EmptyRecordType DEF CreateRecord, Create, TypeOK, Stage
  <2>11. ASSUME NEW p \in Worker,
                Crash(p) \/ CreateConflict(p) \/ WriteConflict(p) \/ AssociateFails(p)
                \/ ClearConflict(p)
         PROVE  TypeOK'
    BY <2>11, FailType DEF Crash, CreateConflict, WriteConflict, AssociateFails, ClearConflict
  <2>12. ASSUME NEW p \in Worker, CheckToken(p) PROVE TypeOK'
    <3>1. PICK a \in Attempt : att' = [att EXCEPT ![p] = a]
      BY <2>12 DEF CheckToken
    <3>2. a # None
      BY <3>1
    <3>3. /\ pc[p] = "check" /\ pc' = [pc EXCEPT ![p] = "read"]
          /\ pc \in [Worker -> Stage] /\ att \in [Worker -> Guid]
          /\ \A q \in Worker : Attempting(q) <=> att[q] # None
      BY <2>12 DEF CheckToken, TypeOK
    <3>4. /\ pc' \in [Worker -> Stage] /\ att' \in [Worker -> Guid]
          /\ \A q \in Worker : Attempting(q)' <=> att'[q] # None
          /\ \A q \in Worker : pc'[q] = "idle" <=> pc[q] = "idle"
          /\ \A q \in Worker : pc'[q] \in {"get", "answer", "delete response"} => pc'[q] = pc[q]
      BY <3>1, <3>2, <3>3 DEF Stage, Guid
    <3>. QED
      BY <2>12, <3>4 DEF CheckToken, TypeOK
  <2>13. ASSUME NEW p \in Worker, Duplicate(p) PROVE TypeOK'
    BY <2>13 DEF Duplicate, TypeOK, Stage
  <2>14. ASSUME NEW p \in Worker, ReadData(p) PROVE TypeOK'
    BY <2>14 DEF ReadData, TypeOK, Stage
  <2>15. ASSUME NEW p \in Worker, NEW s \in Slot, Send(p, s) PROVE TypeOK'
    <3>1. [attemptId |-> att[p], slot |-> s] \in OutgoingMessage
      BY <2>15 DEF Send, OutgoingMessage, TypeOK, Guid
    <3>2. [val[p] EXCEPT !.sideEffects = @ \cup {[attemptId |-> att[p], slot |-> s]}] \in Record
      BY <3>1 DEF TypeOK, Record
    <3>. QED
      BY <2>15, <3>1, <3>2 DEF Send, AddSideEffects, Replace, TypeOK, Stage
  <2>16. ASSUME NEW p \in Worker, Upload(p) PROVE TypeOK'
    BY <2>16 DEF Upload, TypeOK, Stage
  <2>17. ASSUME NEW p \in Worker, RegisterResponse(p) PROVE TypeOK'
    <3>1. [attemptId |-> att[p], incomingId |-> req[p]] \in HttpResponse
      BY <2>17 DEF RegisterResponse, HttpResponse, TypeOK, Guid
    <3>2. [val[p] EXCEPT !.sideEffects = @ \cup {[attemptId |-> att[p], incomingId |-> req[p]]}]
            \in Record
      BY <3>1 DEF TypeOK, Record
    <3>. QED
      BY <2>17, <3>2 DEF RegisterResponse, AddSideEffects, Replace, TypeOK, Stage
  <2>18. ASSUME NEW p \in Worker, StoreResponse(p) PROVE TypeOK'
    BY <2>18 DEF StoreResponse, TypeOK, Stage, Guid
  <2>19. ASSUME NEW p \in Worker, Commit(p) PROVE TypeOK'
    <3>1. att[p] \in Attempt /\ req[p] \in Request
      BY <2>19 DEF Commit, TypeOK, Guid
    <3>2. record' \in Record
      <4>1. record' = [val[p] EXCEPT !.messageId = req[p], !.attemptId = att[p]]
        BY <2>19 DEF Commit, CommitStateTransition, Replace
      <4>2. val[p] \in Record
        BY DEF TypeOK
      <4>. QED
        BY <3>1, <4>1, <4>2 DEF Record, Guid
    <3>3. /\ CommittedSideEffects(record') \cap OutgoingMessage \subseteq OutgoingMessage
          /\ AbortedSideEffects(record') \subseteq OutgoingMessage \cup HttpResponse
      BY <3>2, SideEffectsType
    <3>4. data' \in [Request -> Nat]
      <4>1. data' = [snapshot[p] EXCEPT ![req[p]] = @ + 1]
        BY <2>19 DEF Commit, Apply
      <4>2. snapshot[p] \in [Request -> Nat]
        BY DEF TypeOK
      <4>. QED
        BY <3>1, <4>1, <4>2
    <3>5. Own(p) \subseteq OutgoingMessage
      BY DEF Own, TypeOK
    <3>. QED
      BY <2>19, <3>1, <3>2, <3>3, <3>4, <3>5, NoDataType
      DEF Commit, CommitStateTransition, Replace, BeginFinish, TypeOK, Stage, Guid
  <2>20. ASSUME NEW p \in Worker, LookUp(p) PROVE TypeOK'
    <3>1. req[p] \in Request
      <4>1. pc[p] # "idle"
        BY <2>20 DEF LookUp
      <4>. QED
        BY <4>1 DEF TypeOK
    <3>2. responseId[req[p]] \in Guid
      BY <3>1 DEF TypeOK
    <3>. QED
      BY <2>20, <3>1, <3>2 DEF LookUp, TypeOK, Stage
  <2>21. ASSUME NEW p \in Worker, GetResponse(p) PROVE TypeOK'
    BY <2>21 DEF GetResponse, TypeOK, Stage
  <2>22. ASSUME NEW p \in Worker, Answer(p) PROVE TypeOK'
    BY <2>22, ResetType DEF Answer, TypeOK, Guid
  <2>23. ASSUME NEW p \in Worker, NEW m \in OutgoingMessage, Dispatch(p, m) PROVE TypeOK'
    BY <2>23 DEF Dispatch, TypeOK
  <2>24. ASSUME NEW p \in Worker, NEW m \in OutgoingMessage, EnsureDeleted(p, m) PROVE TypeOK'
    BY <2>24 DEF EnsureDeleted, TypeOK
  <2>25. ASSUME NEW p \in Worker, NEW e \in HttpResponse, DeleteAborted(p, e) PROVE TypeOK'
    BY <2>25 DEF DeleteAborted, TypeOK
  <2>26. ASSUME NEW p \in Worker, Associate(p) PROVE TypeOK'
    <3>1. PICK e \in CommittedResponse(p) :
              responseId' = [responseId EXCEPT ![val[p].messageId] = e.attemptId]
      BY <2>26 DEF Associate
    <3>2. e.attemptId \in Attempt
      BY <3>1, SideEffectsType DEF CommittedResponse, CommittedSideEffects, TypeOK
    <3>. QED
      BY <2>26, <3>1, <3>2 DEF Associate, Cleaned, TypeOK, Stage, Guid
  <2>27. ASSUME NEW p \in Worker, Clear(p) PROVE TypeOK'
    BY <2>27, EmptyRecordType DEF Clear, ClearTransactionState, Replace, TypeOK, Stage
  <2>28. ASSUME NEW p \in Worker, GetResponseId(p) PROVE TypeOK'
    BY <2>28 DEF GetResponseId, TypeOK, Stage
  <2>29. ASSUME NEW p \in Worker, DeleteStoredResponse(p) PROVE TypeOK'
    BY <2>29 DEF DeleteStoredResponse, TypeOK, Stage
  <2>30. ASSUME NEW p \in Worker, DeleteRequest(p) PROVE TypeOK'
    BY <2>30, ResetType DEF DeleteRequest, TypeOK, Guid
  <2>31. CASE UNCHANGED vars
    BY <2>31 DEF vars, TypeOK
  <2>. QED
    BY <2>1, <2>2, <2>3, <2>4, <2>5, <2>6, <2>7, <2>8, <2>9, <2>10, <2>11, <2>12, <2>13,
       <2>14, <2>15, <2>16, <2>17, <2>18, <2>19, <2>20, <2>22, <2>23, <2>24, <2>25, <2>26,
       <2>27, <2>28, <2>30, <2>31, <2>21, <2>29
    DEF Next, Caller, Handler, ExecuteTransaction, FinishProcessing, DeleteResponse
<1>. QED
  BY <1>1, <1>2, PTL DEF Spec

LEMMA ResponseIsNoMessage ==
  ASSUME NEW a, NEW r
  PROVE  [attemptId |-> a, incomingId |-> r] \notin OutgoingMessage
  BY DEF OutgoingMessage

-----------------------------------------------------------------------------
(* IInv is inductive: one lemma per action, or per kind of action, and in  *)
(* it one step per conjunct of IInv.                                       *)

LEMMA InitInv == Init => IInv
<1>. SUFFICES ASSUME Init PROVE IInv
  OBVIOUS
<1>. USE MachineAssumption DEF Init, RecordInit, EmptyRecord, InTransaction
<1>1. CurrentCopy
  BY DEF CurrentCopy
<1>2. ClientSound /\ CallsSound
  BY DEF ClientSound, CallsSound, Posting, Deleting
<1>3. AttemptsUnique
  BY DEF AttemptsUnique
<1>4. RecordSound
  BY DEF RecordSound, CommittedSideEffects, AbortedSideEffects
<1>5. AttemptsSound
  BY DEF AttemptsSound, AttemptSound, Attempting
<1>6. FinishersSound
  BY DEF FinishersSound, Finishing
<1>7. DataSound
  BY DEF DataSound, NoData, HasToken
<1>8. AnswersSound
  BY DEF AnswersSound
<1>9. Answerable /\ PublishedOrHeld /\ CommittedOnly /\ RefusedOnlyAfterDelete
  BY DEF Answerable, PublishedOrHeld, CommittedOnly, RefusedOnlyAfterDelete
<1>. QED
  BY <1>1, <1>2, <1>3, <1>4, <1>5, <1>6, <1>7, <1>8, <1>9 DEF IInv

(* A worker that stops leaves the stores and the caller alone.             *)
LEMMA FailInv ==
  ASSUME TypeOK, IInv, NEW p \in Worker, Fail(p)
  PROVE  IInv'
<1>. USE MachineAssumption DEF IInv
<1>1. /\ val' = [val EXCEPT ![p] = EmptyRecord]
      /\ current' = current \ {p}
      /\ pc' = [pc EXCEPT ![p] = "idle"]
      /\ req' = [req EXCEPT ![p] = None]
      /\ att' = [att EXCEPT ![p] = None]
      /\ snapshot' = [snapshot EXCEPT ![p] = NoData]
      /\ resp' = [resp EXCEPT ![p] = None]
      /\ outbox' = [outbox EXCEPT ![p] = {}]
      /\ discard' = [discard EXCEPT ![p] = {}]
      /\ UNCHANGED <<created, record, data, requests, responseId, responses, blobs, dispatched,
                       execution, emitted, client, answers, refused, deleted>>
  BY DEF TypeOK, Fail, Reset, Forget, Goto, recordVars, storeVars,
     clientVars, workerVars
<1>2. /\ val \in [Worker -> Record]
      /\ pc \in [Worker -> Stage]
      /\ req \in [Worker -> Request \cup {None}]
      /\ att \in [Worker -> Guid]
      /\ snapshot \in [Worker -> [Request -> Nat]]
      /\ resp \in [Worker -> Guid]
      /\ outbox \in [Worker -> SUBSET OutgoingMessage]
      /\ discard \in [Worker -> SUBSET (OutgoingMessage \cup HttpResponse)]
      /\ current \subseteq Worker /\ deleted \subseteq Request
      /\ \A q \in Worker : pc[q] # "idle" => req[q] \in Request
  BY DEF TypeOK
<1>3. CurrentCopy'
  BY <1>1, <1>2 DEF CurrentCopy
<1>4. ClientSound'
  BY <1>1, <1>2 DEF ClientSound
<1>5. CallsSound'
  BY <1>1, <1>2 DEF CallsSound, Posting, Deleting, Stage
<1>6. AttemptsUnique'
  BY <1>1, <1>2 DEF AttemptsUnique, Executed
<1>7. RecordSound'
  BY <1>1, <1>2 DEF RecordSound, Executed, InTransaction, CommittedSideEffects,
     AbortedSideEffects
<1>8. AttemptsSound'
  BY <1>1, <1>2 DEF AttemptsSound, AttemptSound, Own, Attempting, InTransaction
<1>9. FinishersSound'
  BY <1>1, <1>2 DEF FinishersSound, FinisherSound, Finishing, Attempting, Executed,
       HasToken, InTransaction, CommittedSideEffects, AbortedSideEffects
<1>10. DataSound'
  BY <1>1, <1>2 DEF DataSound, HasToken, Executed
<1>11. AnswersSound'
  BY <1>1, <1>2 DEF AnswersSound
<1>12. Answerable'
  BY <1>1, <1>2 DEF Answerable
<1>13. PublishedOrHeld'
  BY <1>1, <1>2 DEF PublishedOrHeld, InTransaction, CommittedSideEffects
<1>14. CommittedOnly'
  BY <1>1, <1>2 DEF CommittedOnly
<1>15. RefusedOnlyAfterDelete'
  BY <1>1, <1>2 DEF RefusedOnlyAfterDelete
<1>. QED
  BY <1>3, <1>4, <1>5, <1>6, <1>7, <1>8, <1>9, <1>10, <1>11, <1>12, <1>13, <1>14, <1>15 DEF IInv

(* Each refusal finds nothing of a request that only a DELETE removes.     *)
LEMMA RefusedDeleted ==
  ASSUME TypeOK, IInv, NEW p \in Worker, NoBody(p) \/ NoResponseId(p) \/ NoResponse(p)
  PROVE  pc[p] # "idle" /\ req[p] \in deleted /\ Refuse(p)
<1>. USE DEF IInv
<1>1. Refuse(p) /\ pc[p] \in {"body", "lookup", "get"}
  BY DEF NoBody, NoResponseId, NoResponse
<1>2. req[p] \in Request /\ client[req[p]] \in {"posted", "answered"}
  BY <1>1 DEF TypeOK, CallsSound, Posting
<1>3. ASSUME NoBody(p) PROVE req[p] \in deleted
  BY <1>2, <1>3 DEF NoBody, ClientSound
<1>4. ASSUME NoResponseId(p) PROVE req[p] \in deleted
  BY <1>4 DEF NoResponseId, AnswersSound
<1>5. ASSUME NoResponse(p) PROVE req[p] \in deleted
  <2>1. resp[p] \notin responses /\ resp[p] # None /\ pc[p] = "get"
    BY <1>5 DEF NoResponse, TypeOK
  <2>2. resp[p] = execution[req[p]]
    BY <2>1 DEF AnswersSound
  <2>. QED
    BY <1>2, <2>1, <2>2 DEF Answerable
<1>. QED
  BY <1>1, <1>3, <1>4, <1>5

(* A POST is refused of what the caller deleted.                           *)
LEMMA RefuseInv ==
  ASSUME TypeOK, IInv, NEW p \in Worker, req[p] \in deleted, Refuse(p)
  PROVE  IInv'
<1>. USE MachineAssumption DEF IInv
<1>1. /\ refused' = refused \cup {req[p]}
      /\ val' = [val EXCEPT ![p] = EmptyRecord]
      /\ current' = current \ {p}
      /\ pc' = [pc EXCEPT ![p] = "idle"]
      /\ req' = [req EXCEPT ![p] = None]
      /\ att' = [att EXCEPT ![p] = None]
      /\ snapshot' = [snapshot EXCEPT ![p] = NoData]
      /\ resp' = [resp EXCEPT ![p] = None]
      /\ outbox' = [outbox EXCEPT ![p] = {}]
      /\ discard' = [discard EXCEPT ![p] = {}]
      /\ UNCHANGED <<created, record, data, requests, responseId, responses, blobs, dispatched,
                       execution, emitted, client, answers, deleted>>
  BY DEF TypeOK, Refuse, Reset, Forget, Goto, recordVars, storeVars,
     clientVars, workerVars
<1>2. /\ val \in [Worker -> Record]
      /\ pc \in [Worker -> Stage]
      /\ req \in [Worker -> Request \cup {None}]
      /\ att \in [Worker -> Guid]
      /\ snapshot \in [Worker -> [Request -> Nat]]
      /\ resp \in [Worker -> Guid]
      /\ outbox \in [Worker -> SUBSET OutgoingMessage]
      /\ discard \in [Worker -> SUBSET (OutgoingMessage \cup HttpResponse)]
      /\ current \subseteq Worker /\ deleted \subseteq Request
      /\ \A q \in Worker : pc[q] # "idle" => req[q] \in Request
  BY DEF TypeOK
<1>3. CurrentCopy'
  BY <1>1, <1>2 DEF CurrentCopy
<1>4. ClientSound'
  BY <1>1, <1>2 DEF ClientSound
<1>5. CallsSound'
  BY <1>1, <1>2 DEF CallsSound, Posting, Deleting, Stage
<1>6. AttemptsUnique'
  BY <1>1, <1>2 DEF AttemptsUnique, Executed
<1>7. RecordSound'
  BY <1>1, <1>2 DEF RecordSound, Executed, InTransaction, CommittedSideEffects,
     AbortedSideEffects
<1>8. AttemptsSound'
  BY <1>1, <1>2 DEF AttemptsSound, AttemptSound, Own, Attempting, InTransaction
<1>9. FinishersSound'
  BY <1>1, <1>2 DEF FinishersSound, FinisherSound, Finishing, Attempting, Executed,
       HasToken, InTransaction, CommittedSideEffects, AbortedSideEffects
<1>10. DataSound'
  BY <1>1, <1>2 DEF DataSound, HasToken, Executed
<1>11. AnswersSound'
  BY <1>1, <1>2 DEF AnswersSound
<1>12. Answerable'
  BY <1>1, <1>2 DEF Answerable
<1>13. PublishedOrHeld'
  BY <1>1, <1>2 DEF PublishedOrHeld, InTransaction, CommittedSideEffects
<1>14. CommittedOnly'
  BY <1>1, <1>2 DEF CommittedOnly
<1>15. RefusedOnlyAfterDelete'
  BY <1>1, <1>2 DEF RefusedOnlyAfterDelete
<1>. QED
  BY <1>3, <1>4, <1>5, <1>6, <1>7, <1>8, <1>9, <1>10, <1>11, <1>12, <1>13, <1>14, <1>15 DEF IInv

(* The caller sends a new request.                                         *)
LEMMA PutInv ==
  ASSUME TypeOK, IInv, NEW p \in Worker, NEW r \in Request, Put(p, r)
  PROVE  IInv'
<1>. USE MachineAssumption DEF IInv
<1>1. /\ pc[p] = "idle"
      /\ client[r] = "new"
      /\ client' = [client EXCEPT ![r] = "put"]
      /\ pc' = [pc EXCEPT ![p] = "create request"]
      /\ req' = [req EXCEPT ![p] = r]
      /\ UNCHANGED <<created, record, val, current, data, requests, responseId, responses, blobs,
                       dispatched, execution, emitted, answers, refused, deleted, att,
                       snapshot, resp, outbox, discard>>
  BY DEF TypeOK, Put, Begin, Goto, recordVars, storeVars,
     clientVars, workerVars
<1>2. /\ client \in [Request -> {"new", "put", "stored", "posted", "answered", "aborted"}]
      /\ pc \in [Worker -> Stage]
      /\ req \in [Worker -> Request \cup {None}]
      /\ current \subseteq Worker /\ deleted \subseteq Request
      /\ \A q \in Worker : pc[q] # "idle" => req[q] \in Request
  BY DEF TypeOK
<1>3. CurrentCopy'
  BY <1>1, <1>2 DEF CurrentCopy
<1>4. ClientSound'
  BY <1>1, <1>2 DEF ClientSound
<1>5. CallsSound'
  BY <1>1, <1>2 DEF CallsSound, Posting, Deleting, Stage
<1>6. AttemptsUnique'
  BY <1>1, <1>2 DEF AttemptsUnique, Executed
<1>7. RecordSound'
  BY <1>1, <1>2 DEF RecordSound, Executed, InTransaction, CommittedSideEffects,
     AbortedSideEffects
<1>8. AttemptsSound'
  BY <1>1, <1>2 DEF AttemptsSound, AttemptSound, Own, Attempting, InTransaction
<1>9. FinishersSound'
  <2>. SUFFICES ASSUME NEW q \in Worker, Finishing(q)' PROVE FinisherSound(q)'
    BY DEF FinishersSound
  <2>1. q # p /\ pc'[q] = pc[q]
    BY <1>1, <1>2 DEF Finishing
  <2>2. FinisherSound(q)
    BY <2>1 DEF FinishersSound, Finishing
  <2>3. \A s \in current' : Attempting(s)' => s \in current /\ Attempting(s)
    BY <1>1, <1>2 DEF Attempting
  <2>. QED
    BY <1>1, <1>2, <2>1, <2>2, <2>3 DEF FinisherSound, Executed, HasToken,
       InTransaction, CommittedSideEffects, AbortedSideEffects
<1>10. DataSound'
  BY <1>1, <1>2 DEF DataSound, HasToken, Executed
<1>11. AnswersSound'
  BY <1>1, <1>2 DEF AnswersSound
<1>12. Answerable'
  BY <1>1, <1>2 DEF Answerable
<1>13. PublishedOrHeld'
  BY <1>1, <1>2 DEF PublishedOrHeld, InTransaction, CommittedSideEffects
<1>14. CommittedOnly'
  BY <1>1, <1>2 DEF CommittedOnly
<1>15. RefusedOnlyAfterDelete'
  BY <1>1, <1>2 DEF RefusedOnlyAfterDelete
<1>. QED
  BY <1>3, <1>4, <1>5, <1>6, <1>7, <1>8, <1>9, <1>10, <1>11, <1>12, <1>13, <1>14, <1>15 DEF IInv

(* The caller POSTs what it PUT.                                           *)
LEMMA PostInv ==
  ASSUME TypeOK, IInv, NEW p \in Worker, NEW r \in Request, Post(p, r)
  PROVE  IInv'
<1>. USE MachineAssumption DEF IInv
<1>1. /\ pc[p] = "idle"
      /\ client[r] \in {"stored", "posted", "answered"}
      /\ client' = [client EXCEPT ![r] = IF @ = "stored" THEN "posted" ELSE @]
      /\ pc' = [pc EXCEPT ![p] = "body"]
      /\ req' = [req EXCEPT ![p] = r]
      /\ UNCHANGED <<created, record, val, current, data, requests, responseId, responses, blobs,
                       dispatched, execution, emitted, answers, refused, deleted, att,
                       snapshot, resp, outbox, discard>>
  BY DEF TypeOK, Post, Begin, Goto, recordVars, storeVars,
     clientVars, workerVars
<1>2. /\ client \in [Request -> {"new", "put", "stored", "posted", "answered", "aborted"}]
      /\ pc \in [Worker -> Stage]
      /\ req \in [Worker -> Request \cup {None}]
      /\ current \subseteq Worker /\ deleted \subseteq Request
      /\ \A q \in Worker : pc[q] # "idle" => req[q] \in Request
  BY DEF TypeOK
<1>3. CurrentCopy'
  BY <1>1, <1>2 DEF CurrentCopy
<1>4. ClientSound'
  BY <1>1, <1>2 DEF ClientSound
<1>5. CallsSound'
  BY <1>1, <1>2 DEF CallsSound, Posting, Deleting, Stage
<1>6. AttemptsUnique'
  BY <1>1, <1>2 DEF AttemptsUnique, Executed
<1>7. RecordSound'
  BY <1>1, <1>2 DEF RecordSound, Executed, InTransaction, CommittedSideEffects,
     AbortedSideEffects
<1>8. AttemptsSound'
  BY <1>1, <1>2 DEF AttemptsSound, AttemptSound, Own, Attempting, InTransaction
<1>9. FinishersSound'
  BY <1>1, <1>2 DEF FinishersSound, FinisherSound, Finishing, Attempting, Executed,
       HasToken, InTransaction, CommittedSideEffects, AbortedSideEffects
<1>10. DataSound'
  BY <1>1, <1>2 DEF DataSound, HasToken, Executed
<1>11. AnswersSound'
  BY <1>1, <1>2 DEF AnswersSound
<1>12. Answerable'
  BY <1>1, <1>2 DEF Answerable
<1>13. PublishedOrHeld'
  BY <1>1, <1>2 DEF PublishedOrHeld, InTransaction, CommittedSideEffects
<1>14. CommittedOnly'
  BY <1>1, <1>2 DEF CommittedOnly
<1>15. RefusedOnlyAfterDelete'
  BY <1>1, <1>2 DEF RefusedOnlyAfterDelete
<1>. QED
  BY <1>3, <1>4, <1>5, <1>6, <1>7, <1>8, <1>9, <1>10, <1>11, <1>12, <1>13, <1>14, <1>15 DEF IInv

(* The caller deletes what was answered, or never POSTed.                  *)
LEMMA DeleteInv ==
  ASSUME TypeOK, IInv, NEW p \in Worker, NEW r \in Request, Delete(p, r)
  PROVE  IInv'
<1>. USE MachineAssumption DEF IInv
<1>1. /\ pc[p] = "idle"
      /\ client[r] \in {"put", "stored", "aborted", "answered"}
      /\ client' = [client EXCEPT ![r] = IF @ = "answered" THEN @ ELSE "aborted"]
      /\ deleted' = deleted \cup {r}
      /\ pc' = [pc EXCEPT ![p] = "response id"]
      /\ req' = [req EXCEPT ![p] = r]
      /\ UNCHANGED <<created, record, val, current, data, requests, responseId, responses, blobs,
                       dispatched, execution, emitted, answers, refused, att, snapshot,
                       resp, outbox, discard>>
  BY DEF TypeOK, Delete, Begin, Goto, recordVars, storeVars,
     clientVars, workerVars
<1>2. /\ client \in [Request -> {"new", "put", "stored", "posted", "answered", "aborted"}]
      /\ pc \in [Worker -> Stage]
      /\ req \in [Worker -> Request \cup {None}]
      /\ current \subseteq Worker /\ deleted \subseteq Request
      /\ \A q \in Worker : pc[q] # "idle" => req[q] \in Request
  BY DEF TypeOK
<1>3. CurrentCopy'
  BY <1>1, <1>2 DEF CurrentCopy
<1>4. ClientSound'
  BY <1>1, <1>2 DEF ClientSound
<1>5. CallsSound'
  BY <1>1, <1>2 DEF CallsSound, Posting, Deleting, Stage
<1>6. AttemptsUnique'
  BY <1>1, <1>2 DEF AttemptsUnique, Executed
<1>7. RecordSound'
  BY <1>1, <1>2 DEF RecordSound, Executed, InTransaction, CommittedSideEffects,
     AbortedSideEffects
<1>8. AttemptsSound'
  BY <1>1, <1>2 DEF AttemptsSound, AttemptSound, Own, Attempting, InTransaction
<1>9. FinishersSound'
  <2>. SUFFICES ASSUME NEW q \in Worker, Finishing(q)' PROVE FinisherSound(q)'
    BY DEF FinishersSound
  <2>1. q # p /\ pc'[q] = pc[q]
    BY <1>1, <1>2 DEF Finishing
  <2>2. FinisherSound(q)
    BY <2>1 DEF FinishersSound, Finishing
  <2>3. \A s \in current' : Attempting(s)' => s \in current /\ Attempting(s)
    BY <1>1, <1>2 DEF Attempting
  <2>. QED
    BY <1>1, <1>2, <2>1, <2>2, <2>3 DEF FinisherSound, Executed, HasToken,
       InTransaction, CommittedSideEffects, AbortedSideEffects
<1>10. DataSound'
  BY <1>1, <1>2 DEF DataSound, HasToken, Executed
<1>11. AnswersSound'
  BY <1>1, <1>2 DEF AnswersSound
<1>12. Answerable'
  BY <1>1, <1>2 DEF Answerable
<1>13. PublishedOrHeld'
  BY <1>1, <1>2 DEF PublishedOrHeld, InTransaction, CommittedSideEffects
<1>14. CommittedOnly'
  BY <1>1, <1>2 DEF CommittedOnly
<1>15. RefusedOnlyAfterDelete'
  BY <1>1, <1>2 DEF RefusedOnlyAfterDelete
<1>. QED
  BY <1>3, <1>4, <1>5, <1>6, <1>7, <1>8, <1>9, <1>10, <1>11, <1>12, <1>13, <1>14, <1>15 DEF IInv

(* The blob of a request that was not executed is there.                   *)
LEMMA CreateRequestInv ==
  ASSUME TypeOK, IInv, NEW p \in Worker, CreateRequest(p)
  PROVE  IInv'
<1>. USE MachineAssumption DEF IInv
<1>1. /\ pc[p] = "create request"
      /\ req[p] \in Request
      /\ requests' = requests \cup {req[p]}
      /\ client' = [client EXCEPT ![req[p]] = IF @ = "put" THEN "stored" ELSE @]
      /\ val' = [val EXCEPT ![p] = EmptyRecord]
      /\ current' = current \ {p}
      /\ pc' = [pc EXCEPT ![p] = "idle"]
      /\ req' = [req EXCEPT ![p] = None]
      /\ att' = [att EXCEPT ![p] = None]
      /\ snapshot' = [snapshot EXCEPT ![p] = NoData]
      /\ resp' = [resp EXCEPT ![p] = None]
      /\ outbox' = [outbox EXCEPT ![p] = {}]
      /\ discard' = [discard EXCEPT ![p] = {}]
      /\ UNCHANGED <<created, record, data, responseId, responses, blobs, dispatched, execution,
                       emitted, answers, refused, deleted>>
  BY DEF TypeOK, CreateRequest, Reset, Forget, Goto, recordVars, storeVars,
     clientVars, workerVars
<1>2. /\ client \in [Request -> {"new", "put", "stored", "posted", "answered", "aborted"}]
      /\ val \in [Worker -> Record]
      /\ pc \in [Worker -> Stage]
      /\ req \in [Worker -> Request \cup {None}]
      /\ att \in [Worker -> Guid]
      /\ snapshot \in [Worker -> [Request -> Nat]]
      /\ resp \in [Worker -> Guid]
      /\ outbox \in [Worker -> SUBSET OutgoingMessage]
      /\ discard \in [Worker -> SUBSET (OutgoingMessage \cup HttpResponse)]
      /\ current \subseteq Worker /\ deleted \subseteq Request
      /\ \A q \in Worker : pc[q] # "idle" => req[q] \in Request
  BY DEF TypeOK
<1>3. execution[req[p]] = None
  BY <1>1 DEF CallsSound, ClientSound
<1>4. \A q \in Worker : FinisherSound(q) => val[q].messageId # req[p]
  BY <1>3 DEF FinisherSound
<1>5. CurrentCopy'
  BY <1>1, <1>2, <1>3, <1>4 DEF CurrentCopy
<1>6. ClientSound'
  BY <1>1, <1>2, <1>3, <1>4 DEF ClientSound, CallsSound
<1>7. CallsSound'
  <2>. SUFFICES ASSUME NEW q \in Worker
                PROVE  /\ pc'[q] = "create request" => client'[req'[q]] \in {"put", "aborted"}
                       /\ \A s \in Worker : pc'[q] = "create request" /\ pc'[s] = "create request"
                                           /\ req'[q] = req'[s] => q = s
                       /\ Posting(q)' => client'[req'[q]] \in {"posted", "answered"}
                       /\ Deleting(q)' => req'[q] \in deleted'
    BY DEF CallsSound
  <2>1. CASE q = p
    BY <1>1, <1>2, <2>1 DEF Posting, Deleting
  <2>2. CASE q # p
    <3>1. pc'[q] = pc[q] /\ req'[q] = req[q]
      BY <1>1, <1>2, <2>2
    <3>. QED
      BY <1>1, <1>2, <1>3, <2>2, <3>1 DEF CallsSound, Posting, Deleting
  <2>. QED
    BY <2>1, <2>2
<1>8. AttemptsUnique'
  BY <1>1, <1>2, <1>3, <1>4 DEF AttemptsUnique, Executed
<1>9. RecordSound'
  BY <1>1, <1>2, <1>3, <1>4 DEF RecordSound, Executed, InTransaction, CommittedSideEffects,
     AbortedSideEffects
<1>10. AttemptsSound'
  BY <1>1, <1>2 DEF AttemptsSound, AttemptSound, Own, Attempting, InTransaction
<1>11. FinishersSound'
  <2>. SUFFICES ASSUME NEW q \in Worker, Finishing(q)' PROVE FinisherSound(q)'
    BY DEF FinishersSound
  <2>1. q # p /\ pc'[q] = pc[q]
    BY <1>1, <1>2 DEF Finishing
  <2>2. FinisherSound(q)
    BY <2>1 DEF FinishersSound, Finishing
  <2>3. \A s \in current' : Attempting(s)' => s \in current /\ Attempting(s)
    BY <1>1, <1>2 DEF Attempting
  <2>. QED
    BY <1>1, <1>2, <1>3, <1>4, <2>1, <2>2, <2>3 DEF FinisherSound, Executed, HasToken,
       InTransaction, CommittedSideEffects, AbortedSideEffects
<1>12. DataSound'
  BY <1>1, <1>2, <1>3, <1>4 DEF DataSound, HasToken, Executed
<1>13. AnswersSound'
  BY <1>1, <1>2, <1>3, <1>4 DEF AnswersSound
<1>14. Answerable'
  BY <1>1, <1>2, <1>3, <1>4 DEF Answerable
<1>15. PublishedOrHeld'
  BY <1>1, <1>2, <1>3, <1>4 DEF PublishedOrHeld, InTransaction, CommittedSideEffects
<1>16. CommittedOnly'
  BY <1>1, <1>2, <1>3, <1>4 DEF CommittedOnly
<1>17. RefusedOnlyAfterDelete'
  BY <1>1, <1>2, <1>3, <1>4 DEF RefusedOnlyAfterDelete
<1>. QED
  BY <1>5, <1>6, <1>7, <1>8, <1>9, <1>10, <1>11, <1>12, <1>13, <1>14, <1>15, <1>16, <1>17
     DEF IInv

(* The body is there: nothing but the stage changes.                       *)
LEMMA GetBodyInv ==
  ASSUME TypeOK, IInv, NEW p \in Worker, GetBody(p)
  PROVE  IInv'
<1>. USE MachineAssumption DEF IInv
<1>1. /\ pc[p] = "body"
      /\ pc' = [pc EXCEPT ![p] = "load"]
      /\ UNCHANGED <<created, record, val, current, data, requests, responseId, responses, blobs,
                       dispatched, execution, emitted, client, answers, refused, deleted,
                       req, att, snapshot, resp, outbox, discard>>
  BY DEF TypeOK, GetBody, Goto, recordVars, storeVars,
     clientVars, workerVars
<1>2. /\ pc \in [Worker -> Stage]
      /\ current \subseteq Worker /\ deleted \subseteq Request
      /\ \A q \in Worker : pc[q] # "idle" => req[q] \in Request
  BY DEF TypeOK
<1>3. CurrentCopy'
  BY <1>1, <1>2 DEF CurrentCopy
<1>4. ClientSound'
  BY <1>1, <1>2 DEF ClientSound
<1>5. CallsSound'
  BY <1>1, <1>2 DEF CallsSound, Posting, Deleting, Stage
<1>6. AttemptsUnique'
  BY <1>1, <1>2 DEF AttemptsUnique, Executed
<1>7. RecordSound'
  BY <1>1, <1>2 DEF RecordSound, Executed, InTransaction, CommittedSideEffects,
     AbortedSideEffects
<1>8. AttemptsSound'
  BY <1>1, <1>2 DEF AttemptsSound, AttemptSound, Own, Attempting, InTransaction
<1>9. FinishersSound'
  BY <1>1, <1>2 DEF FinishersSound, FinisherSound, Finishing, Attempting, Executed,
       HasToken, InTransaction, CommittedSideEffects, AbortedSideEffects
<1>10. DataSound'
  BY <1>1, <1>2 DEF DataSound, HasToken, Executed
<1>11. AnswersSound'
  BY <1>1, <1>2 DEF AnswersSound
<1>12. Answerable'
  BY <1>1, <1>2 DEF Answerable
<1>13. PublishedOrHeld'
  BY <1>1, <1>2 DEF PublishedOrHeld, InTransaction, CommittedSideEffects
<1>14. CommittedOnly'
  BY <1>1, <1>2 DEF CommittedOnly
<1>15. RefusedOnlyAfterDelete'
  BY <1>1, <1>2 DEF RefusedOnlyAfterDelete
<1>. QED
  BY <1>3, <1>4, <1>5, <1>6, <1>7, <1>8, <1>9, <1>10, <1>11, <1>12, <1>13, <1>14, <1>15 DEF IInv

(* The record is free: the worker becomes current of a free record.        *)
LEMMA LoadFreeInv ==
  ASSUME TypeOK, IInv, NEW p \in Worker, LoadFree(p)
  PROVE  IInv'
<1>. USE MachineAssumption DEF IInv
<1>1. /\ pc[p] = "load"
      /\ created
      /\ ~InTransaction(record)
      /\ val' = [val EXCEPT ![p] = record]
      /\ current' = current \cup {p}
      /\ pc' = [pc EXCEPT ![p] = "check"]
      /\ UNCHANGED <<created, record, data, requests, responseId, responses, blobs, dispatched,
                       execution, emitted, client, answers, refused, deleted, req, att,
                       snapshot, resp, outbox, discard>>
  BY DEF TypeOK, LoadFree, Read, Goto, recordVars, storeVars,
     clientVars, workerVars
<1>2. /\ val \in [Worker -> Record]
      /\ pc \in [Worker -> Stage]
      /\ current \subseteq Worker /\ deleted \subseteq Request
      /\ \A q \in Worker : pc[q] # "idle" => req[q] \in Request
  BY DEF TypeOK
<1>3. CurrentCopy'
  BY <1>1, <1>2 DEF CurrentCopy
<1>4. ClientSound'
  BY <1>1, <1>2 DEF ClientSound
<1>5. CallsSound'
  BY <1>1, <1>2 DEF CallsSound, Posting, Deleting, Stage
<1>6. AttemptsUnique'
  BY <1>1, <1>2 DEF AttemptsUnique, Executed
<1>7. RecordSound'
  BY <1>1, <1>2 DEF RecordSound, Executed, InTransaction, CommittedSideEffects,
     AbortedSideEffects
<1>8. AttemptsSound'
  BY <1>1, <1>2 DEF AttemptsSound, AttemptSound, Own, Attempting, InTransaction
<1>9. FinishersSound'
  BY <1>1, <1>2 DEF FinishersSound, FinisherSound, Finishing, Attempting, Executed,
       HasToken, InTransaction, CommittedSideEffects, AbortedSideEffects
<1>10. DataSound'
  BY <1>1, <1>2 DEF DataSound, HasToken, Executed
<1>11. AnswersSound'
  BY <1>1, <1>2 DEF AnswersSound
<1>12. Answerable'
  BY <1>1, <1>2 DEF Answerable
<1>13. PublishedOrHeld'
  BY <1>1, <1>2 DEF PublishedOrHeld, InTransaction, CommittedSideEffects
<1>14. CommittedOnly'
  BY <1>1, <1>2 DEF CommittedOnly
<1>15. RefusedOnlyAfterDelete'
  BY <1>1, <1>2 DEF RefusedOnlyAfterDelete
<1>. QED
  BY <1>3, <1>4, <1>5, <1>6, <1>7, <1>8, <1>9, <1>10, <1>11, <1>12, <1>13, <1>14, <1>15 DEF IInv

(* The record holds a transaction: the worker takes over its side effects. *)
LEMMA LoadUnfinishedInv ==
  ASSUME TypeOK, IInv, NEW p \in Worker, LoadUnfinished(p)
  PROVE  IInv'
<1>. USE MachineAssumption DEF IInv
<1>1. /\ pc[p] = "load"
      /\ created
      /\ InTransaction(record)
      /\ val' = [val EXCEPT ![p] = record]
      /\ current' = current \cup {p}
      /\ pc' = [pc EXCEPT ![p] = "publish"]
      /\ outbox' = [outbox EXCEPT ![p] = CommittedSideEffects(record) \cap OutgoingMessage]
      /\ discard' = [discard EXCEPT ![p] = AbortedSideEffects(record)]
      /\ UNCHANGED <<created, record, data, requests, responseId, responses, blobs, dispatched,
                       execution, emitted, client, answers, refused, deleted, req, att,
                       snapshot, resp>>
  BY DEF TypeOK, LoadUnfinished, Read, BeginFinish, Goto, recordVars, storeVars,
     clientVars, workerVars
<1>2. /\ val \in [Worker -> Record]
      /\ pc \in [Worker -> Stage]
      /\ outbox \in [Worker -> SUBSET OutgoingMessage]
      /\ discard \in [Worker -> SUBSET (OutgoingMessage \cup HttpResponse)]
      /\ current \subseteq Worker /\ deleted \subseteq Request
      /\ \A q \in Worker : pc[q] # "idle" => req[q] \in Request
  BY DEF TypeOK
<1>3. \A q \in current : ~Attempting(q)
  BY <1>1, <1>2 DEF CurrentCopy, AttemptsSound, AttemptSound
<1>4. CurrentCopy'
  BY <1>1, <1>2, <1>3 DEF CurrentCopy
<1>5. ClientSound'
  BY <1>1, <1>2, <1>3 DEF ClientSound
<1>6. CallsSound'
  BY <1>1, <1>2, <1>3 DEF CallsSound, Posting, Deleting, Stage
<1>7. AttemptsUnique'
  BY <1>1, <1>2, <1>3 DEF AttemptsUnique, Executed
<1>8. RecordSound'
  BY <1>1, <1>2, <1>3 DEF RecordSound, Executed, InTransaction, CommittedSideEffects,
     AbortedSideEffects
<1>9. AttemptsSound'
  BY <1>1, <1>2, <1>3 DEF AttemptsSound, AttemptSound, Own, Attempting, InTransaction
<1>10. FinishersSound'
  <2>. SUFFICES ASSUME NEW q \in Worker, Finishing(q)' PROVE FinisherSound(q)'
    BY DEF FinishersSound
  <2>3. \A s \in current' : ~Attempting(s)'
    BY <1>1, <1>2, <1>3 DEF Attempting
  <2>1. CASE q = p
    <3>1. /\ outbox'[q] = CommittedSideEffects(record) \cap OutgoingMessage
          /\ discard'[q] = AbortedSideEffects(record)
          /\ val'[q] = record /\ pc'[q] = "publish"
      BY <1>1, <1>2, <2>1
    <3>. QED
      BY <1>1, <2>1, <2>3, <3>1 DEF FinisherSound, RecordSound, Executed
  <2>2. CASE q # p
    <3>1. FinisherSound(q) /\ pc'[q] = pc[q] /\ val'[q] = val[q] /\ outbox'[q] = outbox[q]
          /\ discard'[q] = discard[q]
      BY <1>1, <1>2, <2>2 DEF FinishersSound, Finishing
    <3>. QED
      BY <1>1, <2>2, <2>3, <3>1 DEF FinisherSound, Executed, HasToken
  <2>. QED
    BY <2>1, <2>2
<1>11. DataSound'
  BY <1>1, <1>2, <1>3 DEF DataSound, HasToken, Executed
<1>12. AnswersSound'
  BY <1>1, <1>2, <1>3 DEF AnswersSound
<1>13. Answerable'
  BY <1>1, <1>2, <1>3 DEF Answerable
<1>14. PublishedOrHeld'
  BY <1>1, <1>2, <1>3 DEF PublishedOrHeld, InTransaction, CommittedSideEffects
<1>15. CommittedOnly'
  BY <1>1, <1>2, <1>3 DEF CommittedOnly
<1>16. RefusedOnlyAfterDelete'
  BY <1>1, <1>2, <1>3 DEF RefusedOnlyAfterDelete
<1>. QED
  BY <1>4, <1>5, <1>6, <1>7, <1>8, <1>9, <1>10, <1>11, <1>12, <1>13, <1>14, <1>15, <1>16 DEF IInv

(* There is no record yet.                                                 *)
LEMMA LoadMissingInv ==
  ASSUME TypeOK, IInv, NEW p \in Worker, LoadMissing(p)
  PROVE  IInv'
<1>. USE MachineAssumption DEF IInv
<1>1. /\ pc[p] = "load"
      /\ pc' = [pc EXCEPT ![p] = "create"]
      /\ UNCHANGED <<created, record, val, current, data, requests, responseId, responses, blobs,
                       dispatched, execution, emitted, client, answers, refused, deleted,
                       req, att, snapshot, resp, outbox, discard>>
  BY DEF TypeOK, LoadMissing, Goto, recordVars, storeVars,
     clientVars, workerVars
<1>2. /\ pc \in [Worker -> Stage]
      /\ current \subseteq Worker /\ deleted \subseteq Request
      /\ \A q \in Worker : pc[q] # "idle" => req[q] \in Request
  BY DEF TypeOK
<1>3. CurrentCopy'
  BY <1>1, <1>2 DEF CurrentCopy
<1>4. ClientSound'
  BY <1>1, <1>2 DEF ClientSound
<1>5. CallsSound'
  BY <1>1, <1>2 DEF CallsSound, Posting, Deleting, Stage
<1>6. AttemptsUnique'
  BY <1>1, <1>2 DEF AttemptsUnique, Executed
<1>7. RecordSound'
  BY <1>1, <1>2 DEF RecordSound, Executed, InTransaction, CommittedSideEffects,
     AbortedSideEffects
<1>8. AttemptsSound'
  BY <1>1, <1>2 DEF AttemptsSound, AttemptSound, Own, Attempting, InTransaction
<1>9. FinishersSound'
  BY <1>1, <1>2 DEF FinishersSound, FinisherSound, Finishing, Attempting, Executed,
       HasToken, InTransaction, CommittedSideEffects, AbortedSideEffects
<1>10. DataSound'
  BY <1>1, <1>2 DEF DataSound, HasToken, Executed
<1>11. AnswersSound'
  BY <1>1, <1>2 DEF AnswersSound
<1>12. Answerable'
  BY <1>1, <1>2 DEF Answerable
<1>13. PublishedOrHeld'
  BY <1>1, <1>2 DEF PublishedOrHeld, InTransaction, CommittedSideEffects
<1>14. CommittedOnly'
  BY <1>1, <1>2 DEF CommittedOnly
<1>15. RefusedOnlyAfterDelete'
  BY <1>1, <1>2 DEF RefusedOnlyAfterDelete
<1>. QED
  BY <1>3, <1>4, <1>5, <1>6, <1>7, <1>8, <1>9, <1>10, <1>11, <1>12, <1>13, <1>14, <1>15 DEF IInv

(* The record is created empty, as it was.                                 *)
LEMMA CreateRecordInv ==
  ASSUME TypeOK, IInv, NEW p \in Worker, CreateRecord(p)
  PROVE  IInv'
<1>. USE MachineAssumption DEF IInv
<1>1. /\ pc[p] = "create"
      /\ record = EmptyRecord
      /\ created' = TRUE
      /\ val' = [val EXCEPT ![p] = record]
      /\ current' = {p}
      /\ pc' = [pc EXCEPT ![p] = "check"]
      /\ UNCHANGED <<record, data, requests, responseId, responses, blobs, dispatched, execution,
                       emitted, client, answers, refused, deleted, req, att, snapshot, resp,
                       outbox, discard>>
  BY DEF TypeOK, CreateRecord, Create, CurrentCopy, IInv, Goto, recordVars, storeVars,
     clientVars, workerVars
<1>2. /\ val \in [Worker -> Record]
      /\ pc \in [Worker -> Stage]
      /\ current \subseteq Worker /\ deleted \subseteq Request
      /\ \A q \in Worker : pc[q] # "idle" => req[q] \in Request
  BY DEF TypeOK
<1>3. CurrentCopy'
  BY <1>1, <1>2 DEF CurrentCopy
<1>4. ClientSound'
  BY <1>1, <1>2 DEF ClientSound
<1>5. CallsSound'
  BY <1>1, <1>2 DEF CallsSound, Posting, Deleting, Stage
<1>6. AttemptsUnique'
  BY <1>1, <1>2 DEF AttemptsUnique, Executed
<1>7. RecordSound'
  BY <1>1, <1>2 DEF RecordSound, Executed, InTransaction, CommittedSideEffects,
     AbortedSideEffects
<1>8. AttemptsSound'
  BY <1>1, <1>2 DEF AttemptsSound, AttemptSound, Own, Attempting, InTransaction, EmptyRecord
<1>9. FinishersSound'
  BY <1>1, <1>2 DEF FinishersSound, FinisherSound, Finishing, Attempting, Executed,
       HasToken, InTransaction, CommittedSideEffects, AbortedSideEffects
<1>10. DataSound'
  BY <1>1, <1>2 DEF DataSound, HasToken, Executed
<1>11. AnswersSound'
  BY <1>1, <1>2 DEF AnswersSound
<1>12. Answerable'
  BY <1>1, <1>2 DEF Answerable
<1>13. PublishedOrHeld'
  BY <1>1, <1>2 DEF PublishedOrHeld, InTransaction, CommittedSideEffects
<1>14. CommittedOnly'
  BY <1>1, <1>2 DEF CommittedOnly
<1>15. RefusedOnlyAfterDelete'
  BY <1>1, <1>2 DEF RefusedOnlyAfterDelete
<1>. QED
  BY <1>3, <1>4, <1>5, <1>6, <1>7, <1>8, <1>9, <1>10, <1>11, <1>12, <1>13, <1>14, <1>15 DEF IInv

(* An attempt begins.                                                      *)
LEMMA CheckTokenInv ==
  ASSUME TypeOK, IInv, NEW p \in Worker, NEW a \in Attempt, att' = [att EXCEPT ![p] = a],
         Unused(a), CheckToken(p)
  PROVE  IInv'
<1>. USE MachineAssumption DEF IInv
<1>1. /\ pc[p] = "check"
      /\ req[p] \in Request
      /\ HasToken(req[p])
      /\ pc' = [pc EXCEPT ![p] = "read"]
      /\ UNCHANGED <<created, record, val, current, data, requests, responseId, responses, blobs,
                       dispatched, execution, emitted, client, answers, refused, deleted,
                       req, snapshot, resp, outbox, discard>>
  BY DEF TypeOK, CheckToken, Goto, recordVars, storeVars,
     clientVars, workerVars
<1>2. /\ att \in [Worker -> Guid]
      /\ pc \in [Worker -> Stage]
      /\ current \subseteq Worker /\ deleted \subseteq Request
      /\ \A q \in Worker : pc[q] # "idle" => req[q] \in Request
  BY DEF TypeOK
<1>3. /\ \A q \in Worker : att[q] # a /\ \A e \in val[q].sideEffects : e.attemptId # a
      /\ ~Executed(a) /\ a # None
  BY DEF Unused, Executed
<1>4. p \in current => execution[req[p]] = None
  BY <1>1 DEF CurrentCopy, AttemptsSound, AttemptSound, DataSound, InTransaction
<1>5. CurrentCopy'
  BY <1>1, <1>2, <1>3, <1>4 DEF CurrentCopy
<1>6. ClientSound'
  BY <1>1, <1>2, <1>3, <1>4 DEF ClientSound
<1>7. CallsSound'
  BY <1>1, <1>2, <1>3, <1>4 DEF CallsSound, Posting, Deleting, Stage
<1>8. AttemptsUnique'
  BY <1>1, <1>2, <1>3, <1>4 DEF AttemptsUnique, Executed
<1>9. RecordSound'
  BY <1>1, <1>2, <1>3, <1>4 DEF RecordSound, Executed, InTransaction, CommittedSideEffects,
     AbortedSideEffects
<1>10. AttemptsSound'
  BY <1>1, <1>2, <1>3, <1>4 DEF AttemptsSound, AttemptSound, Own, Attempting, InTransaction
<1>11. FinishersSound'
  BY <1>1, <1>2, <1>3, <1>4 DEF FinishersSound, FinisherSound, Finishing, Attempting, Executed,
       HasToken, InTransaction, CommittedSideEffects, AbortedSideEffects
<1>12. DataSound'
  BY <1>1, <1>2, <1>3, <1>4 DEF DataSound, HasToken, Executed
<1>13. AnswersSound'
  BY <1>1, <1>2, <1>3, <1>4 DEF AnswersSound
<1>14. Answerable'
  BY <1>1, <1>2, <1>3, <1>4 DEF Answerable
<1>15. PublishedOrHeld'
  BY <1>1, <1>2, <1>3, <1>4 DEF PublishedOrHeld, InTransaction, CommittedSideEffects
<1>16. CommittedOnly'
  BY <1>1, <1>2, <1>3, <1>4 DEF CommittedOnly
<1>17. RefusedOnlyAfterDelete'
  BY <1>1, <1>2, <1>3, <1>4 DEF RefusedOnlyAfterDelete
<1>. QED
  BY <1>5, <1>6, <1>7, <1>8, <1>9, <1>10, <1>11, <1>12, <1>13, <1>14, <1>15, <1>16, <1>17
     DEF IInv

(* A request without a token was executed, or deleted.                     *)
LEMMA DuplicateInv ==
  ASSUME TypeOK, IInv, NEW p \in Worker, Duplicate(p)
  PROVE  IInv'
<1>. USE MachineAssumption DEF IInv
<1>1. /\ pc[p] = "check"
      /\ req[p] \in Request
      /\ ~HasToken(req[p])
      /\ pc' = [pc EXCEPT ![p] = "lookup"]
      /\ UNCHANGED <<created, record, val, current, data, requests, responseId, responses, blobs,
                       dispatched, execution, emitted, client, answers, refused, deleted,
                       req, att, snapshot, resp, outbox, discard>>
  BY DEF TypeOK, Duplicate, Goto, recordVars, storeVars,
     clientVars, workerVars
<1>2. /\ pc \in [Worker -> Stage]
      /\ current \subseteq Worker /\ deleted \subseteq Request
      /\ \A q \in Worker : pc[q] # "idle" => req[q] \in Request
  BY DEF TypeOK
<1>3. CurrentCopy'
  BY <1>1, <1>2 DEF CurrentCopy
<1>4. ClientSound'
  BY <1>1, <1>2 DEF ClientSound
<1>5. CallsSound'
  BY <1>1, <1>2 DEF CallsSound, Posting, Deleting, Stage
<1>6. AttemptsUnique'
  BY <1>1, <1>2 DEF AttemptsUnique, Executed
<1>7. RecordSound'
  BY <1>1, <1>2 DEF RecordSound, Executed, InTransaction, CommittedSideEffects,
     AbortedSideEffects
<1>8. AttemptsSound'
  BY <1>1, <1>2 DEF AttemptsSound, AttemptSound, Own, Attempting, InTransaction
<1>9. FinishersSound'
  BY <1>1, <1>2 DEF FinishersSound, FinisherSound, Finishing, Attempting, Executed,
       HasToken, InTransaction, CommittedSideEffects, AbortedSideEffects
<1>10. DataSound'
  BY <1>1, <1>2 DEF DataSound, HasToken, Executed
<1>11. AnswersSound'
  BY <1>1, <1>2 DEF AnswersSound, ClientSound, CallsSound, Posting, HasToken
<1>12. Answerable'
  BY <1>1, <1>2 DEF Answerable
<1>13. PublishedOrHeld'
  BY <1>1, <1>2 DEF PublishedOrHeld, InTransaction, CommittedSideEffects
<1>14. CommittedOnly'
  BY <1>1, <1>2 DEF CommittedOnly
<1>15. RefusedOnlyAfterDelete'
  BY <1>1, <1>2 DEF RefusedOnlyAfterDelete
<1>. QED
  BY <1>3, <1>4, <1>5, <1>6, <1>7, <1>8, <1>9, <1>10, <1>11, <1>12, <1>13, <1>14, <1>15 DEF IInv

(* The attempt reads the business data.                                    *)
LEMMA ReadDataInv ==
  ASSUME TypeOK, IInv, NEW p \in Worker, ReadData(p)
  PROVE  IInv'
<1>. USE MachineAssumption DEF IInv
<1>1. /\ pc[p] = "read"
      /\ snapshot' = [snapshot EXCEPT ![p] = data]
      /\ pc' = [pc EXCEPT ![p] = "transaction"]
      /\ UNCHANGED <<created, record, val, current, data, requests, responseId, responses, blobs,
                       dispatched, execution, emitted, client, answers, refused, deleted,
                       req, att, resp, outbox, discard>>
  BY DEF TypeOK, ReadData, Goto, recordVars, storeVars,
     clientVars, workerVars
<1>2. /\ snapshot \in [Worker -> [Request -> Nat]]
      /\ pc \in [Worker -> Stage]
      /\ current \subseteq Worker /\ deleted \subseteq Request
      /\ \A q \in Worker : pc[q] # "idle" => req[q] \in Request
  BY DEF TypeOK
<1>3. CurrentCopy'
  BY <1>1, <1>2 DEF CurrentCopy
<1>4. ClientSound'
  BY <1>1, <1>2 DEF ClientSound
<1>5. CallsSound'
  BY <1>1, <1>2 DEF CallsSound, Posting, Deleting, Stage
<1>6. AttemptsUnique'
  BY <1>1, <1>2 DEF AttemptsUnique, Executed
<1>7. RecordSound'
  BY <1>1, <1>2 DEF RecordSound, Executed, InTransaction, CommittedSideEffects,
     AbortedSideEffects
<1>8. AttemptsSound'
  BY <1>1, <1>2 DEF AttemptsSound, AttemptSound, Own, Attempting, InTransaction
<1>9. FinishersSound'
  BY <1>1, <1>2 DEF FinishersSound, FinisherSound, Finishing, Attempting, Executed,
       HasToken, InTransaction, CommittedSideEffects, AbortedSideEffects
<1>10. DataSound'
  BY <1>1, <1>2 DEF DataSound, HasToken, Executed
<1>11. AnswersSound'
  BY <1>1, <1>2 DEF AnswersSound
<1>12. Answerable'
  BY <1>1, <1>2 DEF Answerable
<1>13. PublishedOrHeld'
  BY <1>1, <1>2 DEF PublishedOrHeld, InTransaction, CommittedSideEffects
<1>14. CommittedOnly'
  BY <1>1, <1>2 DEF CommittedOnly
<1>15. RefusedOnlyAfterDelete'
  BY <1>1, <1>2 DEF RefusedOnlyAfterDelete
<1>. QED
  BY <1>3, <1>4, <1>5, <1>6, <1>7, <1>8, <1>9, <1>10, <1>11, <1>12, <1>13, <1>14, <1>15 DEF IInv

(* The attempt registers a message.                                        *)
LEMMA SendInv ==
  ASSUME TypeOK, IInv, NEW p \in Worker, NEW s \in Slot, Send(p, s)
  PROVE  IInv'
<1>. USE MachineAssumption DEF IInv
<1>1. /\ pc[p] = "transaction"
      /\ p \in current
      /\ record' = [val[p] EXCEPT !.sideEffects = @ \cup {[attemptId |-> att[p], slot |-> s]}]
      /\ val' = [val EXCEPT ![p] = record']
      /\ current' = {p}
      /\ outbox' = [outbox EXCEPT ![p] = {[attemptId |-> att[p], slot |-> s]}]
      /\ pc' = [pc EXCEPT ![p] = "upload"]
      /\ UNCHANGED <<created, data, requests, responseId, responses, blobs, dispatched,
          execution,
                       emitted, client, answers, refused, deleted, req, att, snapshot, resp,
                       discard>>
  BY DEF TypeOK, Send, AddSideEffects, Replace, EtagMatches, Goto, recordVars, storeVars,
     clientVars, workerVars
<1>2. /\ val \in [Worker -> Record]
      /\ outbox \in [Worker -> SUBSET OutgoingMessage]
      /\ pc \in [Worker -> Stage]
      /\ current \subseteq Worker /\ deleted \subseteq Request
      /\ \A q \in Worker : pc[q] # "idle" => req[q] \in Request
  BY DEF TypeOK
<1>3. val[p] = record /\ ~InTransaction(record) /\ record.attemptId = None
  BY <1>1 DEF CurrentCopy, AttemptsSound, AttemptSound, RecordSound, Attempting
<1>4. att[p] \in Attempt /\ ~Executed(att[p])
  BY <1>1 DEF AttemptsUnique, Attempting, TypeOK, Guid
<1>5. /\ record'.messageId = None /\ record'.attemptId = None
      /\ record'.sideEffects = record.sideEffects \cup {[attemptId |-> att[p], slot |-> s]}
  BY <1>1, <1>3 DEF TypeOK, Record, InTransaction
<1>6. CurrentCopy'
  BY <1>1, <1>2, <1>3, <1>4, <1>5 DEF CurrentCopy
<1>7. ClientSound'
  BY <1>1, <1>2, <1>3, <1>4, <1>5 DEF ClientSound
<1>8. CallsSound'
  BY <1>1, <1>2, <1>3, <1>4, <1>5 DEF CallsSound, Posting, Deleting, Stage
<1>9. AttemptsUnique'
  BY <1>1, <1>2, <1>3, <1>4, <1>5 DEF AttemptsUnique, Executed
<1>10. RecordSound'
  BY <1>1, <1>2, <1>3, <1>4, <1>5 DEF RecordSound, Executed, InTransaction,
     CommittedSideEffects, AbortedSideEffects
<1>11. AttemptsSound'
  BY <1>1, <1>2, <1>3, <1>4, <1>5 DEF AttemptsSound, AttemptSound, Own, Attempting, InTransaction
<1>12. FinishersSound'
  BY <1>1, <1>2, <1>3, <1>4, <1>5 DEF FinishersSound, FinisherSound, Finishing, Attempting,
     Executed,
       HasToken, InTransaction, CommittedSideEffects, AbortedSideEffects
<1>13. DataSound'
  BY <1>1, <1>2, <1>3, <1>4, <1>5 DEF DataSound, HasToken, Executed
<1>14. AnswersSound'
  BY <1>1, <1>2, <1>3, <1>4, <1>5 DEF AnswersSound
<1>15. Answerable'
  BY <1>1, <1>2, <1>3, <1>4, <1>5 DEF Answerable
<1>16. PublishedOrHeld'
  BY <1>1, <1>2, <1>3, <1>4, <1>5 DEF PublishedOrHeld, InTransaction, CommittedSideEffects
<1>17. CommittedOnly'
  BY <1>1, <1>2, <1>3, <1>4, <1>5 DEF CommittedOnly
<1>18. RefusedOnlyAfterDelete'
  BY <1>1, <1>2, <1>3, <1>4, <1>5 DEF RefusedOnlyAfterDelete
<1>. QED
  BY <1>6, <1>7, <1>8, <1>9, <1>10, <1>11, <1>12, <1>13, <1>14, <1>15, <1>16, <1>17, <1>18
     DEF IInv

(* The attempt uploads the body of its message.                            *)
LEMMA UploadInv ==
  ASSUME TypeOK, IInv, NEW p \in Worker, Upload(p)
  PROVE  IInv'
<1>. USE MachineAssumption DEF IInv
<1>1. /\ pc[p] = "upload"
      /\ blobs' = blobs \cup outbox[p]
      /\ outbox' = [outbox EXCEPT ![p] = {}]
      /\ pc' = [pc EXCEPT ![p] = "transaction"]
      /\ UNCHANGED <<created, record, val, current, data, requests, responseId, responses,
                       dispatched, execution, emitted, client, answers, refused, deleted,
                       req, att, snapshot, resp, discard>>
  BY DEF TypeOK, Upload, Goto, recordVars, storeVars,
     clientVars, workerVars
<1>2. /\ outbox \in [Worker -> SUBSET OutgoingMessage]
      /\ pc \in [Worker -> Stage]
      /\ current \subseteq Worker /\ deleted \subseteq Request
      /\ \A q \in Worker : pc[q] # "idle" => req[q] \in Request
  BY DEF TypeOK
<1>3. CurrentCopy'
  BY <1>1, <1>2 DEF CurrentCopy
<1>4. ClientSound'
  BY <1>1, <1>2 DEF ClientSound
<1>5. CallsSound'
  BY <1>1, <1>2 DEF CallsSound, Posting, Deleting, Stage
<1>6. AttemptsUnique'
  BY <1>1, <1>2 DEF AttemptsUnique, Executed
<1>7. RecordSound'
  BY <1>1, <1>2 DEF RecordSound, Executed, InTransaction, CommittedSideEffects,
     AbortedSideEffects
<1>8. AttemptsSound'
  BY <1>1, <1>2 DEF AttemptsSound, AttemptSound, Own, Attempting, InTransaction
<1>9. FinishersSound'
  BY <1>1, <1>2 DEF FinishersSound, FinisherSound, Finishing, Attempting, Executed,
       HasToken, InTransaction, CommittedSideEffects, AbortedSideEffects
<1>10. DataSound'
  BY <1>1, <1>2 DEF DataSound, HasToken, Executed
<1>11. AnswersSound'
  BY <1>1, <1>2 DEF AnswersSound
<1>12. Answerable'
  BY <1>1, <1>2 DEF Answerable
<1>13. PublishedOrHeld'
  BY <1>1, <1>2 DEF PublishedOrHeld, InTransaction, CommittedSideEffects
<1>14. CommittedOnly'
  BY <1>1, <1>2 DEF CommittedOnly
<1>15. RefusedOnlyAfterDelete'
  BY <1>1, <1>2 DEF RefusedOnlyAfterDelete
<1>. QED
  BY <1>3, <1>4, <1>5, <1>6, <1>7, <1>8, <1>9, <1>10, <1>11, <1>12, <1>13, <1>14, <1>15 DEF IInv

(* The attempt registers its response.                                     *)
LEMMA RegisterResponseInv ==
  ASSUME TypeOK, IInv, NEW p \in Worker, RegisterResponse(p)
  PROVE  IInv'
<1>. USE MachineAssumption DEF IInv
<1>1. /\ pc[p] = "transaction"
      /\ p \in current
      /\ req[p] \in Request
      /\ record' = [val[p] EXCEPT !.sideEffects = @ \cup {[attemptId |-> att[p],
          incomingId |-> req[p]]}]
      /\ val' = [val EXCEPT ![p] = record']
      /\ current' = {p}
      /\ pc' = [pc EXCEPT ![p] = "store"]
      /\ UNCHANGED <<created, data, requests, responseId, responses, blobs, dispatched,
          execution,
                       emitted, client, answers, refused, deleted, req, att, snapshot, resp,
                       outbox, discard>>
  BY DEF TypeOK, RegisterResponse, AddSideEffects, Replace, EtagMatches, Goto, recordVars,
     storeVars,
     clientVars, workerVars
<1>2. /\ val \in [Worker -> Record]
      /\ pc \in [Worker -> Stage]
      /\ current \subseteq Worker /\ deleted \subseteq Request
      /\ \A q \in Worker : pc[q] # "idle" => req[q] \in Request
  BY DEF TypeOK
<1>3. val[p] = record /\ ~InTransaction(record) /\ record.attemptId = None
  BY <1>1 DEF CurrentCopy, AttemptsSound, AttemptSound, RecordSound, Attempting
<1>4. att[p] \in Attempt /\ ~Executed(att[p])
  BY <1>1 DEF AttemptsUnique, Attempting, TypeOK, Guid
<1>5. /\ record'.messageId = None /\ record'.attemptId = None
      /\ record'.sideEffects = record.sideEffects \cup {[attemptId |-> att[p],
          incomingId |-> req[p]]}
  BY <1>1, <1>3 DEF TypeOK, Record, InTransaction
<1>6. CurrentCopy'
  BY <1>1, <1>2, <1>3, <1>4, <1>5 DEF CurrentCopy
<1>7. ClientSound'
  BY <1>1, <1>2, <1>3, <1>4, <1>5 DEF ClientSound
<1>8. CallsSound'
  BY <1>1, <1>2, <1>3, <1>4, <1>5 DEF CallsSound, Posting, Deleting, Stage
<1>9. AttemptsUnique'
  BY <1>1, <1>2, <1>3, <1>4, <1>5 DEF AttemptsUnique, Executed
<1>10. RecordSound'
  BY <1>1, <1>2, <1>3, <1>4, <1>5 DEF RecordSound, Executed, InTransaction,
     CommittedSideEffects, AbortedSideEffects
<1>11. AttemptsSound'
  <2>. SUFFICES ASSUME NEW q \in Worker PROVE AttemptSound(q)'
    BY DEF AttemptsSound
  <2>1. CASE q = p
    <3>1. [attemptId |-> att[p], incomingId |-> req[p]] \notin OutgoingMessage
      BY ResponseIsNoMessage
    <3>2. Own(p)' = Own(p)
      BY <1>1, <1>2, <1>3, <1>5, <3>1 DEF Own
    <3>. QED
      BY <1>1, <1>2, <1>3, <1>4, <1>5, <2>1, <3>2 DEF AttemptsSound, AttemptSound, Attempting,
         InTransaction
  <2>2. CASE q # p
    BY <1>1, <1>2, <2>2 DEF AttemptsSound, AttemptSound, Own, Attempting, InTransaction
  <2>. QED
    BY <2>1, <2>2
<1>12. FinishersSound'
  BY <1>1, <1>2, <1>3, <1>4, <1>5 DEF FinishersSound, FinisherSound, Finishing, Attempting,
     Executed,
       HasToken, InTransaction, CommittedSideEffects, AbortedSideEffects
<1>13. DataSound'
  BY <1>1, <1>2, <1>3, <1>4, <1>5 DEF DataSound, HasToken, Executed
<1>14. AnswersSound'
  BY <1>1, <1>2, <1>3, <1>4, <1>5 DEF AnswersSound
<1>15. Answerable'
  BY <1>1, <1>2, <1>3, <1>4, <1>5 DEF Answerable
<1>16. PublishedOrHeld'
  BY <1>1, <1>2, <1>3, <1>4, <1>5 DEF PublishedOrHeld, InTransaction, CommittedSideEffects
<1>17. CommittedOnly'
  BY <1>1, <1>2, <1>3, <1>4, <1>5 DEF CommittedOnly
<1>18. RefusedOnlyAfterDelete'
  BY <1>1, <1>2, <1>3, <1>4, <1>5 DEF RefusedOnlyAfterDelete
<1>. QED
  BY <1>6, <1>7, <1>8, <1>9, <1>10, <1>11, <1>12, <1>13, <1>14, <1>15, <1>16, <1>17, <1>18
     DEF IInv

(* The attempt stores its response.                                        *)
LEMMA StoreResponseInv ==
  ASSUME TypeOK, IInv, NEW p \in Worker, StoreResponse(p)
  PROVE  IInv'
<1>. USE MachineAssumption DEF IInv
<1>1. /\ pc[p] = "store"
      /\ responses' = responses \cup {att[p]}
      /\ pc' = [pc EXCEPT ![p] = "commit"]
      /\ UNCHANGED <<created, record, val, current, data, requests, responseId, blobs,
          dispatched,
                       execution, emitted, client, answers, refused, deleted, req, att,
                       snapshot, resp, outbox, discard>>
  BY DEF TypeOK, StoreResponse, Goto, recordVars, storeVars,
     clientVars, workerVars
<1>2. /\ pc \in [Worker -> Stage]
      /\ current \subseteq Worker /\ deleted \subseteq Request
      /\ \A q \in Worker : pc[q] # "idle" => req[q] \in Request
  BY DEF TypeOK
<1>3. CurrentCopy'
  BY <1>1, <1>2 DEF CurrentCopy
<1>4. ClientSound'
  BY <1>1, <1>2 DEF ClientSound
<1>5. CallsSound'
  BY <1>1, <1>2 DEF CallsSound, Posting, Deleting, Stage
<1>6. AttemptsUnique'
  BY <1>1, <1>2 DEF AttemptsUnique, Executed
<1>7. RecordSound'
  BY <1>1, <1>2 DEF RecordSound, Executed, InTransaction, CommittedSideEffects,
     AbortedSideEffects
<1>8. AttemptsSound'
  BY <1>1, <1>2 DEF AttemptsSound, AttemptSound, Own, Attempting, InTransaction
<1>9. FinishersSound'
  BY <1>1, <1>2 DEF FinishersSound, FinisherSound, Finishing, Attempting, Executed,
       HasToken, InTransaction, CommittedSideEffects, AbortedSideEffects
<1>10. DataSound'
  BY <1>1, <1>2 DEF DataSound, HasToken, Executed
<1>11. AnswersSound'
  BY <1>1, <1>2 DEF AnswersSound
<1>12. Answerable'
  BY <1>1, <1>2 DEF Answerable
<1>13. PublishedOrHeld'
  BY <1>1, <1>2 DEF PublishedOrHeld, InTransaction, CommittedSideEffects
<1>14. CommittedOnly'
  BY <1>1, <1>2 DEF CommittedOnly
<1>15. RefusedOnlyAfterDelete'
  BY <1>1, <1>2 DEF RefusedOnlyAfterDelete
<1>. QED
  BY <1>3, <1>4, <1>5, <1>6, <1>7, <1>8, <1>9, <1>10, <1>11, <1>12, <1>13, <1>14, <1>15 DEF IInv

(* The attempt commits: its request was not executed, and no other attempt *)
(* can commit on what it read.                                             *)
LEMMA CommitInv ==
  ASSUME TypeOK, IInv, NEW p \in Worker, Commit(p)
  PROVE  IInv'
<1>. USE MachineAssumption DEF IInv
<1>1. /\ pc[p] = "commit"
      /\ p \in current
      /\ req[p] \in Request
      /\ record' = [val[p] EXCEPT !.messageId = req[p], !.attemptId = att[p]]
      /\ val' = [val EXCEPT ![p] = record']
      /\ current' = {p}
      /\ data' = [snapshot[p] EXCEPT ![req[p]] = @ + 1]
      /\ execution' = [execution EXCEPT ![req[p]] = att[p]]
      /\ emitted' = emitted \cup Own(p)
      /\ resp' = [resp EXCEPT ![p] = att[p]]
      /\ att' = [att EXCEPT ![p] = None]
      /\ snapshot' = [snapshot EXCEPT ![p] = NoData]
      /\ pc' = [pc EXCEPT ![p] = "publish"]
      /\ outbox' = [outbox EXCEPT ![p] = CommittedSideEffects(record') \cap OutgoingMessage]
      /\ discard' = [discard EXCEPT ![p] = AbortedSideEffects(record')]
      /\ UNCHANGED <<created, requests, responseId, responses, blobs, dispatched, client,
          answers,
                       refused, deleted, req>>
  BY DEF TypeOK, Commit, CommitStateTransition, Replace, EtagMatches, BeginFinish, Apply, Goto,
     recordVars, storeVars,
     clientVars, workerVars
<1>2. /\ val \in [Worker -> Record]
      /\ data \in [Request -> Nat]
      /\ execution \in [Request -> Guid]
      /\ resp \in [Worker -> Guid]
      /\ att \in [Worker -> Guid]
      /\ snapshot \in [Worker -> [Request -> Nat]]
      /\ pc \in [Worker -> Stage]
      /\ outbox \in [Worker -> SUBSET OutgoingMessage]
      /\ discard \in [Worker -> SUBSET (OutgoingMessage \cup HttpResponse)]
      /\ current \subseteq Worker /\ deleted \subseteq Request
      /\ \A q \in Worker : pc[q] # "idle" => req[q] \in Request
  BY DEF TypeOK
<1>3. val[p] = record /\ ~InTransaction(record) /\ record.attemptId = None
  BY <1>1 DEF CurrentCopy, AttemptsSound, AttemptSound, RecordSound, Attempting
<1>4. att[p] \in Attempt /\ ~Executed(att[p]) /\ att[p] # None
  BY <1>1 DEF AttemptsUnique, Attempting, TypeOK, Guid
<1>5. /\ execution[req[p]] = None /\ snapshot[p] = data
      /\ att[p] \in responses /\ Own(p) \subseteq blobs
  BY <1>1 DEF AttemptsSound, AttemptSound, Attempting
<1>6. client[req[p]] = "posted" /\ req[p] \notin deleted
  <2>1. client[req[p]] \in {"posted", "answered"}
    BY <1>1 DEF CallsSound, Posting
  <2>2. answers[req[p]] = {}
    BY <1>1, <1>5 DEF AnswersSound
  <2>. QED
    BY <1>1, <2>1, <2>2 DEF ClientSound
<1>7. /\ record'.messageId = req[p] /\ record'.attemptId = att[p]
      /\ record'.sideEffects = record.sideEffects /\ val'[p] = record'
  BY <1>1, <1>2, <1>3 DEF TypeOK, Record
<1>8. /\ CommittedSideEffects(record') \cap OutgoingMessage = Own(p)
      /\ \A e \in AbortedSideEffects(record') : e.attemptId # att[p] /\ ~Executed(e.attemptId)
  <2>1. \A e \in record.sideEffects : e.attemptId \in Attempt
    BY SideEffectsType DEF TypeOK
  <2>2. \A e \in record.sideEffects : ~Executed(e.attemptId)
    BY <1>3, <2>1 DEF RecordSound, AbortedSideEffects
  <2>. QED
    BY <1>3, <1>7, <2>2 DEF CommittedSideEffects, AbortedSideEffects, Own
<1>9. \A x : Executed(x)' => Executed(x) \/ x = att[p]
  BY <1>1, <1>2 DEF Executed
<1>10. \A r \in Request : execution'[r] = IF r = req[p] THEN att[p] ELSE execution[r]
  BY <1>1, <1>2
<1>11. CurrentCopy'
  BY <1>1, <1>2, <1>7 DEF CurrentCopy
<1>12. ClientSound'
  BY <1>1, <1>2, <1>6, <1>10 DEF ClientSound
<1>13. CallsSound'
  BY <1>1, <1>2 DEF CallsSound, Posting, Deleting, Stage
<1>14. AttemptsUnique'
  BY <1>1, <1>2, <1>9 DEF AttemptsUnique
<1>15. RecordSound'
  BY <1>1, <1>2, <1>4, <1>7, <1>8, <1>9, <1>10 DEF RecordSound, InTransaction
<1>16. AttemptsSound'
  BY <1>1, <1>2 DEF AttemptsSound, AttemptSound, Own, Attempting, InTransaction
<1>17. FinishersSound'
  <2>. SUFFICES ASSUME NEW q \in Worker, Finishing(q)' PROVE FinisherSound(q)'
    BY DEF FinishersSound
  <2>1. \A s \in current' : ~Attempting(s)'
    BY <1>1, <1>2 DEF Attempting
  <2>2. CASE q = p
    <3>1. /\ outbox'[q] = CommittedSideEffects(record') \cap OutgoingMessage
          /\ discard'[q] = AbortedSideEffects(record')
          /\ val'[q] = record' /\ pc'[q] = "publish"
          /\ Own(p) \subseteq emitted'
      BY <1>1, <1>2, <1>7, <2>2
    <3>2. InTransaction(val'[q]) /\ execution'[val'[q].messageId] = val'[q].attemptId
          /\ val'[q].attemptId # None
      <4>1. val'[q].messageId = req[p] /\ val'[q].attemptId = att[p]
        BY <1>7, <3>1
      <4>2. req[p] \in Request /\ req[p] # None
        BY <1>1
      <4>. QED
        BY <1>4, <1>10, <4>1, <4>2 DEF InTransaction
    <3>3. /\ CommittedSideEffects(val'[q]) \cap OutgoingMessage \subseteq emitted'
          /\ outbox'[q] \subseteq CommittedSideEffects(val'[q])
          /\ (CommittedSideEffects(val'[q]) \cap OutgoingMessage) \ outbox'[q] = {}
      BY <1>8, <3>1
    <3>4. /\ discard'[q] \subseteq AbortedSideEffects(val'[q])
          /\ \A e \in discard'[q] : ~Executed(e.attemptId)'
      BY <1>8, <1>9, <3>1
    <3>. QED
      BY <2>1, <3>1, <3>2, <3>3, <3>4 DEF FinisherSound, InTransaction
  <2>3. CASE q # p
    <3>1. FinisherSound(q) /\ pc'[q] = pc[q] /\ val'[q] = val[q] /\ outbox'[q] = outbox[q]
          /\ discard'[q] = discard[q]
      BY <1>1, <1>2, <2>3 DEF FinishersSound, Finishing
    <3>2. val[q].messageId \in Request
      <4>1. val[q] \in Record
        BY DEF TypeOK
      <4>. QED
        BY <3>1, <4>1 DEF FinisherSound, InTransaction, Record
    <3>3. val[q].messageId # req[p]
      BY <1>5, <3>1, <3>2 DEF FinisherSound
    <3>4. \A s \in discard[q] : s.attemptId # att[p]
      BY <1>1, <3>1 DEF FinisherSound, Attempting
    <3>. QED
      BY <1>1, <1>9, <1>10, <2>1, <2>3, <3>1, <3>2, <3>3, <3>4 DEF FinisherSound, InTransaction,
         CommittedSideEffects, AbortedSideEffects
  <2>. QED
    BY <2>2, <2>3
<1>18. DataSound'
  <2>1. \A r \in Request : data'[r] = IF execution'[r] = None THEN 0 ELSE 1
    <3>1. data \in [Request -> Nat] /\ data' = [data EXCEPT ![req[p]] = @ + 1]
      BY <1>1, <1>5 DEF TypeOK
    <3>2. data[req[p]] = 0 /\ \A r \in Request : data[r] = IF execution[r] = None THEN 0 ELSE 1
      BY <1>1, <1>5 DEF DataSound
    <3>. QED
      BY <1>1, <1>4, <1>10, <3>1, <3>2
  <2>2. \A r \in Request : responseId'[r] \in {None, execution'[r]}
    BY <1>1, <1>5, <1>10 DEF DataSound
  <2>3. \A r \in Request : execution'[r] # None /\ HasToken(r)' => record'.messageId = r
    BY <1>1, <1>3, <1>7, <1>10 DEF DataSound, HasToken, InTransaction
  <2>4. \A r, s \in Request : execution'[r] # None /\ execution'[r] = execution'[s] => r = s
    BY <1>1, <1>4, <1>10 DEF DataSound, Executed
  <2>5. \A e \in emitted' : Executed(e.attemptId)'
    <3>1. \A e \in Own(p) : e.attemptId = att[p]
      BY DEF Own
    <3>2. \A x : x = att[p] => Executed(x)'
      BY <1>1, <1>10 DEF Executed
    <3>3. \A x : Executed(x) /\ x # None => Executed(x)'
      BY <1>1, <1>5, <1>10 DEF Executed
    <3>4. \A e \in emitted : Executed(e.attemptId) /\ e.attemptId # None
      BY DEF DataSound, TypeOK, OutgoingMessage
    <3>5. emitted' = emitted \cup Own(p)
      BY <1>1
    <3>. QED
      BY <3>1, <3>2, <3>3, <3>4, <3>5
  <2>. QED
    BY <2>1, <2>2, <2>3, <2>4, <2>5 DEF DataSound
<1>19. AnswersSound'
  <2>1. \A r \in Request : answers'[r] \subseteq {execution'[r]} \ {None}
    BY <1>1, <1>5, <1>10 DEF AnswersSound
  <2>2. \A q \in Worker : pc'[q] \in {"idle", "body", "load"} => resp'[q] = None
    BY <1>1, <1>2 DEF AnswersSound
  <2>3. \A q \in Worker :
           pc'[q] \in {"publish", "clear", "get", "answer", "delete response"} =>
               resp'[q] \in {None, execution'[req'[q]]}
    <3>. SUFFICES ASSUME NEW q \in Worker,
                         pc'[q] \in {"publish", "clear", "get", "answer", "delete response"}
                  PROVE  resp'[q] \in {None, execution'[req[q]]}
      BY <1>1
    <3>1. CASE q = p
      BY <1>1, <1>2, <1>10, <3>1
    <3>2. CASE q # p
      <4>1. pc'[q] = pc[q] /\ resp'[q] = resp[q] /\ req[q] \in Request
        BY <1>1, <1>2, <3>2
      <4>2. resp[q] \in {None, execution[req[q]]}
        BY <4>1 DEF AnswersSound
      <4>. QED
        BY <1>5, <1>10, <4>1, <4>2
    <3>. QED
      BY <3>1, <3>2
  <2>4. \A q \in Worker :
           pc'[q] = "lookup" => req'[q] \in deleted' \/ responseId'[req'[q]] # None
    BY <1>1, <1>2 DEF AnswersSound
  <2>. QED
    BY <2>1, <2>2, <2>3, <2>4 DEF AnswersSound
<1>20. Answerable'
  <2>1. req[p] \in requests
    BY <1>1, <1>6 DEF ClientSound
  <2>. QED
    BY <1>1, <1>3, <1>5, <1>7, <1>10, <2>1 DEF Answerable, InTransaction
<1>21. PublishedOrHeld'
  <2>1. \A m \in emitted : m \in dispatched
    BY <1>3 DEF PublishedOrHeld
  <2>. QED
    BY <1>1, <1>7, <1>8, <2>1 DEF PublishedOrHeld, InTransaction
<1>22. CommittedOnly'
  BY <1>1, <1>2, <1>5 DEF CommittedOnly
<1>23. RefusedOnlyAfterDelete'
  BY <1>1 DEF RefusedOnlyAfterDelete
<1>. QED
  BY <1>11, <1>12, <1>13, <1>14, <1>15, <1>16, <1>17, <1>18, <1>19, <1>20, <1>21, <1>22,
     <1>23 DEF IInv

(* A duplicate finds the response of the execution.                        *)
LEMMA LookUpInv ==
  ASSUME TypeOK, IInv, NEW p \in Worker, LookUp(p)
  PROVE  IInv'
<1>. USE MachineAssumption DEF IInv
<1>1. /\ pc[p] = "lookup"
      /\ req[p] \in Request
      /\ responseId[req[p]] # None
      /\ resp' = [resp EXCEPT ![p] = responseId[req[p]]]
      /\ pc' = [pc EXCEPT ![p] = "get"]
      /\ UNCHANGED <<created, record, val, current, data, requests, responseId, responses, blobs,
                       dispatched, execution, emitted, client, answers, refused, deleted,
                       req, att, snapshot, outbox, discard>>
  BY DEF TypeOK, LookUp, Goto, recordVars, storeVars,
     clientVars, workerVars
<1>2. /\ resp \in [Worker -> Guid]
      /\ pc \in [Worker -> Stage]
      /\ current \subseteq Worker /\ deleted \subseteq Request
      /\ \A q \in Worker : pc[q] # "idle" => req[q] \in Request
  BY DEF TypeOK
<1>3. CurrentCopy'
  BY <1>1, <1>2 DEF CurrentCopy
<1>4. ClientSound'
  BY <1>1, <1>2 DEF ClientSound
<1>5. CallsSound'
  BY <1>1, <1>2 DEF CallsSound, Posting, Deleting, Stage
<1>6. AttemptsUnique'
  BY <1>1, <1>2 DEF AttemptsUnique, Executed
<1>7. RecordSound'
  BY <1>1, <1>2 DEF RecordSound, Executed, InTransaction, CommittedSideEffects,
     AbortedSideEffects
<1>8. AttemptsSound'
  BY <1>1, <1>2 DEF AttemptsSound, AttemptSound, Own, Attempting, InTransaction
<1>9. FinishersSound'
  BY <1>1, <1>2 DEF FinishersSound, FinisherSound, Finishing, Attempting, Executed,
       HasToken, InTransaction, CommittedSideEffects, AbortedSideEffects
<1>10. DataSound'
  BY <1>1, <1>2 DEF DataSound, HasToken, Executed
<1>11. AnswersSound'
  BY <1>1, <1>2 DEF AnswersSound, DataSound
<1>12. Answerable'
  BY <1>1, <1>2 DEF Answerable
<1>13. PublishedOrHeld'
  BY <1>1, <1>2 DEF PublishedOrHeld, InTransaction, CommittedSideEffects
<1>14. CommittedOnly'
  BY <1>1, <1>2 DEF CommittedOnly
<1>15. RefusedOnlyAfterDelete'
  BY <1>1, <1>2 DEF RefusedOnlyAfterDelete
<1>. QED
  BY <1>3, <1>4, <1>5, <1>6, <1>7, <1>8, <1>9, <1>10, <1>11, <1>12, <1>13, <1>14, <1>15 DEF IInv

(* The response is there.                                                  *)
LEMMA GetResponseInv ==
  ASSUME TypeOK, IInv, NEW p \in Worker, GetResponse(p)
  PROVE  IInv'
<1>. USE MachineAssumption DEF IInv
<1>1. /\ pc[p] = "get"
      /\ pc' = [pc EXCEPT ![p] = "answer"]
      /\ UNCHANGED <<created, record, val, current, data, requests, responseId, responses, blobs,
                       dispatched, execution, emitted, client, answers, refused, deleted,
                       req, att, snapshot, resp, outbox, discard>>
  BY DEF TypeOK, GetResponse, Goto, recordVars, storeVars,
     clientVars, workerVars
<1>2. /\ pc \in [Worker -> Stage]
      /\ current \subseteq Worker /\ deleted \subseteq Request
      /\ \A q \in Worker : pc[q] # "idle" => req[q] \in Request
  BY DEF TypeOK
<1>3. CurrentCopy'
  BY <1>1, <1>2 DEF CurrentCopy
<1>4. ClientSound'
  BY <1>1, <1>2 DEF ClientSound
<1>5. CallsSound'
  BY <1>1, <1>2 DEF CallsSound, Posting, Deleting, Stage
<1>6. AttemptsUnique'
  BY <1>1, <1>2 DEF AttemptsUnique, Executed
<1>7. RecordSound'
  BY <1>1, <1>2 DEF RecordSound, Executed, InTransaction, CommittedSideEffects,
     AbortedSideEffects
<1>8. AttemptsSound'
  BY <1>1, <1>2 DEF AttemptsSound, AttemptSound, Own, Attempting, InTransaction
<1>9. FinishersSound'
  BY <1>1, <1>2 DEF FinishersSound, FinisherSound, Finishing, Attempting, Executed,
       HasToken, InTransaction, CommittedSideEffects, AbortedSideEffects
<1>10. DataSound'
  BY <1>1, <1>2 DEF DataSound, HasToken, Executed
<1>11. AnswersSound'
  BY <1>1, <1>2 DEF AnswersSound
<1>12. Answerable'
  BY <1>1, <1>2 DEF Answerable
<1>13. PublishedOrHeld'
  BY <1>1, <1>2 DEF PublishedOrHeld, InTransaction, CommittedSideEffects
<1>14. CommittedOnly'
  BY <1>1, <1>2 DEF CommittedOnly
<1>15. RefusedOnlyAfterDelete'
  BY <1>1, <1>2 DEF RefusedOnlyAfterDelete
<1>. QED
  BY <1>3, <1>4, <1>5, <1>6, <1>7, <1>8, <1>9, <1>10, <1>11, <1>12, <1>13, <1>14, <1>15 DEF IInv

(* The caller receives the response of the execution.                      *)
LEMMA AnswerInv ==
  ASSUME TypeOK, IInv, NEW p \in Worker, Answer(p)
  PROVE  IInv'
<1>. USE MachineAssumption DEF IInv
<1>1. /\ pc[p] = "answer"
      /\ req[p] \in Request
      /\ resp[p] # None
      /\ answers' = [answers EXCEPT ![req[p]] = @ \cup {resp[p]}]
      /\ client' = [client EXCEPT ![req[p]] = "answered"]
      /\ val' = [val EXCEPT ![p] = EmptyRecord]
      /\ current' = current \ {p}
      /\ pc' = [pc EXCEPT ![p] = "idle"]
      /\ req' = [req EXCEPT ![p] = None]
      /\ att' = [att EXCEPT ![p] = None]
      /\ snapshot' = [snapshot EXCEPT ![p] = NoData]
      /\ resp' = [resp EXCEPT ![p] = None]
      /\ outbox' = [outbox EXCEPT ![p] = {}]
      /\ discard' = [discard EXCEPT ![p] = {}]
      /\ UNCHANGED <<created, record, data, requests, responseId, responses, blobs, dispatched,
                       execution, emitted, refused, deleted>>
  BY DEF TypeOK, Answer, Reset, Forget, Goto, recordVars, storeVars,
     clientVars, workerVars
<1>2. /\ answers \in [Request -> SUBSET Attempt]
      /\ client \in [Request -> {"new", "put", "stored", "posted", "answered", "aborted"}]
      /\ val \in [Worker -> Record]
      /\ pc \in [Worker -> Stage]
      /\ req \in [Worker -> Request \cup {None}]
      /\ att \in [Worker -> Guid]
      /\ snapshot \in [Worker -> [Request -> Nat]]
      /\ resp \in [Worker -> Guid]
      /\ outbox \in [Worker -> SUBSET OutgoingMessage]
      /\ discard \in [Worker -> SUBSET (OutgoingMessage \cup HttpResponse)]
      /\ current \subseteq Worker /\ deleted \subseteq Request
      /\ \A q \in Worker : pc[q] # "idle" => req[q] \in Request
  BY DEF TypeOK
<1>3. client[req[p]] \in {"posted", "answered"}
  BY <1>1 DEF CallsSound, Posting
<1>4. CurrentCopy'
  BY <1>1, <1>2, <1>3 DEF CurrentCopy
<1>5. ClientSound'
  BY <1>1, <1>2, <1>3 DEF ClientSound
<1>6. CallsSound'
  <2>. SUFFICES ASSUME NEW q \in Worker
                PROVE  /\ pc'[q] = "create request" => client'[req'[q]] \in {"put", "aborted"}
                       /\ \A s \in Worker : pc'[q] = "create request" /\ pc'[s] = "create request"
                                           /\ req'[q] = req'[s] => q = s
                       /\ Posting(q)' => client'[req'[q]] \in {"posted", "answered"}
                       /\ Deleting(q)' => req'[q] \in deleted'
    BY DEF CallsSound
  <2>1. CASE q = p
    BY <1>1, <1>2, <2>1 DEF Posting, Deleting
  <2>2. CASE q # p
    <3>1. pc'[q] = pc[q] /\ req'[q] = req[q]
      BY <1>1, <1>2, <2>2
    <3>. QED
      BY <1>1, <1>2, <1>3, <2>2, <3>1 DEF CallsSound, Posting, Deleting
  <2>. QED
    BY <2>1, <2>2
<1>7. AttemptsUnique'
  BY <1>1, <1>2, <1>3 DEF AttemptsUnique, Executed
<1>8. RecordSound'
  BY <1>1, <1>2, <1>3 DEF RecordSound, Executed, InTransaction, CommittedSideEffects,
     AbortedSideEffects
<1>9. AttemptsSound'
  BY <1>1, <1>2, <1>3 DEF AttemptsSound, AttemptSound, Own, Attempting, InTransaction
<1>10. FinishersSound'
  BY <1>1, <1>2, <1>3 DEF FinishersSound, FinisherSound, Finishing, Attempting, Executed,
       HasToken, InTransaction, CommittedSideEffects, AbortedSideEffects
<1>11. DataSound'
  BY <1>1, <1>2, <1>3 DEF DataSound, HasToken, Executed
<1>12. AnswersSound'
  BY <1>1, <1>2, <1>3 DEF AnswersSound
<1>13. Answerable'
  BY <1>1, <1>2, <1>3 DEF Answerable
<1>14. PublishedOrHeld'
  BY <1>1, <1>2, <1>3 DEF PublishedOrHeld, InTransaction, CommittedSideEffects
<1>15. CommittedOnly'
  BY <1>1, <1>2, <1>3 DEF CommittedOnly
<1>16. RefusedOnlyAfterDelete'
  BY <1>1, <1>2, <1>3 DEF RefusedOnlyAfterDelete
<1>. QED
  BY <1>4, <1>5, <1>6, <1>7, <1>8, <1>9, <1>10, <1>11, <1>12, <1>13, <1>14, <1>15, <1>16 DEF IInv

(* A committed message is handed to the transport.                         *)
LEMMA DispatchInv ==
  ASSUME TypeOK, IInv, NEW p \in Worker, NEW m \in OutgoingMessage, Dispatch(p, m)
  PROVE  IInv'
<1>. USE MachineAssumption DEF IInv
<1>1. /\ pc[p] = "publish"
      /\ m \in outbox[p]
      /\ dispatched' = dispatched \cup {m}
      /\ outbox' = [outbox EXCEPT ![p] = @ \ {m}]
      /\ UNCHANGED <<created, record, val, current, data, requests, responseId, responses, blobs,
                       execution, emitted, client, answers, refused, deleted, pc, req, att,
                       snapshot, resp, discard>>
  BY DEF TypeOK, Dispatch, Goto, recordVars, storeVars,
     clientVars, workerVars
<1>2. /\ outbox \in [Worker -> SUBSET OutgoingMessage]
      /\ current \subseteq Worker /\ deleted \subseteq Request
      /\ \A q \in Worker : pc[q] # "idle" => req[q] \in Request
  BY DEF TypeOK
<1>3. FinisherSound(p) /\ m \in emitted
  BY <1>1 DEF FinishersSound, FinisherSound, Finishing, CommittedSideEffects
<1>4. CurrentCopy'
  BY <1>1, <1>2, <1>3 DEF CurrentCopy
<1>5. ClientSound'
  BY <1>1, <1>2, <1>3 DEF ClientSound
<1>6. CallsSound'
  BY <1>1, <1>2, <1>3 DEF CallsSound, Posting, Deleting, Stage
<1>7. AttemptsUnique'
  BY <1>1, <1>2, <1>3 DEF AttemptsUnique, Executed
<1>8. RecordSound'
  BY <1>1, <1>2, <1>3 DEF RecordSound, Executed, InTransaction, CommittedSideEffects,
     AbortedSideEffects
<1>9. AttemptsSound'
  BY <1>1, <1>2, <1>3 DEF AttemptsSound, AttemptSound, Own, Attempting, InTransaction
<1>10. FinishersSound'
  BY <1>1, <1>2, <1>3 DEF FinishersSound, FinisherSound, Finishing, Attempting, Executed,
       HasToken, InTransaction, CommittedSideEffects, AbortedSideEffects
<1>11. DataSound'
  BY <1>1, <1>2, <1>3 DEF DataSound, HasToken, Executed
<1>12. AnswersSound'
  BY <1>1, <1>2, <1>3 DEF AnswersSound
<1>13. Answerable'
  BY <1>1, <1>2, <1>3 DEF Answerable
<1>14. PublishedOrHeld'
  BY <1>1, <1>2, <1>3 DEF PublishedOrHeld, InTransaction, CommittedSideEffects
<1>15. CommittedOnly'
  BY <1>1, <1>2, <1>3 DEF CommittedOnly
<1>16. RefusedOnlyAfterDelete'
  BY <1>1, <1>2, <1>3 DEF RefusedOnlyAfterDelete
<1>. QED
  BY <1>4, <1>5, <1>6, <1>7, <1>8, <1>9, <1>10, <1>11, <1>12, <1>13, <1>14, <1>15, <1>16 DEF IInv

(* The body of an aborted message is deleted.                              *)
LEMMA EnsureDeletedInv ==
  ASSUME TypeOK, IInv, NEW p \in Worker, NEW m \in OutgoingMessage, EnsureDeleted(p, m)
  PROVE  IInv'
<1>. USE MachineAssumption DEF IInv
<1>1. /\ pc[p] = "publish"
      /\ m \in discard[p]
      /\ blobs' = blobs \ {m}
      /\ discard' = [discard EXCEPT ![p] = @ \ {m}]
      /\ UNCHANGED <<created, record, val, current, data, requests, responseId, responses,
                       dispatched, execution, emitted, client, answers, refused, deleted,
                       pc, req, att, snapshot, resp, outbox>>
  BY DEF TypeOK, EnsureDeleted, Goto, recordVars, storeVars,
     clientVars, workerVars
<1>2. /\ discard \in [Worker -> SUBSET (OutgoingMessage \cup HttpResponse)]
      /\ current \subseteq Worker /\ deleted \subseteq Request
      /\ \A q \in Worker : pc[q] # "idle" => req[q] \in Request
  BY DEF TypeOK
<1>3. /\ ~Executed(m.attemptId)
      /\ \A q \in current : Attempting(q) => m.attemptId # att[q]
  BY <1>1 DEF FinishersSound, FinisherSound, Finishing
<1>4. CurrentCopy'
  BY <1>1, <1>2, <1>3 DEF CurrentCopy
<1>5. ClientSound'
  BY <1>1, <1>2, <1>3 DEF ClientSound
<1>6. CallsSound'
  BY <1>1, <1>2, <1>3 DEF CallsSound, Posting, Deleting, Stage
<1>7. AttemptsUnique'
  BY <1>1, <1>2, <1>3 DEF AttemptsUnique, Executed
<1>8. RecordSound'
  BY <1>1, <1>2, <1>3 DEF RecordSound, Executed, InTransaction, CommittedSideEffects,
     AbortedSideEffects
<1>9. AttemptsSound'
  BY <1>1, <1>2, <1>3 DEF AttemptsSound, AttemptSound, Own, Attempting, InTransaction
<1>10. FinishersSound'
  BY <1>1, <1>2, <1>3 DEF FinishersSound, FinisherSound, Finishing, Attempting, Executed,
       HasToken, InTransaction, CommittedSideEffects, AbortedSideEffects
<1>11. DataSound'
  BY <1>1, <1>2, <1>3 DEF DataSound, HasToken, Executed
<1>12. AnswersSound'
  BY <1>1, <1>2, <1>3 DEF AnswersSound
<1>13. Answerable'
  BY <1>1, <1>2, <1>3 DEF Answerable
<1>14. PublishedOrHeld'
  BY <1>1, <1>2, <1>3 DEF PublishedOrHeld, InTransaction, CommittedSideEffects
<1>15. CommittedOnly'
  BY <1>1, <1>2, <1>3 DEF CommittedOnly, DataSound
<1>16. RefusedOnlyAfterDelete'
  BY <1>1, <1>2, <1>3 DEF RefusedOnlyAfterDelete
<1>. QED
  BY <1>4, <1>5, <1>6, <1>7, <1>8, <1>9, <1>10, <1>11, <1>12, <1>13, <1>14, <1>15, <1>16 DEF IInv

(* The response of an aborted attempt is deleted.                          *)
LEMMA DeleteAbortedInv ==
  ASSUME TypeOK, IInv, NEW p \in Worker, NEW e \in HttpResponse, DeleteAborted(p, e)
  PROVE  IInv'
<1>. USE MachineAssumption DEF IInv
<1>1. /\ pc[p] = "publish"
      /\ e \in discard[p]
      /\ responses' = responses \ {e.attemptId}
      /\ discard' = [discard EXCEPT ![p] = @ \ {e}]
      /\ UNCHANGED <<created, record, val, current, data, requests, responseId, blobs,
          dispatched,
                       execution, emitted, client, answers, refused, deleted, pc, req, att,
                       snapshot, resp, outbox>>
  BY DEF TypeOK, DeleteAborted, Goto, recordVars, storeVars,
     clientVars, workerVars
<1>2. /\ discard \in [Worker -> SUBSET (OutgoingMessage \cup HttpResponse)]
      /\ current \subseteq Worker /\ deleted \subseteq Request
      /\ \A q \in Worker : pc[q] # "idle" => req[q] \in Request
  BY DEF TypeOK
<1>3. /\ ~Executed(e.attemptId)
      /\ \A q \in current : Attempting(q) => e.attemptId # att[q]
  BY <1>1 DEF FinishersSound, FinisherSound, Finishing
<1>4. CurrentCopy'
  BY <1>1, <1>2, <1>3 DEF CurrentCopy
<1>5. ClientSound'
  BY <1>1, <1>2, <1>3 DEF ClientSound
<1>6. CallsSound'
  BY <1>1, <1>2, <1>3 DEF CallsSound, Posting, Deleting, Stage
<1>7. AttemptsUnique'
  BY <1>1, <1>2, <1>3 DEF AttemptsUnique, Executed
<1>8. RecordSound'
  BY <1>1, <1>2, <1>3 DEF RecordSound, Executed, InTransaction, CommittedSideEffects,
     AbortedSideEffects
<1>9. AttemptsSound'
  BY <1>1, <1>2, <1>3 DEF AttemptsSound, AttemptSound, Own, Attempting, InTransaction
<1>10. FinishersSound'
  BY <1>1, <1>2, <1>3 DEF FinishersSound, FinisherSound, Finishing, Attempting, Executed,
       HasToken, InTransaction, CommittedSideEffects, AbortedSideEffects
<1>11. DataSound'
  BY <1>1, <1>2, <1>3 DEF DataSound, HasToken, Executed
<1>12. AnswersSound'
  BY <1>1, <1>2, <1>3 DEF AnswersSound
<1>13. Answerable'
  BY <1>1, <1>2, <1>3 DEF Answerable, Executed
<1>14. PublishedOrHeld'
  BY <1>1, <1>2, <1>3 DEF PublishedOrHeld, InTransaction, CommittedSideEffects
<1>15. CommittedOnly'
  BY <1>1, <1>2, <1>3 DEF CommittedOnly
<1>16. RefusedOnlyAfterDelete'
  BY <1>1, <1>2, <1>3 DEF RefusedOnlyAfterDelete
<1>. QED
  BY <1>4, <1>5, <1>6, <1>7, <1>8, <1>9, <1>10, <1>11, <1>12, <1>13, <1>14, <1>15, <1>16 DEF IInv

(* The blob of the executed request gets its response.                     *)
LEMMA AssociateInv ==
  ASSUME TypeOK, IInv, NEW p \in Worker, NEW e \in CommittedResponse(p),
         responseId' = [responseId EXCEPT ![val[p].messageId] = e.attemptId], Associate(p)
  PROVE  IInv'
<1>. USE MachineAssumption DEF IInv
<1>1. /\ pc[p] = "publish"
      /\ outbox[p] = {}
      /\ val[p].messageId \in requests
      /\ e.attemptId = val[p].attemptId
      /\ pc' = [pc EXCEPT ![p] = "clear"]
      /\ UNCHANGED <<created, record, val, current, data, requests, responses, blobs, dispatched,
                       execution, emitted, client, answers, refused, deleted, req, att,
                       snapshot, resp, outbox, discard>>
  BY DEF TypeOK, Associate, Cleaned, Dispatched, Associable, CommittedResponse,
     CommittedSideEffects, Goto, recordVars, storeVars,
     clientVars, workerVars
<1>2. /\ responseId \in [Request -> Guid]
      /\ pc \in [Worker -> Stage]
      /\ current \subseteq Worker /\ deleted \subseteq Request
      /\ \A q \in Worker : pc[q] # "idle" => req[q] \in Request
  BY DEF TypeOK
<1>3. FinisherSound(p) /\ val[p].messageId \in Request
  BY <1>1 DEF FinishersSound, Finishing, TypeOK
<1>4. CurrentCopy'
  BY <1>1, <1>2, <1>3 DEF CurrentCopy
<1>5. ClientSound'
  BY <1>1, <1>2, <1>3 DEF ClientSound
<1>6. CallsSound'
  BY <1>1, <1>2, <1>3 DEF CallsSound, Posting, Deleting, Stage
<1>7. AttemptsUnique'
  BY <1>1, <1>2, <1>3 DEF AttemptsUnique, Executed
<1>8. RecordSound'
  BY <1>1, <1>2, <1>3 DEF RecordSound, Executed, InTransaction, CommittedSideEffects,
     AbortedSideEffects
<1>9. AttemptsSound'
  BY <1>1, <1>2, <1>3 DEF AttemptsSound, AttemptSound, Own, Attempting, InTransaction
<1>10. FinishersSound'
  BY <1>1, <1>2, <1>3 DEF FinishersSound, FinisherSound, Finishing, Attempting, Executed,
       HasToken, InTransaction, CommittedSideEffects, AbortedSideEffects
<1>11. DataSound'
  BY <1>1, <1>2, <1>3 DEF DataSound, HasToken, Executed, FinisherSound
<1>12. AnswersSound'
  BY <1>1, <1>2, <1>3 DEF AnswersSound, FinisherSound
<1>13. Answerable'
  BY <1>1, <1>2, <1>3 DEF Answerable, FinisherSound, DataSound
<1>14. PublishedOrHeld'
  BY <1>1, <1>2, <1>3 DEF PublishedOrHeld, InTransaction, CommittedSideEffects
<1>15. CommittedOnly'
  BY <1>1, <1>2, <1>3 DEF CommittedOnly
<1>16. RefusedOnlyAfterDelete'
  BY <1>1, <1>2, <1>3 DEF RefusedOnlyAfterDelete
<1>. QED
  BY <1>4, <1>5, <1>6, <1>7, <1>8, <1>9, <1>10, <1>11, <1>12, <1>13, <1>14, <1>15, <1>16 DEF IInv

(* The record lets go of a transaction that is published and associated.   *)
LEMMA ClearInv ==
  ASSUME TypeOK, IInv, NEW p \in Worker, Clear(p)
  PROVE  IInv'
<1>. USE MachineAssumption DEF IInv
<1>1. /\ pc[p] = "clear"
      /\ p \in current
      /\ req[p] \in Request
      /\ record' = EmptyRecord
      /\ val' = [val EXCEPT ![p] = EmptyRecord]
      /\ current' = {p}
      /\ pc' = [pc EXCEPT ![p] = IF val[p].messageId # req[p] THEN "check"
                                ELSE IF resp[p] = None THEN "lookup" ELSE "answer"]
      /\ UNCHANGED <<created, data, requests, responseId, responses, blobs, dispatched,
          execution,
                       emitted, client, answers, refused, deleted, req, att, snapshot, resp,
                       outbox, discard>>
  BY DEF TypeOK, Clear, ClearTransactionState, Replace, EtagMatches, Goto, recordVars, storeVars,
     clientVars, workerVars
<1>2. /\ val \in [Worker -> Record]
      /\ pc \in [Worker -> Stage]
      /\ current \subseteq Worker /\ deleted \subseteq Request
      /\ \A q \in Worker : pc[q] # "idle" => req[q] \in Request
  BY DEF TypeOK
<1>3. /\ val[p] = record /\ FinisherSound(p) /\ outbox[p] = {} /\ ~HasToken(record.messageId)
  BY <1>1 DEF CurrentCopy, FinishersSound, FinisherSound, Finishing, AttemptsSound, AttemptSound
<1>4. record'.messageId = None /\ record'.attemptId = None /\ record'.sideEffects = {}
  BY <1>1 DEF EmptyRecord
<1>5. CurrentCopy'
  BY <1>1, <1>2, <1>3, <1>4 DEF CurrentCopy
<1>6. ClientSound'
  BY <1>1, <1>2, <1>3, <1>4 DEF ClientSound
<1>7. CallsSound'
  BY <1>1, <1>2, <1>3, <1>4 DEF CallsSound, Posting, Deleting, Stage
<1>8. AttemptsUnique'
  BY <1>1, <1>2, <1>3, <1>4 DEF AttemptsUnique, Executed
<1>9. RecordSound'
  BY <1>1, <1>2, <1>3, <1>4 DEF RecordSound, Executed, InTransaction, CommittedSideEffects,
     AbortedSideEffects
<1>10. AttemptsSound'
  BY <1>1, <1>2, <1>3, <1>4 DEF AttemptsSound, AttemptSound, Own, Attempting, InTransaction
<1>11. FinishersSound'
  BY <1>1, <1>2, <1>3, <1>4 DEF FinishersSound, FinisherSound, Finishing, Attempting, Executed,
       HasToken, InTransaction, CommittedSideEffects, AbortedSideEffects
<1>12. DataSound'
  BY <1>1, <1>2, <1>3, <1>4 DEF DataSound, HasToken, Executed
<1>13. AnswersSound'
  <2>1. pc'[p] \in {"check", "lookup", "answer"} /\ resp'[p] = resp[p] /\ req'[p] = req[p]
    BY <1>1, <1>2
  <2>2. client[req[p]] \in {"posted", "answered"}
    BY <1>1 DEF CallsSound, Posting
  <2>3. pc'[p] = "lookup" => req[p] \in deleted \/ responseId[req[p]] # None
    BY <1>1, <1>2, <1>3, <2>2 DEF ClientSound, HasToken
  <2>4. resp[p] \in {None, execution[req[p]]}
    BY <1>1 DEF AnswersSound
  <2>5. \A q \in Worker : q # p => pc'[q] = pc[q]
    BY <1>1, <1>2
  <2>. QED
    BY <1>1, <2>1, <2>3, <2>4, <2>5 DEF AnswersSound
<1>14. Answerable'
  BY <1>1, <1>2, <1>3, <1>4 DEF Answerable, HasToken, DataSound
<1>15. PublishedOrHeld'
  <2>1. emitted \subseteq OutgoingMessage
    BY DEF TypeOK
  <2>2. \A m \in CommittedSideEffects(record) \cap OutgoingMessage : m \in dispatched
    BY <1>3 DEF FinisherSound
  <2>. QED
    BY <1>1, <2>1, <2>2 DEF PublishedOrHeld
<1>16. CommittedOnly'
  BY <1>1, <1>2, <1>3, <1>4 DEF CommittedOnly
<1>17. RefusedOnlyAfterDelete'
  BY <1>1, <1>2, <1>3, <1>4 DEF RefusedOnlyAfterDelete
<1>. QED
  BY <1>5, <1>6, <1>7, <1>8, <1>9, <1>10, <1>11, <1>12, <1>13, <1>14, <1>15, <1>16, <1>17
     DEF IInv

(* A DELETE reads which response to delete.                                *)
LEMMA GetResponseIdInv ==
  ASSUME TypeOK, IInv, NEW p \in Worker, GetResponseId(p)
  PROVE  IInv'
<1>. USE MachineAssumption DEF IInv
<1>1. /\ pc[p] = "response id"
      /\ req[p] \in Request
      /\ resp' = [resp EXCEPT ![p] = responseId[req[p]]]
      /\ pc' = [pc EXCEPT ![p] = IF responseId[req[p]] = None THEN "delete request"
                                ELSE "delete response"]
      /\ UNCHANGED <<created, record, val, current, data, requests, responseId, responses, blobs,
                       dispatched, execution, emitted, client, answers, refused, deleted,
                       req, att, snapshot, outbox, discard>>
  BY DEF TypeOK, GetResponseId, Goto, recordVars, storeVars,
     clientVars, workerVars
<1>2. /\ resp \in [Worker -> Guid]
      /\ pc \in [Worker -> Stage]
      /\ current \subseteq Worker /\ deleted \subseteq Request
      /\ \A q \in Worker : pc[q] # "idle" => req[q] \in Request
  BY DEF TypeOK
<1>3. CurrentCopy'
  BY <1>1, <1>2 DEF CurrentCopy
<1>4. ClientSound'
  BY <1>1, <1>2 DEF ClientSound
<1>5. CallsSound'
  BY <1>1, <1>2 DEF CallsSound, Posting, Deleting, Stage
<1>6. AttemptsUnique'
  BY <1>1, <1>2 DEF AttemptsUnique, Executed
<1>7. RecordSound'
  BY <1>1, <1>2 DEF RecordSound, Executed, InTransaction, CommittedSideEffects,
     AbortedSideEffects
<1>8. AttemptsSound'
  BY <1>1, <1>2 DEF AttemptsSound, AttemptSound, Own, Attempting, InTransaction
<1>9. FinishersSound'
  <2>. SUFFICES ASSUME NEW q \in Worker, Finishing(q)' PROVE FinisherSound(q)'
    BY DEF FinishersSound
  <2>1. q # p /\ pc'[q] = pc[q]
    BY <1>1, <1>2 DEF Finishing
  <2>2. FinisherSound(q)
    BY <2>1 DEF FinishersSound, Finishing
  <2>3. \A s \in current' : Attempting(s)' => s \in current /\ Attempting(s)
    BY <1>1, <1>2 DEF Attempting
  <2>. QED
    BY <1>1, <1>2, <2>1, <2>2, <2>3 DEF FinisherSound, Executed, HasToken,
       InTransaction, CommittedSideEffects, AbortedSideEffects
<1>10. DataSound'
  BY <1>1, <1>2 DEF DataSound, HasToken, Executed
<1>11. AnswersSound'
  BY <1>1, <1>2 DEF AnswersSound, DataSound
<1>12. Answerable'
  BY <1>1, <1>2 DEF Answerable
<1>13. PublishedOrHeld'
  BY <1>1, <1>2 DEF PublishedOrHeld, InTransaction, CommittedSideEffects
<1>14. CommittedOnly'
  BY <1>1, <1>2 DEF CommittedOnly
<1>15. RefusedOnlyAfterDelete'
  BY <1>1, <1>2 DEF RefusedOnlyAfterDelete
<1>. QED
  BY <1>3, <1>4, <1>5, <1>6, <1>7, <1>8, <1>9, <1>10, <1>11, <1>12, <1>13, <1>14, <1>15 DEF IInv

(* A DELETE deletes the response of its request.                           *)
LEMMA DeleteStoredResponseInv ==
  ASSUME TypeOK, IInv, NEW p \in Worker, DeleteStoredResponse(p)
  PROVE  IInv'
<1>. USE MachineAssumption DEF IInv
<1>1. /\ pc[p] = "delete response"
      /\ req[p] \in Request
      /\ responses' = responses \ {resp[p]}
      /\ pc' = [pc EXCEPT ![p] = "delete request"]
      /\ UNCHANGED <<created, record, val, current, data, requests, responseId, blobs,
          dispatched,
                       execution, emitted, client, answers, refused, deleted, req, att,
                       snapshot, resp, outbox, discard>>
  BY DEF TypeOK, DeleteStoredResponse, Goto, recordVars, storeVars,
     clientVars, workerVars
<1>2. /\ pc \in [Worker -> Stage]
      /\ current \subseteq Worker /\ deleted \subseteq Request
      /\ \A q \in Worker : pc[q] # "idle" => req[q] \in Request
  BY DEF TypeOK
<1>3. resp[p] = execution[req[p]] /\ req[p] \in deleted /\ resp[p] # None
  BY <1>1 DEF AnswersSound, CallsSound, Deleting, TypeOK
<1>4. CurrentCopy'
  BY <1>1, <1>2, <1>3 DEF CurrentCopy
<1>5. ClientSound'
  BY <1>1, <1>2, <1>3 DEF ClientSound
<1>6. CallsSound'
  BY <1>1, <1>2, <1>3 DEF CallsSound, Posting, Deleting, Stage
<1>7. AttemptsUnique'
  BY <1>1, <1>2, <1>3 DEF AttemptsUnique, Executed
<1>8. RecordSound'
  BY <1>1, <1>2, <1>3 DEF RecordSound, Executed, InTransaction, CommittedSideEffects,
     AbortedSideEffects
<1>9. AttemptsSound'
  <2>1. \A q \in Worker : att[q] # resp[p]
    BY <1>1, <1>3 DEF AttemptsUnique, Executed
  <2>. QED
    BY <1>1, <1>2, <2>1 DEF AttemptsSound, AttemptSound, Own, Attempting, InTransaction
<1>10. FinishersSound'
  <2>. SUFFICES ASSUME NEW q \in Worker, Finishing(q)' PROVE FinisherSound(q)'
    BY DEF FinishersSound
  <2>1. q # p /\ pc'[q] = pc[q]
    BY <1>1, <1>2 DEF Finishing
  <2>2. FinisherSound(q)
    BY <2>1 DEF FinishersSound, Finishing
  <2>3. \A s \in current' : Attempting(s)' => s \in current /\ Attempting(s)
    BY <1>1, <1>2 DEF Attempting
  <2>. QED
    BY <1>1, <1>2, <1>3, <2>1, <2>2, <2>3 DEF FinisherSound, Executed, HasToken,
       InTransaction, CommittedSideEffects, AbortedSideEffects
<1>11. DataSound'
  BY <1>1, <1>2, <1>3 DEF DataSound, HasToken, Executed
<1>12. AnswersSound'
  BY <1>1, <1>2, <1>3 DEF AnswersSound
<1>13. Answerable'
  BY <1>1, <1>2, <1>3 DEF Answerable, DataSound
<1>14. PublishedOrHeld'
  BY <1>1, <1>2, <1>3 DEF PublishedOrHeld, InTransaction, CommittedSideEffects
<1>15. CommittedOnly'
  BY <1>1, <1>2, <1>3 DEF CommittedOnly
<1>16. RefusedOnlyAfterDelete'
  BY <1>1, <1>2, <1>3 DEF RefusedOnlyAfterDelete
<1>. QED
  BY <1>4, <1>5, <1>6, <1>7, <1>8, <1>9, <1>10, <1>11, <1>12, <1>13, <1>14, <1>15, <1>16 DEF IInv

(* A DELETE deletes its request.                                           *)
LEMMA DeleteRequestInv ==
  ASSUME TypeOK, IInv, NEW p \in Worker, DeleteRequest(p)
  PROVE  IInv'
<1>. USE MachineAssumption DEF IInv
<1>1. /\ pc[p] = "delete request"
      /\ req[p] \in Request
      /\ requests' = requests \ {req[p]}
      /\ responseId' = [responseId EXCEPT ![req[p]] = None]
      /\ val' = [val EXCEPT ![p] = EmptyRecord]
      /\ current' = current \ {p}
      /\ pc' = [pc EXCEPT ![p] = "idle"]
      /\ req' = [req EXCEPT ![p] = None]
      /\ att' = [att EXCEPT ![p] = None]
      /\ snapshot' = [snapshot EXCEPT ![p] = NoData]
      /\ resp' = [resp EXCEPT ![p] = None]
      /\ outbox' = [outbox EXCEPT ![p] = {}]
      /\ discard' = [discard EXCEPT ![p] = {}]
      /\ UNCHANGED <<created, record, data, responses, blobs, dispatched, execution, emitted,
          client,
                       answers, refused, deleted>>
  BY DEF TypeOK, DeleteRequest, Reset, Forget, Goto, recordVars, storeVars,
     clientVars, workerVars
<1>2. /\ responseId \in [Request -> Guid]
      /\ val \in [Worker -> Record]
      /\ pc \in [Worker -> Stage]
      /\ req \in [Worker -> Request \cup {None}]
      /\ att \in [Worker -> Guid]
      /\ snapshot \in [Worker -> [Request -> Nat]]
      /\ resp \in [Worker -> Guid]
      /\ outbox \in [Worker -> SUBSET OutgoingMessage]
      /\ discard \in [Worker -> SUBSET (OutgoingMessage \cup HttpResponse)]
      /\ current \subseteq Worker /\ deleted \subseteq Request
      /\ \A q \in Worker : pc[q] # "idle" => req[q] \in Request
  BY DEF TypeOK
<1>3. req[p] \in deleted
  BY <1>1 DEF CallsSound, Deleting
<1>4. CurrentCopy'
  BY <1>1, <1>2, <1>3 DEF CurrentCopy
<1>5. ClientSound'
  BY <1>1, <1>2, <1>3 DEF ClientSound
<1>6. CallsSound'
  BY <1>1, <1>2, <1>3 DEF CallsSound, Posting, Deleting, Stage
<1>7. AttemptsUnique'
  BY <1>1, <1>2, <1>3 DEF AttemptsUnique, Executed
<1>8. RecordSound'
  BY <1>1, <1>2, <1>3 DEF RecordSound, Executed, InTransaction, CommittedSideEffects,
     AbortedSideEffects
<1>9. AttemptsSound'
  BY <1>1, <1>2, <1>3 DEF AttemptsSound, AttemptSound, Own, Attempting, InTransaction
<1>10. FinishersSound'
  <2>. SUFFICES ASSUME NEW q \in Worker, Finishing(q)' PROVE FinisherSound(q)'
    BY DEF FinishersSound
  <2>1. q # p /\ pc'[q] = pc[q]
    BY <1>1, <1>2 DEF Finishing
  <2>2. FinisherSound(q)
    BY <2>1 DEF FinishersSound, Finishing
  <2>3. \A s \in current' : Attempting(s)' => s \in current /\ Attempting(s)
    BY <1>1, <1>2 DEF Attempting
  <2>4. requests \subseteq Request
    BY DEF TypeOK
  <2>5. \A r \in requests : HasToken(r)' => HasToken(r)
    BY <1>1, <1>2, <2>4 DEF HasToken
  <2>6. HasToken(val[q].messageId)' => HasToken(val[q].messageId)
    <3>1. val'[q] = val[q] /\ requests' \subseteq requests
      BY <1>1, <1>2, <2>1
    <3>. QED
      BY <2>5, <3>1 DEF HasToken
  <2>. QED
    BY <1>1, <1>2, <2>1, <2>2, <2>3, <2>6 DEF FinisherSound, Executed,
       InTransaction, CommittedSideEffects, AbortedSideEffects
<1>11. DataSound'
  BY <1>1, <1>2, <1>3 DEF DataSound, HasToken, Executed
<1>12. AnswersSound'
  BY <1>1, <1>2, <1>3 DEF AnswersSound
<1>13. Answerable'
  BY <1>1, <1>2, <1>3 DEF Answerable
<1>14. PublishedOrHeld'
  BY <1>1, <1>2, <1>3 DEF PublishedOrHeld, InTransaction, CommittedSideEffects
<1>15. CommittedOnly'
  BY <1>1, <1>2, <1>3 DEF CommittedOnly
<1>16. RefusedOnlyAfterDelete'
  BY <1>1, <1>2, <1>3 DEF RefusedOnlyAfterDelete
<1>. QED
  BY <1>4, <1>5, <1>6, <1>7, <1>8, <1>9, <1>10, <1>11, <1>12, <1>13, <1>14, <1>15, <1>16 DEF IInv

(* Nothing changes.                                                        *)
LEMMA StutterInv ==
  ASSUME TypeOK, IInv, UNCHANGED vars
  PROVE  IInv'
<1>. USE MachineAssumption DEF IInv
<1>1. /\ UNCHANGED <<created, record, val, current, data, requests, responseId, responses, blobs,
                       dispatched, execution, emitted, client, answers, refused, deleted,
                       pc, req, att, snapshot, resp, outbox, discard>>
  BY DEF TypeOK, vars, Goto, recordVars, storeVars,
     clientVars, workerVars
<1>2. /\ current \subseteq Worker /\ deleted \subseteq Request
      /\ \A q \in Worker : pc[q] # "idle" => req[q] \in Request
  BY DEF TypeOK
<1>3. CurrentCopy'
  BY <1>1, <1>2 DEF CurrentCopy
<1>4. ClientSound'
  BY <1>1, <1>2 DEF ClientSound
<1>5. CallsSound'
  BY <1>1, <1>2 DEF CallsSound, Posting, Deleting, Stage
<1>6. AttemptsUnique'
  BY <1>1, <1>2 DEF AttemptsUnique, Executed
<1>7. RecordSound'
  BY <1>1, <1>2 DEF RecordSound, Executed, InTransaction, CommittedSideEffects,
     AbortedSideEffects
<1>8. AttemptsSound'
  BY <1>1, <1>2 DEF AttemptsSound, AttemptSound, Own, Attempting, InTransaction
<1>9. FinishersSound'
  BY <1>1, <1>2 DEF FinishersSound, FinisherSound, Finishing, Attempting, Executed,
       HasToken, InTransaction, CommittedSideEffects, AbortedSideEffects
<1>10. DataSound'
  BY <1>1, <1>2 DEF DataSound, HasToken, Executed
<1>11. AnswersSound'
  BY <1>1, <1>2 DEF AnswersSound
<1>12. Answerable'
  BY <1>1, <1>2 DEF Answerable
<1>13. PublishedOrHeld'
  BY <1>1, <1>2 DEF PublishedOrHeld, InTransaction, CommittedSideEffects
<1>14. CommittedOnly'
  BY <1>1, <1>2 DEF CommittedOnly
<1>15. RefusedOnlyAfterDelete'
  BY <1>1, <1>2 DEF RefusedOnlyAfterDelete
<1>. QED
  BY <1>3, <1>4, <1>5, <1>6, <1>7, <1>8, <1>9, <1>10, <1>11, <1>12, <1>13, <1>14, <1>15 DEF IInv

LEMMA StepInv == TypeOK /\ IInv /\ [Next]_vars => IInv'
<1>. SUFFICES ASSUME TypeOK, IInv, [Next]_vars PROVE IInv'
  OBVIOUS
<1>1. ASSUME NEW p \in Worker, NEW r \in Request, Caller(p, r) PROVE IInv'
  BY <1>1, PutInv, PostInv, DeleteInv DEF Caller
<1>2. ASSUME NEW p \in Worker,
             \/ Crash(p) \/ CreateConflict(p) \/ WriteConflict(p) \/ AssociateFails(p)
             \/ ClearConflict(p)
      PROVE  IInv'
  BY <1>2, FailInv DEF Crash, CreateConflict, WriteConflict, AssociateFails, ClearConflict
<1>3. ASSUME NEW p \in Worker, NoBody(p) \/ NoResponseId(p) \/ NoResponse(p) PROVE IInv'
  BY <1>3, RefusedDeleted, RefuseInv
<1>4. ASSUME NEW p \in Worker, CheckToken(p) PROVE IInv'
  <2>1. PICK a \in Attempt : Unused(a) /\ att' = [att EXCEPT ![p] = a]
    BY <1>4 DEF CheckToken
  <2>. QED
    BY <1>4, <2>1, CheckTokenInv
<1>5. ASSUME NEW p \in Worker, Associate(p) PROVE IInv'
  <2>1. PICK e \in CommittedResponse(p) :
            responseId' = [responseId EXCEPT ![val[p].messageId] = e.attemptId]
    BY <1>5 DEF Associate
  <2>. QED
    BY <1>5, <2>1, AssociateInv
<1>6. ASSUME NEW p \in Worker, CreateRequest(p) \/ DeleteResponse(p) PROVE IInv'
  BY <1>6, CreateRequestInv, GetResponseIdInv, DeleteStoredResponseInv, DeleteRequestInv
  DEF DeleteResponse
<1>7. ASSUME NEW p \in Worker,
             \/ GetBody(p) \/ LoadFree(p) \/ LoadUnfinished(p) \/ LoadMissing(p)
             \/ CreateRecord(p) \/ Duplicate(p) \/ ReadData(p)
             \/ (\E s \in Slot : Send(p, s)) \/ Upload(p) \/ RegisterResponse(p)
             \/ StoreResponse(p) \/ Commit(p) \/ LookUp(p) \/ GetResponse(p) \/ Answer(p)
      PROVE  IInv'
  BY <1>7, GetBodyInv, LoadFreeInv, LoadUnfinishedInv, LoadMissingInv, CreateRecordInv,
     DuplicateInv, ReadDataInv, SendInv, UploadInv, RegisterResponseInv, StoreResponseInv,
     CommitInv, LookUpInv, GetResponseInv, AnswerInv
<1>8. ASSUME NEW p \in Worker,
             \/ \E m \in OutgoingMessage : Dispatch(p, m) \/ EnsureDeleted(p, m)
             \/ \E e \in HttpResponse : DeleteAborted(p, e)
             \/ Clear(p)
      PROVE  IInv'
  BY <1>8, DispatchInv, EnsureDeletedInv, DeleteAbortedInv, ClearInv
<1>9. CASE UNCHANGED vars
  BY <1>9, StutterInv
<1>. QED
  BY <1>1, <1>2, <1>3, <1>4, <1>5, <1>6, <1>7, <1>8, <1>9
  DEF Next, Handler, ExecuteTransaction, FinishProcessing

(* The inductive invariant holds in every reachable state.                 *)
THEOREM Invariant == Spec => []IInv
<1>. QED
  BY TypeCorrect, InitInv, StepInv, PTL DEF Spec

(* A request changes the business data at most once.                       *)
THEOREM AppliedOnce == Spec => []AppliedAtMostOnce
<1>1. IInv => AppliedAtMostOnce
  BY DEF IInv, DataSound, AppliedAtMostOnce
<1>. QED
  BY Invariant, <1>1, PTL

(* An executed request can be answered until the caller deletes it.        *)
THEOREM AnswerKept == Spec => []Answerable
<1>1. IInv => Answerable
  BY DEF IInv
<1>. QED
  BY Invariant, <1>1, PTL

(* What an executed request sends is published, or the record holds it.    *)
THEOREM NothingForgotten == Spec => []PublishedOrHeld
<1>1. IInv => PublishedOrHeld
  BY DEF IInv
<1>. QED
  BY Invariant, <1>1, PTL

(* Nothing of an attempt that was rolled back is ever published, and no    *)
(* body of a committed message is cleaned up.                              *)
THEOREM OnlyCommitted == Spec => []CommittedOnly
<1>1. IInv => CommittedOnly
  BY DEF IInv
<1>. QED
  BY Invariant, <1>1, PTL

(* No POST is refused that the caller may still expect an answer to.       *)
THEOREM NeverRefusedEarly == Spec => []RefusedOnlyAfterDelete
<1>1. IInv => RefusedOnlyAfterDelete
  BY DEF IInv
<1>. QED
  BY Invariant, <1>1, PTL

-----------------------------------------------------------------------------
(* What a commit does to the business data and the executions.             *)
LEMMA CommitEffect ==
  ASSUME TypeOK, IInv, NEW p \in Worker, Commit(p)
  PROVE  /\ req[p] \in Request \ deleted /\ att[p] \in Attempt
         /\ execution[req[p]] = None
         /\ \A r \in Request : execution[r] # att[p]
         /\ data' = [data EXCEPT ![req[p]] = @ + 1]
         /\ execution' = [execution EXCEPT ![req[p]] = att[p]]
         /\ UNCHANGED <<answers, deleted, refused>>
<1>. USE DEF IInv
<1>1. /\ pc[p] = "commit" /\ p \in current /\ req[p] \in Request
      /\ data' = [snapshot[p] EXCEPT ![req[p]] = @ + 1]
      /\ execution' = [execution EXCEPT ![req[p]] = att[p]]
      /\ UNCHANGED <<answers, deleted, refused>>
  BY DEF Commit, CommitStateTransition, Replace, EtagMatches, Apply, clientVars, TypeOK
<1>2. att[p] \in Attempt /\ \A r \in Request : execution[r] # att[p]
  BY <1>1 DEF AttemptsUnique, Executed, Attempting, TypeOK, Guid
<1>3. execution[req[p]] = None /\ snapshot[p] = data
  BY <1>1 DEF AttemptsSound, AttemptSound, Attempting
<1>4. client[req[p]] \in {"posted", "answered"}
  BY <1>1 DEF CallsSound, Posting
<1>5. answers[req[p]] = {}
  BY <1>1, <1>3 DEF AnswersSound
<1>6. req[p] \notin deleted
  BY <1>1, <1>4, <1>5 DEF ClientSound
<1>. QED
  BY <1>1, <1>2, <1>3, <1>6

(* Every step of a worker or the caller is a step of the abstract request  *)
(* or leaves all of it alone, and only a commit touches the business data. *)
LEMMA StepEffect ==
  ASSUME TypeOK, IInv, [Next]_vars
  PROVE  \/ \E p \in Worker : Commit(p)
         \/ /\ UNCHANGED data
            /\ \/ \E r \in Request : Idempotent!Reply(r) \/ Idempotent!Delete(r)
                \/ Idempotent!Refuse(r)
               \/ UNCHANGED <<execution, answers, deleted, refused>>
<1>. USE DEF storeVars, clientVars, workerVars, Reset, Fail
<1>. DEFINE Same == UNCHANGED <<data, execution, answers, deleted, refused>>
<1>1. ASSUME NEW p \in Worker, NEW r \in Request, Put(p, r) \/ Post(p, r) PROVE Same
  BY <1>1 DEF Put, Post, Begin
<1>2. ASSUME NEW p \in Worker, NEW r \in Request, Delete(p, r)
      PROVE  UNCHANGED data /\ Idempotent!Delete(r)
  <2>1. /\ client[r] \in {"put", "stored", "aborted", "answered"}
        /\ deleted' = deleted \cup {r}
        /\ UNCHANGED <<data, execution, answers, refused>>
    BY <1>2 DEF Delete, Begin
  <2>2. answers[r] # {} \/ execution[r] = None
    BY <2>1 DEF IInv, ClientSound
  <2>. QED
    BY <2>1, <2>2 DEF Idempotent!Delete
<1>3. ASSUME NEW p \in Worker, NoBody(p) \/ NoResponseId(p) \/ NoResponse(p)
      PROVE  UNCHANGED data /\ \E r \in Request : Idempotent!Refuse(r)
  <2>1. pc[p] # "idle" /\ req[p] \in deleted /\ Refuse(p)
    BY <1>3, RefusedDeleted
  <2>2. req[p] \in Request
    BY <2>1 DEF TypeOK
  <2>3. refused' = refused \cup {req[p]} /\ UNCHANGED <<data, execution, answers, deleted>>
    BY <2>1 DEF Refuse
  <2>. QED
    BY <2>1, <2>2, <2>3 DEF Idempotent!Refuse
<1>4. ASSUME NEW p \in Worker, Answer(p)
      PROVE  UNCHANGED data /\ \E r \in Request : Idempotent!Reply(r)
  <2>1. /\ pc[p] = "answer"
        /\ answers' = [answers EXCEPT ![req[p]] = @ \cup {resp[p]}]
        /\ UNCHANGED <<data, execution, deleted, refused>>
    BY <1>4 DEF Answer
  <2>2. req[p] \in Request /\ resp[p] # None
    BY <2>1 DEF TypeOK
  <2>3. resp[p] = execution[req[p]]
    BY <2>1, <2>2 DEF IInv, AnswersSound
  <2>. QED
    BY <2>1, <2>2, <2>3 DEF Idempotent!Reply
<1>5. ASSUME NEW p \in Worker,
             \/ Crash(p) \/ CreateConflict(p) \/ WriteConflict(p) \/ AssociateFails(p)
             \/ ClearConflict(p) \/ CreateRequest(p) \/ DeleteResponse(p)
      PROVE  Same
  BY <1>5 DEF Crash, CreateConflict, WriteConflict, AssociateFails, ClearConflict,
     CreateRequest, DeleteResponse, GetResponseId, DeleteStoredResponse, DeleteRequest
<1>6. ASSUME NEW p \in Worker,
             \/ GetBody(p) \/ LoadFree(p) \/ LoadUnfinished(p) \/ LoadMissing(p)
             \/ CreateRecord(p) \/ CheckToken(p) \/ Duplicate(p) \/ ReadData(p)
      PROVE  Same
  BY <1>6 DEF GetBody, LoadFree, LoadUnfinished, LoadMissing, CreateRecord, CheckToken,
     Duplicate, ReadData
<1>7. ASSUME NEW p \in Worker,
             \/ (\E s \in Slot : Send(p, s)) \/ Upload(p) \/ RegisterResponse(p)
             \/ StoreResponse(p) \/ LookUp(p) \/ GetResponse(p)
      PROVE  Same
  BY <1>7 DEF Send, Upload, RegisterResponse, StoreResponse, LookUp, GetResponse
<1>8. ASSUME NEW p \in Worker,
             \/ \E m \in OutgoingMessage : Dispatch(p, m) \/ EnsureDeleted(p, m)
             \/ \E e \in HttpResponse : DeleteAborted(p, e)
             \/ Associate(p) \/ Clear(p)
      PROVE  Same
  BY <1>8 DEF Dispatch, EnsureDeleted, DeleteAborted, Associate, Clear
<1>9. CASE UNCHANGED vars
  BY <1>9 DEF vars
<1>. QED
  BY <1>1, <1>2, <1>3, <1>4, <1>5, <1>6, <1>7, <1>8, <1>9
  DEF Next, Caller, Handler, ExecuteTransaction, FinishProcessing

(* A commit never overwrites what another request did to the data.         *)
THEOREM UpdatesKept == Spec => NoLostUpdate
<1>1. TypeOK /\ IInv /\ [Next]_vars => [\A r \in Request : data'[r] >= data[r]]_vars
  <2>. SUFFICES ASSUME TypeOK, IInv, [Next]_vars, NEW r \in Request
                PROVE  data'[r] >= data[r]
    OBVIOUS
  <2>1. data \in [Request -> Nat]
    BY DEF TypeOK
  <2>2. ASSUME NEW p \in Worker, Commit(p) PROVE data'[r] >= data[r]
    <3>1. req[p] \in Request /\ data' = [data EXCEPT ![req[p]] = @ + 1]
      BY <2>2, CommitEffect
    <3>. QED
      BY <2>1, <3>1
  <2>3. CASE UNCHANGED data
    BY <2>1, <2>3
  <2>. QED
    BY <2>2, <2>3, StepEffect
<1>. QED
  BY TypeCorrect, Invariant, <1>1, PTL DEF Spec, NoLostUpdate

(* The interface implements the abstract idempotent request: the commit    *)
(* executes it, an answer replies, a DELETE deletes, a 400 refuses; all    *)
(* the other steps stutter.                                                *)
THEOREM Refinement == Spec => ImplementsRequest
<1>1. Init => Idempotent!RequestInit
  BY DEF Init, Idempotent!RequestInit
<1>2. TypeOK /\ IInv /\ [Next]_vars => [Idempotent!RequestNext]_(Idempotent!requestVars)
  <2>. SUFFICES ASSUME TypeOK, IInv, [Next]_vars
                PROVE  Idempotent!RequestNext \/ UNCHANGED <<execution, answers, deleted,
                refused>>
    BY DEF Idempotent!requestVars
  <2>1. ASSUME NEW p \in Worker, Commit(p) PROVE Idempotent!RequestNext
    <3>1. Idempotent!Execute(req[p]) /\ req[p] \in Request
      BY <2>1, CommitEffect DEF Idempotent!Execute
    <3>. QED
      BY <3>1 DEF Idempotent!RequestNext
  <2>. QED
    BY <2>1, StepEffect DEF Idempotent!RequestNext
<1>. QED
  BY TypeCorrect, Invariant, <1>1, <1>2, PTL DEF Spec, ImplementsRequest, Idempotent!RequestSpec

=============================================================================
