--------------------------- MODULE MessagingProofs ---------------------------
(***************************************************************************)
(* Proofs about Messaging for every number of workers, messages, attempts  *)
(* and sends.                                                              *)
(***************************************************************************)
EXTENDS MessagingInvariant, TLAPS

LEMMA EmptyRecordType == EmptyRecord \in Record
  BY DEF EmptyRecord, Record, Guid

LEMMA NoDataType == NoData \in [Message -> Nat]
  BY DEF NoData

LEMMA MessageParts == OutgoingMessage \subseteq Message /\ Initial \subseteq Message
  BY DEF Message

LEMMA SideEffectsType ==
  ASSUME NEW r \in Record
  PROVE  /\ CommittedSideEffects(r) \subseteq SideEffect
         /\ AbortedSideEffects(r) \subseteq SideEffect
         /\ r.messageId \in Message \cup {None}
  BY DEF CommittedSideEffects, AbortedSideEffects, Record

(* In a record without a transaction every side effect is aborted.         *)
LEMMA FreeAborted ==
  ASSUME NEW r \in Record, r.attemptId = None
  PROVE  AbortedSideEffects(r) = r.sideEffects
<1>1. \A e \in SideEffect : e.attemptId # None
  BY ConstantsAssumption DEF SideEffect, OutgoingMessage
<1>. QED
  BY <1>1 DEF AbortedSideEffects, Record

(* A sent message that the record commits to is one of this endpoint's.    *)
LEMMA EmittedCommitted ==
  ASSUME NEW r \in Record, NEW m \in Message, m \in CommittedSideEffects(r)
  PROVE  m \in CommittedSideEffects(r) \cap OutgoingMessage
  BY ConstantsAssumption DEF CommittedSideEffects, Record, SideEffect

(* A worker that stops leaves everything well-typed, whatever happens to   *)
(* the message it held.                                                    *)
LEMMA ResetType ==
  ASSUME TypeOK, NEW p \in Worker, Reset(p), queue' \subseteq Message
  PROVE  TypeOK'
  BY EmptyRecordType, NoDataType DEF TypeOK, Reset, Forget, Guid, Stage, Attempting

LEMMA FailType ==
  ASSUME TypeOK, NEW p \in Worker, pc[p] # "idle", Fail(p)
  PROVE  TypeOK'
  BY ResetType DEF TypeOK, Fail

LEMMA AckType ==
  ASSUME TypeOK, NEW p \in Worker, Ack(p)
  PROVE  TypeOK'
  BY ResetType DEF TypeOK, Ack

LEMMA TypeStep == ASSUME TypeOK, [Next]_vars PROVE TypeOK'
<1>. USE ConstantsAssumption DEF recordVars, storeVars, workerVars, Attempting
<1>1. ASSUME NEW p \in Worker, NEW m \in Message, Receive(p, m) PROVE TypeOK'
  BY <1>1, ConstantsAssumption DEF Receive, TypeOK, Stage
<1>2. ASSUME NEW p \in Worker, Redeliver(p) PROVE TypeOK'
  BY <1>2 DEF Redeliver, TypeOK
<1>3. ASSUME NEW p \in Worker, Crash(p) PROVE TypeOK'
  BY <1>3, FailType DEF Crash
<1>4. ASSUME NEW p \in Worker, LoadMessageBody(p) PROVE TypeOK'
  BY <1>4 DEF LoadMessageBody, TypeOK, Stage
<1>5. ASSUME NEW p \in Worker, IgnoreDuplicate(p) PROVE TypeOK'
  BY <1>5, AckType DEF IgnoreDuplicate
<1>21. ASSUME NEW p \in Worker, LoadFree(p) PROVE TypeOK'
  BY <1>21 DEF LoadFree, Read, TypeOK, Stage
<1>22. ASSUME NEW p \in Worker, LoadUnfinished(p) PROVE TypeOK'
  <2>1. record \in Record
    BY DEF TypeOK
  <2>. QED
    BY <1>22, <2>1 DEF LoadUnfinished, Read, BeginFinish, TypeOK, Stage
<1>23. ASSUME NEW p \in Worker, LoadMissing(p) PROVE TypeOK'
  BY <1>23 DEF LoadMissing, TypeOK, Stage
<1>6. ASSUME NEW p \in Worker, CreateRecord(p) PROVE TypeOK'
  BY <1>6, EmptyRecordType DEF CreateRecord, Create, TypeOK, Stage
<1>7. ASSUME NEW p \in Worker, CreateConflict(p) PROVE TypeOK'
  BY <1>7, FailType DEF CreateConflict
<1>8. ASSUME NEW p \in Worker, CheckExists(p) PROVE TypeOK'
  <2>1. PICK a \in Attempt : att' = [att EXCEPT ![p] = a]
    BY <1>8 DEF CheckExists
  <2>2. a # None
    BY <2>1, ConstantsAssumption
  <2>. QED
    BY <1>8, <2>1, <2>2 DEF CheckExists, TypeOK, Stage, Guid
<1>9. ASSUME NEW p \in Worker, Handle(p) PROVE TypeOK'
  <2>1. PICK sent \in Sends(p) : outbox' = [outbox EXCEPT ![p] = sent]
    BY <1>9 DEF Handle
  <2>2. att[p] \in Attempt
    BY <1>9 DEF Handle, TypeOK, Guid
  <2>3. sent \subseteq OutgoingMessage
    BY <2>1, <2>2 DEF Sends, OutgoingMessage
  <2>. QED
    BY <1>9, <2>1, <2>3 DEF Handle, TypeOK, Stage
<1>10. ASSUME NEW p \in Worker, CaptureOutgoing(p) PROVE TypeOK'
  <2>1. [val[p] EXCEPT !.sideEffects = @ \cup outbox[p]] \in Record
    BY DEF TypeOK, Record, SideEffect
  <2>. QED
    BY <1>10, <2>1 DEF CaptureOutgoing, AddSideEffects, Replace, TypeOK, Stage
<1>11. ASSUME NEW p \in Worker, NEW m \in OutgoingMessage, Upload(p, m) PROVE TypeOK'
  BY <1>11, MessageParts DEF Upload, TypeOK
<1>12. ASSUME NEW p \in Worker, Commit(p) PROVE TypeOK'
  <2>1. record' \in Record
    BY <1>12 DEF Commit, CommitStateTransition, Replace, TypeOK, Record
  <2>3. account' \in [Message -> Nat]
    BY <1>12 DEF Commit, Apply, TypeOK
  <2>4. Own(p) \subseteq OutgoingMessage
    BY DEF Own, TypeOK, Record
  <2>. QED
    BY <1>12, <2>1, <2>3, <2>4, NoDataType, MessageParts
    DEF Commit, CommitStateTransition, Replace, BeginFinish, TypeOK, Stage, Guid
<1>13. ASSUME NEW p \in Worker, WriteConflict(p) PROVE TypeOK'
  BY <1>13, FailType DEF WriteConflict
<1>14. ASSUME NEW p \in Worker, NEW m \in OutgoingMessage, Dispatch(p, m) PROVE TypeOK'
  BY <1>14, MessageParts DEF Dispatch, TypeOK
<1>15. ASSUME NEW p \in Worker, NEW m \in OutgoingMessage, EnsureDeleted(p, m) PROVE TypeOK'
  BY <1>15 DEF EnsureDeleted, TypeOK
<1>16. ASSUME NEW p \in Worker, DeleteToken(p) PROVE TypeOK'
  BY <1>16 DEF DeleteToken, TypeOK, Stage
<1>17. ASSUME NEW p \in Worker, Clear(p) PROVE TypeOK'
  BY <1>17, EmptyRecordType DEF Clear, ClearTransactionState, Replace, TypeOK, Stage
<1>18. ASSUME NEW p \in Worker, ClearConflict(p) PROVE TypeOK'
  BY <1>18, FailType DEF ClearConflict
<1>19. ASSUME NEW p \in Worker, Complete(p) PROVE TypeOK'
  BY <1>19, AckType DEF Complete
<1>20. CASE UNCHANGED vars
  BY <1>20 DEF vars, TypeOK
<1>. QED
  BY <1>1, <1>2, <1>3, <1>4, <1>5, <1>6, <1>7, <1>8, <1>9, <1>10, <1>11, <1>12, <1>13,
     <1>14, <1>15, <1>16, <1>17, <1>18, <1>19, <1>20,
     <1>21, <1>22, <1>23
  DEF Next, Process

LEMMA InitType == Init => TypeOK
<1>. SUFFICES ASSUME Init PROVE TypeOK
  OBVIOUS
<1>1. created \in BOOLEAN /\ record \in Record /\ val \in [Worker -> Record]
      /\ current \subseteq Worker
  BY EmptyRecordType DEF Init, RecordInit
<1>2. /\ account \in [Message -> Nat]
      /\ snapshot \in [Worker -> [Message -> Nat]]
      /\ blobs \subseteq Message /\ queue \subseteq Message /\ emitted \subseteq Message
  BY NoDataType, MessageParts DEF Init
<1>3. /\ pc \in [Worker -> Stage]
      /\ msg \in [Worker -> Message \cup {None}]
      /\ \A p \in Worker : pc[p] = "idle" <=> msg[p] = None
      /\ att \in [Worker -> Guid]
      /\ \A p \in Worker : Attempting(p) <=> att[p] # None
  BY DEF Init, Stage, Guid, Attempting
<1>4. /\ outbox \in [Worker -> SUBSET OutgoingMessage]
      /\ discard \in [Worker -> SUBSET OutgoingMessage]
  BY DEF Init
<1>. QED
  BY <1>1, <1>2, <1>3, <1>4 DEF TypeOK

(* Every variable keeps its type.                                          *)
THEOREM TypeCorrect == Spec => []TypeOK
<1>1. Init => TypeOK
  BY InitType
<1>2. TypeOK /\ [Next]_vars => TypeOK'
  BY TypeStep
<1>. QED
  BY <1>1, <1>2, PTL DEF Spec

-----------------------------------------------------------------------------
(* SoundBut is inductive: one lemma per action, or per kind of action, and *)
(* in it one step per conjunct.                                            *)

LEMMA InitInv == Init => IInv
<1>. SUFFICES ASSUME Init PROVE IInv
  OBVIOUS
<1>. USE DEF Init, RecordInit, EmptyRecord, InTransaction
<1>1. CurrentCopy /\ WorkerMessage
  BY DEF CurrentCopy, WorkerMessage
<1>2. AttemptsUnique
  BY ConstantsAssumption DEF AttemptsUnique
<1>3. RecordSound
  BY DEF RecordSound, CommittedSideEffects, AbortedSideEffects
<1>4. AttemptsSound
  BY DEF AttemptsSound, AttemptSound, Attempting
<1>5. FinishersSound({})
  BY DEF FinishersSound, Finishing
<1>6. DataSound /\ AppliedAtMostOnce
  BY DEF DataSound, AppliedAtMostOnce, NoData
<1>7. TokenUntilApplied /\ NoneLostBut({})
  BY DEF TokenUntilApplied, NoneLostBut, InTransit
<1>. QED
  BY <1>1, <1>2, <1>3, <1>4, <1>5, <1>6, <1>7 DEF IInv, SoundBut

(* A worker that stops, with its message applied or in the queue again.    *)
LEMMA ResetInv ==
  ASSUME TypeOK, NEW lost, SoundBut(lost), NEW p \in Worker, pc[p] # "idle", Reset(p),
         queue \subseteq queue', queue' \subseteq emitted,
         msg[p] \in queue' \/ account[msg[p]] > 0 \/ msg[p] \in lost
  PROVE  SoundBut(lost)'
<1>. USE DEF TypeOK, Reset, Forget
<1>0. \A m \in Message : InTransit(m) => InTransit(m)' \/ account[m] > 0 \/ m \in lost
  BY DEF InTransit
<1>1. CurrentCopy' /\ WorkerMessage'
  BY DEF SoundBut, CurrentCopy, WorkerMessage
<1>2. AttemptsUnique'
  BY ConstantsAssumption DEF SoundBut, AttemptsUnique, OutgoingMessage
<1>3. RecordSound'
  BY DEF SoundBut, RecordSound, CommittedSideEffects, AbortedSideEffects, InTransaction
<1>4. AttemptsSound'
  BY DEF SoundBut, AttemptsSound, AttemptSound, Attempting, Own, InTransaction
<1>5. FinishersSound(lost)'
  BY <1>0, MessageParts DEF SoundBut, FinishersSound, FinisherSound, Finishing,
     CommittedSideEffects, AbortedSideEffects, InTransaction, Attempting
<1>6. DataSound' /\ AppliedAtMostOnce'
  BY DEF SoundBut, DataSound, AppliedAtMostOnce
<1>7. TokenUntilApplied' /\ NoneLostBut(lost)'
  BY <1>0 DEF SoundBut, TokenUntilApplied, NoneLostBut, CommittedSideEffects, InTransaction
<1>. QED
  BY <1>1, <1>2, <1>3, <1>4, <1>5, <1>6, <1>7 DEF SoundBut

(* A worker takes a message from the queue: it stays in transit.           *)
LEMMA ReceiveInv ==
  ASSUME TypeOK, NEW lost, SoundBut(lost), NEW p \in Worker, NEW m \in Message, Receive(p, m)
  PROVE  SoundBut(lost)'
<1>. USE DEF TypeOK, SoundBut, Receive, recordVars, storeVars, workerVars, InTransaction
<1>1. \A n \in Message : InTransit(n) => InTransit(n)' \/ account[n] > 0
  BY DEF InTransit
<1>2. CurrentCopy'
  BY DEF CurrentCopy
<1>3. WorkerMessage'
  BY DEF WorkerMessage
<1>4. AttemptsUnique'
  BY ConstantsAssumption , MessageParts DEF AttemptsUnique, Attempting, OutgoingMessage
<1>5. RecordSound'
  BY ConstantsAssumption DEF RecordSound, CommittedSideEffects, AbortedSideEffects
<1>6. AttemptsSound'
  BY MessageParts DEF AttemptsSound, AttemptSound, Attempting, Own
<1>7. FinishersSound(lost)'
  BY <1>1, MessageParts, ConstantsAssumption DEF FinishersSound, FinisherSound, Finishing,
     CommittedSideEffects, AbortedSideEffects, Attempting
<1>8. DataSound'
  BY MessageParts DEF DataSound
<1>9. AppliedAtMostOnce'
  BY DEF AppliedAtMostOnce
<1>10. TokenUntilApplied'
  BY DEF TokenUntilApplied
<1>11. NoneLostBut(lost)'
  BY <1>1, MessageParts, ConstantsAssumption DEF NoneLostBut, CommittedSideEffects
<1>. QED
  BY <1>2, <1>3, <1>4, <1>5, <1>6, <1>7, <1>8, <1>9, <1>10, <1>11 DEF SoundBut

(* A second delivery of the message in hand.                               *)
LEMMA RedeliverInv ==
  ASSUME TypeOK, NEW lost, SoundBut(lost), NEW p \in Worker, Redeliver(p)
  PROVE  SoundBut(lost)'
<1>. USE DEF TypeOK, SoundBut, Redeliver, recordVars, storeVars, workerVars, InTransaction
<1>1. \A n \in Message : InTransit(n) => InTransit(n)' \/ account[n] > 0
  BY DEF InTransit
<1>2. CurrentCopy'
  BY DEF CurrentCopy
<1>3. WorkerMessage'
  BY DEF WorkerMessage
<1>4. AttemptsUnique'
  BY ConstantsAssumption , MessageParts DEF AttemptsUnique, Attempting, OutgoingMessage
<1>5. RecordSound'
  BY ConstantsAssumption DEF RecordSound, CommittedSideEffects, AbortedSideEffects
<1>6. AttemptsSound'
  BY MessageParts DEF AttemptsSound, AttemptSound, Attempting, Own
<1>7. FinishersSound(lost)'
  BY <1>1, MessageParts, ConstantsAssumption DEF FinishersSound, FinisherSound, Finishing,
     CommittedSideEffects, AbortedSideEffects, Attempting
<1>8. DataSound'
  BY MessageParts DEF DataSound
<1>9. AppliedAtMostOnce'
  BY DEF AppliedAtMostOnce
<1>10. TokenUntilApplied'
  BY DEF TokenUntilApplied
<1>11. NoneLostBut(lost)'
  BY <1>1, MessageParts, ConstantsAssumption DEF NoneLostBut, CommittedSideEffects
<1>. QED
  BY <1>2, <1>3, <1>4, <1>5, <1>6, <1>7, <1>8, <1>9, <1>10, <1>11 DEF SoundBut

(* The body is there: nothing but the stage changes.                       *)
LEMMA LoadMessageBodyInv ==
  ASSUME TypeOK, NEW lost, SoundBut(lost), NEW p \in Worker, LoadMessageBody(p)
  PROVE  SoundBut(lost)'
<1>. USE DEF TypeOK, SoundBut, LoadMessageBody, recordVars, storeVars, workerVars, InTransaction
<1>1. \A n \in Message : InTransit(n) => InTransit(n)' \/ account[n] > 0
  BY DEF InTransit
<1>2. CurrentCopy'
  BY DEF CurrentCopy
<1>3. WorkerMessage'
  BY DEF WorkerMessage
<1>4. AttemptsUnique'
  BY ConstantsAssumption , MessageParts DEF AttemptsUnique, Attempting, OutgoingMessage
<1>5. RecordSound'
  BY ConstantsAssumption DEF RecordSound, CommittedSideEffects, AbortedSideEffects
<1>6. AttemptsSound'
  BY MessageParts DEF AttemptsSound, AttemptSound, Attempting, Own
<1>7. FinishersSound(lost)'
  BY <1>1, MessageParts, ConstantsAssumption DEF FinishersSound, FinisherSound, Finishing,
     CommittedSideEffects, AbortedSideEffects, Attempting
<1>8. DataSound'
  BY MessageParts DEF DataSound
<1>9. AppliedAtMostOnce'
  BY DEF AppliedAtMostOnce
<1>10. TokenUntilApplied'
  BY DEF TokenUntilApplied
<1>11. NoneLostBut(lost)'
  BY <1>1, MessageParts, ConstantsAssumption DEF NoneLostBut, CommittedSideEffects
<1>. QED
  BY <1>2, <1>3, <1>4, <1>5, <1>6, <1>7, <1>8, <1>9, <1>10, <1>11 DEF SoundBut

(* The record is free: the worker becomes current of a free record.        *)
LEMMA LoadFreeInv ==
  ASSUME TypeOK, NEW lost, SoundBut(lost), NEW p \in Worker, LoadFree(p)
  PROVE  SoundBut(lost)'
<1>. USE DEF TypeOK, SoundBut, LoadFree, Read, recordVars, storeVars, workerVars, InTransaction
<1>1. \A n \in Message : InTransit(n) => InTransit(n)' \/ account[n] > 0
  BY DEF InTransit
<1>2. CurrentCopy'
  BY DEF CurrentCopy
<1>3. WorkerMessage'
  BY DEF WorkerMessage
<1>4. AttemptsUnique'
  BY ConstantsAssumption , MessageParts DEF AttemptsUnique, Attempting, OutgoingMessage
<1>5. RecordSound'
  BY ConstantsAssumption DEF RecordSound, CommittedSideEffects, AbortedSideEffects
<1>6. AttemptsSound'
  BY MessageParts DEF AttemptsSound, AttemptSound, Attempting, Own
<1>7. FinishersSound(lost)'
  BY <1>1, MessageParts, ConstantsAssumption DEF FinishersSound, FinisherSound, Finishing,
     CommittedSideEffects, AbortedSideEffects, Attempting
<1>8. DataSound'
  BY MessageParts DEF DataSound
<1>9. AppliedAtMostOnce'
  BY DEF AppliedAtMostOnce
<1>10. TokenUntilApplied'
  BY DEF TokenUntilApplied
<1>11. NoneLostBut(lost)'
  BY <1>1, MessageParts, ConstantsAssumption DEF NoneLostBut, CommittedSideEffects
<1>. QED
  BY <1>2, <1>3, <1>4, <1>5, <1>6, <1>7, <1>8, <1>9, <1>10, <1>11 DEF SoundBut

(* The record holds a transaction: the worker takes over its side effects. *)
LEMMA LoadUnfinishedInv ==
  ASSUME TypeOK, NEW lost, SoundBut(lost), NEW p \in Worker, LoadUnfinished(p)
  PROVE  SoundBut(lost)'
<1>. USE DEF TypeOK, SoundBut, LoadUnfinished, Read, BeginFinish, recordVars, storeVars,
   workerVars, InTransaction
<1>1. \A n \in Message : InTransit(n) => InTransit(n)' \/ account[n] > 0
  BY DEF InTransit
<1>2. CurrentCopy'
  BY DEF CurrentCopy
<1>3. WorkerMessage'
  BY DEF WorkerMessage
<1>4. AttemptsUnique'
  BY ConstantsAssumption , MessageParts DEF AttemptsUnique, Attempting, OutgoingMessage
<1>5. RecordSound'
  BY ConstantsAssumption DEF RecordSound, CommittedSideEffects, AbortedSideEffects
<1>6. AttemptsSound'
  BY MessageParts DEF AttemptsSound, AttemptSound, Attempting, Own
<1>7. FinishersSound(lost)'
  <2>. SUFFICES ASSUME NEW q \in Worker, Finishing(q)' PROVE FinisherSound(q, lost)'
    BY DEF FinishersSound
  <2>1. CASE q = p
    <3>1. \A r \in current : ~Attempting(r)
      BY DEF CurrentCopy, AttemptsSound, AttemptSound
    <3>2. /\ outbox'[q] = CommittedSideEffects(record) \cap OutgoingMessage
          /\ discard'[q] = AbortedSideEffects(record) \cap OutgoingMessage
          /\ val'[q] = record
      BY <2>1, SideEffectsType
    <3>3. /\ CommittedSideEffects(record) \cap OutgoingMessage \subseteq emitted
          /\ AbortedSideEffects(record) \cap emitted = {}
      BY DEF RecordSound
    <3>. QED
      BY <2>1, <3>1, <3>2, <3>3 DEF FinisherSound, RecordSound, Attempting
  <2>2. CASE q # p
    BY <1>1, <2>2, MessageParts DEF FinishersSound, FinisherSound, Finishing,
       CommittedSideEffects, AbortedSideEffects, Attempting
  <2>. QED
    BY <2>1, <2>2
<1>8. DataSound'
  BY MessageParts DEF DataSound
<1>9. AppliedAtMostOnce'
  BY DEF AppliedAtMostOnce
<1>10. TokenUntilApplied'
  BY DEF TokenUntilApplied
<1>11. NoneLostBut(lost)'
  BY <1>1, MessageParts, ConstantsAssumption DEF NoneLostBut, CommittedSideEffects
<1>. QED
  BY <1>2, <1>3, <1>4, <1>5, <1>6, <1>7, <1>8, <1>9, <1>10, <1>11 DEF SoundBut

(* There is no record yet.                                                 *)
LEMMA LoadMissingInv ==
  ASSUME TypeOK, NEW lost, SoundBut(lost), NEW p \in Worker, LoadMissing(p)
  PROVE  SoundBut(lost)'
<1>. USE DEF TypeOK, SoundBut, LoadMissing, recordVars, storeVars, workerVars, InTransaction
<1>1. \A n \in Message : InTransit(n) => InTransit(n)' \/ account[n] > 0
  BY DEF InTransit
<1>2. CurrentCopy'
  BY DEF CurrentCopy
<1>3. WorkerMessage'
  BY DEF WorkerMessage
<1>4. AttemptsUnique'
  BY ConstantsAssumption , MessageParts DEF AttemptsUnique, Attempting, OutgoingMessage
<1>5. RecordSound'
  BY ConstantsAssumption DEF RecordSound, CommittedSideEffects, AbortedSideEffects
<1>6. AttemptsSound'
  BY MessageParts DEF AttemptsSound, AttemptSound, Attempting, Own
<1>7. FinishersSound(lost)'
  BY <1>1, MessageParts, ConstantsAssumption DEF FinishersSound, FinisherSound, Finishing,
     CommittedSideEffects, AbortedSideEffects, Attempting
<1>8. DataSound'
  BY MessageParts DEF DataSound
<1>9. AppliedAtMostOnce'
  BY DEF AppliedAtMostOnce
<1>10. TokenUntilApplied'
  BY DEF TokenUntilApplied
<1>11. NoneLostBut(lost)'
  BY <1>1, MessageParts, ConstantsAssumption DEF NoneLostBut, CommittedSideEffects
<1>. QED
  BY <1>2, <1>3, <1>4, <1>5, <1>6, <1>7, <1>8, <1>9, <1>10, <1>11 DEF SoundBut

(* The record is created empty.                                            *)
LEMMA CreateRecordInv ==
  ASSUME TypeOK, NEW lost, SoundBut(lost), NEW p \in Worker, CreateRecord(p)
  PROVE  SoundBut(lost)'
<1>. USE DEF TypeOK, SoundBut, CreateRecord, Create, EmptyRecord, recordVars, storeVars,
   workerVars, InTransaction
<1>0. record' = record
  BY DEF CurrentCopy
<1>1. \A n \in Message : InTransit(n) => InTransit(n)' \/ account[n] > 0
  BY DEF InTransit
<1>2. CurrentCopy'
  BY DEF CurrentCopy
<1>3. WorkerMessage'
  BY DEF WorkerMessage
<1>4. AttemptsUnique'
  BY ConstantsAssumption , MessageParts DEF AttemptsUnique, Attempting, OutgoingMessage
<1>5. RecordSound'
  BY ConstantsAssumption DEF RecordSound, CommittedSideEffects, AbortedSideEffects
<1>6. AttemptsSound'
  BY MessageParts DEF AttemptsSound, AttemptSound, Attempting, Own
<1>7. FinishersSound(lost)'
  BY <1>1, MessageParts, ConstantsAssumption DEF FinishersSound, FinisherSound, Finishing,
     CommittedSideEffects, AbortedSideEffects, Attempting
<1>8. DataSound'
  BY <1>0 DEF DataSound
<1>9. AppliedAtMostOnce'
  BY DEF AppliedAtMostOnce
<1>10. TokenUntilApplied'
  BY DEF TokenUntilApplied
<1>11. NoneLostBut(lost)'
  BY <1>0, <1>1 DEF NoneLostBut, CommittedSideEffects
<1>. QED
  BY <1>2, <1>3, <1>4, <1>5, <1>6, <1>7, <1>8, <1>9, <1>10, <1>11 DEF SoundBut

(* An attempt begins.                                                      *)
LEMMA CheckExistsInv ==
  ASSUME TypeOK, NEW lost, SoundBut(lost), NEW p \in Worker, CheckExists(p)
  PROVE  SoundBut(lost)'
<1>. USE DEF TypeOK, SoundBut, CheckExists, recordVars, storeVars, workerVars, InTransaction
<1>0. PICK a \in Attempt : Unused(a) /\ att' = [att EXCEPT ![p] = a]
  OBVIOUS
<1>1. \A n \in Message : InTransit(n) => InTransit(n)' \/ account[n] > 0
  BY DEF InTransit
<1>2. CurrentCopy'
  BY DEF CurrentCopy
<1>3. WorkerMessage'
  BY DEF WorkerMessage
<1>4. AttemptsUnique'
  <2>1. \A e \in emitted \cap OutgoingMessage : e.attemptId # a
    <3>. SUFFICES ASSUME NEW e \in emitted \cap OutgoingMessage, e.attemptId = a PROVE FALSE
      OBVIOUS
    <3>1. e.slot \in Slot /\ e = [attemptId |-> a, slot |-> e.slot]
      BY DEF OutgoingMessage
    <3>. QED
      BY <1>0, <3>1 DEF Unused
  <2>2. \A q \in Worker : att[q] # a
    BY <1>0 DEF Unused
  <2>. QED
    BY <1>0, <2>1, <2>2 DEF AttemptsUnique
<1>5. RecordSound'
  BY ConstantsAssumption DEF RecordSound, CommittedSideEffects, AbortedSideEffects
<1>6. AttemptsSound'
  <2>. SUFFICES ASSUME NEW q \in Worker PROVE AttemptSound(q)'
    BY DEF AttemptsSound
  <2>1. CASE q = p
    <3>1. \A e \in val[p].sideEffects : e.attemptId # a
      BY <1>0 DEF Unused
    <3>2. ~InTransaction(val[p])
      BY DEF AttemptsSound, AttemptSound
    <3>3. p \in current => account[msg[p]] = 0
      BY <3>2, ConstantsAssumption DEF DataSound, CurrentCopy
    <3>. QED
      BY <1>0, <2>1, <3>1, <3>2, <3>3 DEF AttemptSound, Own
  <2>2. CASE q # p
    BY <1>0, <2>2 DEF AttemptsSound, AttemptSound, Own, Attempting
  <2>. QED
    BY <2>1, <2>2
<1>7. FinishersSound(lost)'
  <2>. SUFFICES ASSUME NEW q \in Worker, Finishing(q)' PROVE FinisherSound(q, lost)'
    BY DEF FinishersSound
  <2>1. Finishing(q) /\ FinisherSound(q, lost)
    BY DEF FinishersSound, Finishing
  <2>2. \A e \in discard[q] : e.attemptId # a
    BY <1>0, <2>1 DEF FinisherSound, AbortedSideEffects, Unused
  <2>3. q # p
    BY <2>1 DEF Finishing
  <2>. QED
    BY <1>0, <1>1, <2>1, <2>2, <2>3, MessageParts DEF FinisherSound, Attempting,
       CommittedSideEffects, AbortedSideEffects
<1>8. DataSound'
  BY MessageParts DEF DataSound
<1>9. AppliedAtMostOnce'
  BY DEF AppliedAtMostOnce
<1>10. TokenUntilApplied'
  BY DEF TokenUntilApplied
<1>11. NoneLostBut(lost)'
  BY <1>1, MessageParts, ConstantsAssumption DEF NoneLostBut, CommittedSideEffects
<1>. QED
  BY <1>2, <1>3, <1>4, <1>5, <1>6, <1>7, <1>8, <1>9, <1>10, <1>11 DEF SoundBut

(* The handler reads the data and decides what to send.                    *)
LEMMA HandleInv ==
  ASSUME TypeOK, NEW lost, SoundBut(lost), NEW p \in Worker, Handle(p)
  PROVE  SoundBut(lost)'
<1>. USE DEF TypeOK, SoundBut, Handle, recordVars, storeVars, workerVars, InTransaction
<1>0. PICK sent \in Sends(p) : outbox' = [outbox EXCEPT ![p] = sent]
  OBVIOUS
<1>1. \A n \in Message : InTransit(n) => InTransit(n)' \/ account[n] > 0
  BY DEF InTransit
<1>2. CurrentCopy'
  BY DEF CurrentCopy
<1>3. WorkerMessage'
  BY DEF WorkerMessage
<1>4. AttemptsUnique'
  BY ConstantsAssumption , MessageParts DEF AttemptsUnique, Attempting, OutgoingMessage
<1>5. RecordSound'
  BY ConstantsAssumption DEF RecordSound, CommittedSideEffects, AbortedSideEffects
<1>6. AttemptsSound'
  <2>1. \A e \in sent : e.attemptId = att[p]
    BY <1>0 DEF Sends
  <2>. QED
    BY <1>0, <2>1 DEF AttemptsSound, AttemptSound, Attempting, Own
<1>7. FinishersSound(lost)'
  BY <1>1, MessageParts, ConstantsAssumption DEF FinishersSound, FinisherSound, Finishing,
     CommittedSideEffects, AbortedSideEffects, Attempting
<1>8. DataSound'
  BY MessageParts DEF DataSound
<1>9. AppliedAtMostOnce'
  BY DEF AppliedAtMostOnce
<1>10. TokenUntilApplied'
  BY DEF TokenUntilApplied
<1>11. NoneLostBut(lost)'
  BY <1>1, MessageParts, ConstantsAssumption DEF NoneLostBut, CommittedSideEffects
<1>. QED
  BY <1>2, <1>3, <1>4, <1>5, <1>6, <1>7, <1>8, <1>9, <1>10, <1>11 DEF SoundBut

(* The messages to send are registered in the record.                      *)
LEMMA CaptureOutgoingInv ==
  ASSUME TypeOK, NEW lost, SoundBut(lost), NEW p \in Worker, CaptureOutgoing(p)
  PROVE  SoundBut(lost)'
<1>. USE DEF TypeOK, SoundBut, CaptureOutgoing, AddSideEffects, Replace, EtagMatches, recordVars,
   storeVars, workerVars, InTransaction
<1>0. /\ p \in current /\ val[p] = record /\ ~InTransaction(record)
      /\ record' = [record EXCEPT !.sideEffects = @ \cup outbox[p]]
  BY DEF CurrentCopy, AttemptsSound, AttemptSound, Attempting
<1>1. \A n \in Message : InTransit(n) => InTransit(n)' \/ account[n] > 0
  BY DEF InTransit
<1>2. CurrentCopy'
  BY DEF CurrentCopy
<1>3. WorkerMessage'
  BY DEF WorkerMessage
<1>4. AttemptsUnique'
  BY ConstantsAssumption , MessageParts DEF AttemptsUnique, Attempting, OutgoingMessage
<1>5. RecordSound'
  <2>1. \A e \in outbox[p] : e \notin emitted
    BY DEF AttemptsSound, AttemptSound, AttemptsUnique
  <2>2. record.attemptId = None /\ record.messageId = None
    BY <1>0 DEF RecordSound
  <2>3. record'.messageId = None /\ record'.attemptId = None
        /\ record'.sideEffects = record.sideEffects \cup outbox[p]
    BY <1>0, <2>2 DEF Record
  <2>4. \A e \in record.sideEffects : e \notin emitted
    BY <2>2, FreeAborted DEF RecordSound
  <2>. QED
    BY <2>1, <2>3, <2>4 DEF RecordSound, AbortedSideEffects
<1>6. AttemptsSound'
  BY MessageParts DEF AttemptsSound, AttemptSound, Attempting, Own
<1>7. FinishersSound(lost)'
  BY <1>1, MessageParts, ConstantsAssumption DEF FinishersSound, FinisherSound, Finishing,
     CommittedSideEffects, AbortedSideEffects, Attempting
<1>8. DataSound'
  <2>1. record'.messageId = record.messageId
    BY <1>0 DEF Record
  <2>. QED
    BY <2>1 DEF DataSound
<1>9. AppliedAtMostOnce'
  BY DEF AppliedAtMostOnce
<1>10. TokenUntilApplied'
  BY DEF TokenUntilApplied
<1>11. NoneLostBut(lost)'
  BY <1>0, <1>1 DEF NoneLostBut
<1>. QED
  BY <1>2, <1>3, <1>4, <1>5, <1>6, <1>7, <1>8, <1>9, <1>10, <1>11 DEF SoundBut

(* A body is uploaded: only for a message of the attempt's own.            *)
LEMMA UploadInv ==
  ASSUME TypeOK, NEW lost, SoundBut(lost), NEW p \in Worker, NEW o \in OutgoingMessage, Upload(p, o)
  PROVE  SoundBut(lost)'
<1>. USE DEF TypeOK, SoundBut, Upload, recordVars, storeVars, workerVars, InTransaction
<1>0. o \notin emitted
  BY DEF AttemptsSound, AttemptSound, AttemptsUnique
<1>1. \A n \in Message : InTransit(n) => InTransit(n)' \/ account[n] > 0
  BY DEF InTransit
<1>2. CurrentCopy'
  BY DEF CurrentCopy
<1>3. WorkerMessage'
  BY DEF WorkerMessage
<1>4. AttemptsUnique'
  BY ConstantsAssumption , MessageParts DEF AttemptsUnique, Attempting, OutgoingMessage
<1>5. RecordSound'
  BY ConstantsAssumption DEF RecordSound, CommittedSideEffects, AbortedSideEffects
<1>6. AttemptsSound'
  BY MessageParts DEF AttemptsSound, AttemptSound, Attempting, Own
<1>7. FinishersSound(lost)'
  <2>. SUFFICES ASSUME NEW q \in Worker, Finishing(q)' PROVE FinisherSound(q, lost)'
    BY DEF FinishersSound
  <2>1. Finishing(q) /\ FinisherSound(q, lost) /\ q # p
    BY DEF FinishersSound, Finishing
  <2>2. val[q].messageId # o
    BY <1>0, <2>1, MessageParts DEF FinisherSound, DataSound
  <2>. QED
    BY <1>1, <2>1, <2>2, MessageParts DEF FinisherSound, Attempting,
       CommittedSideEffects, AbortedSideEffects
<1>8. DataSound'
  BY <1>0, MessageParts DEF DataSound
<1>9. AppliedAtMostOnce'
  BY DEF AppliedAtMostOnce
<1>10. TokenUntilApplied'
  BY DEF TokenUntilApplied
<1>11. NoneLostBut(lost)'
  BY <1>1, MessageParts, ConstantsAssumption DEF NoneLostBut, CommittedSideEffects
<1>. QED
  BY <1>2, <1>3, <1>4, <1>5, <1>6, <1>7, <1>8, <1>9, <1>10, <1>11 DEF SoundBut

(* What a commit finds and what it does.                                   *)
LEMMA CommitEffect ==
  ASSUME TypeOK, NEW lost, SoundBut(lost), NEW p \in Worker, Commit(p)
  PROVE  /\ p \in current /\ val[p] = record
         /\ record.messageId = None /\ record.attemptId = None
         /\ msg[p] \in emitted /\ account[msg[p]] = 0 /\ att[p] \in Attempt
         /\ record'.messageId = msg[p] /\ record'.attemptId = att[p]
         /\ record'.sideEffects = record.sideEffects
         /\ val' = [val EXCEPT ![p] = record'] /\ current' = {p} /\ created' = created
         /\ CommittedSideEffects(record') \cap OutgoingMessage = Own(p)
         /\ Own(p) \subseteq OutgoingMessage /\ Own(p) \subseteq blobs
         /\ Own(p) \cap emitted = {} /\ emitted' = emitted \cup Own(p)
         /\ account' = [account EXCEPT ![msg[p]] = 1]
<1>. USE DEF TypeOK, SoundBut, Commit, CommitStateTransition, Replace, EtagMatches, InTransaction
<1>1. /\ p \in current /\ val[p] = record
      /\ record.messageId = None /\ record.attemptId = None
      /\ account[msg[p]] = 0 /\ snapshot[p] = account /\ outbox[p] = {}
      /\ msg[p] \in emitted /\ att[p] \in Attempt
  BY DEF CurrentCopy, AttemptsSound, AttemptSound, Attempting, Uploaded, RecordSound,
     WorkerMessage, Guid
<1>2. /\ record'.messageId = msg[p] /\ record'.attemptId = att[p]
      /\ record'.sideEffects = record.sideEffects
      /\ val' = [val EXCEPT ![p] = record'] /\ current' = {p} /\ created' = created
  BY <1>1 DEF Record
<1>3. CommittedSideEffects(record') \cap OutgoingMessage = Own(p)
  BY <1>1, <1>2 DEF CommittedSideEffects, Own, Record
<1>4. Own(p) \subseteq OutgoingMessage /\ Own(p) \cap emitted = {}
  BY DEF Own, Record, AttemptsUnique
<1>5. Own(p) \subseteq blobs
  BY <1>1 DEF AttemptsSound, AttemptSound
<1>6. account' = [account EXCEPT ![msg[p]] = 1]
  <2>1. account' = [account EXCEPT ![msg[p]] = account[msg[p]] + 1]
    BY <1>1 DEF Apply
  <2>2. account[msg[p]] + 1 = 1
    BY <1>1
  <2>. QED
    BY <2>1, <2>2
<1>. QED
  BY <1>1, <1>2, <1>3, <1>4, <1>5, <1>6

(* The commit.                                                             *)
LEMMA CommitInv ==
  ASSUME TypeOK, NEW lost, SoundBut(lost), NEW p \in Worker, Commit(p)
  PROVE  SoundBut(lost)'
<1>. USE DEF TypeOK, SoundBut, Commit, CommitStateTransition, Replace, EtagMatches, BeginFinish,
   Apply, recordVars, storeVars, workerVars, InTransaction
<1>0. /\ p \in current /\ val[p] = record
      /\ record.messageId = None /\ record.attemptId = None
      /\ msg[p] \in emitted /\ account[msg[p]] = 0 /\ att[p] \in Attempt
  BY CommitEffect
<1>a. /\ record'.messageId = msg[p] /\ record'.attemptId = att[p]
      /\ record'.sideEffects = record.sideEffects
      /\ val' = [val EXCEPT ![p] = record'] /\ current' = {p} /\ created' = created
  BY CommitEffect
<1>b. /\ CommittedSideEffects(record') \cap OutgoingMessage = Own(p)
      /\ Own(p) \subseteq OutgoingMessage /\ Own(p) \subseteq blobs
      /\ Own(p) \cap emitted = {} /\ emitted' = emitted \cup Own(p)
  BY CommitEffect
<1>c. account' = [account EXCEPT ![msg[p]] = 1]
  BY CommitEffect
<1>d. \A m \in Message : account'[m] = IF m = msg[p] THEN 1 ELSE account[m]
  BY <1>c
<1>1. \A n \in Message : InTransit(n) => InTransit(n)' \/ account[n] > 0
  BY DEF InTransit
<1>2. CurrentCopy'
  BY <1>a DEF CurrentCopy
<1>3. WorkerMessage'
  BY DEF WorkerMessage
<1>4. AttemptsUnique'
  <2>1. \A q \in Worker : q # p => att[q] # att[p]
    BY <1>0, ConstantsAssumption DEF AttemptsUnique
  <2>2. \A e \in Own(p) : e.attemptId = att[p]
    BY DEF Own
  <2>3. \A e \in OutgoingMessage : e.attemptId # None
    BY ConstantsAssumption DEF OutgoingMessage
  <2>. QED
    BY <1>0, <1>b, <2>1, <2>2, <2>3 DEF AttemptsUnique
<1>5. RecordSound'
  <2>1. AbortedSideEffects(record) = record.sideEffects
    BY <1>0, FreeAborted
  <2>2. AbortedSideEffects(record') \cap Own(p) = {}
    BY <1>a DEF AbortedSideEffects, Own
  <2>3. AbortedSideEffects(record') \cap emitted' = {}
    BY <1>a, <1>b, <2>1, <2>2 DEF RecordSound, AbortedSideEffects
  <2>4. record'.messageId # None /\ record'.attemptId # None
    BY <1>0, <1>a, ConstantsAssumption
  <2>5. account'[record'.messageId] > 0
    BY <1>0, <1>a, <1>d
  <2>. QED
    BY <1>b, <2>3, <2>4, <2>5 DEF RecordSound
<1>6. AttemptsSound'
  BY MessageParts DEF AttemptsSound, AttemptSound, Attempting, Own
<1>7. FinishersSound(lost)'
  <2>. SUFFICES ASSUME NEW q \in Worker, Finishing(q)' PROVE FinisherSound(q, lost)'
    BY DEF FinishersSound
  <2>0. pc'[p] = "publish" /\ (\A r \in current' : ~Attempting(r)')
    BY <1>a DEF Attempting
  <2>1. CASE q = p
    <3>1. /\ val'[q] = record'
          /\ outbox'[q] = CommittedSideEffects(record') \cap OutgoingMessage
          /\ discard'[q] = AbortedSideEffects(record') \cap OutgoingMessage
      BY <1>a, <2>1
    <3>2. RecordSound' /\ record'.messageId # None
      BY <1>0, <1>5, <1>a, ConstantsAssumption
    <3>. QED
      BY <2>0, <2>1, <3>1, <3>2 DEF FinisherSound, RecordSound
  <2>2. CASE q # p
    <3>1. Finishing(q) /\ FinisherSound(q, lost)
      BY <2>2 DEF FinishersSound, Finishing
    <3>2. q \notin current' /\ val'[q] = val[q] /\ outbox'[q] = outbox[q] /\ discard'[q] = discard[q]
      BY <1>a, <2>2
    <3>3. discard[q] \cap emitted' = {}
      BY <1>0, <1>b, <3>1 DEF FinisherSound, Own, Attempting
    <3>4. account'[val[q].messageId] > 0
      BY <1>d, <3>1 DEF FinisherSound, Record
    <3>5. \A m \in (CommittedSideEffects(val[q]) \cap OutgoingMessage) \ outbox[q] :
             InTransit(m)' \/ account'[m] > 0 \/ m \in lost
      BY <1>1, <1>d, <3>1, MessageParts DEF FinisherSound
    <3>. QED
      BY <1>b, <2>0, <3>1, <3>2, <3>3, <3>4, <3>5
      DEF FinisherSound, CommittedSideEffects, AbortedSideEffects
  <2>. QED
    BY <2>1, <2>2
<1>8. DataSound'
  <2>1. \A m \in Message : account'[m] > 0 => m \in emitted'
    BY <1>0, <1>b, <1>d DEF DataSound
  <2>2. \A m \in Message : account'[m] > 0 /\ m \in blobs => record'.messageId = m
    BY <1>0, <1>a, <1>d, ConstantsAssumption DEF DataSound
  <2>3. \A q \in Worker : pc'[q] = "ack" => account'[msg[q]] > 0
    BY <1>d, MessageParts DEF DataSound
  <2>. QED
    BY <2>1, <2>2, <2>3 DEF DataSound
<1>9. AppliedAtMostOnce'
  BY <1>d DEF AppliedAtMostOnce
<1>10. TokenUntilApplied'
  BY <1>b, <1>d DEF TokenUntilApplied
<1>11. NoneLostBut(lost)'
  <2>1. \A m \in emitted : account[m] = 0 => InTransit(m) \/ m \in lost
    BY <1>0 DEF NoneLostBut
  <2>2. record'.messageId # None
    BY <1>0, <1>a, ConstantsAssumption
  <2>. QED
    BY <1>0, <1>1, <1>b, <1>d, <2>1, <2>2, MessageParts DEF NoneLostBut
<1>. QED
  BY <1>2, <1>3, <1>4, <1>5, <1>6, <1>7, <1>8, <1>9, <1>10, <1>11 DEF SoundBut

(* A committed message is dispatched.                                      *)
LEMMA DispatchInv ==
  ASSUME TypeOK, NEW lost, SoundBut(lost), NEW p \in Worker, NEW o \in OutgoingMessage, Dispatch(p, o)
  PROVE  SoundBut(lost)'
<1>. USE DEF TypeOK, SoundBut, Dispatch, Dispatched, recordVars, storeVars, workerVars,
   InTransaction
<1>1. \A n \in Message : InTransit(n) => InTransit(n)' \/ account[n] > 0
  BY DEF InTransit
<1>2. CurrentCopy'
  BY DEF CurrentCopy
<1>3. WorkerMessage'
  BY DEF WorkerMessage, FinishersSound, FinisherSound, Finishing
<1>4. AttemptsUnique'
  BY ConstantsAssumption , MessageParts DEF AttemptsUnique, Attempting, OutgoingMessage
<1>5. RecordSound'
  BY ConstantsAssumption DEF RecordSound, CommittedSideEffects, AbortedSideEffects
<1>6. AttemptsSound'
  BY MessageParts DEF AttemptsSound, AttemptSound, Attempting, Own
<1>7. FinishersSound(lost)'
  <2>. SUFFICES ASSUME NEW q \in Worker, Finishing(q)' PROVE FinisherSound(q, lost)'
    BY DEF FinishersSound
  <2>1. Finishing(q) /\ FinisherSound(q, lost)
    BY DEF FinishersSound, Finishing
  <2>2. InTransit(o)'
    BY DEF InTransit
  <2>3. \A m \in (CommittedSideEffects(val[q]) \cap OutgoingMessage) \ outbox'[q] :
           InTransit(m)' \/ account[m] > 0 \/ m \in lost
    BY <1>1, <2>1, <2>2, MessageParts DEF FinisherSound
  <2>. QED
    BY <2>1, <2>3 DEF FinisherSound, Attempting, CommittedSideEffects, AbortedSideEffects
<1>8. DataSound'
  BY MessageParts DEF DataSound
<1>9. AppliedAtMostOnce'
  BY DEF AppliedAtMostOnce
<1>10. TokenUntilApplied'
  BY DEF TokenUntilApplied
<1>11. NoneLostBut(lost)'
  BY <1>1, MessageParts, ConstantsAssumption DEF NoneLostBut, CommittedSideEffects
<1>. QED
  BY <1>2, <1>3, <1>4, <1>5, <1>6, <1>7, <1>8, <1>9, <1>10, <1>11 DEF SoundBut

(* The token of an aborted attempt is deleted.                             *)
LEMMA EnsureDeletedInv ==
  ASSUME TypeOK, NEW lost, SoundBut(lost), NEW p \in Worker, NEW o \in OutgoingMessage, EnsureDeleted(p, o)
  PROVE  SoundBut(lost)'
<1>. USE DEF TypeOK, SoundBut, EnsureDeleted, Dispatched, recordVars, storeVars, workerVars,
   InTransaction
<1>1. \A n \in Message : InTransit(n) => InTransit(n)' \/ account[n] > 0
  BY DEF InTransit
<1>2. CurrentCopy'
  BY DEF CurrentCopy
<1>3. WorkerMessage'
  BY DEF WorkerMessage
<1>4. AttemptsUnique'
  BY ConstantsAssumption , MessageParts DEF AttemptsUnique, Attempting, OutgoingMessage
<1>5. RecordSound'
  BY ConstantsAssumption DEF RecordSound, CommittedSideEffects, AbortedSideEffects
<1>6. AttemptsSound'
  <2>1. \A q \in current : Attempting(q) => o.attemptId # att[q]
    BY DEF FinishersSound, FinisherSound, Finishing
  <2>. QED
    BY <2>1 DEF AttemptsSound, AttemptSound, Attempting, Own
<1>7. FinishersSound(lost)'
  BY <1>1, MessageParts, ConstantsAssumption DEF FinishersSound, FinisherSound, Finishing,
     CommittedSideEffects, AbortedSideEffects, Attempting
<1>8. DataSound'
  BY MessageParts DEF DataSound
<1>9. AppliedAtMostOnce'
  BY DEF AppliedAtMostOnce
<1>10. TokenUntilApplied'
  BY DEF TokenUntilApplied, FinishersSound, FinisherSound, Finishing
<1>11. NoneLostBut(lost)'
  BY <1>1, MessageParts, ConstantsAssumption DEF NoneLostBut, CommittedSideEffects
<1>. QED
  BY <1>2, <1>3, <1>4, <1>5, <1>6, <1>7, <1>8, <1>9, <1>10, <1>11 DEF SoundBut

(* The token of the committed message is deleted.                          *)
LEMMA DeleteTokenInv ==
  ASSUME TypeOK, NEW lost, SoundBut(lost), NEW p \in Worker, DeleteToken(p)
  PROVE  SoundBut(lost)'
<1>. USE DEF TypeOK, SoundBut, DeleteToken, Dispatched, recordVars, storeVars, workerVars,
   InTransaction
<1>0. account[val[p].messageId] > 0 /\ val[p].messageId \in emitted
  BY DEF FinishersSound, FinisherSound, Finishing, DataSound, Record
<1>1. \A n \in Message : InTransit(n) => InTransit(n)' \/ account[n] > 0
  BY DEF InTransit
<1>2. CurrentCopy'
  BY DEF CurrentCopy
<1>3. WorkerMessage'
  BY DEF WorkerMessage
<1>4. AttemptsUnique'
  BY ConstantsAssumption , MessageParts DEF AttemptsUnique, Attempting, OutgoingMessage
<1>5. RecordSound'
  BY ConstantsAssumption DEF RecordSound, CommittedSideEffects, AbortedSideEffects
<1>6. AttemptsSound'
  <2>1. \A q \in Worker : val[p].messageId \notin Own(q)
    BY <1>0 DEF Own, AttemptsUnique, Record
  <2>. QED
    BY <2>1 DEF AttemptsSound, AttemptSound, Attempting, Own
<1>7. FinishersSound(lost)'
  BY <1>1, MessageParts, ConstantsAssumption DEF FinishersSound, FinisherSound, Finishing,
     CommittedSideEffects, AbortedSideEffects, Attempting
<1>8. DataSound'
  BY MessageParts DEF DataSound
<1>9. AppliedAtMostOnce'
  BY DEF AppliedAtMostOnce
<1>10. TokenUntilApplied'
  BY <1>0 DEF TokenUntilApplied
<1>11. NoneLostBut(lost)'
  BY <1>1, MessageParts, ConstantsAssumption DEF NoneLostBut, CommittedSideEffects
<1>. QED
  BY <1>2, <1>3, <1>4, <1>5, <1>6, <1>7, <1>8, <1>9, <1>10, <1>11 DEF SoundBut

(* The record is cleared.                                                  *)
LEMMA ClearInv ==
  ASSUME TypeOK, NEW lost, SoundBut(lost), NEW p \in Worker, Clear(p)
  PROVE  SoundBut(lost)'
<1>. USE DEF TypeOK, SoundBut, Clear, ClearTransactionState, Replace, EtagMatches, EmptyRecord,
   recordVars, storeVars, workerVars, InTransaction
<1>0. /\ val[p] = record
      /\ Finishing(p) /\ FinisherSound(p, lost)
      /\ outbox[p] = {} /\ val[p].messageId \notin blobs
  BY DEF CurrentCopy, FinishersSound, FinisherSound, Finishing
<1>1. \A n \in Message : InTransit(n) => InTransit(n)' \/ account[n] > 0
  BY DEF InTransit
<1>2. CurrentCopy'
  BY DEF CurrentCopy
<1>3. WorkerMessage'
  BY DEF WorkerMessage
<1>4. AttemptsUnique'
  BY ConstantsAssumption , MessageParts DEF AttemptsUnique, Attempting, OutgoingMessage
<1>5. RecordSound'
  BY ConstantsAssumption DEF RecordSound, CommittedSideEffects, AbortedSideEffects
<1>6. AttemptsSound'
  BY MessageParts DEF AttemptsSound, AttemptSound, Attempting, Own
<1>7. FinishersSound(lost)'
  BY <1>1, MessageParts, ConstantsAssumption DEF FinishersSound, FinisherSound, Finishing,
     CommittedSideEffects, AbortedSideEffects, Attempting
<1>8. DataSound'
  BY <1>0, ConstantsAssumption DEF DataSound, FinisherSound
<1>9. AppliedAtMostOnce'
  BY DEF AppliedAtMostOnce
<1>10. TokenUntilApplied'
  BY DEF TokenUntilApplied
<1>11. NoneLostBut(lost)'
  <2>1. \A m \in CommittedSideEffects(record) \cap OutgoingMessage :
          InTransit(m) \/ account[m] > 0 \/ m \in lost
    BY <1>0 DEF FinisherSound
  <2>. QED
    BY <1>0, <1>1, <2>1, MessageParts, EmittedCommitted DEF NoneLostBut, FinisherSound
<1>. QED
  BY <1>2, <1>3, <1>4, <1>5, <1>6, <1>7, <1>8, <1>9, <1>10, <1>11 DEF SoundBut

-----------------------------------------------------------------------------
LEMMA FailInv ==
  ASSUME TypeOK, NEW lost, SoundBut(lost), NEW p \in Worker, pc[p] # "idle", Fail(p)
  PROVE  SoundBut(lost)'
<1>1. queue' \subseteq emitted /\ queue \subseteq queue' /\ msg[p] \in queue'
  BY DEF SoundBut, WorkerMessage, Fail
<1>. QED
  BY <1>1, ResetInv DEF Fail

LEMMA AckInv ==
  ASSUME TypeOK, NEW lost, SoundBut(lost), NEW p \in Worker, pc[p] # "idle", account[msg[p]] > 0, Ack(p)
  PROVE  SoundBut(lost)'
<1>1. queue' \subseteq emitted /\ queue \subseteq queue'
  BY DEF SoundBut, WorkerMessage, Ack
<1>. QED
  BY <1>1, ResetInv DEF Ack

(* A message whose token is gone was applied.                              *)
LEMMA IgnoreDuplicateInv ==
  ASSUME TypeOK, NEW lost, SoundBut(lost), NEW p \in Worker, IgnoreDuplicate(p)
  PROVE  SoundBut(lost)'
<1>1. pc[p] # "idle" /\ msg[p] \in Message
  BY DEF IgnoreDuplicate, TypeOK
<1>2. account[msg[p]] > 0
  BY <1>1 DEF IgnoreDuplicate, SoundBut, WorkerMessage, TokenUntilApplied, TypeOK
<1>. QED
  BY <1>1, <1>2, AckInv DEF IgnoreDuplicate

LEMMA CompleteInv ==
  ASSUME TypeOK, NEW lost, SoundBut(lost), NEW p \in Worker, Complete(p)
  PROVE  SoundBut(lost)'
  BY AckInv DEF Complete, SoundBut, DataSound

LEMMA StutterInv == ASSUME NEW lost, SoundBut(lost), UNCHANGED vars PROVE SoundBut(lost)'
  BY DEF vars, recordVars, storeVars, workerVars, SoundBut, CurrentCopy, WorkerMessage,
     AttemptsUnique, RecordSound, AttemptsSound, AttemptSound, FinishersSound, FinisherSound,
     DataSound, AppliedAtMostOnce, TokenUntilApplied, NoneLostBut, Own, Attempting, Finishing,
     InTransit, InTransaction, CommittedSideEffects, AbortedSideEffects

LEMMA StepInv ==
  ASSUME TypeOK, NEW lost, SoundBut(lost), [Next]_vars
  PROVE  SoundBut(lost)'
<1>1. ASSUME NEW p \in Worker, NEW m \in Message, Receive(p, m) PROVE SoundBut(lost)'
  BY <1>1, ReceiveInv
<1>2. ASSUME NEW p \in Worker, Redeliver(p) PROVE SoundBut(lost)'
  BY <1>2, RedeliverInv
<1>3. ASSUME NEW p \in Worker, Crash(p) PROVE SoundBut(lost)'
  BY <1>3, FailInv DEF Crash
<1>4. ASSUME NEW p \in Worker, CreateConflict(p) PROVE SoundBut(lost)'
  BY <1>4, FailInv DEF CreateConflict
<1>5. ASSUME NEW p \in Worker, WriteConflict(p) PROVE SoundBut(lost)'
  BY <1>5, FailInv DEF WriteConflict
<1>6. ASSUME NEW p \in Worker, ClearConflict(p) PROVE SoundBut(lost)'
  BY <1>6, FailInv DEF ClearConflict
<1>7. ASSUME NEW p \in Worker, NEW m \in OutgoingMessage,
             Upload(p, m) \/ Dispatch(p, m) \/ EnsureDeleted(p, m)
      PROVE SoundBut(lost)'
  BY <1>7, UploadInv, DispatchInv, EnsureDeletedInv
<1>8. ASSUME NEW p \in Worker,
             \/ LoadMessageBody(p) \/ IgnoreDuplicate(p) \/ LoadFree(p) \/ LoadUnfinished(p)
             \/ LoadMissing(p) \/ CreateRecord(p) \/ CheckExists(p) \/ Handle(p)
      PROVE SoundBut(lost)'
  BY <1>8, LoadMessageBodyInv, IgnoreDuplicateInv, LoadFreeInv, LoadUnfinishedInv,
     LoadMissingInv, CreateRecordInv, CheckExistsInv, HandleInv
<1>9. ASSUME NEW p \in Worker,
             CaptureOutgoing(p) \/ Commit(p) \/ DeleteToken(p) \/ Clear(p) \/ Complete(p)
      PROVE SoundBut(lost)'
  BY <1>9, CaptureOutgoingInv, CommitInv, DeleteTokenInv, ClearInv, CompleteInv
<1>10. CASE UNCHANGED vars
  BY <1>10, StutterInv
<1>. QED
  BY <1>1, <1>2, <1>3, <1>4, <1>5, <1>6, <1>7, <1>8, <1>9, <1>10 DEF Next, Process

-----------------------------------------------------------------------------
(* The inductive invariant holds in every reachable state.                 *)
THEOREM Invariant == Spec => []IInv
<1>1. TypeOK /\ IInv /\ [Next]_vars => IInv'
  BY StepInv DEF IInv
<1>. QED
  BY InitInv, TypeCorrect, <1>1, PTL DEF Spec

(* No message is ever applied twice.                                       *)
THEOREM ExactlyOnce == Spec => []AppliedAtMostOnce
<1>1. IInv => AppliedAtMostOnce
  BY DEF IInv, SoundBut
<1>. QED
  BY Invariant, <1>1, PTL

(* The token of a message that is still to be applied is never deleted.    *)
THEOREM TokenSafe == Spec => []TokenUntilApplied
<1>1. IInv => TokenUntilApplied
  BY DEF IInv, SoundBut
<1>. QED
  BY Invariant, <1>1, PTL

(* No message that was sent is lost before it is applied.                  *)
THEOREM NothingLost == Spec => []NoMessageLost
<1>1. IInv => NoMessageLost
  BY DEF IInv, SoundBut, NoneLostBut, NoMessageLost
<1>. QED
  BY Invariant, <1>1, PTL

(* Nothing of an attempt that was rolled back ever reaches the queue.      *)
THEOREM CommittedOnly == Spec => []OnlyCommittedSent
<1>1. IInv => OnlyCommittedSent
  BY DEF IInv, SoundBut, WorkerMessage, OnlyCommittedSent, InTransit
<1>. QED
  BY Invariant, <1>1, PTL

-----------------------------------------------------------------------------
(* Only a commit touches the business data or sends.                       *)
LEMMA OnlyCommitApplies ==
  ASSUME [Next]_vars, \A p \in Worker : ~Commit(p)
  PROVE  UNCHANGED <<account, emitted>>
<1>. USE DEF storeVars, workerVars, Reset, Ack, Fail
<1>1. ASSUME NEW p \in Worker, NEW m \in Message, Receive(p, m)
      PROVE  UNCHANGED <<account, emitted>>
  BY <1>1 DEF Receive
<1>2. ASSUME NEW p \in Worker, NEW m \in OutgoingMessage,
             Upload(p, m) \/ Dispatch(p, m) \/ EnsureDeleted(p, m)
      PROVE  UNCHANGED <<account, emitted>>
  BY <1>2 DEF Upload, Dispatch, EnsureDeleted
<1>3. ASSUME NEW p \in Worker,
             \/ Redeliver(p) \/ Crash(p) \/ CreateConflict(p) \/ WriteConflict(p)
             \/ ClearConflict(p) \/ LoadMessageBody(p) \/ IgnoreDuplicate(p) \/ LoadFree(p)
             \/ LoadUnfinished(p) \/ LoadMissing(p) \/ CreateRecord(p)
      PROVE  UNCHANGED <<account, emitted>>
  BY <1>3 DEF Redeliver, Crash, CreateConflict, WriteConflict, ClearConflict, LoadMessageBody,
     IgnoreDuplicate, LoadFree, LoadUnfinished, LoadMissing, CreateRecord
<1>4. ASSUME NEW p \in Worker,
             \/ CheckExists(p) \/ Handle(p) \/ CaptureOutgoing(p) \/ DeleteToken(p)
             \/ Clear(p) \/ Complete(p)
      PROVE  UNCHANGED <<account, emitted>>
  BY <1>4 DEF CheckExists, Handle, CaptureOutgoing, DeleteToken, Clear, Complete
<1>5. CASE UNCHANGED vars
  BY <1>5 DEF vars
<1>. QED
  BY <1>1, <1>2, <1>3, <1>4, <1>5 DEF Next, Process

(* A commit never overwrites what another message did to the data.         *)
THEOREM UpdatesKept == Spec => NoLostUpdate
<1>1. TypeOK /\ IInv /\ [Next]_vars => [\A m \in Message : account'[m] >= account[m]]_vars
  <2>. SUFFICES ASSUME TypeOK, IInv, [Next]_vars, NEW m \in Message
                PROVE  account'[m] >= account[m]
    OBVIOUS
  <2>1. ASSUME NEW p \in Worker, Commit(p) PROVE account'[m] >= account[m]
    <3>1. account[msg[p]] = 0 /\ account' = [account EXCEPT ![msg[p]] = 1]
      BY <2>1, CommitEffect DEF IInv
    <3>. QED
      BY <3>1 DEF TypeOK
  <2>2. CASE \A p \in Worker : ~Commit(p)
    BY <2>2, OnlyCommitApplies DEF TypeOK
  <2>. QED
    BY <2>1, <2>2
<1>. QED
  BY TypeCorrect, Invariant, <1>1, PTL DEF Spec, NoLostUpdate

(* The endpoint implements the abstract exactly-once delivery: the commit  *)
(* is the one step that takes a message out of the pending ones, applies   *)
(* it and makes what it sends pending; all the other steps stutter.        *)
THEOREM Refinement == Spec => ImplementsDelivery
<1>1. Init => Delivery!DeliveryInit
  BY DEF Init, NoData, Pending, Delivery!DeliveryInit, Message
<1>2. TypeOK /\ IInv /\ [Next]_vars => [Delivery!DeliveryNext]_(Delivery!deliveryVars)
  <2>. SUFFICES ASSUME TypeOK, IInv, [Next]_vars
                PROVE  Delivery!DeliveryNext \/ UNCHANGED <<Pending, account>>
    BY DEF Delivery!deliveryVars
  <2>1. ASSUME NEW p \in Worker, Commit(p) PROVE Delivery!DeliveryNext
    <3>1. /\ msg[p] \in emitted /\ account[msg[p]] = 0
          /\ account' = [account EXCEPT ![msg[p]] = 1]
          /\ emitted' = emitted \cup Own(p)
          /\ Own(p) \cap emitted = {} /\ Own(p) \subseteq OutgoingMessage
      BY <2>1, CommitEffect DEF IInv
    <3>2. \A n \in Own(p) : n \notin Pending /\ account[n] = 0
      BY <3>1, MessageParts DEF Pending, IInv, SoundBut, DataSound, TypeOK
    <3>3. Pending' = (Pending \ {msg[p]}) \cup Own(p)
      BY <3>1, <3>2, MessageParts DEF Pending, TypeOK
    <3>4. msg[p] \in Pending /\ msg[p] \in Message
      BY <3>1 DEF Pending, TypeOK
    <3>5. Own(p) \in SUBSET Message
      BY <3>1, MessageParts
    <3>. QED
      BY <3>1, <3>2, <3>3, <3>4, <3>5 DEF Delivery!DeliveryNext, Delivery!ApplyOnce
  <2>2. CASE \A p \in Worker : ~Commit(p)
    BY <2>2, OnlyCommitApplies DEF Pending
  <2>. QED
    BY <2>1, <2>2
<1>. QED
  BY TypeCorrect, Invariant, <1>1, <1>2, PTL DEF Spec, ImplementsDelivery, Delivery!DeliverySpec

-----------------------------------------------------------------------------
(* A record that names a transaction is only emptied by Clear.             *)
LEMMA OnlyClearEmpties ==
  ASSUME TypeOK, IInv, [Next]_vars, InTransaction(record), ~InTransaction(record')
  PROVE  \E p \in Worker : Clear(p)
<1>. USE DEF recordVars, storeVars, workerVars, Reset, Ack, Fail, Forget, InTransaction
<1>1. ASSUME NEW p \in Worker, NEW m \in Message, Receive(p, m) PROVE record' = record
  BY <1>1 DEF Receive
<1>2. ASSUME NEW p \in Worker, NEW m \in OutgoingMessage,
             Upload(p, m) \/ Dispatch(p, m) \/ EnsureDeleted(p, m)
      PROVE  record' = record
  BY <1>2 DEF Upload, Dispatch, EnsureDeleted
<1>3. ASSUME NEW p \in Worker,
             \/ Redeliver(p) \/ Crash(p) \/ CreateConflict(p) \/ WriteConflict(p)
             \/ ClearConflict(p) \/ LoadMessageBody(p) \/ IgnoreDuplicate(p) \/ LoadFree(p)
             \/ LoadUnfinished(p) \/ LoadMissing(p)
      PROVE  record' = record
  BY <1>3 DEF Redeliver, Crash, CreateConflict, WriteConflict, ClearConflict, LoadMessageBody,
     IgnoreDuplicate, LoadFree, LoadUnfinished, LoadMissing, Read
<1>4. ASSUME NEW p \in Worker,
             CheckExists(p) \/ Handle(p) \/ DeleteToken(p) \/ Complete(p)
      PROVE  record' = record
  BY <1>4 DEF CheckExists, Handle, DeleteToken, Complete
<1>5. ASSUME NEW p \in Worker, CreateRecord(p) PROVE record' = record
  BY <1>5 DEF CreateRecord, Create, IInv, SoundBut, CurrentCopy
<1>6. ASSUME NEW p \in Worker, CaptureOutgoing(p) \/ Commit(p) PROVE FALSE
  BY <1>6 DEF CaptureOutgoing, Commit, AddSideEffects, CommitStateTransition, Replace,
     EtagMatches, IInv, SoundBut, CurrentCopy
<1>7. CASE UNCHANGED vars
  BY <1>7 DEF vars
<1>. QED
  BY <1>1, <1>2, <1>3, <1>4, <1>5, <1>6, <1>7 DEF Next, Process

(* The record lets go of a transaction only when all of it is published.   *)
THEOREM PublishedBeforeCleared == Spec => ClearedOnlyWhenPublished
<1>. DEFINE Published ==
       /\ record.messageId \notin blobs
       /\ \A m \in CommittedSideEffects(record) \cap OutgoingMessage : InTransit(m) \/ account[m] > 0
<1>1. TypeOK /\ IInv /\ [Next]_vars =>
        [InTransaction(record) /\ ~InTransaction(record') => Published]_vars
  <2>. SUFFICES ASSUME TypeOK, IInv, [Next]_vars, InTransaction(record), ~InTransaction(record')
                PROVE  Published
    OBVIOUS
  <2>1. PICK p \in Worker : Clear(p)
    BY OnlyClearEmpties
  <2>2. p \in current /\ val[p] = record /\ pc[p] = "clear"
    BY <2>1 DEF Clear, ClearTransactionState, Replace, EtagMatches, IInv, SoundBut, CurrentCopy
  <2>3. FinisherSound(p, {})
    BY <2>2 DEF IInv, SoundBut, FinishersSound, Finishing
  <2>. QED
    BY <2>2, <2>3 DEF FinisherSound
<1>. QED
  BY TypeCorrect, Invariant, <1>1, PTL DEF Spec, ClearedOnlyWhenPublished

=============================================================================
