------------------------ MODULE HumanInterfaceProofs ------------------------
(***************************************************************************)
(* Proofs about HumanInterface for every number of workers, transactions,  *)
(* attempts, sends and tries.                                              *)
(***************************************************************************)
EXTENDS HumanInterfaceInvariant, TLAPS

LEMMA EmptyRecordType == EmptyRecord \in Record
  BY DEF EmptyRecord, Record, Guid

LEMMA NoDataType == NoData \in [Transaction -> Nat]
  BY DEF NoData

LEMMA CompleteRecordType ==
  ASSUME NEW t \in Transaction
  PROVE  /\ CompleteRecord(t) \in CompleteRecords
         /\ CompleteRecord(t) \notin OutgoingMessage
         /\ CompleteRecord(t).attemptId = t /\ CompleteRecord(t).incomingId = t
  BY DEF CompleteRecord, CompleteRecords, OutgoingMessage

(* Every side effect is either an outgoing message or a complete record.   *)
LEMMA SideEffectsType ==
  ASSUME NEW r \in Record
  PROVE  /\ r.sideEffects \subseteq OutgoingMessage \cup CompleteRecords
         /\ CommittedSideEffects(r) \subseteq r.sideEffects
         /\ AbortedSideEffects(r) \subseteq r.sideEffects
         /\ \A e \in r.sideEffects : e.attemptId # None
  BY HumanAssumption
  DEF CommittedSideEffects, AbortedSideEffects, Record, OutgoingMessage, CompleteRecords,
      CompleteRecord

(* What a finisher takes from the record it loaded.                        *)
LEMMA BeginFinishType ==
  ASSUME NEW r \in Record
  PROVE  /\ {e.incomingId : e \in AbortedSideEffects(r) \cap CompleteRecords}
               \in SUBSET Transaction
         /\ CommittedSideEffects(r) \cap OutgoingMessage \in SUBSET OutgoingMessage
         /\ AbortedSideEffects(r) \cap OutgoingMessage \in SUBSET OutgoingMessage
  BY DEF CompleteRecords, CompleteRecord

LEMMA FinishedTokens ==
  ASSUME NEW r \in Record
  PROVE  /\ \A t \in {e.incomingId : e \in AbortedSideEffects(r) \cap CompleteRecords} :
               CompleteRecord(t) \in r.sideEffects
         /\ \A t \in Transaction : CompleteRecord(t) \in r.sideEffects =>
               t \in {e.incomingId : e \in AbortedSideEffects(r) \cap CompleteRecords}
<1>1. \A e \in CompleteRecords : CompleteRecord(e.incomingId) = e
  BY DEF CompleteRecords, CompleteRecord
<1>2. \A t \in Transaction : CompleteRecord(t).attemptId # r.attemptId
  BY HumanAssumption, CompleteRecordType DEF Record, Guid
<1>3. ASSUME NEW t \in Transaction, CompleteRecord(t) \in r.sideEffects
      PROVE  t \in {e.incomingId : e \in AbortedSideEffects(r) \cap CompleteRecords}
  <2>1. CompleteRecord(t) \in AbortedSideEffects(r) \cap CompleteRecords
    BY <1>2, <1>3, CompleteRecordType DEF AbortedSideEffects
  <2>. QED
    BY <2>1, CompleteRecordType
<1>. QED
  BY <1>1, <1>3 DEF AbortedSideEffects

(* A worker that stops leaves everything well-typed.                       *)
LEMMA ResetType ==
  ASSUME TypeOK, NEW p \in Worker, Reset(p), completions' \subseteq CompleteMessage
  PROVE  TypeOK'
  BY HumanAssumption, EmptyRecordType, NoDataType
  DEF TypeOK, Reset, Forget, Goto, Guid, Stage, RequestStage, MessageStage, Attempting

LEMMA DoneType ==
  ASSUME TypeOK, NEW p \in Worker, Done(p)
  PROVE  TypeOK'
  BY ResetType DEF TypeOK, Done

LEMMA InHandType ==
  ASSUME TypeOK, NEW p \in Worker, try[p] > 0
  PROVE  InHand(p) \in CompleteMessage /\ tx[p] \in Transaction
  BY HumanAssumption
  DEF TypeOK, InHand, CompleteMessage, Stage, RequestStage, MessageStage

LEMMA FailType ==
  ASSUME TypeOK, NEW p \in Worker, Fail(p)
  PROVE  TypeOK'
<1>1. completions' \subseteq CompleteMessage
  <2>1. try[p] \in Nat
    BY HumanAssumption DEF TypeOK
  <2>. QED
    BY <2>1, InHandType DEF Fail, TypeOK
<1>. QED
  BY <1>1, ResetType DEF Fail

(* Every variable keeps its type.                                          *)
THEOREM TypeCorrect == Spec => []TypeOK
<1>1. Init => TypeOK
  <2>. SUFFICES ASSUME Init PROVE TypeOK
    OBVIOUS
  <2>1. /\ created \in BOOLEAN /\ record \in Record /\ val \in [Worker -> Record]
        /\ current \subseteq Worker
    BY EmptyRecordType DEF Init, RecordInit
  <2>2. /\ data \in [Transaction -> Nat]
        /\ snapshot \in [Worker -> [Transaction -> Nat]]
    BY NoDataType DEF Init
  <2>3. /\ blobs \subseteq Transaction \cup OutgoingMessage
        /\ completions \subseteq CompleteMessage
        /\ dispatched \subseteq OutgoingMessage
        /\ started \subseteq Transaction
        /\ emitted \subseteq OutgoingMessage
        /\ timedOut \subseteq Transaction
    BY DEF Init
  <2>4. /\ pc \in [Worker -> Stage]
        /\ tx \in [Worker -> Transaction \cup {None}]
        /\ \A p \in Worker : pc[p] = "idle" <=> tx[p] = None
        /\ try \in [Worker -> 0..MaxAttempts]
        /\ \A p \in Worker : pc[p] \in RequestStage \cup {"idle"} => try[p] = 0
        /\ \A p \in Worker : pc[p] \in MessageStage => try[p] > 0
        /\ \A p \in Worker : pc[p] \in {"tryApply", "retry"} => try[p] < MaxAttempts
        /\ att \in [Worker -> Guid]
        /\ \A p \in Worker : Attempting(p) \/ pc[p] = "commitTombstone" => att[p] # None
        /\ tokens \in [Worker -> SUBSET Transaction]
        /\ outbox \in [Worker -> SUBSET OutgoingMessage]
        /\ discard \in [Worker -> SUBSET OutgoingMessage]
    BY HumanAssumption DEF Init, Stage, RequestStage, MessageStage, Guid, Attempting
  <2>. QED
    BY <2>1, <2>2, <2>3, <2>4 DEF TypeOK
<1>2. TypeOK /\ [Next]_vars => TypeOK'
  <2>. SUFFICES ASSUME TypeOK, [Next]_vars PROVE TypeOK'
    OBVIOUS
  <2>. USE HumanAssumption DEF recordVars, storeVars, workerVars, Goto, Attempting, Stage,
           RequestStage, MessageStage
  <2>1. ASSUME NEW p \in Worker, NEW t \in Transaction, Request(p, t) PROVE TypeOK'
    BY <2>1 DEF Request, TypeOK
  <2>2. ASSUME NEW p \in Worker, Load(p) PROVE TypeOK'
    BY <2>2 DEF Load, Read, TypeOK
  <2>3. ASSUME NEW p \in Worker, LoadMissing(p) PROVE TypeOK'
    BY <2>3 DEF LoadMissing, TypeOK
  <2>4. ASSUME NEW p \in Worker, CreateRecord(p) PROVE TypeOK'
    BY <2>4, EmptyRecordType DEF CreateRecord, Create, TypeOK
  <2>5. ASSUME NEW p \in Worker,
               \/ Crash(p) \/ CreateConflict(p) \/ TimedOut(p) \/ WriteConflict(p)
               \/ ClearConflict(p)
        PROVE  TypeOK'
    BY <2>5, FailType DEF Crash, CreateConflict, TimedOut, WriteConflict, ClearConflict
  <2>6. ASSUME NEW p \in Worker, Register(p) PROVE TypeOK'
    <3>1. tx[p] \in Transaction /\ val[p] \in Record
      BY <2>6 DEF Register, TypeOK
    <3>2. [val[p] EXCEPT !.sideEffects = @ \cup {CompleteRecord(tx[p])}] \in Record
      BY <3>1, CompleteRecordType DEF Record
    <3>. QED
      BY <2>6, <3>2 DEF Register, AddSideEffects, Replace, TypeOK
  <2>7. ASSUME NEW p \in Worker, CreateToken(p) PROVE TypeOK'
    BY <2>7 DEF CreateToken, TypeOK
  <2>8. ASSUME NEW p \in Worker, CheckToken(p) PROVE TypeOK'
    BY <2>8 DEF CheckToken, TypeOK, Guid
  <2>9. ASSUME NEW p \in Worker, ReadData(p) PROVE TypeOK'
    BY <2>9 DEF ReadData, TypeOK
  <2>10. ASSUME NEW p \in Worker, NEW s \in Slot, Send(p, s) PROVE TypeOK'
    <3>1. [attemptId |-> att[p], slot |-> s] \in OutgoingMessage
      BY <2>10 DEF Send, OutgoingMessage, TypeOK, Guid
    <3>2. [val[p] EXCEPT !.sideEffects = @ \cup {[attemptId |-> att[p], slot |-> s]}] \in Record
      <4>1. val[p] \in Record
        BY DEF TypeOK
      <4>. QED
        BY <3>1, <4>1 DEF Record
    <3>. QED
      BY <2>10, <3>1, <3>2 DEF Send, AddSideEffects, Replace, TypeOK
  <2>11. ASSUME NEW p \in Worker, Upload(p) PROVE TypeOK'
    BY <2>11 DEF Upload, TypeOK
  <2>12. ASSUME NEW p \in Worker, EnqueueComplete(p) PROVE TypeOK'
    <3>1. [transactionId |-> tx[p], attempt |-> 1] \in CompleteMessage
      BY <2>12 DEF EnqueueComplete, CompleteMessage, TypeOK
    <3>. QED
      BY <2>12, <3>1 DEF EnqueueComplete, TypeOK
  <2>13. ASSUME NEW p \in Worker, Commit(p) PROVE TypeOK'
    <3>1. att[p] \in Attempt /\ tx[p] \in Transaction
      BY <2>13 DEF Commit, TypeOK, Guid
    <3>2. [val[p] EXCEPT !.messageId = tx[p], !.attemptId = att[p]] \in Record
      <4>1. val[p] \in Record
        BY DEF TypeOK
      <4>. QED
        BY <3>1, <4>1 DEF Record, Guid
    <3>3. data' \in [Transaction -> Nat]
      <4>1. data' = [snapshot[p] EXCEPT ![tx[p]] = @ + 1] /\ snapshot[p] \in [Transaction -> Nat]
        BY <2>13 DEF Commit, Apply, TypeOK
      <4>. QED
        BY <3>1, <4>1
    <3>4. Own(p) \subseteq OutgoingMessage
      BY DEF Own
    <3>. QED
      BY <2>13, <3>2, <3>3, <3>4 DEF Commit, CommitStateTransition, Replace, TypeOK
  <2>14. ASSUME NEW p \in Worker, Complete(p) \/ AlreadyCompleted(p) PROVE TypeOK'
    BY <2>14, DoneType DEF Complete, AlreadyCompleted
  <2>15. ASSUME NEW p \in Worker, NEW c \in CompleteMessage, Receive(p, c) PROVE TypeOK'
    <3>1. c.transactionId \in Transaction /\ c.attempt \in 1..MaxAttempts
      BY DEF CompleteMessage
    <3>. QED
      BY <2>15, <3>1 DEF Receive, TypeOK
  <2>16. ASSUME NEW p \in Worker, Redeliver(p) PROVE TypeOK'
    BY <2>16, InHandType DEF Redeliver, TypeOK
  <2>17. ASSUME NEW p \in Worker, CheckExists(p) PROVE TypeOK'
    BY <2>17 DEF CheckExists, TypeOK
  <2>18. ASSUME NEW p \in Worker, LoadUnfinished(p) PROVE TypeOK'
    <3>1. record \in Record
      BY DEF TypeOK
    <3>2. pc[p] \in MessageStage /\ try[p] > 0
      BY <2>18 DEF LoadUnfinished, Finishes, TypeOK
    <3>. QED
      BY <2>18, <3>1, <3>2, BeginFinishType DEF LoadUnfinished, Read, BeginFinish, TypeOK
  <2>19. ASSUME NEW p \in Worker, LoadOther(p) PROVE TypeOK'
    BY <2>19 DEF LoadOther, Read, TypeOK
  <2>20. ASSUME NEW p \in Worker, Retry(p) PROVE TypeOK'
    <3>1. try[p] \in 1..MaxAttempts - 1 /\ tx[p] \in Transaction
      BY <2>20 DEF Retry, TypeOK
    <3>2. [InHand(p) EXCEPT !.attempt = @ + 1] \in CompleteMessage
      BY <3>1 DEF InHand, CompleteMessage
    <3>. QED
      BY <2>20, <3>2 DEF Retry, TypeOK
  <2>21. ASSUME NEW p \in Worker, BeginTombstone(p) PROVE TypeOK'
    BY <2>21 DEF BeginTombstone, TypeOK, Guid
  <2>22. ASSUME NEW p \in Worker, CommitTombstone(p) PROVE TypeOK'
    <3>1. att[p] \in Attempt /\ tx[p] \in Transaction
      BY <2>22 DEF CommitTombstone, TypeOK, Guid
    <3>2. record' \in Record
      <4>1. /\ val[p] \in Record
            /\ record' = [val[p] EXCEPT !.messageId = tx[p], !.attemptId = att[p]]
        BY <2>22 DEF CommitTombstone, CommitStateTransition, Replace, TypeOK
      <4>. QED
        BY <3>1, <4>1 DEF Record, Guid
    <3>. QED
      BY <2>22, <3>1, <3>2, BeginFinishType
      DEF CommitTombstone, CommitStateTransition, Replace, BeginFinish, TypeOK, Guid
  <2>23. ASSUME NEW p \in Worker, NEW t \in Transaction, DeleteToken(p, t) PROVE TypeOK'
    BY <2>23 DEF DeleteToken, TypeOK
  <2>24. ASSUME NEW p \in Worker, NEW m \in OutgoingMessage, Dispatch(p, m) PROVE TypeOK'
    BY <2>24 DEF Dispatch, TypeOK
  <2>25. ASSUME NEW p \in Worker, NEW m \in OutgoingMessage, EnsureDeleted(p, m) PROVE TypeOK'
    BY <2>25 DEF EnsureDeleted, TypeOK
  <2>26. ASSUME NEW p \in Worker, Clear(p) PROVE TypeOK'
    BY <2>26, EmptyRecordType DEF Clear, ClearTransactionState, Replace, TypeOK
  <2>27. CASE UNCHANGED vars
    BY <2>27 DEF vars, TypeOK
  <2>. QED
    BY <2>1, <2>2, <2>3, <2>4, <2>5, <2>6, <2>7, <2>8, <2>9, <2>10, <2>11, <2>12, <2>13,
       <2>14, <2>15, <2>16, <2>17, <2>18, <2>19, <2>20, <2>21, <2>22, <2>23, <2>24, <2>25,
       <2>26, <2>27
    DEF Next, Handler, ExecuteTransaction, Invoke
<1>. QED
  BY <1>1, <1>2, PTL DEF Spec

-----------------------------------------------------------------------------
(* IInv is inductive: one lemma per action, or per kind of action, and in  *)
(* it one step per conjunct of IInv.                                       *)

LEMMA InitInv == Init => IInv
<1>. SUFFICES ASSUME Init PROVE IInv
  OBVIOUS
<1>. USE HumanAssumption DEF Init, RecordInit, EmptyRecord, InTransaction
<1>1. CurrentCopy
  BY DEF CurrentCopy
<1>2. UnstartedSound
  BY DEF UnstartedSound, Uncompleted, Unregistered, NoData
<1>3. RequestsSound
  BY DEF RequestsSound, Requesting, RequestStage
<1>4. AttemptsUnique
  BY DEF AttemptsUnique, Attempting
<1>5. RecordSound
  BY DEF RecordSound, CommittedSideEffects, AbortedSideEffects
<1>6. AttemptsSound
  BY DEF AttemptsSound, AttemptSound, Attempting
<1>7. TombstonesSound /\ FinishersSound
  BY DEF TombstonesSound, FinishersSound
<1>8. TokensSound
  BY DEF TokensSound, NoData
<1>9. PublishedOrHeld /\ CommittedOnly /\ OneOutcome
  BY DEF PublishedOrHeld, CommittedOnly, OneOutcome, NoData
<1>. QED
  BY <1>1, <1>2, <1>3, <1>4, <1>5, <1>6, <1>7, <1>8, <1>9 DEF IInv

(* A worker that fails is gone; its complete message comes back.           *)
LEMMA FailInv ==
  ASSUME TypeOK, IInv, NEW p \in Worker, Fail(p)
  PROVE  IInv'
<1>. USE HumanAssumption DEF IInv
<1>1. /\ completions' = completions \cup (IF try[p] = 0 THEN {} ELSE {InHand(p)})
      /\ val' = [val EXCEPT ![p] = EmptyRecord]
      /\ current' = current \ {p}
      /\ pc' = [pc EXCEPT ![p] = "idle"]
      /\ tx' = [tx EXCEPT ![p] = None]
      /\ try' = [try EXCEPT ![p] = 0]
      /\ att' = [att EXCEPT ![p] = None]
      /\ snapshot' = [snapshot EXCEPT ![p] = NoData]
      /\ tokens' = [tokens EXCEPT ![p] = {}]
      /\ outbox' = [outbox EXCEPT ![p] = {}]
      /\ discard' = [discard EXCEPT ![p] = {}]
      /\ UNCHANGED <<created, record, data, blobs, dispatched, started, emitted, timedOut>>
  BY DEF TypeOK, Fail, Reset, Forget, Goto, recordVars, storeVars, workerVars
<1>2. /\ val \in [Worker -> Record]
      /\ pc \in [Worker -> Stage]
      /\ tx \in [Worker -> Transaction \cup {None}]
      /\ try \in [Worker -> 0..MaxAttempts]
      /\ att \in [Worker -> Guid]
      /\ snapshot \in [Worker -> [Transaction -> Nat]]
      /\ tokens \in [Worker -> SUBSET Transaction]
      /\ outbox \in [Worker -> SUBSET OutgoingMessage]
      /\ discard \in [Worker -> SUBSET OutgoingMessage]
      /\ current \subseteq Worker
      /\ \A q \in Worker : pc[q] # "idle" => tx[q] \in Transaction
      /\ try[p] \in Nat
  BY DEF TypeOK
<1>3. \A u \in Transaction : Uncompleted(u) => Uncompleted(u)'
  BY <1>1, <1>2 DEF Uncompleted, InHand
<1>4. \A u \in Transaction : Unregistered(u) => Unregistered(u)'
  BY <1>1, <1>2 DEF Unregistered, EmptyRecord
<1>5. \A u \in Transaction : CompletionHeld(u) => CompletionHeld(u)'
  <2>. SUFFICES ASSUME NEW u \in Transaction, CompletionHeld(u) PROVE CompletionHeld(u)'
    OBVIOUS
  <2>1. CASE \E c \in completions : c.transactionId = u
    BY <1>1, <2>1 DEF CompletionHeld
  <2>2. CASE try[p] > 0 /\ tx[p] = u
    <3>1. try[p] # 0
      BY <1>2, <2>2
    <3>2. InHand(p) \in completions' /\ InHand(p).transactionId = u
      BY <1>1, <2>2, <3>1 DEF InHand
    <3>. QED
      BY <3>2 DEF CompletionHeld
  <2>3. ASSUME NEW q \in Worker, q # p, try[q] > 0, tx[q] = u, pc[q] # "done"
        PROVE  CompletionHeld(u)'
    BY <1>1, <1>2, <2>3 DEF CompletionHeld
  <2>. QED
    BY <2>1, <2>2, <2>3 DEF CompletionHeld
<1>6. pc[p] \in {"idle", "load", "create"} => try[p] = 0
  BY DEF TypeOK, RequestStage
<1>7. CurrentCopy'
  BY <1>1, <1>2, <1>6 DEF CurrentCopy
<1>8. UnstartedSound'
  BY <1>1, <1>2, <1>3, <1>4 DEF UnstartedSound
<1>9. RequestsSound'
  BY <1>1, <1>2, <1>3, <1>4 DEF RequestsSound, Requesting, RequestStage
<1>10. AttemptsUnique'
  BY <1>1, <1>2 DEF AttemptsUnique, Attempting
<1>11. RecordSound'
  BY <1>1, <1>2 DEF RecordSound, InTransaction, CommittedSideEffects, AbortedSideEffects
<1>12. AttemptsSound'
  BY <1>1, <1>2, <1>5 DEF AttemptsSound, AttemptSound, Attempting, Own, InTransaction
<1>13. TombstonesSound'
  BY <1>1, <1>2 DEF TombstonesSound, InTransaction
<1>14. FinishersSound'
  BY <1>1, <1>2 DEF FinishersSound, FinisherSound, Attempting, InTransaction,
     CommittedSideEffects, AbortedSideEffects
<1>15. TokensSound'
  BY <1>1, <1>2, <1>5 DEF TokensSound
<1>16. PublishedOrHeld'
  BY <1>1, <1>2 DEF PublishedOrHeld, InTransaction, CommittedSideEffects
<1>17. CommittedOnly'
  BY <1>1, <1>2 DEF CommittedOnly
<1>18. OneOutcome'
  BY <1>1, <1>2 DEF OneOutcome
<1>. QED
  BY <1>7, <1>8, <1>9, <1>10, <1>11, <1>12, <1>13, <1>14, <1>15, <1>16, <1>17, <1>18 DEF IInv

(* A worker that is through, or whose transaction is completed, is gone.   *)
LEMMA DoneInv ==
  ASSUME TypeOK, IInv, NEW p \in Worker, pc[p] = "done" \/ (try[p] > 0 /\ tx[p] \notin blobs),
         Done(p)
  PROVE  IInv'
<1>. USE HumanAssumption DEF IInv
<1>1. /\ val' = [val EXCEPT ![p] = EmptyRecord]
      /\ current' = current \ {p}
      /\ pc' = [pc EXCEPT ![p] = "idle"]
      /\ tx' = [tx EXCEPT ![p] = None]
      /\ try' = [try EXCEPT ![p] = 0]
      /\ att' = [att EXCEPT ![p] = None]
      /\ snapshot' = [snapshot EXCEPT ![p] = NoData]
      /\ tokens' = [tokens EXCEPT ![p] = {}]
      /\ outbox' = [outbox EXCEPT ![p] = {}]
      /\ discard' = [discard EXCEPT ![p] = {}]
      /\ UNCHANGED <<created, record, data, blobs, completions, dispatched, started, emitted,
                       timedOut>>
  BY DEF TypeOK, Done, Reset, Forget, Goto, recordVars, storeVars, workerVars
<1>2. /\ val \in [Worker -> Record]
      /\ pc \in [Worker -> Stage]
      /\ tx \in [Worker -> Transaction \cup {None}]
      /\ try \in [Worker -> 0..MaxAttempts]
      /\ att \in [Worker -> Guid]
      /\ snapshot \in [Worker -> [Transaction -> Nat]]
      /\ tokens \in [Worker -> SUBSET Transaction]
      /\ outbox \in [Worker -> SUBSET OutgoingMessage]
      /\ discard \in [Worker -> SUBSET OutgoingMessage]
      /\ current \subseteq Worker
      /\ \A q \in Worker : pc[q] # "idle" => tx[q] \in Transaction
      /\ try[p] \in Nat
  BY DEF TypeOK
<1>3. \A u \in Transaction : Uncompleted(u) => Uncompleted(u)'
  BY <1>1, <1>2 DEF Uncompleted
<1>4. \A u \in Transaction : Unregistered(u) => Unregistered(u)'
  BY <1>1, <1>2 DEF Unregistered, EmptyRecord
<1>5. CurrentCopy'
  BY <1>1, <1>2 DEF CurrentCopy
<1>6. UnstartedSound'
  BY <1>1, <1>2, <1>3, <1>4 DEF UnstartedSound
<1>7. RequestsSound'
  BY <1>1, <1>2, <1>3, <1>4 DEF RequestsSound, Requesting, RequestStage
<1>8. AttemptsUnique'
  BY <1>1, <1>2 DEF AttemptsUnique, Attempting
<1>9. RecordSound'
  BY <1>1, <1>2 DEF RecordSound, InTransaction, CommittedSideEffects, AbortedSideEffects
<1>10. AttemptsSound'
  BY <1>1, <1>2 DEF AttemptsSound, AttemptSound, Attempting, Own, CompletionHeld, InTransaction
<1>11. TombstonesSound'
  BY <1>1, <1>2 DEF TombstonesSound, InTransaction
<1>12. FinishersSound'
  BY <1>1, <1>2 DEF FinishersSound, FinisherSound, Attempting, InTransaction,
     CommittedSideEffects, AbortedSideEffects
<1>13. TokensSound'
  BY <1>1, <1>2 DEF TokensSound, CompletionHeld
<1>14. PublishedOrHeld'
  BY <1>1, <1>2 DEF PublishedOrHeld, InTransaction, CommittedSideEffects
<1>15. CommittedOnly'
  BY <1>1, <1>2 DEF CommittedOnly
<1>16. OneOutcome'
  BY <1>1, <1>2 DEF OneOutcome
<1>. QED
  BY <1>5, <1>6, <1>7, <1>8, <1>9, <1>10, <1>11, <1>12, <1>13, <1>14, <1>15, <1>16 DEF IInv

(* A request arrives.                                                      *)
LEMMA RequestInv ==
  ASSUME TypeOK, IInv, NEW p \in Worker, NEW t \in Transaction, Request(p, t)
  PROVE  IInv'
<1>. USE HumanAssumption DEF IInv
<1>1. /\ pc[p] = "idle"
      /\ t \notin started
      /\ started' = started \cup {t}
      /\ tx' = [tx EXCEPT ![p] = t]
      /\ pc' = [pc EXCEPT ![p] = "load"]
      /\ UNCHANGED <<created, record, val, current, data, blobs, completions, dispatched,
                       emitted, timedOut, try, att, snapshot, tokens, outbox,
                       discard>>
  BY DEF TypeOK, Request, Goto, recordVars, storeVars, workerVars
<1>2. /\ tx \in [Worker -> Transaction \cup {None}]
      /\ pc \in [Worker -> Stage]
      /\ current \subseteq Worker
      /\ \A q \in Worker : pc[q] # "idle" => tx[q] \in Transaction
  BY DEF TypeOK
<1>3. /\ Uncompleted(t) /\ Unregistered(t) /\ data[t] = 0
      /\ try[p] = 0 /\ \A q \in Worker : tx[q] # t
  BY <1>1 DEF UnstartedSound, TypeOK
<1>4. \A u \in Transaction : Uncompleted(u) => Uncompleted(u)'
  BY <1>1, <1>2, <1>3 DEF Uncompleted
<1>5. \A u \in Transaction : Unregistered(u) => Unregistered(u)'
  BY <1>1, <1>2 DEF Unregistered
<1>6. \A u \in Transaction : CompletionHeld(u) => CompletionHeld(u)'
  BY <1>1, <1>2, <1>3 DEF CompletionHeld
<1>7. CurrentCopy'
  BY <1>1, <1>2 DEF CurrentCopy
<1>8. UnstartedSound'
  BY <1>1, <1>2, <1>3, <1>4, <1>5 DEF UnstartedSound
<1>9. RequestsSound'
  BY <1>1, <1>2, <1>3, <1>4, <1>5 DEF RequestsSound, Requesting, RequestStage
<1>10. AttemptsUnique'
  BY <1>1, <1>2 DEF AttemptsUnique, Attempting
<1>11. RecordSound'
  BY <1>1, <1>2 DEF RecordSound, InTransaction, CommittedSideEffects, AbortedSideEffects
<1>12. AttemptsSound'
  BY <1>1, <1>2, <1>3, <1>6 DEF AttemptsSound, AttemptSound, Attempting, Own, InTransaction
<1>13. TombstonesSound'
  BY <1>1, <1>2 DEF TombstonesSound, InTransaction
<1>14. FinishersSound'
  BY <1>1, <1>2 DEF FinishersSound, FinisherSound, Attempting, InTransaction,
     CommittedSideEffects, AbortedSideEffects
<1>15. TokensSound'
  BY <1>1, <1>2, <1>3, <1>6 DEF TokensSound
<1>16. PublishedOrHeld'
  BY <1>1, <1>2 DEF PublishedOrHeld, InTransaction, CommittedSideEffects
<1>17. CommittedOnly'
  BY <1>1, <1>2 DEF CommittedOnly
<1>18. OneOutcome'
  BY <1>1, <1>2 DEF OneOutcome
<1>. QED
  BY <1>7, <1>8, <1>9, <1>10, <1>11, <1>12, <1>13, <1>14, <1>15, <1>16, <1>17, <1>18 DEF IInv

(* The request gets a current copy of the record.                          *)
LEMMA LoadInv ==
  ASSUME TypeOK, IInv, NEW p \in Worker, Load(p)
  PROVE  IInv'
<1>. USE HumanAssumption DEF IInv
<1>1. /\ pc[p] = "load"
      /\ created
      /\ tx[p] \in Transaction
      /\ val' = [val EXCEPT ![p] = record]
      /\ current' = current \cup {p}
      /\ pc' = [pc EXCEPT ![p] = "register"]
      /\ UNCHANGED <<created, record, data, blobs, completions, dispatched, started, emitted,
                       timedOut, tx, try, att, snapshot, tokens, outbox, discard>>
  BY DEF TypeOK, Load, Read, Goto, recordVars, storeVars, workerVars
<1>2. /\ val \in [Worker -> Record]
      /\ pc \in [Worker -> Stage]
      /\ current \subseteq Worker
      /\ \A q \in Worker : pc[q] # "idle" => tx[q] \in Transaction
  BY DEF TypeOK
<1>3. CurrentCopy'
  BY <1>1, <1>2 DEF CurrentCopy
<1>4. UnstartedSound'
  BY <1>1, <1>2 DEF UnstartedSound, Uncompleted, Unregistered
<1>5. RequestsSound'
  BY <1>1, <1>2 DEF RequestsSound, Requesting, Uncompleted, Unregistered, RequestStage
<1>6. AttemptsUnique'
  BY <1>1, <1>2 DEF AttemptsUnique, Attempting
<1>7. RecordSound'
  BY <1>1, <1>2 DEF RecordSound, InTransaction, CommittedSideEffects, AbortedSideEffects
<1>8. AttemptsSound'
  BY <1>1, <1>2 DEF AttemptsSound, AttemptSound, Attempting, Own, CompletionHeld, InTransaction
<1>9. TombstonesSound'
  BY <1>1, <1>2 DEF TombstonesSound, InTransaction
<1>10. FinishersSound'
  BY <1>1, <1>2 DEF FinishersSound, FinisherSound, Attempting, InTransaction,
     CommittedSideEffects, AbortedSideEffects
<1>11. TokensSound'
  BY <1>1, <1>2 DEF TokensSound, CompletionHeld
<1>12. PublishedOrHeld'
  BY <1>1, <1>2 DEF PublishedOrHeld, InTransaction, CommittedSideEffects
<1>13. CommittedOnly'
  BY <1>1, <1>2 DEF CommittedOnly
<1>14. OneOutcome'
  BY <1>1, <1>2 DEF OneOutcome
<1>. QED
  BY <1>3, <1>4, <1>5, <1>6, <1>7, <1>8, <1>9, <1>10, <1>11, <1>12, <1>13, <1>14 DEF IInv

(* There is no record yet.                                                 *)
LEMMA LoadMissingInv ==
  ASSUME TypeOK, IInv, NEW p \in Worker, LoadMissing(p)
  PROVE  IInv'
<1>. USE HumanAssumption DEF IInv
<1>1. /\ pc[p] = "load"
      /\ tx[p] \in Transaction
      /\ pc' = [pc EXCEPT ![p] = "create"]
      /\ UNCHANGED <<created, record, val, current, data, blobs, completions, dispatched,
                       started, emitted, timedOut, tx, try, att, snapshot, tokens,
                       outbox, discard>>
  BY DEF TypeOK, LoadMissing, Goto, recordVars, storeVars, workerVars
<1>2. /\ pc \in [Worker -> Stage]
      /\ current \subseteq Worker
      /\ \A q \in Worker : pc[q] # "idle" => tx[q] \in Transaction
  BY DEF TypeOK
<1>3. CurrentCopy'
  BY <1>1, <1>2 DEF CurrentCopy
<1>4. UnstartedSound'
  BY <1>1, <1>2 DEF UnstartedSound, Uncompleted, Unregistered
<1>5. RequestsSound'
  BY <1>1, <1>2 DEF RequestsSound, Requesting, Uncompleted, Unregistered, RequestStage
<1>6. AttemptsUnique'
  BY <1>1, <1>2 DEF AttemptsUnique, Attempting
<1>7. RecordSound'
  BY <1>1, <1>2 DEF RecordSound, InTransaction, CommittedSideEffects, AbortedSideEffects
<1>8. AttemptsSound'
  BY <1>1, <1>2 DEF AttemptsSound, AttemptSound, Attempting, Own, CompletionHeld, InTransaction
<1>9. TombstonesSound'
  BY <1>1, <1>2 DEF TombstonesSound, InTransaction
<1>10. FinishersSound'
  BY <1>1, <1>2 DEF FinishersSound, FinisherSound, Attempting, InTransaction,
     CommittedSideEffects, AbortedSideEffects
<1>11. TokensSound'
  BY <1>1, <1>2 DEF TokensSound, CompletionHeld
<1>12. PublishedOrHeld'
  BY <1>1, <1>2 DEF PublishedOrHeld, InTransaction, CommittedSideEffects
<1>13. CommittedOnly'
  BY <1>1, <1>2 DEF CommittedOnly
<1>14. OneOutcome'
  BY <1>1, <1>2 DEF OneOutcome
<1>. QED
  BY <1>3, <1>4, <1>5, <1>6, <1>7, <1>8, <1>9, <1>10, <1>11, <1>12, <1>13, <1>14 DEF IInv

(* The record is created empty, as it was.                                 *)
LEMMA CreateRecordInv ==
  ASSUME TypeOK, IInv, NEW p \in Worker, CreateRecord(p)
  PROVE  IInv'
<1>. USE HumanAssumption DEF IInv
<1>1. /\ pc[p] = "create"
      /\ record = EmptyRecord
      /\ tx[p] \in Transaction
      /\ created' = TRUE
      /\ val' = [val EXCEPT ![p] = record]
      /\ current' = {p}
      /\ pc' = [pc EXCEPT ![p] = "register"]
      /\ UNCHANGED <<record, data, blobs, completions, dispatched, started, emitted,
                       timedOut, tx, try, att, snapshot, tokens, outbox, discard>>
  BY DEF TypeOK, CreateRecord, Create, CurrentCopy, IInv, Goto, recordVars, storeVars,
     workerVars
<1>2. /\ val \in [Worker -> Record]
      /\ pc \in [Worker -> Stage]
      /\ current \subseteq Worker
      /\ \A q \in Worker : pc[q] # "idle" => tx[q] \in Transaction
  BY DEF TypeOK
<1>3. CurrentCopy'
  BY <1>1, <1>2 DEF CurrentCopy
<1>4. UnstartedSound'
  BY <1>1, <1>2 DEF UnstartedSound, Uncompleted, Unregistered
<1>5. RequestsSound'
  BY <1>1, <1>2 DEF RequestsSound, Requesting, Uncompleted, Unregistered, RequestStage
<1>6. AttemptsUnique'
  BY <1>1, <1>2 DEF AttemptsUnique, Attempting
<1>7. RecordSound'
  BY <1>1, <1>2 DEF RecordSound, InTransaction, CommittedSideEffects, AbortedSideEffects
<1>8. AttemptsSound'
  BY <1>1, <1>2 DEF AttemptsSound, AttemptSound, Attempting, Own, CompletionHeld, InTransaction
<1>9. TombstonesSound'
  BY <1>1, <1>2 DEF TombstonesSound, InTransaction
<1>10. FinishersSound'
  BY <1>1, <1>2 DEF FinishersSound, FinisherSound, Attempting, InTransaction,
     CommittedSideEffects, AbortedSideEffects
<1>11. TokensSound'
  BY <1>1, <1>2 DEF TokensSound, CompletionHeld
<1>12. PublishedOrHeld'
  BY <1>1, <1>2 DEF PublishedOrHeld, InTransaction, CommittedSideEffects
<1>13. CommittedOnly'
  BY <1>1, <1>2 DEF CommittedOnly
<1>14. OneOutcome'
  BY <1>1, <1>2 DEF OneOutcome
<1>. QED
  BY <1>3, <1>4, <1>5, <1>6, <1>7, <1>8, <1>9, <1>10, <1>11, <1>12, <1>13, <1>14 DEF IInv

(* The request registers its complete record.                              *)
LEMMA RegisterInv ==
  ASSUME TypeOK, IInv, NEW p \in Worker, Register(p)
  PROVE  IInv'
<1>. USE HumanAssumption DEF IInv
<1>1. /\ pc[p] = "register"
      /\ p \in current
      /\ tx[p] \in Transaction
      /\ ~InTransaction(val[p])
      /\ record' = [val[p] EXCEPT !.sideEffects = @ \cup {CompleteRecord(tx[p])}]
      /\ val' = [val EXCEPT ![p] = record']
      /\ current' = {p}
      /\ pc' = [pc EXCEPT ![p] = "token"]
      /\ UNCHANGED <<created, data, blobs, completions, dispatched, started, emitted,
                       timedOut, tx, try, att, snapshot, tokens, outbox, discard>>
  BY DEF TypeOK, Register, AddSideEffects, Replace, EtagMatches, Goto, recordVars, storeVars,
     workerVars
<1>2. /\ val \in [Worker -> Record]
      /\ pc \in [Worker -> Stage]
      /\ current \subseteq Worker
      /\ \A q \in Worker : pc[q] # "idle" => tx[q] \in Transaction
  BY DEF TypeOK
<1>3. /\ val[p] = record /\ ~InTransaction(record) /\ record.attemptId = None
      /\ record \in Record /\ Unregistered(tx[p]) /\ tx[p] \in started /\ Requesting(p)
  BY <1>1 DEF CurrentCopy, RecordSound, RequestsSound, UnstartedSound, TypeOK, Requesting,
     RequestStage
<1>4. /\ record'.messageId = None /\ record'.attemptId = None
      /\ record'.sideEffects = record.sideEffects \cup {CompleteRecord(tx[p])}
      /\ val'[p] = record'
  BY <1>1, <1>2, <1>3 DEF Record, InTransaction
<1>5. CompleteRecord(tx[p]) \notin OutgoingMessage
  BY <1>1, CompleteRecordType
<1>6. \A q \in Worker : tx[p] \notin tokens[q]
  BY <1>3 DEF AttemptsSound, AttemptSound, FinishersSound, FinisherSound, Unregistered
<1>7. \A u \in Transaction : Uncompleted(u) => Uncompleted(u)'
  BY <1>1, <1>2 DEF Uncompleted
<1>8. \A u \in Transaction : Unregistered(u) /\ u # tx[p] => Unregistered(u)'
  BY <1>1, <1>2, <1>3, <1>4 DEF Unregistered, CompleteRecord
<1>9. \A u \in Transaction : CompletionHeld(u) => CompletionHeld(u)'
  BY <1>1, <1>2 DEF CompletionHeld
<1>10. CurrentCopy'
  BY <1>1, <1>2 DEF CurrentCopy
<1>11. UnstartedSound'
  BY <1>1, <1>2, <1>3, <1>7, <1>8 DEF UnstartedSound
<1>12. RequestsSound'
  <2>1. Uncompleted(tx[p])
    BY <1>1 DEF RequestsSound, RequestStage
  <2>2. \A q \in Worker : q # p /\ pc[q] \in {"load", "create", "register"} => Requesting(q)
    BY DEF TypeOK, Requesting, RequestStage
  <2>3. \A q \in Worker : q # p /\ pc[q] \in {"load", "create", "register"} => tx[q] # tx[p]
    BY <1>3, <2>2 DEF RequestsSound
  <2>4. \A q \in Worker : Requesting(q)' = Requesting(q)
    BY <1>1, <1>2 DEF Requesting
  <2>. QED
    BY <1>1, <1>2, <1>7, <1>8, <2>1, <2>3, <2>4 DEF RequestsSound, RequestStage
<1>13. AttemptsUnique'
  BY <1>1, <1>2 DEF AttemptsUnique, Attempting
<1>14. RecordSound'
  <2>1. emitted \subseteq OutgoingMessage
    BY DEF TypeOK
  <2>. QED
    BY <1>1, <1>3, <1>4, <1>5, <2>1 DEF RecordSound, InTransaction, AbortedSideEffects
<1>15. AttemptsSound'
  BY <1>1, <1>2, <1>3, <1>9, <1>4, <1>6 DEF AttemptsSound, AttemptSound, Attempting, Own,
     InTransaction
<1>16. TombstonesSound'
  BY <1>1, <1>2 DEF TombstonesSound, InTransaction
<1>17. FinishersSound'
  BY <1>1, <1>2 DEF FinishersSound, FinisherSound, Attempting, InTransaction,
     CommittedSideEffects, AbortedSideEffects
<1>18. TokensSound'
  BY <1>1, <1>2, <1>3, <1>9, <1>4 DEF TokensSound
<1>19. PublishedOrHeld'
  BY <1>1, <1>3, <1>4 DEF PublishedOrHeld, InTransaction
<1>20. CommittedOnly'
  BY <1>1, <1>2 DEF CommittedOnly
<1>21. OneOutcome'
  BY <1>1, <1>2 DEF OneOutcome
<1>. QED
  BY <1>10, <1>11, <1>12, <1>13, <1>14, <1>15, <1>16, <1>17, <1>18, <1>19, <1>20, <1>21 DEF IInv

(* The request creates its token.                                          *)
LEMMA CreateTokenInv ==
  ASSUME TypeOK, IInv, NEW p \in Worker, CreateToken(p)
  PROVE  IInv'
<1>. USE HumanAssumption DEF IInv
<1>1. /\ pc[p] = "token"
      /\ tx[p] \in Transaction
      /\ blobs' = blobs \cup {tx[p]}
      /\ pc' = [pc EXCEPT ![p] = "check"]
      /\ UNCHANGED <<created, record, val, current, data, completions, dispatched, started,
                       emitted, timedOut, tx, try, att, snapshot, tokens, outbox,
                       discard>>
  BY DEF TypeOK, CreateToken, Goto, recordVars, storeVars, workerVars
<1>2. /\ pc \in [Worker -> Stage]
      /\ current \subseteq Worker
      /\ \A q \in Worker : pc[q] # "idle" => tx[q] \in Transaction
  BY DEF TypeOK
<1>3. data[tx[p]] = 0 /\ record.messageId # tx[p]
  BY <1>1 DEF RequestsSound, RecordSound, RequestStage, Uncompleted, InTransaction
<1>4. CurrentCopy'
  BY <1>1, <1>2 DEF CurrentCopy
<1>5. UnstartedSound'
  BY <1>1, <1>2 DEF UnstartedSound, Uncompleted, Unregistered
<1>6. RequestsSound'
  BY <1>1, <1>2 DEF RequestsSound, Requesting, Uncompleted, Unregistered, RequestStage
<1>7. AttemptsUnique'
  BY <1>1, <1>2 DEF AttemptsUnique, Attempting
<1>8. RecordSound'
  BY <1>1, <1>2 DEF RecordSound, InTransaction, CommittedSideEffects, AbortedSideEffects
<1>9. AttemptsSound'
  BY <1>1, <1>2 DEF AttemptsSound, AttemptSound, Attempting, Own, CompletionHeld, InTransaction
<1>10. TombstonesSound'
  BY <1>1, <1>2 DEF TombstonesSound, InTransaction
<1>11. FinishersSound'
  BY <1>1, <1>2, <1>3 DEF FinishersSound, FinisherSound, Attempting, InTransaction,
     CommittedSideEffects, AbortedSideEffects
<1>12. TokensSound'
  BY <1>1, <1>2, <1>3 DEF TokensSound, CompletionHeld
<1>13. PublishedOrHeld'
  BY <1>1, <1>2 DEF PublishedOrHeld, InTransaction, CommittedSideEffects
<1>14. CommittedOnly'
  BY <1>1, <1>2 DEF CommittedOnly
<1>15. OneOutcome'
  BY <1>1, <1>2 DEF OneOutcome
<1>. QED
  BY <1>4, <1>5, <1>6, <1>7, <1>8, <1>9, <1>10, <1>11, <1>12, <1>13, <1>14, <1>15 DEF IInv

(* An attempt begins.                                                      *)
LEMMA CheckTokenInv ==
  ASSUME TypeOK, IInv, NEW p \in Worker, NEW a \in Attempt, att' = [att EXCEPT ![p] = a],
         Unused(a), CheckToken(p)
  PROVE  IInv'
<1>. USE HumanAssumption DEF IInv
<1>1. /\ pc[p] = "check"
      /\ tx[p] \in Transaction
      /\ tx[p] \in blobs
      /\ pc' = [pc EXCEPT ![p] = "read"]
      /\ UNCHANGED <<created, record, val, current, data, blobs, completions, dispatched,
                       started, emitted, timedOut, tx, try, snapshot, tokens,
                       outbox, discard>>
  BY DEF TypeOK, CheckToken, Goto, recordVars, storeVars, workerVars
<1>2. /\ att \in [Worker -> Guid]
      /\ pc \in [Worker -> Stage]
      /\ current \subseteq Worker
      /\ \A q \in Worker : pc[q] # "idle" => tx[q] \in Transaction
  BY DEF TypeOK
<1>3. /\ \A q \in Worker : att[q] # a /\ \A e \in val[q].sideEffects : e.attemptId # a
      /\ \A m \in emitted : m.attemptId # a
      /\ a # None
  <2>1. \A m \in OutgoingMessage : m.slot \in Slot /\ m = [attemptId |-> m.attemptId,
  slot |-> m.slot]
    BY DEF OutgoingMessage
  <2>2. emitted \subseteq OutgoingMessage
    BY DEF TypeOK
  <2>. QED
    BY <2>1, <2>2 DEF Unused
<1>4. CurrentCopy'
  BY <1>1, <1>2 DEF CurrentCopy
<1>5. UnstartedSound'
  BY <1>1, <1>2 DEF UnstartedSound, Uncompleted, Unregistered
<1>6. RequestsSound'
  BY <1>1, <1>2 DEF RequestsSound, Requesting, Uncompleted, Unregistered, RequestStage
<1>7. AttemptsUnique'
  BY <1>1, <1>2, <1>3 DEF AttemptsUnique, Attempting
<1>8. RecordSound'
  BY <1>1, <1>2 DEF RecordSound, InTransaction, CommittedSideEffects, AbortedSideEffects
<1>9. AttemptsSound'
  BY <1>1, <1>2, <1>3 DEF AttemptsSound, AttemptSound, Attempting, Own, CompletionHeld,
     InTransaction
<1>10. TombstonesSound'
  BY <1>1, <1>2 DEF TombstonesSound, InTransaction
<1>11. FinishersSound'
  BY <1>1, <1>2, <1>3 DEF FinishersSound, FinisherSound, Attempting, AbortedSideEffects
<1>12. TokensSound'
  BY <1>1, <1>2 DEF TokensSound, CompletionHeld
<1>13. PublishedOrHeld'
  BY <1>1, <1>2 DEF PublishedOrHeld, InTransaction, CommittedSideEffects
<1>14. CommittedOnly'
  BY <1>1, <1>2 DEF CommittedOnly
<1>15. OneOutcome'
  BY <1>1, <1>2 DEF OneOutcome
<1>. QED
  BY <1>4, <1>5, <1>6, <1>7, <1>8, <1>9, <1>10, <1>11, <1>12, <1>13, <1>14, <1>15 DEF IInv

(* The attempt reads the business data.                                    *)
LEMMA ReadDataInv ==
  ASSUME TypeOK, IInv, NEW p \in Worker, ReadData(p)
  PROVE  IInv'
<1>. USE HumanAssumption DEF IInv
<1>1. /\ pc[p] = "read"
      /\ tx[p] \in Transaction
      /\ snapshot' = [snapshot EXCEPT ![p] = data]
      /\ pc' = [pc EXCEPT ![p] = "transaction"]
      /\ UNCHANGED <<created, record, val, current, data, blobs, completions, dispatched,
                       started, emitted, timedOut, tx, try, att, tokens, outbox,
                       discard>>
  BY DEF TypeOK, ReadData, Goto, recordVars, storeVars, workerVars
<1>2. /\ snapshot \in [Worker -> [Transaction -> Nat]]
      /\ pc \in [Worker -> Stage]
      /\ current \subseteq Worker
      /\ \A q \in Worker : pc[q] # "idle" => tx[q] \in Transaction
  BY DEF TypeOK
<1>3. CurrentCopy'
  BY <1>1, <1>2 DEF CurrentCopy
<1>4. UnstartedSound'
  BY <1>1, <1>2 DEF UnstartedSound, Uncompleted, Unregistered
<1>5. RequestsSound'
  BY <1>1, <1>2 DEF RequestsSound, Requesting, Uncompleted, Unregistered, RequestStage
<1>6. AttemptsUnique'
  BY <1>1, <1>2 DEF AttemptsUnique, Attempting
<1>7. RecordSound'
  BY <1>1, <1>2 DEF RecordSound, InTransaction, CommittedSideEffects, AbortedSideEffects
<1>8. AttemptsSound'
  BY <1>1, <1>2 DEF AttemptsSound, AttemptSound, Attempting, Own, CompletionHeld, InTransaction
<1>9. TombstonesSound'
  BY <1>1, <1>2 DEF TombstonesSound, InTransaction
<1>10. FinishersSound'
  BY <1>1, <1>2 DEF FinishersSound, FinisherSound, Attempting, InTransaction,
     CommittedSideEffects, AbortedSideEffects
<1>11. TokensSound'
  BY <1>1, <1>2 DEF TokensSound, CompletionHeld
<1>12. PublishedOrHeld'
  BY <1>1, <1>2 DEF PublishedOrHeld, InTransaction, CommittedSideEffects
<1>13. CommittedOnly'
  BY <1>1, <1>2 DEF CommittedOnly
<1>14. OneOutcome'
  BY <1>1, <1>2 DEF OneOutcome
<1>. QED
  BY <1>3, <1>4, <1>5, <1>6, <1>7, <1>8, <1>9, <1>10, <1>11, <1>12, <1>13, <1>14 DEF IInv

(* The attempt registers a message.                                        *)
LEMMA SendInv ==
  ASSUME TypeOK, IInv, NEW p \in Worker, NEW s \in Slot, Send(p, s)
  PROVE  IInv'
<1>. USE HumanAssumption DEF IInv
<1>1. /\ pc[p] = "transaction"
      /\ p \in current
      /\ tx[p] \in Transaction
      /\ record' = [val[p] EXCEPT !.sideEffects = @ \cup {[attemptId |-> att[p], slot |-> s]}]
      /\ val' = [val EXCEPT ![p] = record']
      /\ current' = {p}
      /\ outbox' = [outbox EXCEPT ![p] = {[attemptId |-> att[p], slot |-> s]}]
      /\ pc' = [pc EXCEPT ![p] = "upload"]
      /\ UNCHANGED <<created, data, blobs, completions, dispatched, started, emitted,
                       timedOut, tx, try, att, snapshot, tokens, discard>>
  BY DEF TypeOK, Send, AddSideEffects, Replace, EtagMatches, Goto, recordVars, storeVars,
     workerVars
<1>2. /\ val \in [Worker -> Record]
      /\ outbox \in [Worker -> SUBSET OutgoingMessage]
      /\ pc \in [Worker -> Stage]
      /\ current \subseteq Worker
      /\ \A q \in Worker : pc[q] # "idle" => tx[q] \in Transaction
  BY DEF TypeOK
<1>3. /\ val[p] = record /\ ~InTransaction(record) /\ record.attemptId = None
      /\ record \in Record /\ tx[p] \in started
  BY <1>1 DEF CurrentCopy, RecordSound, AttemptsSound, AttemptSound, Attempting, UnstartedSound,
     TypeOK
<1>4. /\ record'.messageId = None /\ record'.attemptId = None
      /\ record'.sideEffects = record.sideEffects \cup {[attemptId |-> att[p], slot |-> s]}
      /\ val'[p] = record'
  BY <1>1, <1>2, <1>3 DEF Record, InTransaction
<1>5. /\ [attemptId |-> att[p], slot |-> s] \notin emitted
      /\ \A u \in Transaction : CompleteRecord(u) # [attemptId |-> att[p], slot |-> s]
  <2>1. att[p] # None /\ att[p] \in Guid /\ \A m \in emitted : m.attemptId # att[p]
    BY <1>1 DEF AttemptsUnique, Attempting, TypeOK
  <2>2. [attemptId |-> att[p], slot |-> s] \in OutgoingMessage
    BY <2>1 DEF OutgoingMessage, Guid
  <2>. QED
    BY <2>1, <2>2, CompleteRecordType
<1>6. \A u \in Transaction : Uncompleted(u) => Uncompleted(u)'
  BY <1>1, <1>2 DEF Uncompleted
<1>7. \A u \in Transaction : Unregistered(u) => Unregistered(u)'
  BY <1>1, <1>2, <1>3, <1>4, <1>5 DEF Unregistered
<1>8. \A u \in Transaction : CompletionHeld(u) => CompletionHeld(u)'
  BY <1>1, <1>2 DEF CompletionHeld
<1>9. CurrentCopy'
  BY <1>1, <1>2 DEF CurrentCopy
<1>10. UnstartedSound'
  BY <1>1, <1>2, <1>3, <1>6, <1>7 DEF UnstartedSound
<1>11. RequestsSound'
  BY <1>1, <1>2, <1>3, <1>6, <1>7 DEF RequestsSound, Requesting, RequestStage
<1>12. AttemptsUnique'
  BY <1>1, <1>2 DEF AttemptsUnique, Attempting
<1>13. RecordSound'
  BY <1>1, <1>3, <1>4, <1>5 DEF RecordSound, InTransaction, AbortedSideEffects
<1>14. AttemptsSound'
  BY <1>1, <1>2, <1>3, <1>8, <1>4, <1>5 DEF AttemptsSound, AttemptSound, Attempting, Own,
     InTransaction
<1>15. TombstonesSound'
  BY <1>1, <1>2 DEF TombstonesSound, InTransaction
<1>16. FinishersSound'
  BY <1>1, <1>2 DEF FinishersSound, FinisherSound, Attempting, InTransaction,
     CommittedSideEffects, AbortedSideEffects
<1>17. TokensSound'
  BY <1>1, <1>2, <1>3, <1>8, <1>4 DEF TokensSound
<1>18. PublishedOrHeld'
  BY <1>1, <1>3, <1>4 DEF PublishedOrHeld, InTransaction
<1>19. CommittedOnly'
  BY <1>1, <1>2 DEF CommittedOnly
<1>20. OneOutcome'
  BY <1>1, <1>2 DEF OneOutcome
<1>. QED
  BY <1>9, <1>10, <1>11, <1>12, <1>13, <1>14, <1>15, <1>16, <1>17, <1>18, <1>19, <1>20 DEF IInv

(* The attempt uploads the body of its message.                            *)
LEMMA UploadInv ==
  ASSUME TypeOK, IInv, NEW p \in Worker, Upload(p)
  PROVE  IInv'
<1>. USE HumanAssumption DEF IInv
<1>1. /\ pc[p] = "upload"
      /\ tx[p] \in Transaction
      /\ blobs' = blobs \cup outbox[p]
      /\ outbox' = [outbox EXCEPT ![p] = {}]
      /\ pc' = [pc EXCEPT ![p] = "transaction"]
      /\ UNCHANGED <<created, record, val, current, data, completions, dispatched, started,
                       emitted, timedOut, tx, try, att, snapshot, tokens, discard>>
  BY DEF TypeOK, Upload, Goto, recordVars, storeVars, workerVars
<1>2. /\ outbox \in [Worker -> SUBSET OutgoingMessage]
      /\ pc \in [Worker -> Stage]
      /\ current \subseteq Worker
      /\ \A q \in Worker : pc[q] # "idle" => tx[q] \in Transaction
  BY DEF TypeOK
<1>3. /\ outbox[p] \cap Transaction = {}
      /\ \A q \in Worker : val[q].messageId \in Transaction \cup {None}
  BY DEF TypeOK, Record
<1>4. CurrentCopy'
  BY <1>1, <1>2 DEF CurrentCopy
<1>5. UnstartedSound'
  BY <1>1, <1>2 DEF UnstartedSound, Uncompleted, Unregistered
<1>6. RequestsSound'
  BY <1>1, <1>2 DEF RequestsSound, Requesting, Uncompleted, Unregistered, RequestStage
<1>7. AttemptsUnique'
  BY <1>1, <1>2 DEF AttemptsUnique, Attempting
<1>8. RecordSound'
  BY <1>1, <1>2 DEF RecordSound, InTransaction, CommittedSideEffects, AbortedSideEffects
<1>9. AttemptsSound'
  BY <1>1, <1>2 DEF AttemptsSound, AttemptSound, Attempting, Own, CompletionHeld, InTransaction
<1>10. TombstonesSound'
  BY <1>1, <1>2 DEF TombstonesSound, InTransaction
<1>11. FinishersSound'
  BY <1>1, <1>2, <1>3 DEF FinishersSound, FinisherSound, Attempting, InTransaction,
     CommittedSideEffects, AbortedSideEffects
<1>12. TokensSound'
  BY <1>1, <1>2 DEF TokensSound, CompletionHeld
<1>13. PublishedOrHeld'
  BY <1>1, <1>2 DEF PublishedOrHeld, InTransaction, CommittedSideEffects
<1>14. CommittedOnly'
  BY <1>1, <1>2 DEF CommittedOnly
<1>15. OneOutcome'
  BY <1>1, <1>2 DEF OneOutcome
<1>. QED
  BY <1>4, <1>5, <1>6, <1>7, <1>8, <1>9, <1>10, <1>11, <1>12, <1>13, <1>14, <1>15 DEF IInv

(* The request sends its complete message.                                 *)
LEMMA EnqueueCompleteInv ==
  ASSUME TypeOK, IInv, NEW p \in Worker, EnqueueComplete(p)
  PROVE  IInv'
<1>. USE HumanAssumption DEF IInv
<1>1. /\ pc[p] = "transaction"
      /\ tx[p] \in Transaction
      /\ completions' = completions \cup {[transactionId |-> tx[p], attempt |-> 1]}
      /\ pc' = [pc EXCEPT ![p] = "commit"]
      /\ UNCHANGED <<created, record, val, current, data, blobs, dispatched, started,
                       emitted, timedOut, tx, try, att, snapshot, tokens, outbox,
                       discard>>
  BY DEF TypeOK, EnqueueComplete, Goto, recordVars, storeVars, workerVars
<1>2. /\ pc \in [Worker -> Stage]
      /\ current \subseteq Worker
      /\ \A q \in Worker : pc[q] # "idle" => tx[q] \in Transaction
  BY DEF TypeOK
<1>3. \A u \in Transaction : Uncompleted(u) /\ u # tx[p] => Uncompleted(u)'
  BY <1>1, <1>2 DEF Uncompleted
<1>4. /\ Uncompleted(tx[p]) /\ Requesting(p)
      /\ \A q \in Worker : Requesting(q) /\ tx[q] = tx[p] => q = p
  BY <1>1 DEF RequestsSound, TypeOK, Requesting, RequestStage
<1>5. \A u \in Transaction : CompletionHeld(u) \/ u = tx[p] => CompletionHeld(u)'
  <2>1. [transactionId |-> tx[p], attempt |-> 1] \in completions'
    BY <1>1
  <2>2. CompletionHeld(tx[p])'
    BY <1>1, <2>1 DEF CompletionHeld
  <2>3. \A u \in Transaction : CompletionHeld(u) => CompletionHeld(u)'
    BY <1>1, <1>2 DEF CompletionHeld
  <2>. QED
    BY <1>1, <2>2, <2>3
<1>6. \A u \in Transaction : Unregistered(u) => Unregistered(u)'
  BY <1>1, <1>2 DEF Unregistered
<1>7. CurrentCopy'
  BY <1>1, <1>2 DEF CurrentCopy
<1>8. UnstartedSound'
  BY <1>1, <1>2 DEF UnstartedSound, Uncompleted, Unregistered
<1>9. RequestsSound'
  <2>1. \A q \in Worker : pc[q] \in RequestStage => Requesting(q)
    BY DEF TypeOK, Requesting, RequestStage
  <2>2. \A q \in Worker : q # p /\ pc[q] \in RequestStage => tx[q] # tx[p]
    BY <1>4, <2>1
  <2>3. \A q \in Worker : Requesting(q)' = Requesting(q)
    BY <1>1, <1>2 DEF Requesting
  <2>. QED
    BY <1>1, <1>2, <1>3, <1>6, <2>2, <2>3 DEF RequestsSound, RequestStage
<1>10. AttemptsUnique'
  BY <1>1, <1>2 DEF AttemptsUnique, Attempting
<1>11. RecordSound'
  BY <1>1, <1>2 DEF RecordSound, InTransaction, CommittedSideEffects, AbortedSideEffects
<1>12. AttemptsSound'
  BY <1>1, <1>2, <1>4, <1>5 DEF AttemptsSound, AttemptSound, Attempting, Own, InTransaction,
     Uncompleted
<1>13. TombstonesSound'
  BY <1>1, <1>2 DEF TombstonesSound, InTransaction
<1>14. FinishersSound'
  BY <1>1, <1>2 DEF FinishersSound, FinisherSound, Attempting, InTransaction,
     CommittedSideEffects, AbortedSideEffects
<1>15. TokensSound'
  BY <1>1, <1>2 DEF TokensSound, CompletionHeld
<1>16. PublishedOrHeld'
  BY <1>1, <1>2 DEF PublishedOrHeld, InTransaction, CommittedSideEffects
<1>17. CommittedOnly'
  BY <1>1, <1>2 DEF CommittedOnly
<1>18. OneOutcome'
  BY <1>1, <1>2 DEF OneOutcome
<1>. QED
  BY <1>7, <1>8, <1>9, <1>10, <1>11, <1>12, <1>13, <1>14, <1>15, <1>16, <1>17, <1>18 DEF IInv

(* The request commits: it did not before, its tombstone was not           *)
(* committed, and no other attempt can commit on what it read.             *)
LEMMA CommitInv ==
  ASSUME TypeOK, IInv, NEW p \in Worker, Commit(p)
  PROVE  IInv'
<1>. USE HumanAssumption DEF IInv
<1>1. /\ pc[p] = "commit"
      /\ p \in current
      /\ tx[p] \in Transaction
      /\ record' = [val[p] EXCEPT !.messageId = tx[p], !.attemptId = att[p]]
      /\ val' = [val EXCEPT ![p] = record']
      /\ current' = {p}
      /\ data' = [snapshot[p] EXCEPT ![tx[p]] = @ + 1]
      /\ emitted' = emitted \cup Own(p)
      /\ pc' = [pc EXCEPT ![p] = "done"]
      /\ UNCHANGED <<created, blobs, completions, dispatched, started, timedOut, tx, try,
                       att, snapshot, tokens, outbox, discard>>
  BY DEF TypeOK, Commit, CommitStateTransition, Replace, EtagMatches, Apply, Goto, recordVars,
     storeVars, workerVars
<1>2. /\ val \in [Worker -> Record]
      /\ data \in [Transaction -> Nat]
      /\ pc \in [Worker -> Stage]
      /\ current \subseteq Worker
      /\ \A q \in Worker : pc[q] # "idle" => tx[q] \in Transaction
  BY DEF TypeOK
<1>3. /\ val[p] = record /\ ~InTransaction(record) /\ record.attemptId = None
      /\ record \in Record /\ att[p] \in Attempt /\ \A m \in emitted : m \in dispatched
  BY <1>1 DEF CurrentCopy, RecordSound, AttemptsSound, AttemptSound, TombstonesSound, Attempting,
     PublishedOrHeld, TypeOK, Guid
<1>4. /\ record'.messageId = tx[p] /\ record'.attemptId = att[p]
      /\ record'.sideEffects = record.sideEffects /\ val'[p] = record' /\ record' \in Record
  BY <1>1, <1>2, <1>3 DEF Record, Guid
<1>5. /\ data[tx[p]] = 0 /\ snapshot[p] = data /\ tx[p] \in blobs /\ tx[p] \in started
      /\ Own(p) \subseteq blobs /\ tx[p] \notin timedOut /\ CompletionHeld(tx[p])
      /\ CompleteRecord(tx[p]) \in record.sideEffects
  <2>1. data[tx[p]] = 0 /\ tx[p] \in started
    BY <1>1 DEF RequestsSound, RequestStage, UnstartedSound
  <2>. QED
    BY <1>1, <1>3, <2>1 DEF AttemptsSound, AttemptSound, Attempting
<1>6. /\ data \in [Transaction -> Nat]
      /\ \A u \in Transaction : data'[u] = IF u = tx[p] THEN 1 ELSE data[u]
  <2>1. data \in [Transaction -> Nat]
    BY DEF TypeOK
  <2>. QED
    BY <1>1, <1>5, <2>1
<1>7. /\ CommittedSideEffects(record') \cap OutgoingMessage = Own(p)
      /\ AbortedSideEffects(record') \cap emitted' = {}
      /\ \A m \in Own(p) : m.attemptId = att[p]
  <2>1. AbortedSideEffects(record) = record.sideEffects
    BY <1>3, SideEffectsType DEF AbortedSideEffects
  <2>2. AbortedSideEffects(record') \subseteq record.sideEffects
    BY <1>4 DEF AbortedSideEffects
  <2>3. \A m \in Own(p) : m.attemptId = att[p]
    BY DEF Own
  <2>4. \A e \in AbortedSideEffects(record') : e.attemptId # att[p]
    BY <1>4 DEF AbortedSideEffects
  <2>5. CommittedSideEffects(record') \cap OutgoingMessage = Own(p)
    BY <1>3, <1>4 DEF CommittedSideEffects, Own
  <2>. QED
    BY <1>1, <2>1, <2>2, <2>3, <2>4, <2>5 DEF RecordSound
<1>8. \A u \in Transaction : Uncompleted(u) => Uncompleted(u)'
  BY <1>1, <1>2 DEF Uncompleted
<1>9. \A u \in Transaction : Unregistered(u) => Unregistered(u)'
  BY <1>1, <1>2, <1>3, <1>4 DEF Unregistered
<1>10. \A u \in Transaction : CompletionHeld(u) => CompletionHeld(u)'
  BY <1>1, <1>2, TypeOK DEF CompletionHeld, TypeOK, RequestStage
<1>11. CurrentCopy'
  BY <1>1, <1>2 DEF CurrentCopy
<1>12. UnstartedSound'
  BY <1>1, <1>2, <1>5, <1>8, <1>9 DEF UnstartedSound
<1>13. RequestsSound'
  <2>1. Requesting(p)
    BY <1>1 DEF Requesting, TypeOK, RequestStage
  <2>2. \A q \in Worker :
           q # p /\ pc[q] \in RequestStage => tx[q] # tx[p] /\ tx[q] \in Transaction
    BY <2>1 DEF RequestsSound, Requesting, TypeOK, RequestStage
  <2>. QED
    BY <1>1, <1>2, <1>6, <1>8, <1>9, <2>2 DEF RequestsSound, Requesting, RequestStage
<1>14. AttemptsUnique'
  <2>1. \A q \in Worker : Attempting(q)' => q # p /\ Attempting(q) /\ att[q] # att[p]
    BY <1>1, <1>2, <1>3 DEF AttemptsUnique, Attempting
  <2>. QED
    BY <1>1, <1>7, <2>1 DEF AttemptsUnique
<1>15. RecordSound'
  <2>1. InTransaction(record') /\ att[p] # None
    BY <1>1, <1>3, <1>4 DEF InTransaction
  <2>. QED
    BY <1>1, <1>4, <1>5, <1>6, <1>7, <2>1 DEF RecordSound
<1>16. AttemptsSound'
  BY <1>1, <1>2 DEF AttemptsSound, AttemptSound, Attempting, Own, CompletionHeld, InTransaction
<1>17. TombstonesSound'
  BY <1>1, <1>2 DEF TombstonesSound, InTransaction
<1>18. FinishersSound'
  <2>. SUFFICES ASSUME NEW q \in Worker, pc'[q] = "publish" PROVE FinisherSound(q)'
    BY DEF FinishersSound
  <2>1. \A s \in current' : ~Attempting(s)'
    BY <1>1, <1>2 DEF Attempting
  <2>2. q # p
    BY <1>1, <1>2
  <2>3. /\ FinisherSound(q) /\ pc'[q] = pc[q] /\ val'[q] = val[q] /\ q \notin current'
    BY <1>1, <1>2, <2>2 DEF FinishersSound
  <2>4. discard[q] \cap Own(p) = {}
    BY <1>1, <1>7, <2>3 DEF FinisherSound, Attempting
  <2>. QED
    BY <1>1, <2>1, <2>3, <2>4 DEF FinisherSound, InTransaction
<1>19. TokensSound'
  <2>1. \A u \in Transaction : data[u] = 1 => u \notin blobs
    BY <1>3 DEF TokensSound, InTransaction
  <2>2. CompletionHeld(tx[p])'
    BY <1>1, <1>5, <1>10
  <2>. QED
    BY <1>1, <1>4, <1>6, <2>1, <2>2 DEF TokensSound
<1>20. PublishedOrHeld'
  <2>1. InTransaction(record')
    BY <1>1, <1>4 DEF InTransaction
  <2>. QED
    BY <1>1, <1>3, <1>7, <2>1 DEF PublishedOrHeld
<1>21. CommittedOnly'
  BY <1>1, <1>5 DEF CommittedOnly
<1>22. OneOutcome'
  BY <1>1, <1>5, <1>6 DEF OneOutcome
<1>. QED
  BY <1>11, <1>12, <1>13, <1>14, <1>15, <1>16, <1>17, <1>18, <1>19, <1>20, <1>21, <1>22 DEF IInv

(* A worker takes a complete message from the transport.                   *)
LEMMA ReceiveInv ==
  ASSUME TypeOK, IInv, NEW p \in Worker, NEW c \in CompleteMessage, Receive(p, c)
  PROVE  IInv'
<1>. USE HumanAssumption DEF IInv
<1>1. /\ pc[p] = "idle"
      /\ c \in completions
      /\ completions' = completions \ {c}
      /\ tx' = [tx EXCEPT ![p] = c.transactionId]
      /\ try' = [try EXCEPT ![p] = c.attempt]
      /\ pc' = [pc EXCEPT ![p] = "exists"]
      /\ UNCHANGED <<created, record, val, current, data, blobs, dispatched, started,
                       emitted, timedOut, att, snapshot, tokens, outbox, discard>>
  BY DEF TypeOK, Receive, Goto, recordVars, storeVars, workerVars
<1>2. /\ tx \in [Worker -> Transaction \cup {None}]
      /\ try \in [Worker -> 0..MaxAttempts]
      /\ pc \in [Worker -> Stage]
      /\ current \subseteq Worker
      /\ \A q \in Worker : pc[q] # "idle" => tx[q] \in Transaction
      /\ try[p] \in Nat
  BY DEF TypeOK
<1>3. c.transactionId \in Transaction /\ c.attempt \in Nat /\ c.attempt > 0 /\ try[p] = 0
  BY <1>1 DEF CompleteMessage, TypeOK
<1>4. \A u \in Transaction : Uncompleted(u) => Uncompleted(u)'
  BY <1>1, <1>2, <1>3 DEF Uncompleted
<1>5. \A u \in Transaction : Unregistered(u) => Unregistered(u)'
  BY <1>1, <1>2 DEF Unregistered
<1>6. \A u \in Transaction : CompletionHeld(u) => CompletionHeld(u)'
  BY <1>1, <1>2, <1>3 DEF CompletionHeld
<1>7. c.transactionId \in started
  BY <1>1, <1>3 DEF UnstartedSound, Uncompleted
<1>8. CurrentCopy'
  BY <1>1, <1>2 DEF CurrentCopy
<1>9. UnstartedSound'
  BY <1>1, <1>2, <1>3, <1>4, <1>5, <1>7 DEF UnstartedSound
<1>10. RequestsSound'
  BY <1>1, <1>2, <1>3, <1>4, <1>5 DEF RequestsSound, Requesting, RequestStage
<1>11. AttemptsUnique'
  BY <1>1, <1>2 DEF AttemptsUnique, Attempting
<1>12. RecordSound'
  BY <1>1, <1>2 DEF RecordSound, InTransaction, CommittedSideEffects, AbortedSideEffects
<1>13. AttemptsSound'
  BY <1>1, <1>2, <1>3, <1>6 DEF AttemptsSound, AttemptSound, Attempting, Own, InTransaction
<1>14. TombstonesSound'
  BY <1>1, <1>2 DEF TombstonesSound, InTransaction
<1>15. FinishersSound'
  BY <1>1, <1>2 DEF FinishersSound, FinisherSound, Attempting, InTransaction,
     CommittedSideEffects, AbortedSideEffects
<1>16. TokensSound'
  BY <1>1, <1>2, <1>3, <1>6 DEF TokensSound
<1>17. PublishedOrHeld'
  BY <1>1, <1>2 DEF PublishedOrHeld, InTransaction, CommittedSideEffects
<1>18. CommittedOnly'
  BY <1>1, <1>2 DEF CommittedOnly
<1>19. OneOutcome'
  BY <1>1, <1>2 DEF OneOutcome
<1>. QED
  BY <1>8, <1>9, <1>10, <1>11, <1>12, <1>13, <1>14, <1>15, <1>16, <1>17, <1>18, <1>19 DEF IInv

(* A complete message that a worker has is delivered again.                *)
LEMMA RedeliverInv ==
  ASSUME TypeOK, IInv, NEW p \in Worker, Redeliver(p)
  PROVE  IInv'
<1>. USE HumanAssumption DEF IInv
<1>1. /\ try[p] > 0
      /\ completions' = completions \cup {InHand(p)}
      /\ UNCHANGED <<created, record, val, current, data, blobs, dispatched, started,
                       emitted, timedOut, pc, tx, try, att, snapshot, tokens,
                       outbox, discard>>
  BY DEF TypeOK, Redeliver, Goto, recordVars, storeVars, workerVars
<1>2. /\ current \subseteq Worker
  BY DEF TypeOK
<1>3. \A u \in Transaction : Uncompleted(u) => Uncompleted(u)'
  BY <1>1, <1>2 DEF Uncompleted, InHand
<1>4. pc[p] \in {"idle", "load", "create"} => try[p] = 0
  BY DEF TypeOK, RequestStage
<1>5. CurrentCopy'
  BY <1>1, <1>4 DEF CurrentCopy
<1>6. UnstartedSound'
  BY <1>1, <1>3 DEF UnstartedSound, Unregistered
<1>7. RequestsSound'
  <2>1. \A u \in Transaction : Unregistered(u) => Unregistered(u)'
    BY <1>1 DEF Unregistered
  <2>2. \A q \in Worker : pc[q] \in RequestStage => tx[q] \in Transaction
    BY DEF TypeOK, RequestStage
  <2>. QED
    BY <1>1, <1>2, <1>3, <2>1, <2>2 DEF RequestsSound, Requesting, RequestStage
<1>8. AttemptsUnique'
  BY <1>1, <1>2 DEF AttemptsUnique, Attempting
<1>9. RecordSound'
  BY <1>1, <1>2 DEF RecordSound, InTransaction, CommittedSideEffects, AbortedSideEffects
<1>10. AttemptsSound'
  BY <1>1, <1>2 DEF AttemptsSound, AttemptSound, Attempting, Own, CompletionHeld, InTransaction
<1>11. TombstonesSound'
  BY <1>1, <1>2 DEF TombstonesSound, InTransaction
<1>12. FinishersSound'
  BY <1>1, <1>2 DEF FinishersSound, FinisherSound, Attempting, InTransaction,
     CommittedSideEffects, AbortedSideEffects
<1>13. TokensSound'
  BY <1>1, <1>2 DEF TokensSound, CompletionHeld
<1>14. PublishedOrHeld'
  BY <1>1, <1>2 DEF PublishedOrHeld, InTransaction, CommittedSideEffects
<1>15. CommittedOnly'
  BY <1>1, <1>2 DEF CommittedOnly
<1>16. OneOutcome'
  BY <1>1, <1>2 DEF OneOutcome
<1>. QED
  BY <1>5, <1>6, <1>7, <1>8, <1>9, <1>10, <1>11, <1>12, <1>13, <1>14, <1>15, <1>16 DEF IInv

(* The transaction has its token: it is not completed.                     *)
LEMMA CheckExistsInv ==
  ASSUME TypeOK, IInv, NEW p \in Worker, CheckExists(p)
  PROVE  IInv'
<1>. USE HumanAssumption DEF IInv
<1>1. /\ pc[p] = "exists"
      /\ tx[p] \in Transaction
      /\ try[p] > 0
      /\ pc' = [pc EXCEPT ![p] = IF try[p] < MaxAttempts THEN "tryApply" ELSE "process"]
      /\ UNCHANGED <<created, record, val, current, data, blobs, completions, dispatched,
                       started, emitted, timedOut, tx, try, att, snapshot, tokens,
                       outbox, discard>>
  BY DEF TypeOK, CheckExists, RequestStage, MessageStage, Goto, recordVars, storeVars,
     workerVars
<1>2. /\ pc \in [Worker -> Stage]
      /\ current \subseteq Worker
      /\ \A q \in Worker : pc[q] # "idle" => tx[q] \in Transaction
  BY DEF TypeOK
<1>3. CurrentCopy'
  BY <1>1, <1>2 DEF CurrentCopy
<1>4. UnstartedSound'
  BY <1>1, <1>2 DEF UnstartedSound, Uncompleted, Unregistered
<1>5. RequestsSound'
  BY <1>1, <1>2 DEF RequestsSound, Requesting, Uncompleted, Unregistered, RequestStage
<1>6. AttemptsUnique'
  BY <1>1, <1>2 DEF AttemptsUnique, Attempting
<1>7. RecordSound'
  BY <1>1, <1>2 DEF RecordSound, InTransaction, CommittedSideEffects, AbortedSideEffects
<1>8. AttemptsSound'
  BY <1>1, <1>2 DEF AttemptsSound, AttemptSound, Attempting, Own, CompletionHeld, InTransaction
<1>9. TombstonesSound'
  BY <1>1, <1>2 DEF TombstonesSound, InTransaction
<1>10. FinishersSound'
  BY <1>1, <1>2 DEF FinishersSound, FinisherSound, Attempting, InTransaction,
     CommittedSideEffects, AbortedSideEffects
<1>11. TokensSound'
  BY <1>1, <1>2 DEF TokensSound, CompletionHeld
<1>12. PublishedOrHeld'
  BY <1>1, <1>2 DEF PublishedOrHeld, InTransaction, CommittedSideEffects
<1>13. CommittedOnly'
  BY <1>1, <1>2 DEF CommittedOnly
<1>14. OneOutcome'
  BY <1>1, <1>2 DEF OneOutcome
<1>. QED
  BY <1>3, <1>4, <1>5, <1>6, <1>7, <1>8, <1>9, <1>10, <1>11, <1>12, <1>13, <1>14 DEF IInv

(* The record holds a transaction: the worker takes over its side effects. *)
LEMMA LoadUnfinishedInv ==
  ASSUME TypeOK, IInv, NEW p \in Worker, LoadUnfinished(p)
  PROVE  IInv'
<1>. USE HumanAssumption DEF IInv
<1>1. /\ pc[p] \in {"tryApply", "process"}
      /\ tx[p] \in Transaction
      /\ try[p] > 0
      /\ InTransaction(record)
      /\ val' = [val EXCEPT ![p] = record]
      /\ current' = current \cup {p}
      /\ tokens' = [tokens EXCEPT ![p] =
                     {e.incomingId : e \in AbortedSideEffects(record) \cap CompleteRecords}]
      /\ outbox' = [outbox EXCEPT ![p] = CommittedSideEffects(record) \cap OutgoingMessage]
      /\ discard' = [discard EXCEPT ![p] = AbortedSideEffects(record) \cap OutgoingMessage]
      /\ pc' = [pc EXCEPT ![p] = "publish"]
      /\ UNCHANGED <<created, record, data, blobs, completions, dispatched, started, emitted,
                       timedOut, tx, try, att, snapshot>>
  BY DEF TypeOK, LoadUnfinished, Finishes, Read, BeginFinish, InTransaction, RequestStage,
     MessageStage, Goto, recordVars, storeVars, workerVars
<1>2. /\ val \in [Worker -> Record]
      /\ tokens \in [Worker -> SUBSET Transaction]
      /\ outbox \in [Worker -> SUBSET OutgoingMessage]
      /\ discard \in [Worker -> SUBSET OutgoingMessage]
      /\ pc \in [Worker -> Stage]
      /\ current \subseteq Worker
      /\ \A q \in Worker : pc[q] # "idle" => tx[q] \in Transaction
  BY DEF TypeOK
<1>3. /\ record \in Record /\ created
      /\ \A q \in current : ~Attempting(q) /\ pc[q] \notin {"token", "check"}
  BY <1>1, <1>2 DEF CurrentCopy, AttemptsSound, AttemptSound, InTransaction, EmptyRecord, TypeOK
<1>4. CurrentCopy'
  BY <1>1, <1>2, <1>3 DEF CurrentCopy, InTransaction, EmptyRecord
<1>5. UnstartedSound'
  BY <1>1, <1>2 DEF UnstartedSound, Uncompleted, Unregistered
<1>6. RequestsSound'
  BY <1>1, <1>2 DEF RequestsSound, Requesting, Uncompleted, Unregistered, RequestStage
<1>7. AttemptsUnique'
  BY <1>1, <1>2 DEF AttemptsUnique, Attempting
<1>8. RecordSound'
  BY <1>1, <1>2 DEF RecordSound, InTransaction, CommittedSideEffects, AbortedSideEffects
<1>9. AttemptsSound'
  BY <1>1, <1>2, <1>3 DEF AttemptsSound, AttemptSound, Attempting, InTransaction
<1>10. TombstonesSound'
  BY <1>1, <1>2 DEF TombstonesSound, InTransaction
<1>11. FinishersSound'
  <2>. SUFFICES ASSUME NEW q \in Worker, pc'[q] = "publish" PROVE FinisherSound(q)'
    BY DEF FinishersSound
  <2>1. \A s \in current' : ~Attempting(s)'
    BY <1>1, <1>2, <1>3 DEF Attempting
  <2>2. CASE q = p
    <3>1. /\ outbox'[q] = CommittedSideEffects(record) \cap OutgoingMessage
          /\ discard'[q] = AbortedSideEffects(record) \cap OutgoingMessage
          /\ tokens'[q] = {e.incomingId : e \in AbortedSideEffects(record) \cap CompleteRecords}
          /\ val'[q] = record
      BY <1>1, <1>2, <2>2
    <3>2. \A u \in tokens'[q] : CompleteRecord(u) \in record.sideEffects
      <4>1. \A u \in {e.incomingId : e \in AbortedSideEffects(record) \cap CompleteRecords} :
               CompleteRecord(u) \in record.sideEffects
        BY <1>3, FinishedTokens
      <4>. QED
        BY <3>1, <4>1
    <3>3. data[record.messageId] = 1 => record.messageId \in tokens'[q]
      <4>1. record.messageId \in Transaction
        BY <1>1, <1>3 DEF InTransaction, Record
      <4>. QED
        BY <1>1, <1>3, <3>1, <4>1, FinishedTokens DEF RecordSound
    <3>. QED
      BY <1>1, <2>1, <3>1, <3>2, <3>3 DEF FinisherSound, RecordSound, InTransaction
  <2>3. CASE q # p
    <3>1. /\ FinisherSound(q) /\ pc'[q] = pc[q] /\ val'[q] = val[q] /\ outbox'[q] = outbox[q]
          /\ discard'[q] = discard[q] /\ tokens'[q] = tokens[q]
      BY <1>1, <1>2, <2>3 DEF FinishersSound
    <3>. QED
      BY <1>1, <2>1, <2>3, <3>1 DEF FinisherSound, InTransaction
  <2>. QED
    BY <2>2, <2>3
<1>12. TokensSound'
  BY <1>1, <1>2 DEF TokensSound, CompletionHeld
<1>13. PublishedOrHeld'
  BY <1>1, <1>2 DEF PublishedOrHeld, InTransaction, CommittedSideEffects
<1>14. CommittedOnly'
  BY <1>1, <1>2 DEF CommittedOnly
<1>15. OneOutcome'
  BY <1>1, <1>2 DEF OneOutcome
<1>. QED
  BY <1>4, <1>5, <1>6, <1>7, <1>8, <1>9, <1>10, <1>11, <1>12, <1>13, <1>14, <1>15 DEF IInv

(* There is nothing to finish for the worker.                              *)
LEMMA LoadOtherInv ==
  ASSUME TypeOK, IInv, NEW p \in Worker, LoadOther(p)
  PROVE  IInv'
<1>. USE HumanAssumption DEF IInv
<1>1. /\ pc[p] \in {"tryApply", "process"}
      /\ tx[p] \in Transaction
      /\ try[p] > 0
      /\ pc[p] = "process" => ~InTransaction(record)
      /\ val' = [val EXCEPT ![p] = record]
      /\ current' = current \cup {p}
      /\ pc' = [pc EXCEPT ![p] = IF pc[p] = "tryApply" THEN "retry" ELSE "tombstone"]
      /\ UNCHANGED <<created, record, data, blobs, completions, dispatched, started, emitted,
                       timedOut, tx, try, att, snapshot, tokens, outbox, discard>>
  BY DEF TypeOK, LoadOther, Finishes, Read, RequestStage, MessageStage, Goto, recordVars,
     storeVars, workerVars
<1>2. /\ val \in [Worker -> Record]
      /\ pc \in [Worker -> Stage]
      /\ current \subseteq Worker
      /\ \A q \in Worker : pc[q] # "idle" => tx[q] \in Transaction
  BY DEF TypeOK
<1>3. created
  BY <1>1 DEF CurrentCopy
<1>4. CurrentCopy'
  BY <1>1, <1>2 DEF CurrentCopy
<1>5. UnstartedSound'
  BY <1>1, <1>2 DEF UnstartedSound, Uncompleted, Unregistered
<1>6. RequestsSound'
  BY <1>1, <1>2 DEF RequestsSound, Requesting, Uncompleted, Unregistered, RequestStage
<1>7. AttemptsUnique'
  BY <1>1, <1>2 DEF AttemptsUnique, Attempting
<1>8. RecordSound'
  BY <1>1, <1>2 DEF RecordSound, InTransaction, CommittedSideEffects, AbortedSideEffects
<1>9. AttemptsSound'
  BY <1>1, <1>2 DEF AttemptsSound, AttemptSound, Attempting, Own, CompletionHeld, InTransaction
<1>10. TombstonesSound'
  BY <1>1, <1>2 DEF TombstonesSound, InTransaction
<1>11. FinishersSound'
  BY <1>1, <1>2 DEF FinishersSound, FinisherSound, Attempting, InTransaction,
     CommittedSideEffects, AbortedSideEffects
<1>12. TokensSound'
  BY <1>1, <1>2 DEF TokensSound, CompletionHeld
<1>13. PublishedOrHeld'
  BY <1>1, <1>2 DEF PublishedOrHeld, InTransaction, CommittedSideEffects
<1>14. CommittedOnly'
  BY <1>1, <1>2 DEF CommittedOnly
<1>15. OneOutcome'
  BY <1>1, <1>2 DEF OneOutcome
<1>. QED
  BY <1>4, <1>5, <1>6, <1>7, <1>8, <1>9, <1>10, <1>11, <1>12, <1>13, <1>14, <1>15 DEF IInv

(* The worker asks again later.                                            *)
LEMMA RetryInv ==
  ASSUME TypeOK, IInv, NEW p \in Worker, Retry(p)
  PROVE  IInv'
<1>. USE HumanAssumption DEF IInv
<1>1. /\ pc[p] = "retry"
      /\ tx[p] \in Transaction
      /\ try[p] > 0
      /\ completions' = completions \cup {[InHand(p) EXCEPT !.attempt = @ + 1]}
      /\ pc' = [pc EXCEPT ![p] = "done"]
      /\ UNCHANGED <<created, record, val, current, data, blobs, dispatched, started,
                       emitted, timedOut, tx, try, att, snapshot, tokens, outbox,
                       discard>>
  BY DEF TypeOK, Retry, RequestStage, MessageStage, Goto, recordVars, storeVars, workerVars
<1>2. /\ pc \in [Worker -> Stage]
      /\ current \subseteq Worker
      /\ \A q \in Worker : pc[q] # "idle" => tx[q] \in Transaction
  BY DEF TypeOK
<1>3. /\ [InHand(p) EXCEPT !.attempt = @ + 1].transactionId = tx[p]
  BY DEF InHand
<1>4. \A u \in Transaction : Uncompleted(u) => Uncompleted(u)'
  BY <1>1, <1>2, <1>3 DEF Uncompleted
<1>5. \A u \in Transaction : Unregistered(u) => Unregistered(u)'
  BY <1>1, <1>2 DEF Unregistered
<1>6. \A u \in Transaction : CompletionHeld(u) => CompletionHeld(u)'
  BY <1>1, <1>2, <1>3 DEF CompletionHeld
<1>7. CurrentCopy'
  BY <1>1, <1>2 DEF CurrentCopy
<1>8. UnstartedSound'
  BY <1>1, <1>2, <1>4, <1>5 DEF UnstartedSound
<1>9. RequestsSound'
  BY <1>1, <1>2, <1>4, <1>5 DEF RequestsSound, Requesting, RequestStage
<1>10. AttemptsUnique'
  BY <1>1, <1>2 DEF AttemptsUnique, Attempting
<1>11. RecordSound'
  BY <1>1, <1>2 DEF RecordSound, InTransaction, CommittedSideEffects, AbortedSideEffects
<1>12. AttemptsSound'
  BY <1>1, <1>2, <1>6 DEF AttemptsSound, AttemptSound, Attempting, Own, InTransaction
<1>13. TombstonesSound'
  BY <1>1, <1>2 DEF TombstonesSound, InTransaction
<1>14. FinishersSound'
  BY <1>1, <1>2 DEF FinishersSound, FinisherSound, Attempting, InTransaction,
     CommittedSideEffects, AbortedSideEffects
<1>15. TokensSound'
  BY <1>1, <1>2, <1>6 DEF TokensSound
<1>16. PublishedOrHeld'
  BY <1>1, <1>2 DEF PublishedOrHeld, InTransaction, CommittedSideEffects
<1>17. CommittedOnly'
  BY <1>1, <1>2 DEF CommittedOnly
<1>18. OneOutcome'
  BY <1>1, <1>2 DEF OneOutcome
<1>. QED
  BY <1>7, <1>8, <1>9, <1>10, <1>11, <1>12, <1>13, <1>14, <1>15, <1>16, <1>17, <1>18 DEF IInv

(* The last try begins its tombstone.                                      *)
LEMMA BeginTombstoneInv ==
  ASSUME TypeOK, IInv, NEW p \in Worker, NEW a \in Attempt, att' = [att EXCEPT ![p] = a],
         Unused(a), BeginTombstone(p)
  PROVE  IInv'
<1>. USE HumanAssumption DEF IInv
<1>1. /\ pc[p] = "tombstone"
      /\ tx[p] \in Transaction
      /\ try[p] > 0
      /\ tx[p] \in blobs
      /\ pc' = [pc EXCEPT ![p] = "commitTombstone"]
      /\ UNCHANGED <<created, record, val, current, data, blobs, completions, dispatched,
                       started, emitted, timedOut, tx, try, snapshot, tokens,
                       outbox, discard>>
  BY DEF TypeOK, BeginTombstone, RequestStage, MessageStage, Goto, recordVars, storeVars,
     workerVars
<1>2. /\ att \in [Worker -> Guid]
      /\ pc \in [Worker -> Stage]
      /\ current \subseteq Worker
      /\ \A q \in Worker : pc[q] # "idle" => tx[q] \in Transaction
  BY DEF TypeOK
<1>3. /\ \A q \in Worker : att[q] # a /\ \A e \in val[q].sideEffects : e.attemptId # a
      /\ \A m \in emitted : m.attemptId # a
      /\ a # None
  <2>1. \A m \in OutgoingMessage : m.slot \in Slot /\ m = [attemptId |-> m.attemptId,
  slot |-> m.slot]
    BY DEF OutgoingMessage
  <2>2. emitted \subseteq OutgoingMessage
    BY DEF TypeOK
  <2>. QED
    BY <2>1, <2>2 DEF Unused
<1>4. p \in current => data[tx[p]] = 0
  <2>1. p \in current => ~InTransaction(record)
    BY <1>1 DEF CurrentCopy, TombstonesSound
  <2>2. p \in current => data[tx[p]] # 1
    BY <1>1, <2>1 DEF TokensSound, InTransaction
  <2>3. data[tx[p]] \in Nat /\ data[tx[p]] <= 1
    BY <1>1 DEF OneOutcome, TypeOK
  <2>. QED
    BY <2>2, <2>3
<1>5. CurrentCopy'
  BY <1>1, <1>2 DEF CurrentCopy
<1>6. UnstartedSound'
  BY <1>1, <1>2 DEF UnstartedSound, Uncompleted, Unregistered
<1>7. RequestsSound'
  BY <1>1, <1>2 DEF RequestsSound, Requesting, Uncompleted, Unregistered, RequestStage
<1>8. AttemptsUnique'
  BY <1>1, <1>2, <1>3, <1>4 DEF AttemptsUnique, Attempting
<1>9. RecordSound'
  BY <1>1, <1>2 DEF RecordSound, InTransaction, CommittedSideEffects, AbortedSideEffects
<1>10. AttemptsSound'
  BY <1>1, <1>2 DEF AttemptsSound, AttemptSound, Attempting, Own, CompletionHeld, InTransaction
<1>11. TombstonesSound'
  BY <1>1, <1>2, <1>3, <1>4 DEF TombstonesSound
<1>12. FinishersSound'
  BY <1>1, <1>2 DEF FinishersSound, FinisherSound, Attempting, InTransaction,
     CommittedSideEffects, AbortedSideEffects
<1>13. TokensSound'
  BY <1>1, <1>2 DEF TokensSound, CompletionHeld
<1>14. PublishedOrHeld'
  BY <1>1, <1>2 DEF PublishedOrHeld, InTransaction, CommittedSideEffects
<1>15. CommittedOnly'
  BY <1>1, <1>2 DEF CommittedOnly
<1>16. OneOutcome'
  BY <1>1, <1>2 DEF OneOutcome
<1>. QED
  BY <1>5, <1>6, <1>7, <1>8, <1>9, <1>10, <1>11, <1>12, <1>13, <1>14, <1>15, <1>16 DEF IInv

(* The tombstone is committed: its request did not commit, and cannot any  *)
(* more.                                                                   *)
LEMMA CommitTombstoneInv ==
  ASSUME TypeOK, IInv, NEW p \in Worker, CommitTombstone(p)
  PROVE  IInv'
<1>. USE HumanAssumption DEF IInv
<1>1. /\ pc[p] = "commitTombstone"
      /\ p \in current
      /\ tx[p] \in Transaction
      /\ try[p] > 0
      /\ record' = [val[p] EXCEPT !.messageId = tx[p], !.attemptId = att[p]]
      /\ val' = [val EXCEPT ![p] = record']
      /\ current' = {p}
      /\ timedOut' = timedOut \cup {tx[p]}
      /\ att' = [att EXCEPT ![p] = None]
      /\ tokens' = [tokens EXCEPT ![p] =
                     {e.incomingId : e \in AbortedSideEffects(record') \cap CompleteRecords}]
      /\ outbox' = [outbox EXCEPT ![p] = CommittedSideEffects(record') \cap OutgoingMessage]
      /\ discard' = [discard EXCEPT ![p] = AbortedSideEffects(record') \cap OutgoingMessage]
      /\ pc' = [pc EXCEPT ![p] = "publish"]
      /\ UNCHANGED <<created, data, blobs, completions, dispatched, started, emitted, tx,
                       try, snapshot>>
  BY DEF TypeOK, CommitTombstone, CommitStateTransition, Replace, EtagMatches, BeginFinish,
     RequestStage, MessageStage, Goto, recordVars, storeVars, workerVars
<1>2. /\ val \in [Worker -> Record]
      /\ att \in [Worker -> Guid]
      /\ tokens \in [Worker -> SUBSET Transaction]
      /\ outbox \in [Worker -> SUBSET OutgoingMessage]
      /\ discard \in [Worker -> SUBSET OutgoingMessage]
      /\ pc \in [Worker -> Stage]
      /\ current \subseteq Worker
      /\ \A q \in Worker : pc[q] # "idle" => tx[q] \in Transaction
  BY DEF TypeOK
<1>3. /\ val[p] = record /\ ~InTransaction(record) /\ record.attemptId = None
      /\ record \in Record /\ att[p] \in Attempt /\ \A m \in emitted : m \in dispatched
  BY <1>1 DEF CurrentCopy, RecordSound, AttemptsSound, AttemptSound, TombstonesSound, Attempting,
     PublishedOrHeld, TypeOK, Guid
<1>4. /\ record'.messageId = tx[p] /\ record'.attemptId = att[p]
      /\ record'.sideEffects = record.sideEffects /\ val'[p] = record' /\ record' \in Record
  BY <1>1, <1>2, <1>3 DEF Record, Guid
<1>5. /\ data[tx[p]] = 0 /\ CommittedSideEffects(record') = {}
      /\ AbortedSideEffects(record') \cap emitted = {}
  <2>1. \A e \in record.sideEffects : e.attemptId # att[p]
    BY <1>1, <1>3 DEF TombstonesSound
  <2>2. AbortedSideEffects(record) = record.sideEffects
    BY <1>3, SideEffectsType DEF AbortedSideEffects
  <2>3. AbortedSideEffects(record') \subseteq record.sideEffects
    BY <1>4 DEF AbortedSideEffects
  <2>. QED
    BY <1>1, <1>4, <2>1, <2>2, <2>3 DEF TombstonesSound, CommittedSideEffects, RecordSound
<1>6. CurrentCopy'
  BY <1>1, <1>2 DEF CurrentCopy
<1>7. UnstartedSound'
  BY <1>1, <1>2 DEF UnstartedSound, Uncompleted, Unregistered
<1>8. RequestsSound'
  BY <1>1, <1>2 DEF RequestsSound, Requesting, Uncompleted, Unregistered, RequestStage
<1>9. AttemptsUnique'
  BY <1>1, <1>2 DEF AttemptsUnique, Attempting
<1>10. RecordSound'
  BY <1>1, <1>3, <1>4, <1>5 DEF RecordSound, InTransaction
<1>11. AttemptsSound'
  BY <1>1, <1>2 DEF AttemptsSound, AttemptSound, Attempting, Own, CompletionHeld, InTransaction
<1>12. TombstonesSound'
  BY <1>1, <1>2 DEF TombstonesSound, InTransaction
<1>13. FinishersSound'
  <2>. SUFFICES ASSUME NEW q \in Worker, pc'[q] = "publish" PROVE FinisherSound(q)'
    BY DEF FinishersSound
  <2>1. \A s \in current' : ~Attempting(s)'
    BY <1>1, <1>2 DEF Attempting
  <2>2. CASE q = p
    <3>1. /\ outbox'[q] = CommittedSideEffects(record') \cap OutgoingMessage
          /\ discard'[q] = AbortedSideEffects(record') \cap OutgoingMessage
          /\ tokens'[q] = {e.incomingId : e \in AbortedSideEffects(record') \cap CompleteRecords}
          /\ val'[q] = record'
      BY <1>1, <1>2, <2>2
    <3>2. \A u \in tokens'[q] : CompleteRecord(u) \in record'.sideEffects
      <4>1. \A u \in {e.incomingId : e \in AbortedSideEffects(record') \cap CompleteRecords} :
               CompleteRecord(u) \in record'.sideEffects
        BY <1>4, FinishedTokens
      <4>. QED
        BY <3>1, <4>1
    <3>3. /\ InTransaction(val'[q]) /\ val'[q].attemptId # None
          /\ data'[val'[q].messageId] = 0
      BY <1>1, <1>3, <1>4, <1>5, <3>1 DEF InTransaction
    <3>4. CommittedSideEffects(val'[q]) = {} /\ discard'[q] \cap emitted' = {}
      BY <1>1, <1>5, <3>1
    <3>. QED
      BY <2>1, <3>1, <3>2, <3>3, <3>4 DEF FinisherSound, InTransaction
  <2>3. CASE q # p
    <3>1. /\ FinisherSound(q) /\ pc'[q] = pc[q] /\ val'[q] = val[q] /\ outbox'[q] = outbox[q]
          /\ discard'[q] = discard[q] /\ tokens'[q] = tokens[q] /\ q \notin current'
      BY <1>1, <1>2, <2>3 DEF FinishersSound
    <3>. QED
      BY <1>1, <2>1, <3>1 DEF FinisherSound, InTransaction
  <2>. QED
    BY <2>2, <2>3
<1>14. TokensSound'
  <2>1. \A u \in Transaction : data[u] = 1 => u \notin blobs
    BY <1>3 DEF TokensSound, InTransaction
  <2>2. CompletionHeld(tx[p])'
    BY <1>1, <1>2 DEF CompletionHeld
  <2>. QED
    BY <1>1, <1>4, <2>1, <2>2 DEF TokensSound
<1>15. PublishedOrHeld'
  BY <1>1, <1>3 DEF PublishedOrHeld
<1>16. CommittedOnly'
  BY <1>1, <1>2 DEF CommittedOnly
<1>17. OneOutcome'
  BY <1>1, <1>5 DEF OneOutcome
<1>. QED
  BY <1>6, <1>7, <1>8, <1>9, <1>10, <1>11, <1>12, <1>13, <1>14, <1>15, <1>16, <1>17 DEF IInv

(* A token is deleted.                                                     *)
LEMMA DeleteTokenInv ==
  ASSUME TypeOK, IInv, NEW p \in Worker, NEW t \in Transaction, DeleteToken(p, t)
  PROVE  IInv'
<1>. USE HumanAssumption DEF IInv
<1>1. /\ pc[p] = "publish"
      /\ t \in tokens[p]
      /\ blobs' = blobs \ {t}
      /\ tokens' = [tokens EXCEPT ![p] = @ \ {t}]
      /\ UNCHANGED <<created, record, val, current, data, completions, dispatched, started,
                       emitted, timedOut, pc, tx, try, att, snapshot, outbox,
                       discard>>
  BY DEF TypeOK, DeleteToken, Goto, recordVars, storeVars, workerVars
<1>2. /\ tokens \in [Worker -> SUBSET Transaction]
      /\ current \subseteq Worker
  BY DEF TypeOK
<1>3. CurrentCopy'
  BY <1>1, <1>2 DEF CurrentCopy
<1>4. UnstartedSound'
  BY <1>1, <1>2 DEF UnstartedSound, Uncompleted, Unregistered
<1>5. RequestsSound'
  BY <1>1, <1>2 DEF RequestsSound, Requesting, Uncompleted, Unregistered, RequestStage
<1>6. AttemptsUnique'
  BY <1>1, <1>2 DEF AttemptsUnique, Attempting
<1>7. RecordSound'
  BY <1>1, <1>2 DEF RecordSound, InTransaction, CommittedSideEffects, AbortedSideEffects
<1>8. AttemptsSound'
  BY <1>1, <1>2 DEF AttemptsSound, AttemptSound, Attempting, Own, CompletionHeld, InTransaction
<1>9. TombstonesSound'
  BY <1>1, <1>2 DEF TombstonesSound, InTransaction
<1>10. FinishersSound'
  BY <1>1, <1>2 DEF FinishersSound, FinisherSound, Attempting, InTransaction,
     CommittedSideEffects, AbortedSideEffects
<1>11. TokensSound'
  BY <1>1, <1>2 DEF TokensSound, CompletionHeld
<1>12. PublishedOrHeld'
  BY <1>1, <1>2 DEF PublishedOrHeld, InTransaction, CommittedSideEffects
<1>13. CommittedOnly'
  <2>1. t \notin emitted
    BY DEF TypeOK
  <2>. QED
    BY <1>1, <2>1 DEF CommittedOnly
<1>14. OneOutcome'
  BY <1>1, <1>2 DEF OneOutcome
<1>. QED
  BY <1>3, <1>4, <1>5, <1>6, <1>7, <1>8, <1>9, <1>10, <1>11, <1>12, <1>13, <1>14 DEF IInv

(* A committed message is handed to the transport.                         *)
LEMMA DispatchInv ==
  ASSUME TypeOK, IInv, NEW p \in Worker, NEW m \in OutgoingMessage, Dispatch(p, m)
  PROVE  IInv'
<1>. USE HumanAssumption DEF IInv
<1>1. /\ pc[p] = "publish"
      /\ m \in outbox[p]
      /\ dispatched' = dispatched \cup {m}
      /\ outbox' = [outbox EXCEPT ![p] = @ \ {m}]
      /\ UNCHANGED <<created, record, val, current, data, blobs, completions, started,
                       emitted, timedOut, pc, tx, try, att, snapshot, tokens,
                       discard>>
  BY DEF TypeOK, Dispatch, Goto, recordVars, storeVars, workerVars
<1>2. /\ outbox \in [Worker -> SUBSET OutgoingMessage]
      /\ current \subseteq Worker
  BY DEF TypeOK
<1>3. CurrentCopy'
  BY <1>1, <1>2 DEF CurrentCopy
<1>4. UnstartedSound'
  BY <1>1, <1>2 DEF UnstartedSound, Uncompleted, Unregistered
<1>5. RequestsSound'
  BY <1>1, <1>2 DEF RequestsSound, Requesting, Uncompleted, Unregistered, RequestStage
<1>6. AttemptsUnique'
  BY <1>1, <1>2 DEF AttemptsUnique, Attempting
<1>7. RecordSound'
  BY <1>1, <1>2 DEF RecordSound, InTransaction, CommittedSideEffects, AbortedSideEffects
<1>8. AttemptsSound'
  BY <1>1, <1>2 DEF AttemptsSound, AttemptSound, Attempting, Own, CompletionHeld, InTransaction
<1>9. TombstonesSound'
  BY <1>1, <1>2 DEF TombstonesSound, InTransaction
<1>10. FinishersSound'
  BY <1>1, <1>2 DEF FinishersSound, FinisherSound, Attempting, InTransaction,
     CommittedSideEffects, AbortedSideEffects
<1>11. TokensSound'
  BY <1>1, <1>2 DEF TokensSound, CompletionHeld
<1>12. PublishedOrHeld'
  BY <1>1, <1>2 DEF PublishedOrHeld, InTransaction, CommittedSideEffects
<1>13. CommittedOnly'
  <2>1. m \in emitted
    BY <1>1 DEF FinishersSound, FinisherSound
  <2>. QED
    BY <1>1, <2>1 DEF CommittedOnly
<1>14. OneOutcome'
  BY <1>1, <1>2 DEF OneOutcome
<1>. QED
  BY <1>3, <1>4, <1>5, <1>6, <1>7, <1>8, <1>9, <1>10, <1>11, <1>12, <1>13, <1>14 DEF IInv

(* The body of an aborted message is deleted.                              *)
LEMMA EnsureDeletedInv ==
  ASSUME TypeOK, IInv, NEW p \in Worker, NEW m \in OutgoingMessage, EnsureDeleted(p, m)
  PROVE  IInv'
<1>. USE HumanAssumption DEF IInv
<1>1. /\ pc[p] = "publish"
      /\ m \in discard[p]
      /\ blobs' = blobs \ {m}
      /\ discard' = [discard EXCEPT ![p] = @ \ {m}]
      /\ UNCHANGED <<created, record, val, current, data, completions, dispatched, started,
                       emitted, timedOut, pc, tx, try, att, snapshot, tokens, outbox>>
  BY DEF TypeOK, EnsureDeleted, Goto, recordVars, storeVars, workerVars
<1>2. /\ discard \in [Worker -> SUBSET OutgoingMessage]
      /\ current \subseteq Worker
  BY DEF TypeOK
<1>3. /\ m \notin emitted /\ m \notin Transaction
      /\ \A q \in current : Attempting(q) => m.attemptId # att[q]
  BY <1>1 DEF FinishersSound, FinisherSound
<1>4. CurrentCopy'
  BY <1>1, <1>2 DEF CurrentCopy
<1>5. UnstartedSound'
  BY <1>1, <1>2 DEF UnstartedSound, Uncompleted, Unregistered
<1>6. RequestsSound'
  BY <1>1, <1>2 DEF RequestsSound, Requesting, Uncompleted, Unregistered, RequestStage
<1>7. AttemptsUnique'
  BY <1>1, <1>2 DEF AttemptsUnique, Attempting
<1>8. RecordSound'
  BY <1>1, <1>2 DEF RecordSound, InTransaction, CommittedSideEffects, AbortedSideEffects
<1>9. AttemptsSound'
  <2>1. \A q \in Worker : Own(q)' = Own(q)
    BY <1>1 DEF Own
  <2>2. \A q \in current : Attempting(q) => m \notin Own(q)
    BY <1>3 DEF Own
  <2>3. \A q \in Worker : pc[q] \in {"token", "check"} \/ Attempting(q) => tx[q] # m
    BY <1>3 DEF TypeOK, Attempting
  <2>4. \A u : CompletionHeld(u)' = CompletionHeld(u)
    BY <1>1 DEF CompletionHeld
  <2>5. \A q \in Worker : Attempting(q)' = Attempting(q)
    BY <1>1 DEF Attempting
  <2>. QED
    BY <1>1, <1>2, <2>1, <2>2, <2>3, <2>4, <2>5 DEF AttemptsSound, AttemptSound
<1>10. TombstonesSound'
  BY <1>1, <1>2 DEF TombstonesSound, InTransaction
<1>11. FinishersSound'
  BY <1>1, <1>2 DEF FinishersSound, FinisherSound, Attempting, InTransaction,
     CommittedSideEffects, AbortedSideEffects
<1>12. TokensSound'
  BY <1>1, <1>2 DEF TokensSound, CompletionHeld
<1>13. PublishedOrHeld'
  BY <1>1, <1>2 DEF PublishedOrHeld, InTransaction, CommittedSideEffects
<1>14. CommittedOnly'
  BY <1>1, <1>2, <1>3 DEF CommittedOnly
<1>15. OneOutcome'
  BY <1>1, <1>2 DEF OneOutcome
<1>. QED
  BY <1>4, <1>5, <1>6, <1>7, <1>8, <1>9, <1>10, <1>11, <1>12, <1>13, <1>14, <1>15 DEF IInv

(* The record lets go of a transaction that is published and whose token   *)
(* is deleted.                                                             *)
LEMMA ClearInv ==
  ASSUME TypeOK, IInv, NEW p \in Worker, Clear(p)
  PROVE  IInv'
<1>. USE HumanAssumption DEF IInv
<1>1. /\ pc[p] = "publish"
      /\ p \in current
      /\ tx[p] \in Transaction
      /\ try[p] > 0
      /\ tokens[p] = {}
      /\ outbox[p] = {}
      /\ discard[p] = {}
      /\ record' = EmptyRecord
      /\ val' = [val EXCEPT ![p] = EmptyRecord]
      /\ current' = {p}
      /\ pc' = [pc EXCEPT ![p] = IF val[p].messageId = tx[p] THEN "done" ELSE "tombstone"]
      /\ UNCHANGED <<created, data, blobs, completions, dispatched, started, emitted,
                       timedOut, tx, try, att, snapshot, tokens, outbox, discard>>
  BY DEF TypeOK, Clear, ClearTransactionState, Replace, EtagMatches, Dispatched, RequestStage,
     MessageStage, Goto, recordVars, storeVars, workerVars
<1>2. /\ val \in [Worker -> Record]
      /\ pc \in [Worker -> Stage]
      /\ current \subseteq Worker
      /\ \A q \in Worker : pc[q] # "idle" => tx[q] \in Transaction
  BY DEF TypeOK
<1>3. /\ val[p] = record /\ FinisherSound(p)
      /\ \A m \in emitted : m \in dispatched
  <2>1. val[p] = record /\ FinisherSound(p)
    BY <1>1 DEF CurrentCopy, FinishersSound
  <2>2. emitted \subseteq OutgoingMessage
    BY DEF TypeOK
  <2>. QED
    BY <1>1, <2>1, <2>2 DEF FinisherSound, PublishedOrHeld
<1>4. /\ record'.messageId = None /\ record'.attemptId = None
      /\ record'.sideEffects = {} /\ val'[p] = record'
  BY <1>1, <1>2 DEF EmptyRecord
<1>5. \A u \in Transaction : data[u] = 1 => u \notin blobs
  BY <1>1, <1>3 DEF FinisherSound, TokensSound
<1>6. \A u \in Transaction : Uncompleted(u) => Uncompleted(u)'
  BY <1>1, <1>2 DEF Uncompleted
<1>7. \A u \in Transaction : Unregistered(u) => Unregistered(u)'
  BY <1>1, <1>2, <1>4 DEF Unregistered
<1>8. CurrentCopy'
  BY <1>1, <1>2 DEF CurrentCopy
<1>9. UnstartedSound'
  BY <1>1, <1>2, <1>6, <1>7 DEF UnstartedSound
<1>10. RequestsSound'
  BY <1>1, <1>2, <1>6, <1>7 DEF RequestsSound, Requesting, RequestStage
<1>11. AttemptsUnique'
  BY <1>1, <1>2 DEF AttemptsUnique, Attempting
<1>12. RecordSound'
  BY <1>1, <1>4 DEF RecordSound, InTransaction, AbortedSideEffects
<1>13. AttemptsSound'
  BY <1>1, <1>2 DEF AttemptsSound, AttemptSound, Attempting, Own, CompletionHeld, InTransaction
<1>14. TombstonesSound'
  BY <1>1, <1>2, <1>4 DEF TombstonesSound, InTransaction
<1>15. FinishersSound'
  BY <1>1, <1>2 DEF FinishersSound, FinisherSound, Attempting, InTransaction,
     CommittedSideEffects, AbortedSideEffects
<1>16. TokensSound'
  BY <1>1, <1>4, <1>5 DEF TokensSound
<1>17. PublishedOrHeld'
  BY <1>1, <1>3 DEF PublishedOrHeld
<1>18. CommittedOnly'
  BY <1>1, <1>2 DEF CommittedOnly
<1>19. OneOutcome'
  BY <1>1, <1>2 DEF OneOutcome
<1>. QED
  BY <1>8, <1>9, <1>10, <1>11, <1>12, <1>13, <1>14, <1>15, <1>16, <1>17, <1>18, <1>19 DEF IInv

(* Nothing changes.                                                        *)
LEMMA StutterInv ==
  ASSUME TypeOK, IInv, UNCHANGED vars
  PROVE  IInv'
<1>. USE HumanAssumption DEF IInv
<1>1. /\ UNCHANGED <<created, record, val, current, data, blobs, completions, dispatched,
                       started, emitted, timedOut, pc, tx, try, att, snapshot,
                       tokens, outbox, discard>>
  BY DEF TypeOK, vars, Goto, recordVars, storeVars, workerVars
<1>2. /\ current \subseteq Worker
  BY DEF TypeOK
<1>3. CurrentCopy'
  BY <1>1, <1>2 DEF CurrentCopy
<1>4. UnstartedSound'
  BY <1>1, <1>2 DEF UnstartedSound, Uncompleted, Unregistered
<1>5. RequestsSound'
  BY <1>1, <1>2 DEF RequestsSound, Requesting, Uncompleted, Unregistered, RequestStage
<1>6. AttemptsUnique'
  BY <1>1, <1>2 DEF AttemptsUnique, Attempting
<1>7. RecordSound'
  BY <1>1, <1>2 DEF RecordSound, InTransaction, CommittedSideEffects, AbortedSideEffects
<1>8. AttemptsSound'
  BY <1>1, <1>2 DEF AttemptsSound, AttemptSound, Attempting, Own, CompletionHeld, InTransaction
<1>9. TombstonesSound'
  BY <1>1, <1>2 DEF TombstonesSound, InTransaction
<1>10. FinishersSound'
  BY <1>1, <1>2 DEF FinishersSound, FinisherSound, Attempting, InTransaction,
     CommittedSideEffects, AbortedSideEffects
<1>11. TokensSound'
  BY <1>1, <1>2 DEF TokensSound, CompletionHeld
<1>12. PublishedOrHeld'
  BY <1>1, <1>2 DEF PublishedOrHeld, InTransaction, CommittedSideEffects
<1>13. CommittedOnly'
  BY <1>1, <1>2 DEF CommittedOnly
<1>14. OneOutcome'
  BY <1>1, <1>2 DEF OneOutcome
<1>. QED
  BY <1>3, <1>4, <1>5, <1>6, <1>7, <1>8, <1>9, <1>10, <1>11, <1>12, <1>13, <1>14 DEF IInv

LEMMA StepInv == TypeOK /\ IInv /\ [Next]_vars => IInv'
<1>. SUFFICES ASSUME TypeOK, IInv, [Next]_vars PROVE IInv'
  OBVIOUS
<1>1. ASSUME NEW p \in Worker,
             \/ Crash(p) \/ CreateConflict(p) \/ TimedOut(p) \/ WriteConflict(p)
             \/ ClearConflict(p)
      PROVE  IInv'
  BY <1>1, FailInv DEF Crash, CreateConflict, TimedOut, WriteConflict, ClearConflict
<1>2. ASSUME NEW p \in Worker, Complete(p) PROVE IInv'
  BY <1>2, DoneInv DEF Complete
<1>3. ASSUME NEW p \in Worker, AlreadyCompleted(p) PROVE IInv'
  <2>1. try[p] > 0
    BY <1>3 DEF AlreadyCompleted, TypeOK, MessageStage
  <2>. QED
    BY <1>3, <2>1, DoneInv DEF AlreadyCompleted
<1>4. ASSUME NEW p \in Worker, CheckToken(p) PROVE IInv'
  <2>1. PICK a \in Attempt : Unused(a) /\ att' = [att EXCEPT ![p] = a]
    BY <1>4 DEF CheckToken
  <2>. QED
    BY <1>4, <2>1, CheckTokenInv
<1>5. ASSUME NEW p \in Worker, BeginTombstone(p) PROVE IInv'
  <2>1. PICK a \in Attempt : Unused(a) /\ att' = [att EXCEPT ![p] = a]
    BY <1>5 DEF BeginTombstone
  <2>. QED
    BY <1>5, <2>1, BeginTombstoneInv
<1>6. ASSUME NEW p \in Worker,
             \/ \E t \in Transaction : Request(p, t)
             \/ Load(p) \/ LoadMissing(p) \/ CreateRecord(p) \/ Register(p) \/ CreateToken(p)
             \/ ReadData(p) \/ (\E s \in Slot : Send(p, s)) \/ Upload(p)
             \/ EnqueueComplete(p) \/ Commit(p)
      PROVE  IInv'
  BY <1>6, RequestInv, LoadInv, LoadMissingInv, CreateRecordInv, RegisterInv, CreateTokenInv,
     ReadDataInv, SendInv, UploadInv, EnqueueCompleteInv, CommitInv
<1>7. ASSUME NEW p \in Worker,
             \/ \E c \in CompleteMessage : Receive(p, c)
             \/ Redeliver(p) \/ CheckExists(p) \/ LoadUnfinished(p) \/ LoadOther(p) \/ Retry(p)
             \/ CommitTombstone(p)
      PROVE  IInv'
  BY <1>7, ReceiveInv, RedeliverInv, CheckExistsInv, LoadUnfinishedInv, LoadOtherInv, RetryInv,
     CommitTombstoneInv
<1>8. ASSUME NEW p \in Worker,
             \/ \E t \in Transaction : DeleteToken(p, t)
             \/ \E m \in OutgoingMessage : Dispatch(p, m) \/ EnsureDeleted(p, m)
             \/ Clear(p)
      PROVE  IInv'
  BY <1>8, DeleteTokenInv, DispatchInv, EnsureDeletedInv, ClearInv
<1>9. CASE UNCHANGED vars
  BY <1>9, StutterInv
<1>. QED
  BY <1>1, <1>2, <1>3, <1>4, <1>5, <1>6, <1>7, <1>8, <1>9
  DEF Next, Handler, ExecuteTransaction, Invoke

(* The inductive invariant holds in every reachable state.                 *)
THEOREM Invariant == Spec => []IInv
<1>. QED
  BY TypeCorrect, InitInv, StepInv, PTL DEF Spec

(* The messages of a committed request are published, or the record still  *)
(* holds them.                                                             *)
THEOREM NothingForgotten == Spec => []PublishedOrHeld
<1>1. IInv => PublishedOrHeld
  BY DEF IInv
<1>. QED
  BY Invariant, <1>1, PTL

(* Nothing of a request that did not commit is published, and no body of a *)
(* committed message is cleaned up.                                        *)
THEOREM OnlyCommitted == Spec => []CommittedOnly
<1>1. IInv => CommittedOnly
  BY DEF IInv
<1>. QED
  BY Invariant, <1>1, PTL

(* A request commits at most once, and not if its tombstone was committed. *)
THEOREM CommitOrTombstone == Spec => []OneOutcome
<1>1. IInv => OneOutcome
  BY DEF IInv
<1>. QED
  BY Invariant, <1>1, PTL

(* A committed request that has its token has a complete message.          *)
THEOREM CompletionNotLost == Spec => []CompletionOnItsWay
<1>1. IInv => CompletionOnItsWay
  BY DEF IInv, TokensSound, CompletionHeld, CompletionOnItsWay, CompletionInFlight
<1>. QED
  BY Invariant, <1>1, PTL

-----------------------------------------------------------------------------
(* What a commit does to the business data, and that its token is there.   *)
LEMMA CommitEffect ==
  ASSUME TypeOK, IInv, NEW p \in Worker, Commit(p)
  PROVE  /\ tx[p] \in Transaction /\ tx[p] \in blobs
         /\ data' = [data EXCEPT ![tx[p]] = @ + 1]
         /\ blobs' = blobs
<1>1. /\ pc[p] = "commit" /\ p \in current /\ blobs' = blobs
      /\ data' = [snapshot[p] EXCEPT ![tx[p]] = @ + 1]
  BY DEF Commit, CommitStateTransition, Replace, EtagMatches, Apply
<1>2. tx[p] \in Transaction
  BY <1>1 DEF TypeOK
<1>3. tx[p] \in blobs /\ snapshot[p] = data
  BY <1>1 DEF IInv, AttemptsSound, AttemptSound, Attempting
<1>. QED
  BY <1>1, <1>2, <1>3

(* Only a commit touches the business data.                                *)
LEMMA DataEffect ==
  ASSUME [Next]_vars
  PROVE  (\E p \in Worker : Commit(p)) \/ UNCHANGED data
<1>. USE DEF storeVars, workerVars, Reset, Fail, Done
<1>1. ASSUME NEW p \in Worker,
             \/ Crash(p) \/ CreateConflict(p) \/ TimedOut(p) \/ WriteConflict(p)
             \/ ClearConflict(p) \/ Complete(p) \/ AlreadyCompleted(p)
      PROVE  UNCHANGED data
  BY <1>1 DEF Crash, CreateConflict, TimedOut, WriteConflict, ClearConflict, Complete,
     AlreadyCompleted
<1>2. ASSUME NEW p \in Worker,
             \/ \E t \in Transaction : Request(p, t)
             \/ Load(p) \/ LoadMissing(p) \/ CreateRecord(p) \/ Register(p) \/ CreateToken(p)
             \/ CheckToken(p) \/ ReadData(p) \/ (\E s \in Slot : Send(p, s)) \/ Upload(p)
             \/ EnqueueComplete(p)
      PROVE  UNCHANGED data
  BY <1>2 DEF Request, Load, LoadMissing, CreateRecord, Register, CreateToken, CheckToken,
     ReadData, Send, Upload, EnqueueComplete
<1>3. ASSUME NEW p \in Worker,
             \/ \E c \in CompleteMessage : Receive(p, c)
             \/ Redeliver(p) \/ CheckExists(p) \/ LoadUnfinished(p) \/ LoadOther(p) \/ Retry(p)
             \/ BeginTombstone(p) \/ CommitTombstone(p)
      PROVE  UNCHANGED data
  BY <1>3 DEF Receive, Redeliver, CheckExists, LoadUnfinished, LoadOther, Retry,
     BeginTombstone, CommitTombstone
<1>4. ASSUME NEW p \in Worker,
             \/ \E t \in Transaction : DeleteToken(p, t)
             \/ \E m \in OutgoingMessage : Dispatch(p, m) \/ EnsureDeleted(p, m)
             \/ Clear(p)
      PROVE  UNCHANGED data
  BY <1>4 DEF DeleteToken, Dispatch, EnsureDeleted, Clear
<1>5. CASE UNCHANGED vars
  BY <1>5 DEF vars
<1>. QED
  BY <1>1, <1>2, <1>3, <1>4, <1>5 DEF Next, Handler, ExecuteTransaction, Invoke

(* A commit never overwrites what another request did to the data.         *)
THEOREM UpdatesKept == Spec => NoLostUpdate
<1>1. TypeOK /\ IInv /\ [Next]_vars => [\A t \in Transaction : data'[t] >= data[t]]_vars
  <2>. SUFFICES ASSUME TypeOK, IInv, [Next]_vars, NEW t \in Transaction
                PROVE  data'[t] >= data[t]
    OBVIOUS
  <2>1. data \in [Transaction -> Nat]
    BY DEF TypeOK
  <2>2. ASSUME NEW p \in Worker, Commit(p) PROVE data'[t] >= data[t]
    <3>1. tx[p] \in Transaction /\ data' = [data EXCEPT ![tx[p]] = @ + 1]
      BY <2>2, CommitEffect
    <3>. QED
      BY <2>1, <3>1
  <2>3. CASE UNCHANGED data
    BY <2>1, <2>3
  <2>. QED
    BY <2>2, <2>3, DataEffect
<1>. QED
  BY TypeCorrect, Invariant, <1>1, PTL DEF Spec, NoLostUpdate

(* A commit finds its token, and leaves it for the complete message.       *)
THEOREM TokenAtCommit == Spec => CommitLeavesToken
<1>1. TypeOK /\ IInv /\ [Next]_vars =>
        [\A t \in Transaction : data'[t] > data[t] => t \in blobs']_vars
  <2>. SUFFICES ASSUME TypeOK, IInv, [Next]_vars, NEW t \in Transaction, data'[t] > data[t]
                PROVE  t \in blobs'
    OBVIOUS
  <2>1. data \in [Transaction -> Nat]
    BY DEF TypeOK
  <2>2. PICK p \in Worker : Commit(p)
    BY <2>1, DataEffect
  <2>3. /\ tx[p] \in Transaction /\ tx[p] \in blobs /\ blobs' = blobs
        /\ data' = [data EXCEPT ![tx[p]] = @ + 1]
    BY <2>2, CommitEffect
  <2>4. t = tx[p]
    BY <2>1, <2>3
  <2>. QED
    BY <2>3, <2>4
<1>. QED
  BY TypeCorrect, Invariant, <1>1, PTL DEF Spec, CommitLeavesToken

=============================================================================
