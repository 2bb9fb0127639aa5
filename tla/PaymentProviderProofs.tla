------------------------- MODULE PaymentProviderProofs -------------------------
(***************************************************************************)
(* Proofs about PaymentProviderPartition for every number of workers in    *)
(* either process, requests, messages, attempts and sends.                 *)
(***************************************************************************)
EXTENDS PaymentProviderInvariant, TLAPS

LEMMA Kinds ==
  /\ OutgoingMessage \subseteq Message /\ Initial \subseteq Message
  /\ Message \cap Request = {} /\ None \notin Message \cup Request \cup Attempt \cup Worker
  /\ WebWorker \cap Consumer = {} /\ WebWorker \subseteq Worker /\ Consumer \subseteq Worker
  /\ SideEffect \cap Message = OutgoingMessage
  /\ \A e \in SideEffect : e.attemptId \in Attempt
  /\ Frontend!OutgoingMessage = OutgoingMessage
<1>1. OutgoingMessage \subseteq Message /\ Initial \subseteq Message
  BY DEF OutgoingMessage, Message, Backend!Message
<1>2. SideEffect \cap Message = OutgoingMessage
  BY <1>1, PartitionAssumption DEF SideEffect, Message
<1>3. \A e \in SideEffect : e.attemptId \in Attempt
  BY DEF SideEffect, OutgoingMessage, Backend!OutgoingMessage, Frontend!HttpResponse
<1>4. Frontend!OutgoingMessage = OutgoingMessage
  BY DEF OutgoingMessage, Backend!OutgoingMessage, Frontend!OutgoingMessage
<1>. QED
  BY <1>1, <1>2, <1>3, <1>4, PartitionAssumption DEF Worker, Message

LEMMA EmptyRecordType ==
  /\ EmptyRecord \in Record /\ EmptyRecord.messageId = None /\ EmptyRecord.attemptId = None
  /\ EmptyRecord.sideEffects = {}
  /\ Frontend!EmptyRecord = EmptyRecord /\ Backend!EmptyRecord = EmptyRecord
BY DEF EmptyRecord, Record, Guid, Frontend!EmptyRecord, Backend!EmptyRecord

(* A record that is free lists aborted attempts only.                      *)
LEMMA FreeAborted ==
  ASSUME NEW r \in Record, r.attemptId = None
  PROVE  Aborted(r) = r.sideEffects
BY Kinds DEF Aborted, Frontend!AbortedSideEffects, Record

LEMMA EffectTypes ==
  ASSUME NEW r \in Record
  PROVE  /\ Committed(r) \subseteq OutgoingMessage /\ Committed(r) \subseteq r.sideEffects
         /\ Aborted(r) \subseteq SideEffect /\ Aborted(r) \subseteq r.sideEffects
         /\ r.sideEffects \cap Message = r.sideEffects \cap OutgoingMessage
         /\ \A m \in Message : m \in Frontend!CommittedSideEffects(r) <=> m \in Committed(r)
BY Kinds DEF Committed, Aborted, Frontend!AbortedSideEffects, Frontend!CommittedSideEffects,
   Record

-----------------------------------------------------------------------------
(* Types.                                                                  *)

LEMMA InitType == Init => PartitionTypeOK
<1>. SUFFICES ASSUME Init PROVE PartitionTypeOK
  OBVIOUS
<1>1. NoData \in [Request \cup Message -> Nat]
  BY DEF NoData, Message
<1>2. StoresTyped
  BY <1>1, EmptyRecordType, Kinds DEF Init, StoresTyped
<1>3. WorkersTyped
  BY Kinds DEF Init, WorkersTyped, Frontend!Stage, Backend!Stage, Stage, Attempting, Guid
<1>. QED
  BY <1>2, <1>3 DEF PartitionTypeOK

(* A step of one worker leaves the others where they are.                  *)
LEMMA WorkersStep ==
  ASSUME WorkersTyped, NEW p \in Worker,
         pc' \in [Worker -> Stage], att' \in [Worker -> Guid],
         \A q \in Worker \ {p} : pc'[q] = pc[q] /\ att'[q] = att[q],
         Attempting(p)' <=> att'[p] # None,
         p \in WebWorker =>
            /\ pc'[p] \in Frontend!Stage
            /\ req' \in [WebWorker -> Request \cup {None}] /\ msg' = msg
            /\ \A q \in WebWorker \ {p} : req'[q] = req[q]
            /\ pc'[p] = "idle" <=> req'[p] = None,
         p \in Consumer =>
            /\ pc'[p] \in Backend!Stage
            /\ msg' \in [Consumer -> Message \cup {None}] /\ req' = req
            /\ \A q \in Consumer \ {p} : msg'[q] = msg[q]
            /\ pc'[p] = "idle" <=> msg'[p] = None
  PROVE  WorkersTyped'
<1>1. \A q \in Worker : q # p => (Attempting(q)' <=> Attempting(q))
  BY DEF Attempting
<1>2. CASE p \in WebWorker
  <2>1. \A q \in Consumer : q \in Worker /\ q # p
    BY <1>2, Kinds
  <2>2. \A q \in WebWorker : q \in Worker
    BY Kinds
  <2>. QED
    BY <1>1, <1>2, <2>1, <2>2 DEF WorkersTyped
<1>3. CASE p \in Consumer
  <2>1. \A q \in WebWorker : q \in Worker /\ q # p
    BY <1>3, Kinds
  <2>2. \A q \in Consumer : q \in Worker
    BY Kinds
  <2>. QED
    BY <1>1, <1>3, <2>1, <2>2 DEF WorkersTyped
<1>. QED
  BY <1>2, <1>3 DEF Worker

(* A worker goes on with the same request or message, and the same attempt.*)
LEMMA MoveType ==
  ASSUME WorkersTyped, NEW p \in Worker, NEW s \in Stage \ {"idle"}, pc[p] # "idle",
         pc' = [pc EXCEPT ![p] = s], Attempting(p)' <=> Attempting(p),
         p \in WebWorker => s \in Frontend!Stage, p \in Consumer => s \in Backend!Stage,
         UNCHANGED <<att, req, msg>>
  PROVE  WorkersTyped'
<1>1. /\ pc' \in [Worker -> Stage] /\ pc'[p] = s
      /\ \A q \in Worker \ {p} : pc'[q] = pc[q]
  BY DEF WorkersTyped
<1>. QED
  BY <1>1, WorkersStep DEF WorkersTyped

(* Which stage is whose.                                                   *)
LEMMA Stages ==
  /\ \A s \in {"create request", "body", "load", "create", "check", "read", "transaction",
               "upload", "store", "commit", "publish", "clear", "lookup", "get", "answer",
               "response id", "delete response", "delete request", "idle"} :
        s \in Frontend!Stage /\ s \in Stage
  /\ \A s \in {"idle", "loadBody", "load", "create", "checkExists", "handle", "capture",
               "upload", "publish", "clear", "ack"} :
        s \in Backend!Stage /\ s \in Stage
BY DEF Frontend!Stage, Backend!Stage, Stage

(* A request to the frontend is over.                                      *)
LEMMA WebResetType ==
  ASSUME PartitionTypeOK, NEW p \in WebWorker, Frontend!Reset(p),
         account' = account, blobs' = blobs, queue' = queue, emitted' = emitted,
         requests' \subseteq Request, UNCHANGED backendVars
  PROVE  PartitionTypeOK'
<1>. USE DEF PartitionTypeOK
<1>1. /\ val' = [val EXCEPT ![p] = EmptyRecord] /\ current' = current \ {p}
      /\ pc' = [pc EXCEPT ![p] = "idle"] /\ att' = [att EXCEPT ![p] = None]
      /\ req' = [req EXCEPT ![p] = None] /\ snapshot' = [snapshot EXCEPT ![p] = Frontend!NoData]
      /\ outbox' = [outbox EXCEPT ![p] = {}] /\ discard' = [discard EXCEPT ![p] = {}]
      /\ record' = record /\ created' = created /\ msg' = msg
  BY EmptyRecordType DEF Frontend!Reset, Frontend!Forget, Frontend!Goto, backendVars
<1>2. p \in Worker /\ p \notin Consumer /\ None \in Guid
  BY Kinds DEF Guid
<1>3. StoresTyped'
  BY <1>1, <1>2, EmptyRecordType DEF StoresTyped
<1>4. /\ pc' \in [Worker -> Stage] /\ att' \in [Worker -> Guid] /\ pc'[p] = "idle" /\ att'[p] = None
      /\ req' \in [WebWorker -> Request \cup {None}] /\ req'[p] = None
      /\ \A q \in Worker \ {p} : pc'[q] = pc[q] /\ att'[q] = att[q]
      /\ \A q \in WebWorker \ {p} : req'[q] = req[q]
  BY <1>1, <1>2, Stages DEF WorkersTyped
<1>5. WorkersTyped'
  BY <1>1, <1>2, <1>4, WorkersStep, Stages DEF Attempting
<1>. QED
  BY <1>3, <1>5

LEMMA FrontendType ==
  ASSUME PartitionTypeOK, PartitionInv, FrontendStep
  PROVE  PartitionTypeOK'
<1>. PICK p \in WebWorker :
          \/ \E r \in Request : Frontend!Caller(p, r)
          \/ Frontend!Handler(p)
          \/ Frontend!Crash(p)
  BY DEF FrontendStep
<1>0. UNCHANGED msg /\ p \in Worker /\ p \notin Consumer
  BY Kinds DEF FrontendStep, backendVars
<1>. USE <1>0
         DEF PartitionTypeOK, Frontend!recordVars, Frontend!storeVars, Frontend!clientVars,
             Frontend!Goto, backendVars
<1>1. ASSUME NEW r \in Request, Frontend!Caller(p, r) PROVE PartitionTypeOK'
  <2>1. /\ pc[p] = "idle" /\ req' = [req EXCEPT ![p] = r]
        /\ UNCHANGED <<created, record, val, current, account, blobs, queue, emitted, att,
                       requests, snapshot, outbox, discard>>
    BY <1>1 DEF Frontend!Caller, Frontend!Put, Frontend!Post, Frontend!Delete, Frontend!Begin
  <2>2. PICK s \in {"create request", "body", "response id"} : pc' = [pc EXCEPT ![p] = s]
    BY <1>1 DEF Frontend!Caller, Frontend!Put, Frontend!Post, Frontend!Delete, Frontend!Begin
  <2>3. /\ pc' \in [Worker -> Stage] /\ pc'[p] = s /\ req'[p] = r /\ r # None
        /\ \A q \in Worker \ {p} : pc'[q] = pc[q]
        /\ req' \in [WebWorker -> Request \cup {None}]
        /\ \A q \in WebWorker \ {p} : req'[q] = req[q]
    BY <2>1, <2>2, Stages, Kinds DEF WorkersTyped
  <2>4. att[p] = None
    BY <2>1 DEF WorkersTyped, Attempting
  <2>5. ~Attempting(p)' /\ att' \in [Worker -> Guid] /\ att' = att
    BY <2>1, <2>3 DEF WorkersTyped, Attempting
  <2>6. s \in Frontend!Stage /\ s # "idle"
    BY Stages
  <2>7. WorkersTyped'
    BY <2>3, <2>4, <2>5, <2>6, WorkersStep
  <2>8. StoresTyped'
    BY <2>1 DEF StoresTyped
  <2>. QED
    BY <2>7, <2>8
<1>2. CASE Frontend!CreateRequest(p)
  <2>1. req[p] \in Request
    BY <1>2 DEF Frontend!CreateRequest, WorkersTyped
  <2>. QED
    BY <1>2, <2>1, WebResetType DEF Frontend!CreateRequest, StoresTyped
<1>3. CASE \/ Frontend!NoBody(p) \/ Frontend!CreateConflict(p) \/ Frontend!WriteConflict(p)
           \/ Frontend!NoResponseId(p) \/ Frontend!NoResponse(p) \/ Frontend!Answer(p)
           \/ Frontend!AssociateFails(p) \/ Frontend!ClearConflict(p) \/ Frontend!Crash(p)
           \/ Frontend!DeleteRequest(p)
  <2>1. /\ Frontend!Reset(p) /\ UNCHANGED <<account, blobs, queue, emitted>>
        /\ requests' \subseteq requests
    BY <1>3 DEF Frontend!NoBody, Frontend!CreateConflict, Frontend!WriteConflict, Frontend!Crash,
       Frontend!NoResponseId, Frontend!NoResponse, Frontend!Answer, Frontend!AssociateFails,
       Frontend!ClearConflict, Frontend!DeleteRequest, Frontend!Refuse, Frontend!Fail
  <2>. QED
    BY <2>1, WebResetType DEF StoresTyped
<1>4. CASE \/ Frontend!GetBody(p) \/ Frontend!LoadMissing(p) \/ Frontend!Duplicate(p)
           \/ Frontend!LookUp(p) \/ Frontend!GetResponse(p) \/ Frontend!GetResponseId(p)
           \/ Frontend!DeleteStoredResponse(p) \/ Frontend!Associate(p)
  <2>1. /\ pc[p] # "idle" /\ ~Attempting(p)
        /\ UNCHANGED <<created, record, val, current, account, blobs, queue, emitted, att, req,
                       requests, snapshot, outbox, discard>>
    BY <1>4 DEF Frontend!GetBody, Frontend!LoadMissing, Frontend!Duplicate, Frontend!LookUp,
       Frontend!GetResponse, Frontend!GetResponseId, Frontend!DeleteStoredResponse,
       Frontend!Associate, Frontend!Cleaned, Attempting
  <2>2. PICK s \in {"load", "create", "lookup", "get", "answer", "delete request",
                    "delete response", "clear"} : pc' = [pc EXCEPT ![p] = s]
    BY <1>4 DEF Frontend!GetBody, Frontend!LoadMissing, Frontend!Duplicate, Frontend!LookUp,
       Frontend!GetResponse, Frontend!GetResponseId, Frontend!DeleteStoredResponse,
       Frontend!Associate
  <2>3. ~Attempting(p)' /\ s \in Stage \ {"idle"} /\ s \in Frontend!Stage
    BY <2>2, Stages DEF WorkersTyped, Attempting
  <2>4. StoresTyped'
    BY <2>1 DEF StoresTyped
  <2>5. WorkersTyped'
    BY <2>1, <2>2, <2>3, MoveType
  <2>. QED
    BY <2>4, <2>5
<1>5. CASE Frontend!LoadFree(p)
  <2>1. /\ pc[p] = "load" /\ pc' = [pc EXCEPT ![p] = "check"] /\ UNCHANGED <<att, req>>
    BY <1>5 DEF Frontend!LoadFree
  <2>2. ~Attempting(p) /\ ~Attempting(p)'
    BY <2>1 DEF Attempting, WorkersTyped
  <2>3. WorkersTyped'
    BY <2>1, <2>2, MoveType, Stages
  <2>4. StoresTyped'
    BY <1>5 DEF Frontend!LoadFree, Frontend!Read, StoresTyped
  <2>. QED
    BY <2>3, <2>4
<1>6. CASE Frontend!LoadUnfinished(p)
  <2>1. /\ Frontend!CommittedSideEffects(record) \cap Frontend!OutgoingMessage
              \subseteq OutgoingMessage
        /\ Frontend!AbortedSideEffects(record) \subseteq SideEffect
    BY EffectTypes, Kinds DEF StoresTyped, Aborted
  <2>2. /\ pc[p] = "load" /\ pc' = [pc EXCEPT ![p] = "publish"] /\ UNCHANGED <<att, req>>
    BY <1>6 DEF Frontend!LoadUnfinished, Frontend!BeginFinish
  <2>3. ~Attempting(p) /\ ~Attempting(p)'
    BY <2>2 DEF Attempting, WorkersTyped
  <2>4. WorkersTyped'
    BY <2>2, <2>3, MoveType, Stages
  <2>5. StoresTyped'
    BY <1>6, <2>1 DEF Frontend!LoadUnfinished, Frontend!BeginFinish, Frontend!Read, StoresTyped
  <2>. QED
    BY <2>4, <2>5
<1>7. CASE Frontend!CreateRecord(p)
  <2>1. /\ pc[p] = "create" /\ pc' = [pc EXCEPT ![p] = "check"] /\ UNCHANGED <<att, req>>
    BY <1>7 DEF Frontend!CreateRecord
  <2>2. ~Attempting(p) /\ ~Attempting(p)'
    BY <2>1 DEF Attempting, WorkersTyped
  <2>3. WorkersTyped'
    BY <2>1, <2>2, MoveType, Stages
  <2>4. StoresTyped'
    BY <1>7, EmptyRecordType DEF Frontend!CreateRecord, Frontend!Create, StoresTyped
  <2>. QED
    BY <2>3, <2>4
<1>8. CASE Frontend!CheckToken(p)
  <2>1. PICK a \in Attempt : att' = [att EXCEPT ![p] = a]
    BY <1>8 DEF Frontend!CheckToken
  <2>2. pc[p] = "check" /\ pc' = [pc EXCEPT ![p] = "read"] /\ req' = req
    BY <1>8 DEF Frontend!CheckToken
  <2>3. /\ pc' \in [Worker -> Stage] /\ att' \in [Worker -> Guid]
        /\ \A q \in Worker \ {p} : pc'[q] = pc[q] /\ att'[q] = att[q]
        /\ pc'[p] = "read" /\ att'[p] # None
    BY <2>1, <2>2, Stages, Kinds DEF WorkersTyped, Guid
  <2>4. WorkersTyped'
    BY <2>2, <2>3, WorkersStep, Stages DEF WorkersTyped, Attempting
  <2>5. StoresTyped'
    BY <1>8 DEF Frontend!CheckToken, StoresTyped
  <2>. QED
    BY <2>4, <2>5
<1>9. CASE Frontend!ReadData(p)
  <2>1. /\ pc[p] = "read" /\ pc' = [pc EXCEPT ![p] = "transaction"] /\ UNCHANGED <<att, req>>
    BY <1>9 DEF Frontend!ReadData
  <2>2. Attempting(p) /\ Attempting(p)'
    BY <2>1 DEF Attempting, WorkersTyped
  <2>3. WorkersTyped'
    BY <2>1, <2>2, MoveType, Stages
  <2>4. StoresTyped'
    BY <1>9 DEF Frontend!ReadData, StoresTyped
  <2>. QED
    BY <2>3, <2>4
<1>10. ASSUME NEW s \in Slot, Frontend!Send(p, s) PROVE PartitionTypeOK'
  <2>. DEFINE m == [attemptId |-> att[p], slot |-> s]
  <2>1. /\ pc[p] = "transaction" /\ pc' = [pc EXCEPT ![p] = "upload"] /\ UNCHANGED <<att, req>>
    BY <1>10 DEF Frontend!Send
  <2>2. Attempting(p) /\ Attempting(p)'
    BY <2>1 DEF Attempting, WorkersTyped
  <2>3. WorkersTyped'
    BY <2>1, <2>2, MoveType, Stages
  <2>4. m \in OutgoingMessage
    BY <2>2 DEF WorkersTyped, OutgoingMessage, Backend!OutgoingMessage, Guid
  <2>5. [val[p] EXCEPT !.sideEffects = @ \cup {m}] \in Record
    BY <2>4 DEF StoresTyped, Record, SideEffect
  <2>. HIDE DEF m
  <2>6. /\ record' \in Record /\ val' = [val EXCEPT ![p] = record'] /\ current' = {p}
        /\ outbox' = [outbox EXCEPT ![p] = {m}]
        /\ UNCHANGED <<created, account, blobs, queue, emitted, requests, snapshot, discard>>
    BY <1>10, <2>5 DEF Frontend!Send, Frontend!AddSideEffects, Frontend!Replace, m
  <2>7. StoresTyped'
    BY <2>4, <2>6 DEF StoresTyped
  <2>. QED
    BY <2>3, <2>7
<1>11. CASE Frontend!Upload(p)
  <2>1. /\ pc[p] = "upload" /\ pc' = [pc EXCEPT ![p] = "transaction"] /\ UNCHANGED <<att, req>>
    BY <1>11 DEF Frontend!Upload
  <2>2. Attempting(p) /\ Attempting(p)'
    BY <2>1 DEF Attempting, WorkersTyped
  <2>3. WorkersTyped'
    BY <2>1, <2>2, MoveType, Stages
  <2>4. StoresTyped'
    BY <1>11, Kinds DEF Frontend!Upload, StoresTyped
  <2>. QED
    BY <2>3, <2>4
<1>12. CASE Frontend!RegisterResponse(p)
  <2>. DEFINE e == [attemptId |-> att[p], incomingId |-> req[p]]
  <2>1. /\ pc[p] = "transaction" /\ pc' = [pc EXCEPT ![p] = "store"] /\ UNCHANGED <<att, req>>
    BY <1>12 DEF Frontend!RegisterResponse
  <2>2. Attempting(p) /\ Attempting(p)'
    BY <2>1 DEF Attempting, WorkersTyped
  <2>3. WorkersTyped'
    BY <2>1, <2>2, MoveType, Stages
  <2>4. e \in SideEffect
    BY <2>1, <2>2 DEF WorkersTyped, SideEffect, Frontend!HttpResponse, Guid
  <2>5. [val[p] EXCEPT !.sideEffects = @ \cup {e}] \in Record
    BY <2>4 DEF StoresTyped, Record
  <2>. HIDE DEF e
  <2>6. /\ record' \in Record /\ val' = [val EXCEPT ![p] = record'] /\ current' = {p}
        /\ UNCHANGED <<created, account, blobs, queue, emitted, requests, snapshot, outbox,
                       discard>>
    BY <1>12, <2>5 DEF Frontend!RegisterResponse, Frontend!AddSideEffects, Frontend!Replace, e
  <2>7. StoresTyped'
    BY <2>6 DEF StoresTyped
  <2>. QED
    BY <2>3, <2>7
<1>13. CASE Frontend!StoreResponse(p)
  <2>1. /\ pc[p] = "store" /\ pc' = [pc EXCEPT ![p] = "commit"] /\ UNCHANGED <<att, req>>
    BY <1>13 DEF Frontend!StoreResponse
  <2>2. Attempting(p) /\ Attempting(p)'
    BY <2>1 DEF Attempting, WorkersTyped
  <2>3. WorkersTyped'
    BY <2>1, <2>2, MoveType, Stages
  <2>4. StoresTyped'
    BY <1>13 DEF Frontend!StoreResponse, StoresTyped
  <2>. QED
    BY <2>3, <2>4
<1>14. ASSUME NEW m \in Frontend!OutgoingMessage, Frontend!Dispatch(p, m)
      PROVE  PartitionTypeOK'
  <2>1. StoresTyped'
    BY <1>14, Kinds DEF Frontend!Dispatch, StoresTyped
  <2>2. WorkersTyped'
    BY <1>14 DEF Frontend!Dispatch, WorkersTyped, Attempting
  <2>. QED
    BY <2>1, <2>2
<1>15. ASSUME NEW m \in Frontend!OutgoingMessage, Frontend!EnsureDeleted(p, m)
      PROVE  PartitionTypeOK'
  <2>1. StoresTyped'
    BY <1>15, Kinds DEF Frontend!EnsureDeleted, StoresTyped
  <2>2. WorkersTyped'
    BY <1>15 DEF Frontend!EnsureDeleted, WorkersTyped, Attempting
  <2>. QED
    BY <2>1, <2>2
<1>16. ASSUME NEW e \in Frontend!HttpResponse, Frontend!DeleteAborted(p, e)
      PROVE  PartitionTypeOK'
  <2>1. StoresTyped'
    BY <1>16, Kinds DEF Frontend!DeleteAborted, StoresTyped
  <2>2. WorkersTyped'
    BY <1>16 DEF Frontend!DeleteAborted, WorkersTyped, Attempting
  <2>. QED
    BY <2>1, <2>2
<1>17. CASE Frontend!Clear(p)
  <2>1. pc[p] = "clear" /\ UNCHANGED <<att, req>>
    BY <1>17 DEF Frontend!Clear
  <2>2. PICK s \in {"check", "lookup", "answer"} : pc' = [pc EXCEPT ![p] = s]
    BY <1>17 DEF Frontend!Clear
  <2>3. ~Attempting(p) /\ ~Attempting(p)'
    BY <2>1, <2>2 DEF Attempting, WorkersTyped
  <2>4. WorkersTyped'
    BY <2>1, <2>2, <2>3, MoveType, Stages
  <2>5. StoresTyped'
    BY <1>17, EmptyRecordType DEF Frontend!Clear, Frontend!ClearTransactionState, Frontend!Replace,
       StoresTyped
  <2>. QED
    BY <2>4, <2>5
<1>18. CASE Frontend!Commit(p)
  <2>1. p \in current /\ pc[p] = "commit"
    BY <1>18 DEF Frontend!Commit, Frontend!CommitStateTransition, Frontend!Replace,
       Frontend!EtagMatches
  <2>2. snapshot[p] = account /\ req[p] \in Request /\ att[p] \in Attempt
    BY <2>1 DEF PartitionInv, AttemptsSound, AttemptSound, HasRead, Attempting, Guid, WorkersTyped
  <2>3. account' \in [Request \cup Message -> Nat]
    <3>1. account' = [account EXCEPT ![req[p]] = account[req[p]] + 1]
      BY <1>18, <2>2 DEF Frontend!Commit, Frontend!Apply
    <3>2. account \in [Request \cup Message -> Nat] /\ account[req[p]] + 1 \in Nat
      BY <2>2 DEF StoresTyped
    <3>. QED
      BY <3>1, <3>2
  <2>4. record' \in Record
    <3>1. val[p] \in Record
      BY DEF StoresTyped
    <3>2. [val[p] EXCEPT !.messageId = req[p], !.attemptId = att[p]] \in Record
      BY <2>2, <3>1 DEF Record, Guid
    <3>. QED
      BY <1>18, <3>2 DEF Frontend!Commit, Frontend!CommitStateTransition, Frontend!Replace
  <2>5. /\ Frontend!CommittedSideEffects(record') \cap Frontend!OutgoingMessage
              \subseteq OutgoingMessage
        /\ Frontend!AbortedSideEffects(record') \subseteq SideEffect
    BY <2>4, EffectTypes, Kinds DEF Aborted
  <2>6. /\ val' = [val EXCEPT ![p] = record'] /\ current' = {p} /\ created' = created
        /\ emitted' = emitted \cup Frontend!Own(p)
        /\ att' = [att EXCEPT ![p] = None] /\ pc' = [pc EXCEPT ![p] = "publish"]
        /\ snapshot' = [snapshot EXCEPT ![p] = Frontend!NoData]
        /\ outbox' = [outbox EXCEPT ![p] =
                        Frontend!CommittedSideEffects(record') \cap Frontend!OutgoingMessage]
        /\ discard' = [discard EXCEPT ![p] = Frontend!AbortedSideEffects(record')]
        /\ UNCHANGED <<blobs, queue, requests, req>>
    BY <1>18 DEF Frontend!Commit, Frontend!CommitStateTransition, Frontend!Replace,
       Frontend!BeginFinish
  <2>7. Frontend!Own(p) \subseteq Message
    BY Kinds DEF Frontend!Own
  <2>8. /\ \A q \in Worker \ {p} : pc'[q] = pc[q] /\ att'[q] = att[q]
        /\ pc'[p] = "publish" /\ att'[p] = None /\ att' \in [Worker -> Guid]
        /\ pc' \in [Worker -> Stage]
    BY <2>6, Stages DEF WorkersTyped, Guid
  <2>9. WorkersTyped'
    <3>1. ~Attempting(p)'
      BY <2>8 DEF Attempting
    <3>2. req' = req /\ req[p] # None /\ req \in [WebWorker -> Request \cup {None}]
      BY <2>2, <2>6, Kinds DEF WorkersTyped
    <3>3. "publish" \in Frontend!Stage
      BY Stages
    <3>. QED
      BY <2>8, <3>1, <3>2, <3>3, WorkersStep DEF WorkersTyped
  <2>10. StoresTyped'
    BY <2>3, <2>4, <2>5, <2>6, <2>7 DEF StoresTyped
  <2>. QED
    BY <2>9, <2>10
<1>. QED
  BY <1>1, <1>2, <1>3, <1>4, <1>5, <1>6, <1>7, <1>8, <1>9, <1>10, <1>11, <1>12, <1>13, <1>14,
     <1>15, <1>16, <1>17, <1>18
  DEF Frontend!Handler, Frontend!ExecuteTransaction, Frontend!FinishProcessing,
      Frontend!DeleteResponse

(* A delivery to the backend is over.                                      *)
LEMMA BackendResetType ==
  ASSUME PartitionTypeOK, NEW p \in Consumer, Backend!Reset(p),
         queue' \subseteq Message, requests' = requests, req' = req
  PROVE  PartitionTypeOK'
<1>. USE DEF PartitionTypeOK
<1>1. /\ val' = [val EXCEPT ![p] = EmptyRecord] /\ current' = current \ {p}
      /\ pc' = [pc EXCEPT ![p] = "idle"] /\ att' = [att EXCEPT ![p] = None]
      /\ msg' = [msg EXCEPT ![p] = None] /\ snapshot' = [snapshot EXCEPT ![p] = Backend!NoData]
      /\ outbox' = [outbox EXCEPT ![p] = {}] /\ discard' = [discard EXCEPT ![p] = {}]
      /\ record' = record /\ created' = created
      /\ account' = account /\ blobs' = blobs /\ emitted' = emitted
  BY EmptyRecordType DEF Backend!Reset, Backend!Forget
<1>2. p \in Worker /\ p \notin WebWorker /\ None \in Guid
  BY Kinds DEF Guid
<1>3. StoresTyped'
  BY <1>1, <1>2, EmptyRecordType DEF StoresTyped
<1>4. /\ pc' \in [Worker -> Stage] /\ att' \in [Worker -> Guid] /\ pc'[p] = "idle" /\ att'[p] = None
      /\ msg' \in [Consumer -> Message \cup {None}] /\ msg'[p] = None
      /\ \A q \in Worker \ {p} : pc'[q] = pc[q] /\ att'[q] = att[q]
      /\ \A q \in Consumer \ {p} : msg'[q] = msg[q]
  BY <1>1, <1>2, Stages DEF WorkersTyped
<1>5. WorkersTyped'
  BY <1>1, <1>2, <1>4, WorkersStep, Stages DEF Attempting
<1>. QED
  BY <1>3, <1>5

LEMMA BackendType ==
  ASSUME PartitionTypeOK, PartitionInv, BackendStep
  PROVE  PartitionTypeOK'
<1>. PICK p \in Consumer :
          \/ \E m \in Message : Backend!Receive(p, m)
          \/ Backend!Process(p)
          \/ Backend!Redeliver(p)
          \/ Backend!Crash(p)
  BY DEF BackendStep, Backend!Next, Message
<1>0. req' = req /\ requests' = requests /\ p \in Worker /\ p \notin WebWorker
  BY Kinds DEF BackendStep, frontendVars
<1>. USE <1>0
         DEF PartitionTypeOK, Backend!recordVars, Backend!storeVars, Backend!workerVars
<1>1. ASSUME NEW m \in Message, Backend!Receive(p, m) PROVE PartitionTypeOK'
  <2>1. /\ pc[p] = "idle" /\ msg' = [msg EXCEPT ![p] = m] /\ queue' = queue \ {m}
        /\ pc' = [pc EXCEPT ![p] = "loadBody"]
        /\ UNCHANGED <<created, record, val, current, account, blobs, emitted, att,
                       snapshot, outbox, discard>>
    BY <1>1 DEF Backend!Receive
  <2>2. /\ pc' \in [Worker -> Stage] /\ pc'[p] = "loadBody" /\ msg'[p] = m /\ m # None
        /\ \A q \in Worker \ {p} : pc'[q] = pc[q]
        /\ msg' \in [Consumer -> Message \cup {None}]
        /\ \A q \in Consumer \ {p} : msg'[q] = msg[q]
    BY <2>1, Stages, Kinds DEF WorkersTyped
  <2>3. /\ ~Attempting(p)' /\ att' \in [Worker -> Guid] /\ att' = att /\ att[p] = None
    BY <2>1, <2>2 DEF WorkersTyped, Attempting
  <2>4. WorkersTyped'
    BY <2>2, <2>3, WorkersStep, Stages
  <2>5. StoresTyped'
    BY <2>1 DEF StoresTyped
  <2>. QED
    BY <2>4, <2>5
<1>2. CASE Backend!Redeliver(p)
  <2>1. msg[p] \in Message
    BY <1>2 DEF Backend!Redeliver, WorkersTyped
  <2>2. StoresTyped'
    BY <1>2, <2>1 DEF Backend!Redeliver, StoresTyped
  <2>3. WorkersTyped'
    BY <1>2 DEF Backend!Redeliver, WorkersTyped, Attempting
  <2>. QED
    BY <2>2, <2>3
<1>3. CASE \/ Backend!CreateConflict(p) \/ Backend!WriteConflict(p)
           \/ Backend!ClearConflict(p) \/ Backend!Crash(p)
  <2>1. Backend!Fail(p) /\ pc[p] # "idle"
    BY <1>3 DEF Backend!CreateConflict, Backend!WriteConflict, Backend!ClearConflict, Backend!Crash
  <2>2. msg[p] \in Message
    BY <2>1 DEF WorkersTyped
  <2>3. queue' \subseteq Message
    BY <2>1, <2>2 DEF Backend!Fail, StoresTyped
  <2>. QED
    BY <2>1, <2>3, BackendResetType DEF Backend!Fail
<1>4. CASE Backend!IgnoreDuplicate(p) \/ Backend!Complete(p)
  <2>1. Backend!Reset(p) /\ queue' = queue
    BY <1>4 DEF Backend!IgnoreDuplicate, Backend!Complete, Backend!Ack
  <2>. QED
    BY <2>1, BackendResetType DEF StoresTyped
<1>5. CASE Backend!LoadMessageBody(p)
  <2>1. /\ pc[p] = "loadBody" /\ pc' = [pc EXCEPT ![p] = "load"] /\ UNCHANGED <<att, msg>>
    BY <1>5 DEF Backend!LoadMessageBody
  <2>2. ~Attempting(p) /\ ~Attempting(p)'
    BY <2>1 DEF Attempting, WorkersTyped
  <2>3. WorkersTyped'
    BY <2>1, <2>2, MoveType, Stages
  <2>4. StoresTyped'
    BY <1>5 DEF Backend!LoadMessageBody, StoresTyped
  <2>. QED
    BY <2>3, <2>4
<1>6. CASE Backend!LoadFree(p)
  <2>1. /\ pc[p] = "load" /\ pc' = [pc EXCEPT ![p] = "checkExists"] /\ UNCHANGED <<att, msg>>
    BY <1>6 DEF Backend!LoadFree
  <2>2. ~Attempting(p) /\ ~Attempting(p)'
    BY <2>1 DEF Attempting, WorkersTyped
  <2>3. WorkersTyped'
    BY <2>1, <2>2, MoveType, Stages
  <2>4. StoresTyped'
    BY <1>6 DEF Backend!LoadFree, Backend!Read, StoresTyped
  <2>. QED
    BY <2>3, <2>4
<1>7. CASE Backend!LoadUnfinished(p)
  <2>1. /\ Backend!CommittedSideEffects(record) \cap Backend!OutgoingMessage
              \subseteq OutgoingMessage
        /\ Backend!AbortedSideEffects(record) \cap Backend!OutgoingMessage \subseteq SideEffect
    BY DEF OutgoingMessage, SideEffect
  <2>2. /\ pc[p] = "load" /\ pc' = [pc EXCEPT ![p] = "publish"] /\ UNCHANGED <<att, msg>>
    BY <1>7 DEF Backend!LoadUnfinished, Backend!BeginFinish
  <2>3. ~Attempting(p) /\ ~Attempting(p)'
    BY <2>2 DEF Attempting, WorkersTyped
  <2>4. WorkersTyped'
    BY <2>2, <2>3, MoveType, Stages
  <2>5. StoresTyped'
    BY <1>7, <2>1 DEF Backend!LoadUnfinished, Backend!BeginFinish, Backend!Read, StoresTyped
  <2>. QED
    BY <2>4, <2>5
<1>8. CASE Backend!LoadMissing(p)
  <2>1. /\ pc[p] = "load" /\ pc' = [pc EXCEPT ![p] = "create"] /\ UNCHANGED <<att, msg>>
    BY <1>8 DEF Backend!LoadMissing
  <2>2. ~Attempting(p) /\ ~Attempting(p)'
    BY <2>1 DEF Attempting, WorkersTyped
  <2>3. WorkersTyped'
    BY <2>1, <2>2, MoveType, Stages
  <2>4. StoresTyped'
    BY <1>8 DEF Backend!LoadMissing, StoresTyped
  <2>. QED
    BY <2>3, <2>4
<1>9. CASE Backend!CreateRecord(p)
  <2>1. /\ pc[p] = "create" /\ pc' = [pc EXCEPT ![p] = "checkExists"] /\ UNCHANGED <<att, msg>>
    BY <1>9 DEF Backend!CreateRecord
  <2>2. ~Attempting(p) /\ ~Attempting(p)'
    BY <2>1 DEF Attempting, WorkersTyped
  <2>3. WorkersTyped'
    BY <2>1, <2>2, MoveType, Stages
  <2>4. StoresTyped'
    BY <1>9, EmptyRecordType DEF Backend!CreateRecord, Backend!Create, StoresTyped
  <2>. QED
    BY <2>3, <2>4
<1>10. CASE Backend!CheckExists(p)
  <2>1. PICK a \in Attempt : att' = [att EXCEPT ![p] = a]
    BY <1>10 DEF Backend!CheckExists
  <2>2. pc[p] = "checkExists" /\ pc' = [pc EXCEPT ![p] = "handle"] /\ msg' = msg
    BY <1>10 DEF Backend!CheckExists
  <2>3. /\ pc' \in [Worker -> Stage] /\ att' \in [Worker -> Guid]
        /\ \A q \in Worker \ {p} : pc'[q] = pc[q] /\ att'[q] = att[q]
        /\ pc'[p] = "handle" /\ att'[p] # None
    BY <2>1, <2>2, Stages, Kinds DEF WorkersTyped, Guid
  <2>4. WorkersTyped'
    BY <2>2, <2>3, WorkersStep, Stages DEF WorkersTyped, Attempting
  <2>5. StoresTyped'
    BY <1>10 DEF Backend!CheckExists, StoresTyped
  <2>. QED
    BY <2>4, <2>5
<1>11. CASE Backend!Handle(p)
  <2>1. /\ pc[p] = "handle" /\ pc' = [pc EXCEPT ![p] = "capture"] /\ UNCHANGED <<att, msg>>
    BY <1>11 DEF Backend!Handle
  <2>2. Attempting(p) /\ Attempting(p)'
    BY <2>1 DEF Attempting, WorkersTyped
  <2>3. WorkersTyped'
    BY <2>1, <2>2, MoveType, Stages
  <2>4. att[p] \in Attempt
    BY <2>2 DEF WorkersTyped, Guid
  <2>5. PICK sent \in SUBSET OutgoingMessage : outbox' = [outbox EXCEPT ![p] = sent]
    BY <1>11, <2>4 DEF Backend!Handle, Backend!Sends, OutgoingMessage, Backend!OutgoingMessage
  <2>6. StoresTyped'
    BY <1>11, <2>5 DEF Backend!Handle, StoresTyped
  <2>. QED
    BY <2>3, <2>6
<1>12. CASE Backend!CaptureOutgoing(p)
  <2>1. /\ pc[p] = "capture" /\ pc' = [pc EXCEPT ![p] = "upload"] /\ UNCHANGED <<att, msg>>
    BY <1>12 DEF Backend!CaptureOutgoing
  <2>2. Attempting(p) /\ Attempting(p)'
    BY <2>1 DEF Attempting, WorkersTyped
  <2>3. WorkersTyped'
    BY <2>1, <2>2, MoveType, Stages
  <2>4. [val[p] EXCEPT !.sideEffects = @ \cup outbox[p]] \in Record
    BY DEF StoresTyped, Record, SideEffect
  <2>5. /\ record' \in Record /\ val' = [val EXCEPT ![p] = record'] /\ current' = {p}
        /\ UNCHANGED <<created, account, blobs, queue, emitted, snapshot, outbox, discard>>
    BY <1>12, <2>4 DEF Backend!CaptureOutgoing, Backend!AddSideEffects, Backend!Replace
  <2>6. StoresTyped'
    BY <2>5 DEF StoresTyped
  <2>. QED
    BY <2>3, <2>6
<1>13. ASSUME NEW m \in Backend!OutgoingMessage, Backend!Upload(p, m)
      PROVE  PartitionTypeOK'
  <2>1. m \in Message
    BY Kinds DEF OutgoingMessage
  <2>2. StoresTyped'
    BY <1>13, <2>1 DEF Backend!Upload, StoresTyped
  <2>3. WorkersTyped'
    BY <1>13 DEF Backend!Upload, WorkersTyped, Attempting
  <2>. QED
    BY <2>2, <2>3
<1>14. ASSUME NEW m \in Backend!OutgoingMessage, Backend!Dispatch(p, m)
      PROVE  PartitionTypeOK'
  <2>1. m \in Message
    BY Kinds DEF OutgoingMessage
  <2>2. StoresTyped'
    BY <1>14, <2>1 DEF Backend!Dispatch, StoresTyped
  <2>3. WorkersTyped'
    BY <1>14 DEF Backend!Dispatch, WorkersTyped, Attempting
  <2>. QED
    BY <2>2, <2>3
<1>15. ASSUME NEW m \in Backend!OutgoingMessage, Backend!EnsureDeleted(p, m)
      PROVE  PartitionTypeOK'
  <2>1. m \in Message
    BY Kinds DEF OutgoingMessage
  <2>2. StoresTyped'
    BY <1>15, <2>1 DEF Backend!EnsureDeleted, StoresTyped
  <2>3. WorkersTyped'
    BY <1>15 DEF Backend!EnsureDeleted, WorkersTyped, Attempting
  <2>. QED
    BY <2>2, <2>3
<1>16. CASE Backend!DeleteToken(p)
  <2>1. /\ pc[p] = "publish" /\ pc' = [pc EXCEPT ![p] = "clear"] /\ UNCHANGED <<att, msg>>
    BY <1>16 DEF Backend!DeleteToken
  <2>2. ~Attempting(p) /\ ~Attempting(p)'
    BY <2>1 DEF Attempting, WorkersTyped
  <2>3. WorkersTyped'
    BY <2>1, <2>2, MoveType, Stages
  <2>4. StoresTyped'
    BY <1>16 DEF Backend!DeleteToken, StoresTyped
  <2>. QED
    BY <2>3, <2>4
<1>17. CASE Backend!Clear(p)
  <2>1. pc[p] = "clear" /\ UNCHANGED <<att, msg>>
    BY <1>17 DEF Backend!Clear
  <2>2. PICK s \in {"ack", "checkExists"} : pc' = [pc EXCEPT ![p] = s]
    BY <1>17 DEF Backend!Clear
  <2>3. ~Attempting(p) /\ ~Attempting(p)'
    BY <2>1, <2>2 DEF Attempting, WorkersTyped
  <2>4. WorkersTyped'
    BY <2>1, <2>2, <2>3, MoveType, Stages
  <2>5. StoresTyped'
    BY <1>17, EmptyRecordType DEF Backend!Clear, Backend!ClearTransactionState, Backend!Replace,
       StoresTyped
  <2>. QED
    BY <2>4, <2>5
<1>18. CASE Backend!Commit(p)
  <2>1. p \in current /\ pc[p] = "upload"
    BY <1>18 DEF Backend!Commit, Backend!CommitStateTransition, Backend!Replace,
       Backend!EtagMatches
  <2>2. snapshot[p] = account /\ msg[p] \in Message /\ att[p] \in Attempt
    BY <2>1 DEF PartitionInv, AttemptsSound, AttemptSound, HasRead, Attempting, Guid, WorkersTyped
  <2>3. account' \in [Request \cup Message -> Nat]
    <3>1. account' = [account EXCEPT ![msg[p]] = account[msg[p]] + 1]
      BY <1>18, <2>2 DEF Backend!Commit, Backend!Apply
    <3>2. account \in [Request \cup Message -> Nat] /\ account[msg[p]] + 1 \in Nat
      BY <2>2 DEF StoresTyped
    <3>. QED
      BY <3>1, <3>2
  <2>4. record' \in Record
    <3>1. val[p] \in Record
      BY DEF StoresTyped
    <3>2. [val[p] EXCEPT !.messageId = msg[p], !.attemptId = att[p]] \in Record
      BY <2>2, <3>1 DEF Record, Guid
    <3>. QED
      BY <1>18, <3>2 DEF Backend!Commit, Backend!CommitStateTransition, Backend!Replace
  <2>5. /\ Backend!CommittedSideEffects(record') \cap Backend!OutgoingMessage
              \subseteq OutgoingMessage
        /\ Backend!AbortedSideEffects(record') \cap Backend!OutgoingMessage \subseteq SideEffect
    BY DEF OutgoingMessage, SideEffect
  <2>6. /\ val' = [val EXCEPT ![p] = record'] /\ current' = {p} /\ created' = created
        /\ emitted' = emitted \cup Backend!Own(p)
        /\ att' = [att EXCEPT ![p] = None] /\ pc' = [pc EXCEPT ![p] = "publish"]
        /\ snapshot' = [snapshot EXCEPT ![p] = Backend!NoData]
        /\ outbox' = [outbox EXCEPT ![p] =
                        Backend!CommittedSideEffects(record') \cap Backend!OutgoingMessage]
        /\ discard' = [discard EXCEPT ![p] =
                         Backend!AbortedSideEffects(record') \cap Backend!OutgoingMessage]
        /\ UNCHANGED <<blobs, queue, msg>>
    BY <1>18 DEF Backend!Commit, Backend!CommitStateTransition, Backend!Replace,
       Backend!BeginFinish
  <2>7. Backend!Own(p) \subseteq Message
    BY Kinds DEF Backend!Own, OutgoingMessage
  <2>8. /\ \A q \in Worker \ {p} : pc'[q] = pc[q] /\ att'[q] = att[q]
        /\ pc'[p] = "publish" /\ att'[p] = None /\ att' \in [Worker -> Guid]
        /\ pc' \in [Worker -> Stage]
    BY <2>6, Stages DEF WorkersTyped, Guid
  <2>9. WorkersTyped'
    <3>1. ~Attempting(p)'
      BY <2>8 DEF Attempting
    <3>2. msg' = msg /\ msg[p] # None /\ msg \in [Consumer -> Message \cup {None}]
      BY <2>2, <2>6, Kinds DEF WorkersTyped
    <3>3. "publish" \in Backend!Stage
      BY Stages
    <3>. QED
      BY <2>8, <3>1, <3>2, <3>3, WorkersStep DEF WorkersTyped
  <2>10. StoresTyped'
    BY <2>3, <2>4, <2>5, <2>6, <2>7 DEF StoresTyped
  <2>. QED
    BY <2>9, <2>10
<1>. QED
  BY <1>1, <1>2, <1>3, <1>4, <1>5, <1>6, <1>7, <1>8, <1>9, <1>10, <1>11, <1>12, <1>13, <1>14,
     <1>15, <1>16, <1>17, <1>18
  DEF Backend!Process

-----------------------------------------------------------------------------
(* The invariant.  A step of one worker: what it keeps for the others.     *)

OthersKept(p) ==
    /\ \A q \in Worker : q # p =>
          /\ pc'[q] = pc[q] /\ att'[q] = att[q] /\ val'[q] = val[q]
          /\ snapshot'[q] = snapshot[q] /\ outbox'[q] = outbox[q] /\ discard'[q] = discard[q]
          /\ q \in current' => q \in current
    /\ \A q \in Consumer : q # p => msg'[q] = msg[q]

(* A new Guid, as the invariant sees it.                                   *)
Fresh(a) ==
    /\ a \in Attempt
    /\ \A q \in Worker : att[q] # a /\ \A e \in val[q].sideEffects : e.attemptId # a
    /\ \A e \in emitted \cap OutgoingMessage : e.attemptId # a

StagesKept(p) ==
    \A q \in Worker : q # p =>
        /\ Attempting(q)' <=> Attempting(q)
        /\ HasRead(q)' <=> HasRead(q)
        /\ Finishing(q)' <=> Finishing(q)

LEMMA OtherStages ==
  ASSUME NEW p \in Worker, OthersKept(p)
  PROVE  StagesKept(p)
BY DEF OthersKept, StagesKept, Attempting, HasRead, Finishing

(* Another attempt stays sound while its etag is good: nobody else writes  *)
(* the business data, or deletes its messages.                             *)
LEMMA OtherAttempt ==
  ASSUME PartitionTypeOK, PartitionInv, NEW p \in Worker, OthersKept(p),
         NEW q \in Worker, q # p,
         q \in current' => account' = account,
         q \in current' => \A e \in blobs \cap OutgoingMessage :
                              e.attemptId = att[q] /\ Attempting(q) => e \in blobs'
  PROVE  AttemptSound(q)'
<1>1. /\ AttemptSound(q)
      /\ q \in current' => q \in current
      /\ pc'[q] = pc[q] /\ att'[q] = att[q] /\ val'[q] = val[q] /\ snapshot'[q] = snapshot[q]
      /\ outbox'[q] = outbox[q]
      /\ q \in Consumer => msg'[q] = msg[q]
  BY DEF OthersKept, PartitionInv, AttemptsSound
<1>2. (Attempting(q)' <=> Attempting(q)) /\ (HasRead(q)' <=> HasRead(q))
  BY OtherStages DEF StagesKept
<1>3. pc[q] \in {"check", "checkExists"} \/ Attempting(q) => ~InTransaction(val[q])
  BY <1>1 DEF AttemptSound
<1>4. ~InTransaction(val[q]) => ~InTransaction(val[q])'
  BY <1>1 DEF InTransaction, Frontend!InTransaction
<1>. QED
  BY <1>1, <1>2, <1>3, <1>4 DEF AttemptSound

(* A copy of a transaction stays sound.                                    *)
LEMMA TransactionKept ==
  ASSUME NEW r \in Record, TransactionSound(r), PartitionTypeOK, PartitionTypeOK',
         \A m \in Message : account'[m] >= account[m],
         emitted \subseteq emitted'
  PROVE  /\ r.messageId \in Message => account'[r.messageId] > 0
         /\ Committed(r) \subseteq emitted'
<1>1. \A m \in Message : account[m] \in Nat /\ account'[m] \in Nat
  BY DEF PartitionTypeOK, StoresTyped
<1>. QED
  BY <1>1 DEF TransactionSound

LEMMA OtherFinisher ==
  ASSUME PartitionTypeOK, PartitionTypeOK', PartitionInv, NEW p \in Worker, OthersKept(p),
         NEW q \in Worker, q # p, Finishing(q)',
         \A m \in Message : account'[m] >= account[m],
         \A m \in Message : Backend!InTransit(m) => Backend!InTransit(m)' \/ account'[m] > 0,
         emitted \subseteq emitted',
         discard[q] \cap emitted' = {},
         \A r \in current' : Attempting(r)' => \A e \in discard[q] : e.attemptId # att'[r],
         q \in current' => \A m \in blobs' : m \in blobs \/ m # val[q].messageId
  PROVE  FinisherSound(q)'
<1>1. /\ q \in current' => q \in current
      /\ pc'[q] = pc[q] /\ val'[q] = val[q]
      /\ outbox'[q] = outbox[q] /\ discard'[q] = discard[q]
  BY DEF OthersKept
<1>2. FinisherSound(q)
  BY OtherStages DEF StagesKept, PartitionInv, FinishersSound
<1>3. val[q] \in Record
  BY DEF PartitionTypeOK, StoresTyped
<1>4. /\ Committed(val[q])' = Committed(val[q]) /\ Aborted(val[q])' = Aborted(val[q])
      /\ InTransaction(val[q])' <=> InTransaction(val[q])
  BY <1>1 DEF Committed, Aborted, InTransaction, Frontend!InTransaction,
     Frontend!CommittedSideEffects, Frontend!AbortedSideEffects, Frontend!OutgoingMessage
<1>5. TransactionSound(val[q])'
  BY <1>1, <1>2, <1>3, <1>4, TransactionKept DEF FinisherSound, TransactionSound
<1>6. \A m \in Committed(val[q]) \ outbox[q] : Backend!InTransit(m)' \/ account'[m] > 0
  <2>1. \A m \in Committed(val[q]) : m \in Message
    BY <1>3, EffectTypes, Kinds
  <2>2. \A m \in Message : account[m] \in Nat /\ account'[m] \in Nat
    BY DEF PartitionTypeOK, StoresTyped
  <2>. QED
    BY <1>2, <2>1, <2>2 DEF FinisherSound
<1>. QED
  BY <1>1, <1>2, <1>4, <1>5, <1>6 DEF FinisherSound

(* A step that writes neither the record, nor the business data, nor the   *)
(* claim check, nor sends: only the worker itself is to be looked at.      *)
LEMMA LocalStep ==
  ASSUME PartitionTypeOK, PartitionTypeOK', PartitionInv, NEW p \in Worker, OthersKept(p),
         UNCHANGED <<created, record, account, emitted, blobs>>,
         queue' \subseteq emitted,
         \A m \in Message : Backend!InTransit(m) => Backend!InTransit(m)' \/ account[m] > 0,
         p \in current' => val'[p] = record /\ created,
         p \in Consumer => /\ pc'[p] # "idle" => msg'[p] \in emitted
                           /\ pc'[p] = "ack" => account[msg'[p]] > 0,
         \/ att'[p] = None
         \/ att'[p] = att[p] /\ (p \in current' => p \in current)
         \/ Fresh(att'[p]),
         AttemptSound(p)',
         Finishing(p)' => FinisherSound(p)'
  PROVE  PartitionInv'
<1>1. CurrentCopy'
  BY DEF PartitionInv, CurrentCopy, OthersKept, PartitionTypeOK, StoresTyped
<1>2. WorkerMessage'
  BY Kinds DEF PartitionInv, WorkerMessage, OthersKept
<1>3. AttemptsUnique'
  <2>1. \A q, r \in Worker : att'[q] # None /\ att'[q] = att'[r] => q = r
    BY DEF PartitionInv, AttemptsUnique, OthersKept, Fresh
  <2>2. \A q \in Worker : \A e \in emitted \cap OutgoingMessage : e.attemptId # att'[q]
    <3>1. \A e \in OutgoingMessage : e.attemptId # None
      BY Kinds DEF SideEffect
    <3>. QED
      BY <3>1 DEF PartitionInv, AttemptsUnique, OthersKept, Fresh
  <2>. QED
    BY <2>1, <2>2 DEF AttemptsUnique, OutgoingMessage, Backend!OutgoingMessage
<1>4. RecordSound'
  BY DEF PartitionInv, RecordSound, TransactionSound, Committed, Aborted, InTransaction,
         Frontend!InTransaction, Frontend!CommittedSideEffects, Frontend!AbortedSideEffects,
         Frontend!OutgoingMessage
<1>5. AttemptsSound'
  <2>1. ASSUME NEW q \in Worker, q # p PROVE AttemptSound(q)'
    BY <2>1, OtherAttempt
  <2>. QED
    BY <2>1 DEF AttemptsSound
<1>6. FinishersSound'
  <2>1. ASSUME NEW q \in Worker, q # p, Finishing(q)' PROVE FinisherSound(q)'
    <3>1. FinisherSound(q)
      BY <2>1, OtherStages DEF StagesKept, PartitionInv, FinishersSound
    <3>2. \A r \in current' : Attempting(r)' => \A e \in discard[q] : e.attemptId # att'[r]
      <4>1. \A e \in discard[q] : e \in val[q].sideEffects /\ e.attemptId # None
        BY <3>1, EffectTypes, Kinds DEF FinisherSound, PartitionTypeOK, StoresTyped
      <4>2. \A r \in current' : r \in Worker /\ r # p /\ Attempting(r)' =>
               r \in current /\ Attempting(r) /\ att'[r] = att[r]
        BY OtherStages DEF StagesKept, OthersKept
      <4>3. ASSUME p \in current', Attempting(p)', NEW e \in discard[q]
            PROVE  e.attemptId # att'[p]
        <5>1. CASE att'[p] = None
          BY <4>1, <5>1
        <5>2. CASE Fresh(att'[p])
          BY <4>1, <5>2 DEF Fresh
        <5>3. CASE att'[p] = att[p] /\ att'[p] # None /\ p \in current
          <6>1. Attempting(p)
            BY <5>3 DEF PartitionTypeOK, WorkersTyped
          <6>. QED
            BY <3>1, <5>3, <6>1 DEF FinisherSound
        <5>. QED
          BY <4>3, <5>1, <5>2, <5>3
      <4>4. current' \subseteq Worker
        BY DEF PartitionTypeOK, StoresTyped
      <4>. QED
        BY <3>1, <4>2, <4>3, <4>4 DEF FinisherSound
    <3>3. discard[q] \cap emitted' = {}
      BY <3>1 DEF FinisherSound
    <3>4. \A m \in Message : account'[m] >= account[m]
      BY DEF PartitionTypeOK, StoresTyped
    <3>. QED
      BY <2>1, <3>2, <3>3, <3>4, OtherFinisher
  <2>. QED
    BY <2>1 DEF FinishersSound
<1>7. DataSound'
  BY Kinds DEF PartitionInv, DataSound, OthersKept, Message, Backend!Message,
     Backend!OutgoingMessage
<1>8. MessageAppliedAtMostOnce' /\ TokenUntilApplied'
  BY DEF PartitionInv, MessageAppliedAtMostOnce, TokenUntilApplied, Message, Backend!Message,
     Backend!OutgoingMessage
<1>9. NoMessageLost'
  <2>1. \A m \in emitted : m \in Message
    BY DEF PartitionTypeOK, StoresTyped
  <2>2. \A m \in Message : account[m] \in Nat
    BY DEF PartitionTypeOK, StoresTyped
  <2>3. ASSUME NEW m \in emitted, account[m] = 0
        PROVE  \/ Backend!InTransit(m)'
               \/ Frontend!InTransaction(record) /\ m \in Frontend!CommittedSideEffects(record)
    <3>1. Backend!InTransit(m) => Backend!InTransit(m)' \/ account[m] > 0
      BY <2>1
    <3>2. \/ Backend!InTransit(m)
          \/ Frontend!InTransaction(record) /\ m \in Frontend!CommittedSideEffects(record)
      BY <2>3 DEF PartitionInv, NoMessageLost
    <3>. QED
      BY <2>3, <3>1, <3>2
  <2>. QED
    BY <2>3 DEF NoMessageLost, Frontend!InTransaction, Frontend!CommittedSideEffects
<1>. QED
  BY <1>1, <1>2, <1>3, <1>4, <1>5, <1>6, <1>7, <1>8, <1>9 DEF PartitionInv

(* InTransit when no consumer changes and nothing is taken from the queue. *)
LEMMA StaysInTransit ==
  ASSUME PartitionTypeOK, NEW p \in Worker, OthersKept(p), queue \subseteq queue',
         p \in Consumer => \/ msg'[p] = msg[p] /\ (pc[p] # "idle" => pc'[p] # "idle")
                           \/ pc[p] = "idle"
                           \/ msg[p] \in queue'
                           \/ account[msg[p]] > 0
  PROVE  \A m \in Message : Backend!InTransit(m) => Backend!InTransit(m)' \/ account[m] > 0
<1>. SUFFICES ASSUME NEW m \in Message, Backend!InTransit(m), m \notin queue
              PROVE  Backend!InTransit(m)' \/ account[m] > 0
  BY DEF Backend!InTransit
<1>1. PICK q \in Consumer : pc[q] # "idle" /\ msg[q] = m
  BY DEF Backend!InTransit
<1>2. q \in Worker
  BY Kinds
<1>3. CASE q # p
  BY <1>1, <1>2, <1>3 DEF OthersKept, Backend!InTransit
<1>4. CASE q = p
  BY <1>1, <1>2, <1>4 DEF Backend!InTransit
<1>. QED
  BY <1>3, <1>4

LEMMA QueueSent ==
  PartitionTypeOK /\ PartitionInv => queue \subseteq emitted /\ emitted \subseteq Message
BY DEF PartitionTypeOK, StoresTyped, PartitionInv, WorkerMessage

(* A worker that neither attempts nor finishes goes on.                    *)
LEMMA QuietStep ==
  ASSUME PartitionTypeOK, PartitionTypeOK', PartitionInv, NEW p \in Worker, OthersKept(p),
         UNCHANGED <<created, record, account, emitted, blobs, queue>>,
         val'[p] = val[p], p \in current' => p \in current, att'[p] = att[p],
         pc'[p] \notin {"check", "checkExists", "ack"},
         ~Attempting(p)', ~Finishing(p)',
         p \in Consumer => msg'[p] = msg[p] /\ pc[p] # "idle" /\ pc'[p] # "idle"
  PROVE  PartitionInv'
<1>1. \A m \in Message : Backend!InTransit(m) => Backend!InTransit(m)' \/ account[m] > 0
  BY StaysInTransit
<1>2. queue' \subseteq emitted
  BY QueueSent
<1>3. p \in current' => val'[p] = record /\ created
  BY DEF PartitionInv, CurrentCopy
<1>4. p \in Consumer => msg'[p] \in emitted
  BY DEF PartitionInv, WorkerMessage
<1>5. AttemptSound(p)'
  BY DEF AttemptSound, Attempting, HasRead
<1>. QED
  BY <1>1, <1>2, <1>3, <1>4, <1>5, LocalStep

(* A worker stops: answered, completed, failed or crashed.                 *)
LEMMA StopStep ==
  ASSUME PartitionTypeOK, PartitionTypeOK', PartitionInv, NEW p \in Worker, OthersKept(p),
         UNCHANGED <<created, record, account, emitted, blobs>>,
         p \notin current', att'[p] = None, pc'[p] = "idle",
         queue \subseteq queue', queue' \subseteq emitted,
         p \in Consumer /\ pc[p] # "idle" => msg[p] \in queue' \/ account[msg[p]] > 0
  PROVE  PartitionInv'
<1>1. \A m \in Message : Backend!InTransit(m) => Backend!InTransit(m)' \/ account[m] > 0
  BY StaysInTransit
<1>2. AttemptSound(p)' /\ ~Finishing(p)'
  BY DEF AttemptSound, Attempting, HasRead, Finishing
<1>. QED
  BY <1>1, <1>2, LocalStep

(* Load finds a record that is free.                                       *)
LEMMA LoadFreeStep ==
  ASSUME PartitionTypeOK, PartitionTypeOK', PartitionInv, NEW p \in Worker, OthersKept(p),
         UNCHANGED <<created, record, account, emitted, blobs, queue>>,
         created, ~InTransaction(record), val'[p] = record, att'[p] = att[p], att[p] = None,
         pc'[p] \in {"check", "checkExists"},
         p \in Consumer => msg'[p] = msg[p] /\ pc[p] # "idle"
  PROVE  PartitionInv'
<1>1. \A m \in Message : Backend!InTransit(m) => Backend!InTransit(m)' \/ account[m] > 0
  BY StaysInTransit
<1>2. queue' \subseteq emitted
  BY QueueSent
<1>3. p \in Consumer => msg'[p] \in emitted
  BY DEF PartitionInv, WorkerMessage
<1>4. ~Attempting(p)' /\ ~HasRead(p)' /\ ~Finishing(p)' /\ pc'[p] \notin {"capture", "upload"}
  BY DEF Attempting, HasRead, Finishing
<1>5. ~InTransaction(val[p])'
  BY DEF InTransaction, Frontend!InTransaction
<1>6. AttemptSound(p)'
  BY <1>4, <1>5 DEF AttemptSound
<1>. QED
  BY <1>1, <1>2, <1>3, <1>4, <1>6, LocalStep

(* Load finds a transaction that somebody committed and did not finish.    *)
LEMMA LoadUnfinishedStep ==
  ASSUME PartitionTypeOK, PartitionTypeOK', PartitionInv, NEW p \in Worker, OthersKept(p),
         UNCHANGED <<created, record, account, emitted, blobs, queue>>,
         created, InTransaction(record), val'[p] = record, att'[p] = att[p], att[p] = None,
         pc'[p] = "publish",
         outbox'[p] = Committed(record), discard'[p] \subseteq Aborted(record),
         p \in Consumer => msg'[p] = msg[p] /\ pc[p] # "idle"
  PROVE  PartitionInv'
<1>1. \A m \in Message : Backend!InTransit(m) => Backend!InTransit(m)' \/ account[m] > 0
  BY StaysInTransit
<1>2. queue' \subseteq emitted
  BY QueueSent
<1>3. p \in Consumer => msg'[p] \in emitted
  BY DEF PartitionInv, WorkerMessage
<1>4. ~Attempting(p)' /\ ~HasRead(p)' /\ pc'[p] \notin {"capture", "upload"}
  BY DEF Attempting, HasRead
<1>5. AttemptSound(p)'
  BY <1>4 DEF AttemptSound
<1>6. FinisherSound(p)'
  <2>1. /\ Committed(val[p])' = Committed(record) /\ Aborted(val[p])' = Aborted(record)
        /\ InTransaction(val[p])'
    BY DEF Committed, Aborted, InTransaction, Frontend!InTransaction,
       Frontend!CommittedSideEffects, Frontend!AbortedSideEffects, Frontend!OutgoingMessage
  <2>2. TransactionSound(record)
    BY DEF PartitionInv, RecordSound
  <2>3. discard'[p] \cap emitted = {}
    BY DEF PartitionInv, RecordSound
  <2>4. \A q \in current' : ~Attempting(q)'
    <3>1. \A q \in current : ~Attempting(q)
      BY DEF PartitionInv, AttemptsSound, AttemptSound, CurrentCopy, PartitionTypeOK, StoresTyped
    <3>2. \A q \in current' : q = p \/ (q \in current /\ (Attempting(q)' <=> Attempting(q)))
      BY OtherStages DEF StagesKept, OthersKept, PartitionTypeOK, StoresTyped
    <3>. QED
      BY <1>4, <3>1, <3>2
  <2>. QED
    BY <2>1, <2>2, <2>3, <2>4 DEF FinisherSound, TransactionSound
<1>. QED
  BY <1>1, <1>2, <1>3, <1>5, <1>6, LocalStep

(* The token is there: an attempt begins.                                  *)
LEMMA BeginAttemptStep ==
  ASSUME PartitionTypeOK, PartitionTypeOK', PartitionInv, NEW p \in Worker, OthersKept(p),
         UNCHANGED <<created, record, account, emitted, blobs, queue>>,
         pc[p] \in {"check", "checkExists"}, pc'[p] \in {"read", "handle"},
         val'[p] = val[p], p \in current' => p \in current, Fresh(att'[p]),
         p \in Consumer => msg'[p] = msg[p] /\ msg[p] \in blobs
  PROVE  PartitionInv'
<1>1. \A m \in Message : Backend!InTransit(m) => Backend!InTransit(m)' \/ account[m] > 0
  BY StaysInTransit
<1>2. queue' \subseteq emitted
  BY QueueSent
<1>3. p \in Consumer => msg'[p] \in emitted
  BY DEF PartitionInv, WorkerMessage
<1>4. /\ ~InTransaction(val[p])
      /\ ~InTransaction(val[p])'
  BY DEF PartitionInv, AttemptsSound, AttemptSound, InTransaction, Frontend!InTransaction
<1>5. p \in current' => val'[p] = record /\ created
  BY DEF PartitionInv, CurrentCopy
<1>6. p \in current' \cap Consumer => account'[msg'[p]] = 0
  <2>1. SUFFICES ASSUME p \in current', p \in Consumer PROVE account[msg[p]] = 0
    OBVIOUS
  <2>2. msg[p] \in Message /\ msg[p] \in blobs
    BY <2>1, <1>3, QueueSent
  <2>3. record.messageId = None
    BY <2>1, <1>4, <1>5 DEF InTransaction, Frontend!InTransaction
  <2>4. ~(account[msg[p]] > 0)
    BY <2>2, <2>3, Kinds DEF PartitionInv, DataSound
  <2>. QED
    BY <2>2, <2>4 DEF PartitionTypeOK, StoresTyped
<1>7. ~HasRead(p)' /\ ~Finishing(p)' /\ pc'[p] \notin {"capture", "upload"}
  BY DEF HasRead, Finishing
<1>8. AttemptSound(p)'
  BY <1>4, <1>6, <1>7 DEF AttemptSound, Fresh
<1>. QED
  BY <1>1, <1>2, <1>3, <1>5, <1>7, <1>8, LocalStep

(* The attempt reads the Account, and in the backend decides what to send. *)
LEMMA ReadDataStep ==
  ASSUME PartitionTypeOK, PartitionTypeOK', PartitionInv, NEW p \in Worker, OthersKept(p),
         UNCHANGED <<created, record, account, emitted, blobs, queue>>,
         Attempting(p), pc'[p] \in {"transaction", "capture"}, snapshot'[p] = account,
         pc'[p] = "capture" => \A e \in outbox'[p] : e.attemptId = att[p],
         pc[p] # "upload",
         val'[p] = val[p], p \in current' => p \in current, att'[p] = att[p],
         p \in Consumer => msg'[p] = msg[p] /\ pc[p] # "idle"
  PROVE  PartitionInv'
<1>1. \A m \in Message : Backend!InTransit(m) => Backend!InTransit(m)' \/ account[m] > 0
  BY StaysInTransit
<1>2. queue' \subseteq emitted
  BY QueueSent
<1>3. p \in Consumer => msg'[p] \in emitted
  BY DEF PartitionInv, WorkerMessage
<1>4. p \in current' => val'[p] = record /\ created
  BY DEF PartitionInv, CurrentCopy
<1>5. AttemptSound(p)'
  <2>1. AttemptSound(p)
    BY DEF PartitionInv, AttemptsSound
  <2>2. ~InTransaction(val[p])'
    BY <2>1 DEF AttemptSound, InTransaction, Frontend!InTransaction
  <2>. QED
    BY <2>1, <2>2 DEF AttemptSound
<1>6. ~Finishing(p)' /\ pc'[p] # "idle"
  BY DEF Finishing
<1>. QED
  BY <1>1, <1>2, <1>3, <1>4, <1>5, <1>6, LocalStep

(* The body of the response is stored.                                     *)
LEMMA StoreResponseStep ==
  ASSUME PartitionTypeOK, PartitionTypeOK', PartitionInv, NEW p \in Worker, OthersKept(p),
         UNCHANGED <<created, record, account, emitted, blobs, queue>>,
         pc[p] = "store", pc'[p] = "commit", snapshot'[p] = snapshot[p],
         val'[p] = val[p], p \in current' => p \in current, att'[p] = att[p], p \notin Consumer
  PROVE  PartitionInv'
<1>1. \A m \in Message : Backend!InTransit(m) => Backend!InTransit(m)' \/ account[m] > 0
  BY StaysInTransit
<1>2. queue' \subseteq emitted
  BY QueueSent
<1>3. p \in current' => val'[p] = record /\ created
  BY DEF PartitionInv, CurrentCopy
<1>4. AttemptSound(p)'
  <2>1. AttemptSound(p) /\ Attempting(p) /\ HasRead(p)
    BY DEF PartitionInv, AttemptsSound, Attempting, HasRead
  <2>2. ~InTransaction(val[p])'
    BY <2>1 DEF AttemptSound, InTransaction, Frontend!InTransaction
  <2>. QED
    BY <2>1, <2>2 DEF AttemptSound
<1>5. ~Finishing(p)'
  BY DEF Finishing
<1>. QED
  BY <1>1, <1>2, <1>3, <1>4, <1>5, LocalStep

(* A finisher goes on: it dispatches, deletes what is no body of a message,*)
(* or associates the response of a request and is about to clear.          *)
LEMMA FinisherStep ==
  ASSUME PartitionTypeOK, PartitionTypeOK', PartitionInv, NEW p \in Worker, OthersKept(p),
         UNCHANGED <<created, record, account, emitted, blobs>>,
         pc[p] = "publish", pc'[p] \in {"publish", "clear"},
         outbox'[p] \subseteq outbox[p], queue' = queue \cup (outbox[p] \ outbox'[p]),
         discard'[p] \subseteq discard[p],
         pc'[p] = "clear" => outbox[p] = {} /\ val[p].messageId \notin blobs,
         val'[p] = val[p], p \in current' => p \in current, att'[p] = att[p],
         p \in Consumer => msg'[p] = msg[p]
  PROVE  PartitionInv'
<1>1. \A m \in Message : Backend!InTransit(m) => Backend!InTransit(m)' \/ account[m] > 0
  BY StaysInTransit
<1>2. FinisherSound(p) /\ val[p] \in Record
  BY DEF PartitionInv, FinishersSound, Finishing, PartitionTypeOK, StoresTyped
<1>3. queue' \subseteq emitted
  BY <1>2, QueueSent DEF FinisherSound, TransactionSound
<1>4. p \in current' => val'[p] = record /\ created
  BY DEF PartitionInv, CurrentCopy
<1>5. p \in Consumer => msg'[p] \in emitted
  BY DEF PartitionInv, WorkerMessage
<1>6. ~Attempting(p) /\ ~Attempting(p)' /\ ~HasRead(p)'
  BY DEF Attempting, HasRead
<1>7. AttemptSound(p)'
  BY <1>6 DEF AttemptSound
<1>8. FinisherSound(p)'
  <2>1. /\ Committed(val[p])' = Committed(val[p]) /\ Aborted(val[p])' = Aborted(val[p])
        /\ InTransaction(val[p])' <=> InTransaction(val[p])
    BY DEF Committed, Aborted, InTransaction, Frontend!InTransaction,
       Frontend!CommittedSideEffects, Frontend!AbortedSideEffects, Frontend!OutgoingMessage
  <2>2. TransactionSound(val[p])'
    BY <1>2, <2>1 DEF FinisherSound, TransactionSound
  <2>3. \A q \in current' : Attempting(q)' => q \in current /\ Attempting(q) /\ att'[q] = att[q]
    BY <1>6, OtherStages DEF StagesKept, OthersKept, PartitionTypeOK, StoresTyped
  <2>4. \A m \in Committed(val[p]) \ outbox'[p] : Backend!InTransit(m)' \/ account[m] > 0
    <3>1. ASSUME NEW m \in Committed(val[p]), m \in outbox[p], m \notin outbox'[p]
          PROVE  Backend!InTransit(m)'
      BY <3>1 DEF Backend!InTransit
    <3>2. ASSUME NEW m \in Committed(val[p]), m \notin outbox[p]
          PROVE  Backend!InTransit(m)' \/ account[m] > 0
      <4>1. m \in Message
        BY <1>2, EffectTypes, Kinds
      <4>2. Backend!InTransit(m) \/ account[m] > 0
        BY <1>2, <3>2 DEF FinisherSound
      <4>. QED
        BY <1>1, <4>1, <4>2
    <3>. QED
      BY <3>1, <3>2
  <2>. QED
    BY <1>2, <2>1, <2>2, <2>3, <2>4 DEF FinisherSound
<1>. QED
  BY <1>1, <1>3, <1>4, <1>5, <1>7, <1>8, LocalStep

-----------------------------------------------------------------------------
(* The steps that write the record or the claim check.                     *)

LEMMA OtherAttempts ==
  ASSUME PartitionTypeOK, PartitionInv, NEW p \in Worker, OthersKept(p), AttemptSound(p)',
         \A q \in current' : q # p =>
            /\ account' = account
            /\ \A e \in blobs \cap OutgoingMessage :
                  e.attemptId = att[q] /\ Attempting(q) => e \in blobs'
  PROVE  AttemptsSound'
BY OtherAttempt DEF AttemptsSound

(* The record, the claim check, or a message sent: nothing of what another *)
(* finisher relies on is undone.                                           *)
LEMMA OtherFinishers ==
  ASSUME PartitionTypeOK, PartitionTypeOK', PartitionInv, NEW p \in Worker, OthersKept(p),
         Finishing(p)' => FinisherSound(p)',
         \A m \in Message : account'[m] >= account[m],
         \A m \in Message : Backend!InTransit(m) => Backend!InTransit(m)' \/ account'[m] > 0,
         emitted \subseteq emitted',
         \A e \in emitted' \ emitted : p \in current /\ Attempting(p) /\ e.attemptId = att[p],
         p \in current' /\ Attempting(p)' => p \in current /\ Attempting(p) /\ att'[p] = att[p],
         \A q \in current', m \in blobs' : q # p /\ Finishing(q) =>
            m \in blobs \/ m # val[q].messageId
  PROVE  FinishersSound'
<1>. SUFFICES ASSUME NEW q \in Worker, q # p, Finishing(q)' PROVE FinisherSound(q)'
  BY DEF FinishersSound
<1>1. FinisherSound(q) /\ Finishing(q)
  BY OtherStages DEF StagesKept, PartitionInv, FinishersSound
<1>2. discard[q] \cap emitted' = {}
  BY <1>1 DEF FinisherSound
<1>3. \A r \in current' : Attempting(r)' => r \in current /\ Attempting(r) /\ att'[r] = att[r]
  BY OtherStages DEF StagesKept, OthersKept, PartitionTypeOK, StoresTyped
<1>4. \A r \in current' : Attempting(r)' => \A e \in discard[q] : e.attemptId # att'[r]
  BY <1>1, <1>3 DEF FinisherSound
<1>. QED
  BY <1>1, <1>2, <1>4, OtherFinisher

LEMMA RecordKept ==
  ASSUME UNCHANGED <<record, account, emitted>>, RecordSound
  PROVE  RecordSound'
BY DEF RecordSound, TransactionSound, Committed, Aborted, InTransaction,
       Frontend!InTransaction, Frontend!CommittedSideEffects, Frontend!AbortedSideEffects,
       Frontend!OutgoingMessage, Message, Backend!Message, Backend!OutgoingMessage

(* What the messages in hand need.                                         *)
LEMMA MessagesKept ==
  ASSUME PartitionTypeOK, PartitionInv, NEW p \in Worker, OthersKept(p),
         queue' \subseteq emitted', emitted \subseteq emitted',
         p \in Consumer => msg'[p] = msg[p] /\ (pc'[p] # "idle" => pc[p] # "idle")
  PROVE  WorkerMessage'
BY Kinds DEF PartitionInv, WorkerMessage, OthersKept

LEMMA UniqueKept ==
  ASSUME PartitionTypeOK, PartitionInv, NEW p \in Worker, OthersKept(p),
         att'[p] = att[p], emitted' = emitted
  PROVE  AttemptsUnique'
<1>1. \A q \in Worker : att'[q] = att[q]
  BY DEF OthersKept
<1>. QED
  BY <1>1 DEF PartitionInv, AttemptsUnique, OutgoingMessage, Backend!OutgoingMessage

(* A sent message that is not applied is as good as it was.                *)
LEMMA NoneLost ==
  ASSUME PartitionTypeOK, PartitionTypeOK', PartitionInv,
         \A m \in Message : account'[m] >= account[m],
         \A m \in Message : Backend!InTransit(m) => Backend!InTransit(m)' \/ account'[m] > 0,
         \A m \in emitted : m \in Committed(record) /\ InTransaction(record) =>
            \/ Backend!InTransit(m)' \/ account'[m] > 0
            \/ m \in Committed(record') /\ InTransaction(record'),
         \A m \in emitted' \ emitted : m \in Committed(record') /\ InTransaction(record')
  PROVE  NoMessageLost'
<1>1. emitted \subseteq Message /\ emitted' \subseteq Message
  BY DEF PartitionTypeOK, StoresTyped, Message, Backend!Message, Backend!OutgoingMessage
<1>2. \A m \in Message : account[m] \in Nat /\ account'[m] \in Nat
  BY DEF PartitionTypeOK, StoresTyped, Message, Backend!Message, Backend!OutgoingMessage
<1>3. record \in Record /\ record' \in Record
  BY DEF PartitionTypeOK, StoresTyped, Record, Guid, SideEffect, OutgoingMessage, Message,
     Backend!Message, Backend!OutgoingMessage, Frontend!HttpResponse
<1>. SUFFICES ASSUME NEW m \in emitted', account'[m] = 0
              PROVE  Backend!InTransit(m)' \/ (m \in Committed(record') /\ InTransaction(record'))
  BY <1>1, <1>3, EffectTypes DEF NoMessageLost, InTransaction, Committed, Frontend!InTransaction,
     Frontend!CommittedSideEffects
<1>4. CASE m \notin emitted
  BY <1>4
<1>5. CASE m \in emitted
  <2>1. account[m] = 0 /\ m \in Message
    BY <1>1, <1>2, <1>5
  <2>2. \/ Backend!InTransit(m)
        \/ InTransaction(record) /\ m \in Committed(record)
    BY <1>3, <1>5, <2>1, EffectTypes DEF PartitionInv, NoMessageLost, InTransaction
  <2>. QED
    BY <1>5, <2>1, <2>2
<1>. QED
  BY <1>4, <1>5

LEMMA CreateRecordStep ==
  ASSUME PartitionTypeOK, PartitionTypeOK', PartitionInv, NEW p \in Worker, OthersKept(p),
         ~created, created', record' = EmptyRecord, current' = {p}, val'[p] = EmptyRecord,
         UNCHANGED <<account, emitted, blobs, queue>>,
         att'[p] = att[p], att[p] = None, pc[p] # "idle", pc'[p] \in {"check", "checkExists"},
         p \in Consumer => msg'[p] = msg[p]
  PROVE  PartitionInv'
<1>1. record' = record
  BY DEF PartitionInv, CurrentCopy
<1>2. CurrentCopy'
  BY DEF CurrentCopy
<1>3. WorkerMessage' /\ AttemptsUnique' /\ RecordSound'
  BY <1>1, MessagesKept, UniqueKept, RecordKept, QueueSent DEF PartitionInv
<1>4. \A m \in Message : Backend!InTransit(m) => Backend!InTransit(m)' \/ account'[m] > 0
  BY StaysInTransit
<1>5. \A m \in Message : account'[m] >= account[m]
  BY DEF PartitionTypeOK, StoresTyped
<1>6. ~Attempting(p)' /\ ~HasRead(p)' /\ ~Finishing(p)' /\ pc'[p] \notin {"capture", "upload"}
  BY DEF Attempting, HasRead, Finishing
<1>7. AttemptSound(p)'
  BY <1>6, EmptyRecordType DEF AttemptSound, InTransaction, Frontend!InTransaction
<1>8. AttemptsSound'
  BY <1>7, OtherAttempts
<1>9. FinishersSound'
  BY <1>4, <1>5, <1>6, OtherFinishers
<1>10. DataSound'
  BY <1>1, Kinds DEF PartitionInv, DataSound, OthersKept, Message, Backend!Message,
     Backend!OutgoingMessage
<1>11. MessageAppliedAtMostOnce' /\ TokenUntilApplied'
  BY DEF PartitionInv, MessageAppliedAtMostOnce, TokenUntilApplied, Message, Backend!Message,
     Backend!OutgoingMessage
<1>12. NoMessageLost'
  BY <1>1, <1>4, <1>5, NoneLost
<1>. QED
  BY <1>2, <1>3, <1>8, <1>9, <1>10, <1>11, <1>12 DEF PartitionInv

(* Side effects of the attempt are registered in the record.               *)
LEMMA AddEffectsStep ==
  ASSUME PartitionTypeOK, PartitionTypeOK', PartitionInv, NEW p \in Worker, OthersKept(p),
         NEW effects \in SUBSET SideEffect, \A e \in effects : e.attemptId = att[p],
         p \in current, ~InTransaction(val[p]), Attempting(p), HasRead(p), pc[p] # "upload",
         record' = [val[p] EXCEPT !.sideEffects = @ \cup effects],
         val'[p] = record', current' = {p}, created' = created,
         UNCHANGED <<account, emitted, blobs, queue>>,
         att'[p] = att[p], snapshot'[p] = snapshot[p],
         \/ pc'[p] = "upload" /\ outbox'[p] = effects
         \/ pc'[p] = "store" /\ effects \cap OutgoingMessage = {},
         p \in Consumer => msg'[p] = msg[p] /\ pc[p] # "idle"
  PROVE  PartitionInv'
<1>1. /\ record \in Record /\ val[p] = record /\ created /\ record' \in Record
      /\ att[p] \in Attempt /\ att[p] # None
  BY Kinds DEF PartitionInv, CurrentCopy, PartitionTypeOK, StoresTyped, WorkersTyped, Guid,
     Record, SideEffect, OutgoingMessage, Message, Backend!Message, Backend!OutgoingMessage,
     Frontend!HttpResponse
<1>2. /\ record.messageId = None /\ record.attemptId = None
      /\ record'.messageId = None /\ record'.attemptId = None
      /\ record'.sideEffects = record.sideEffects \cup effects
  BY <1>1 DEF PartitionInv, RecordSound, InTransaction, Frontend!InTransaction, Record
<1>3. CurrentCopy'
  BY <1>1 DEF CurrentCopy
<1>4. WorkerMessage' /\ AttemptsUnique'
  BY MessagesKept, UniqueKept, QueueSent
<1>5. RecordSound'
  <2>1. Aborted(record) \cap emitted = {}
    BY DEF PartitionInv, RecordSound
  <2>2. effects \cap emitted = {}
    BY Kinds, QueueSent DEF PartitionInv, AttemptsUnique
  <2>3. Aborted(record) = record.sideEffects /\ Aborted(record') = record'.sideEffects
    BY <1>1, <1>2, FreeAborted
  <2>4. Aborted(record)' = Aborted(record')
    BY DEF Aborted, Frontend!AbortedSideEffects
  <2>5. ~InTransaction(record)'
    BY <1>2 DEF InTransaction, Frontend!InTransaction
  <2>. QED
    BY <1>2, <2>1, <2>2, <2>3, <2>4, <2>5 DEF RecordSound
<1>6. \A m \in Message : Backend!InTransit(m) => Backend!InTransit(m)' \/ account'[m] > 0
  BY StaysInTransit
<1>7. \A m \in Message : account'[m] >= account[m]
  BY DEF PartitionTypeOK, StoresTyped
<1>8. Attempting(p)' /\ ~Finishing(p)'
  BY DEF Attempting, Finishing
<1>9. AttemptSound(p)'
  <2>1. AttemptSound(p)
    BY DEF PartitionInv, AttemptsSound
  <2>2. ~InTransaction(val[p])'
    BY <1>2 DEF InTransaction, Frontend!InTransaction
  <2>3. pc'[p] \in {"capture", "upload"} => \A e \in outbox'[p] : e.attemptId = att'[p]
    OBVIOUS
  <2>4. snapshot'[p] = account' /\ (p \in Consumer => account'[msg'[p]] = 0)
    BY <2>1 DEF AttemptSound
  <2>5. ASSUME NEW e \in val'[p].sideEffects \cap OutgoingMessage, e.attemptId = att'[p]
        PROVE  e \in blobs' \/ (pc'[p] = "upload" /\ e \in outbox'[p])
    BY <1>1, <1>2, <2>1, <2>5 DEF AttemptSound
  <2>. QED
    BY <2>2, <2>3, <2>4, <2>5 DEF AttemptSound, OutgoingMessage, Backend!OutgoingMessage
<1>10. AttemptsSound'
  BY <1>9, OtherAttempts
<1>11. FinishersSound'
  BY <1>6, <1>7, <1>8, OtherFinishers
<1>12. DataSound'
  BY <1>1, <1>2, <1>8, Kinds DEF PartitionInv, DataSound, OthersKept, Message, Backend!Message,
     Backend!OutgoingMessage
<1>13. MessageAppliedAtMostOnce' /\ TokenUntilApplied'
  BY DEF PartitionInv, MessageAppliedAtMostOnce, TokenUntilApplied, Message, Backend!Message,
     Backend!OutgoingMessage
<1>14. NoMessageLost'
  <2>1. ~InTransaction(record)
    BY <1>1
  <2>. QED
    BY <1>6, <1>7, <2>1, NoneLost
<1>. QED
  BY <1>3, <1>4, <1>5, <1>10, <1>11, <1>12, <1>13, <1>14 DEF PartitionInv

(* Bodies of the attempt are uploaded.                                     *)
LEMMA UploadStep ==
  ASSUME PartitionTypeOK, PartitionTypeOK', PartitionInv, NEW p \in Worker, OthersKept(p),
         NEW bodies \in SUBSET outbox[p], pc[p] = "upload",
         blobs' = blobs \cup bodies, outbox'[p] = outbox[p] \ bodies,
         pc'[p] = "upload" \/ (pc'[p] = "transaction" /\ bodies = outbox[p]),
         UNCHANGED <<created, record, account, emitted, queue>>,
         val'[p] = val[p], att'[p] = att[p], snapshot'[p] = snapshot[p],
         p \in current' <=> p \in current,
         p \in Consumer => msg'[p] = msg[p]
  PROVE  PartitionInv'
<1>1. AttemptSound(p) /\ Attempting(p) /\ HasRead(p) /\ Attempting(p)' /\ ~Finishing(p)'
  BY DEF PartitionInv, AttemptsSound, Attempting, HasRead, Finishing
<1>2. \A m \in bodies : m \in OutgoingMessage /\ m.attemptId = att[p] /\ m \notin emitted
  BY <1>1, Kinds DEF AttemptSound, PartitionTypeOK, StoresTyped, PartitionInv, AttemptsUnique
<1>3. \A m \in bodies : ~(account[m] > 0)
  BY <1>2, Kinds DEF PartitionInv, DataSound
<1>4. CurrentCopy'
  BY DEF PartitionInv, CurrentCopy, OthersKept, PartitionTypeOK, StoresTyped
<1>5. WorkerMessage' /\ AttemptsUnique' /\ RecordSound'
  BY MessagesKept, UniqueKept, RecordKept, QueueSent DEF PartitionInv
<1>6. \A m \in Message : Backend!InTransit(m) => Backend!InTransit(m)' \/ account'[m] > 0
  BY StaysInTransit
<1>7. \A m \in Message : account'[m] >= account[m]
  BY DEF PartitionTypeOK, StoresTyped
<1>8. AttemptSound(p)'
  <2>1. ~InTransaction(val[p])'
    BY <1>1 DEF AttemptSound, InTransaction, Frontend!InTransaction
  <2>2. ASSUME p \in current,
               NEW e \in val[p].sideEffects \cap OutgoingMessage, e.attemptId = att[p]
        PROVE  e \in blobs' \/ (pc'[p] = "upload" /\ e \in outbox'[p])
    BY <1>1, <2>2 DEF AttemptSound
  <2>3. pc'[p] \in {"capture", "upload"} => \A e \in outbox'[p] : e.attemptId = att'[p]
    BY <1>1 DEF AttemptSound
  <2>4. p \in current => snapshot[p] = account /\ (p \in Consumer => account[msg[p]] = 0)
    BY <1>1 DEF AttemptSound
  <2>. QED
    BY <2>1, <2>2, <2>3, <2>4 DEF AttemptSound, OutgoingMessage, Backend!OutgoingMessage
<1>9. AttemptsSound'
  BY <1>8, OtherAttempts
<1>10. FinishersSound'
  <2>1. ASSUME NEW q \in Worker, Finishing(q), NEW m \in bodies PROVE m # val[q].messageId
    <3>1. TransactionSound(val[q])
      BY <2>1 DEF PartitionInv, FinishersSound, FinisherSound
    <3>. QED
      BY <1>2, <1>3, <3>1, Kinds DEF TransactionSound
  <2>2. current' \subseteq Worker
    BY DEF PartitionTypeOK, StoresTyped
  <2>. QED
    BY <1>1, <1>6, <1>7, <2>1, <2>2, OtherFinishers
<1>11. DataSound'
  <2>1. ASSUME NEW m \in Message, account[m] > 0, m \in blobs' PROVE record.messageId = m
    BY <1>3, <2>1 DEF PartitionInv, DataSound
  <2>2. \A q \in Consumer : pc'[q] = "ack" => pc[q] = "ack" /\ msg'[q] = msg[q]
    BY Kinds DEF OthersKept
  <2>. QED
    BY <2>1, <2>2 DEF PartitionInv, DataSound, Message, Backend!Message, Backend!OutgoingMessage
<1>12. MessageAppliedAtMostOnce' /\ TokenUntilApplied'
  BY DEF PartitionInv, MessageAppliedAtMostOnce, TokenUntilApplied, Message, Backend!Message,
     Backend!OutgoingMessage
<1>13. NoMessageLost'
  BY <1>6, <1>7, NoneLost
<1>. QED
  BY <1>4, <1>5, <1>9, <1>10, <1>11, <1>12, <1>13 DEF PartitionInv

(* The body of an aborted attempt is deleted.                              *)
LEMMA DeleteBodyStep ==
  ASSUME PartitionTypeOK, PartitionTypeOK', PartitionInv, NEW p \in Worker, OthersKept(p),
         NEW m \in discard[p], pc[p] = "publish", pc'[p] = "publish",
         blobs' = blobs \ {m}, discard'[p] \subseteq discard[p], outbox'[p] = outbox[p],
         UNCHANGED <<created, record, account, emitted, queue>>,
         val'[p] = val[p], att'[p] = att[p], p \in current' <=> p \in current,
         p \in Consumer => msg'[p] = msg[p]
  PROVE  PartitionInv'
<1>1. /\ FinisherSound(p) /\ val[p] \in Record /\ m \notin emitted
      /\ Finishing(p)' /\ ~Attempting(p) /\ ~Attempting(p)' /\ ~HasRead(p)'
  BY DEF PartitionInv, FinishersSound, FinisherSound, Finishing, Attempting, HasRead,
     PartitionTypeOK, StoresTyped
<1>2. CurrentCopy'
  BY DEF PartitionInv, CurrentCopy, OthersKept, PartitionTypeOK, StoresTyped
<1>3. WorkerMessage' /\ AttemptsUnique' /\ RecordSound'
  BY MessagesKept, UniqueKept, RecordKept, QueueSent DEF PartitionInv
<1>4. \A k \in Message : Backend!InTransit(k) => Backend!InTransit(k)' \/ account'[k] > 0
  BY StaysInTransit
<1>5. \A k \in Message : account'[k] >= account[k]
  BY DEF PartitionTypeOK, StoresTyped
<1>6. AttemptsSound'
  <2>1. AttemptSound(p)'
    BY <1>1 DEF AttemptSound
  <2>2. ASSUME NEW q \in current', q # p, Attempting(q) PROVE m.attemptId # att[q]
    BY <1>1, <2>2 DEF FinisherSound, OthersKept, PartitionTypeOK, StoresTyped
  <2>. QED
    BY <2>1, <2>2, OtherAttempts
<1>7. FinisherSound(p)'
  <2>1. /\ Committed(val[p])' = Committed(val[p]) /\ Aborted(val[p])' = Aborted(val[p])
        /\ InTransaction(val[p])' <=> InTransaction(val[p])
    BY DEF Committed, Aborted, InTransaction, Frontend!InTransaction,
       Frontend!CommittedSideEffects, Frontend!AbortedSideEffects, Frontend!OutgoingMessage
  <2>2. TransactionSound(val[p])'
    BY <1>1, <2>1 DEF FinisherSound, TransactionSound
  <2>3. \A q \in current' : Attempting(q)' => q \in current /\ Attempting(q) /\ att'[q] = att[q]
    BY <1>1, OtherStages DEF StagesKept, OthersKept, PartitionTypeOK, StoresTyped
  <2>4. \A k \in Committed(val[p]) \ outbox[p] : Backend!InTransit(k)' \/ account[k] > 0
    <3>1. \A k \in Committed(val[p]) : k \in Message
      BY <1>1, EffectTypes, Kinds
    <3>. QED
      BY <1>1, <1>4, <3>1 DEF FinisherSound
  <2>. QED
    BY <1>1, <2>1, <2>2, <2>3, <2>4 DEF FinisherSound
<1>8. FinishersSound'
  BY <1>1, <1>4, <1>5, <1>7, OtherFinishers
<1>9. DataSound'
  BY Kinds DEF PartitionInv, DataSound, OthersKept, Message, Backend!Message,
     Backend!OutgoingMessage
<1>10. MessageAppliedAtMostOnce' /\ TokenUntilApplied'
  BY <1>1 DEF PartitionInv, MessageAppliedAtMostOnce, TokenUntilApplied, Message, Backend!Message,
     Backend!OutgoingMessage
<1>11. NoMessageLost'
  BY <1>4, <1>5, NoneLost
<1>. QED
  BY <1>2, <1>3, <1>6, <1>8, <1>9, <1>10, <1>11 DEF PartitionInv

(* The token of the transaction's message is deleted, and the record is to *)
(* be cleared.                                                             *)
LEMMA DeleteTokenStep ==
  ASSUME PartitionTypeOK, PartitionTypeOK', PartitionInv, NEW p \in Worker, OthersKept(p),
         pc[p] = "publish", pc'[p] = "clear", outbox[p] = {},
         blobs' = blobs \ {val[p].messageId}, discard'[p] = discard[p], outbox'[p] = outbox[p],
         UNCHANGED <<created, record, account, emitted, queue>>,
         val'[p] = val[p], att'[p] = att[p], p \in current' <=> p \in current,
         p \in Consumer => msg'[p] = msg[p]
  PROVE  PartitionInv'
<1>1. /\ FinisherSound(p) /\ val[p] \in Record
      /\ Finishing(p)' /\ ~Attempting(p) /\ ~Attempting(p)' /\ ~HasRead(p)'
  BY DEF PartitionInv, FinishersSound, FinisherSound, Finishing, Attempting, HasRead,
     PartitionTypeOK, StoresTyped
<1>2. CurrentCopy'
  BY DEF PartitionInv, CurrentCopy, OthersKept, PartitionTypeOK, StoresTyped
<1>3. WorkerMessage' /\ AttemptsUnique' /\ RecordSound'
  BY MessagesKept, UniqueKept, RecordKept, QueueSent DEF PartitionInv
<1>4. \A k \in Message : Backend!InTransit(k) => Backend!InTransit(k)' \/ account'[k] > 0
  BY StaysInTransit
<1>5. \A k \in Message : account'[k] >= account[k]
  BY DEF PartitionTypeOK, StoresTyped
<1>6. val[p].messageId \in Message =>
         val[p].messageId \in emitted /\ account[val[p].messageId] > 0
  BY <1>1 DEF FinisherSound, TransactionSound, PartitionInv, DataSound
<1>7. AttemptsSound'
  <2>1. AttemptSound(p)'
    BY <1>1 DEF AttemptSound
  <2>2. ASSUME NEW q \in Worker, NEW e \in OutgoingMessage, e.attemptId = att[q]
        PROVE  e # val[p].messageId
    BY <1>6, <2>2, Kinds DEF PartitionInv, AttemptsUnique
  <2>3. current' \subseteq Worker
    BY DEF PartitionTypeOK, StoresTyped
  <2>. QED
    BY <2>1, <2>2, <2>3, OtherAttempts
<1>8. FinisherSound(p)'
  <2>1. /\ Committed(val[p])' = Committed(val[p]) /\ Aborted(val[p])' = Aborted(val[p])
        /\ InTransaction(val[p])' <=> InTransaction(val[p])
    BY DEF Committed, Aborted, InTransaction, Frontend!InTransaction,
       Frontend!CommittedSideEffects, Frontend!AbortedSideEffects, Frontend!OutgoingMessage
  <2>2. TransactionSound(val[p])'
    BY <1>1, <2>1 DEF FinisherSound, TransactionSound
  <2>3. \A q \in current' : Attempting(q)' => q \in current /\ Attempting(q) /\ att'[q] = att[q]
    BY <1>1, OtherStages DEF StagesKept, OthersKept, PartitionTypeOK, StoresTyped
  <2>4. \A k \in Committed(val[p]) \ outbox[p] : Backend!InTransit(k)' \/ account[k] > 0
    <3>1. \A k \in Committed(val[p]) : k \in Message
      BY <1>1, EffectTypes, Kinds
    <3>. QED
      BY <1>1, <1>4, <3>1 DEF FinisherSound
  <2>. QED
    BY <1>1, <2>1, <2>2, <2>3, <2>4 DEF FinisherSound
<1>9. FinishersSound'
  BY <1>1, <1>4, <1>5, <1>8, OtherFinishers
<1>10. DataSound'
  BY Kinds DEF PartitionInv, DataSound, OthersKept, Message, Backend!Message,
     Backend!OutgoingMessage
<1>11. MessageAppliedAtMostOnce' /\ TokenUntilApplied'
  <2>1. \A k \in emitted : account[k] = 0 => k # val[p].messageId
    BY <1>6, QueueSent DEF PartitionTypeOK, StoresTyped
  <2>. QED
    BY <2>1 DEF PartitionInv, MessageAppliedAtMostOnce, TokenUntilApplied, Message,
       Backend!Message, Backend!OutgoingMessage
<1>12. NoMessageLost'
  BY <1>4, <1>5, NoneLost
<1>. QED
  BY <1>2, <1>3, <1>7, <1>9, <1>10, <1>11, <1>12 DEF PartitionInv

(* The record is cleared: it lets go of nothing that is still needed.      *)
LEMMA ClearStep ==
  ASSUME PartitionTypeOK, PartitionTypeOK', PartitionInv, NEW p \in Worker, OthersKept(p),
         pc[p] = "clear", pc'[p] \in {"check", "checkExists", "lookup", "answer", "ack"},
         p \in Consumer /\ pc'[p] = "ack" => val[p].messageId = msg[p],
         p \in current, record' = EmptyRecord, val'[p] = EmptyRecord, current' = {p},
         created' = created, UNCHANGED <<account, emitted, blobs, queue>>,
         att'[p] = att[p],
         p \in Consumer => msg'[p] = msg[p]
  PROVE  PartitionInv'
<1>1. /\ FinisherSound(p) /\ val[p] = record /\ record \in Record /\ created
      /\ ~Finishing(p)' /\ ~Attempting(p)' /\ ~HasRead(p)' /\ pc'[p] \notin {"capture", "upload"}
  BY DEF PartitionInv, FinishersSound, Finishing, CurrentCopy, Attempting, HasRead,
     PartitionTypeOK, StoresTyped
<1>2. CurrentCopy'
  BY <1>1 DEF CurrentCopy
<1>3. WorkerMessage' /\ AttemptsUnique'
  BY MessagesKept, UniqueKept, QueueSent
<1>4. RecordSound'
  <2>1. Aborted(record)' = {} /\ ~InTransaction(record)'
    BY EmptyRecordType DEF Aborted, InTransaction, Frontend!InTransaction,
       Frontend!AbortedSideEffects
  <2>. QED
    BY <2>1, EmptyRecordType DEF RecordSound
<1>5. \A m \in Message : Backend!InTransit(m) => Backend!InTransit(m)' \/ account'[m] > 0
  BY StaysInTransit
<1>6. \A m \in Message : account'[m] >= account[m]
  BY DEF PartitionTypeOK, StoresTyped
<1>7. AttemptsSound'
  <2>1. ~InTransaction(val[p])'
    BY EmptyRecordType DEF InTransaction, Frontend!InTransaction
  <2>2. AttemptSound(p)'
    BY <1>1, <2>1 DEF AttemptSound
  <2>. QED
    BY <2>2, OtherAttempts
<1>8. FinishersSound'
  BY <1>1, <1>5, <1>6, OtherFinishers
<1>9. DataSound'
  <2>1. \A m \in Message : ~(account[m] > 0 /\ m \in blobs)
    BY <1>1 DEF PartitionInv, DataSound, FinisherSound
  <2>2. ASSUME NEW q \in Consumer, pc'[q] = "ack" PROVE account[msg'[q]] > 0
    <3>1. CASE q = p
      <4>1. msg[p] \in Message
        BY <3>1, QueueSent DEF PartitionInv, WorkerMessage
      <4>. QED
        BY <1>1, <2>2, <3>1, <4>1 DEF FinisherSound, TransactionSound
    <3>2. CASE q # p
      BY <2>2, <3>2, Kinds DEF PartitionInv, DataSound, OthersKept
    <3>. QED
      BY <3>1, <3>2
  <2>. QED
    BY <2>1, <2>2 DEF PartitionInv, DataSound, Message, Backend!Message, Backend!OutgoingMessage
<1>10. MessageAppliedAtMostOnce' /\ TokenUntilApplied'
  BY DEF PartitionInv, MessageAppliedAtMostOnce, TokenUntilApplied, Message, Backend!Message,
     Backend!OutgoingMessage
<1>11. NoMessageLost'
  <2>1. ASSUME NEW m \in Committed(record) PROVE Backend!InTransit(m)' \/ account'[m] > 0
    <3>1. m \in Message
      BY <1>1, EffectTypes, Kinds
    <3>2. Backend!InTransit(m) \/ account[m] > 0
      BY <1>1, <2>1 DEF FinisherSound
    <3>. QED
      BY <1>5, <3>1, <3>2
  <2>. QED
    BY <1>5, <1>6, <2>1, NoneLost
<1>. QED
  BY <1>2, <1>3, <1>4, <1>7, <1>8, <1>9, <1>10, <1>11 DEF PartitionInv

(* The batch: the Account, the record, and with it the messages.           *)
LEMMA CommitStep ==
  ASSUME PartitionTypeOK, PartitionTypeOK', PartitionInv, NEW p \in Worker, OthersKept(p),
         NEW key \in Request \cup Message, p \in Consumer => key = msg[p],
         p \in WebWorker => key \in Request,
         \/ pc[p] = "commit"
         \/ pc[p] = "upload" /\ outbox[p] = {},
         p \in current, ~InTransaction(val[p]),
         record' = [val[p] EXCEPT !.messageId = key, !.attemptId = att[p]],
         val'[p] = record', current' = {p}, created' = created,
         account' = [account EXCEPT ![key] = @ + 1],
         emitted' = emitted \cup {e \in val[p].sideEffects \cap OutgoingMessage :
                                     e.attemptId = att[p]},
         pc'[p] = "publish", att'[p] = None,
         outbox'[p] = Committed(record'), discard'[p] \subseteq Aborted(record'),
         UNCHANGED <<blobs, queue>>,
         p \in Consumer => msg'[p] = msg[p]
  PROVE  PartitionInv'
<1>. DEFINE own == {e \in val[p].sideEffects \cap OutgoingMessage : e.attemptId = att[p]}
<1>0. /\ AttemptSound(p) /\ Attempting(p) /\ Finishing(p)'
      /\ ~Attempting(p)' /\ ~HasRead(p)' /\ pc'[p] \notin {"capture", "upload"}
  BY DEF PartitionInv, AttemptsSound, Attempting, HasRead, Finishing
<1>1. /\ record \in Record /\ val[p] = record /\ created /\ record' \in Record
      /\ att[p] \in Attempt /\ att[p] # None /\ key # None
  BY <1>0, Kinds DEF PartitionInv, CurrentCopy, PartitionTypeOK, StoresTyped, WorkersTyped, Guid,
     Record, SideEffect, OutgoingMessage, Message, Backend!Message, Backend!OutgoingMessage,
     Frontend!HttpResponse
<1>2. /\ record.messageId = None /\ record.attemptId = None
      /\ record'.messageId = key /\ record'.attemptId = att[p]
      /\ record'.sideEffects = record.sideEffects
      /\ ~InTransaction(record) /\ InTransaction(record')
  BY <1>1 DEF PartitionInv, RecordSound, InTransaction, Frontend!InTransaction, Record
<1>3. /\ Committed(record') = own /\ own \subseteq OutgoingMessage
      /\ Aborted(record') \subseteq record.sideEffects
      /\ \A e \in Aborted(record') : e.attemptId # att[p]
      /\ record.sideEffects \cap emitted = {}
  <2>1. Committed(record') = own
    BY <1>1, <1>2, Kinds DEF Committed, Frontend!CommittedSideEffects
  <2>2. /\ Aborted(record') \subseteq record.sideEffects
        /\ \A e \in Aborted(record') : e.attemptId # att[p]
    BY <1>2 DEF Aborted, Frontend!AbortedSideEffects
  <2>3. Aborted(record) = record.sideEffects
    BY <1>1, <1>2, FreeAborted
  <2>4. record.sideEffects \cap emitted = {}
    BY <2>3 DEF PartitionInv, RecordSound
  <2>. QED
    BY <2>1, <2>2, <2>4
<1>4. Aborted(record') \cap emitted' = {}
  BY <1>1, <1>3
<1>5. /\ account'[key] = account[key] + 1
      /\ \A k \in Request \cup Message : k # key => account'[k] = account[k]
      /\ \A k \in Request \cup Message :
            account[k] \in Nat /\ account'[k] \in Nat /\ account'[k] >= account[k]
  BY DEF PartitionTypeOK, StoresTyped
<1>6. key \in Message => p \in Consumer /\ account[key] = 0 /\ key \in emitted
  <2>1. key \in Message => p \in Consumer
    BY Kinds DEF Worker
  <2>2. p \in Consumer => account[msg[p]] = 0
    BY <1>0 DEF AttemptSound
  <2>3. p \in Consumer => msg[p] \in emitted
    BY DEF PartitionInv, WorkerMessage
  <2>. QED
    BY <2>1, <2>2, <2>3
<1>7. own \subseteq blobs
  BY <1>0 DEF AttemptSound
<1>8. CurrentCopy'
  BY <1>1 DEF CurrentCopy
<1>9. WorkerMessage'
  BY MessagesKept, QueueSent
<1>10. AttemptsUnique'
  <2>1. \A q, r \in Worker : att'[q] # None /\ att'[q] = att'[r] => q = r
    BY DEF PartitionInv, AttemptsUnique, OthersKept
  <2>2. ASSUME NEW q \in Worker, NEW e \in emitted' \cap OutgoingMessage
        PROVE  e.attemptId # att'[q]
    <3>1. e.attemptId # None
      BY Kinds DEF SideEffect
    <3>2. CASE q = p
      BY <3>1, <3>2
    <3>3. CASE q # p
      <4>1. att'[q] = att[q] /\ att[q] # att[p]
        BY <1>1, <3>3 DEF OthersKept, PartitionInv, AttemptsUnique
      <4>. QED
        BY <4>1 DEF PartitionInv, AttemptsUnique
    <3>. QED
      BY <3>2, <3>3
  <2>. QED
    BY <2>1, <2>2 DEF AttemptsUnique, OutgoingMessage, Backend!OutgoingMessage
<1>11. \A m \in Message : Backend!InTransit(m) => Backend!InTransit(m)' \/ account'[m] > 0
  <2>1. \A m \in Message : Backend!InTransit(m) => Backend!InTransit(m)' \/ account[m] > 0
    BY StaysInTransit
  <2>. QED
    BY <1>5, <2>1
<1>12. TransactionSound(record)' /\ TransactionSound(val[p])'
  <2>1. key \in Message => account'[key] > 0
    BY <1>5
  <2>2. Committed(record)' = Committed(record') /\ Committed(val[p])' = Committed(record')
    BY DEF Committed, Frontend!CommittedSideEffects, Frontend!OutgoingMessage
  <2>. QED
    BY <1>2, <1>3, <2>1, <2>2 DEF TransactionSound, Message, Backend!Message,
       Backend!OutgoingMessage
<1>13. RecordSound'
  <2>1. Aborted(record)' = Aborted(record')
    BY DEF Aborted, Frontend!AbortedSideEffects
  <2>. QED
    BY <1>1, <1>2, <1>4, <1>12, <2>1 DEF RecordSound
<1>14. AttemptsSound'
  <2>1. AttemptSound(p)'
    BY <1>0 DEF AttemptSound
  <2>. QED
    BY <2>1, OtherAttempts
<1>15. FinisherSound(p)'
  <2>1. /\ Committed(val[p])' = Committed(record') /\ Aborted(val[p])' = Aborted(record')
        /\ InTransaction(val[p])'
    BY <1>2 DEF Committed, Aborted, InTransaction, Frontend!InTransaction,
       Frontend!CommittedSideEffects, Frontend!AbortedSideEffects, Frontend!OutgoingMessage
  <2>. QED
    BY <1>0, <1>4, <1>12, <2>1 DEF FinisherSound
<1>16. FinishersSound'
  BY <1>0, <1>5, <1>11, <1>15, OtherFinishers
<1>17. DataSound'
  <2>1. ASSUME NEW m \in Message, account'[m] > 0 PROVE m \in emitted'
    BY <1>5, <1>6, <2>1 DEF PartitionInv, DataSound
  <2>2. ASSUME NEW m \in Message, account'[m] > 0, m \in blobs PROVE record'.messageId = m
    BY <1>2, <1>5, <2>2, Kinds DEF PartitionInv, DataSound
  <2>3. ASSUME NEW q \in Consumer, pc'[q] = "ack" PROVE account'[msg'[q]] > 0
    <3>1. q # p /\ q \in Worker
      BY <2>3, Kinds
    <3>2. pc[q] = "ack" /\ msg'[q] = msg[q] /\ msg[q] \in Message
      BY <2>3, <3>1, QueueSent DEF OthersKept, PartitionInv, WorkerMessage
    <3>3. account[msg[q]] > 0
      BY <3>2 DEF PartitionInv, DataSound
    <3>. QED
      BY <1>5, <3>2, <3>3
  <2>. QED
    BY <2>1, <2>2, <2>3 DEF DataSound, Message, Backend!Message, Backend!OutgoingMessage
<1>18. MessageAppliedAtMostOnce'
  <2>1. \A m \in Message : account'[m] <= 1
    BY <1>5, <1>6 DEF PartitionInv, MessageAppliedAtMostOnce, Message
  <2>. QED
    BY <2>1 DEF MessageAppliedAtMostOnce, Message, Backend!Message, Backend!OutgoingMessage
<1>19. TokenUntilApplied'
  <2>1. \A m \in emitted' : m \in Message
    BY DEF PartitionTypeOK, StoresTyped, Message, Backend!Message, Backend!OutgoingMessage
  <2>2. ASSUME NEW m \in emitted', account'[m] = 0 PROVE m \in blobs
    <3>1. CASE m \in own
      BY <1>7, <3>1
    <3>2. CASE m \in emitted
      <4>1. account[m] = 0
        BY <1>5, <2>1, <2>2
      <4>. QED
        BY <3>2, <4>1 DEF PartitionInv, TokenUntilApplied
    <3>. QED
      BY <3>1, <3>2
  <2>. QED
    BY <2>2 DEF TokenUntilApplied
<1>20. NoMessageLost'
  BY <1>2, <1>3, <1>5, <1>11, NoneLost
<1>. QED
  BY <1>8, <1>9, <1>10, <1>13, <1>14, <1>16, <1>17, <1>18, <1>19, <1>20 DEF PartitionInv

-----------------------------------------------------------------------------
(* The invariant holds initially and is kept by every step.                *)

LEMMA InitInv == Init => PartitionInv
<1>. SUFFICES ASSUME Init PROVE PartitionInv
  OBVIOUS
<1>1. /\ \A m \in Message : account[m] = 0
      /\ emitted = Initial /\ blobs = Initial /\ queue = Initial
      /\ Initial \cap OutgoingMessage = {} /\ Initial \subseteq Message
  BY Kinds, PartitionAssumption DEF Init, NoData, Message, OutgoingMessage
<1>2. \A p \in Worker : pc[p] = "idle" /\ att[p] = None /\ val[p] = EmptyRecord
  BY DEF Init
<1>3. record = EmptyRecord /\ current = {}
  BY DEF Init
<1>4. CurrentCopy
  BY <1>3 DEF CurrentCopy
<1>5. WorkerMessage /\ AttemptsUnique
  BY <1>1, <1>2, Kinds DEF WorkerMessage, AttemptsUnique
<1>6. RecordSound
  BY <1>3, EmptyRecordType DEF RecordSound, Aborted, Frontend!AbortedSideEffects, InTransaction,
     Frontend!InTransaction
<1>7. AttemptsSound /\ FinishersSound
  BY <1>2, <1>3 DEF AttemptsSound, AttemptSound, FinishersSound, Finishing, Attempting, HasRead
<1>8. DataSound /\ MessageAppliedAtMostOnce /\ TokenUntilApplied
  BY <1>1, <1>2, Kinds DEF DataSound, MessageAppliedAtMostOnce, TokenUntilApplied, Message
<1>9. NoMessageLost
  BY <1>1 DEF NoMessageLost, Backend!InTransit
<1>. QED
  BY <1>4, <1>5, <1>6, <1>7, <1>8, <1>9 DEF PartitionInv

LEMMA FrontendInv ==
  ASSUME PartitionTypeOK, PartitionTypeOK', PartitionInv, FrontendStep, NewGuids
  PROVE  PartitionInv'
<1>. PICK p \in WebWorker :
          \/ \E r \in Request : Frontend!Caller(p, r)
          \/ Frontend!Handler(p)
          \/ Frontend!Crash(p)
  BY DEF FrontendStep
<1>0. msg' = msg /\ p \in Worker /\ p \notin Consumer
  BY Kinds DEF FrontendStep, backendVars
<1>01. /\ pc \in [Worker -> Stage] /\ att \in [Worker -> Guid] /\ val \in [Worker -> Record]
       /\ DOMAIN snapshot = Worker /\ outbox \in [Worker -> SUBSET OutgoingMessage]
       /\ discard \in [Worker -> SUBSET SideEffect] /\ current \subseteq Worker
       /\ record \in Record
       /\ Attempting(p) <=> att[p] # None
  BY <1>0 DEF PartitionTypeOK, StoresTyped, WorkersTyped
<1>. USE <1>0, <1>01
         DEF Frontend!recordVars, Frontend!storeVars, Frontend!clientVars, Frontend!Goto
<1>1. ASSUME NEW r \in Request, Frontend!Caller(p, r) PROVE PartitionInv'
  <2>1. /\ pc[p] = "idle" /\ OthersKept(p)
        /\ UNCHANGED <<created, record, val, current, account, blobs, queue, emitted, att>>
        /\ pc'[p] \in {"create request", "body", "response id"}
    BY <1>1 DEF Frontend!Caller, Frontend!Put, Frontend!Post, Frontend!Delete, Frontend!Begin,
       OthersKept
  <2>2. ~Attempting(p)' /\ ~Finishing(p)'
    BY <2>1 DEF Attempting, Finishing
  <2>. QED
    BY <2>1, <2>2, QuietStep
<1>2. CASE \/ Frontend!CreateRequest(p) \/ Frontend!NoBody(p) \/ Frontend!CreateConflict(p)
           \/ Frontend!WriteConflict(p) \/ Frontend!NoResponseId(p) \/ Frontend!NoResponse(p)
           \/ Frontend!Answer(p) \/ Frontend!AssociateFails(p) \/ Frontend!ClearConflict(p)
           \/ Frontend!Crash(p) \/ Frontend!DeleteRequest(p)
  <2>1. Frontend!Reset(p) /\ UNCHANGED <<account, blobs, queue, emitted>>
    BY <1>2 DEF Frontend!CreateRequest, Frontend!NoBody, Frontend!CreateConflict,
       Frontend!WriteConflict, Frontend!Crash, Frontend!NoResponseId, Frontend!NoResponse,
       Frontend!Answer, Frontend!AssociateFails, Frontend!ClearConflict, Frontend!DeleteRequest,
       Frontend!Refuse, Frontend!Fail
  <2>2. /\ OthersKept(p) /\ UNCHANGED <<created, record>> /\ p \notin current'
        /\ att'[p] = None /\ pc'[p] = "idle"
    BY <2>1 DEF Frontend!Reset, Frontend!Forget, OthersKept
  <2>. QED
    BY <2>1, <2>2, StopStep, QueueSent
<1>3. CASE \/ Frontend!GetBody(p) \/ Frontend!LoadMissing(p) \/ Frontend!Duplicate(p)
           \/ Frontend!LookUp(p) \/ Frontend!GetResponse(p) \/ Frontend!GetResponseId(p)
           \/ Frontend!DeleteStoredResponse(p)
  <2>1. /\ OthersKept(p)
        /\ UNCHANGED <<created, record, val, current, account, blobs, queue, emitted, att>>
        /\ pc'[p] \in {"load", "create", "lookup", "get", "answer", "delete request",
                       "delete response"}
    BY <1>3 DEF Frontend!GetBody, Frontend!LoadMissing, Frontend!Duplicate, Frontend!LookUp,
       Frontend!GetResponse, Frontend!GetResponseId, Frontend!DeleteStoredResponse, OthersKept
  <2>2. ~Attempting(p)' /\ ~Finishing(p)'
    BY <2>1 DEF Attempting, Finishing
  <2>. QED
    BY <2>1, <2>2, QuietStep
<1>4. CASE Frontend!LoadFree(p)
  <2>1. /\ OthersKept(p) /\ pc[p] = "load" /\ pc'[p] = "check"
        /\ UNCHANGED <<created, record, account, blobs, queue, emitted, att>>
        /\ val'[p] = record /\ created /\ ~InTransaction(record)
    BY <1>4 DEF Frontend!LoadFree, Frontend!Read, OthersKept, InTransaction
  <2>2. att[p] = None
    BY <2>1 DEF Attempting
  <2>. QED
    BY <2>1, <2>2, LoadFreeStep
<1>5. CASE Frontend!LoadUnfinished(p)
  <2>1. /\ OthersKept(p) /\ pc[p] = "load" /\ pc'[p] = "publish"
        /\ UNCHANGED <<created, record, account, blobs, queue, emitted, att>>
        /\ val'[p] = record /\ created /\ InTransaction(record)
        /\ outbox'[p] = Committed(record) /\ discard'[p] = Aborted(record)
    BY <1>5, Kinds DEF Frontend!LoadUnfinished, Frontend!Read, Frontend!BeginFinish, OthersKept,
       InTransaction, Committed, Aborted
  <2>2. att[p] = None
    BY <2>1 DEF Attempting
  <2>. QED
    BY <2>1, <2>2, LoadUnfinishedStep
<1>6. CASE Frontend!CreateRecord(p)
  <2>1. /\ OthersKept(p) /\ pc[p] = "create" /\ pc'[p] = "check"
        /\ UNCHANGED <<account, blobs, queue, emitted, att>>
        /\ ~created /\ created' /\ record' = EmptyRecord /\ current' = {p}
        /\ val'[p] = EmptyRecord
    BY <1>6, EmptyRecordType DEF Frontend!CreateRecord, Frontend!Create, OthersKept
  <2>2. att[p] = None
    BY <2>1 DEF Attempting
  <2>. QED
    BY <2>1, <2>2, CreateRecordStep
<1>7. CASE Frontend!CheckToken(p)
  <2>1. /\ OthersKept(p) /\ pc[p] = "check" /\ pc'[p] = "read"
        /\ UNCHANGED <<created, record, account, blobs, queue, emitted, val, current>>
    BY <1>7 DEF Frontend!CheckToken, OthersKept
  <2>2. att'[p] \in Attempt /\ Frontend!Unused(att'[p])
    BY <1>7 DEF Frontend!CheckToken
  <2>3. Fresh(att'[p])
    <3>1. ~Known(att'[p])
      BY <2>1, <2>2, Kinds DEF NewGuids, Attempting
    <3>2. \A e \in emitted \cap OutgoingMessage : e.attemptId # att'[p]
      BY <2>2 DEF Frontend!Unused, OutgoingMessage, Backend!OutgoingMessage
    <3>. QED
      BY <2>2, <3>1, <3>2 DEF Known, Fresh
  <2>. QED
    BY <2>1, <2>3, BeginAttemptStep
<1>8. CASE Frontend!ReadData(p)
  <2>1. /\ OthersKept(p) /\ pc[p] = "read" /\ pc'[p] = "transaction"
        /\ UNCHANGED <<created, record, account, blobs, queue, emitted, val, current, att>>
        /\ snapshot'[p] = account
    BY <1>8 DEF Frontend!ReadData, OthersKept
  <2>2. Attempting(p)
    BY <2>1 DEF Attempting
  <2>. QED
    BY <2>1, <2>2, ReadDataStep
<1>9. ASSUME NEW s \in Slot, Frontend!Send(p, s) PROVE PartitionInv'
  <2>. DEFINE m == [attemptId |-> att[p], slot |-> s]
  <2>1. /\ pc[p] = "transaction" /\ pc'[p] = "upload"
        /\ p \in current /\ ~InTransaction(val[p])
    BY <1>9 DEF Frontend!Send, Frontend!AddSideEffects, Frontend!Replace, Frontend!EtagMatches,
       InTransaction
  <2>2. Attempting(p) /\ HasRead(p)
    BY <2>1 DEF Attempting, HasRead
  <2>3. m \in SideEffect /\ m.attemptId = att[p]
    BY <2>2 DEF SideEffect, OutgoingMessage, Backend!OutgoingMessage, Guid
  <2>. HIDE DEF m
  <2>4. /\ OthersKept(p) /\ UNCHANGED <<created, account, blobs, queue, emitted, att, snapshot>>
        /\ record' = [val[p] EXCEPT !.sideEffects = @ \cup {m}]
        /\ val'[p] = record' /\ current' = {p} /\ outbox'[p] = {m}
    BY <1>9, <2>1 DEF Frontend!Send, Frontend!AddSideEffects, Frontend!Replace, OthersKept, m
  <2>. QED
    BY <2>1, <2>2, <2>3, <2>4, AddEffectsStep
<1>10. CASE Frontend!Upload(p)
  <2>1. /\ OthersKept(p) /\ pc[p] = "upload" /\ pc'[p] = "transaction"
        /\ UNCHANGED <<created, record, account, queue, emitted, val, current, att, snapshot>>
        /\ blobs' = blobs \cup outbox[p] /\ outbox'[p] = {}
    BY <1>10 DEF Frontend!Upload, OthersKept
  <2>2. outbox'[p] = outbox[p] \ outbox[p] /\ outbox[p] \in SUBSET outbox[p]
    BY <2>1
  <2>. QED
    BY <2>1, <2>2, UploadStep
<1>11. CASE Frontend!RegisterResponse(p)
  <2>. DEFINE e == [attemptId |-> att[p], incomingId |-> req[p]]
  <2>1. /\ pc[p] = "transaction" /\ pc'[p] = "store"
        /\ p \in current /\ ~InTransaction(val[p])
    BY <1>11 DEF Frontend!RegisterResponse, Frontend!AddSideEffects, Frontend!Replace,
       Frontend!EtagMatches, InTransaction
  <2>2. Attempting(p) /\ HasRead(p)
    BY <2>1 DEF Attempting, HasRead
  <2>3. req[p] \in Request
    BY <2>1 DEF PartitionTypeOK, WorkersTyped
  <2>4. e \in Frontend!HttpResponse /\ e.attemptId = att[p]
    BY <2>2, <2>3 DEF Frontend!HttpResponse, Guid
  <2>5. {e} \in SUBSET SideEffect /\ {e} \cap OutgoingMessage = {}
    BY <2>4, Kinds, PartitionAssumption DEF SideEffect, Message
  <2>. HIDE DEF e
  <2>6. /\ OthersKept(p) /\ UNCHANGED <<created, account, blobs, queue, emitted, att, snapshot>>
        /\ record' = [val[p] EXCEPT !.sideEffects = @ \cup {e}]
        /\ val'[p] = record' /\ current' = {p}
    BY <1>11, <2>1 DEF Frontend!RegisterResponse, Frontend!AddSideEffects, Frontend!Replace,
       OthersKept, e
  <2>. QED
    BY <2>1, <2>2, <2>4, <2>5, <2>6, AddEffectsStep
<1>12. CASE Frontend!StoreResponse(p)
  <2>1. /\ OthersKept(p) /\ pc[p] = "store" /\ pc'[p] = "commit"
        /\ UNCHANGED <<created, record, account, blobs, queue, emitted, val, current, att,
                       snapshot>>
    BY <1>12 DEF Frontend!StoreResponse, OthersKept
  <2>. QED
    BY <2>1, StoreResponseStep
<1>13. ASSUME NEW m \in Frontend!OutgoingMessage, Frontend!Dispatch(p, m) PROVE PartitionInv'
  <2>1. /\ OthersKept(p) /\ pc[p] = "publish" /\ pc'[p] = "publish"
        /\ UNCHANGED <<created, record, account, blobs, emitted, val, current, att, discard>>
        /\ queue' = queue \cup {m} /\ outbox'[p] = outbox[p] \ {m} /\ m \in outbox[p]
    BY <1>13 DEF Frontend!Dispatch, OthersKept
  <2>2. queue' = queue \cup (outbox[p] \ outbox'[p])
    BY <2>1
  <2>. QED
    BY <2>1, <2>2, FinisherStep
<1>14. ASSUME NEW m \in Frontend!OutgoingMessage, Frontend!EnsureDeleted(p, m) PROVE PartitionInv'
  <2>1. /\ OthersKept(p) /\ pc[p] = "publish" /\ pc'[p] = "publish"
        /\ UNCHANGED <<created, record, account, queue, emitted, val, current, att, outbox>>
        /\ blobs' = blobs \ {m} /\ m \in discard[p] /\ discard'[p] \subseteq discard[p]
    BY <1>14 DEF Frontend!EnsureDeleted, OthersKept
  <2>. QED
    BY <2>1, DeleteBodyStep
<1>15. ASSUME NEW e \in Frontend!HttpResponse, Frontend!DeleteAborted(p, e) PROVE PartitionInv'
  <2>1. /\ OthersKept(p) /\ pc[p] = "publish" /\ pc'[p] = "publish"
        /\ UNCHANGED <<created, record, account, blobs, queue, emitted, val, current, att, outbox>>
        /\ discard'[p] \subseteq discard[p]
    BY <1>15 DEF Frontend!DeleteAborted, OthersKept
  <2>2. queue' = queue \cup (outbox[p] \ outbox'[p])
    BY <2>1
  <2>. QED
    BY <2>1, <2>2, FinisherStep
<1>16. CASE Frontend!Associate(p)
  <2>1. /\ OthersKept(p) /\ pc[p] = "publish" /\ pc'[p] = "clear"
        /\ UNCHANGED <<created, record, account, blobs, queue, emitted, val, current, att, outbox,
                       discard>>
        /\ outbox[p] = {} /\ val[p].messageId \in requests
    BY <1>16 DEF Frontend!Associate, Frontend!Cleaned, Frontend!Dispatched, Frontend!Associable,
       OthersKept
  <2>2. val[p].messageId \notin blobs
    BY <2>1, Kinds DEF PartitionTypeOK, StoresTyped
  <2>3. queue' = queue \cup (outbox[p] \ outbox'[p])
    BY <2>1
  <2>. QED
    BY <2>1, <2>2, <2>3, FinisherStep
<1>17. CASE Frontend!Clear(p)
  <2>1. /\ OthersKept(p) /\ pc[p] = "clear" /\ pc'[p] \in {"check", "lookup", "answer"}
        /\ p \in current /\ record' = EmptyRecord /\ val'[p] = EmptyRecord /\ current' = {p}
        /\ UNCHANGED <<created, account, blobs, queue, emitted, att>>
    BY <1>17, EmptyRecordType DEF Frontend!Clear, Frontend!ClearTransactionState, Frontend!Replace,
       Frontend!EtagMatches, OthersKept
  <2>. QED
    BY <2>1, ClearStep
<1>18. CASE Frontend!Commit(p)
  <2>1. /\ OthersKept(p) /\ pc[p] = "commit" /\ pc'[p] = "publish"
        /\ p \in current /\ ~InTransaction(val[p])
        /\ record' = [val[p] EXCEPT !.messageId = req[p], !.attemptId = att[p]]
        /\ val'[p] = record' /\ current' = {p} /\ att'[p] = None
        /\ UNCHANGED <<created, blobs, queue>>
    BY <1>18 DEF Frontend!Commit, Frontend!CommitStateTransition, Frontend!Replace,
       Frontend!EtagMatches, Frontend!BeginFinish, OthersKept, InTransaction
  <2>2. req[p] \in Request /\ snapshot[p] = account
    BY <2>1 DEF PartitionTypeOK, WorkersTyped, PartitionInv, AttemptsSound, AttemptSound, HasRead
  <2>3. /\ account' = [account EXCEPT ![req[p]] = @ + 1]
        /\ emitted' = emitted \cup {e \in val[p].sideEffects \cap OutgoingMessage :
                                       e.attemptId = att[p]}
    BY <1>18, <2>2, Kinds DEF Frontend!Commit, Frontend!Apply, Frontend!Own
  <2>4. outbox'[p] = Committed(record') /\ discard'[p] = Aborted(record')
    BY <1>18, Kinds DEF Frontend!Commit, Frontend!BeginFinish, Committed, Aborted
  <2>. QED
    BY <2>1, <2>2, <2>3, <2>4, CommitStep
<1>. QED
  BY <1>1, <1>2, <1>3, <1>4, <1>5, <1>6, <1>7, <1>8, <1>9, <1>10, <1>11, <1>12, <1>13, <1>14,
     <1>15, <1>16, <1>17, <1>18
  DEF Frontend!Handler, Frontend!ExecuteTransaction, Frontend!FinishProcessing,
      Frontend!DeleteResponse

LEMMA BackendInv ==
  ASSUME PartitionTypeOK, PartitionTypeOK', PartitionInv, BackendStep, NewGuids
  PROVE  PartitionInv'
<1>. PICK p \in Consumer :
          \/ \E m \in Message : Backend!Receive(p, m)
          \/ Backend!Process(p)
          \/ Backend!Redeliver(p)
          \/ Backend!Crash(p)
  BY DEF BackendStep, Backend!Next, Message
<1>0. p \in Worker /\ p \notin WebWorker
  BY Kinds
<1>01. /\ pc \in [Worker -> Stage] /\ att \in [Worker -> Guid] /\ val \in [Worker -> Record]
       /\ DOMAIN snapshot = Worker /\ outbox \in [Worker -> SUBSET OutgoingMessage]
       /\ discard \in [Worker -> SUBSET SideEffect] /\ current \subseteq Worker
       /\ record \in Record /\ msg \in [Consumer -> Message \cup {None}]
       /\ Attempting(p) <=> att[p] # None
       /\ pc[p] # "idle" => msg[p] \in Message
       /\ Consumer \subseteq Worker
  BY <1>0, Kinds DEF PartitionTypeOK, StoresTyped, WorkersTyped
<1>02. /\ queue \subseteq emitted
       /\ pc[p] # "idle" => msg[p] \in emitted
  BY DEF PartitionInv, WorkerMessage
<1>. USE <1>0, <1>01
         DEF Backend!recordVars, Backend!storeVars, Backend!workerVars
<1>1. ASSUME NEW m \in Message, Backend!Receive(p, m) PROVE PartitionInv'
  <2>1. /\ OthersKept(p) /\ pc[p] = "idle" /\ pc'[p] = "loadBody"
        /\ UNCHANGED <<created, record, account, blobs, emitted, val, current, att>>
        /\ m \in queue /\ queue' = queue \ {m} /\ msg'[p] = m
    BY <1>1 DEF Backend!Receive, OthersKept
  <2>2. \A k \in Message : Backend!InTransit(k) => Backend!InTransit(k)' \/ account[k] > 0
    <3>. SUFFICES ASSUME NEW k \in Message, Backend!InTransit(k) PROVE Backend!InTransit(k)'
      OBVIOUS
    <3>1. CASE k = m
      BY <2>1, <3>1 DEF Backend!InTransit
    <3>2. CASE k # m /\ k \in queue
      BY <2>1, <3>2 DEF Backend!InTransit
    <3>3. CASE k \notin queue
      <4>1. PICK q \in Consumer : pc[q] # "idle" /\ msg[q] = k
        BY <3>3 DEF Backend!InTransit
      <4>2. pc'[q] # "idle" /\ msg'[q] = k
        BY <2>1, <4>1 DEF OthersKept
      <4>. QED
        BY <4>2 DEF Backend!InTransit
    <3>. QED
      BY <3>1, <3>2, <3>3
  <2>3. queue' \subseteq emitted /\ m \in emitted
    BY <1>02, <2>1
  <2>4. p \in current' => val'[p] = record /\ created
    BY <2>1 DEF PartitionInv, CurrentCopy
  <2>5. AttemptSound(p)' /\ ~Finishing(p)'
    BY <2>1 DEF AttemptSound, Attempting, HasRead, Finishing
  <2>. QED
    BY <2>1, <2>2, <2>3, <2>4, <2>5, LocalStep
<1>2. CASE Backend!Redeliver(p)
  <2>1. /\ OthersKept(p) /\ pc[p] # "idle"
        /\ UNCHANGED <<created, record, account, blobs, emitted, val, current, att, pc, msg,
                       snapshot, outbox, discard>>
        /\ queue' = queue \cup {msg[p]}
    BY <1>2 DEF Backend!Redeliver, OthersKept
  <2>2. \A m \in Message : Backend!InTransit(m) => Backend!InTransit(m)' \/ account[m] > 0
    BY <2>1, StaysInTransit
  <2>3. queue' \subseteq emitted
    BY <1>02, <2>1
  <2>4. /\ p \in current' => val'[p] = record /\ created
        /\ pc'[p] = "ack" => account[msg'[p]] > 0
    BY <2>1 DEF PartitionInv, CurrentCopy, DataSound
  <2>5. AttemptSound(p)'
    <3>1. AttemptSound(p)
      BY DEF PartitionInv, AttemptsSound
    <3>2. /\ Attempting(p)' <=> Attempting(p)
          /\ HasRead(p)' <=> HasRead(p)
          /\ InTransaction(val[p])' <=> InTransaction(val[p])
      BY <2>1 DEF Attempting, HasRead, InTransaction, Frontend!InTransaction
    <3>. QED
      BY <2>1, <3>1, <3>2 DEF AttemptSound, OutgoingMessage, Backend!OutgoingMessage
  <2>6. Finishing(p)' => FinisherSound(p)'
    <3>. SUFFICES ASSUME Finishing(p)' PROVE FinisherSound(p)'
      OBVIOUS
    <3>1. FinisherSound(p)
      BY <2>1 DEF PartitionInv, FinishersSound, Finishing
    <3>2. /\ Committed(val[p])' = Committed(val[p]) /\ Aborted(val[p])' = Aborted(val[p])
          /\ InTransaction(val[p])' <=> InTransaction(val[p])
      BY <2>1 DEF Committed, Aborted, InTransaction, Frontend!InTransaction,
         Frontend!CommittedSideEffects, Frontend!AbortedSideEffects, Frontend!OutgoingMessage
    <3>3. TransactionSound(val[p])'
      BY <2>1, <3>1, <3>2 DEF FinisherSound, TransactionSound
    <3>4. \A q \in current : Attempting(q)' <=> Attempting(q)
      BY <2>1 DEF Attempting
    <3>5. \A m \in Committed(val[p]) \ outbox[p] : Backend!InTransit(m)' \/ account[m] > 0
      <4>1. \A m \in Committed(val[p]) : m \in Message
        BY EffectTypes, Kinds
      <4>. QED
        BY <2>2, <3>1, <4>1 DEF FinisherSound
    <3>. QED
      BY <2>1, <3>1, <3>2, <3>3, <3>4, <3>5 DEF FinisherSound
  <2>. QED
    BY <1>02, <2>1, <2>2, <2>3, <2>4, <2>5, <2>6, LocalStep
<1>3. CASE \/ Backend!CreateConflict(p) \/ Backend!WriteConflict(p)
           \/ Backend!ClearConflict(p) \/ Backend!Crash(p)
  <2>1. Backend!Fail(p) /\ pc[p] # "idle"
    BY <1>3 DEF Backend!CreateConflict, Backend!WriteConflict, Backend!ClearConflict, Backend!Crash
  <2>2. /\ OthersKept(p) /\ UNCHANGED <<created, record, account, emitted, blobs>>
        /\ p \notin current' /\ att'[p] = None /\ pc'[p] = "idle"
        /\ queue' = queue \cup {msg[p]}
    BY <2>1 DEF Backend!Fail, Backend!Reset, Backend!Forget, OthersKept
  <2>. QED
    BY <1>02, <2>1, <2>2, StopStep
<1>4. CASE Backend!IgnoreDuplicate(p) \/ Backend!Complete(p)
  <2>1. Backend!Ack(p) /\ pc[p] # "idle" /\ (pc[p] = "ack" \/ msg[p] \notin blobs)
    BY <1>4 DEF Backend!IgnoreDuplicate, Backend!Complete
  <2>2. /\ OthersKept(p) /\ UNCHANGED <<created, record, account, emitted, blobs, queue>>
        /\ p \notin current' /\ att'[p] = None /\ pc'[p] = "idle"
    BY <2>1 DEF Backend!Ack, Backend!Reset, Backend!Forget, OthersKept
  <2>3. account[msg[p]] > 0
    <3>1. CASE pc[p] = "ack"
      BY <3>1 DEF PartitionInv, DataSound
    <3>2. CASE msg[p] \notin blobs
      <4>1. account[msg[p]] # 0
        BY <1>02, <2>1, <3>2 DEF PartitionInv, TokenUntilApplied
      <4>2. account[msg[p]] \in Nat
        BY <2>1 DEF PartitionTypeOK, StoresTyped
      <4>. QED
        BY <4>1, <4>2
    <3>. QED
      BY <2>1, <3>1, <3>2
  <2>. QED
    BY <1>02, <2>1, <2>2, <2>3, StopStep
<1>5. CASE Backend!LoadMessageBody(p) \/ Backend!LoadMissing(p)
  <2>1. /\ OthersKept(p) /\ pc[p] # "idle" /\ pc'[p] \in {"load", "create"}
        /\ UNCHANGED <<created, record, val, current, account, blobs, queue, emitted, att, msg>>
    BY <1>5 DEF Backend!LoadMessageBody, Backend!LoadMissing, OthersKept
  <2>2. ~Attempting(p)' /\ ~Finishing(p)'
    BY <2>1 DEF Attempting, Finishing
  <2>. QED
    BY <2>1, <2>2, QuietStep
<1>6. CASE Backend!LoadFree(p)
  <2>1. /\ OthersKept(p) /\ pc[p] = "load" /\ pc'[p] = "checkExists"
        /\ UNCHANGED <<created, record, account, blobs, queue, emitted, att, msg>>
        /\ val'[p] = record /\ created /\ ~InTransaction(record)
    BY <1>6 DEF Backend!LoadFree, Backend!Read, OthersKept, InTransaction, Frontend!InTransaction,
       Backend!InTransaction
  <2>2. att[p] = None
    BY <2>1 DEF Attempting
  <2>. QED
    BY <2>1, <2>2, LoadFreeStep
<1>7. CASE Backend!LoadUnfinished(p)
  <2>1. /\ OthersKept(p) /\ pc[p] = "load" /\ pc'[p] = "publish"
        /\ UNCHANGED <<created, record, account, blobs, queue, emitted, att, msg>>
        /\ val'[p] = record /\ created /\ InTransaction(record)
    BY <1>7 DEF Backend!LoadUnfinished, Backend!Read, Backend!BeginFinish, OthersKept,
       InTransaction, Frontend!InTransaction, Backend!InTransaction
  <2>2. outbox'[p] = Committed(record) /\ discard'[p] \subseteq Aborted(record)
    BY <1>7 DEF Backend!LoadUnfinished, Backend!BeginFinish, Committed, Aborted,
       Backend!CommittedSideEffects, Backend!AbortedSideEffects, Frontend!CommittedSideEffects,
       Frontend!AbortedSideEffects, OutgoingMessage
  <2>3. att[p] = None
    BY <2>1 DEF Attempting
  <2>. QED
    BY <2>1, <2>2, <2>3, LoadUnfinishedStep
<1>8. CASE Backend!CreateRecord(p)
  <2>1. /\ OthersKept(p) /\ pc[p] = "create" /\ pc'[p] = "checkExists"
        /\ UNCHANGED <<account, blobs, queue, emitted, att, msg>>
        /\ ~created /\ created' /\ record' = EmptyRecord /\ current' = {p}
        /\ val'[p] = EmptyRecord
    BY <1>8, EmptyRecordType DEF Backend!CreateRecord, Backend!Create, OthersKept
  <2>2. att[p] = None
    BY <2>1 DEF Attempting
  <2>. QED
    BY <2>1, <2>2, CreateRecordStep
<1>9. CASE Backend!CheckExists(p)
  <2>1. /\ OthersKept(p) /\ pc[p] = "checkExists" /\ pc'[p] = "handle"
        /\ UNCHANGED <<created, record, account, blobs, queue, emitted, val, current, msg>>
        /\ msg[p] \in blobs
    BY <1>9 DEF Backend!CheckExists, OthersKept
  <2>2. att'[p] \in Attempt /\ Backend!Unused(att'[p])
    BY <1>9 DEF Backend!CheckExists
  <2>3. Fresh(att'[p])
    <3>1. ~Known(att'[p])
      BY <2>1, <2>2, Kinds DEF NewGuids, Attempting
    <3>2. \A e \in emitted \cap OutgoingMessage : e.attemptId # att'[p]
      BY <2>2 DEF Backend!Unused, OutgoingMessage, Backend!OutgoingMessage
    <3>. QED
      BY <2>2, <3>1, <3>2 DEF Known, Fresh
  <2>. QED
    BY <2>1, <2>3, BeginAttemptStep
<1>10. CASE Backend!Handle(p)
  <2>1. /\ OthersKept(p) /\ pc[p] = "handle" /\ pc'[p] = "capture"
        /\ UNCHANGED <<created, record, account, blobs, queue, emitted, val, current, att, msg>>
        /\ snapshot'[p] = account
    BY <1>10 DEF Backend!Handle, OthersKept
  <2>2. \A e \in outbox'[p] : e.attemptId = att[p]
    <3>1. \A sent \in Backend!Sends(p) : \A e \in sent : e.attemptId = att[p]
      BY DEF Backend!Sends
    <3>. QED
      BY <1>10, <3>1 DEF Backend!Handle
  <2>3. Attempting(p)
    BY <2>1 DEF Attempting
  <2>. QED
    BY <2>1, <2>2, <2>3, ReadDataStep
<1>11. CASE Backend!CaptureOutgoing(p)
  <2>1. /\ OthersKept(p) /\ pc[p] = "capture" /\ pc'[p] = "upload"
        /\ p \in current /\ ~InTransaction(val[p])
        /\ UNCHANGED <<created, account, blobs, queue, emitted, att, msg, snapshot, outbox>>
        /\ record' = [val[p] EXCEPT !.sideEffects = @ \cup outbox[p]]
        /\ val'[p] = record' /\ current' = {p}
    BY <1>11 DEF Backend!CaptureOutgoing, Backend!AddSideEffects, Backend!Replace,
       Backend!EtagMatches, OthersKept, InTransaction, Frontend!InTransaction,
       Backend!InTransaction
  <2>2. Attempting(p) /\ HasRead(p)
    BY <2>1 DEF Attempting, HasRead
  <2>3. outbox[p] \in SUBSET SideEffect /\ \A e \in outbox[p] : e.attemptId = att[p]
    BY <2>1 DEF SideEffect, PartitionInv, AttemptsSound, AttemptSound
  <2>. QED
    BY <2>1, <2>2, <2>3, AddEffectsStep
<1>12. ASSUME NEW m \in Backend!OutgoingMessage, Backend!Upload(p, m) PROVE PartitionInv'
  <2>1. /\ OthersKept(p) /\ pc[p] = "upload" /\ pc'[p] = "upload"
        /\ UNCHANGED <<created, record, account, queue, emitted, val, current, att, snapshot,
                       msg>>
        /\ blobs' = blobs \cup {m} /\ outbox'[p] = outbox[p] \ {m} /\ {m} \in SUBSET outbox[p]
    BY <1>12 DEF Backend!Upload, OthersKept
  <2>. QED
    BY <2>1, UploadStep
<1>13. ASSUME NEW m \in Backend!OutgoingMessage, Backend!Dispatch(p, m) PROVE PartitionInv'
  <2>1. /\ OthersKept(p) /\ pc[p] = "publish" /\ pc'[p] = "publish"
        /\ UNCHANGED <<created, record, account, blobs, emitted, val, current, att, discard, msg>>
        /\ queue' = queue \cup {m} /\ outbox'[p] = outbox[p] \ {m} /\ m \in outbox[p]
    BY <1>13 DEF Backend!Dispatch, OthersKept
  <2>2. queue' = queue \cup (outbox[p] \ outbox'[p])
    BY <2>1
  <2>. QED
    BY <2>1, <2>2, FinisherStep
<1>14. ASSUME NEW m \in Backend!OutgoingMessage, Backend!EnsureDeleted(p, m) PROVE PartitionInv'
  <2>1. /\ OthersKept(p) /\ pc[p] = "publish" /\ pc'[p] = "publish"
        /\ UNCHANGED <<created, record, account, queue, emitted, val, current, att, outbox, msg>>
        /\ blobs' = blobs \ {m} /\ m \in discard[p] /\ discard'[p] \subseteq discard[p]
    BY <1>14 DEF Backend!EnsureDeleted, OthersKept
  <2>. QED
    BY <2>1, DeleteBodyStep
<1>15. CASE Backend!DeleteToken(p)
  <2>1. /\ OthersKept(p) /\ pc[p] = "publish" /\ pc'[p] = "clear"
        /\ UNCHANGED <<created, record, account, queue, emitted, val, current, att, outbox,
                       discard, msg>>
        /\ outbox[p] = {} /\ blobs' = blobs \ {val[p].messageId}
    BY <1>15 DEF Backend!DeleteToken, Backend!Dispatched, OthersKept
  <2>. QED
    BY <2>1, DeleteTokenStep
<1>16. CASE Backend!Clear(p)
  <2>1. /\ OthersKept(p) /\ pc[p] = "clear" /\ pc'[p] \in {"ack", "checkExists"}
        /\ pc'[p] = "ack" => val[p].messageId = msg[p]
        /\ p \in current /\ record' = EmptyRecord /\ val'[p] = EmptyRecord /\ current' = {p}
        /\ UNCHANGED <<created, account, blobs, queue, emitted, att, msg>>
    BY <1>16, EmptyRecordType DEF Backend!Clear, Backend!ClearTransactionState, Backend!Replace,
       Backend!EtagMatches, OthersKept
  <2>. QED
    BY <2>1, ClearStep
<1>17. CASE Backend!Commit(p)
  <2>1. /\ OthersKept(p) /\ pc[p] = "upload" /\ outbox[p] = {} /\ pc'[p] = "publish"
        /\ p \in current /\ ~InTransaction(val[p])
        /\ record' = [val[p] EXCEPT !.messageId = msg[p], !.attemptId = att[p]]
        /\ val'[p] = record' /\ current' = {p} /\ att'[p] = None
        /\ UNCHANGED <<created, blobs, queue, msg>>
    BY <1>17 DEF Backend!Commit, Backend!CommitStateTransition, Backend!Replace,
       Backend!Uploaded, Backend!EtagMatches, Backend!BeginFinish, OthersKept, InTransaction,
       Frontend!InTransaction, Backend!InTransaction
  <2>2. msg[p] \in Message /\ snapshot[p] = account
    BY <2>1 DEF PartitionInv, AttemptsSound, AttemptSound, HasRead
  <2>3. /\ account' = [account EXCEPT ![msg[p]] = @ + 1]
        /\ emitted' = emitted \cup {e \in val[p].sideEffects \cap OutgoingMessage :
                                       e.attemptId = att[p]}
    BY <1>17, <2>2 DEF Backend!Commit, Backend!Apply, Backend!Own, OutgoingMessage
  <2>4. outbox'[p] = Committed(record') /\ discard'[p] \subseteq Aborted(record')
    BY <1>17 DEF Backend!Commit, Backend!BeginFinish, Committed, Aborted,
       Backend!CommittedSideEffects, Backend!AbortedSideEffects, Frontend!CommittedSideEffects,
       Frontend!AbortedSideEffects, OutgoingMessage
  <2>. QED
    BY <2>1, <2>2, <2>3, <2>4, CommitStep
<1>. QED
  BY <1>1, <1>2, <1>3, <1>4, <1>5, <1>6, <1>7, <1>8, <1>9, <1>10, <1>11, <1>12, <1>13, <1>14,
     <1>15, <1>16, <1>17
  DEF Backend!Process

LEMMA StutterType == PartitionTypeOK /\ UNCHANGED vars => PartitionTypeOK'
<1>. SUFFICES ASSUME PartitionTypeOK, UNCHANGED vars PROVE PartitionTypeOK'
  OBVIOUS
<1>1. UNCHANGED <<created, record, val, current, account, blobs, queue, emitted, requests, pc, att,
                  snapshot, outbox, discard, req, msg>>
  BY DEF vars, recordVars, sharedVars, frontendVars, backendVars
<1>2. StoresTyped'
  BY <1>1 DEF PartitionTypeOK, StoresTyped
<1>3. WorkersTyped'
  BY <1>1 DEF PartitionTypeOK, WorkersTyped, Attempting
<1>. QED
  BY <1>2, <1>3 DEF PartitionTypeOK

LEMMA StutterInv == PartitionInv /\ UNCHANGED vars => PartitionInv'
<1>. SUFFICES ASSUME PartitionInv, UNCHANGED vars PROVE PartitionInv'
  OBVIOUS
<1>1. UNCHANGED <<created, record, val, current, account, blobs, queue, emitted, pc, att,
                  snapshot, outbox, discard, msg>>
  BY DEF vars, recordVars, sharedVars, frontendVars, backendVars
<1>2. CurrentCopy' /\ WorkerMessage' /\ AttemptsUnique' /\ RecordSound'
  BY <1>1, RecordKept DEF PartitionInv, CurrentCopy, WorkerMessage, AttemptsUnique,
     OutgoingMessage, Backend!OutgoingMessage
<1>3. \A p \in Worker :
         /\ Attempting(p)' <=> Attempting(p)
         /\ HasRead(p)' <=> HasRead(p)
         /\ Finishing(p)' <=> Finishing(p)
         /\ InTransaction(val[p])' <=> InTransaction(val[p])
         /\ Committed(val[p])' = Committed(val[p])
         /\ Aborted(val[p])' = Aborted(val[p])
  BY <1>1 DEF Attempting, HasRead, Finishing, Committed, Aborted, InTransaction,
     Frontend!InTransaction, Frontend!CommittedSideEffects, Frontend!AbortedSideEffects,
     Frontend!OutgoingMessage
<1>4. AttemptsSound'
  BY <1>1, <1>3 DEF PartitionInv, AttemptsSound, AttemptSound, OutgoingMessage,
     Backend!OutgoingMessage
<1>5. \A m \in Message : Backend!InTransit(m)' <=> Backend!InTransit(m)
  BY <1>1 DEF Backend!InTransit
<1>6. FinishersSound'
  <2>. SUFFICES ASSUME NEW p \in Worker, Finishing(p)' PROVE FinisherSound(p)'
    BY DEF FinishersSound
  <2>1. FinisherSound(p)
    BY <1>3 DEF PartitionInv, FinishersSound
  <2>2. TransactionSound(val[p])'
    BY <1>1, <1>3, <2>1 DEF FinisherSound, TransactionSound, Message, Backend!Message,
       Backend!OutgoingMessage
  <2>3. \A q \in current : Attempting(q)' <=> Attempting(q)
    BY <1>1 DEF Attempting
  <2>4. \A m : Backend!InTransit(m)' <=> Backend!InTransit(m)
    BY <1>1 DEF Backend!InTransit
  <2>. QED
    BY <1>1, <1>3, <2>1, <2>2, <2>3, <2>4 DEF FinisherSound
<1>7. DataSound' /\ MessageAppliedAtMostOnce' /\ TokenUntilApplied'
  BY <1>1 DEF PartitionInv, DataSound, MessageAppliedAtMostOnce, TokenUntilApplied, Message,
     Backend!Message, Backend!OutgoingMessage
<1>8. NoMessageLost'
  BY <1>1, <1>5 DEF PartitionInv, NoMessageLost, Frontend!InTransaction,
     Frontend!CommittedSideEffects, Backend!InTransit
<1>. QED
  BY <1>2, <1>4, <1>6, <1>7, <1>8 DEF PartitionInv

LEMMA StepInv ==
  PartitionTypeOK /\ PartitionInv /\ [Next]_vars => PartitionTypeOK' /\ PartitionInv'
<1>. SUFFICES ASSUME PartitionTypeOK, PartitionInv, [Next]_vars
              PROVE  PartitionTypeOK' /\ PartitionInv'
  OBVIOUS
<1>1. CASE FrontendStep /\ NewGuids
  BY <1>1, FrontendType, FrontendInv
<1>2. CASE BackendStep /\ NewGuids
  BY <1>2, BackendType, BackendInv
<1>3. CASE UNCHANGED vars
  BY <1>3, StutterType, StutterInv
<1>. QED
  BY <1>1, <1>2, <1>3 DEF Next

(* Every variable that both processes share, and every request and message *)
(* in hand, keeps its type.                                                *)
THEOREM PartitionTypeCorrect == Spec => []PartitionTypeOK
<1>1. Init => PartitionTypeOK /\ PartitionInv
  BY InitType, InitInv
<1>2. PartitionTypeOK /\ PartitionInv /\ [Next]_vars => PartitionTypeOK' /\ PartitionInv'
  BY StepInv
<1>. QED
  BY <1>1, <1>2, PTL DEF Spec

(* The inductive invariant of the shared partition.                        *)
THEOREM PartitionInvariant == Spec => []PartitionInv
<1>1. Init => PartitionTypeOK /\ PartitionInv
  BY InitType, InitInv
<1>2. PartitionTypeOK /\ PartitionInv /\ [Next]_vars => PartitionTypeOK' /\ PartitionInv'
  BY StepInv
<1>. QED
  BY <1>1, <1>2, PTL DEF Spec

(* A message changes the Account at most once, however the deliveries to   *)
(* the backend overlap with each other and with requests to the frontend,  *)
(* which may finish the backend's transaction but cannot delete its token. *)
THEOREM MessagesAppliedOnce == Spec => []MessageAppliedAtMostOnce
<1>1. PartitionInv => MessageAppliedAtMostOnce
  BY DEF PartitionInv
<1>. QED
  BY <1>1, PartitionInvariant, PTL

(* A message that either process sent, and that was not applied, is on its *)
(* way or still listed in the record, whichever process finishes what.     *)
THEOREM MessagesNotLost == Spec => []NoMessageLost
<1>1. PartitionInv => NoMessageLost
  BY DEF PartitionInv
<1>. QED
  BY <1>1, PartitionInvariant, PTL

(* Neither process dispatches a message of an attempt that was rolled back,*)
(* its own or one that it finds in a transaction of the other.             *)
THEOREM CommittedSent == Spec => []OnlyCommittedSent
<1>1. PartitionInv => OnlyCommittedSent
  BY DEF PartitionInv, WorkerMessage, OnlyCommittedSent
<1>. QED
  BY <1>1, PartitionInvariant, PTL

(* Only a commit writes the Account, and it writes what it read.           *)
LEMMA AccountKept ==
  ASSUME PartitionTypeOK, PartitionInv, [Next]_vars
  PROVE  \A k \in Request \cup Message : account'[k] >= account[k]
<1>1. account \in [Request \cup Message -> Nat]
  BY DEF PartitionTypeOK, StoresTyped
<1>2. CASE account' = account
  BY <1>1, <1>2
<1>3. ASSUME NEW p \in WebWorker, Frontend!Commit(p)
      PROVE  \A k \in Request \cup Message : account'[k] >= account[k]
  <2>1. p \in current /\ pc[p] = "commit" /\ p \in Worker
    BY <1>3, Kinds DEF Frontend!Commit, Frontend!CommitStateTransition, Frontend!Replace,
       Frontend!EtagMatches
  <2>2. snapshot[p] = account /\ req[p] \in Request
    BY <2>1 DEF PartitionInv, AttemptsSound, AttemptSound, HasRead, PartitionTypeOK, WorkersTyped
  <2>3. account' = [account EXCEPT ![req[p]] = @ + 1]
    BY <1>3, <2>2 DEF Frontend!Commit, Frontend!Apply
  <2>. QED
    BY <1>1, <2>2, <2>3
<1>4. ASSUME NEW p \in Consumer, Backend!Commit(p)
      PROVE  \A k \in Request \cup Message : account'[k] >= account[k]
  <2>1. p \in current /\ pc[p] = "upload" /\ p \in Worker
    BY <1>4, Kinds DEF Backend!Commit, Backend!CommitStateTransition, Backend!Replace,
       Backend!EtagMatches
  <2>2. snapshot[p] = account /\ msg[p] \in Message
    BY <2>1 DEF PartitionInv, AttemptsSound, AttemptSound, HasRead, PartitionTypeOK, WorkersTyped
  <2>3. account' = [account EXCEPT ![msg[p]] = @ + 1]
    BY <1>4, <2>2 DEF Backend!Commit, Backend!Apply
  <2>. QED
    BY <1>1, <2>2, <2>3
<1>5. CASE FrontendStep
  <2>1. PICK p \in WebWorker :
          \/ \E r \in Request : Frontend!Caller(p, r)
          \/ Frontend!Handler(p)
          \/ Frontend!Crash(p)
    BY <1>5 DEF FrontendStep
  <2>2. Frontend!Commit(p) \/ account' = account
    BY <2>1
    DEF Frontend!Caller, Frontend!Put, Frontend!Post, Frontend!Delete, Frontend!Begin,
        Frontend!Handler, Frontend!ExecuteTransaction, Frontend!FinishProcessing,
        Frontend!DeleteResponse, Frontend!Crash, Frontend!Fail, Frontend!Refuse,
        Frontend!CreateRequest, Frontend!GetBody, Frontend!NoBody, Frontend!LoadFree,
        Frontend!LoadUnfinished, Frontend!LoadMissing, Frontend!CreateRecord,
        Frontend!CreateConflict, Frontend!CheckToken, Frontend!Duplicate, Frontend!ReadData,
        Frontend!Send, Frontend!Upload, Frontend!RegisterResponse, Frontend!StoreResponse,
        Frontend!WriteConflict, Frontend!LookUp, Frontend!NoResponseId, Frontend!GetResponse,
        Frontend!NoResponse, Frontend!Answer, Frontend!Dispatch, Frontend!EnsureDeleted,
        Frontend!DeleteAborted, Frontend!Associate, Frontend!AssociateFails, Frontend!Clear,
        Frontend!ClearConflict, Frontend!GetResponseId, Frontend!DeleteStoredResponse,
        Frontend!DeleteRequest, Frontend!storeVars
  <2>. QED
    BY <1>2, <1>3, <2>2
<1>6. CASE BackendStep
  <2>1. PICK p \in Consumer :
          \/ \E m \in Backend!Message : Backend!Receive(p, m)
          \/ Backend!Process(p)
          \/ Backend!Redeliver(p)
          \/ Backend!Crash(p)
    BY <1>6 DEF BackendStep, Backend!Next
  <2>2. Backend!Commit(p) \/ account' = account
    BY <2>1
    DEF Backend!Receive, Backend!Process, Backend!Redeliver, Backend!Crash, Backend!Fail,
        Backend!Ack, Backend!Reset, Backend!LoadMessageBody, Backend!IgnoreDuplicate,
        Backend!LoadFree, Backend!LoadUnfinished, Backend!LoadMissing, Backend!CreateRecord,
        Backend!CreateConflict, Backend!CheckExists, Backend!Handle, Backend!CaptureOutgoing,
        Backend!Upload, Backend!WriteConflict, Backend!Dispatch, Backend!EnsureDeleted,
        Backend!DeleteToken, Backend!Clear, Backend!ClearConflict, Backend!Complete,
        Backend!storeVars
  <2>. QED
    BY <1>2, <1>4, <2>2
<1>7. CASE UNCHANGED vars
  BY <1>2, <1>7 DEF vars, sharedVars
<1>. QED
  BY <1>5, <1>6, <1>7 DEF Next

(* Neither process overwrites what the other wrote to the Account, though  *)
(* both write all of it back and only the record has an etag.              *)
THEOREM AccountUpdatesKept == Spec => NoLostUpdate
<1>1. PartitionTypeOK /\ PartitionInv /\ [Next]_vars =>
         [\A k \in Request \cup Backend!Message : account'[k] >= account[k]]_vars
  BY AccountKept DEF Message
<1>. QED
  BY <1>1, PartitionTypeCorrect, PartitionInvariant, PTL DEF Spec, NoLostUpdate

=============================================================================
