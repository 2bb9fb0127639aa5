------------------------- MODULE RestInvocationProofs -------------------------
(***************************************************************************)
(* Proofs about RestInvocation for every number of workers, messages,      *)
(* attempts and sends.  What Messaging does to its own variables is taken  *)
(* from MessagingProofs, whose lemmas speak of the same steps.             *)
(***************************************************************************)
EXTENDS RestInvocationInvariant, MessagingProofs

LEMMA CallIds ==
  /\ \A a \in Attempt :
        /\ FollowUpOf(a) \in OutgoingMessage /\ FollowUpOf(a).attemptId = a
        /\ HttpRequest(a) \in SideEffect /\ HttpRequest(a).attemptId = a
        /\ HttpRequest(a) \notin Message
        /\ \A b \in Attempt : HttpRequest(a) # FollowUpOf(b)
  /\ \A m : IsFollowUp(m) =>
        /\ m.attemptId \in Attempt /\ m = FollowUpOf(m.attemptId)
        /\ m \in OutgoingMessage /\ m \in Message /\ m # None
<1>1. \A a \in Attempt : FollowUpOf(a) \in OutgoingMessage /\ FollowUpOf(a).attemptId = a
  BY CallAssumption DEF FollowUpOf, OutgoingMessage
<1>2. \A a \in Attempt :
        /\ HttpRequest(a) \in SideEffect /\ HttpRequest(a) \notin Message
        /\ HttpRequest(a).attemptId = a
  BY CallAssumption, ConstantsAssumption DEF HttpRequests, HttpRequest, SideEffect
<1>3. \A m : IsFollowUp(m) =>
        /\ m.attemptId \in Attempt /\ m = FollowUpOf(m.attemptId)
        /\ m \in OutgoingMessage /\ m \in Message /\ m # None
  BY <1>1, MessageParts, ConstantsAssumption DEF IsFollowUp
<1>. QED
  BY <1>1, <1>2, <1>3, MessageParts

-----------------------------------------------------------------------------
(* The steps of an endpoint that calls are the steps of Messaging, but for *)
(* a call that is registered and a message that is given up.               *)
LEMMA StepKinds ==
  ASSUME [CallNext]_callVars
  PROVE  \/ [Next]_vars
         \/ \E p \in Worker : Register(p)
         \/ \E p \in Worker : PostDeclined(p) \/ PostRefused(p)
<1>. USE DEF Next, Process
<1>1. ASSUME NEW p \in Worker, NEW m \in Message, Deliver(p, m) PROVE Next
  BY <1>1 DEF Deliver
<1>2. ASSUME NEW p \in Worker, LoadBody(p) \/ BeginAborts(p) \/ RedeliverCall(p) \/ CrashCall(p)
      PROVE  Next
  BY <1>2 DEF LoadBody, BeginAborts, RedeliverCall, CrashCall
<1>3. ASSUME NEW p \in Worker, PostAccepted(p) \/ DeleteCall(p) \/ Put(p) PROVE UNCHANGED vars
  BY <1>3 DEF PostAccepted, DeleteCall, Put
<1>4. ASSUME NEW p \in Worker, NEW a \in Attempt, AbortCall(p, a) \/ AbortCallFails(p, a)
      PROVE  UNCHANGED vars
  BY <1>4 DEF AbortCall, AbortCallFails
<1>5. ASSUME NEW p \in Worker, DeleteCallFails(p) PROVE Next
  BY <1>5 DEF DeleteCallFails, Returned, Crash
<1>6. ASSUME NEW p \in Worker, MessagingStep(p) PROVE Next
  BY <1>6 DEF MessagingStep, Loads, BeginAttempt
<1>7. ASSUME NEW p \in Worker, MessagingStop(p) PROVE Next
  BY <1>7 DEF MessagingStop
<1>8. CASE UNCHANGED callVars
  BY <1>8 DEF callVars
<1>. QED
  BY <1>1, <1>2, <1>3, <1>4, <1>5, <1>6, <1>7, <1>8 DEF CallNext, Pipeline, Fault

(* What the registration of a call does.                                   *)
LEMMA RegisterEffect ==
  ASSUME TypeOK, NEW p \in Worker, Register(p)
  PROVE  /\ p \in current /\ pc[p] = "capture" /\ att[p] \in Attempt
         /\ ~InTransaction(val[p])
         /\ record' = [val[p] EXCEPT !.sideEffects = @ \cup {HttpRequest(att[p])}]
         /\ val' = [val EXCEPT ![p] = record'] /\ current' = {p}
         /\ UNCHANGED <<created, storeVars, workerVars, httpVars>>
<1>1. pc[p] = "capture" /\ att[p] \in Attempt
  BY DEF Register, Calls, TypeOK, Attempting, Guid
<1>. QED
  BY <1>1 DEF Register, AddSideEffects, Replace, EtagMatches

LEMMA RegisterType ==
  ASSUME TypeOK, NEW p \in Worker, Register(p)
  PROVE  TypeOK'
<1>1. record' \in Record
  <2>1. val[p] \in Record /\ HttpRequest(att[p]) \in SideEffect
    BY RegisterEffect, CallIds DEF TypeOK
  <2>2. [val[p] EXCEPT !.sideEffects = @ \cup {HttpRequest(att[p])}] \in Record
    BY <2>1 DEF Record
  <2>. QED
    BY <2>2, RegisterEffect
<1>2. /\ val' = [val EXCEPT ![p] = record'] /\ current' = {p}
      /\ UNCHANGED <<created, storeVars, workerVars>>
  BY RegisterEffect
<1>. QED
  BY <1>1, <1>2 DEF TypeOK, storeVars, workerVars, Attempting

LEMMA MessageTypes ==
  ASSUME TypeOK, [CallNext]_callVars
  PROVE  TypeOK'
<1>1. ASSUME NEW p \in Worker, PostDeclined(p) \/ PostRefused(p) PROVE TypeOK'
  BY <1>1, AckType DEF PostDeclined, PostRefused, ClientFault
<1>. QED
  BY <1>1, StepKinds, TypeStep, RegisterType

(* A delivery that ends, in whatever way, forgets its call.                *)
LEMMA StopType ==
  ASSUME CallTypeOK, NEW p \in Worker, Reset(p), ForgetCalls(p)
  PROVE  /\ http' \in [Worker -> {"none", "post", "open", "closed"}]
         /\ \A q \in Worker : http'[q] # "none" => IsFollowUp(msg'[q])
         /\ aborts' \in [Worker -> SUBSET Attempt]
<1>1. msg' = [msg EXCEPT ![p] = None]
  BY DEF Reset
<1>. QED
  BY <1>1 DEF CallTypeOK, TypeOK, ForgetCalls

(* The steps of Messaging between the calls keep the message in hand.      *)
LEMMA MessageKept ==
  ASSUME NEW p \in Worker, MessagingStep(p)
  PROVE  msg' = msg /\ UNCHANGED httpVars
<1>1. ASSUME NEW m \in OutgoingMessage, Upload(p, m) \/ Dispatch(p, m) \/ EnsureDeleted(p, m)
      PROVE  msg' = msg
  BY <1>1 DEF Upload, Dispatch, EnsureDeleted
<1>. QED
  BY <1>1 DEF MessagingStep, Loads, LoadFree, LoadUnfinished, LoadMissing, CreateRecord,
     BeginAttempt, CheckExists, Handle, CaptureOutgoing, Commit, Clear

LEMMA CallTypes ==
  ASSUME CallTypeOK, [CallNext]_callVars
  PROVE  CallTypeOK'
<1>. USE CallIds
<1>0. TypeOK /\ TypeOK'
  BY MessageTypes DEF CallTypeOK
<1>. USE DEF httpVars
<1>1. ASSUME NEW p \in Worker, NEW m \in Message, Deliver(p, m) PROVE CallTypeOK'
  <2>1. http[p] = "none"
    BY <1>0, <1>1 DEF Deliver, Receive, CallTypeOK, TypeOK
  <2>2. msg' = [msg EXCEPT ![p] = m] /\ UNCHANGED httpVars
    BY <1>1 DEF Deliver, Receive
  <2>. QED
    BY <1>0, <2>1, <2>2 DEF CallTypeOK, TypeOK
<1>2. ASSUME NEW p \in Worker, LoadBody(p) PROVE CallTypeOK'
  BY <1>0, <1>2 DEF LoadBody, LoadMessageBody, CallTypeOK
<1>3. ASSUME NEW p \in Worker, PostAccepted(p) PROVE CallTypeOK'
  <2>1. msg[p].attemptId \in Attempt /\ msg' = msg
    BY <1>3 DEF PostAccepted, CallTypeOK, vars, workerVars
  <2>. QED
    BY <1>0, <1>3, <2>1 DEF PostAccepted, CallTypeOK
<1>4. ASSUME NEW p \in Worker, PostDeclined(p) \/ PostRefused(p) PROVE CallTypeOK'
  <2>1. msg[p].attemptId \in Attempt /\ msg[p] \in Message
    BY <1>4 DEF PostDeclined, PostRefused, CallTypeOK
  <2>2. Reset(p) /\ ForgetCalls(p) /\ errors' = errors \cup {msg[p]}
    BY <1>4 DEF PostDeclined, PostRefused, ClientFault, Ack
  <2>3. /\ server' \in [Attempt -> {"none", "stored", "accepted", "declined", "deleted"}]
        /\ refused' \subseteq Attempt
    BY <1>4, <2>1 DEF PostDeclined, PostRefused, CallTypeOK
  <2>. QED
    BY <1>0, <2>1, <2>2, <2>3, StopType DEF CallTypeOK
<1>5. ASSUME NEW p \in Worker, DeleteCall(p) PROVE CallTypeOK'
  <2>1. msg[p].attemptId \in Attempt /\ msg' = msg
    BY <1>5 DEF DeleteCall, CallTypeOK, vars, workerVars
  <2>. QED
    BY <1>0, <1>5, <2>1 DEF DeleteCall, DeleteAtServer, CallTypeOK
<1>6. ASSUME NEW p \in Worker, Register(p) PROVE CallTypeOK'
  BY <1>0, <1>6 DEF Register, workerVars, CallTypeOK
<1>7. ASSUME NEW p \in Worker, Put(p) PROVE CallTypeOK'
  <2>1. att[p] \in Attempt /\ msg' = msg
    BY <1>0, <1>7 DEF Put, PutDue, Calls, TypeOK, Attempting, Guid, vars, workerVars
  <2>. QED
    BY <1>0, <1>7, <2>1 DEF Put, CallTypeOK
<1>8. ASSUME NEW p \in Worker, BeginAborts(p) PROVE CallTypeOK'
  <2>1. {e.attemptId : e \in AbortedSideEffects(val[p]) \cap HttpRequests} \subseteq Attempt
    BY DEF HttpRequests
  <2>. QED
    BY <1>0, <1>8, <2>1 DEF BeginAborts, DeleteToken, CallTypeOK
<1>9. ASSUME NEW p \in Worker, NEW a \in Attempt, AbortCall(p, a) \/ AbortCallFails(p, a)
      PROVE  CallTypeOK'
  BY <1>0, <1>9 DEF AbortCall, AbortCallFails, DeleteAtServer, CallTypeOK, vars, workerVars
<1>10. ASSUME NEW p \in Worker, MessagingStep(p) PROVE CallTypeOK'
  BY <1>0, <1>10, MessageKept DEF CallTypeOK
<1>11. ASSUME NEW p \in Worker, MessagingStop(p) \/ DeleteCallFails(p) \/ CrashCall(p)
       PROVE  CallTypeOK'
  <2>1. Reset(p) /\ ForgetCalls(p) /\ UNCHANGED <<server, errors, refused>>
    BY <1>11 DEF MessagingStop, IgnoreDuplicate, Complete, CreateConflict, WriteConflict,
       ClearConflict, DeleteCallFails, CrashCall, Crash, Ack, Fail
  <2>. QED
    BY <1>0, <2>1, StopType DEF CallTypeOK
<1>12. ASSUME NEW p \in Worker, RedeliverCall(p) PROVE CallTypeOK'
  BY <1>0, <1>12 DEF RedeliverCall, Redeliver, workerVars, CallTypeOK
<1>13. CASE UNCHANGED callVars
  BY <1>0, <1>13 DEF callVars, vars, workerVars, CallTypeOK
<1>. QED
  BY <1>1, <1>2, <1>3, <1>4, <1>5, <1>6, <1>7, <1>8, <1>9, <1>10, <1>11, <1>12, <1>13
  DEF CallNext, Pipeline, Fault

(* Every variable keeps its type.                                          *)
THEOREM CallTypeCorrect == CallSpec => []CallTypeOK
<1>1. CallInit => CallTypeOK
  BY InitType, CallIds DEF CallInit, CallTypeOK
<1>2. CallTypeOK /\ [CallNext]_callVars => CallTypeOK'
  BY CallTypes
<1>. QED
  BY <1>1, <1>2, PTL DEF CallSpec

-----------------------------------------------------------------------------
(* The invariant of Messaging holds with calls, too.                       *)

(* A call is registered: a side effect that no message is compared with.   *)
LEMMA RegisterInv ==
  ASSUME TypeOK, NEW lost, SoundBut(lost), NEW p \in Worker, Register(p)
  PROVE  SoundBut(lost)'
<1>. USE DEF SoundBut
<1>1. /\ p \in current /\ pc[p] = "capture" /\ att[p] \in Attempt
      /\ val' = [val EXCEPT ![p] = record'] /\ current' = {p} /\ created' = created
      /\ UNCHANGED <<account, blobs, queue, emitted, pc, msg, att, snapshot, outbox, discard>>
  BY RegisterEffect DEF storeVars, workerVars
<1>2. /\ record.messageId = None /\ record.attemptId = None /\ val[p] = record /\ created
      /\ record' = [record EXCEPT !.sideEffects = @ \cup {HttpRequest(att[p])}]
  BY <1>1, RegisterEffect DEF CurrentCopy, RecordSound, InTransaction
<1>3. /\ record'.messageId = None /\ record'.attemptId = None
      /\ record'.sideEffects = record.sideEffects \cup {HttpRequest(att[p])}
      /\ val \in [Worker -> Record] /\ record \in Record /\ current \subseteq Worker
  BY <1>2 DEF TypeOK, Record
<1>4. HttpRequest(att[p]) \notin Message /\ emitted \subseteq Message
  BY <1>1, CallIds DEF TypeOK
<1>5. \A n \in Message : InTransit(n)' = InTransit(n)
  BY <1>1 DEF InTransit
<1>6. CurrentCopy'
  BY <1>1, <1>2, <1>3 DEF CurrentCopy
<1>7. WorkerMessage' /\ AttemptsUnique' /\ AppliedAtMostOnce' /\ TokenUntilApplied'
  BY <1>1 DEF WorkerMessage, AttemptsUnique, AppliedAtMostOnce, TokenUntilApplied
<1>8. RecordSound'
  <2>1. AbortedSideEffects(record) = record.sideEffects
    BY <1>2, <1>3, FreeAborted
  <2>. QED
    BY <1>1, <1>3, <1>4, <2>1 DEF RecordSound, AbortedSideEffects, InTransaction
<1>9. AttemptsSound'
  <2>. SUFFICES ASSUME NEW q \in Worker PROVE AttemptSound(q)'
    BY DEF AttemptsSound
  <2>1. AttemptSound(q)
    BY DEF AttemptsSound
  <2>2. CASE q = p
    <3>1. Own(q)' = Own(q)
      BY <1>1, <1>2, <1>3, <1>4, <2>2, MessageParts DEF Own
    <3>2. val'[q].messageId = None
      BY <1>1, <1>3, <2>2
    <3>. QED
      BY <1>1, <2>1, <2>2, <3>1, <3>2 DEF AttemptSound, Attempting, InTransaction
  <2>3. CASE q # p
    BY <1>1, <1>3, <2>1, <2>3 DEF AttemptSound, Attempting, InTransaction, Own
  <2>. QED
    BY <2>2, <2>3
<1>10. FinishersSound(lost)'
  <2>. SUFFICES ASSUME NEW q \in Worker, Finishing(q)' PROVE FinisherSound(q, lost)'
    BY DEF FinishersSound
  <2>1. Finishing(q) /\ FinisherSound(q, lost) /\ q # p
    BY <1>1 DEF FinishersSound, Finishing
  <2>2. val'[q] = val[q] /\ q \notin current'
    BY <1>1, <1>3, <2>1
  <2>3. val[q].messageId \in Message \cup {None}
    BY <1>3 DEF Record
  <2>. QED
    BY <1>1, <1>5, <2>1, <2>2, MessageParts DEF FinisherSound, Attempting, InTransaction,
       CommittedSideEffects, AbortedSideEffects
<1>11. DataSound'
  BY <1>1, <1>2, <1>3 DEF DataSound
<1>12. NoneLostBut(lost)'
  BY <1>1, <1>2, <1>4, <1>5 DEF NoneLostBut, InTransaction
<1>. QED
  BY <1>6, <1>7, <1>8, <1>9, <1>10, <1>11, <1>12

(* What may be lost may be more, or be applied in the end.                 *)
LEMMA Weaken ==
  ASSUME TypeOK, NEW lost, SoundBut(lost), NEW more, lost \subseteq more
  PROVE  SoundBut(more)
<1>1. FinishersSound(more)
  BY DEF SoundBut, FinishersSound, FinisherSound
<1>2. NoneLostBut(more)
  BY DEF SoundBut, NoneLostBut
<1>. QED
  BY <1>1, <1>2 DEF SoundBut

LEMMA WeakenNext ==
  ASSUME NEW lost, SoundBut(lost)',
         \A m \in lost : m \in emitted' => m \in Declined' \/ account'[m] > 0
  PROVE  SoundBut(Declined)'
<1>1. FinishersSound(Declined)'
  <2>. SUFFICES ASSUME NEW p \in Worker, Finishing(p)' PROVE FinisherSound(p, Declined)'
    BY DEF FinishersSound
  <2>1. FinisherSound(p, lost)'
    BY DEF SoundBut, FinishersSound
  <2>. QED
    BY <2>1, MessageParts DEF FinisherSound
<1>2. NoneLostBut(Declined)'
  BY DEF SoundBut, NoneLostBut
<1>. QED
  BY <1>1, <1>2 DEF SoundBut

(* A POST comes of a sent follow-up message.                               *)
LEMMA PostedSent ==
  ASSUME CallTypeOK, CallInv, NEW p \in Worker, http[p] # "none"
  PROVE  /\ msg[p] \in emitted /\ msg[p] = FollowUpOf(msg[p].attemptId)
         /\ msg[p].attemptId \in Attempt /\ msg[p] \in OutgoingMessage /\ msg[p] \in Message
         /\ pc[p] # "idle"
<1>1. IsFollowUp(msg[p])
  BY DEF CallTypeOK
<1>2. pc[p] # "idle"
  BY <1>1, CallIds DEF CallTypeOK, TypeOK
<1>3. msg[p] \in emitted
  BY <1>2 DEF CallInv, SoundBut, WorkerMessage
<1>. QED
  BY <1>1, <1>2, <1>3, CallIds

(* A DELETE comes after the message was applied.                           *)
LEMMA DeleteApplied ==
  ASSUME CallTypeOK, CallInv, NEW p \in Worker, DeleteCall(p)
  PROVE  account[msg[p]] > 0
<1>1. msg[p] \in emitted /\ msg[p] \in Message
  BY PostedSent DEF DeleteCall
<1>2. pc[p] = "ack" \/ msg[p] \notin blobs
  BY DEF DeleteCall, Returned
<1>3. account[msg[p]] \in Nat
  BY <1>1 DEF CallTypeOK, TypeOK
<1>. QED
  BY <1>1, <1>2, <1>3 DEF CallInv, SoundBut, DataSound, TokenUntilApplied

(* The calls that a finisher aborts are of attempts that never commit.     *)
LEMMA AbortedNotSent ==
  ASSUME CallTypeOK, CallInv, NEW p \in Worker, NEW a \in aborts[p]
  PROVE  /\ FollowUpOf(a) \notin emitted /\ a \in Attempt
         /\ \A q \in current : Attempting(q) => att[q] # a
<1>1. FinisherCallsSound(p) /\ a \in Attempt
  BY DEF CallInv, CallsSound, FinishersCallsSound, Finishing, CallTypeOK
<1>2. HttpRequest(a) \in AbortedSideEffects(val[p]) /\ HttpRequest(a).attemptId = a
  BY <1>1, CallIds DEF FinisherCallsSound
<1>3. FollowUpOf(a) \notin emitted
  BY <1>1, <1>2, CallIds DEF FinisherCallsSound, AbortedForGood
<1>. QED
  BY <1>1, <1>2, <1>3 DEF FinisherCallsSound

(* The server answers a declined call the same way, until it is deleted.   *)
LEMMA DeclinedKept ==
  ASSUME CallTypeOK, CallInv, [CallNext]_callVars, NEW m \in Declined, m \in emitted'
  PROVE  m \in Declined' \/ account'[m] > 0
<1>. DEFINE a == m.attemptId
<1>1. m \in errors /\ server[a] = "declined" /\ a \in Attempt /\ m = FollowUpOf(a)
  BY CallIds DEF Declined, CallInv
<1>2. ASSUME errors \subseteq errors', server'[a] = server[a] PROVE m \in Declined'
  BY <1>1, <1>2 DEF Declined
<1>. USE DEF httpVars
<1>3. ASSUME NEW p \in Worker, PostAccepted(p) PROVE m \in Declined'
  <2>1. server'[a] = server[a] /\ errors' = errors
    BY <1>1, <1>3 DEF PostAccepted, CallTypeOK
  <2>. QED
    BY <1>2, <2>1
<1>4. ASSUME NEW p \in Worker, PostDeclined(p) \/ PostRefused(p) PROVE m \in Declined'
  <2>1. server'[a] = "declined" /\ errors \subseteq errors'
    BY <1>1, <1>4 DEF PostDeclined, PostRefused, ClientFault, CallTypeOK
  <2>. QED
    BY <1>1, <1>2, <2>1
<1>5. ASSUME NEW p \in Worker, DeleteCall(p) PROVE m \in Declined' \/ account'[m] > 0
  <2>1. CASE a = msg[p].attemptId
    <3>1. http[p] # "none" /\ account' = account
      BY <1>5 DEF DeleteCall, vars, storeVars
    <3>. QED
      BY <1>1, <1>5, <2>1, <3>1, PostedSent, DeleteApplied
  <2>2. CASE a # msg[p].attemptId
    <3>1. server'[a] = server[a] /\ errors' = errors
      BY <1>1, <1>5, <2>2 DEF DeleteCall, DeleteAtServer, CallTypeOK
    <3>. QED
      BY <1>2, <3>1
  <2>. QED
    BY <2>1, <2>2
<1>6. ASSUME NEW p \in Worker, Put(p) PROVE m \in Declined'
  <2>1. server'[a] = server[a] /\ errors' = errors
    BY <1>1, <1>6 DEF Put, PutDue, CallTypeOK
  <2>. QED
    BY <1>2, <2>1
<1>7. ASSUME NEW p \in Worker, NEW b \in Attempt, AbortCall(p, b) PROVE m \in Declined'
  <2>1. emitted' = emitted /\ b \in aborts[p]
    BY <1>7 DEF AbortCall, vars, storeVars
  <2>2. a # b
    BY <1>1, <2>1, AbortedNotSent
  <2>3. server'[a] = server[a] /\ errors' = errors
    BY <1>1, <1>7, <2>2 DEF AbortCall, DeleteAtServer, CallTypeOK
  <2>. QED
    BY <1>2, <2>3
<1>8. ASSUME NEW p \in Worker,
             \/ LoadBody(p) \/ Register(p) \/ BeginAborts(p) \/ MessagingStep(p)
             \/ MessagingStop(p) \/ DeleteCallFails(p) \/ CrashCall(p) \/ RedeliverCall(p)
             \/ (\E n \in Message : Deliver(p, n)) \/ \E b \in Attempt : AbortCallFails(p, b)
      PROVE  m \in Declined'
  <2>1. server' = server /\ errors' = errors
    BY <1>8 DEF LoadBody, Register, BeginAborts, MessagingStep, MessagingStop, DeleteCallFails,
       CrashCall, RedeliverCall, Deliver, AbortCallFails
  <2>. QED
    BY <1>2, <2>1
<1>9. CASE UNCHANGED callVars
  BY <1>2, <1>9 DEF callVars
<1>. QED
  BY <1>3, <1>4, <1>5, <1>6, <1>7, <1>8, <1>9 DEF CallNext, Pipeline, Fault

(* A message that is given up was declined, or was applied before.         *)
LEMMA FaultSound ==
  ASSUME CallTypeOK, CallInv, NEW p \in Worker, PostDeclined(p) \/ PostRefused(p),
         NEW lost, SoundBut(lost),
         \A m \in lost : m \in emitted' => m \in Declined' \/ account'[m] > 0
  PROVE  SoundBut(Declined)'
<1>1. /\ msg[p] \in emitted /\ msg[p] = FollowUpOf(msg[p].attemptId)
      /\ msg[p].attemptId \in Attempt /\ msg[p] \in Message /\ pc[p] # "idle"
  BY PostedSent DEF PostDeclined, PostRefused
<1>2. /\ Reset(p) /\ queue' = queue /\ TypeOK
      /\ emitted' = emitted /\ account' = account /\ queue \subseteq emitted
      /\ errors' = errors \cup {msg[p]}
  BY DEF PostDeclined, PostRefused, ClientFault, Ack, Reset, CallTypeOK, CallInv, SoundBut,
     WorkerMessage
<1>3. PICK more : more = lost \cup {msg[p]}
  OBVIOUS
<1>4. SoundBut(more)
  BY <1>2, <1>3, Weaken
<1>5. SoundBut(more)'
  BY <1>1, <1>2, <1>3, <1>4, ResetInv
<1>6. msg[p] \in Declined' \/ account'[msg[p]] > 0
  <2>1. CASE PostDeclined(p)
    BY <1>1, <1>2, <2>1 DEF PostDeclined, Declined, CallTypeOK
  <2>2. CASE PostRefused(p)
    <3>1. server[msg[p].attemptId] \in {"none", "deleted"}
      BY <2>2 DEF PostRefused
    <3>2. account[msg[p]] # 0 /\ account[msg[p]] \in Nat
      BY <1>1, <1>2, <3>1 DEF CallInv, CallsSound, CommittedCallKept, Executed, TypeOK
    <3>. QED
      BY <1>2, <3>2
  <2>. QED
    BY <2>1, <2>2
<1>. QED
  BY <1>3, <1>5, <1>6, WeakenNext

LEMMA MessagesSound ==
  ASSUME CallTypeOK, CallInv, [CallNext]_callVars
  PROVE  SoundBut(Declined)'
<1>1. PICK lost : lost = Declined
  OBVIOUS
<1>2. SoundBut(lost) /\ TypeOK
  BY <1>1 DEF CallInv, CallTypeOK
<1>3. \A m \in lost : m \in emitted' => m \in Declined' \/ account'[m] > 0
  BY <1>1, DeclinedKept
<1>4. CASE [Next]_vars
  BY <1>2, <1>3, <1>4, StepInv, WeakenNext
<1>5. ASSUME NEW p \in Worker, Register(p) PROVE SoundBut(Declined)'
  BY <1>2, <1>3, <1>5, RegisterInv, WeakenNext
<1>6. ASSUME NEW p \in Worker, PostDeclined(p) \/ PostRefused(p) PROVE SoundBut(Declined)'
  BY <1>2, <1>3, <1>6, FaultSound
<1>. QED
  BY <1>4, <1>5, <1>6, StepKinds

-----------------------------------------------------------------------------
(* The side effects, the finishers and the attempts, step by step.         *)

ServerKept ==
  \A q \in current : Attempting(q) => server'[att[q]] \in {server[att[q]], "stored"}

(* No copy of the record changes, and nobody begins to finish or attempt.  *)
LEMMA QuietCalls ==
  ASSUME CallTypeOK, CallInv, ServerKept,
         UNCHANGED <<record, val, current, emitted>>,
         \A q \in Worker :
            /\ Finishing(q)' => Finishing(q)
            /\ Attempting(q)' => Attempting(q) /\ att'[q] = att[q]
            /\ aborts'[q] \subseteq aborts[q]
            /\ pc[q] = "clear" => pc'[q] = "clear"
  PROVE  RecordCallsSound' /\ FinishersCallsSound' /\ AttemptsCallsSound'
<1>. USE DEF CallInv, CallsSound
<1>1. RecordCallsSound'
  BY DEF RecordCallsSound, AbortedForGood, AbortedSideEffects
<1>2. FinishersCallsSound'
  BY DEF FinishersCallsSound, FinisherCallsSound, AbortedForGood, AbortedSideEffects,
     CallTypeOK, TypeOK
<1>3. AttemptsCallsSound'
  BY DEF AttemptsCallsSound, AttemptCallSound, ServerKept, CallTypeOK, TypeOK
<1>. QED
  BY <1>1, <1>2, <1>3

(* A worker stops.                                                         *)
LEMMA StopCalls ==
  ASSUME CallTypeOK, CallInv, ServerKept, NEW p \in Worker, Reset(p), ForgetCalls(p)
  PROVE  RecordCallsSound' /\ FinishersCallsSound' /\ AttemptsCallsSound'
<1>. USE DEF CallInv, CallsSound
<1>1. /\ record' = record /\ val' = [val EXCEPT ![p] = EmptyRecord]
      /\ current' = current \ {p} /\ emitted' = emitted
      /\ pc' = [pc EXCEPT ![p] = "idle"] /\ att' = [att EXCEPT ![p] = None]
      /\ aborts' = [aborts EXCEPT ![p] = {}]
  BY DEF Reset, Forget, ForgetCalls
<1>2. /\ val \in [Worker -> Record] /\ pc \in [Worker -> Stage] /\ att \in [Worker -> Guid]
      /\ aborts \in [Worker -> SUBSET Attempt] /\ current \subseteq Worker
  BY DEF CallTypeOK, TypeOK
<1>3. RecordCallsSound'
  BY <1>1 DEF RecordCallsSound, AbortedForGood, AbortedSideEffects
<1>4. \A q \in Worker : Finishing(q)' \/ Attempting(q)' =>
        q # p /\ (Finishing(q) \/ Attempting(q))
  BY <1>1, <1>2 DEF Finishing, Attempting
<1>5. FinishersCallsSound'
  BY <1>1, <1>2, <1>4 DEF FinishersCallsSound, FinisherCallsSound, AbortedForGood,
     AbortedSideEffects, Finishing, Attempting
<1>6. AttemptsCallsSound'
  BY <1>1, <1>2, <1>4 DEF AttemptsCallsSound, AttemptCallSound, ServerKept, Attempting
<1>. QED
  BY <1>3, <1>5, <1>6

(* A call is registered.                                                   *)
LEMMA RegisterCalls ==
  ASSUME CallTypeOK, CallInv, NEW p \in Worker, Register(p)
  PROVE  RecordCallsSound' /\ FinishersCallsSound' /\ AttemptsCallsSound'
<1>. USE DEF CallInv, CallsSound
<1>1. /\ p \in current /\ pc[p] = "capture" /\ att[p] \in Attempt
      /\ record' = [val[p] EXCEPT !.sideEffects = @ \cup {HttpRequest(att[p])}]
      /\ val' = [val EXCEPT ![p] = record'] /\ current' = {p}
      /\ UNCHANGED <<emitted, pc, att, aborts, server>>
  BY RegisterEffect DEF CallTypeOK, storeVars, workerVars, httpVars
<1>2. /\ val \in [Worker -> Record] /\ pc \in [Worker -> Stage] /\ att \in [Worker -> Guid]
      /\ aborts \in [Worker -> SUBSET Attempt] /\ current \subseteq Worker /\ record \in Record
  BY DEF CallTypeOK, TypeOK
<1>3. /\ val[p] = record /\ record.attemptId = None /\ record.messageId = None
  BY <1>1 DEF SoundBut, CurrentCopy, RecordSound, InTransaction, AttemptsSound, AttemptSound,
     Attempting
<1>4. AbortedSideEffects(record) = record.sideEffects
  BY <1>2, <1>3, FreeAborted
<1>5. record'.sideEffects = record.sideEffects \cup {HttpRequest(att[p])}
  BY <1>1, <1>2, <1>3 DEF Record
<1>6. RecordCallsSound'
  <2>1. \A m \in emitted \cap OutgoingMessage : m.attemptId # att[p]
    BY DEF SoundBut, AttemptsUnique
  <2>. QED
    BY <1>1, <1>4, <1>5, <2>1, CallIds DEF RecordCallsSound, AbortedForGood, AbortedSideEffects
<1>7. FinishersCallsSound'
  BY <1>1, <1>2 DEF FinishersCallsSound, FinisherCallsSound, AbortedForGood,
     AbortedSideEffects, Finishing, Attempting
<1>8. AttemptsCallsSound'
  BY <1>1, <1>2, <1>3, <1>5, CallIds DEF AttemptsCallsSound, AttemptCallSound, Attempting
<1>. QED
  BY <1>6, <1>7, <1>8

(* A free record is read.                                                  *)
LEMMA LoadFreeCalls ==
  ASSUME CallTypeOK, CallInv, NEW p \in Worker, LoadFree(p) /\ UNCHANGED httpVars
  PROVE  RecordCallsSound' /\ FinishersCallsSound' /\ AttemptsCallsSound'
<1>. USE DEF CallInv, CallsSound
<1>1. /\ pc[p] = "load" /\ pc' = [pc EXCEPT ![p] = "checkExists"]
      /\ val' = [val EXCEPT ![p] = record] /\ current' = current \cup {p}
      /\ record' = record /\ UNCHANGED <<emitted, att, aborts, server>>
  BY DEF LoadFree, Read, CallTypeOK, TypeOK, storeVars, httpVars
<1>2. /\ val \in [Worker -> Record] /\ pc \in [Worker -> Stage] /\ att \in [Worker -> Guid]
      /\ aborts \in [Worker -> SUBSET Attempt] /\ current \subseteq Worker /\ record \in Record
  BY DEF CallTypeOK, TypeOK
<1>3. RecordCallsSound'
  BY <1>1 DEF RecordCallsSound, AbortedForGood, AbortedSideEffects
<1>4. FinishersCallsSound'
  BY <1>1, <1>2 DEF FinishersCallsSound, FinisherCallsSound, AbortedForGood,
     AbortedSideEffects, Finishing, Attempting
<1>5. AttemptsCallsSound'
  BY <1>1, <1>2 DEF AttemptsCallsSound, AttemptCallSound, Attempting
<1>. QED
  BY <1>3, <1>4, <1>5

(* A transaction is found in the record, and taken over.                   *)
LEMMA LoadUnfinishedCalls ==
  ASSUME CallTypeOK, CallInv, NEW p \in Worker, LoadUnfinished(p) /\ UNCHANGED httpVars
  PROVE  RecordCallsSound' /\ FinishersCallsSound' /\ AttemptsCallsSound'
<1>. USE DEF CallInv, CallsSound
<1>1. /\ pc[p] = "load" /\ pc' = [pc EXCEPT ![p] = "publish"]
      /\ val' = [val EXCEPT ![p] = record] /\ current' = current \cup {p}
      /\ record' = record /\ InTransaction(record) /\ UNCHANGED <<emitted, att, aborts, server>>
  BY DEF LoadUnfinished, BeginFinish, Read, CallTypeOK, TypeOK, storeVars, httpVars
<1>2. /\ val \in [Worker -> Record] /\ pc \in [Worker -> Stage] /\ att \in [Worker -> Guid]
      /\ aborts \in [Worker -> SUBSET Attempt] /\ current \subseteq Worker /\ record \in Record
  BY DEF CallTypeOK, TypeOK
<1>3. RecordCallsSound'
  BY <1>1 DEF RecordCallsSound, AbortedForGood, AbortedSideEffects
<1>4. FinishersCallsSound'
  <2>1. \A q \in current' : ~Attempting(q)'
    BY <1>1, <1>2 DEF SoundBut, CurrentCopy, AttemptsSound, AttemptSound, Attempting
  <2>2. aborts'[p] = {}
    BY <1>1 DEF FinishersCallsSound
  <2>. SUFFICES ASSUME NEW q \in Worker, Finishing(q)' PROVE FinisherCallsSound(q)'
    BY <1>1, <1>2 DEF FinishersCallsSound
  <2>3. CASE q = p
    BY <1>1, <1>2, <2>1, <2>2, <2>3 DEF FinisherCallsSound, RecordCallsSound, AbortedForGood,
       AbortedSideEffects
  <2>4. CASE q # p
    BY <1>1, <1>2, <2>1, <2>4 DEF FinishersCallsSound, FinisherCallsSound, Finishing,
       AbortedForGood, AbortedSideEffects
  <2>. QED
    BY <2>3, <2>4
<1>5. AttemptsCallsSound'
  BY <1>1, <1>2 DEF AttemptsCallsSound, AttemptCallSound, Attempting
<1>. QED
  BY <1>3, <1>4, <1>5

(* The record is created.                                                  *)
LEMMA CreateRecordCalls ==
  ASSUME CallTypeOK, CallInv, NEW p \in Worker, CreateRecord(p) /\ UNCHANGED httpVars
  PROVE  RecordCallsSound' /\ FinishersCallsSound' /\ AttemptsCallsSound'
<1>. USE DEF CallInv, CallsSound
<1>1. /\ pc[p] = "create" /\ pc' = [pc EXCEPT ![p] = "checkExists"]
      /\ val' = [val EXCEPT ![p] = EmptyRecord] /\ current' = {p}
      /\ record' = record /\ UNCHANGED <<emitted, att, aborts, server>>
  BY DEF CreateRecord, Create, CallTypeOK, TypeOK, storeVars, httpVars, SoundBut, CurrentCopy
<1>2. /\ val \in [Worker -> Record] /\ pc \in [Worker -> Stage] /\ att \in [Worker -> Guid]
      /\ aborts \in [Worker -> SUBSET Attempt] /\ current \subseteq Worker /\ record \in Record
  BY DEF CallTypeOK, TypeOK
<1>3. RecordCallsSound'
  BY <1>1 DEF RecordCallsSound, AbortedForGood, AbortedSideEffects
<1>4. FinishersCallsSound'
  BY <1>1, <1>2 DEF FinishersCallsSound, FinisherCallsSound, AbortedForGood,
     AbortedSideEffects, Finishing, Attempting
<1>5. AttemptsCallsSound'
  BY <1>1, <1>2 DEF AttemptsCallsSound, AttemptCallSound, Attempting
<1>. QED
  BY <1>3, <1>4, <1>5

(* An attempt begins.                                                      *)
LEMMA BeginAttemptCalls ==
  ASSUME CallTypeOK, CallInv, NEW p \in Worker, BeginAttempt(p) /\ UNCHANGED httpVars
  PROVE  RecordCallsSound' /\ FinishersCallsSound' /\ AttemptsCallsSound'
<1>. USE DEF CallInv, CallsSound
<1>1. /\ pc[p] = "checkExists" /\ pc' = [pc EXCEPT ![p] = "handle"]
      /\ UNCHANGED <<record, val, current, emitted, aborts, server>>
  BY DEF BeginAttempt, CheckExists, CallTypeOK, TypeOK, recordVars, storeVars, httpVars
<1>2. /\ val \in [Worker -> Record] /\ pc \in [Worker -> Stage] /\ att \in [Worker -> Guid]
      /\ aborts \in [Worker -> SUBSET Attempt] /\ current \subseteq Worker /\ record \in Record
  BY DEF CallTypeOK, TypeOK
<1>3. PICK a \in Attempt : Unused(a) /\ att' = [att EXCEPT ![p] = a] /\ server[a] = "none"
  BY <1>2 DEF BeginAttempt, CheckExists
<1>4. \A q \in Worker : \A e \in val[q].sideEffects : e.attemptId # a
  BY <1>3 DEF Unused
<1>5. RecordCallsSound'
  BY <1>1 DEF RecordCallsSound, AbortedForGood, AbortedSideEffects
<1>6. FinishersCallsSound'
  BY <1>1, <1>2, <1>3, <1>4 DEF FinishersCallsSound, FinisherCallsSound, AbortedForGood,
     AbortedSideEffects, Finishing, Attempting
<1>7. AttemptsCallsSound'
  <2>1. FollowUpOf(att'[p]) \notin val[p].sideEffects
    BY <1>2, <1>3, <1>4, CallIds
  <2>. QED
    BY <1>1, <1>2, <1>3, <2>1 DEF AttemptsCallsSound, AttemptCallSound, Attempting
<1>. QED
  BY <1>5, <1>6, <1>7

(* The messages are registered, the follow-up message after the PUT.       *)
LEMMA CaptureOutgoingCalls ==
  ASSUME CallTypeOK, CallInv, NEW p \in Worker,
         CallDone(p) /\ CaptureOutgoing(p) /\ UNCHANGED httpVars
  PROVE  RecordCallsSound' /\ FinishersCallsSound' /\ AttemptsCallsSound'
<1>. USE DEF CallInv, CallsSound
<1>1. /\ p \in current /\ pc[p] = "capture" /\ pc' = [pc EXCEPT ![p] = "upload"]
      /\ record' = [val[p] EXCEPT !.sideEffects = @ \cup outbox[p]]
      /\ val' = [val EXCEPT ![p] = record'] /\ current' = {p}
      /\ UNCHANGED <<emitted, att, aborts, server>>
  BY DEF CaptureOutgoing, AddSideEffects, Replace, EtagMatches, CallTypeOK, TypeOK, storeVars,
     httpVars
<1>2. /\ val \in [Worker -> Record] /\ pc \in [Worker -> Stage] /\ att \in [Worker -> Guid]
      /\ aborts \in [Worker -> SUBSET Attempt] /\ current \subseteq Worker /\ record \in Record
  BY DEF CallTypeOK, TypeOK
<1>3. /\ val[p] = record /\ record.attemptId = None /\ record.messageId = None
  BY <1>1 DEF SoundBut, CurrentCopy, RecordSound, InTransaction, AttemptsSound, AttemptSound,
     Attempting
<1>4. AbortedSideEffects(record) = record.sideEffects
  BY <1>2, <1>3, FreeAborted
<1>5. record'.sideEffects = record.sideEffects \cup outbox[p]
  BY <1>1, <1>2, <1>3 DEF Record
<1>6. RecordCallsSound'
  <2>1. \A m \in emitted \cap OutgoingMessage : m.attemptId # att[p]
    BY DEF SoundBut, AttemptsUnique
  <2>2. \A e \in outbox[p] : e.attemptId = att[p]
    BY <1>1 DEF SoundBut, AttemptsSound, AttemptSound
  <2>. QED
    BY <1>1, <1>4, <1>5, <2>1, <2>2 DEF RecordCallsSound, AbortedForGood, AbortedSideEffects
<1>7. FinishersCallsSound'
  BY <1>1, <1>2 DEF FinishersCallsSound, FinisherCallsSound, AbortedForGood,
     AbortedSideEffects, Finishing, Attempting
<1>8. AttemptsCallsSound'
  <2>1. AttemptCallSound(p)
    BY <1>1 DEF AttemptsCallsSound, Attempting
  <2>2. FollowUpOf(att[p]) \in outbox[p] => server[att[p]] # "none"
    BY <1>1 DEF CallDone, Calls
  <2>. QED
    BY <1>1, <1>2, <1>3, <1>5, <2>1, <2>2 DEF AttemptsCallsSound, AttemptCallSound
<1>. QED
  BY <1>6, <1>7, <1>8

(* The attempts that the commit finds aborted will never commit.           *)
LEMMA CommitCalls ==
  ASSUME CallTypeOK, CallInv, NEW p \in Worker, Commit(p) /\ UNCHANGED httpVars
  PROVE  RecordCallsSound' /\ FinishersCallsSound' /\ AttemptsCallsSound'
<1>. USE DEF CallInv, CallsSound
<1>1. /\ p \in current /\ pc[p] = "upload" /\ pc' = [pc EXCEPT ![p] = "publish"]
      /\ UNCHANGED <<aborts, server>>
  BY DEF Commit, CommitStateTransition, Replace, EtagMatches, BeginFinish, CallTypeOK, TypeOK,
     httpVars
<1>2. /\ val \in [Worker -> Record] /\ pc \in [Worker -> Stage] /\ att \in [Worker -> Guid]
      /\ aborts \in [Worker -> SUBSET Attempt] /\ current \subseteq Worker /\ record \in Record
  BY DEF CallTypeOK, TypeOK
<1>3. /\ record.attemptId = None
      /\ record'.attemptId = att[p] /\ record'.sideEffects = record.sideEffects
      /\ val' = [val EXCEPT ![p] = record'] /\ current' = {p} /\ emitted' = emitted \cup Own(p)
  BY CommitEffect DEF CallTypeOK
<1>4. AbortedSideEffects(record) = record.sideEffects
  BY <1>2, <1>3, FreeAborted
<1>5. \A e \in AbortedSideEffects(record') : e \in record.sideEffects /\ e.attemptId # att[p]
  BY <1>3 DEF AbortedSideEffects
<1>6. \A m \in Own(p) : m.attemptId = att[p]
  BY DEF Own
<1>7. RecordCallsSound'
  BY <1>3, <1>4, <1>5, <1>6 DEF RecordCallsSound, AbortedForGood, AbortedSideEffects
<1>8. FinishersCallsSound'
  <2>1. \A q \in current' : ~Attempting(q)'
    BY <1>1, <1>2, <1>3 DEF Attempting
  <2>2. aborts'[p] = {}
    BY <1>1 DEF FinishersCallsSound
  <2>. SUFFICES ASSUME NEW q \in Worker, Finishing(q)' PROVE FinisherCallsSound(q)'
    BY <1>1, <1>2 DEF FinishersCallsSound
  <2>3. CASE q = p
    BY <1>7, <1>2, <1>3, <2>1, <2>2, <2>3 DEF FinisherCallsSound, RecordCallsSound, AbortedForGood
  <2>4. CASE q # p
    <3>1. FinisherCallsSound(q) /\ val'[q] = val[q] /\ aborts'[q] = aborts[q]
      BY <1>1, <1>2, <1>3, <2>4 DEF FinishersCallsSound, Finishing
    <3>2. \A e \in AbortedSideEffects(val[q]) : e.attemptId # att[p]
      BY <1>1, <3>1 DEF FinisherCallsSound, Attempting
    <3>. QED
      BY <1>3, <1>6, <2>1, <3>1, <3>2 DEF FinisherCallsSound, AbortedForGood, AbortedSideEffects
  <2>. QED
    BY <2>3, <2>4
<1>9. AttemptsCallsSound'
  BY <1>1, <1>2, <1>3 DEF AttemptsCallsSound, AttemptCallSound, Attempting
<1>. QED
  BY <1>7, <1>8, <1>9

(* The token is deleted; the calls of aborted attempts are next.           *)
LEMMA BeginAbortsCalls ==
  ASSUME CallTypeOK, CallInv, NEW p \in Worker, BeginAborts(p)
  PROVE  RecordCallsSound' /\ FinishersCallsSound' /\ AttemptsCallsSound'
<1>. USE DEF CallInv, CallsSound
<1>1. /\ pc[p] = "publish" /\ pc' = [pc EXCEPT ![p] = "clear"]
      /\ aborts' = [aborts EXCEPT ![p] =
                      {e.attemptId : e \in AbortedSideEffects(val[p]) \cap HttpRequests}]
      /\ UNCHANGED <<record, val, current, emitted, att, server>>
  BY DEF BeginAborts, DeleteToken, CallTypeOK, TypeOK, recordVars
<1>2. /\ val \in [Worker -> Record] /\ pc \in [Worker -> Stage] /\ att \in [Worker -> Guid]
      /\ aborts \in [Worker -> SUBSET Attempt] /\ current \subseteq Worker /\ record \in Record
  BY DEF CallTypeOK, TypeOK
<1>3. RecordCallsSound'
  BY <1>1 DEF RecordCallsSound, AbortedForGood, AbortedSideEffects
<1>4. FinishersCallsSound'
  <2>1. \A a \in aborts'[p] : HttpRequest(a) \in AbortedSideEffects(val[p])
    BY <1>1, <1>2, CallIds DEF HttpRequests
  <2>. QED
    BY <1>1, <1>2, <2>1 DEF FinishersCallsSound, FinisherCallsSound, AbortedForGood,
       AbortedSideEffects, Finishing, Attempting
<1>5. AttemptsCallsSound'
  BY <1>1, <1>2 DEF AttemptsCallsSound, AttemptCallSound, Attempting
<1>. QED
  BY <1>3, <1>4, <1>5

(* The record is cleared, when all calls of aborted attempts are deleted.  *)
LEMMA ClearCalls ==
  ASSUME CallTypeOK, CallInv, NEW p \in Worker, aborts[p] = {} /\ Clear(p) /\ UNCHANGED httpVars
  PROVE  RecordCallsSound' /\ FinishersCallsSound' /\ AttemptsCallsSound'
<1>. USE DEF CallInv, CallsSound
<1>1. /\ pc[p] = "clear" /\ pc'[p] \in {"ack", "checkExists"}
      /\ \A q \in Worker \ {p} : pc'[q] = pc[q]
      /\ record' = EmptyRecord /\ val' = [val EXCEPT ![p] = EmptyRecord] /\ current' = {p}
      /\ aborts[p] = {} /\ UNCHANGED <<emitted, att, aborts, server>>
  BY DEF Clear, ClearTransactionState, Replace, CallTypeOK, TypeOK, storeVars, httpVars
<1>2. /\ val \in [Worker -> Record] /\ pc \in [Worker -> Stage] /\ att \in [Worker -> Guid]
      /\ aborts \in [Worker -> SUBSET Attempt] /\ current \subseteq Worker /\ record \in Record
  BY DEF CallTypeOK, TypeOK
<1>3. RecordCallsSound'
  BY <1>1 DEF RecordCallsSound, AbortedForGood, AbortedSideEffects, EmptyRecord
<1>4. FinishersCallsSound'
  BY <1>1, <1>2 DEF FinishersCallsSound, FinisherCallsSound, AbortedForGood,
     AbortedSideEffects, Finishing, Attempting
<1>5. AttemptsCallsSound'
  BY <1>1, <1>2 DEF AttemptsCallsSound, AttemptCallSound, Attempting
<1>. QED
  BY <1>3, <1>4, <1>5


-----------------------------------------------------------------------------
(* What the steps do to the server.                                        *)

LEMMA OnlyCommitSends ==
  ASSUME [CallNext]_callVars, \A p \in Worker : ~Commit(p)
  PROVE  UNCHANGED <<account, emitted>>
<1>1. ASSUME NEW p \in Worker, Register(p) PROVE UNCHANGED <<account, emitted>>
  BY <1>1 DEF Register, storeVars
<1>2. ASSUME NEW p \in Worker, PostDeclined(p) \/ PostRefused(p)
      PROVE  UNCHANGED <<account, emitted>>
  BY <1>2 DEF PostDeclined, PostRefused, ClientFault, Ack, Reset
<1>. QED
  BY <1>1, <1>2, StepKinds, OnlyCommitApplies

(* What was sent or applied stays so.                                      *)
LEMMA DataKept ==
  ASSUME CallTypeOK, CallInv, [CallNext]_callVars
  PROVE  /\ emitted \subseteq emitted'
         /\ \A m \in Message : account[m] > 0 => account'[m] > 0
<1>1. ASSUME NEW p \in Worker, Commit(p)
      PROVE  /\ emitted \subseteq emitted'
             /\ \A m \in Message : account[m] > 0 => account'[m] > 0
  <2>1. /\ account' = [account EXCEPT ![msg[p]] = 1] /\ emitted' = emitted \cup Own(p)
        /\ account \in [Message -> Nat]
    BY <1>1, CommitEffect DEF CallInv, CallTypeOK, TypeOK
  <2>. QED
    BY <2>1
<1>. QED
  BY <1>1, OnlyCommitSends

(* A request is stored, is executed once its attempt has committed, and is *)
(* deleted when the follow-up message was applied, or when its attempt can *)
(* never commit.                                                           *)
LEMMA ServerChange ==
  ASSUME CallTypeOK, CallInv, [CallNext]_callVars, NEW a \in Attempt
  PROVE  \/ server'[a] = server[a]
         \/ /\ UNCHANGED <<account, emitted>>
            /\ \/ server[a] = "none" /\ server'[a] = "stored"
               \/ FollowUpOf(a) \in emitted /\ server'[a] \in {"accepted", "declined"}
               \/ /\ FollowUpOf(a) \in emitted /\ account[FollowUpOf(a)] > 0
                  /\ server'[a] = "deleted"
               \/ /\ FollowUpOf(a) \notin emitted /\ server'[a] = "deleted"
                  /\ \A q \in current : Attempting(q) => att[q] # a
<1>. USE DEF httpVars
<1>1. ASSUME NEW p \in Worker, PostAccepted(p) \/ PostDeclined(p), server'[a] # server[a]
      PROVE  /\ UNCHANGED <<account, emitted>>
             /\ FollowUpOf(a) \in emitted /\ server'[a] \in {"accepted", "declined"}
  <2>1. /\ msg[p] \in emitted /\ msg[p] = FollowUpOf(msg[p].attemptId)
        /\ msg[p].attemptId \in Attempt
    BY <1>1, PostedSent DEF PostAccepted, PostDeclined
  <2>2. UNCHANGED <<account, emitted>>
    BY <1>1 DEF PostAccepted, PostDeclined, ClientFault, Ack, Reset, vars, storeVars
  <2>3. a = msg[p].attemptId
    BY <1>1 DEF PostAccepted, PostDeclined, CallTypeOK
  <2>4. server'[a] \in {"accepted", "declined"}
    BY <1>1, <2>3 DEF PostAccepted, PostDeclined, CallTypeOK
  <2>. QED
    BY <2>1, <2>2, <2>3, <2>4
<1>2. ASSUME NEW p \in Worker, DeleteCall(p), server'[a] # server[a]
      PROVE  /\ UNCHANGED <<account, emitted>>
             /\ FollowUpOf(a) \in emitted /\ account[FollowUpOf(a)] > 0
             /\ server'[a] = "deleted"
  <2>1. /\ msg[p] \in emitted /\ msg[p] = FollowUpOf(msg[p].attemptId)
        /\ account[msg[p]] > 0 /\ UNCHANGED <<account, emitted>>
    BY <1>2, PostedSent, DeleteApplied DEF DeleteCall, vars, storeVars
  <2>2. a = msg[p].attemptId /\ server'[a] = "deleted"
    BY <1>2 DEF DeleteCall, DeleteAtServer, CallTypeOK
  <2>. QED
    BY <2>1, <2>2
<1>3. ASSUME NEW p \in Worker, Put(p), server'[a] # server[a]
      PROVE  UNCHANGED <<account, emitted>> /\ server[a] = "none" /\ server'[a] = "stored"
  BY <1>3 DEF Put, PutDue, CallTypeOK, vars, storeVars
<1>4. ASSUME NEW p \in Worker, NEW b \in Attempt, AbortCall(p, b), server'[a] # server[a]
      PROVE  /\ UNCHANGED <<account, emitted>>
             /\ FollowUpOf(a) \notin emitted /\ server'[a] = "deleted"
             /\ \A q \in current : Attempting(q) => att[q] # a
  <2>1. b \in aborts[p] /\ UNCHANGED <<account, emitted>>
    BY <1>4 DEF AbortCall, vars, storeVars
  <2>2. a = b /\ server'[a] = "deleted"
    BY <1>4 DEF AbortCall, DeleteAtServer, CallTypeOK
  <2>. QED
    BY <2>1, <2>2, AbortedNotSent
<1>5. ASSUME NEW p \in Worker,
             \/ LoadBody(p) \/ Register(p) \/ BeginAborts(p) \/ MessagingStep(p)
             \/ MessagingStop(p) \/ DeleteCallFails(p) \/ CrashCall(p) \/ RedeliverCall(p)
             \/ PostRefused(p)
             \/ (\E n \in Message : Deliver(p, n)) \/ \E b \in Attempt : AbortCallFails(p, b)
      PROVE  server' = server
  BY <1>5 DEF LoadBody, Register, BeginAborts, MessagingStep, MessagingStop, DeleteCallFails,
     CrashCall, RedeliverCall, PostRefused, Deliver, AbortCallFails
<1>6. CASE UNCHANGED callVars
  BY <1>6 DEF callVars
<1>. QED
  BY <1>1, <1>2, <1>3, <1>4, <1>5, <1>6 DEF CallNext, Pipeline, Fault

(* The calls of the attempts that still can commit are left alone.         *)
LEMMA AttemptsKept ==
  ASSUME CallTypeOK, CallInv, [CallNext]_callVars
  PROVE  ServerKept
<1>. SUFFICES ASSUME NEW q \in current, Attempting(q)
              PROVE  server'[att[q]] \in {server[att[q]], "stored"}
  BY DEF ServerKept
<1>1. q \in Worker /\ att[q] \in Attempt
  BY DEF CallTypeOK, TypeOK, Guid
<1>2. FollowUpOf(att[q]) \notin emitted
  BY <1>1, CallIds DEF CallInv, SoundBut, AttemptsUnique
<1>. QED
  BY <1>1, <1>2, ServerChange

(* Nothing is executed before its attempt has committed.                   *)
LEMMA ExecutedStep ==
  ASSUME CallTypeOK, CallInv, [CallNext]_callVars
  PROVE  ExecutedOnlyIfCommitted'
<1>. SUFFICES ASSUME NEW a \in Attempt, Executed(a)' PROVE FollowUpOf(a) \in emitted'
  BY DEF ExecutedOnlyIfCommitted
<1>1. emitted \subseteq emitted'
  BY DataKept
<1>2. CASE server'[a] = server[a]
  BY <1>1, <1>2 DEF CallInv, CallsSound, ExecutedOnlyIfCommitted, Executed
<1>3. CASE server'[a] # server[a]
  BY <1>1, <1>3, ServerChange DEF Executed
<1>. QED
  BY <1>2, <1>3

(* A committed request waits for its follow-up message: when the commit    *)
(* sends the message the PUT was done.                                     *)
LEMMA KeptStep ==
  ASSUME CallTypeOK, CallInv, [CallNext]_callVars
  PROVE  CommittedCallKept'
<1>. SUFFICES ASSUME NEW a \in Attempt,
                     FollowUpOf(a) \in emitted', account'[FollowUpOf(a)] = 0
              PROVE  server'[a] = "stored" \/ Executed(a)'
  BY DEF CommittedCallKept
<1>1. FollowUpOf(a) \in Message /\ account[FollowUpOf(a)] \in Nat
  BY CallIds, MessageParts DEF CallTypeOK, TypeOK
<1>2. account[FollowUpOf(a)] = 0
  BY <1>1, DataKept
<1>3. FollowUpOf(a) \in emitted => server[a] = "stored" \/ Executed(a)
  BY <1>2 DEF CallInv, CallsSound, CommittedCallKept
<1>4. CASE server'[a] # server[a]
  BY <1>2, <1>3, <1>4, ServerChange DEF Executed
<1>5. CASE server'[a] = server[a] /\ FollowUpOf(a) \in emitted
  BY <1>3, <1>5 DEF Executed
<1>6. CASE server'[a] = server[a] /\ FollowUpOf(a) \notin emitted
  <2>1. PICK p \in Worker : Commit(p)
    BY <1>6, OnlyCommitSends
  <2>2. p \in current /\ pc[p] = "upload" /\ emitted' = emitted \cup Own(p)
    BY <2>1, CommitEffect DEF Commit, CallInv, CallTypeOK
  <2>3. FollowUpOf(a) \in val[p].sideEffects /\ att[p] = a
    BY <1>6, <2>2, CallIds DEF Own
  <2>. QED
    BY <1>6, <2>2, <2>3 DEF CallInv, CallsSound, AttemptsCallsSound, AttemptCallSound, Attempting
<1>. QED
  BY <1>4, <1>5, <1>6

(* Only follow-up messages move to the error queue.                        *)
LEMMA ErrorsStep ==
  ASSUME CallTypeOK, CallInv, [CallNext]_callVars
  PROVE  \A m \in errors' : IsFollowUp(m)
<1>. USE DEF httpVars
<1>1. ASSUME NEW p \in Worker, PostDeclined(p) \/ PostRefused(p)
      PROVE  \A m \in errors' : IsFollowUp(m)
  <2>1. errors' = errors \cup {msg[p]} /\ http[p] # "none"
    BY <1>1 DEF PostDeclined, PostRefused, ClientFault
  <2>. QED
    BY <2>1 DEF CallTypeOK, CallInv
<1>2. ASSUME NEW p \in Worker,
             \/ LoadBody(p) \/ Register(p) \/ BeginAborts(p) \/ MessagingStep(p)
             \/ MessagingStop(p) \/ DeleteCallFails(p) \/ CrashCall(p) \/ RedeliverCall(p)
             \/ PostAccepted(p) \/ DeleteCall(p) \/ Put(p)
      PROVE  errors' = errors
  BY <1>2 DEF LoadBody, Register, BeginAborts, MessagingStep, MessagingStop, DeleteCallFails,
     CrashCall, RedeliverCall, PostAccepted, DeleteCall, Put
<1>3. ASSUME NEW p \in Worker, NEW n \in Message, Deliver(p, n) PROVE errors' = errors
  BY <1>3 DEF Deliver
<1>4. ASSUME NEW p \in Worker, NEW b \in Attempt, AbortCall(p, b) \/ AbortCallFails(p, b)
      PROVE  errors' = errors
  BY <1>4 DEF AbortCall, AbortCallFails
<1>5. CASE UNCHANGED callVars
  BY <1>5 DEF callVars, CallInv
<1>. QED
  BY <1>1, <1>2, <1>3, <1>4, <1>5 DEF CallNext, Pipeline, Fault, CallInv

(* Steps before the pipeline, and requests.                                *)
LEMMA RequestCalls ==
  ASSUME CallTypeOK, CallInv, [CallNext]_callVars, NEW p \in Worker,
         \/ LoadBody(p) \/ PostAccepted(p) \/ DeleteCall(p) \/ Put(p) \/ RedeliverCall(p)
         \/ \E m \in Message : Deliver(p, m)
         \/ \E a \in Attempt : AbortCall(p, a) \/ AbortCallFails(p, a)
  PROVE  RecordCallsSound' /\ FinishersCallsSound' /\ AttemptsCallsSound'
<1>0. /\ ServerKept /\ pc \in [Worker -> Stage] /\ aborts \in [Worker -> SUBSET Attempt]
  BY AttemptsKept DEF CallTypeOK, TypeOK
<1>. USE DEF recordVars, storeVars, workerVars, httpVars, vars, Finishing, Attempting
<1>1. CASE LoadBody(p) \/ \E m \in Message : Deliver(p, m)
  <2>1. /\ pc[p] \in {"idle", "loadBody"} /\ pc'[p] \in {"loadBody", "load"}
        /\ \A q \in Worker \ {p} : pc'[q] = pc[q]
        /\ UNCHANGED <<record, val, current, emitted, att, aborts>>
    BY <1>0, <1>1 DEF LoadBody, LoadMessageBody, Deliver, Receive
  <2>. QED
    BY <1>0, <2>1, QuietCalls
<1>2. CASE PostAccepted(p) \/ DeleteCall(p) \/ Put(p) \/ RedeliverCall(p)
  <2>1. UNCHANGED <<record, val, current, emitted, pc, att, aborts>>
    BY <1>2 DEF PostAccepted, DeleteCall, Put, RedeliverCall, Redeliver
  <2>. QED
    BY <1>0, <2>1, QuietCalls
<1>3. ASSUME NEW a \in Attempt, AbortCall(p, a) \/ AbortCallFails(p, a)
      PROVE  RecordCallsSound' /\ FinishersCallsSound' /\ AttemptsCallsSound'
  <2>1. /\ UNCHANGED <<record, val, current, emitted, pc, att>>
        /\ \A q \in Worker : aborts'[q] \subseteq aborts[q]
    BY <1>0, <1>3 DEF AbortCall, AbortCallFails
  <2>. QED
    BY <1>0, <2>1, QuietCalls
<1>. QED
  BY <1>1, <1>2, <1>3

(* The steps of Messaging between the requests.                            *)
LEMMA MessagingStepCalls ==
  ASSUME CallTypeOK, CallInv, [CallNext]_callVars, NEW p \in Worker, MessagingStep(p)
  PROVE  RecordCallsSound' /\ FinishersCallsSound' /\ AttemptsCallsSound'
<1>0. /\ ServerKept /\ pc \in [Worker -> Stage] /\ UNCHANGED httpVars
  BY AttemptsKept DEF CallTypeOK, TypeOK, MessagingStep
<1>. USE DEF recordVars, storeVars, workerVars, httpVars, Finishing, Attempting
<1>1. CASE LoadFree(p)
  BY <1>0, <1>1, LoadFreeCalls
<1>2. CASE LoadUnfinished(p)
  BY <1>0, <1>2, LoadUnfinishedCalls
<1>3. CASE LoadMissing(p)
  <2>1. /\ pc[p] = "load" /\ pc'[p] = "create" /\ \A q \in Worker \ {p} : pc'[q] = pc[q]
        /\ UNCHANGED <<record, val, current, emitted, att, aborts>>
    BY <1>0, <1>3 DEF LoadMissing
  <2>. QED
    BY <1>0, <2>1, QuietCalls
<1>4. CASE CreateRecord(p)
  BY <1>0, <1>4, CreateRecordCalls
<1>5. CASE BeginAttempt(p)
  BY <1>0, <1>5, BeginAttemptCalls
<1>6. CASE Handle(p)
  <2>1. /\ pc[p] = "handle" /\ pc'[p] = "capture" /\ \A q \in Worker \ {p} : pc'[q] = pc[q]
        /\ UNCHANGED <<record, val, current, emitted, att, aborts>>
    BY <1>0, <1>6 DEF Handle
  <2>. QED
    BY <1>0, <2>1, QuietCalls
<1>7. CASE CallDone(p) /\ CaptureOutgoing(p)
  BY <1>0, <1>7, CaptureOutgoingCalls
<1>8. ASSUME NEW m \in OutgoingMessage, Upload(p, m) \/ Dispatch(p, m) \/ EnsureDeleted(p, m)
      PROVE  RecordCallsSound' /\ FinishersCallsSound' /\ AttemptsCallsSound'
  <2>1. UNCHANGED <<record, val, current, emitted, pc, att, aborts>>
    BY <1>0, <1>8 DEF Upload, Dispatch, EnsureDeleted
  <2>. QED
    BY <1>0, <2>1, QuietCalls
<1>9. CASE Commit(p)
  BY <1>0, <1>9, CommitCalls
<1>10. CASE aborts[p] = {} /\ Clear(p)
  BY <1>0, <1>10, ClearCalls
<1>. QED
  BY <1>1, <1>2, <1>3, <1>4, <1>5, <1>6, <1>7, <1>8, <1>9, <1>10 DEF MessagingStep, Loads

(* Every step keeps the calls sound.                                       *)
LEMMA CallsStep ==
  ASSUME CallTypeOK, CallInv, [CallNext]_callVars
  PROVE  CallsSound'
<1>0. ServerKept /\ ExecutedOnlyIfCommitted' /\ CommittedCallKept'
  BY AttemptsKept, ExecutedStep, KeptStep
<1>. SUFFICES RecordCallsSound' /\ FinishersCallsSound' /\ AttemptsCallsSound'
  BY <1>0 DEF CallsSound
<1>1. ASSUME NEW p \in Worker,
             \/ LoadBody(p) \/ PostAccepted(p) \/ DeleteCall(p) \/ Put(p) \/ RedeliverCall(p)
             \/ \E m \in Message : Deliver(p, m)
             \/ \E a \in Attempt : AbortCall(p, a) \/ AbortCallFails(p, a)
      PROVE  RecordCallsSound' /\ FinishersCallsSound' /\ AttemptsCallsSound'
  BY <1>1, RequestCalls
<1>2. ASSUME NEW p \in Worker,
             \/ PostDeclined(p) \/ PostRefused(p) \/ MessagingStop(p)
             \/ DeleteCallFails(p) \/ CrashCall(p)
      PROVE  RecordCallsSound' /\ FinishersCallsSound' /\ AttemptsCallsSound'
  <2>1. Reset(p) /\ ForgetCalls(p)
    BY <1>2 DEF PostDeclined, PostRefused, ClientFault, MessagingStop, IgnoreDuplicate, Complete,
       CreateConflict, WriteConflict, ClearConflict, DeleteCallFails, CrashCall, Crash, Ack, Fail
  <2>. QED
    BY <1>0, <2>1, StopCalls
<1>3. ASSUME NEW p \in Worker, Register(p)
      PROVE  RecordCallsSound' /\ FinishersCallsSound' /\ AttemptsCallsSound'
  BY <1>3, RegisterCalls
<1>4. ASSUME NEW p \in Worker, BeginAborts(p)
      PROVE  RecordCallsSound' /\ FinishersCallsSound' /\ AttemptsCallsSound'
  BY <1>4, BeginAbortsCalls
<1>5. ASSUME NEW p \in Worker, MessagingStep(p)
      PROVE  RecordCallsSound' /\ FinishersCallsSound' /\ AttemptsCallsSound'
  BY <1>5, MessagingStepCalls
<1>6. CASE UNCHANGED callVars
  <2>1. UNCHANGED <<record, val, current, emitted, pc, att, aborts>>
    BY <1>6 DEF callVars, vars, recordVars, storeVars, workerVars, httpVars
  <2>. QED
    BY <1>0, <2>1, QuietCalls DEF Finishing, Attempting
<1>. QED
  BY <1>1, <1>2, <1>3, <1>4, <1>5, <1>6 DEF CallNext, Pipeline, Fault

LEMMA InitCalls == CallInit => CallInv
<1>. SUFFICES ASSUME CallInit PROVE CallInv
  OBVIOUS
<1>1. Init /\ TypeOK /\ IInv
  BY InitType, InitInv DEF CallInit
<1>2. SoundBut(Declined)
  <2>1. PICK lost : lost = {}
    OBVIOUS
  <2>2. PICK more : more = Declined
    OBVIOUS
  <2>. QED
    BY <1>1, <2>1, <2>2, Weaken DEF IInv
<1>3. /\ emitted = Initial /\ server = [a \in Attempt |-> "none"]
      /\ errors = {} /\ pc = [p \in Worker |-> "idle"] /\ record = EmptyRecord
      /\ aborts = [p \in Worker |-> {}] /\ current = {}
  BY DEF CallInit, Init, RecordInit
<1>4. \A a \in Attempt : FollowUpOf(a) \notin emitted /\ ~Executed(a)
  BY <1>3, CallIds, ConstantsAssumption DEF Executed
<1>5. RecordCallsSound
  BY <1>3 DEF RecordCallsSound, AbortedForGood, AbortedSideEffects, EmptyRecord
<1>6. FinishersCallsSound /\ AttemptsCallsSound
  BY <1>3 DEF FinishersCallsSound, AttemptsCallsSound, Finishing
<1>7. ExecutedOnlyIfCommitted /\ CommittedCallKept
  BY <1>4 DEF ExecutedOnlyIfCommitted, CommittedCallKept
<1>. QED
  BY <1>2, <1>3, <1>5, <1>6, <1>7 DEF CallInv, CallsSound

(* The inductive invariant of an endpoint that calls machine interfaces.   *)
THEOREM CallInvariant == CallSpec => []CallInv
<1>1. CallTypeOK /\ CallInv /\ [CallNext]_callVars => CallInv'
  BY MessagesSound, ErrorsStep, CallsStep DEF CallInv
<1>. QED
  BY <1>1, InitCalls, CallTypeCorrect, PTL DEF CallSpec

(* What an attempt that was rolled back has PUT is never executed by the   *)
(* server: a POST comes of a follow-up message that a commit has sent.     *)
THEOREM CallsCommitted == CallSpec => []ExecutedOnlyIfCommitted
<1>1. CallInv => ExecutedOnlyIfCommitted
  BY DEF CallInv, CallsSound
<1>. QED
  BY <1>1, CallInvariant, PTL

(* The request of a committed attempt is at the server until its follow-up *)
(* message has been applied, whoever aborts or deletes calls meanwhile.    *)
THEOREM CallsKept == CallSpec => []CommittedCallKept
<1>1. CallInv => CommittedCallKept
  BY DEF CallInv, CallsSound
<1>. QED
  BY <1>1, CallInvariant, PTL

(* The client fault of a POST gives up a message only when the server has  *)
(* declined its call, or when the message was applied before.              *)
THEOREM DeclinedLost == CallSpec => []LostOnlyIfDeclined
<1>1. CallInv => LostOnlyIfDeclined
  BY DEF CallInv, SoundBut, NoneLostBut, LostOnlyIfDeclined, Declined
<1>. QED
  BY <1>1, CallInvariant, PTL
=============================================================================
