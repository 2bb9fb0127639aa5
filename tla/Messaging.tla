------------------------------ MODULE Messaging ------------------------------
(***************************************************************************)
(* Exactly-once processing of messages by one partition of a messaging     *)
(* endpoint: ExactlyOnceProcessor.Process as the NServiceBus pipeline runs *)
(* it (LoadMessageBodyBehavior, ExactlyOnceBehavior, the user's handler,   *)
(* CaptureOutgoingMessagesBehavior, MessagingWithClaimCheckSideEffects-    *)
(* Handler) over a Cosmos partition, a blob container of claim-check       *)
(* tokens and an at-least-once queue.                                      *)
(*                                                                         *)
(* One action per await of the code: between two of them any other worker  *)
(* may run, and the process may die.                                       *)
(***************************************************************************)
EXTENDS TransactionRecord, Naturals, FiniteSets

CONSTANTS
    Attempt,    \* attempt ids (Guid.NewGuid())
    Slot,       \* the sends of one attempt
    Initial,    \* messages that other endpoints put in the queue
    Sender,     \* messages whose handler may send
    OtherEffect \* side effects that other handlers than this one publish

OutgoingMessage == [attemptId : Attempt, slot : Slot]

Message == Initial \cup OutgoingMessage

ASSUME ConstantsAssumption ==
    /\ None \notin Worker \cup Attempt \cup Message
    /\ Initial \cap OutgoingMessage = {}
    /\ Sender \subseteq Message
    /\ \A e \in OtherEffect : e \notin Message /\ e.attemptId # None

VARIABLES
    account,    \* business data of the partition: how often m was applied
    blobs,      \* claim-check tokens, by message id
    queue,      \* messages that can be received
    emitted,    \* history: messages sent by other endpoints or by a commit
    pc,         \* pc[p]: the await worker p is about to do
    msg,        \* msg[p]: the message it handles
    att,        \* att[p]: its attempt id while it has one
    snapshot,   \* snapshot[p]: the business data its handler read
    outbox,     \* outbox[p]: messages it has yet to upload, or to dispatch
    discard     \* discard[p]: tokens of aborted attempts it has yet to delete

storeVars  == <<account, blobs, queue, emitted>>
workerVars == <<pc, msg, att, snapshot, outbox, discard>>
vars == <<recordVars, storeVars, workerVars>>

NoData == [m \in Message |-> 0]

Init ==
    /\ RecordInit
    /\ account = NoData
    /\ blobs = Initial
    /\ queue = Initial
    /\ emitted = Initial
    /\ pc = [p \in Worker |-> "idle"]
    /\ msg = [p \in Worker |-> None]
    /\ att = [p \in Worker |-> None]
    /\ snapshot = [p \in Worker |-> NoData]
    /\ outbox = [p \in Worker |-> {}]
    /\ discard = [p \in Worker |-> {}]

-----------------------------------------------------------------------------
(* A worker stops: everything it held in memory is gone.                   *)

Reset(p) ==
    /\ Forget(p)
    /\ pc' = [pc EXCEPT ![p] = "idle"]
    /\ msg' = [msg EXCEPT ![p] = None]
    /\ att' = [att EXCEPT ![p] = None]
    /\ snapshot' = [snapshot EXCEPT ![p] = NoData]
    /\ outbox' = [outbox EXCEPT ![p] = {}]
    /\ discard' = [discard EXCEPT ![p] = {}]
    /\ UNCHANGED <<account, blobs, emitted>>

(* The pipeline returned: the transport removes the message.               *)
Ack(p) ==
    /\ Reset(p)
    /\ UNCHANGED queue

(* The pipeline threw, or the process died: the message is received again. *)
Fail(p) ==
    /\ Reset(p)
    /\ queue' = queue \cup {msg[p]}

(* ---- The transport ---------------------------------------------------- *)

Receive(p, m) ==
    /\ pc[p] = "idle"
    /\ m \in queue
    /\ queue' = queue \ {m}
    /\ pc' = [pc EXCEPT ![p] = "loadBody"]
    /\ msg' = [msg EXCEPT ![p] = m]
    /\ UNCHANGED <<recordVars, account, blobs, emitted, att, snapshot, outbox, discard>>

(* The lock on the message runs out while it is handled: it is delivered   *)
(* once more, whatever becomes of this delivery.                           *)
Redeliver(p) ==
    /\ pc[p] # "idle"
    /\ msg[p] \notin queue
    /\ queue' = queue \cup {msg[p]}
    /\ UNCHANGED <<recordVars, account, blobs, emitted, workerVars>>

Crash(p) ==
    /\ pc[p] # "idle"
    /\ Fail(p)

-----------------------------------------------------------------------------
(* ---- LoadMessageBodyBehavior and ExactlyOnceProcessor.Process --------- *)

LoadMessageBody(p) ==
    /\ pc[p] = "loadBody"
    /\ msg[p] \in blobs
    /\ pc' = [pc EXCEPT ![p] = "load"]
    /\ UNCHANGED <<recordVars, storeVars, msg, att, snapshot, outbox, discard>>

(* Without its token a message is a duplicate, and completed as one: both  *)
(* before the record is loaded and when the state transition begins.       *)
IgnoreDuplicate(p) ==
    /\ pc[p] \in {"loadBody", "checkExists"}
    /\ msg[p] \notin blobs
    /\ Ack(p)

(* FinishProcessing starts with the record the worker holds; a handler of  *)
(* side effects only sees the records of its own type.                     *)
BeginFinish(p, r) ==
    /\ pc' = [pc EXCEPT ![p] = "publish"]
    /\ outbox' = [outbox EXCEPT ![p] = CommittedSideEffects(r) \cap OutgoingMessage]
    /\ discard' = [discard EXCEPT ![p] = AbortedSideEffects(r) \cap OutgoingMessage]

(* Load finds a record that is free, or one whose transaction somebody     *)
(* committed and did not finish, or none.                                  *)
LoadFree(p) ==
    /\ pc[p] = "load"
    /\ created
    /\ ~InTransaction(record)
    /\ Read(p)
    /\ pc' = [pc EXCEPT ![p] = "checkExists"]
    /\ UNCHANGED <<storeVars, msg, att, snapshot, outbox, discard>>

LoadUnfinished(p) ==
    /\ pc[p] = "load"
    /\ created
    /\ InTransaction(record)
    /\ Read(p)
    /\ BeginFinish(p, record)
    /\ UNCHANGED <<storeVars, msg, att, snapshot>>

LoadMissing(p) ==
    /\ pc[p] = "load"
    /\ ~created
    /\ pc' = [pc EXCEPT ![p] = "create"]
    /\ UNCHANGED <<recordVars, storeVars, msg, att, snapshot, outbox, discard>>

CreateRecord(p) ==
    /\ pc[p] = "create"
    /\ Create(p)
    /\ pc' = [pc EXCEPT ![p] = "checkExists"]
    /\ UNCHANGED <<storeVars, msg, att, snapshot, outbox, discard>>

CreateConflict(p) ==
    /\ pc[p] = "create"
    /\ created
    /\ Fail(p)

\* Mutant of Unused: an attempt id only differs from those in use right now.
UnusedNow(a) == \A q \in Worker : att[q] # a

(* A new Guid: nothing that is left anywhere carries it.                   *)
Unused(a) ==
    /\ \A s \in Slot : [attemptId |-> a, slot |-> s] \notin emitted \cup blobs
    /\ \A r \in {record} \cup {val[q] : q \in Worker} :
          /\ r.attemptId # a
          /\ \A e \in r.sideEffects : e.attemptId # a
    /\ \A q \in Worker : att[q] # a

\* Mutant of CheckExists: the token is not looked up again after the Load.
CheckExistsSkipped(p) ==
    /\ pc[p] = "checkExists"
    /\ \E a \in Attempt :
          /\ Unused(a)
          /\ att' = [att EXCEPT ![p] = a]
    /\ pc' = [pc EXCEPT ![p] = "handle"]
    /\ UNCHANGED <<recordVars, storeVars, msg, snapshot, outbox, discard>>

(* The state transition begins with the one-time token.                    *)
CheckExists(p) ==
    /\ pc[p] = "checkExists"
    /\ msg[p] \in blobs
    /\ \E a \in Attempt :
          /\ Unused(a)
          /\ att' = [att EXCEPT ![p] = a]
    /\ pc' = [pc EXCEPT ![p] = "handle"]
    /\ UNCHANGED <<recordVars, storeVars, msg, snapshot, outbox, discard>>

(* The handler reads the business data and decides what to send; its       *)
(* writes and sends stay in memory.                                        *)
Sends(p) ==
    IF msg[p] \in Sender
    THEN SUBSET [attemptId : {att[p]}, slot : Slot]
    ELSE {{}}

Handle(p) ==
    /\ pc[p] = "handle"
    /\ snapshot' = [snapshot EXCEPT ![p] = account]
    /\ \E sent \in Sends(p) : outbox' = [outbox EXCEPT ![p] = sent]
    /\ pc' = [pc EXCEPT ![p] = "capture"]
    /\ UNCHANGED <<recordVars, storeVars, msg, att, discard>>

-----------------------------------------------------------------------------
(* ---- CaptureOutgoingMessagesBehavior ---------------------------------- *)

CaptureOutgoing(p) ==
    /\ pc[p] = "capture"
    /\ AddSideEffects(p, outbox[p])
    /\ pc' = [pc EXCEPT ![p] = "upload"]
    /\ UNCHANGED <<storeVars, msg, att, snapshot, outbox, discard>>

(* MessageStore.Create uploads the bodies in parallel.                     *)
Upload(p, m) ==
    /\ pc[p] = "upload"
    /\ m \in outbox[p]
    /\ blobs' = blobs \cup {m}
    /\ outbox' = [outbox EXCEPT ![p] = @ \ {m}]
    /\ UNCHANGED <<recordVars, account, queue, emitted, pc, msg, att, snapshot, discard>>

(* The batch writes the business data and the record together.             *)
Uploaded(p) == outbox[p] = {}

(* The messages of the attempt, whatever else the record lists.            *)
Own(p) == {e \in val[p].sideEffects \cap OutgoingMessage : e.attemptId = att[p]}

Apply(data, m) == [data EXCEPT ![m] = @ + 1]

Commit(p) ==
    /\ pc[p] = "upload"
    /\ Uploaded(p)
    /\ CommitStateTransition(p, msg[p], att[p])
    /\ account' = Apply(snapshot[p], msg[p])
    /\ emitted' = emitted \cup Own(p)
    /\ BeginFinish(p, record')
    /\ att' = [att EXCEPT ![p] = None]
    /\ snapshot' = [snapshot EXCEPT ![p] = NoData]
    /\ UNCHANGED <<blobs, queue, msg>>

(* A write of the record that is refused throws.                           *)
WriteConflict(p) ==
    /\ \/ pc[p] = "capture"
       \/ pc[p] = "upload" /\ Uploaded(p)
    /\ WriteRefused(p)
    /\ Fail(p)

-----------------------------------------------------------------------------
(* ---- FinishProcessing: publish in three stages, then clear ------------ *)

Dispatch(p, m) ==
    /\ pc[p] = "publish"
    /\ m \in outbox[p]
    /\ queue' = queue \cup {m}
    /\ outbox' = [outbox EXCEPT ![p] = @ \ {m}]
    /\ UNCHANGED <<recordVars, account, blobs, emitted, pc, msg, att, snapshot, discard>>

\* Mutant of Dispatched: the dispatch is not awaited.
DispatchNotAwaited(p) == TRUE

Dispatched(p) == outbox[p] = {}

EnsureDeleted(p, m) ==
    /\ pc[p] = "publish"
    /\ Dispatched(p)
    /\ m \in discard[p]
    /\ blobs' = blobs \ {m}
    /\ discard' = [discard EXCEPT ![p] = @ \ {m}]
    /\ UNCHANGED <<recordVars, account, queue, emitted, pc, msg, att, snapshot, outbox>>

\* Mutants of DeleteToken: no token is deleted, or that of the message in hand.
DeleteTokenSkipped(p) ==
    /\ pc[p] = "publish"
    /\ Dispatched(p)
    /\ discard[p] = {}
    /\ pc' = [pc EXCEPT ![p] = "clear"]
    /\ UNCHANGED <<recordVars, storeVars, msg, att, snapshot, outbox, discard>>

DeleteOwnToken(p) ==
    /\ pc[p] = "publish"
    /\ Dispatched(p)
    /\ discard[p] = {}
    /\ blobs' = blobs \ {msg[p]}
    /\ pc' = [pc EXCEPT ![p] = "clear"]
    /\ UNCHANGED <<recordVars, account, queue, emitted, msg, att, snapshot, outbox, discard>>

DeleteToken(p) ==
    /\ pc[p] = "publish"
    /\ Dispatched(p)
    /\ discard[p] = {}
    /\ blobs' = blobs \ {val[p].messageId}
    /\ pc' = [pc EXCEPT ![p] = "clear"]
    /\ UNCHANGED <<recordVars, account, queue, emitted, msg, att, snapshot, outbox, discard>>

(* After the record is clear: the message it named is the one in hand, and *)
(* done; or it is another one's, and this one's own attempt begins.        *)
Clear(p) ==
    /\ pc[p] = "clear"
    /\ ClearTransactionState(p)
    /\ pc' = [pc EXCEPT ![p] = IF val[p].messageId = msg[p] THEN "ack" ELSE "checkExists"]
    /\ UNCHANGED <<storeVars, msg, att, snapshot, outbox, discard>>

ClearConflict(p) ==
    /\ pc[p] = "clear"
    /\ ~EtagMatches(p)
    /\ Fail(p)

Complete(p) ==
    /\ pc[p] = "ack"
    /\ Ack(p)

-----------------------------------------------------------------------------
Process(p) ==
    \/ LoadMessageBody(p)
    \/ IgnoreDuplicate(p)
    \/ LoadFree(p)
    \/ LoadUnfinished(p)
    \/ LoadMissing(p)
    \/ CreateRecord(p)
    \/ CreateConflict(p)
    \/ CheckExists(p)
    \/ Handle(p)
    \/ CaptureOutgoing(p)
    \/ \E m \in OutgoingMessage : Upload(p, m)
    \/ Commit(p)
    \/ WriteConflict(p)
    \/ \E m \in OutgoingMessage : Dispatch(p, m)
    \/ \E m \in OutgoingMessage : EnsureDeleted(p, m)
    \/ DeleteToken(p)
    \/ Clear(p)
    \/ ClearConflict(p)
    \/ Complete(p)

Next ==
    \E p \in Worker :
        \/ \E m \in Message : Receive(p, m)
        \/ Process(p)
        \/ Redeliver(p)
        \/ Crash(p)

Spec == Init /\ [][Next]_vars

-----------------------------------------------------------------------------
(***************************************************************************)
(* Properties.                                                             *)
(***************************************************************************)

Guid == Attempt \cup {None}

SideEffect == OutgoingMessage \cup OtherEffect

Record == [messageId : Message \cup {None}, attemptId : Guid, sideEffects : SUBSET SideEffect]

Stage == {"idle", "loadBody", "load", "create", "checkExists", "handle", "capture",
          "upload", "publish", "clear", "ack"}

(* Between the token check and the commit a worker has an attempt id.      *)
Attempting(p) == pc[p] \in {"handle", "capture", "upload"}

(* The type invariant: every variable of the record, the stores and the    *)
(* workers has the shape that the code gives it.                           *)
TypeOK ==
    /\ created \in BOOLEAN
    /\ record \in Record
    /\ val \in [Worker -> Record]
    /\ current \subseteq Worker
    /\ account \in [Message -> Nat]
    /\ blobs \subseteq Message
    /\ queue \subseteq Message
    /\ emitted \subseteq Message
    /\ pc \in [Worker -> Stage]
    /\ msg \in [Worker -> Message \cup {None}]
    /\ \A p \in Worker : pc[p] = "idle" <=> msg[p] = None
    /\ att \in [Worker -> Guid]
    /\ \A p \in Worker : Attempting(p) <=> att[p] # None
    /\ snapshot \in [Worker -> [Message -> Nat]]
    /\ outbox \in [Worker -> SUBSET OutgoingMessage]
    /\ discard \in [Worker -> SUBSET OutgoingMessage]

(* In the queue, or in the hands of a worker that has yet to complete it.  *)
InTransit(m) == m \in queue \/ \E p \in Worker : pc[p] # "idle" /\ msg[p] = m

(* No message changes the business data twice, however often it is         *)
(* delivered, by however many workers at once, and wherever they crash:    *)
(* the token check, the etag and the order token-then-clear together.      *)
AppliedAtMostOnce == \A m \in Message : account[m] <= 1

(* A token is deleted only after its message was applied: deleting the     *)
(* tokens of aborted attempts (EnsureDeleted) or of the record's message   *)
(* (Delete) never takes the token of a message that still needs it.        *)
TokenUntilApplied ==
    \A m \in emitted : account[m] = 0 => m \in blobs

(* A message that was sent and not applied is never lost: it is in transit *)
(* or the stored record still lists it among the side effects to publish.  *)
NoMessageLost ==
    \A m \in emitted : account[m] = 0 =>
        \/ InTransit(m)
        \/ InTransaction(record) /\ m \in CommittedSideEffects(record)

(* Only messages of committed attempts are ever on the queue: no receiver  *)
(* sees a message of an attempt that was rolled back.                      *)
OnlyCommittedSent == \A m \in Message : InTransit(m) => m \in emitted

(* A commit never overwrites the effect of another message: handlers read  *)
(* the business data without an etag of its own and write it blindly in    *)
(* the batch, and only the record's etag protects it.                      *)
NoLostUpdate == [][\A m \in Message : account'[m] >= account[m]]_vars

(* FinishProcessing publishes first and clears last: the record lets go of *)
(* a transaction only when its token is gone and each of its messages is   *)
(* in transit or already applied, whichever worker did which part.         *)
ClearedOnlyWhenPublished ==
    [][InTransaction(record) /\ ~InTransaction(record') =>
          /\ record.messageId \notin blobs
          /\ \A m \in CommittedSideEffects(record) \cap OutgoingMessage :
                InTransit(m) \/ account[m] > 0]_vars

(* The whole endpoint is an exactly-once delivery: a message is pending    *)
(* from the commit that sends it to the commit that applies it.            *)
Pending == {m \in emitted : account[m] = 0}

Delivery == INSTANCE ExactlyOnceDelivery WITH pending <- Pending, applied <- account

ImplementsDelivery == Delivery!DeliverySpec

-----------------------------------------------------------------------------
(* What a comment of the code says and two overlapping workers refute.      *)

AtRest ==
    /\ queue = {}
    /\ \A p \in Worker : pc[p] = "idle"
    /\ record = EmptyRecord

(* ExactlyOnceProcessor.cs:19: registering messages in the record before   *)
(* their bodies are uploaded prevents accumulation of garbage messages in  *)
(* the claim check.                                                        *)
NoGarbage == AtRest => blobs = {}

=============================================================================
