----------------------- MODULE PaymentProviderInvariant -----------------------
(***************************************************************************)
(* The inductive invariant behind the safety properties of                 *)
(* PaymentProviderPartition: what the workers of either process may rely   *)
(* on, although the other process finishes some of their transactions.     *)
(* TLC checks it on a small instance, PaymentProviderProofs proves it      *)
(* inductive.                                                              *)
(***************************************************************************)
EXTENDS PaymentProviderPartition

Message == Backend!Message

OutgoingMessage == Backend!OutgoingMessage

SideEffect == OutgoingMessage \cup Frontend!HttpResponse

InTransaction(r) == Frontend!InTransaction(r)

Committed(r) == Frontend!CommittedSideEffects(r) \cap OutgoingMessage

Aborted(r) == Frontend!AbortedSideEffects(r)

Guid == Attempt \cup {None}

Record == [messageId : Request \cup Message \cup {None}, attemptId : Guid,
           sideEffects : SUBSET SideEffect]

Attempting(p) ==
    pc[p] \in {"read", "transaction", "store", "commit", "handle", "capture", "upload"}

HasRead(p) == pc[p] \in {"transaction", "store", "commit", "capture", "upload"}

Finishing(p) == pc[p] \in {"publish", "clear"}

Stage == Frontend!Stage \cup Backend!Stage

StoresTyped ==
    /\ created \in BOOLEAN
    /\ record \in Record
    /\ val \in [Worker -> Record]
    /\ current \subseteq Worker
    /\ account \in [Request \cup Message -> Nat]
    /\ blobs \subseteq Message
    /\ queue \subseteq Message
    /\ emitted \subseteq Message
    /\ requests \subseteq Request
    /\ DOMAIN snapshot = Worker
    /\ outbox \in [Worker -> SUBSET OutgoingMessage]
    /\ discard \in [Worker -> SUBSET SideEffect]

WorkersTyped ==
    /\ pc \in [Worker -> Stage]
    /\ \A p \in WebWorker : pc[p] \in Frontend!Stage
    /\ \A p \in Consumer : pc[p] \in Backend!Stage
    /\ att \in [Worker -> Guid]
    /\ \A p \in Worker : Attempting(p) <=> att[p] # None
    /\ req \in [WebWorker -> Request \cup {None}]
    /\ \A p \in WebWorker : pc[p] = "idle" <=> req[p] = None
    /\ msg \in [Consumer -> Message \cup {None}]
    /\ \A p \in Consumer : pc[p] = "idle" <=> msg[p] = None

(* The type invariant, of the variables that both processes share, the     *)
(* requests and the messages in hand.                                      *)
PartitionTypeOK == StoresTyped /\ WorkersTyped

(* An etag that still matches comes with the stored record.                *)
CurrentCopy ==
    /\ \A p \in current : val[p] = record /\ created
    /\ ~created => record = EmptyRecord

(* A consumer that is not idle handles a sent message.                     *)
WorkerMessage ==
    /\ queue \subseteq emitted
    /\ \A p \in Consumer : pc[p] # "idle" => msg[p] \in emitted

(* The attempt ids of running attempts are theirs alone, in both processes,*)
(* and no message of a running attempt has been committed.                 *)
AttemptsUnique ==
    /\ \A p, q \in Worker : att[p] # None /\ att[p] = att[q] => p = q
    /\ \A p \in Worker : \A e \in emitted \cap OutgoingMessage : e.attemptId # att[p]

(* A copy of a transaction, of a message or of a request: the message was  *)
(* applied, and the committed messages are sent.                           *)
TransactionSound(r) ==
    /\ r.messageId \in Message => account[r.messageId] > 0
    /\ Committed(r) \subseteq emitted

RecordSound ==
    /\ record.attemptId = None <=> record.messageId = None
    /\ InTransaction(record) => TransactionSound(record)
    /\ Aborted(record) \cap emitted = {}

(* A running attempt, of either process, that still can commit: its        *)
(* message was not applied, the data it read is the data there is, what it *)
(* registered is uploaded, but for what it is uploading.                   *)
AttemptSound(p) ==
    /\ pc[p] \in {"check", "checkExists"} \/ Attempting(p) => ~InTransaction(val[p])
    /\ pc[p] \in {"capture", "upload"} => \A e \in outbox[p] : e.attemptId = att[p]
    /\ p \in current /\ HasRead(p) => snapshot[p] = account
    /\ p \in current /\ Attempting(p) =>
          \A e \in val[p].sideEffects \cap OutgoingMessage :
             e.attemptId = att[p] => e \in blobs \/ (pc[p] = "upload" /\ e \in outbox[p])
    /\ p \in current \cap Consumer /\ Attempting(p) => account[msg[p]] = 0

(* A finisher, even one that was overtaken, and whoever's transaction it   *)
(* finishes: what it publishes was committed, what it deletes can never be.*)
(* It clears a message's transaction only after the token is gone; the     *)
(* frontend, which has no way to delete that token, never gets there.      *)
FinisherSound(p) ==
    /\ InTransaction(val[p])
    /\ TransactionSound(val[p])
    /\ outbox[p] \subseteq Committed(val[p])
    /\ discard[p] \subseteq Aborted(val[p])
    /\ discard[p] \cap emitted = {}
    /\ \A q \in current : Attempting(q) => \A e \in discard[p] : e.attemptId # att[q]
    /\ \A m \in Committed(val[p]) \ outbox[p] : Backend!InTransit(m) \/ account[m] > 0
    /\ pc[p] = "clear" => outbox[p] = {}
    /\ pc[p] = "clear" /\ p \in current => val[p].messageId \notin blobs

AttemptsSound == \A p \in Worker : AttemptSound(p)

FinishersSound == \A p \in Worker : Finishing(p) => FinisherSound(p)

(* Business data and tokens: only sent messages are applied, each once; an *)
(* applied message has a token only while the record names it.             *)
DataSound ==
    /\ \A m \in Message : account[m] > 0 => m \in emitted
    /\ \A m \in Message : account[m] > 0 /\ m \in blobs => record.messageId = m
    /\ \A p \in Consumer : pc[p] = "ack" => account[msg[p]] > 0

(* A sent message keeps its token until it is applied: neither process     *)
(* deletes a body that the other still needs.                              *)
TokenUntilApplied == \A m \in emitted : account[m] = 0 => m \in blobs

PartitionInv ==
    /\ CurrentCopy
    /\ WorkerMessage
    /\ AttemptsUnique
    /\ RecordSound
    /\ AttemptsSound
    /\ FinishersSound
    /\ DataSound
    /\ MessageAppliedAtMostOnce
    /\ TokenUntilApplied
    /\ NoMessageLost

=============================================================================
