-------------------------- MODULE MessagingInvariant --------------------------
(***************************************************************************)
(* The inductive invariant behind the safety properties of Messaging.  TLC *)
(* checks it on small instances, MessagingProofs proves it inductive.      *)
(***************************************************************************)
EXTENDS Messaging

Finishing(p) == pc[p] \in {"publish", "clear"}

(* An etag that still matches comes with the stored record.                *)
CurrentCopy ==
    /\ \A p \in current : val[p] = record /\ created
    /\ ~created => record = EmptyRecord

(* Worker and message: a worker that is not idle handles a sent message.   *)
WorkerMessage ==
    /\ queue \subseteq emitted
    /\ \A p \in Worker : pc[p] # "idle" => msg[p] \in emitted

(* The attempt ids of running attempts are theirs alone, and no message of *)
(* a running attempt has been committed.                                   *)
AttemptsUnique ==
    /\ \A p, q \in Worker : att[p] # None /\ att[p] = att[q] => p = q
    /\ \A p \in Worker : \A e \in emitted \cap OutgoingMessage : e.attemptId # att[p]

(* The stored record: a transaction in it has been applied, once, and its  *)
(* committed messages are sent; no other message it lists was ever sent.   *)
RecordSound ==
    /\ record.attemptId = None <=> record.messageId = None
    /\ InTransaction(record) =>
          /\ account[record.messageId] > 0
          /\ CommittedSideEffects(record) \cap OutgoingMessage \subseteq emitted
    /\ AbortedSideEffects(record) \cap emitted = {}

(* A running attempt that still can commit: its message was not applied,   *)
(* the data it read is the data there is, and what it has uploaded exists. *)
AttemptSound(p) ==
    /\ pc[p] = "checkExists" \/ Attempting(p) => ~InTransaction(val[p])
    /\ pc[p] \in {"capture", "upload"} => \A e \in outbox[p] : e.attemptId = att[p]
    /\ p \in current /\ Attempting(p) => account[msg[p]] = 0
    /\ p \in current /\ pc[p] \in {"capture", "upload"} => snapshot[p] = account
    /\ p \in current /\ pc[p] \in {"handle", "capture"} => Own(p) = {}
    /\ p \in current /\ pc[p] = "upload" => Own(p) \subseteq blobs \cup outbox[p]

(* A finisher, even one that was overtaken: what it publishes was          *)
(* committed, what it deletes can never be.  What it has published arrives *)
(* or has arrived, unless it is one of `lost'.                             *)
FinisherSound(p, lost) ==
    /\ InTransaction(val[p])
    /\ account[val[p].messageId] > 0
    /\ CommittedSideEffects(val[p]) \cap OutgoingMessage \subseteq emitted
    /\ outbox[p] \subseteq CommittedSideEffects(val[p])
    /\ discard[p] \subseteq AbortedSideEffects(val[p])
    /\ discard[p] \cap emitted = {}
    /\ \A q \in current : Attempting(q) => \A e \in discard[p] : e.attemptId # att[q]
    /\ \A m \in (CommittedSideEffects(val[p]) \cap OutgoingMessage) \ outbox[p] :
          InTransit(m) \/ account[m] > 0 \/ m \in lost
    /\ pc[p] = "clear" => outbox[p] = {}
    /\ pc[p] = "clear" /\ p \in current => val[p].messageId \notin blobs

AttemptsSound == \A p \in Worker : AttemptSound(p)

FinishersSound(lost) == \A p \in Worker : Finishing(p) => FinisherSound(p, lost)

(* Business data and tokens: only sent messages are applied, each once; an *)
(* applied message has a token only while the record names it.             *)
DataSound ==
    /\ \A m \in Message : account[m] > 0 => m \in emitted
    /\ \A m \in Message : account[m] > 0 /\ m \in blobs => record.messageId = m
    /\ \A p \in Worker : pc[p] = "ack" => account[msg[p]] > 0

(* NoMessageLost, of all messages but those in `lost'.                     *)
NoneLostBut(lost) ==
    \A m \in emitted : account[m] = 0 =>
        \/ InTransit(m)
        \/ InTransaction(record) /\ m \in CommittedSideEffects(record)
        \/ m \in lost

(* The inductive invariant.  The endpoint itself loses nothing: the set    *)
(* `lost' is there for the endpoints that give up a message in other ways, *)
(* and the proofs are done once for all of them.                           *)
SoundBut(lost) ==
    /\ CurrentCopy
    /\ WorkerMessage
    /\ AttemptsUnique
    /\ RecordSound
    /\ AttemptsSound
    /\ FinishersSound(lost)
    /\ DataSound
    /\ AppliedAtMostOnce
    /\ TokenUntilApplied
    /\ NoneLostBut(lost)

IInv == SoundBut({})

=============================================================================
