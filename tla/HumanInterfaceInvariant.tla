----------------------- MODULE HumanInterfaceInvariant -----------------------
(***************************************************************************)
(* The inductive invariant behind the safety properties of HumanInterface. *)
(* TLC checks it on a small instance, HumanInterfaceProofs proves it       *)
(* inductive.                                                              *)
(***************************************************************************)
EXTENDS HumanInterface

Requesting(p) == try[p] = 0 /\ pc[p] # "idle"

(* The complete message of t is not sent yet.                              *)
Uncompleted(t) ==
    /\ \A c \in completions : c.transactionId # t
    /\ \A p \in Worker : try[p] > 0 => tx[p] # t
    /\ t \notin timedOut

(* The complete record of t is in no copy of the record.                   *)
Unregistered(t) ==
    /\ CompleteRecord(t) \notin record.sideEffects
    /\ \A p \in Worker : CompleteRecord(t) \notin val[p].sideEffects

(* A complete message of t is in the transport, or in the hands of a       *)
(* worker that is not through with it.                                     *)
CompletionHeld(t) ==
    \/ \E c \in completions : c.transactionId = t
    \/ \E p \in Worker : try[p] > 0 /\ tx[p] = t /\ pc[p] # "done"

(* An etag that still matches comes with the stored record; nothing but    *)
(* requests that load it happens before there is one.                      *)
CurrentCopy ==
    /\ \A p \in current : val[p] = record /\ created
    /\ ~created =>
          /\ record = EmptyRecord /\ completions = {}
          /\ \A p \in Worker : pc[p] \in {"idle", "load", "create"}

(* A transaction whose request has not arrived has left nothing anywhere.  *)
UnstartedSound ==
    \A t \in Transaction \ started :
        /\ Uncompleted(t) /\ Unregistered(t) /\ data[t] = 0
        /\ \A p \in Worker : tx[p] # t

(* A request: it is the only one of its transaction, and has left nothing  *)
(* that it has not come to yet.                                            *)
RequestsSound ==
    /\ \A p, q \in Worker : Requesting(p) /\ Requesting(q) /\ tx[p] = tx[q] => p = q
    /\ \A p \in Worker : pc[p] \in {"load", "create", "register"} => Unregistered(tx[p])
    /\ \A p \in Worker : pc[p] \in RequestStage \ {"commit"} => Uncompleted(tx[p])
    /\ \A p \in Worker : pc[p] \in RequestStage => data[tx[p]] = 0

(* The attempt ids of running attempts are theirs alone, and those of      *)
(* requests have not committed anything yet.                               *)
AttemptsUnique ==
    /\ \A p, q \in Worker : att[p] # None /\ att[p] = att[q] => p = q
    /\ \A p \in Worker : Attempting(p) => \A m \in emitted : m.attemptId # att[p]

(* The stored record: a request or a tombstone committed the transaction   *)
(* in it; a request's messages are sent, and its token is listed; no other *)
(* attempt that left something in it ever commits.                         *)
RecordSound ==
    /\ InTransaction(record) =>
          /\ data[record.messageId] = 1 \/ record.messageId \in timedOut
          /\ data[record.messageId] = 1 => CompleteRecord(record.messageId) \in record.sideEffects
          /\ record.attemptId # None
          /\ CommittedSideEffects(record) \cap OutgoingMessage \subseteq emitted
    /\ ~InTransaction(record) => record.attemptId = None
    /\ AbortedSideEffects(record) \cap emitted = {}

(* A request that still can commit: nobody will delete its token, the data *)
(* it read is the data there is, what it registered exists, and once its   *)
(* complete message is sent that message is not lost and has not closed    *)
(* the transaction.                                                        *)
AttemptSound(p) ==
    /\ pc[p] \in {"token", "check"} \/ Attempting(p) => ~InTransaction(val[p])
    /\ pc[p] \notin {"upload", "publish"} => outbox[p] = {}
    /\ pc[p] # "publish" => tokens[p] = {} /\ discard[p] = {}
    /\ pc[p] = "upload" => \A m \in outbox[p] : m.attemptId = att[p]
    /\ p \in current /\ (pc[p] \in {"token", "check"} \/ Attempting(p)) =>
          /\ CompleteRecord(tx[p]) \in val[p].sideEffects
          /\ \A q \in Worker : tx[p] \notin tokens[q]
          /\ pc[p] # "token" => tx[p] \in blobs
    /\ p \in current /\ Attempting(p) =>
          /\ pc[p] # "read" => snapshot[p] = data
          /\ Own(p) \subseteq blobs \cup outbox[p]
          /\ pc[p] = "commit" => CompletionHeld(tx[p]) /\ tx[p] \notin timedOut

AttemptsSound == \A p \in Worker : AttemptSound(p)

(* The last try of a complete message: a tombstone is only committed of a  *)
(* transaction that was not, and by an attempt that sent nothing.          *)
TombstonesSound ==
    /\ \A p \in Worker : pc[p] \in {"tombstone", "commitTombstone"} => ~InTransaction(val[p])
    /\ \A p \in Worker : pc[p] = "commitTombstone" =>
          /\ p \in current => data[tx[p]] = 0
          /\ \A e \in val[p].sideEffects : e.attemptId # att[p]

(* A finisher, even one that was overtaken: what it publishes was          *)
(* committed, what it deletes can never be; and one that may clear the     *)
(* record has deleted the token of the committed request in it.            *)
FinisherSound(p) ==
    /\ InTransaction(val[p]) /\ val[p].attemptId # None
    /\ outbox[p] \subseteq CommittedSideEffects(val[p])
    /\ CommittedSideEffects(val[p]) \cap OutgoingMessage \subseteq emitted
    /\ (CommittedSideEffects(val[p]) \cap OutgoingMessage) \ outbox[p] \subseteq dispatched
    /\ discard[p] \subseteq AbortedSideEffects(val[p])
    /\ discard[p] \cap emitted = {}
    /\ \A q \in current : Attempting(q) => \A m \in discard[p] : m.attemptId # att[q]
    /\ \A t \in tokens[p] : CompleteRecord(t) \in val[p].sideEffects
    /\ p \in current /\ data[val[p].messageId] = 1 /\ val[p].messageId \notin tokens[p] =>
          val[p].messageId \notin blobs

FinishersSound == \A p \in Worker : pc[p] = "publish" => FinisherSound(p)

(* A committed transaction has its token only while the record names it,   *)
(* and a complete message as long as it has both.                          *)
TokensSound ==
    /\ \A t \in Transaction : data[t] = 1 /\ t \in blobs => record.messageId = t
    /\ \A t \in Transaction : record.messageId = t /\ t \in blobs => CompletionHeld(t)

IInv ==
    /\ CurrentCopy
    /\ UnstartedSound
    /\ RequestsSound
    /\ AttemptsUnique
    /\ RecordSound
    /\ AttemptsSound
    /\ TombstonesSound
    /\ FinishersSound
    /\ TokensSound
    /\ PublishedOrHeld
    /\ CommittedOnly
    /\ OneOutcome

=============================================================================
