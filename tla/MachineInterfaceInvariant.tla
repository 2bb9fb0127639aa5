---------------------- MODULE MachineInterfaceInvariant ----------------------
(***************************************************************************)
(* The inductive invariant behind the safety properties of                 *)
(* MachineInterface.  TLC checks it on a small instance,                   *)
(* MachineInterfaceProofs proves it inductive.                             *)
(***************************************************************************)
EXTENDS MachineInterface

Finishing(p) == pc[p] \in {"publish", "clear"}

Deleting(p) == pc[p] \in {"response id", "delete response", "delete request"}

Posting(p) ==
    pc[p] \in {"body", "load", "create", "check", "read", "transaction", "upload", "store",
               "commit", "publish", "clear", "lookup", "get", "answer"}

(* The attempt a committed some request.                                   *)
Executed(a) == \E r \in Request : execution[r] = a

(* An etag that still matches comes with the stored record.                *)
CurrentCopy ==
    /\ \A p \in current : val[p] = record /\ created
    /\ ~created => record = EmptyRecord

(* What the caller has left of a request: a blob until it deletes it, and  *)
(* no execution of what it takes back instead of POSTing it.               *)
ClientSound ==
    /\ \A r \in deleted : client[r] \in {"aborted", "answered"}
    /\ \A r \in Request \ deleted :
          client[r] \in {"stored", "posted", "answered"} => r \in requests
    /\ \A r \in Request : execution[r] # None => client[r] \in {"posted", "answered"}
    /\ \A r \in Request : client[r] = "answered" => answers[r] # {}

(* What the caller does with it: one PUT; POSTs only of what was PUT.      *)
CallsSound ==
    /\ \A p \in Worker : pc[p] = "create request" => client[req[p]] \in {"put", "aborted"}
    /\ \A p, q \in Worker :
          pc[p] = "create request" /\ pc[q] = "create request" /\ req[p] = req[q] => p = q
    /\ \A p \in Worker : Posting(p) => client[req[p]] \in {"posted", "answered"}
    /\ \A p \in Worker : Deleting(p) => req[p] \in deleted

(* The attempt ids of running attempts are theirs alone, and have not      *)
(* committed anything yet.                                                 *)
AttemptsUnique ==
    /\ \A p, q \in Worker : att[p] # None /\ att[p] = att[q] => p = q
    /\ \A p \in Worker : att[p] # None => ~Executed(att[p])

(* The stored record: the transaction in it was executed by the attempt it *)
(* names, whose messages are sent; the other attempts in it never commit.  *)
RecordSound ==
    /\ InTransaction(record) =>
          /\ execution[record.messageId] = record.attemptId
          /\ record.attemptId # None
          /\ CommittedSideEffects(record) \cap OutgoingMessage \subseteq emitted
    /\ ~InTransaction(record) => record.attemptId = None
    /\ \A e \in AbortedSideEffects(record) : ~Executed(e.attemptId)

(* A running attempt that still can commit: its request was not executed,  *)
(* the data it read is the data there is, what it registered exists.       *)
AttemptSound(p) ==
    /\ pc[p] = "check" \/ Attempting(p) => ~InTransaction(val[p])
    /\ pc[p] \notin {"upload", "publish"} => outbox[p] = {}
    /\ pc[p] = "upload" => \A e \in outbox[p] : e.attemptId = att[p]
    /\ p \in current /\ Attempting(p) =>
          /\ execution[req[p]] = None
          /\ pc[p] # "read" => snapshot[p] = data
          /\ pc[p] = "commit" => att[p] \in responses
          /\ Own(p) \subseteq blobs \cup outbox[p]

(* A finisher, even one that was overtaken: what it publishes was          *)
(* committed, what it deletes can never be.                                *)
FinisherSound(p) ==
    /\ InTransaction(val[p])
    /\ execution[val[p].messageId] = val[p].attemptId
    /\ val[p].attemptId # None
    /\ CommittedSideEffects(val[p]) \cap OutgoingMessage \subseteq emitted
    /\ outbox[p] \subseteq CommittedSideEffects(val[p])
    /\ discard[p] \subseteq AbortedSideEffects(val[p])
    /\ \A e \in discard[p] : ~Executed(e.attemptId)
    /\ \A q \in current : Attempting(q) => \A e \in discard[p] : e.attemptId # att[q]
    /\ (CommittedSideEffects(val[p]) \cap OutgoingMessage) \ outbox[p] \subseteq dispatched
    /\ pc[p] = "clear" /\ p \in current => ~HasToken(val[p].messageId)

AttemptsSound == \A p \in Worker : AttemptSound(p)

FinishersSound == \A p \in Worker : Finishing(p) => FinisherSound(p)

(* Business data, tokens and executions: an executed request has a token   *)
(* only while the record names it, and only its own response.              *)
DataSound ==
    /\ \A r \in Request : data[r] = IF execution[r] = None THEN 0 ELSE 1
    /\ \A r \in Request : responseId[r] \in {None, execution[r]}
    /\ \A r \in Request : execution[r] # None /\ HasToken(r) => record.messageId = r
    /\ \A r, s \in Request : execution[r] # None /\ execution[r] = execution[s] => r = s
    /\ \A e \in emitted : Executed(e.attemptId)

(* Answers: a worker answers with, or deletes, the response of the         *)
(* execution, and finds none only of a request that was deleted.           *)
AnswersSound ==
    /\ \A r \in Request : answers[r] \subseteq {execution[r]} \ {None}
    /\ \A p \in Worker : pc[p] \in {"idle", "body", "load"} => resp[p] = None
    /\ \A p \in Worker :
          pc[p] \in {"publish", "clear", "get", "answer", "delete response"} =>
              resp[p] \in {None, execution[req[p]]}
    /\ \A p \in Worker :
          pc[p] = "lookup" => req[p] \in deleted \/ responseId[req[p]] # None

IInv ==
    /\ CurrentCopy
    /\ ClientSound
    /\ CallsSound
    /\ AttemptsUnique
    /\ RecordSound
    /\ AttemptsSound
    /\ FinishersSound
    /\ DataSound
    /\ AnswersSound
    /\ Answerable
    /\ PublishedOrHeld
    /\ CommittedOnly
    /\ RefusedOnlyAfterDelete

=============================================================================
