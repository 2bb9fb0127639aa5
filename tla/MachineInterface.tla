--------------------------- MODULE MachineInterface ---------------------------
(***************************************************************************)
(* HTTP requests of another machine on one partition: the PUT, POST and    *)
(* DELETE handlers of MachineInterfaceConnector, over a Cosmos partition   *)
(* and the blobs of requests, responses and message bodies.                *)
(*                                                                         *)
(* The caller is the messaging endpoint of MachineInterfaceContext-        *)
(* Extensions and MachineInterfaceFollowUpMessageHandlingBehavior, reduced *)
(* to what a server sees of it: it PUTs a request once, POSTs it as often  *)
(* as its follow-up message is delivered, and DELETEs it after an answer,  *)
(* or instead of POSTing it when its own attempt was aborted.              *)
(*                                                                         *)
(* A worker is one HTTP request; each of its awaits is an action.          *)
(***************************************************************************)
EXTENDS TransactionRecord, Naturals, FiniteSets

CONSTANTS
    Request,    \* request ids, each a Guid of its own
    Attempt,    \* attempt ids (Guid.NewGuid() in ExactlyOnceProcessor)
    Slot        \* the sends of one attempt

ASSUME MachineAssumption ==
    /\ Request \cap Attempt = {}
    /\ None \notin Worker \cup Request \cup Attempt

OutgoingMessage == [attemptId : Attempt, slot : Slot]

(* HttpResponseRecord: an attempt stores one response, under a new Guid,   *)
(* which is identified with the attempt's id.                              *)
HttpResponse == [attemptId : Attempt, incomingId : Request]

VARIABLES
    data,           \* business data: how often r was applied
    requests,       \* request blobs
    responseId,     \* responseId[r]: metadata ResponseId of request blob r
    responses,      \* response blobs
    blobs,          \* bodies of outgoing messages
    dispatched,     \* messages handed to the transport
    client,         \* client[r]: how far the caller is with r
    answers,        \* answers[r]: the responses it received
    refused,        \* history: requests it was told it had deleted
    deleted,        \* history: requests it sent a DELETE for
    execution,      \* history: execution[r], the attempt that committed r
    emitted,        \* history: messages of committed attempts
    pc, req,        \* the next await of worker p, and its request
    att, snapshot,  \* attempt id and business data read
    resp,           \* id of the response it answers with, or deletes
    outbox, discard \* messages to upload or dispatch; aborted records

storeVars  == <<data, requests, responseId, responses, blobs, dispatched, execution, emitted>>
clientVars == <<client, answers, refused, deleted>>
workerVars == <<pc, req, att, snapshot, resp, outbox, discard>>
vars == <<recordVars, storeVars, clientVars, workerVars>>

NoData == [r \in Request |-> 0]

Init ==
    /\ RecordInit
    /\ data = NoData
    /\ requests = {} /\ responses = {} /\ blobs = {} /\ dispatched = {}
    /\ responseId = [r \in Request |-> None]
    /\ client = [r \in Request |-> "new"]
    /\ answers = [r \in Request |-> {}]
    /\ refused = {} /\ deleted = {} /\ emitted = {}
    /\ execution = [r \in Request |-> None]
    /\ pc = [p \in Worker |-> "idle"]
    /\ req = [p \in Worker |-> None]
    /\ att = [p \in Worker |-> None]
    /\ snapshot = [p \in Worker |-> NoData]
    /\ resp = [p \in Worker |-> None]
    /\ outbox = [p \in Worker |-> {}]
    /\ discard = [p \in Worker |-> {}]

Goto(p, stage) == pc' = [pc EXCEPT ![p] = stage]

(* The HTTP request is over, answered or not.                              *)
Reset(p) ==
    /\ Forget(p)
    /\ Goto(p, "idle")
    /\ req' = [req EXCEPT ![p] = None]
    /\ att' = [att EXCEPT ![p] = None]
    /\ snapshot' = [snapshot EXCEPT ![p] = NoData]
    /\ resp' = [resp EXCEPT ![p] = None]
    /\ outbox' = [outbox EXCEPT ![p] = {}]
    /\ discard' = [discard EXCEPT ![p] = {}]

(* It threw or died: the caller learns nothing.                            *)
Fail(p) ==
    /\ Reset(p)
    /\ UNCHANGED <<storeVars, clientVars>>

Crash(p) ==
    /\ pc[p] # "idle"
    /\ Fail(p)

(* A Guid that nothing left anywhere carries.                              *)
Unused(a) ==
    /\ a \notin responses
    /\ \A r \in Request : a \notin answers[r] \cup {execution[r], responseId[r]}
    /\ \A s \in Slot : [attemptId |-> a, slot |-> s] \notin emitted \cup blobs
    /\ \A r \in {record} \cup {val[q] : q \in Worker} :
          /\ r.attemptId # a
          /\ \A e \in r.sideEffects : e.attemptId # a
    /\ \A q \in Worker : a \notin {att[q], resp[q]}

-----------------------------------------------------------------------------
(* ---- The caller ------------------------------------------------------- *)

Begin(p, r, stage) ==
    /\ pc[p] = "idle"
    /\ Goto(p, stage)
    /\ req' = [req EXCEPT ![p] = r]
    /\ UNCHANGED <<recordVars, storeVars, att, snapshot, resp, outbox, discard>>

Put(p, r) ==
    /\ client[r] = "new"
    /\ client' = [client EXCEPT ![r] = "put"]
    /\ Begin(p, r, "create request")
    /\ UNCHANGED <<answers, refused, deleted>>

(* Deliveries of one follow-up message may overlap, and one of them may    *)
(* POST when another has already DELETEd.                                  *)
Post(p, r) ==
    /\ client[r] \in {"stored", "posted", "answered"}
    /\ client' = [client EXCEPT ![r] = IF @ = "stored" THEN "posted" ELSE @]
    /\ Begin(p, r, "body")
    /\ UNCHANGED <<answers, refused, deleted>>

Delete(p, r) ==
    /\ client[r] \in {"put", "stored", "aborted", "answered"}
    /\ client' = [client EXCEPT ![r] = IF @ = "answered" THEN @ ELSE "aborted"]
    /\ deleted' = deleted \cup {r}
    /\ Begin(p, r, "response id")
    /\ UNCHANGED <<answers, refused>>

-----------------------------------------------------------------------------
(* ---- PUT: StoreRequest, which does not overwrite a blob --------------- *)

CreateRequest(p) ==
    /\ pc[p] = "create request"
    /\ requests' = requests \cup {req[p]}
    /\ client' = [client EXCEPT ![req[p]] = IF @ = "put" THEN "stored" ELSE @]
    /\ Reset(p)
    /\ UNCHANGED <<data, responseId, responses, blobs, dispatched, execution, emitted,
                   answers, refused, deleted>>

-----------------------------------------------------------------------------
(* ---- POST: ExecuteTransaction ----------------------------------------- *)

(* Status 400: the client "issued a POST after a DELETE".                  *)
Refuse(p) ==
    /\ refused' = refused \cup {req[p]}
    /\ Reset(p)
    /\ UNCHANGED <<storeVars, client, answers, deleted>>

GetBody(p) ==
    /\ pc[p] = "body"
    /\ req[p] \in requests
    /\ Goto(p, "load")
    /\ UNCHANGED <<recordVars, storeVars, clientVars, req, att, snapshot, resp, outbox, discard>>

NoBody(p) ==
    /\ pc[p] = "body"
    /\ req[p] \notin requests
    /\ Refuse(p)

(* FinishProcessing with the record r: its messages to dispatch, and what  *)
(* other attempts left.                                                    *)
BeginFinish(p, r) ==
    /\ Goto(p, "publish")
    /\ outbox' = [outbox EXCEPT ![p] = CommittedSideEffects(r) \cap OutgoingMessage]
    /\ discard' = [discard EXCEPT ![p] = AbortedSideEffects(r)]

LoadFree(p) ==
    /\ pc[p] = "load"
    /\ created
    /\ ~InTransaction(record)
    /\ Read(p)
    /\ Goto(p, "check")
    /\ UNCHANGED <<storeVars, clientVars, req, att, snapshot, resp, outbox, discard>>

\* Mutant of LoadUnfinished: a POST only goes on from a free record.
RefuseUnfinished(p) ==
    /\ pc[p] = "load"
    /\ created
    /\ InTransaction(record)
    /\ Fail(p)

LoadUnfinished(p) ==
    /\ pc[p] = "load"
    /\ created
    /\ InTransaction(record)
    /\ Read(p)
    /\ BeginFinish(p, record)
    /\ UNCHANGED <<storeVars, clientVars, req, att, snapshot, resp>>

LoadMissing(p) ==
    /\ pc[p] = "load"
    /\ ~created
    /\ Goto(p, "create")
    /\ UNCHANGED <<recordVars, storeVars, clientVars, req, att, snapshot, resp, outbox, discard>>

CreateRecord(p) ==
    /\ pc[p] = "create"
    /\ Create(p)
    /\ Goto(p, "check")
    /\ UNCHANGED <<storeVars, clientVars, req, att, snapshot, resp, outbox, discard>>

CreateConflict(p) ==
    /\ pc[p] = "create"
    /\ created
    /\ Fail(p)

\* Mutant of HasToken: CheckExists only asks whether the blob is there.
BlobExists(r) == r \in requests

(* CheckExists: the blob is a token until a response is associated with it.*)
HasToken(r) == r \in requests /\ responseId[r] = None

CheckToken(p) ==
    /\ pc[p] = "check"
    /\ HasToken(req[p])
    /\ \E a \in Attempt : Unused(a) /\ att' = [att EXCEPT ![p] = a]
    /\ Goto(p, "read")
    /\ UNCHANGED <<recordVars, storeVars, clientVars, req, snapshot, resp, outbox, discard>>

Duplicate(p) ==
    /\ pc[p] = "check"
    /\ ~HasToken(req[p])
    /\ Goto(p, "lookup")
    /\ UNCHANGED <<recordVars, storeVars, clientVars, req, att, snapshot, resp, outbox, discard>>

(* The user's transaction reads the business data, sends, and returns the  *)
(* response; its writes stay in memory.                                    *)
ReadData(p) ==
    /\ pc[p] = "read"
    /\ snapshot' = [snapshot EXCEPT ![p] = data]
    /\ Goto(p, "transaction")
    /\ UNCHANGED <<recordVars, storeVars, clientVars, req, att, resp, outbox, discard>>

(* Each send registers its message and uploads its body before it returns. *)
Send(p, s) ==
    LET m == [attemptId |-> att[p], slot |-> s]
    IN  /\ pc[p] = "transaction"
        /\ m \notin val[p].sideEffects
        /\ AddSideEffects(p, {m})
        /\ outbox' = [outbox EXCEPT ![p] = {m}]
        /\ Goto(p, "upload")
        /\ UNCHANGED <<storeVars, clientVars, req, att, snapshot, resp, discard>>

Upload(p) ==
    /\ pc[p] = "upload"
    /\ blobs' = blobs \cup outbox[p]
    /\ outbox' = [outbox EXCEPT ![p] = {}]
    /\ Goto(p, "transaction")
    /\ UNCHANGED <<recordVars, data, requests, responseId, responses, dispatched, execution,
                   emitted, clientVars, req, att, snapshot, resp, discard>>

RegisterResponse(p) ==
    /\ pc[p] = "transaction"
    /\ AddSideEffects(p, {[attemptId |-> att[p], incomingId |-> req[p]]})
    /\ Goto(p, "store")
    /\ UNCHANGED <<storeVars, clientVars, req, att, snapshot, resp, outbox, discard>>

StoreResponse(p) ==
    /\ pc[p] = "store"
    /\ responses' = responses \cup {att[p]}
    /\ Goto(p, "commit")
    /\ UNCHANGED <<recordVars, data, requests, responseId, blobs, dispatched, execution,
                   emitted, clientVars, req, att, snapshot, resp, outbox, discard>>

(* The messages of the attempt, whatever else the record lists.            *)
Own(p) == {e \in val[p].sideEffects \cap OutgoingMessage : e.attemptId = att[p]}

Apply(d, r) == [d EXCEPT ![r] = @ + 1]

Commit(p) ==
    /\ pc[p] = "commit"
    /\ CommitStateTransition(p, req[p], att[p])
    /\ data' = Apply(snapshot[p], req[p])
    /\ execution' = [execution EXCEPT ![req[p]] = att[p]]
    /\ emitted' = emitted \cup Own(p)
    /\ resp' = [resp EXCEPT ![p] = att[p]]
    /\ att' = [att EXCEPT ![p] = None]
    /\ snapshot' = [snapshot EXCEPT ![p] = NoData]
    /\ BeginFinish(p, record')
    /\ UNCHANGED <<requests, responseId, responses, blobs, dispatched, clientVars, req>>

WriteConflict(p) ==
    /\ pc[p] \in {"transaction", "commit"}
    /\ WriteRefused(p)
    /\ Fail(p)

(* A duplicate answers with the response that the request blob names.      *)
LookUp(p) ==
    /\ pc[p] = "lookup"
    /\ responseId[req[p]] # None
    /\ resp' = [resp EXCEPT ![p] = responseId[req[p]]]
    /\ Goto(p, "get")
    /\ UNCHANGED <<recordVars, storeVars, clientVars, req, att, snapshot, outbox, discard>>

NoResponseId(p) ==
    /\ pc[p] = "lookup"
    /\ responseId[req[p]] = None
    /\ Refuse(p)

GetResponse(p) ==
    /\ pc[p] = "get"
    /\ resp[p] \in responses
    /\ Goto(p, "answer")
    /\ UNCHANGED <<recordVars, storeVars, clientVars, req, att, snapshot, resp, outbox, discard>>

NoResponse(p) ==
    /\ pc[p] = "get"
    /\ resp[p] \notin responses
    /\ Refuse(p)

Answer(p) ==
    /\ pc[p] = "answer"
    /\ answers' = [answers EXCEPT ![req[p]] = @ \cup {resp[p]}]
    /\ client' = [client EXCEPT ![req[p]] = "answered"]
    /\ Reset(p)
    /\ UNCHANGED <<storeVars, refused, deleted>>

-----------------------------------------------------------------------------
(* ---- FinishProcessing ------------------------------------------------- *)

(* WebMessagingWithClaimCheckSideEffectsHandler: dispatch, then delete the *)
(* bodies of aborted attempts.                                             *)
Dispatch(p, m) ==
    /\ pc[p] = "publish"
    /\ m \in outbox[p]
    /\ dispatched' = dispatched \cup {m}
    /\ outbox' = [outbox EXCEPT ![p] = @ \ {m}]
    /\ UNCHANGED <<recordVars, data, requests, responseId, responses, blobs, execution,
                   emitted, clientVars, pc, req, att, snapshot, resp, discard>>

\* Mutant of Dispatched: the dispatch is not awaited.
DispatchNotAwaited(p) == TRUE

Dispatched(p) == outbox[p] = {}

EnsureDeleted(p, m) ==
    /\ pc[p] = "publish"
    /\ Dispatched(p)
    /\ m \in discard[p] \cap OutgoingMessage
    /\ blobs' = blobs \ {m}
    /\ discard' = [discard EXCEPT ![p] = @ \ {m}]
    /\ UNCHANGED <<recordVars, data, requests, responseId, responses, dispatched, execution,
                   emitted, clientVars, pc, req, att, snapshot, resp, outbox>>

(* HttpResponseSideEffectsHandler: delete the responses of aborted         *)
(* attempts, then associate the one committed response.                    *)
DeleteAborted(p, e) ==
    /\ pc[p] = "publish"
    /\ Dispatched(p)
    /\ discard[p] \cap OutgoingMessage = {}
    /\ e \in discard[p] \cap HttpResponse
    /\ responses' = responses \ {e.attemptId}
    /\ discard' = [discard EXCEPT ![p] = @ \ {e}]
    /\ UNCHANGED <<recordVars, data, requests, responseId, blobs, dispatched, execution,
                   emitted, clientVars, pc, req, att, snapshot, resp, outbox>>

Cleaned(p) ==
    /\ pc[p] = "publish"
    /\ Dispatched(p)
    /\ discard[p] \cap (OutgoingMessage \cup HttpResponse) = {}

\* Mutant of CommittedResponse: any response in the record is associated.
AnyResponse(p) == val[p].sideEffects \cap HttpResponse

CommittedResponse(p) == CommittedSideEffects(val[p]) \cap HttpResponse

\* Mutant of Associate: the request blob is left without its response.
AssociateForgotten(p) ==
    /\ Cleaned(p)
    /\ Goto(p, "clear")
    /\ UNCHANGED <<recordVars, storeVars, clientVars, req, att, snapshot, resp, outbox, discard>>

Associable(p) == val[p].messageId \in requests /\ CommittedResponse(p) # {}

Associate(p) ==
    /\ Cleaned(p)
    /\ Associable(p)
    /\ \E e \in CommittedResponse(p) :
          responseId' = [responseId EXCEPT ![val[p].messageId] = e.attemptId]
    /\ Goto(p, "clear")
    /\ UNCHANGED <<recordVars, data, requests, responses, blobs, dispatched, execution,
                   emitted, clientVars, req, att, snapshot, resp, outbox, discard>>

(* Setting the metadata of a blob that is gone throws, and so does Single  *)
(* when the transaction was not one of this interface.                     *)
AssociateFails(p) ==
    /\ Cleaned(p)
    /\ ~Associable(p)
    /\ Fail(p)

Clear(p) ==
    /\ pc[p] = "clear"
    /\ ClearTransactionState(p)
    /\ Goto(p, IF val[p].messageId # req[p] THEN "check"
               ELSE IF resp[p] = None THEN "lookup" ELSE "answer")
    /\ UNCHANGED <<storeVars, clientVars, req, att, snapshot, resp, outbox, discard>>

ClearConflict(p) ==
    /\ pc[p] = "clear"
    /\ ~EtagMatches(p)
    /\ Fail(p)

-----------------------------------------------------------------------------
(* ---- DELETE: DeleteResponse ------------------------------------------- *)

GetResponseId(p) ==
    /\ pc[p] = "response id"
    /\ resp' = [resp EXCEPT ![p] = responseId[req[p]]]
    /\ Goto(p, IF responseId[req[p]] = None THEN "delete request" ELSE "delete response")
    /\ UNCHANGED <<recordVars, storeVars, clientVars, req, att, snapshot, outbox, discard>>

DeleteStoredResponse(p) ==
    /\ pc[p] = "delete response"
    /\ responses' = responses \ {resp[p]}
    /\ Goto(p, "delete request")
    /\ UNCHANGED <<recordVars, data, requests, responseId, blobs, dispatched, execution,
                   emitted, clientVars, req, att, snapshot, resp, outbox, discard>>

(* The metadata goes with the blob.                                        *)
DeleteRequest(p) ==
    /\ pc[p] = "delete request"
    /\ requests' = requests \ {req[p]}
    /\ responseId' = [responseId EXCEPT ![req[p]] = None]
    /\ Reset(p)
    /\ UNCHANGED <<data, responses, blobs, dispatched, execution, emitted, clientVars>>

-----------------------------------------------------------------------------
DeleteResponse(p) ==
    \/ GetResponseId(p)
    \/ DeleteStoredResponse(p)
    \/ DeleteRequest(p)

ExecuteTransaction(p) ==
    \/ GetBody(p)
    \/ NoBody(p)
    \/ LoadFree(p)
    \/ LoadUnfinished(p)
    \/ LoadMissing(p)
    \/ CreateRecord(p)
    \/ CreateConflict(p)
    \/ CheckToken(p)
    \/ Duplicate(p)
    \/ ReadData(p)
    \/ \E s \in Slot : Send(p, s)
    \/ Upload(p)
    \/ RegisterResponse(p)
    \/ StoreResponse(p)
    \/ Commit(p)
    \/ WriteConflict(p)
    \/ LookUp(p)
    \/ NoResponseId(p)
    \/ GetResponse(p)
    \/ NoResponse(p)
    \/ Answer(p)

FinishProcessing(p) ==
    \/ \E m \in OutgoingMessage : Dispatch(p, m)
    \/ \E m \in OutgoingMessage : EnsureDeleted(p, m)
    \/ \E e \in HttpResponse : DeleteAborted(p, e)
    \/ Associate(p)
    \/ AssociateFails(p)
    \/ Clear(p)
    \/ ClearConflict(p)

Handler(p) ==
    \/ CreateRequest(p)
    \/ ExecuteTransaction(p)
    \/ FinishProcessing(p)
    \/ DeleteResponse(p)

Caller(p, r) == Put(p, r) \/ Post(p, r) \/ Delete(p, r)

Next ==
    \E p \in Worker :
        \/ \E r \in Request : Caller(p, r)
        \/ Handler(p)
        \/ Crash(p)

Spec == Init /\ [][Next]_vars

-----------------------------------------------------------------------------
(***************************************************************************)
(* Properties.                                                             *)
(***************************************************************************)

Guid == Attempt \cup {None}

Record == [messageId : Request \cup {None}, attemptId : Guid,
           sideEffects : SUBSET (OutgoingMessage \cup HttpResponse)]

Stage == {"idle", "create request", "body", "load", "create", "check", "read", "transaction",
          "upload", "store", "commit", "publish", "clear", "lookup", "get", "answer",
          "response id", "delete response", "delete request"}

Attempting(p) == pc[p] \in {"read", "transaction", "upload", "store", "commit"}

(* The type invariant: the shape that the code gives the record, the       *)
(* stores, the caller and the handlers.                                    *)
TypeOK ==
    /\ created \in BOOLEAN
    /\ record \in Record
    /\ val \in [Worker -> Record]
    /\ current \subseteq Worker
    /\ data \in [Request -> Nat]
    /\ requests \subseteq Request
    /\ responseId \in [Request -> Guid]
    /\ responses \subseteq Attempt
    /\ blobs \subseteq OutgoingMessage
    /\ dispatched \subseteq OutgoingMessage
    /\ client \in [Request -> {"new", "put", "stored", "posted", "answered", "aborted"}]
    /\ answers \in [Request -> SUBSET Attempt]
    /\ refused \subseteq Request
    /\ deleted \subseteq Request
    /\ execution \in [Request -> Guid]
    /\ emitted \subseteq OutgoingMessage
    /\ pc \in [Worker -> Stage]
    /\ req \in [Worker -> Request \cup {None}]
    /\ \A p \in Worker : pc[p] = "idle" <=> req[p] = None
    /\ att \in [Worker -> Guid]
    /\ \A p \in Worker : Attempting(p) <=> att[p] # None
    /\ snapshot \in [Worker -> [Request -> Nat]]
    /\ resp \in [Worker -> Guid]
    /\ \A p \in Worker : pc[p] \in {"get", "answer", "delete response"} => resp[p] # None
    /\ outbox \in [Worker -> SUBSET OutgoingMessage]
    /\ discard \in [Worker -> SUBSET (OutgoingMessage \cup HttpResponse)]

(* A request changes the business data at most once, however many POSTs    *)
(* of it overlap and wherever they stop.                                   *)
AppliedAtMostOnce == \A r \in Request : data[r] <= 1

(* Until the caller deletes it, an executed request can be answered: its   *)
(* response is stored, and the blob or the record tells which one it is.   *)
(* The cleanup of other attempts' responses never takes it.                *)
Answerable ==
    \A r \in Request : execution[r] # None /\ r \notin deleted =>
        /\ r \in requests
        /\ execution[r] \in responses
        /\ \/ responseId[r] = execution[r]
           \/ record.messageId = r /\ record.attemptId = execution[r]

(* The messages of an executed request are handed to the transport, or the *)
(* record still lists them, even when the caller deletes the request first.*)
PublishedOrHeld ==
    \A m \in emitted :
        \/ m \in dispatched
        \/ InTransaction(record) /\ m \in CommittedSideEffects(record)

(* Only messages of committed attempts are handed to the transport, and    *)
(* the cleanup of other attempts' messages never takes one of their bodies.*)
CommittedOnly == (dispatched \subseteq emitted) /\ (emitted \subseteq blobs)

(* MachineInterfaceConnector.cs:71,109,115: a POST is refused only when    *)
(* the caller "issued a POST after a DELETE", not because of a handler     *)
(* that died or overlapped between the commit and the association.         *)
RefusedOnlyAfterDelete == refused \subseteq deleted

(* A commit of one request never overwrites the business data of another.  *)
NoLostUpdate == [][\A r \in Request : data'[r] >= data[r]]_vars

(* The interface is an idempotent request: one execution, at the commit,   *)
(* and every answer carries the response of the attempt that committed.    *)
Idempotent == INSTANCE IdempotentRequest WITH
    Result <- Attempt, NoResult <- None, result <- execution, replies <- answers

ImplementsRequest == Idempotent!RequestSpec

=============================================================================
