----------------------- MODULE PaymentProviderPartition -----------------------
(***************************************************************************)
(* One partition of the sample's payment provider, used by two processes:  *)
(* PaymentProvider.Frontend authorizes payments through the machine web    *)
(* interface, PaymentProvider.Backend settles them as a messaging          *)
(* endpoint.  They share the transaction record, the Account document and  *)
(* the claim check, and each finishes the other's transactions with its    *)
(* own list of side effect handlers.                                       *)
(***************************************************************************)
EXTENDS Naturals, FiniteSets

CONSTANTS
    WebWorker,      \* HTTP requests that the frontend handles
    Consumer,       \* deliveries that the backend handles
    None, Attempt, Slot,
    Request,        \* payments to authorize
    Initial,        \* messages that other endpoints sent to the backend
    Sender          \* messages whose handler sends

VARIABLES
    created, record, val, current,                      \* the shared record
    account, blobs, queue, emitted,                     \* shared stores
    requests, responseId, responses, execution,         \* the frontend's stores
    client, answers, refused, deleted,                  \* the frontend's caller
    pc, att, snapshot, outbox, discard,                 \* workers of both
    req, resp,                                          \* web workers
    msg                                                 \* consumers

Worker == WebWorker \cup Consumer

recordVars   == <<created, record, val, current>>
sharedVars   == <<account, blobs, queue, emitted, pc, att, snapshot, outbox, discard>>
frontendVars == <<requests, responseId, responses, execution, client, answers, refused,
                  deleted, req, resp>>
backendVars  == <<msg>>
vars == <<recordVars, sharedVars, frontendVars, backendVars>>

(* Both endpoints read the Account, and write back all of it: `account'    *)
(* counts the requests and the messages applied to it.                     *)
Frontend == INSTANCE MachineInterface WITH
    Worker <- WebWorker, data <- account, dispatched <- queue

Backend == INSTANCE Messaging WITH Worker <- Consumer, OtherEffect <- Frontend!HttpResponse

(* Guids of different kinds, and the names that other endpoints chose.     *)
ASSUME PartitionAssumption ==
    /\ WebWorker \cap Consumer = {}
    /\ None \notin Worker \cup Request \cup Attempt \cup Backend!Message
    /\ Request \cap Backend!Message = {}
    /\ Initial \cap Backend!OutgoingMessage = {}
    /\ Frontend!HttpResponse \cap Backend!Message = {}

EmptyRecord == [messageId |-> None, attemptId |-> None, sideEffects |-> {}]

NoData == [k \in Request \cup Backend!Message |-> 0]

Init ==
    /\ created = FALSE /\ record = EmptyRecord /\ current = {}
    /\ val = [p \in Worker |-> EmptyRecord]
    /\ account = NoData
    /\ blobs = Initial /\ queue = Initial /\ emitted = Initial
    /\ requests = {} /\ responses = {}
    /\ responseId = [r \in Request |-> None]
    /\ execution = [r \in Request |-> None]
    /\ client = [r \in Request |-> "new"]
    /\ answers = [r \in Request |-> {}]
    /\ refused = {} /\ deleted = {}
    /\ pc = [p \in Worker |-> "idle"]
    /\ att = [p \in Worker |-> None]
    /\ snapshot = [p \in Worker |->
                     IF p \in WebWorker THEN Frontend!NoData ELSE Backend!NoData]
    /\ outbox = [p \in Worker |-> {}]
    /\ discard = [p \in Worker |-> {}]
    /\ req = [p \in WebWorker |-> None]
    /\ resp = [p \in WebWorker |-> None]
    /\ msg = [p \in Consumer |-> None]

(* A Guid made by one endpoint is not one that the other knows.            *)
Known(a) ==
    \/ \E p \in Worker :
          \/ att[p] = a
          \/ val[p].attemptId = a \/ \E e \in val[p].sideEffects : e.attemptId = a
    \/ a \in responses
    \/ \E r \in Request : a \in answers[r] \cup {execution[r], responseId[r]}
    \/ \E p \in WebWorker : resp[p] = a

NewGuids == \A p \in Worker : att'[p] = att[p] \/ att'[p] = None \/ ~Known(att'[p])

FrontendStep ==
    /\ \E p \in WebWorker :
          \/ \E r \in Request : Frontend!Caller(p, r)
          \/ Frontend!Handler(p)
          \/ Frontend!Crash(p)
    /\ UNCHANGED backendVars

BackendStep == Backend!Next /\ UNCHANGED frontendVars

Next == (FrontendStep \/ BackendStep) /\ NewGuids

Spec == Init /\ [][Next]_vars

-----------------------------------------------------------------------------
(* A message changes the Account at most once: the frontend cannot finish  *)
(* the backend's transaction without the backend's token.                  *)
MessageAppliedAtMostOnce == \A m \in Backend!Message : account[m] <= 1

(* A message sent by either endpoint, and not applied yet, is on its way   *)
(* or still listed by the record, whichever endpoint finishes what.        *)
NoMessageLost ==
    \A m \in emitted : account[m] = 0 =>
        \/ Backend!InTransit(m)
        \/ Frontend!InTransaction(record) /\ m \in Frontend!CommittedSideEffects(record)

(* Neither endpoint hands the transport a message of an attempt that was   *)
(* rolled back, its own or one that it finds in the other's transaction.   *)
OnlyCommittedSent == queue \subseteq emitted

(* Neither endpoint overwrites what the other wrote to the Account: both   *)
(* read it without an etag of its own and write all of it back.            *)
NoLostUpdate ==
    [][\A k \in Request \cup Backend!Message : account'[k] >= account[k]]_vars

-----------------------------------------------------------------------------
(* When_communicating_between_machines.cs:34: "verify payload processed    *)
(* exactly once even if failures happen on the server".  The backend       *)
(* finishes the frontend's transaction without associating its response,   *)
(* and the POST that is repeated is executed again.                        *)
PayloadProcessedOnce == \A r \in Request : account[r] <= 1

=============================================================================
