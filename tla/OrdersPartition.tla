--------------------------- MODULE OrdersPartition ---------------------------
(***************************************************************************)
(* One partition of the sample's orders, used by two processes: Orders,    *)
(* the web application, submits orders through the human web interface,    *)
(* Orders.Backend handles messages about them.  They share the transaction *)
(* record, the order documents and the claim check, and each may finish a  *)
(* transaction of the other with its own list of side effect handlers.     *)
(***************************************************************************)
EXTENDS Naturals, FiniteSets

CONSTANTS
    WebWorker,      \* web requests and complete messages
    Consumer,       \* deliveries that the backend handles
    None, Attempt, Slot,
    Transaction,    \* web requests
    MaxAttempts,    \* tries of a complete message
    Initial,        \* messages that other endpoints sent to the backend
    Sender          \* messages whose handler sends

VARIABLES
    created, record, val, current,                      \* the shared record
    data, blobs, queue, emitted,                        \* shared stores
    completions, started, timedOut,                     \* complete messages
    pc, att, snapshot, outbox, discard,                 \* workers of both
    tx, try, tokens,                                    \* web workers
    msg                                                 \* consumers

Worker == WebWorker \cup Consumer

recordVars  == <<created, record, val, current>>
sharedVars  == <<data, blobs, queue, emitted, pc, att, snapshot, outbox, discard>>
webVars     == <<completions, started, timedOut, tx, try, tokens>>
backendVars == <<msg>>
vars == <<recordVars, sharedVars, webVars, backendVars>>

(* The tokens of transactions and those of messages are blobs of one       *)
(* store, under the transaction's or the message's id.                     *)
Web == INSTANCE HumanInterface WITH Worker <- WebWorker, dispatched <- queue

Backend == INSTANCE Messaging WITH
    Worker <- Consumer, account <- data, OtherEffect <- Web!CompleteRecords

EmptyRecord == [messageId |-> None, attemptId |-> None, sideEffects |-> {}]

NoData == [k \in Transaction \cup Backend!Message |-> 0]

Init ==
    /\ created = FALSE /\ record = EmptyRecord /\ current = {}
    /\ val = [p \in Worker |-> EmptyRecord]
    /\ data = NoData
    /\ blobs = Initial /\ queue = Initial /\ emitted = Initial
    /\ completions = {} /\ started = {} /\ timedOut = {}
    /\ pc = [p \in Worker |-> "idle"]
    /\ att = [p \in Worker |-> None]
    /\ snapshot = [p \in Worker |->
                     IF p \in WebWorker THEN Web!NoData ELSE Backend!NoData]
    /\ outbox = [p \in Worker |-> {}]
    /\ discard = [p \in Worker |-> {}]
    /\ tx = [p \in WebWorker |-> None]
    /\ try = [p \in WebWorker |-> 0]
    /\ tokens = [p \in WebWorker |-> {}]
    /\ msg = [p \in Consumer |-> None]

(* A Guid made by one endpoint is not one that the other knows.            *)
Known(a) ==
    \E p \in Worker :
        \/ att[p] = a
        \/ val[p].attemptId = a
        \/ \E e \in val[p].sideEffects : e.attemptId = a

NewGuids == \A p \in Worker : att'[p] = att[p] \/ att'[p] = None \/ ~Known(att'[p])

WebStep ==
    /\ \E p \in WebWorker : Web!Handler(p) \/ Web!Redeliver(p) \/ Web!Crash(p)
    /\ UNCHANGED backendVars

(* What the web application sends goes to the billing service, outside of  *)
(* this partition; the backend receives the billing service's messages.    *)
BackendStep ==
    /\ Backend!Next
    /\ \A p \in Consumer : msg'[p] \in Initial \cup {None}
    /\ UNCHANGED webVars

Next == (WebStep \/ BackendStep) /\ NewGuids

Spec == Init /\ [][Next]_vars

-----------------------------------------------------------------------------
(* A message sent by either endpoint, and not applied yet, is on its way   *)
(* or still listed by the record: a tombstone, a backend that finishes a   *)
(* web request, a web request's last try that finishes the backend's, none *)
(* of them drops it.                                                       *)
NoMessageLost ==
    \A m \in emitted : data[m] = 0 =>
        \/ Backend!InTransit(m)
        \/ Web!InTransaction(record) /\ m \in Web!CommittedSideEffects(record)

(* A request never takes effect together with the tombstone of its last    *)
(* try, even when the backend published it and deleted its token.          *)
OneOutcome == \A t \in timedOut : data[t] = 0

(* Neither endpoint overwrites what the other wrote.                       *)
NoLostUpdate ==
    [][\A k \in Transaction \cup Backend!Message : data'[k] >= data[k]]_vars

-----------------------------------------------------------------------------
(* When_communicating_between_machines.cs:38: "message: verify exactly     *)
(* once processing when failure occur".  The last try of a web request     *)
(* finishes the transaction of a message and leaves the message's token,   *)
(* and the message is processed again.                                     *)
MessageProcessedOnce == \A m \in Backend!Message : data[m] <= 1

=============================================================================
