---------------------------- MODULE HumanInterface ----------------------------
(***************************************************************************)
(* Transactions of the human web interface on one partition:               *)
(* HumanInterfaceConnector.ExecuteTransaction, which commits the business  *)
(* data in a web request but leaves publishing its messages to a delayed   *)
(* "complete" message, and HumanInterfaceMessageSideEffectsBehavior, which *)
(* handles that message: it publishes, or asks again later, or, at the     *)
(* last try, commits a tombstone so that the request can no longer commit. *)
(*                                                                         *)
(* A worker is a web request or a delivery of a complete message.          *)
(***************************************************************************)
EXTENDS TransactionRecord, Naturals, FiniteSets

CONSTANTS
    Transaction,    \* transaction ids, each a Guid of its own
    Attempt,        \* attempt ids (Guid.NewGuid() in ExactlyOnceProcessor)
    Slot,           \* the sends of one transaction
    MaxAttempts     \* tries of the complete message, the last a tombstone

OutgoingMessage == [attemptId : Attempt, slot : Slot]

ASSUME HumanAssumption ==
    /\ Transaction \cap (Attempt \cup OutgoingMessage) = {}
    /\ None \notin Worker \cup Transaction \cup Attempt
    /\ MaxAttempts \in Nat \ {0}

(* CompleteTransactionMessageRecord: its attempt id is the transaction id, *)
(* and never the attempt id that the processor commits with.               *)
CompleteRecord(t) == [attemptId |-> t, incomingId |-> t]

CompleteRecords == {CompleteRecord(t) : t \in Transaction}

CompleteMessage == [transactionId : Transaction, attempt : 1..MaxAttempts]

VARIABLES
    data,           \* business data: how often t was applied
    blobs,          \* tokens of transactions and bodies of messages
    completions,    \* complete messages in the transport, delayed or not
    dispatched,     \* messages handed to the transport
    started,        \* transactions whose request has arrived
    emitted,        \* history: messages of committed transactions
    timedOut,       \* history: transactions closed by a tombstone
    pc, tx,         \* the next await of worker p, and its transaction
    try,            \* attempt number of its complete message, 0 in a request
    att, snapshot,  \* attempt id and business data read
    tokens,         \* tokens CompleteMessageSideEffectsHandler has to delete
    outbox, discard \* messages to upload or dispatch; aborted bodies to delete

storeVars  == <<data, blobs, completions, dispatched, started, emitted, timedOut>>
workerVars == <<pc, tx, try, att, snapshot, tokens, outbox, discard>>
vars == <<recordVars, storeVars, workerVars>>

NoData == [t \in Transaction |-> 0]

Init ==
    /\ RecordInit
    /\ data = NoData
    /\ blobs = {} /\ completions = {} /\ dispatched = {}
    /\ started = {} /\ emitted = {} /\ timedOut = {}
    /\ pc = [p \in Worker |-> "idle"]
    /\ tx = [p \in Worker |-> None]
    /\ try = [p \in Worker |-> 0]
    /\ att = [p \in Worker |-> None]
    /\ snapshot = [p \in Worker |-> NoData]
    /\ tokens = [p \in Worker |-> {}]
    /\ outbox = [p \in Worker |-> {}]
    /\ discard = [p \in Worker |-> {}]

Goto(p, stage) == pc' = [pc EXCEPT ![p] = stage]

InHand(p) == [transactionId |-> tx[p], attempt |-> try[p]]

(* The request has answered, or the complete message has been consumed.    *)
Reset(p) ==
    /\ Forget(p)
    /\ Goto(p, "idle")
    /\ tx' = [tx EXCEPT ![p] = None]
    /\ try' = [try EXCEPT ![p] = 0]
    /\ att' = [att EXCEPT ![p] = None]
    /\ snapshot' = [snapshot EXCEPT ![p] = NoData]
    /\ tokens' = [tokens EXCEPT ![p] = {}]
    /\ outbox' = [outbox EXCEPT ![p] = {}]
    /\ discard' = [discard EXCEPT ![p] = {}]
    /\ UNCHANGED <<data, blobs, dispatched, started, emitted, timedOut>>

Done(p) ==
    /\ Reset(p)
    /\ UNCHANGED completions

(* A request that throws or dies is gone; a complete message comes back.   *)
Fail(p) ==
    /\ Reset(p)
    /\ completions' = completions \cup (IF try[p] = 0 THEN {} ELSE {InHand(p)})

Crash(p) ==
    /\ pc[p] # "idle"
    /\ Fail(p)

(* A Guid that nothing left anywhere carries.                              *)
Unused(a) ==
    /\ \A s \in Slot : [attemptId |-> a, slot |-> s] \notin emitted \cup blobs
    /\ \A r \in {record} \cup {val[q] : q \in Worker} :
          /\ r.attemptId # a
          /\ \A e \in r.sideEffects : e.attemptId # a
    /\ \A q \in Worker : att[q] # a

-----------------------------------------------------------------------------
(* ---- HumanInterfaceConnector.ExecuteTransaction ----------------------- *)

Request(p, t) ==
    /\ pc[p] = "idle"
    /\ t \notin started
    /\ started' = started \cup {t}
    /\ tx' = [tx EXCEPT ![p] = t]
    /\ Goto(p, "load")
    /\ UNCHANGED <<recordVars, data, blobs, completions, dispatched, emitted, timedOut,
                   try, att, snapshot, tokens, outbox, discard>>

(* The request only loads here; a complete message has seen its token, so  *)
(* the record is there when it loads.                                      *)
Load(p) ==
    /\ pc[p] = "load"
    /\ created
    /\ Read(p)
    /\ Goto(p, "register")
    /\ UNCHANGED <<storeVars, tx, try, att, snapshot, tokens, outbox, discard>>

LoadMissing(p) ==
    /\ pc[p] = "load"
    /\ ~created
    /\ Goto(p, "create")
    /\ UNCHANGED <<recordVars, storeVars, tx, try, att, snapshot, tokens, outbox, discard>>

CreateRecord(p) ==
    /\ pc[p] = "create"
    /\ Create(p)
    /\ Goto(p, "register")
    /\ UNCHANGED <<storeVars, tx, try, att, snapshot, tokens, outbox, discard>>

CreateConflict(p) ==
    /\ pc[p] = "create"
    /\ created
    /\ Fail(p)

Register(p) ==
    /\ pc[p] = "register"
    /\ AddSideEffects(p, {CompleteRecord(tx[p])})
    /\ Goto(p, "token")
    /\ UNCHANGED <<storeVars, tx, try, att, snapshot, tokens, outbox, discard>>

CreateToken(p) ==
    /\ pc[p] = "token"
    /\ blobs' = blobs \cup {tx[p]}
    /\ Goto(p, "check")
    /\ UNCHANGED <<recordVars, data, completions, dispatched, started, emitted, timedOut,
                   tx, try, att, snapshot, tokens, outbox, discard>>

(* ProcessWithoutApplyingSideEffects, up to the user's code.               *)
CheckToken(p) ==
    /\ pc[p] = "check"
    /\ tx[p] \in blobs
    /\ \E a \in Attempt : Unused(a) /\ att' = [att EXCEPT ![p] = a]
    /\ Goto(p, "read")
    /\ UNCHANGED <<recordVars, storeVars, tx, try, snapshot, tokens, outbox, discard>>

TimedOut(p) ==
    /\ pc[p] = "check"
    /\ tx[p] \notin blobs
    /\ Fail(p)

ReadData(p) ==
    /\ pc[p] = "read"
    /\ snapshot' = [snapshot EXCEPT ![p] = data]
    /\ Goto(p, "transaction")
    /\ UNCHANGED <<recordVars, storeVars, tx, try, att, tokens, outbox, discard>>

(* Each send registers its message and uploads its body before it returns. *)
Send(p, s) ==
    LET m == [attemptId |-> att[p], slot |-> s]
    IN  /\ pc[p] = "transaction"
        /\ m \notin val[p].sideEffects
        /\ AddSideEffects(p, {m})
        /\ outbox' = [outbox EXCEPT ![p] = {m}]
        /\ Goto(p, "upload")
        /\ UNCHANGED <<storeVars, tx, try, att, snapshot, tokens, discard>>

Upload(p) ==
    /\ pc[p] = "upload"
    /\ blobs' = blobs \cup outbox[p]
    /\ outbox' = [outbox EXCEPT ![p] = {}]
    /\ Goto(p, "transaction")
    /\ UNCHANGED <<recordVars, data, completions, dispatched, started, emitted, timedOut,
                   tx, try, att, snapshot, tokens, discard>>

\* Mutant of EnqueueComplete: the request commits without a complete message.
EnqueueForgotten(p) ==
    /\ pc[p] = "transaction"
    /\ Goto(p, "commit")
    /\ UNCHANGED <<recordVars, storeVars, tx, try, att, snapshot, tokens, outbox, discard>>

EnqueueComplete(p) ==
    /\ pc[p] = "transaction"
    /\ completions' = completions \cup {[transactionId |-> tx[p], attempt |-> 1]}
    /\ Goto(p, "commit")
    /\ UNCHANGED <<recordVars, data, blobs, dispatched, started, emitted, timedOut,
                   tx, try, att, snapshot, tokens, outbox, discard>>

(* The messages of the attempt, whatever else the record lists.            *)
Own(p) == {e \in val[p].sideEffects \cap OutgoingMessage : e.attemptId = att[p]}

Apply(d, t) == [d EXCEPT ![t] = @ + 1]

Commit(p) ==
    /\ pc[p] = "commit"
    /\ CommitStateTransition(p, tx[p], att[p])
    /\ data' = Apply(snapshot[p], tx[p])
    /\ emitted' = emitted \cup Own(p)
    /\ Goto(p, "done")
    /\ UNCHANGED <<blobs, completions, dispatched, started, timedOut,
                   tx, try, att, snapshot, tokens, outbox, discard>>

(* The answer of the request, or the end of a complete message.            *)
Complete(p) ==
    /\ pc[p] = "done"
    /\ Done(p)

-----------------------------------------------------------------------------
(* ---- HumanInterfaceMessageSideEffectsBehavior.Invoke ------------------ *)

Receive(p, c) ==
    /\ pc[p] = "idle"
    /\ c \in completions
    /\ completions' = completions \ {c}
    /\ tx' = [tx EXCEPT ![p] = c.transactionId]
    /\ try' = [try EXCEPT ![p] = c.attempt]
    /\ Goto(p, "exists")
    /\ UNCHANGED <<recordVars, data, blobs, dispatched, started, emitted, timedOut,
                   att, snapshot, tokens, outbox, discard>>

(* At-least-once delivery.                                                 *)
Redeliver(p) ==
    /\ try[p] > 0
    /\ InHand(p) \notin completions
    /\ completions' = completions \cup {InHand(p)}
    /\ UNCHANGED <<recordVars, data, blobs, dispatched, started, emitted, timedOut, workerVars>>

CheckExists(p) ==
    /\ pc[p] = "exists"
    /\ tx[p] \in blobs
    /\ Goto(p, IF try[p] < MaxAttempts THEN "tryApply" ELSE "process")
    /\ UNCHANGED <<recordVars, storeVars, tx, try, att, snapshot, tokens, outbox, discard>>

(* Without its token the transaction is completed, and the tombstone is    *)
(* not needed any more.                                                    *)
AlreadyCompleted(p) ==
    /\ pc[p] \in {"exists", "tombstone"}
    /\ tx[p] \notin blobs
    /\ Done(p)

(* FinishProcessing with the record r: what its three side effect handlers *)
(* will delete, dispatch and delete.                                       *)
BeginFinish(p, r) ==
    /\ tokens' = [tokens EXCEPT ![p] =
                    {e.incomingId : e \in AbortedSideEffects(r) \cap CompleteRecords}]
    /\ outbox' = [outbox EXCEPT ![p] = CommittedSideEffects(r) \cap OutgoingMessage]
    /\ discard' = [discard EXCEPT ![p] = AbortedSideEffects(r) \cap OutgoingMessage]
    /\ Goto(p, "publish")

(* TryApplySideEffects only finishes its own transaction; Process finishes *)
(* whichever it finds, then checks the token and begins its own.           *)
Finishes(p) ==
    \/ pc[p] = "tryApply" /\ record.messageId = tx[p]
    \/ pc[p] = "process" /\ InTransaction(record)

LoadUnfinished(p) ==
    /\ Finishes(p)
    /\ Read(p)
    /\ BeginFinish(p, record)
    /\ UNCHANGED <<storeVars, tx, try, att, snapshot>>

LoadOther(p) ==
    /\ pc[p] \in {"tryApply", "process"}
    /\ ~Finishes(p)
    /\ Read(p)
    /\ Goto(p, IF pc[p] = "tryApply" THEN "retry" ELSE "tombstone")
    /\ UNCHANGED <<storeVars, tx, try, att, snapshot, tokens, outbox, discard>>

\* Mutant of Retry: the behavior returns instead of asking again later.
RetryForgotten(p) ==
    /\ pc[p] = "retry"
    /\ Goto(p, "done")
    /\ UNCHANGED <<recordVars, storeVars, tx, try, att, snapshot, tokens, outbox, discard>>

Retry(p) ==
    /\ pc[p] = "retry"
    /\ completions' = completions \cup {[InHand(p) EXCEPT !.attempt = @ + 1]}
    /\ Goto(p, "done")
    /\ UNCHANGED <<recordVars, data, blobs, dispatched, started, emitted, timedOut,
                   tx, try, att, snapshot, tokens, outbox, discard>>

\* Mutant of BeginTombstone: the token is not looked up after the Load.
TokenUnchecked(p) ==
    /\ pc[p] = "tombstone"
    /\ \E a \in Attempt : Unused(a) /\ att' = [att EXCEPT ![p] = a]
    /\ Goto(p, "commitTombstone")
    /\ UNCHANGED <<recordVars, storeVars, tx, try, snapshot, tokens, outbox, discard>>

BeginTombstone(p) ==
    /\ pc[p] = "tombstone"
    /\ tx[p] \in blobs
    /\ \E a \in Attempt : Unused(a) /\ att' = [att EXCEPT ![p] = a]
    /\ Goto(p, "commitTombstone")
    /\ UNCHANGED <<recordVars, storeVars, tx, try, snapshot, tokens, outbox, discard>>

(* A batch without business data.  Nothing carries the attempt id, so that *)
(* all the side effects in the record are aborted ones.                    *)
CommitTombstone(p) ==
    /\ pc[p] = "commitTombstone"
    /\ CommitStateTransition(p, tx[p], att[p])
    /\ timedOut' = timedOut \cup {tx[p]}
    /\ BeginFinish(p, record')
    /\ att' = [att EXCEPT ![p] = None]
    /\ UNCHANGED <<data, blobs, completions, dispatched, started, emitted, tx, try, snapshot>>

(* A write of the record that is refused throws.                           *)
WriteConflict(p) ==
    /\ pc[p] \in {"register", "transaction", "commit", "commitTombstone"}
    /\ WriteRefused(p)
    /\ Fail(p)

-----------------------------------------------------------------------------
(* ---- FinishProcessing: the handlers one after the other, then clear --- *)

(* CompleteMessageSideEffectsHandler.                                      *)
DeleteToken(p, t) ==
    /\ pc[p] = "publish"
    /\ t \in tokens[p]
    /\ blobs' = blobs \ {t}
    /\ tokens' = [tokens EXCEPT ![p] = @ \ {t}]
    /\ UNCHANGED <<recordVars, data, completions, dispatched, started, emitted, timedOut,
                   pc, tx, try, att, snapshot, outbox, discard>>

(* WebMessagingWithClaimCheckSideEffectsHandler.                           *)
Dispatch(p, m) ==
    /\ pc[p] = "publish"
    /\ tokens[p] = {}
    /\ m \in outbox[p]
    /\ dispatched' = dispatched \cup {m}
    /\ outbox' = [outbox EXCEPT ![p] = @ \ {m}]
    /\ UNCHANGED <<recordVars, data, blobs, completions, started, emitted, timedOut,
                   pc, tx, try, att, snapshot, tokens, discard>>

\* Mutant of Dispatched: the dispatch is not awaited.
DispatchNotAwaited(p) == tokens[p] = {}

Dispatched(p) == tokens[p] = {} /\ outbox[p] = {}

EnsureDeleted(p, m) ==
    /\ pc[p] = "publish"
    /\ Dispatched(p)
    /\ m \in discard[p]
    /\ blobs' = blobs \ {m}
    /\ discard' = [discard EXCEPT ![p] = @ \ {m}]
    /\ UNCHANGED <<recordVars, data, completions, dispatched, started, emitted, timedOut,
                   pc, tx, try, att, snapshot, tokens, outbox>>

\* Mutant of Clear: the transaction stays in the record.
ClearForgotten(p) ==
    /\ pc[p] = "publish"
    /\ Dispatched(p)
    /\ discard[p] = {}
    /\ Goto(p, "done")
    /\ UNCHANGED <<recordVars, storeVars, tx, try, att, snapshot, tokens, outbox, discard>>

Clear(p) ==
    /\ pc[p] = "publish"
    /\ Dispatched(p)
    /\ discard[p] = {}
    /\ ClearTransactionState(p)
    /\ Goto(p, IF val[p].messageId = tx[p] THEN "done" ELSE "tombstone")
    /\ outbox' = [outbox EXCEPT ![p] = {}]
    /\ UNCHANGED <<storeVars, tx, try, att, snapshot, tokens, discard>>

ClearConflict(p) ==
    /\ pc[p] = "publish"
    /\ Dispatched(p)
    /\ discard[p] = {}
    /\ ~EtagMatches(p)
    /\ Fail(p)

-----------------------------------------------------------------------------
ExecuteTransaction(p) ==
    \/ \E t \in Transaction : Request(p, t)
    \/ Load(p)
    \/ LoadMissing(p)
    \/ CreateRecord(p)
    \/ CreateConflict(p)
    \/ Register(p)
    \/ CreateToken(p)
    \/ CheckToken(p)
    \/ TimedOut(p)
    \/ ReadData(p)
    \/ \E s \in Slot : Send(p, s)
    \/ Upload(p)
    \/ EnqueueComplete(p)
    \/ Commit(p)

Invoke(p) ==
    \/ \E c \in CompleteMessage : Receive(p, c)
    \/ CheckExists(p)
    \/ AlreadyCompleted(p)
    \/ LoadUnfinished(p)
    \/ LoadOther(p)
    \/ Retry(p)
    \/ BeginTombstone(p)
    \/ CommitTombstone(p)
    \/ \E t \in Transaction : DeleteToken(p, t)
    \/ \E m \in OutgoingMessage : Dispatch(p, m)
    \/ \E m \in OutgoingMessage : EnsureDeleted(p, m)
    \/ Clear(p)
    \/ ClearConflict(p)

Handler(p) ==
    \/ ExecuteTransaction(p)
    \/ Invoke(p)
    \/ WriteConflict(p)
    \/ Complete(p)

Next == \E p \in Worker : Handler(p) \/ Redeliver(p) \/ Crash(p)

Spec == Init /\ [][Next]_vars

-----------------------------------------------------------------------------
(***************************************************************************)
(* Properties.                                                             *)
(***************************************************************************)

Guid == Attempt \cup {None}

Record == [messageId : Transaction \cup {None}, attemptId : Guid,
           sideEffects : SUBSET (OutgoingMessage \cup CompleteRecords)]

RequestStage == {"load", "create", "register", "token", "check", "read", "transaction",
                 "upload", "commit"}

MessageStage == {"exists", "tryApply", "process", "retry", "tombstone", "commitTombstone",
                 "publish"}

Stage == {"idle", "done"} \cup RequestStage \cup MessageStage

(* A request from its token check to its commit.                           *)
Attempting(p) == pc[p] \in {"read", "transaction", "upload", "commit"}

(* The type invariant: the shape that the code gives the record, the       *)
(* stores and the handlers.                                                *)
TypeOK ==
    /\ created \in BOOLEAN
    /\ record \in Record
    /\ val \in [Worker -> Record]
    /\ current \subseteq Worker
    /\ data \in [Transaction -> Nat]
    /\ blobs \subseteq Transaction \cup OutgoingMessage
    /\ completions \subseteq CompleteMessage
    /\ dispatched \subseteq OutgoingMessage
    /\ started \subseteq Transaction
    /\ emitted \subseteq OutgoingMessage
    /\ timedOut \subseteq Transaction
    /\ pc \in [Worker -> Stage]
    /\ tx \in [Worker -> Transaction \cup {None}]
    /\ \A p \in Worker : pc[p] = "idle" <=> tx[p] = None
    /\ try \in [Worker -> 0..MaxAttempts]
    /\ \A p \in Worker : pc[p] \in RequestStage \cup {"idle"} => try[p] = 0
    /\ \A p \in Worker : pc[p] \in MessageStage => try[p] > 0
    /\ \A p \in Worker : pc[p] \in {"tryApply", "retry"} => try[p] < MaxAttempts
    /\ att \in [Worker -> Guid]
    /\ \A p \in Worker : Attempting(p) \/ pc[p] = "commitTombstone" => att[p] # None
    /\ snapshot \in [Worker -> [Transaction -> Nat]]
    /\ tokens \in [Worker -> SUBSET Transaction]
    /\ outbox \in [Worker -> SUBSET OutgoingMessage]
    /\ discard \in [Worker -> SUBSET OutgoingMessage]

(* The messages of a committed request are handed to the transport, or the *)
(* record still lists them: no commit, tombstone or clear drops them.      *)
PublishedOrHeld ==
    \A m \in emitted :
        \/ m \in dispatched
        \/ InTransaction(record) /\ m \in CommittedSideEffects(record)

(* Only messages of committed requests are handed to the transport, and    *)
(* the cleanup of other attempts' messages never takes one of their bodies.*)
CommittedOnly == (dispatched \subseteq emitted) /\ (emitted \subseteq blobs)

(* A request commits at most once, and never together with the tombstone   *)
(* of its last try, in whichever order the two race.                       *)
OneOutcome == \A t \in Transaction : data[t] <= 1 /\ (t \in timedOut => data[t] = 0)

(* A commit of one request never overwrites the business data of another.  *)
NoLostUpdate == [][\A t \in Transaction : data'[t] >= data[t]]_vars

CompletionInFlight(t) ==
    \/ \E c \in completions : c.transactionId = t
    \/ \E p \in Worker : try[p] > 0 /\ tx[p] = t

(* HumanInterfaceConnector.cs:60: when a request commits, "the token for   *)
(* processing it is not deleted": no tombstone and no other transaction's  *)
(* cleanup, however far it got, comes before a commit that succeeds.       *)
CommitLeavesToken == [][\A t \in Transaction : data'[t] > data[t] => t \in blobs']_vars

(* HumanInterfaceConnector.cs:60: "the complete message is in the queue":  *)
(* a committed transaction that has its token has a complete message, in   *)
(* the transport or in the hands of a worker, whichever try it is at.      *)
CompletionOnItsWay ==
    \A t \in Transaction : record.messageId = t /\ t \in blobs => CompletionInFlight(t)

-----------------------------------------------------------------------------
(* What two comments of the code say, and a crash or a race refutes.       *)

(* HumanInterfaceConnector.cs:61: "The token can only be deleted if the    *)
(* Behavior successfully executed process": the token of a transaction     *)
(* that the record still holds is there, or a worker is at it.             *)
TokenUntilProcessed ==
    \A t \in Transaction : record.messageId = t /\ t \notin blobs =>
        \E p \in Worker : pc[p] = "publish" /\ val[p].messageId = t

(* CompleteMessageSideEffectsHandler.cs:10: "Removes the tokens created    *)
(* for transactions that timed out".                                       *)
TimedOutTokensRemoved ==
    (completions = {} /\ (\A p \in Worker : pc[p] = "idle") /\ ~InTransaction(record)) =>
        timedOut \cap blobs = {}

=============================================================================
