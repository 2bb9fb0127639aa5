# A verification of end-to-end deduplication

TLA+ models of the token-based deduplication library in
`src/ExactlyOnce.Entities.Cosmos.Token`, model-checked with TLC and, for the messaging
endpoint, the calls that its handlers make and both web interfaces, proved with TLAPS. Paths below are relative to that directory.

## The system

A partition of a Cosmos container holds business items and one item, `_transaction`, the
*transaction record*. Every handler that changes the partition (of a message, of a web
request) runs the same algorithm: load the record, register each side effect in it before
generating the side effect, commit the business data and the record in one batch, publish
the side effects, clear the record. Blobs serve as *one-time tokens*: a message whose blob
is gone is a duplicate.

| Component | Where | State it keeps | Operations |
|---|---|---|---|
| Processor | `ExactlyOnce.Core/ExactlyOnceProcessor.cs` | none (all in the record) | Process, ProcessWithoutApplyingSideEffects, TryApplySideEffects, FinishProcessing |
| Transaction record | `ExactlyOnce.NServiceBus.Cosmos/TransactionRecordContainer.cs` | stored item; per handler a copy and an etag | Load, AddSideEffect(s), Begin/CommitStateTransition, ClearTransactionState |
| Batch | `.../TransactionBatchContext.cs` | pending item writes | reads (no etag), creates, replaces, upserts |
| Claim check | `ExactlyOnce.NServiceBus.Blob/MessageStore.cs` | one blob per message | Create, TryGet, CheckExists, EnsureDeleted, Delete |
| Messaging endpoint | `ExactlyOnce.NServiceBus/Messaging` | none | LoadMessageBody, ExactlyOnce and CaptureOutgoingMessages behaviors, claim-check side effect handler |
| Human interface | `ExactlyOnce.NServiceBus/Web/HumanInterface` | a "complete" message per transaction | ExecuteTransaction, the behavior for complete messages, two side effect handlers |
| Machine interface | `ExactlyOnce.NServiceBus/Web/MachineInterface`, blob request/response stores | request blob, its ResponseId, response blob | PUT, POST, DELETE |
| Machine interface client | `Messaging/MachineWebInterface` and `MachineInterfaceContextExtensions.cs` | HTTP request records | InvokeRest, follow-up message, abort calls |
| Routing, configuration | `CorrelationManager.cs`, `EndpointConfigurationExtensions.cs`, ... | start-up settings | |
| Chaos monkey, tests, samples | `ExactlyOnce.NServiceBus.Testing`, `Tests`, `ExactlyOnce.AcceptanceTests`, `Sample`, `Test.*` | | |

Components meet in three places: in the **record** (any handler may find and finish the
transaction of another, and every write of one makes the etags of all others stale), in the
**claim check** (a token is created by the sender's attempt, deleted by whoever finishes the
receiver's transaction or cleans up after an aborted attempt), and in the **transport**
(dispatched messages, delayed complete messages, at-least-once delivery).

What makes it hard: there is no lock. Between any two awaits another worker may run any part
of the algorithm on the same partition; a worker may be overtaken after its commit and go on
publishing, deleting and clearing; a process may die between any two of its steps; messages
are delivered again at any time; and a token, the record and the queue are three stores
without a common transaction.

What makes each component correct:

* record: no write of a stale copy; committed and aborted side effects are told apart;
* messaging: each sent message is applied exactly once, its own messages are sent if and only
  if its attempt committed, a token lives until its message is applied, nothing is cleared
  before it is published;
* human interface: a request either commits or is timed out, never both; the messages of a
  committed one are published; its partition is opened again;
* machine interface: a request is executed once between its PUT and its DELETE, every answer
  is that of this execution, and the caller gets one;
* its client: calls of attempts that were rolled back take no effect, a call of a committed
  one is executed and its follow-up message handled;
* partitions shared by two processes: all of the above, although each process finishes the
  other's transactions with the handlers that *it* registered.

## Modules

| Module | Stands for |
|---|---|
| `TransactionRecord` | the record and the copies that workers hold; operators, no actions of its own |
| `Messaging` | the messaging endpoint on one partition; extends `TransactionRecord` |
| `ExactlyOnceDelivery` | what the endpoint promises: a pending message is applied in one step, once, and its messages become pending in that step |
| `MessagingInvariant`, `MessagingProofs` | the inductive invariant `IInv`; the theorems about `Messaging` and their proofs |
| `HumanInterface` | the human web interface on one partition; extends `TransactionRecord` |
| `HumanInterfaceInvariant`, `HumanInterfaceProofs` | the inductive invariant `IInv` of `HumanInterface`; the theorems about it and their proofs |
| `HumanInterfaceLive` | `HumanInterface` without crashes, a bounded number of repeated deliveries, and fairness |
| `MachineInterface` | the PUT, POST and DELETE handlers of the machine web interface on one partition, and their caller; extends `TransactionRecord` |
| `IdempotentRequest` | what the machine interface promises: a request has one result, and all its answers carry it |
| `MachineInterfaceInvariant`, `MachineInterfaceProofs` | the inductive invariant `IInv` of `MachineInterface`; the theorems about it and their proofs |
| `MachineInterfaceLive` | `MachineInterface` with bounded crashes and overlaps, and fairness |
| `RestInvocation` | a messaging endpoint whose handlers call a machine interface: `InvokeRest`, the follow-up message with its POST and DELETE, the DELETEs of aborted calls; extends `Messaging` |
| `RestInvocationInvariant`, `RestInvocationProofs` | the inductive invariant `CallInv` of `RestInvocation`, which contains that of `Messaging`; the theorems about `RestInvocation` and their proofs, which use the lemmas of `MessagingProofs` |
| `RestInvocationLive` | `RestInvocation` with bounded faults, and fairness |
| `PaymentProviderPartition` | the sample's payment provider: `MachineInterface` (frontend) and `Messaging` (backend) on one partition |
| `PaymentProviderInvariant`, `PaymentProviderProofs` | the inductive invariant `PartitionInv` of `PaymentProviderPartition`; the theorems about it and their proofs |
| `OrdersPartition` | the sample's orders: `HumanInterface` (web application) and `Messaging` (backend) on one partition |
| `MC*` | symmetry sets, or fixed orders for names, for TLC |

### State and code

*One action per await.* A C# handler runs without interruption from one await to the next, and
what it does in between only touches its own memory, so an action is the request that one
await sends to a store plus the local code up to the next. `pc[p]` names the await that worker
`p` is about to do. Where an await stands for several requests in parallel (`Task.WhenAll` in
`MessageStore.Create` and `EnsureDeleted`, the messages of one `Dispatch`) each is a step.

*Etag.* Cosmos gives the item a new etag with each write. An etag can only tell whether the
item was written since; `current` is the set of workers for which it was not. `Read` adds the
reader, a successful write leaves only the writer. This replaces an unbounded version counter
and loses nothing.

*Attempt ids* are Guids. `Unused(a)` holds when `a` appears in no stored record, no worker's
copy, no sent message and no blob, so a fresh Guid is any unused member of a small set: ids that
nothing refers to are used again, which keeps the instances finite.

*Messages* are the pair of an attempt id and a slot; bodies and headers are abstracted to the
existence of the blob. `account` (`data` in the web interfaces) counts, per message or request,
how often the business data was changed by it: a handler reads all of it (`snapshot`) and writes
all of it back in the batch, without an etag, as the batch API does by default.

*Failures.* A thrown exception and a dead process have the same effect: the worker forgets
everything and the transport hands out the message again (`Fail`, `Crash`). `Redeliver` is a
lock that runs out while the handler goes on. The endpoint is taken to retry for ever; moving
a message to an error queue after too many retries is an operator's matter and not modelled.
The one exception that the code declares unrecoverable, `ClientFaultHttpErrorException`, is:
`errors` in `RestInvocation`.

*History variables.* `emitted` (messages that were sent), `timedOut` in `HumanInterface`,
`execution`, `refused` and `deleted` in `MachineInterface`, `refused` in `RestInvocation` exist
for the properties and are never read by a guard except by `Unused`.

In `HumanInterface` a worker is a web request (`try[p] = 0`) or the delivery of a complete
message (`try[p]` is its attempt header). A delayed message is one that can be received at any
time from now on. The consumer of dispatched messages is outside.

In `MachineInterface` a worker is one HTTP request. The caller (`client[r]`) is the endpoint of
`RestInvocation` as a server sees it: it PUTs a request once, POSTs it when the PUT has
succeeded, as often as the follow-up message is delivered, several times at once and also
after a DELETE; it DELETEs after an answer, or instead of POSTing when its attempt was
aborted. A response is identified with the attempt that stored it. A blob's `ResponseId`
metadata (`responseId`) disappears with the blob.

`RestInvocation` adds to each step of `Messaging` the HTTP requests around it, and changes none:
`http[p]` is how far the follow-up behavior of `p` is, `aborts[p]` the DELETEs that the side
effect handler still has to send, `server[a]` the request of attempt `a` at the server. The
server is reduced to what `MachineInterface` shows of it to a caller: it stores, executes once
and answers the same thing again, declines (a status of 400 to 499 from the user's code), and
deletes. That it may be reduced so is what the `machine` runs show; that the caller of
`MachineInterface` is general enough is what `RestInvocation` shows: a POST comes only after
the PUT succeeded, and a DELETE only after an answer or for an attempt that cannot commit
any more (`CommittedCallKept`, `ExecutedOnlyIfCommitted`).

The two partition modules have no actions of their own. They instantiate two components over
the same record, business data, blobs and queue; each side's step leaves the private state
of the other alone, and `NewGuids` says that an id made by one is unknown to the other. A side
effect that no handler of the finishing process knows is skipped, because each
`SideEffectsHandler<T>` only takes the records of its own type: in the models an effect that is not
an element of the finisher's sets. `OtherEffect` names what a record that `Messaging` loads may
hold besides messages: nothing in `Messaging` alone, the HTTP requests of `RestInvocation`, the
records of the web handlers in the shared partitions.

## Runs

| Run | Bounds | Shows |
|---|---|---|
| `messaging` | 2 workers, 3 attempt ids, 1 send per attempt, 2 initial messages, both may send | type invariant, exactly-once, tokens, no loss, no lost update, publish before clear, the inductive invariant `IInv`, refinement of `ExactlyOnceDelivery` |
| `human` | 2 workers, 2 requests, 3 attempt ids, 1 send, 2 tries | type invariant, one outcome, published or held, nothing of an aborted attempt dispatched, complete message on its way, no lost update, the token is there at a commit, the inductive invariant `IInv` |
| `human_live` | as `human`, no crashes, 1 repeated delivery | every committed message dispatched, record freed |
| `human_token` | 1 worker, 1 request | **violated**: token gone, messages not published |
| `machine` | 2 workers, 2 requests, 2 attempt ids, 1 send | type invariant, one execution, answerable until deleted, published or held, refused only after a DELETE, no lost update, the inductive invariant `IInv`, refinement of `IdempotentRequest` |
| `machine_live` | 2 workers, 2 requests one at a time, 4 attempt ids, 1 send, 2 crashes | every POSTed request answered |
| `machine_stuck` | as `machine_live`, 1 crash, 1 overlap, no sends | **violated**: a record that nobody can clear |
| `rest` | 2 workers, 3 attempt ids, 1 initial message that may call | aborted calls take no effect, committed ones are kept, a message is lost only if its call was declined |
| `rest_live` | 1 worker, 5 attempt ids, 2 initial messages of which one calls, 2 faults | every message applied, every token gone, no stored request forgotten |
| `payment` | 1 frontend and 1 backend worker, 1 request, 1 initial message, 3 attempt ids, 1 send | messages applied once, none lost, only committed ones sent, no lost update |
| `payment_twice` | same | **violated**: payload processed twice |
| `orders_twice` | 2 web workers, 1 backend worker, 1 request, 1 initial message | **violated**: message processed twice |

*Why these bounds.* Two workers are enough for every race between two handlers, including a
worker that is overtaken by two or more successive transactions of the other one. Two messages
(or requests) are the least for a transaction of one to be finished by a worker of another.
Three attempt ids let an aborted attempt, a committed one and a running one exist together; with
2 workers a fourth adds no new kind of state (the `human` instance was also run with four:
under two percent more states up to symmetry). The `machine` instance has two, which let a
request have an aborted and a committed attempt; with three (2,468,902 states, three and a half
minutes) the eight properties other than `IInv` hold too. One send per attempt is enough for dispatch to be
interrupted before and after it; with one await per message more sends only repeat it. With 2
tries a complete message has an ordinary try and a last one, which is all the code
distinguishes (`attempt < maxAttempts`); the code uses 6. The orders need two web workers
because the request and the last try of its complete message have to exist at once.

*Deadlock checking* is off: the number of messages or requests is finite and a system that has
handled all of them stops.

*Symmetry* is used in safety runs only: workers, attempts and requests are only compared
for equality. Initial messages are not in the set of `Messaging`. The liveness instances break the
symmetry by hand: `Named` lets a new attempt take one fixed member of the ids that the code's
guard allows, and calls the first request to arrive by a fixed name. It never forbids a step
altogether, so it takes no fair action away.

*Fairness.* A worker that is running goes on (weak fairness of its steps: the thread pool
runs continuations, stores answer), and the transport delivers every message that stays
available (strong fairness per message: a message that is locked and abandoned again and
again is still received eventually). Crashes and repeated deliveries are finite in number, because
no algorithm makes progress against endless crashes.

* `rest_live` has one worker: with two, `EventuallyApplied` fails even so (see 5 below), and that
  is all the code guarantees.
* `human_live` has no crash at all, because a single crash can leave the record closed
  (`human_token`).
* `machine_live` adds strong fairness of a repeated POST, which is `rest_live`'s promise that a
  follow-up message is delivered until it is handled. Requests come one at a time: with
  a crash and an overlap the partition can close for ever (`machine_stuck`). Without a crash,
  one overlap does no harm (`MCMachineInterfaceOverlap.cfg`).

*Further configurations*, which are not part of the standing runs and are checked by hand with
`tlc -config <cfg> <module>`:

| Configuration | Module | Result |
|---|---|---|
| `MCMachineInterfaceOverlap.cfg` | `MachineInterfaceLive` | `EventuallyAnswered` holds with one overlap and no crash |
| `MCOrders.cfg` | `MCOrders` | `OneOutcome`, `NoMessageLost`, `NoLostUpdate` hold on the shared partition of the orders |
| `MCMessagingGarbage.cfg` | `MCMessaging` | `NoGarbage` is violated (4 below) |
| `MCRestInvocationInvariant.cfg` | `MCRestInvocation` | `CallInv` holds in the instance of `rest` (the standing run has the properties that follow from it) |
| `MCPaymentProviderInvariant.cfg` | `MCPaymentProvider` | `PartitionTypeOK` and `PartitionInv` hold in the instance of `payment` (605,668 states; the standing run has the properties that follow from them) |
| `MCRestInvocationLivelock.cfg` | `RestInvocationLive` | `SomeAttemptWins` is violated (5) |
| `MCHumanInterfaceLeak.cfg` | `MCHumanInterface` | `TimedOutTokensRemoved` is violated (6) |
| `MCRestInvocationProtocol.cfg` | `MCRestInvocation` | `NoPostAfterDelete` is violated (7) |
| `MCRestInvocationDeclined.cfg` | `MCRestInvocation` | `DeclinedReachesHandler` is violated (8) |
| `MCRestInvocationDelete.cfg` | `RestInvocationLive` | `DeleteRetried` is violated (9) |

### Disagreements between code and text

1. **Token of a human transaction** (`human_token`). `HumanInterfaceConnector.cs:61` says it
   can only be deleted if the behavior successfully executed. The complete record carries the
   transaction id as attempt id and the commit another Guid, so the transaction's own complete
   record is "aborted"; the handler that deletes its token is first in the list. After a crash
   right then, redelivered complete messages stop at the missing token.
2. **A partition that stays closed** (`machine_stuck`). Two POSTs of one request overlap. Both
   load a free record; X commits and associates its response; Y finds the token gone, answers with
   that response, and the caller DELETEs the request. X dies before it clears the record. Every
   later POST of the partition finds X's transaction, finishes it, and throws at `SetMetadata`
   (`HttpResponseSideEffectsHandler.cs:32`) on a blob that is gone. The acceptance test's
   scenario list (`When_communicating_between_machines.cs:34`) asks for payloads to be
   processed *even if failures happen on the server*.
3. **Two processes on one partition** (`payment_twice`, `orders_twice`). Both samples give two
   processes the same container and partition. Each finishes the transactions it finds there with
   its own handlers, and then clears the record: the backend of the payment provider does not
   know `HttpResponseRecord`, so the request keeps its token and the repeated POST charges again;
   the web handlers of the orders delete no message token, so the backend's message is
   processed again. The scenario list asks for exactly-once in both cases (lines 34 and 38).
4. **Garbage in the claim check.** The comment of `ExactlyOnceProcessor` (line 19)
   says metadata is stored before the bodies *to prevent accumulation of garbage*. X registers
   its message and is overtaken; Y commits, deletes X's body, which is not there yet, and clears
   the record; X uploads and is refused. Nobody knows about the body any more.
5. **Optimistic concurrency lets one attempt win** (`README.md:20`). Registering side effects
   already writes the record, so an attempt that has not won makes others lose. Two workers can
   keep doing so to each other.
6. **Tokens of timed-out transactions.** `CompleteMessageSideEffectsHandler.cs:10`
   promises to remove them. A request whose complete record was cleared by another transaction's
   commit before it created its token leaves the token for good.
7. **POST after DELETE.** `MachineInterfaceConnector.cs:71` takes it for a client that *did not
   follow the protocol*. The library's client POSTs before anything looks whether the follow-up
   message is a duplicate, so a redelivery after the DELETE does it; the 400 is unrecoverable, and
   a message that was handled correctly ends in the error queue.
8. **Declined calls.** `Sample/Billing/ProcessAuthorizeResponseHandler.cs:18` handles the
   status `BadRequest`. The behavior throws for every status from 400 to 499 before the handler runs.
9. **"Retrying."** `MachineInterfaceFollowUpMessageHandlingBehavior.cs:48` says so when the
   DELETE fails. By then the token is gone and the retried message is dropped as a duplicate
   before the behavior is reached; request and response stay at the server.

One thing the models show to be redundant: the check of the token at
`HumanInterfaceConnector.cs:64` never decides an outcome. A token that is missing there was
deleted after a write of the record that the request's etag does not survive, so the commit
would be refused in any case. The check saves work, not correctness. The second check of
`ExactlyOnceBehavior.cs:37`, by contrast, is what `AppliedAtMostOnce` rests on, as is the one
at `HumanInterfaceMessageSideEffectsBehavior.cs:76` for `OneOutcome`.

## Proofs

### The messaging endpoint

`MessagingProofs` proves, for every set of workers, messages, attempt ids and slots that meets
`ConstantsAssumption` (the ids are distinct from each other and from `None`; a side effect of
another handler is no message and carries an attempt id):

* `TypeCorrect`, `Invariant`: `TypeOK` and `IInv` always hold;
* `ExactlyOnce`, `TokenSafe`, `NothingLost`, `CommittedOnly`: the four safety invariants;
* `UpdatesKept`, `PublishedBeforeCleared`: the two action properties;
* `Refinement`: the endpoint implements `ExactlyOnceDelivery`.

*The argument.* None of the safety invariants is inductive: what protects them is in the hands
of workers that are half way through. `IInv` says what those workers know.

* `CurrentCopy`: a worker whose etag matches holds the stored record. Every write of the record
  is guarded by this, so each of the other parts only has to speak of current workers.
* `AttemptsUnique`: running attempts do not share ids, and no committed message has the id of
  a running attempt; so what `AbortedSideEffects` yields is never a committed message.
* `RecordSound`: the message of a record in transaction has been applied and its committed
  messages are sent; the aborted ones never were.
* `AttemptSound`: a current worker that is attempting has an unapplied message and an up-to-date
  snapshot. This is the step for which the second token check is needed: the token is
  there after the load, so by `DataSound` the message is not applied unless the record names it,
  and the record is free.
* `FinisherSound`: a finisher, overtaken or not, only dispatches committed messages, only deletes
  messages that can never be committed, and has in transit or applied what it no longer has
  to dispatch. A current finisher that is about to clear has deleted the token.
* `DataSound`: an applied message has a token only while the record names it.

Each action is one lemma or one case under `StepInv`, with one step for each part that it
disturbs. The refinement proof maps `Commit` to `ApplyOnce` and every other action to a stutter.
`IInv` is `SoundBut({})`: the lemmas are about `SoundBut(lost)` for any set `lost` of messages that
need not arrive, so that the proofs about an endpoint that may give up a message use them as they
are.

### The calls of an endpoint

`RestInvocationProofs` proves, for the same constants with `CallAssumption` (the follow-up
message is one of the sends, and the HTTP requests are among the `OtherEffect`):

* `CallTypeCorrect`, `CallInvariant`: `CallTypeOK` and `CallInv` always hold;
* `CallsCommitted`, `CallsKept`, `DeclinedLost`: the three safety invariants.

*The argument.* Of the steps of `RestInvocation` only two kinds are neither steps of `Messaging`
nor stutters of it (`StepKinds`): the registration of a call, and a client fault, which
completes a message that was not handled. For all others `SoundBut` is carried over by
the lemma of `MessagingProofs`; `RegisterInv` and `FaultSound` do the rest, with `Declined`
for `lost`. A message given up by a client fault is in `Declined`, or was applied before: that is
where `CommittedCallKept` is needed, and why the invariants are proved together. What is new
in `CallInv`:

* `RecordCallsSound`, `FinisherCallsSound`: the attempts that a record lists as aborted have sent
  nothing, and the ones that a finisher's copy lists, however old the copy is, are not
  running with an etag that matches either. So no DELETE of an aborted call (`AbortedNotSent`)
  hits a request that somebody will POST.
* `AttemptCallSound`: the request of an attempt that still can commit was neither POSTed nor
  DELETEd, and is stored once its follow-up message is registered: the PUT comes before
  `CaptureOutgoing`. Hence the commit that sends the message finds the request stored.

`PostedSent` and `DeleteApplied` add that a POST comes of a message that was sent, and the follow-up
behavior's DELETE of one that was applied, be it by this delivery or by another. `ServerChange`
sums up what any step does to a request at the server; `ExecutedOnlyIfCommitted` and
`CommittedCallKept` follow from it, because messages stay sent and applied.

### The human web interface

`HumanInterfaceProofs` proves, for every set of workers, transactions, attempt ids and slots, and
every number of tries, that meets `HumanAssumption` (a transaction id is neither an attempt id
nor a message, nothing of these is `None`, and a complete message has at least one try):

* `TypeCorrect`, `Invariant`: `TypeOK` and `IInv` always hold;
* `NothingForgotten`, `OnlyCommitted`, `CommitOrTombstone`, `CompletionNotLost`: the four safety
  invariants;
* `UpdatesKept`, `TokenAtCommit`: the two action properties.

*The argument.* A request and the last try of its complete message race for one outcome, and
they may be the same transaction seen by two workers, or by three. What decides the race is
the token: the request creates it and looks for it before its user code runs, the last
try deletes it before it commits its tombstone, and both commits go through the record's etag.

* `UnstartedSound`, `RequestsSound`: a request is the only one of its transaction, and
  neither its complete record nor its complete message exists before it comes to them. Therefore
  a token that a request creates is not one that somebody has already deleted.
* `AttemptSound`: a current request between its token and its commit has its complete record in
  the record, its token in the store, and no finisher has the token among those it will
  still delete: such a finisher read the complete record from a record that was since cleared,
  and the request's own write would have refused it. This is what makes the check at
  `HumanInterfaceConnector.cs:64` redundant, and what `TokenAtCommit` follows from. When it
  commits, its complete message is in the transport or in hand (`CompletionHeld`) and has not
  closed the transaction.
* `TombstonesSound`: a current last try is of a transaction that did not commit, because it
  found a free record and no token after that; its attempt id is that of no side effect.
* `RecordSound`, `FinisherSound`: as for messages; in addition the record of a committed request
  lists its complete record, and a current finisher that has no token of it left to delete has
  deleted it.
* `TokensSound`: a committed transaction has its token only while the record names it, and has a
  complete message as long as it has both.

The type invariant had to say more than the shape of the variables: which stages a request and
a complete message go through, and that a try before the last one never commits a tombstone.

### The machine web interface

`MachineInterfaceProofs` proves, for every set of workers, requests, attempt ids and slots that
meets `MachineAssumption` (request and attempt ids differ, and none of them is `None`):

* `TypeCorrect`, `Invariant`: `TypeOK` and `IInv` always hold;
* `AppliedOnce`, `AnswerKept`, `NothingForgotten`, `OnlyCommitted`, `NeverRefusedEarly`: the five
  safety invariants;
* `UpdatesKept`: the action property;
* `Refinement`: the interface implements `IdempotentRequest`.

*The argument.* The record and its finishers are as in `Messaging`; what is new is a caller that
may delete a request while POSTs of it are running, and a response that is stored before the
commit and tied to the request after it.

* `ClientSound`, `CallsSound`: only a request that was answered, or never POSTed, is deleted. So
  no POST runs of a request that was taken back, and the blob of a request that a POST may
  still execute is there.
* `AttemptsUnique`, `RecordSound`: the ids of running attempts and those of the aborted effects
  in the record executed nothing. Therefore cleaning up never hits a response or a body that an
  execution needs.
* `AttemptSound`: a current attempt has an unexecuted request, an up-to-date snapshot and its bodies
  uploaded, and before it commits its response is stored. Hence a commit changes `data[r]` from
  0 to 1, and `execution[r]` from `None` to an id that no other request has.
* `FinisherSound`: the transaction that a finisher holds was executed by the attempt it names; it
  publishes only committed messages and deletes only what can never be committed, also after it
  was overtaken. A current one about to clear has taken the token away.
* `DataSound`: the blob of an executed request is a token only while the record names the
  request, and its response id can only be that of the execution.
* `AnswersSound`: whoever answers, or deletes a response, holds the response of the execution,
  and a duplicate that has nothing to look up was deleted.

Each action is one lemma, which first states what the step does to each variable and then has
one step per part of `IInv`. `RefusedDeleted` shows that each way to a refusal presupposes a
DELETE. The refinement maps `Commit` to `Execute`, `Answer` to `Reply`, the caller's `Delete` to
`Delete`, the three refusals to `Refuse`, and every other action to a stutter.

### The payment provider's partition

`PaymentProviderProofs` proves, for every set of frontend and backend workers, requests, messages,
attempt ids and slots that meets `PartitionAssumption` (the ids of workers, requests, messages and
responses are of different kinds, and an initial message is not one that either process sent):

* `PartitionTypeCorrect`, `PartitionInvariant`: `PartitionTypeOK` and `PartitionInv` always hold;
* `MessagesAppliedOnce`, `MessagesNotLost`, `CommittedSent`: the three safety invariants;
* `AccountUpdatesKept`: the action property.

*The argument.* The invariants of `Messaging` and `MachineInterface` cannot be taken as they are:
a finisher may hold a transaction of the other process, with effects that it skips and a message id
of the other kind. `PartitionInv` therefore speaks of a worker without saying whose it is, and of
messages only. What makes messages safe although requests are not (`payment_twice`):

* `FinisherSound`: only the backend deletes tokens of messages. The frontend publishes the messages
  of a backend transaction that it finds, but stops before `clear`, because `Associate` needs the
  request's blob: the message id of the transaction is none of a request. So whoever is about to
  clear with a matching etag clears a request's transaction, or has deleted the token, and
  `DataSound` holds: an applied message has a token only while the record names it.
* `AttemptSound` asks for an unapplied message only of the backend. For a request it says nothing
  of the kind, and nothing of the kind is true.
* `AttemptsUnique` goes over both processes: that a Guid of one is unknown to the other
  (`NewGuids`) is what keeps the cleanup of one from the bodies of the other's running attempts.

The proof has one lemma per kind of step, stated over what the step does to each variable and
not over the process that takes it: `LocalStep` covers every step that writes neither the record
nor the stores, and `CreateRecordStep`, `AddEffectsStep`, `UploadStep`, `DeleteBodyStep`,
`DeleteTokenStep`, `ClearStep`, `CommitStep` the others. `FrontendInv` and `BackendInv` map each
action of either process to its kind.

### Only model-checked

All liveness properties (`human_live`, `machine_live`, `rest_live`) stay with TLC: liveness under
fairness is outside the prover's reach. So do the properties of the orders' partition
(`MCOrders.cfg`), which have no invariant yet.

## Not modelled, and why

* Partition routing: `CorrelationManager` and the application state stores look up a container
  and a partition key from a message or a request; a pure function of start-up settings.
* Serialisation of side effect records (`TransportOperationUtils`): a pure conversion; the models
  keep the identity of the message.
* Start-up configuration: no state after start. What it decides, the list of side effect handlers
  of each kind of endpoint, is in the models.
* Chaos monkey: injects, for the acceptance tests, the failures that the models have as `Crash`
  and `Fail` at every await.
* Samples: controllers, views and action filters are the applications' own; what they do with a
  transaction (read, write back, send) is what the models take any handler to do.
  `HumanInterfaceActionFilter` commits a batch after an action that threw, and
  `OrderController.AddItem` writes outside of any transaction: both bypass the library.
* `Sample/Orders/wwwroot`: `lib` is third-party (jQuery, its validation plug-ins, Bootstrap),
  `js/site.js` is a comment.

## Plan

1. *Done:* `TransactionRecord`, `Messaging` with its abstract specification, invariant and
   proofs; both web interfaces with liveness, invariants and proofs, the machine
   interface with its abstract specification; the calls of an endpoint to a machine interface; the
   partitions that the samples share. The invariant of `Messaging` is carried over to
   `RestInvocation`; the partition of the payment provider has an invariant and proofs of its own.
2. Proofs: an invariant of `OrdersPartition`, by kinds of steps as for the payment provider.
3. `TransportOperations`: the round trip of delivery constraints; `ChaosMonkey`: which failures
   fire, in which order.
