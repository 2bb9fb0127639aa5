---------------------------- MODULE RestInvocation ----------------------------
(***************************************************************************)
(* A messaging endpoint that calls machine interfaces from its handlers:   *)
(* InvokeRest registers the call in the record and PUTs it, the follow-up  *)
(* message POSTs it before it is processed and DELETEs it afterwards       *)
(* (MachineInterfaceFollowUpMessageHandlingBehavior), and finishing a      *)
(* transaction DELETEs the calls of aborted attempts                       *)
(* (MachineInterfaceInvocationSideEffectsHandler).                         *)
(*                                                                         *)
(* The steps of Messaging are taken as they are, with the HTTP requests    *)
(* between them.  An attempt makes at most one call, whose uniqueId is     *)
(* identified with the attempt's id.  The server is what IdempotentRequest *)
(* says of it, here by the state of the request.                           *)
(***************************************************************************)
EXTENDS Messaging

CONSTANT FollowUp   \* the slot of the send that carries the request's url


FollowUpOf(a) == [attemptId |-> a, slot |-> FollowUp]

IsFollowUp(m) == \E a \in Attempt : m = FollowUpOf(a)

(* HttpRequestRecord.                                                      *)
HttpRequest(a) == [attemptId |-> a, url |-> a]

HttpRequests == {HttpRequest(a) : a \in Attempt}

ASSUME CallAssumption ==
    /\ FollowUp \in Slot
    /\ HttpRequests \subseteq OtherEffect

VARIABLES
    server,     \* server[a]: the request of attempt a at the machine interface
    http,       \* http[p]: how far the delivery in hand is with its call
    aborts,     \* aborts[p]: calls of aborted attempts it has yet to DELETE
    errors,     \* messages moved to the error queue
    refused     \* history: calls POSTed when the server had no request

httpVars == <<server, http, aborts, errors, refused>>
callVars == <<vars, httpVars>>

CallInit ==
    /\ Init
    /\ server = [a \in Attempt |-> "none"]
    /\ http = [p \in Worker |-> "none"]
    /\ aborts = [p \in Worker |-> {}]
    /\ errors = {}
    /\ refused = {}

\* Mutant of ForgetCalls: what a delivery knows of its call outlives it.
CallRemembered(p) == UNCHANGED <<http, aborts>>

ForgetCalls(p) ==
    /\ http' = [http EXCEPT ![p] = "none"]
    /\ aborts' = [aborts EXCEPT ![p] = {}]

(* A DELETE of what is not there succeeds and does not prevent a later PUT.*)
DeleteAtServer(a) ==
    server' = [server EXCEPT ![a] = IF @ = "none" THEN @ ELSE "deleted"]

-----------------------------------------------------------------------------
(* ---- The follow-up message: POST, process, DELETE --------------------- *)

LoadBody(p) ==
    /\ LoadMessageBody(p)
    /\ http' = [http EXCEPT ![p] = IF IsFollowUp(msg[p]) THEN "post" ELSE "none"]
    /\ UNCHANGED <<server, aborts, errors, refused>>

(* The server executes the request, or repeats the answer it has stored.   *)
PostAccepted(p) ==
    LET a == msg[p].attemptId
    IN  /\ http[p] = "post"
        /\ server[a] \in {"stored", "accepted"}
        /\ server' = [server EXCEPT ![a] = "accepted"]
        /\ http' = [http EXCEPT ![p] = "open"]
        /\ UNCHANGED <<vars, aborts, errors, refused>>

(* ClientFaultHttpErrorException is unrecoverable: the message moves to    *)
(* the error queue.                                                        *)
ClientFault(p) ==
    /\ Ack(p)
    /\ ForgetCalls(p)
    /\ errors' = errors \cup {msg[p]}

(* The user's code on the server answered with a status of 400 to 499.     *)
PostDeclined(p) ==
    LET a == msg[p].attemptId
    IN  /\ http[p] = "post"
        /\ server[a] \in {"stored", "declined"}
        /\ server' = [server EXCEPT ![a] = "declined"]
        /\ ClientFault(p)
        /\ UNCHANGED refused

(* The server has no such request and answers 400.                         *)
PostRefused(p) ==
    LET a == msg[p].attemptId
    IN  /\ http[p] = "post"
        /\ server[a] \in {"none", "deleted"}
        /\ refused' = refused \cup {a}
        /\ ClientFault(p)
        /\ UNCHANGED server

(* The rest of the pipeline has returned, with a duplicate or not.         *)
Returned(p) == pc[p] = "ack" \/ (pc[p] = "checkExists" /\ msg[p] \notin blobs)

\* Mutant of DeleteCall: the DELETE is sent before the message is processed.
DeleteCallEarly(p) ==
    /\ http[p] = "open"
    /\ DeleteAtServer(msg[p].attemptId)
    /\ http' = [http EXCEPT ![p] = "closed"]
    /\ UNCHANGED <<vars, aborts, errors, refused>>

DeleteCall(p) ==
    /\ http[p] = "open"
    /\ Returned(p)
    /\ DeleteAtServer(msg[p].attemptId)
    /\ http' = [http EXCEPT ![p] = "closed"]
    /\ UNCHANGED <<vars, aborts, errors, refused>>

(* Any other status than success throws.                                   *)
DeleteCallFails(p) ==
    /\ http[p] = "open"
    /\ Returned(p)
    /\ Fail(p)
    /\ ForgetCalls(p)
    /\ UNCHANGED <<server, errors, refused>>

-----------------------------------------------------------------------------
(* ---- InvokeRest, in the user's handler -------------------------------- *)

Calls(p) == pc[p] = "capture" /\ FollowUpOf(att[p]) \in outbox[p]

Registered(p) == HttpRequest(att[p]) \in val[p].sideEffects

Register(p) ==
    /\ Calls(p)
    /\ ~Registered(p)
    /\ AddSideEffects(p, {HttpRequest(att[p])})
    /\ UNCHANGED <<storeVars, workerVars, httpVars>>

(* Only a PUT that succeeds lets the handler send the follow-up message.   *)
PutDue(p) == Calls(p) /\ Registered(p) /\ server[att[p]] = "none"

Put(p) ==
    /\ PutDue(p)
    /\ server' = [server EXCEPT ![att[p]] = "stored"]
    /\ UNCHANGED <<vars, http, aborts, errors, refused>>

CallDone(p) == Calls(p) => Registered(p) /\ server[att[p]] # "none"

-----------------------------------------------------------------------------
(* ---- MachineInterfaceInvocationSideEffectsHandler, before Clear ------- *)

BeginAborts(p) ==
    /\ DeleteToken(p)
    /\ aborts' = [aborts EXCEPT ![p] =
                    {e.attemptId : e \in AbortedSideEffects(val[p]) \cap HttpRequests}]
    /\ UNCHANGED <<server, http, errors, refused>>

AbortCall(p, a) ==
    /\ a \in aborts[p]
    /\ DeleteAtServer(a)
    /\ aborts' = [aborts EXCEPT ![p] = @ \ {a}]
    /\ UNCHANGED <<vars, http, errors, refused>>

(* The status of the answer is not looked at.                              *)
AbortCallFails(p, a) ==
    /\ a \in aborts[p]
    /\ aborts' = [aborts EXCEPT ![p] = @ \ {a}]
    /\ UNCHANGED <<vars, server, http, errors, refused>>

-----------------------------------------------------------------------------
(* ---- The steps of Messaging around the HTTP requests ------------------ *)

(* A new Guid is not that of an earlier call either.                       *)
BeginAttempt(p) ==
    /\ CheckExists(p)
    /\ server[att'[p]] = "none"
    /\ \A q \in Worker : att'[p] \notin aborts[q]

Loads(p) == LoadFree(p) \/ LoadUnfinished(p) \/ LoadMissing(p)

MessagingStep(p) ==
    /\ \/ http[p] # "post" /\ Loads(p)
       \/ CreateRecord(p)
       \/ BeginAttempt(p)
       \/ Handle(p)
       \/ CallDone(p) /\ CaptureOutgoing(p)
       \/ \E m \in OutgoingMessage : Upload(p, m)
       \/ Commit(p)
       \/ \E m \in OutgoingMessage : Dispatch(p, m)
       \/ \E m \in OutgoingMessage : EnsureDeleted(p, m)
       \/ aborts[p] = {} /\ Clear(p)
    /\ UNCHANGED httpVars

MessagingStop(p) ==
    /\ \/ http[p] # "open" /\ IgnoreDuplicate(p)
       \/ http[p] # "open" /\ Complete(p)
       \/ CreateConflict(p)
       \/ ~PutDue(p) /\ WriteConflict(p)
       \/ aborts[p] = {} /\ ClearConflict(p)
    /\ ForgetCalls(p)
    /\ UNCHANGED <<server, errors, refused>>

Pipeline(p) ==
    \/ LoadBody(p)
    \/ PostAccepted(p)
    \/ PostDeclined(p)
    \/ PostRefused(p)
    \/ DeleteCall(p)
    \/ Register(p)
    \/ Put(p)
    \/ BeginAborts(p)
    \/ \E a \in Attempt : AbortCall(p, a)
    \/ MessagingStep(p)
    \/ MessagingStop(p)

(* A failed PUT or POST leaves the server as it was or not, and throws: it *)
(* is a crash before or after the request.                                 *)
CrashCall(p) ==
    /\ Crash(p)
    /\ ForgetCalls(p)
    /\ UNCHANGED <<server, errors, refused>>

Fault(p) ==
    \/ DeleteCallFails(p)
    \/ \E a \in Attempt : AbortCallFails(p, a)
    \/ CrashCall(p)

Deliver(p, m) == Receive(p, m) /\ UNCHANGED httpVars

RedeliverCall(p) == Redeliver(p) /\ UNCHANGED httpVars

CallNext ==
    \E p \in Worker :
        \/ \E m \in Message : Deliver(p, m)
        \/ Pipeline(p)
        \/ RedeliverCall(p)
        \/ Fault(p)

CallSpec == CallInit /\ [][CallNext]_callVars

-----------------------------------------------------------------------------
(***************************************************************************)
(* Properties.                                                             *)
(***************************************************************************)

(* The type invariant, with that of Messaging.                             *)
CallTypeOK ==
    /\ TypeOK
    /\ server \in [Attempt -> {"none", "stored", "accepted", "declined", "deleted"}]
    /\ http \in [Worker -> {"none", "post", "open", "closed"}]
    /\ \A p \in Worker : http[p] # "none" => IsFollowUp(msg[p])
    /\ aborts \in [Worker -> SUBSET Attempt]
    /\ errors \subseteq Message
    /\ refused \subseteq Attempt

Executed(a) == server[a] \in {"accepted", "declined"}

(* A call takes effect only if the attempt that made it committed: what an *)
(* attempt that was rolled back has PUT is never POSTed.                   *)
ExecutedOnlyIfCommitted == \A a \in Attempt : Executed(a) => FollowUpOf(a) \in emitted

(* The request of a committed attempt stays at the server until its        *)
(* follow-up message has been applied: neither the DELETEs of aborted      *)
(* calls nor the DELETE of another delivery come too early.                *)
CommittedCallKept ==
    \A a \in Attempt : FollowUpOf(a) \in emitted /\ account[FollowUpOf(a)] = 0 =>
        server[a] = "stored" \/ Executed(a)

(* A follow-up message that was not applied is on its way, or its call was *)
(* declined: a POST that a DELETE or an abort overtook loses none.         *)
LostOnlyIfDeclined ==
    \A m \in emitted : account[m] = 0 =>
        \/ InTransit(m)
        \/ InTransaction(record) /\ m \in CommittedSideEffects(record)
        \/ m \in errors /\ server[m.attemptId] = "declined"

-----------------------------------------------------------------------------
(* What the code and its tests say of calls, and the library refutes.      *)

(* MachineInterfaceConnector.cs:71: a client that "issued a POST after a   *)
(* DELETE" "did not follow the protocol"; the library's own client does.   *)
NoPostAfterDelete == refused = {}

(* ProcessAuthorizeResponseHandler.cs:18 handles a response with status    *)
(* BadRequest: a declined call's follow-up message reaches its handler.    *)
DeclinedReachesHandler == \A m \in errors : account[m] > 0

=============================================================================
