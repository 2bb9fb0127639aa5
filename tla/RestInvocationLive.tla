-------------------------- MODULE RestInvocationLive --------------------------
(***************************************************************************)
(* Progress of RestInvocation when at most MaxFaults things go wrong:      *)
(* crashes (also for PUTs and POSTs that fail) and repeated deliveries,    *)
(* counted in faults, and DELETE requests that the server fails, counted   *)
(* in httpFaults.                                                          *)
(***************************************************************************)
EXTENDS RestInvocation

CONSTANT MaxFaults

ASSUME FaultsAssumption == MaxFaults \in Nat

VARIABLES faults, httpFaults

liveVars == <<callVars, faults, httpFaults>>

LiveInit == CallInit /\ faults = 0 /\ httpFaults = 0

FaultStep ==
    /\ faults + httpFaults < MaxFaults
    /\ faults' = faults + 1
    /\ \E p \in Worker : RedeliverCall(p) \/ CrashCall(p)
    /\ UNCHANGED httpFaults

HttpFaultStep ==
    /\ faults + httpFaults < MaxFaults
    /\ httpFaults' = httpFaults + 1
    /\ \E p \in Worker : DeleteCallFails(p) \/ \E a \in Attempt : AbortCallFails(p, a)
    /\ UNCHANGED faults

DeliverAny(m) ==
    /\ \E p \in Worker : Deliver(p, m)
    /\ UNCHANGED <<faults, httpFaults>>

PipelineStep(p) == Pipeline(p) /\ UNCHANGED <<faults, httpFaults>>

LiveNext ==
    \/ FaultStep
    \/ HttpFaultStep
    \/ \E m \in Message : DeliverAny(m)
    \/ \E p \in Worker : PipelineStep(p)

(* A running pipeline goes on, and the transport hands out every message   *)
(* that stays visible.                                                     *)
Fairness ==
    /\ \A p \in Worker : WF_liveVars(PipelineStep(p))
    /\ \A m \in Message : SF_liveVars(DeliverAny(m))

LiveSpec == LiveInit /\ [][LiveNext]_liveVars /\ Fairness

-----------------------------------------------------------------------------
Declined(m) == m \in errors /\ server[m.attemptId] = "declined"

(* Every message that is sent is applied in the end: a crash anywhere      *)
(* between receiving it and clearing the record is recovered from by a     *)
(* later delivery of it or of another message.  For a follow-up message    *)
(* this is When_communicating_between_machines.cs:35, the call "delivered  *)
(* even if failures happen on the client", unless the server declines it.  *)
EventuallyApplied ==
    \A m \in Message : m \in emitted ~> account[m] > 0 \/ Declined(m)

(* Every token is eventually gone, those of rolled-back attempts included  *)
(* (README.md:37): with one worker no upload can come after its deletion.  *)
(* Only messages in the error queue keep theirs.                           *)
TokensEventuallyGone == <>[](blobs \subseteq errors)

(* In the end no request stays untouched at the server, unless the record  *)
(* of an unfinished transaction still lists it for whoever finishes it: a  *)
(* crash after the token is deleted ends the redeliveries, but not the     *)
(* aborts that are still to be sent.  One that the server fails is not     *)
(* sent again (MachineInterfaceInvocationSideEffectsHandler.cs:22).        *)
StoredCallsHeld ==
    <>[](\A a \in Attempt : server[a] = "stored" /\ httpFaults = 0 =>
            InTransaction(record) /\ HttpRequest(a) \in AbortedSideEffects(record))

(* MachineInterfaceFollowUpMessageHandlingBehavior.cs:48 throws when the   *)
(* DELETE fails, "Retrying.": the request is deleted in the end.           *)
DeleteRetried == \A a \in Attempt : server[a] = "accepted" ~> server[a] = "deleted"

(* README.md:20: when attempts overlap, optimistic concurrency ensures     *)
(* that one wins, and the next attempt of the loser does not overlap - so  *)
(* a message that is being attempted is applied in the end.  Registering   *)
(* side effects already moves the etag: two attempts can keep refusing     *)
(* each other, with no fault after the one that made them overlap.         *)
SomeAttemptWins ==
    \A m \in Message :
        (\E p \in Worker : Attempting(p) /\ msg[p] = m) ~> account[m] > 0

=============================================================================
