----------------------- MODULE RestInvocationInvariant -----------------------
(***************************************************************************)
(* The inductive invariant behind the safety properties of RestInvocation: *)
(* that of Messaging, and what makes the calls come at the right time.     *)
(* TLC checks it on a small instance, RestInvocationProofs proves it       *)
(* inductive.                                                              *)
(***************************************************************************)
EXTENDS RestInvocation, MessagingInvariant

(* The messages that the endpoint gives up: their calls were declined.     *)
Declined == {m \in errors : server[m.attemptId] = "declined"}

(* No attempt that left a side effect in r, other than the one committed   *)
(* in it, has sent anything.                                               *)
AbortedForGood(r) ==
    \A e \in AbortedSideEffects(r) :
        \A m \in emitted \cap OutgoingMessage : m.attemptId # e.attemptId

RecordCallsSound == AbortedForGood(record)

(* A finisher, even one that was overtaken: none of the attempts that it   *)
(* finds aborted will ever send, and the calls it is about to DELETE are   *)
(* calls of these.                                                         *)
FinisherCallsSound(p) ==
    /\ AbortedForGood(val[p])
    /\ \A e \in AbortedSideEffects(val[p]) :
          \A q \in current : Attempting(q) => att[q] # e.attemptId
    /\ \A a \in aborts[p] : HttpRequest(a) \in AbortedSideEffects(val[p])

FinishersCallsSound ==
    /\ \A p \in Worker : Finishing(p) => FinisherCallsSound(p)
    /\ \A p \in Worker : pc[p] # "clear" => aborts[p] = {}

(* A running attempt that still can commit: nobody has POSTed or DELETEd   *)
(* its call, and its follow-up message is registered only after the PUT.   *)
AttemptCallSound(p) ==
    /\ server[att[p]] \in {"none", "stored"}
    /\ FollowUpOf(att[p]) \in val[p].sideEffects => server[att[p]] = "stored"

AttemptsCallsSound == \A p \in current : Attempting(p) => AttemptCallSound(p)

CallsSound ==
    /\ RecordCallsSound
    /\ FinishersCallsSound
    /\ AttemptsCallsSound
    /\ ExecutedOnlyIfCommitted
    /\ CommittedCallKept

CallInv ==
    /\ SoundBut(Declined)
    /\ \A m \in errors : IsFollowUp(m)
    /\ CallsSound

=============================================================================
