------------------------- MODULE MachineInterfaceLive -------------------------
(***************************************************************************)
(* Progress of MachineInterface.  Handlers crash finitely often, and only  *)
(* finitely many requests arrive while another one is handled: overlapping *)
(* handlers of one partition can refuse each other's writes for ever.      *)
(***************************************************************************)
EXTENDS MachineInterface

CONSTANTS MaxCrashes, MaxOverlaps

ASSUME BoundsAssumption == MaxCrashes \in Nat /\ MaxOverlaps \in Nat

VARIABLES crashes, overlaps

liveVars == <<vars, crashes, overlaps>>

LiveInit == Init /\ crashes = 0 /\ overlaps = 0

Busy == \E p \in Worker : pc[p] # "idle"

Arrival ==
    /\ overlaps' = overlaps + (IF Busy THEN 1 ELSE 0)
    /\ overlaps' <= MaxOverlaps
    /\ UNCHANGED crashes

(* The requests that the caller takes back without POSTing them are left   *)
(* out: nothing is promised about them.                                    *)
Answered(r) == client[r] = "answered"

CallerStep(p) ==
    /\ Arrival
    /\ \E r \in Request : Put(p, r) \/ Post(p, r) \/ (Answered(r) /\ Delete(p, r))

HandlerStep(p) == Handler(p) /\ UNCHANGED <<crashes, overlaps>>

CrashStep(p) ==
    /\ crashes < MaxCrashes
    /\ crashes' = crashes + 1
    /\ Crash(p)
    /\ UNCHANGED overlaps

LiveNext == \E p \in Worker : CallerStep(p) \/ HandlerStep(p) \/ CrashStep(p)

(* The follow-up message is delivered until its POST has an answer.        *)
RetryPost(r) ==
    /\ client[r] = "posted"
    /\ Arrival
    /\ \E p \in Worker : Post(p, r)

(* A handler that has started goes on, and a failed POST is repeated.      *)
Fairness ==
    /\ \A p \in Worker : WF_liveVars(HandlerStep(p))
    /\ \A r \in Request : SF_liveVars(RetryPost(r))

LiveSpec == LiveInit /\ [][LiveNext]_liveVars /\ Fairness

-----------------------------------------------------------------------------
(* A request that was POSTed gets its answer in the end, whatever the      *)
(* handlers of other requests left behind in the partition: the POST that  *)
(* finds an unfinished transaction finishes it first.                      *)
EventuallyAnswered == \A r \in Request : client[r] = "posted" ~> Answered(r)

=============================================================================
