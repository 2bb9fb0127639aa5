-------------------------- MODULE HumanInterfaceLive --------------------------
(***************************************************************************)
(* Progress of HumanInterface while no worker crashes.  (A single crash    *)
(* can close the partition, see TokenUntilProcessed.)  Complete messages   *)
(* may be delivered again, finitely often.                                 *)
(***************************************************************************)
EXTENDS HumanInterface

CONSTANT MaxRedeliveries

ASSUME RedeliveriesAssumption == MaxRedeliveries \in Nat

VARIABLE redeliveries

liveVars == <<vars, redeliveries>>

LiveInit == Init /\ redeliveries = 0

RedeliverAny ==
    /\ redeliveries < MaxRedeliveries
    /\ redeliveries' = redeliveries + 1
    /\ \E p \in Worker : Redeliver(p)

HandlerStep(p) ==
    /\ Handler(p)
    /\ UNCHANGED redeliveries

LiveNext == RedeliverAny \/ \E p \in Worker : HandlerStep(p)

(* A handler that has started goes on; the transport hands out a complete  *)
(* message that stays visible, or is visible again and again.              *)
Running(p) == pc[p] # "idle" /\ HandlerStep(p)

ReceiveAny(c) ==
    /\ \E p \in Worker : Receive(p, c)
    /\ UNCHANGED redeliveries

Fairness ==
    /\ \A p \in Worker : WF_liveVars(Running(p))
    /\ \A c \in CompleteMessage : SF_liveVars(ReceiveAny(c))

LiveSpec == LiveInit /\ [][LiveNext]_liveVars /\ Fairness

-----------------------------------------------------------------------------
(* Every message of a committed request is dispatched in the end: by the   *)
(* complete message of the request, at whichever try it finds the commit,  *)
(* or by the last try of another request.                                  *)
EventuallyPublished == []<>(emitted \subseteq dispatched)

(* The partition never stays closed: requests are refused while the record *)
(* is in a transaction, and never finish one themselves.                   *)
RecordFreed == []<>~InTransaction(record)

=============================================================================
