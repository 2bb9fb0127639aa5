-------------------------- MODULE IdempotentRequest --------------------------
(***************************************************************************)
(* What the machine web interface promises the caller, with nothing of how *)
(* it is done: a stored request is executed in one atomic step, once; each *)
(* reply carries the result of that execution; and a request that the      *)
(* caller has deleted is refused and never executed.                       *)
(***************************************************************************)
CONSTANTS Request, Result, NoResult

VARIABLES
    result,     \* result[r]: what the execution of r returned
    replies,    \* replies[r]: the results the caller received
    deleted,    \* requests that the caller deleted
    refused     \* requests that were refused

requestVars == <<result, replies, deleted, refused>>

RequestInit ==
    /\ result = [r \in Request |-> NoResult]
    /\ replies = [r \in Request |-> {}]
    /\ deleted = {}
    /\ refused = {}

Execute(r) ==
    /\ result[r] = NoResult
    /\ r \notin deleted
    /\ \E x \in Result :
          /\ \A q \in Request : result[q] # x
          /\ result' = [result EXCEPT ![r] = x]
    /\ UNCHANGED <<replies, deleted, refused>>

Reply(r) ==
    /\ result[r] # NoResult
    /\ replies' = [replies EXCEPT ![r] = @ \cup {result[r]}]
    /\ UNCHANGED <<result, deleted, refused>>

(* The caller deletes what it has a reply to, or takes back a request that *)
(* was not executed.                                                       *)
Delete(r) ==
    /\ replies[r] # {} \/ result[r] = NoResult
    /\ deleted' = deleted \cup {r}
    /\ UNCHANGED <<result, replies, refused>>

Refuse(r) ==
    /\ r \in deleted
    /\ refused' = refused \cup {r}
    /\ UNCHANGED <<result, replies, deleted>>

RequestNext == \E r \in Request : Execute(r) \/ Reply(r) \/ Delete(r) \/ Refuse(r)

RequestSpec == RequestInit /\ [][RequestNext]_requestVars

=============================================================================
