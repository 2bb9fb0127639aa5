-------------------------- MODULE TransactionRecord --------------------------
(***************************************************************************)
(* The transaction record of one partition: the Cosmos item "_transaction" *)
(* and the copies of it that the running handlers hold.  Every operation   *)
(* of TransactionRecordContainer is an operator here; the modules of the   *)
(* message, web and HTTP endpoints take their steps from them.             *)
(*                                                                         *)
(* An _etag changes with every write, so all that an etag held by a        *)
(* handler can tell is whether the item was written since the handler read *)
(* or wrote it.  `current' is the set of workers whose etag is still the   *)
(* item's etag: a read puts the reader in, a successful write leaves the   *)
(* writer alone in it.                                                     *)
(***************************************************************************)
CONSTANTS
    Worker,     \* handlers that may run at the same time, in any process
    None        \* a null MessageId or AttemptId

VARIABLES
    created,    \* the item has been created
    record,     \* the stored item (an empty record until it is created)
    val,        \* val[p]: the copy that worker p holds
    current     \* the workers whose etag is the stored one

recordVars == <<created, record, val, current>>

EmptyRecord == [messageId |-> None, attemptId |-> None, sideEffects |-> {}]

RecordInit ==
    /\ created = FALSE
    /\ record = EmptyRecord
    /\ val = [p \in Worker |-> EmptyRecord]
    /\ current = {}

-----------------------------------------------------------------------------
(* Load: read the item, or create it when it is not there.  The two are    *)
(* separate requests, and a create that finds the item throws.             *)

Read(p) ==
    /\ val' = [val EXCEPT ![p] = record]
    /\ current' = current \cup {p}
    /\ UNCHANGED <<created, record>>

\* Mutant of Create: the answer to the create request is not read.
CreateUnread(p) ==
    /\ ~created
    /\ created' = TRUE
    /\ record' = EmptyRecord
    /\ val' = [val EXCEPT ![p] = None]
    /\ current' = {p}

Create(p) ==
    /\ ~created
    /\ created' = TRUE
    /\ record' = EmptyRecord
    /\ val' = [val EXCEPT ![p] = EmptyRecord]
    /\ current' = {p}

(* The container object dies with the handler that loaded it.              *)
Forget(p) ==
    /\ val' = [val EXCEPT ![p] = EmptyRecord]
    /\ current' = current \ {p}
    /\ UNCHANGED <<created, record>>

-----------------------------------------------------------------------------
(* Writes.  IfMatchEtag makes the store refuse the write of a worker that  *)
(* is not current.                                                         *)

\* Mutant of EtagMatches: the write is sent without IfMatchEtag.
EtagIgnored(p) == TRUE

EtagMatches(p) == p \in current

\* Mutant of Replace: the writer keeps the etag it had before.
ReplaceEtagKept(p, new) ==
    /\ EtagMatches(p)
    /\ record' = new
    /\ val' = [val EXCEPT ![p] = new]
    /\ current' = {}
    /\ UNCHANGED created

Replace(p, new) ==
    /\ EtagMatches(p)
    /\ record' = new
    /\ val' = [val EXCEPT ![p] = new]
    /\ current' = {p}
    /\ UNCHANGED created

InTransaction(r) == r.messageId # None

AddSideEffects(p, effects) ==
    /\ ~InTransaction(val[p])
    /\ Replace(p, [val[p] EXCEPT !.sideEffects = @ \cup effects])

CommitStateTransition(p, m, a) ==
    /\ ~InTransaction(val[p])
    /\ Replace(p, [val[p] EXCEPT !.messageId = m, !.attemptId = a])

ClearTransactionState(p) == Replace(p, EmptyRecord)

(* What makes AddSideEffects or CommitStateTransition throw; Clear only    *)
(* throws on the etag.                                                     *)
WriteRefused(p) == InTransaction(val[p]) \/ ~EtagMatches(p)

-----------------------------------------------------------------------------
(* The side effects that the committed attempt registered, and those that  *)
(* every other attempt left in the record.                                 *)

\* Mutants: a filter on the attempt id left out, or turned round.
AllSideEffects(r) == r.sideEffects
NoSideEffects(r) == {}

CommittedSideEffects(r) == {e \in r.sideEffects : e.attemptId = r.attemptId}

AbortedSideEffects(r) == {e \in r.sideEffects : e.attemptId # r.attemptId}

=============================================================================
