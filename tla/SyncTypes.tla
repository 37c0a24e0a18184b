------------------------------ MODULE SyncTypes ------------------------------
(***************************************************************************)
(* Vocabulary shared by the phone and the server of the synchronization    *)
(* protocol.  An operation is named by its rowid in the queue of the phone *)
(* (in the code, a UUID that is its idempotency key); a route or a trip is *)
(* named by the operation that created it (in the code, a UUID of its own).*)
(***************************************************************************)
EXTENDS Integers, FiniteSets

CONSTANTS
  Account,      \* the users that may log in on this phone
  NoAccount,    \* no session, or data without an owner
  MaxOps        \* rows the queue may get (bounds the model)

ASSUME SyncTypesAssumption == NoAccount \notin Account /\ MaxOps \in Nat

Op == 1..MaxOps
Owner == Account \cup {NoAccount}

(* entity:OPERATION of what the phone queues. *)
Kind == {"route:UPSERT", "route:DELETE",
         "trip:CREATE", "points:CREATE", "trip:FINISH", "trip:CANCEL"}
RouteKind == {"route:UPSERT", "route:DELETE"}

(* Error codes of a permanent rejection (4xx). *)
Code == {"VALIDATION_ERROR", "CONFLICT", "TRIP_NOT_FOUND", "TRIP_NOT_ACTIVE"}

(* SyncOperationResult: APPLIED, DUPLICATE, FAILED and retryable           *)
(* (TRANSIENT), or FAILED for good with a code.                            *)
Result == {"APPLIED", "DUPLICATE", "TRANSIENT"} \cup Code

IsFirst(o, S) == o \in S /\ \A p \in S : o <= p

NoAnswer == [o \in Op |-> "none"]

=============================================================================
