------------------------------ MODULE SyncQueue ------------------------------
(***************************************************************************)
(* The phone's side of synchronization: the sync_queue table and the round *)
(* of SyncService that sends it.                                           *)
(*                                                                         *)
(* Operations are identified by their rowid, which is also their place in  *)
(* the queue.  Every local change adds a row; a round goes through         *)
(*                                                                         *)
(*   idle -> points -> select -> post -> wait -> results -> select ...     *)
(*                        |                |-> retry -+                    *)
(*                        +-> finish <-----+----------+ -> idle            *)
(*                                                                         *)
(* with one step per await at which something else may run.  The server is *)
(* the environment: it answers a request with any results, refuses it,     *)
(* reports an outage, or does not answer.  Time is the flag "waiting" of a *)
(* row (its nextAttemptAt lies in the future).  A COMPLETED row stands for *)
(* one purged after a week too: nothing tells them apart.                  *)
(***************************************************************************)
EXTENDS SyncTypes

CONSTANTS
  BatchSize,    \* operations per push request
  MaxAttempts   \* attempts before a failing operation is set aside

ASSUME SyncQueueAssumption == BatchSize \in Nat \ {0} /\ MaxAttempts \in Nat \ {0}

VARIABLES
  row,       \* the table: row[o] for every rowid o
  session,   \* the account logged in, read as _auth.currentSession
  pc,        \* where the round is
  acct,      \* the account the round started with
  batch,     \* operations of the request not answered for yet
  oneByOne,  \* requests that still carry a single operation
  answer,    \* results of the response still to be handled
  done,      \* operations the response reports as done
  blocked    \* an operation of this response is to be retried

roundVars == <<pc, acct, batch, oneByOne, answer, done, blocked>>
queueVars == <<row, session, roundVars>>

Status == {"NONE", "PENDING", "SYNCING", "COMPLETED", "FAILED"}
Row == [status : Status, owner : Owner, retries : 0..MaxAttempts,
        waiting : BOOLEAN, error : Result \cup {"none", "REFUSED"}]

Stage == {"idle", "points", "select", "post", "wait", "results", "retry", "finish"}

QueueTypeOK ==
  /\ row \in [Op -> Row]
  /\ session \in Owner
  /\ pc \in Stage
  /\ acct \in Owner
  /\ batch \in SUBSET Op
  /\ oneByOne \in 0..MaxOps
  /\ answer \in [Op -> Result \cup {"none"}]
  /\ done \in SUBSET Op
  /\ blocked \in BOOLEAN

-----------------------------------------------------------------------------
(* The table (SyncQueueStore). *)

NoRow == [status |-> "NONE", owner |-> NoAccount, retries |-> 0,
          waiting |-> FALSE, error |-> "none"]
NewRow(a) == [NoRow EXCEPT !.status = "PENDING", !.owner = a]

(* First free rowid. *)
IsNext(o) == \A p \in Op : row[p].status = "NONE" <=> p >= o

(* A definition named ...Mutant is the one after it with a plausible bug:  *)
(* the run that checks a property must find it violated with the mutant.   *)
AnyonesPendingMutant(a) == {o \in Op : row[o].status = "PENDING"}
Pending(a) == {o \in Op : row[o].status = "PENDING" /\ row[o].owner = a}

(* Mutant: operations that wait are skipped instead of holding the rest.  *)
NextBatchMutant(a, n) ==
  {o \in Pending(a) :
     LET upTo == {p \in Pending(a) : p <= o /\ ~row[p].waiting}
     IN  o \in upTo /\ Cardinality(upTo) <= n}

(* nextBatch: the first n pending operations of a, up to one that waits. *)
NextBatch(a, n) ==
  {o \in Pending(a) :
     LET upTo == {p \in Pending(a) : p <= o}
     IN  Cardinality(upTo) <= n /\ \A p \in upTo : ~row[p].waiting}

(* _limitSize keeps the first operations whose JSON fits, at least one:    *)
(* which ones depends on sizes the model does not have.                    *)
Prefixes(S) == {P \in SUBSET S : P # {} /\ \A o \in P, p \in S : p <= o => p \in P}

WithStatus(S, s) == [o \in Op |-> IF o \in S THEN [row[o] EXCEPT !.status = s] ELSE row[o]]

(* Attempts are only compared with MaxAttempts, so they stop there. *)
Bump(n) == IF n < MaxAttempts THEN n + 1 ELSE n

(* lastError is kept for a FAILED row only: nothing reads it before. *)
Retried(r) == [r EXCEPT !.status = "PENDING", !.retries = Bump(@), !.waiting = TRUE]
Rejected(r, e) == [r EXCEPT !.status = "FAILED", !.retries = Bump(@), !.error = e]
Reinstated(r) ==
  [r EXCEPT !.status = "PENDING", !.retries = 0, !.waiting = FALSE, !.error = "none"]

Interrupted == {o \in Op : row[o].status = "SYNCING"}

-----------------------------------------------------------------------------
QueueInit ==
  /\ row = [o \in Op |-> NoRow]
  /\ session \in Owner
  /\ pc = "idle"
  /\ acct = NoAccount
  /\ batch = {}
  /\ oneByOne = 0
  /\ answer = NoAnswer
  /\ done = {}
  /\ blocked = FALSE

(* A repository stores a local change of account a with its operation o. *)
Add(o, a) ==
  /\ IsNext(o)
  /\ row' = [row EXCEPT ![o] = NewRow(a)]
  /\ UNCHANGED <<session, roundVars>>

(* The user logs in, logs out or changes account. *)
SwitchSession(a) ==
  /\ session' = a
  /\ a # session
  /\ UNCHANGED <<row, roundVars>>

(* The user retries what was set aside. *)
RetryFailed ==
  /\ row' = [o \in Op |->
               IF row[o].status = "FAILED" /\ row[o].owner = session
               THEN Reinstated(row[o]) ELSE row[o]]
  /\ row' # row
  /\ UNCHANGED <<session, roundVars>>

(* The backoff of operation o is over.  Only the selection of a batch can  *)
(* tell, so it is let end just before one.                                 *)
BackoffOver(o) ==
  /\ pc = "select"
  /\ row[o].waiting
  /\ row' = [row EXCEPT ![o].waiting = FALSE]
  /\ UNCHANGED <<session, roundVars>>

-----------------------------------------------------------------------------
(* The round (SyncService._run and _push). *)

(* Mutants: nothing is recovered; everything is put back. *)
NoRecoveryMutant ==
  /\ pc = "idle" /\ session # NoAccount
  /\ acct' = session /\ pc' = "points"
  /\ UNCHANGED <<row, session, batch, oneByOne, answer, done, blocked>>

RecoverAllMutant ==
  /\ pc = "idle" /\ session # NoAccount
  /\ acct' = session /\ pc' = "points"
  /\ row' = WithStatus({o \in Op : row[o].status # "NONE"}, "PENDING")
  /\ UNCHANGED <<session, batch, oneByOne, answer, done, blocked>>

(* synchronize() with no round running: interrupted operations are recovered. *)
BeginRound ==
  /\ pc = "idle"
  /\ session # NoAccount
  /\ acct' = session
  /\ row' = WithStatus(Interrupted, "PENDING")
  /\ pc' = "points"
  /\ UNCHANGED <<session, batch, oneByOne, answer, done, blocked>>

(* queuePendingPoints has returned; the rows it adds are Add steps.        *)
PointsQueued ==
  /\ pc = "points"
  /\ pc' = "select"
  /\ UNCHANGED <<session, acct, batch, oneByOne, answer, done, blocked>>

Limit == IF oneByOne > 0 THEN 1 ELSE BatchSize
SinglesLeftMutant == oneByOne - 1
SinglesLeft == IF oneByOne > 0 THEN oneByOne - 1 ELSE 0

(* The loop goes on while the session is the round's: a batch is marked.   *)
SelectBatch ==
  /\ pc = "select"
  /\ session = acct
  /\ \E b \in Prefixes(NextBatch(acct, Limit)) :
       /\ batch' = b
       /\ row' = WithStatus(b, "SYNCING")
  /\ oneByOne' = SinglesLeft
  /\ pc' = "post"
  /\ UNCHANGED <<session, acct, answer, done, blocked>>

(* Nothing (more) to send, or another account logged in. *)
PushOver ==
  /\ pc = "select"
  /\ session # acct \/ NextBatch(acct, Limit) = {}
  /\ pc' = "finish"
  /\ UNCHANGED <<row, session, acct, batch, oneByOne, answer, done, blocked>>

(* The request leaves with the token of the session at that moment. *)
Post ==
  /\ pc = "post"
  /\ session # NoAccount
  /\ pc' = "wait"
  /\ UNCHANGED <<row, session, acct, batch, oneByOne, answer, done, blocked>>

(* The batch goes back to pending, no attempt is counted, the round stops: *)
(* no connection, timeout, expired session or an answer that is no answer. *)
Release ==
  /\ row' = WithStatus(batch, "PENDING")
  /\ batch' = {}
  /\ pc' = "finish"
  /\ UNCHANGED <<session, acct, oneByOne, answer, done, blocked>>

(* Without a session the request carries no token and the API refuses it. *)
PostUnauthorized == pc = "post" /\ session = NoAccount /\ Release

NoReply == pc = "wait" /\ Release

(* 429 or 5xx for the whole request: every operation is retried later.     *)
Unavailable ==
  /\ pc = "wait"
  /\ pc' = "retry"
  /\ UNCHANGED <<row, session, acct, batch, oneByOne, answer, done, blocked>>

(* markRetry, a write for each operation of the failed request in turn.    *)
RetryNext ==
  /\ pc = "retry"
  /\ \E o \in Op :
       /\ IsFirst(o, batch)
       /\ row' = [row EXCEPT ![o] = Retried(@)]
       /\ batch' = batch \ {o}
  /\ pc' = IF batch' = {} THEN "finish" ELSE "retry"
  /\ UNCHANGED <<session, acct, oneByOne, answer, done, blocked>>

(* Mutant: the next batch is a full one again. *)
SplitBatchMutant ==
  /\ pc = "wait" /\ Cardinality(batch) > 1
  /\ row' = WithStatus(batch, "PENDING") /\ batch' = {} /\ pc' = "select"
  /\ UNCHANGED <<session, acct, oneByOne, answer, done, blocked>>

(* 400 or 413 for a request of several operations: they go one by one. *)
SplitBatch ==
  /\ pc = "wait"
  /\ Cardinality(batch) > 1
  /\ row' = WithStatus(batch, "PENDING")
  /\ oneByOne' = Cardinality(batch)
  /\ batch' = {}
  /\ pc' = "select"
  /\ UNCHANGED <<session, acct, answer, done, blocked>>

(* Mutant: every operation of the request is blamed. *)
RejectBatchMutant ==
  /\ pc = "wait"
  /\ row' = [o \in Op |-> IF o \in batch THEN Rejected(row[o], "REFUSED") ELSE row[o]]
  /\ batch' = {} /\ pc' = "select"
  /\ UNCHANGED <<session, acct, oneByOne, answer, done, blocked>>

(* 400 or 413 for a request of one operation: it is the one at fault. *)
RejectSingle ==
  /\ pc = "wait"
  /\ Cardinality(batch) = 1
  /\ row' = [o \in Op |-> IF o \in batch THEN Rejected(row[o], "REFUSED") ELSE row[o]]
  /\ batch' = {}
  /\ pc' = "select"
  /\ UNCHANGED <<session, acct, oneByOne, answer, done, blocked>>

(* The response arrives: one result for some operations of the batch. *)
Answered(results) ==
  /\ pc = "wait"
  /\ answer' = [o \in Op |-> IF o \in batch THEN results[o] ELSE "none"]
  /\ done' = {}
  /\ blocked' = FALSE
  /\ pc' = "results"
  /\ UNCHANGED <<row, session, acct, batch, oneByOne>>

Unhandled == {o \in Op : answer[o] # "none"}
Succeeded(r) == r \in {"APPLIED", "DUPLICATE"}

(* Mutant: what is not retried is done. *)
ResultDoneMutant(o) ==
  /\ answer[o] # "TRANSIENT"
  /\ done' = done \cup {o}
  /\ UNCHANGED <<row, blocked>>

ResultDone(o) ==
  /\ Succeeded(answer[o])
  /\ done' = done \cup {o}
  /\ UNCHANGED <<row, blocked>>

(* Mutants: no operation holds the ones behind it; attempts have no limit. *)
NotHeldMutant(o) == answer[o] = "TRANSIENT" /\ row[o].retries + 1 < MaxAttempts
NoLimitMutant(o) == answer[o] = "TRANSIENT" \/ blocked

MayRetry(o) == (answer[o] = "TRANSIENT" \/ blocked) /\ row[o].retries + 1 < MaxAttempts

ResultRetried(o) ==
  /\ ~Succeeded(answer[o])
  /\ MayRetry(o)
  /\ row' = [row EXCEPT ![o] = Retried(@)]
  /\ blocked' = TRUE
  /\ UNCHANGED done

ResultRejected(o) ==
  /\ ~Succeeded(answer[o])
  /\ ~MayRetry(o)
  /\ row' = [row EXCEPT ![o] = Rejected(@, answer[o])]
  /\ UNCHANGED <<done, blocked>>

(* The next result, in the order of the batch; each is a write of its own. *)
HandleResult ==
  /\ pc = "results"
  /\ \E o \in Op :
       /\ IsFirst(o, Unhandled)
       /\ ResultDone(o) \/ ResultRetried(o) \/ ResultRejected(o)
       /\ answer' = [answer EXCEPT ![o] = "none"]
       /\ batch' = batch \ {o}
  /\ UNCHANGED <<session, pc, acct, oneByOne>>

(* After the last result: markCompleted, and release of what has no result.*)
(* One step: the server answers for every operation of the batch or fails, *)
(* so there is nothing to release.                                         *)
BatchOver ==
  /\ pc = "results"
  /\ Unhandled = {}
  /\ row' = [o \in Op |-> CASE o \in done  -> [row[o] EXCEPT !.status = "COMPLETED"]
                            [] o \in batch \ done -> [row[o] EXCEPT !.status = "PENDING"]
                            [] OTHER -> row[o]]
  /\ batch' = {}
  /\ done' = {}
  /\ blocked' = FALSE
  /\ pc' = "select"
  /\ UNCHANGED <<session, acct, oneByOne, answer>>

FinishRound ==
  /\ pc = "finish"
  /\ pc' = "idle"
  /\ acct' = NoAccount
  /\ oneByOne' = 0
  /\ UNCHANGED <<row, session, batch, answer, done, blocked>>

(* The app dies: the table and the stored session survive, the round does  *)
(* not.  In "finish" nothing is left to lose: dying there is FinishRound.  *)
AppKilled ==
  /\ pc \notin {"idle", "finish"}
  /\ pc' = "idle"
  /\ acct' = NoAccount
  /\ batch' = {}
  /\ oneByOne' = 0
  /\ answer' = NoAnswer
  /\ done' = {}
  /\ blocked' = FALSE
  /\ UNCHANGED <<row, session>>

(* What the phone does by itself while a round runs. *)
RoundStep ==
  \/ SelectBatch \/ PushOver \/ HandleResult \/ BatchOver \/ FinishRound
  \/ PostUnauthorized \/ RetryNext

=============================================================================
