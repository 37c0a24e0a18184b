---------------------------- MODULE SyncProperties ----------------------------
(***************************************************************************)
(* What SyncSystem must satisfy: the promises of the queue of the phone,   *)
(* of a round, and of the two ends together, the fairness under which      *)
(* every operation is settled, and what the comments of the code claim     *)
(* that it does not do.                                                    *)
(***************************************************************************)
EXTENDS SyncSystem

-----------------------------------------------------------------------------
(* The queue. *)

(* An operation the phone reports as completed (markCompleted) was applied *)
(* by the server at least once, through lost answers, duplicates, crashes, *)
(* rejections and retries of what had been rejected.                       *)
CompletedWasApplied == \A o \in Op : row[o].status = "COMPLETED" => o \in applied

(* A round that runs knows every row marked SYNCING: a row left behind by  *)
(* an interrupted round would never be sent again (nextBatch takes PENDING *)
(* rows only), so recoverInterrupted must come before anything is sent.    *)
SyncingIsInBatch == pc # "idle" => Interrupted = batch \cup done

(* A round handles operations of the account it started with only, also    *)
(* when the session changes under it (nextBatch filters by account).       *)
RoundKeepsToItsAccount ==
  \A o \in batch \cup done \cup Unhandled : row[o].owner = acct

(* An operation in a request has no older pending operation of its account *)
(* behind it, unless the user put that one back during the round: nothing  *)
(* overtakes an operation that waits for its next attempt (nextBatch).     *)
NothingOvertakes ==
  pc \in {"post", "wait"} =>
    \A o \in batch, p \in Pending(acct) : p < o => p \in reinstated

(* A request refused as a whole (400, 413) costs only the operation at     *)
(* fault: its neighbours are sent one by one and never set aside for it.   *)
OnlyOffenderRefused == \A o \in Op : row[o].error = "REFUSED" => o \in Refused

(* Points, finish and cancel of a trip are set aside as TRIP_NOT_FOUND     *)
(* only when the creation of the trip was set aside too, or put back by    *)
(* the user meanwhile: a creation that is only to be retried holds what    *)
(* depends on it ("Operations after a retried one may depend on it").      *)
CausalFailure ==
  [][\A o \in Op :
       /\ row[o].status = "SYNCING" /\ row'[o].status = "FAILED"
       /\ row'[o].error = "TRIP_NOT_FOUND"
       => LET creation == payload[o].item
          IN  row[creation].status = "FAILED" \/ creation \in reinstated]_vars

-----------------------------------------------------------------------------
(* The two ends. *)

Quiet == \A s \in Slot : In(s, "free")
About(i) == {o \in Inserted : payload[o].item = i}
AllCompleted(i) == \A o \in About(i) : row[o].status = "COMPLETED"

(* Once every operation about a trip is completed and no request runs, the *)
(* server holds the trip the phone recorded: its owner, how it ended and   *)
(* every batch of fixes, wherever a handler failed or the server stopped.  *)
TripConverged ==
  Quiet => \A i \in Inserted :
    payload[i].kind = "trip:CREATE" /\ i \notin unqueued /\ AllCompleted(i) =>
      /\ store.owner[i] = row[i].owner
      /\ store.trip[i] = IF IsQueued("trip:FINISH", i) THEN "COMPLETED"
                         ELSE IF IsQueued("trip:CANCEL", i) THEN "CANCELLED" ELSE "ACTIVE"
      /\ store.points[i] = {o \in About(i) : payload[o].kind = "points:CREATE"}

(* The distance of a finished trip counts every fix that was stored, also  *)
(* those that came late or were sent again, unless a handler was cut off   *)
(* between its write and its measuring, or a finish came between the look- *)
(* up and the write of a batch (what TripMeasured says is not so).         *)
DistanceKept ==
  Quiet => \A i \in Op \ unmeasured :
    store.trip[i] = "COMPLETED" => store.measured[i] = store.points[i]

(* Once every operation about a saved route is completed and no request    *)
(* runs, the server has the route if and only if the phone kept it.        *)
RouteConverged ==
  Quiet => \A i \in Inserted :
    payload[i].kind = "route:UPSERT" /\ AllCompleted(i) =>
      store.owner[i] = IF IsQueued("route:DELETE", i) THEN NoAccount ELSE row[i].owner

-----------------------------------------------------------------------------
(* The outbox promise of module Delivery. *)

Report(status) ==
  CASE status = "NONE" -> "new"
    [] status \in {"PENDING", "SYNCING"} -> "queued"
    [] status = "COMPLETED" -> "completed"
    [] status = "FAILED" -> "aside"

Reported == [o \in Op |-> Report(row[o].status)]

D == INSTANCE Delivery WITH state <- Reported, effects <- applied

(* Every step of the phone, the network and the server keeps the promise   *)
(* of the outbox: nothing forgotten, completed means applied and is final. *)
ImplementsDelivery == D!DeliverySpec

(* The successes a request knows of are operations of A. *)
RequestIsBacked(q, A) ==
  /\ q.seen \subseteq A
  /\ \A o \in Op : Succeeded(q.result[o]) => o \in A
  /\ q.phase \in {"measuring", "recording"} /\ q.code = "OK" => \A o \in Op : IsFirst(o, q.todo) => o \in A

(* Why a completed operation was applied: a success the phone or a request *)
(* holds, and an event that says APPLIED, come from a dispatch that took   *)
(* effect (SynchronizationService.applyOne records after dispatch).        *)
SuccessIsBacked ==
  /\ \A s \in Slot : RequestIsBacked(req[s], applied)
  /\ \A u \in Account, o \in Op : event[u][o] = "APPLIED" => o \in applied
  /\ \A o \in Op : Succeeded(answer[o]) => o \in applied
  /\ done \subseteq applied

(* Where a round stands in each of its stages: what it has in hand is      *)
(* SYNCING, is not handled twice, and is put down before the next batch.   *)
RoundInHand ==
  /\ batch \cup done \subseteq Interrupted
  /\ batch \cap done = {}
  /\ Unhandled \subseteq batch
  /\ pc \in {"idle", "points", "select", "finish"} => batch = {}
  /\ pc # "results" => done = {} /\ Unhandled = {}

-----------------------------------------------------------------------------
(* Liveness. *)

(* Rounds start by themselves (a periodic timer), the app and the server   *)
(* go on with what they began, and a backoff that is over is seen by one   *)
(* of the following rounds.                                                *)
PhoneStep == QueuePendingPoints \/ StartRound \/ ContinueRound \/ \E s \in Slot : SendRequest(s)
ServerStep(s) == Work(s) \/ Deliver(s) \/ Discard(s)

Fairness ==
  /\ WF_vars(PhoneStep)
  /\ \A s \in Slot : WF_vars(ServerStep(s))
  /\ \A o \in Op : SF_vars(ClockTicks(o))

LiveSpec == Spec /\ Fairness

(* Trouble that prevents any progress while it lasts. *)
Trouble ==
  \/ \E s \in Slot : GiveUp(s) \/ GatewayTimeout(s) \/ ServerCrash(s) \/ Outage(s)
  \/ KillApp \/ UserRetries \/ \E a \in Owner : Login(a)

Settled(o) == row[o].status \in {"COMPLETED", "FAILED"}

(* When connections, crashes and restarts stop interfering, every operation*)
(* of the account logged in is completed or set aside, even if the server  *)
(* keeps failing on it (maxAttempts: "so it cannot block the queue         *)
(* forever") or refuses the request that carries it.                       *)
EveryOpSettles ==
  <>[][~Trouble]_vars =>
    \A o \in Op : [](row[o].status # "NONE" /\ row[o].owner = session
                     => <>(Settled(o) \/ row[o].owner # session))

(* A round ends, whatever the server answers or fails to answer, unless the*)
(* user keeps putting operations back: every later round and the next pull *)
(* wait for it (synchronize() runs one round at a time).                   *)
RoundEnds == <>[][~UserRetries]_vars => (pc # "idle" ~> pc = "idle")

-----------------------------------------------------------------------------
(* What comments in the code say. *)

(* "Completes the trip and stores its travelled distance (geodesic length  *)
(* of the track)" (TripsService.finish), which the phone takes for done    *)
(* once every operation about the trip is completed.                       *)
TripMeasured ==
  Quiet => \A i \in Inserted :
    store.trip[i] = "COMPLETED" /\ AllCompleted(i) => store.measured[i] = store.points[i]

(* "FAILED and retryable (...): retried with exponential backoff, the rest *)
(* of the queue waits behind it" (SyncService): no operation of the account*)
(* completes while an older one of it waits for its next attempt.          *)
RestOfQueueWaits ==
  [][\A o, p \in Op :
       /\ p < o /\ row[p].owner = row[o].owner
       /\ row[o].status # "COMPLETED" /\ row'[o].status = "COMPLETED"
       => ~(row[p].status = "PENDING" /\ row[p].waiting)]_vars

(* "Stops if another account logs in: its session must not send these"     *)
(* (SyncService): a request carries operations of its own account only.    *)
OwnSession ==
  \A s \in Slot : \A o \in req[s].todo : row[o].owner = req[s].user

=============================================================================
