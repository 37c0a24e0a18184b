------------------------------ MODULE SyncSystem ------------------------------
(***************************************************************************)
(* The push half of synchronization end to end: the repositories of the    *)
(* phone that store a change with its operation, the queue and its rounds  *)
(* (SyncQueue), the network, and the server (SyncServer).  The phone waits *)
(* for one request at a time, but one it gave up on (a timeout, the app    *)
(* killed) may still be running on the server when the next one arrives.   *)
(***************************************************************************)
EXTENDS SyncQueue, SyncServer

CONSTANTS
  NoSlot,     \* no request is awaited
  UserDoes    \* what the user does in this instance: changes, "login", "retry"

ASSUME SyncSystemAssumption == NoSlot \notin Slot /\ UserDoes \subseteq Kind \cup {"login", "retry"}

VARIABLES
  conn,        \* the slot whose answer the phone awaits
  unqueued,    \* trips with fixes stored and not queued yet
  reinstated   \* history: operations the user retried while this round runs

vars == <<queueVars, serverVars, payload, conn, unqueued, reinstated>>

SystemTypeOK ==
  /\ QueueTypeOK
  /\ ServerTypeOK
  /\ conn \in Slot \cup {NoSlot}
  /\ unqueued \in SUBSET Op
  /\ reinstated \in SUBSET Op

Init ==
  /\ QueueInit
  /\ session # NoAccount
  /\ ServerInit
  /\ payload = [o \in Op |-> [kind |-> "route:UPSERT", item |-> o]]
  /\ conn = NoSlot
  /\ unqueued = {}
  /\ reinstated = {}

ServerIdle == UNCHANGED serverVars
Inserted == {o \in Op : row[o].status # "NONE"}

-----------------------------------------------------------------------------
(* Local changes: each is one transaction with its operation. *)

(* Queued operation o of kind k about item i. *)
Queued(o, k, i) == payload' = [payload EXCEPT ![o] = [kind |-> k, item |-> i]]

IsQueued(k, i) == \E o \in Inserted : payload[o] = [kind |-> k, item |-> i]

LocalRoutes ==
  {i \in Inserted : IsQueued("route:UPSERT", i) /\ ~IsQueued("route:DELETE", i)}
ActiveTrips ==
  {i \in Inserted : /\ IsQueued("trip:CREATE", i)
                    /\ ~IsQueued("trip:FINISH", i) /\ ~IsQueued("trip:CANCEL", i)}

(* A new route or a new trip of the current account (one trip at a time). *)
Create(o, k) ==
  /\ k \in {"route:UPSERT", "trip:CREATE"} \cap UserDoes
  /\ k = "trip:CREATE" => ActiveTrips = {}
  /\ session # NoAccount
  /\ Add(o, session)
  /\ Queued(o, k, o)
  /\ UNCHANGED <<conn, unqueued, reinstated>> /\ ServerIdle

DeleteLocalRoute(o, i) ==
  /\ "route:DELETE" \in UserDoes
  /\ i \in LocalRoutes
  /\ row[i].owner = session
  /\ Add(o, session)
  /\ Queued(o, "route:DELETE", i)
  /\ UNCHANGED <<conn, unqueued, reinstated>> /\ ServerIdle

(* addPoint: a fix of the active trip, to be queued by the next round or   *)
(* when the trip ends.  The queue has room for it.                         *)
RecordFix(i) ==
  /\ "points:CREATE" \in UserDoes
  /\ i \in ActiveTrips \ unqueued
  /\ Cardinality(Inserted) + 1 < MaxOps
  /\ unqueued' = unqueued \cup {i}
  /\ UNCHANGED <<queueVars, payload, conn, reinstated>> /\ ServerIdle

(* finishTrip and cancelTrip: the points go first.  The operations belong  *)
(* to the account of the trip, whoever is logged in.                       *)
CloseTrip(o, i, k) ==
  /\ k \in {"trip:FINISH", "trip:CANCEL"} \cap UserDoes
  /\ i \in ActiveTrips
  /\ IF i \in unqueued
     THEN /\ IsNext(o) /\ o + 1 \in Op
          /\ row' = [row EXCEPT ![o] = NewRow(row[i].owner), ![o + 1] = NewRow(row[i].owner)]
          /\ payload' = [payload EXCEPT ![o] = [kind |-> "points:CREATE", item |-> i],
                                        ![o + 1] = [kind |-> k, item |-> i]]
          /\ UNCHANGED <<session, roundVars>>
     ELSE Add(o, row[i].owner) /\ Queued(o, k, i)
  /\ unqueued' = unqueued \ {i}
  /\ UNCHANGED <<conn, reinstated>> /\ ServerIdle

(* queuePendingPoints, at the start of a round: the fixes of the one trip  *)
(* that has some become an operation of the trip's account.                *)
QueuePendingPoints ==
  /\ PointsQueued
  /\ IF unqueued = {}
     THEN UNCHANGED <<row, payload>>
     ELSE \E o \in Op, i \in unqueued :
            /\ IsNext(o)
            /\ row' = [row EXCEPT ![o] = NewRow(row[i].owner)]
            /\ Queued(o, "points:CREATE", i)
  /\ unqueued' = {}
  /\ UNCHANGED <<conn, reinstated>> /\ ServerIdle

-----------------------------------------------------------------------------
(* The user, the clock and the round. *)

Login(a) ==
  /\ "login" \in UserDoes
  /\ SwitchSession(a)
  /\ UNCHANGED <<payload, conn, unqueued, reinstated>> /\ ServerIdle

UserRetries ==
  /\ "retry" \in UserDoes
  /\ RetryFailed
  /\ reinstated' = IF pc = "idle" THEN {}
                   ELSE reinstated \cup {o \in Op : row'[o].status # row[o].status}
  /\ UNCHANGED <<payload, conn, unqueued>> /\ ServerIdle

ClockTicks(o) ==
  /\ BackoffOver(o)
  /\ UNCHANGED <<payload, conn, unqueued, reinstated>> /\ ServerIdle

StartRound ==
  /\ BeginRound
  /\ UNCHANGED <<payload, conn, unqueued, reinstated>> /\ ServerIdle

ContinueRound ==
  /\ RoundStep
  /\ reinstated' = IF pc' = "idle" THEN {} ELSE reinstated
  /\ UNCHANGED <<payload, conn, unqueued>> /\ ServerIdle

-----------------------------------------------------------------------------
(* The network. *)

SendRequest(s) ==
  /\ Post
  /\ Arrive(s, session, batch)
  /\ conn' = s
  /\ UNCHANGED <<payload, unqueued, reinstated>>

(* A finished request: its answer reaches the phone, if it still waits. *)
Deliver(s) ==
  /\ conn = s
  /\ CASE In(s, "replied")     -> Answered(req[s].result)
       [] In(s, "refused")     -> SplitBatch \/ RejectSingle
       [] In(s, "unavailable") -> Unavailable
       [] OTHER                -> FALSE
  /\ Leave(s)
  /\ conn' = NoSlot
  /\ UNCHANGED <<payload, unqueued, reinstated>>

Discard(s) ==
  /\ conn # s
  /\ Leave(s)
  /\ UNCHANGED <<queueVars, payload, conn, unqueued, reinstated>>

(* The request or its answer is lost, or takes longer than the phone waits. *)
GiveUp(s) ==
  /\ conn = s
  /\ NoReply
  /\ conn' = NoSlot
  /\ IF In(s, "sent") THEN Drop(s) \/ UNCHANGED req ELSE UNCHANGED req
  /\ UNCHANGED <<event, store, applied, unmeasured, payload, unqueued, reinstated>>

(* The proxy answers 504 while the server is still working. *)
GatewayTimeout(s) ==
  /\ "outage" \in Fault
  /\ conn = s
  /\ req[s].phase \in Processing
  /\ Unavailable
  /\ conn' = NoSlot
  /\ UNCHANGED <<payload, unqueued, reinstated>> /\ ServerIdle

ServerCrash(s) ==
  /\ CrashServing(s)
  /\ IF conn = s
     THEN NoReply /\ conn' = NoSlot
     ELSE UNCHANGED <<queueVars, conn>>
  /\ UNCHANGED <<payload, unqueued, reinstated>>

KillApp ==
  /\ AppKilled
  /\ conn' = NoSlot
  /\ reinstated' = {}
  /\ UNCHANGED <<payload, unqueued>> /\ ServerIdle

Work(s) ==
  /\ Serve(s)
  /\ UNCHANGED <<queueVars, payload, conn, unqueued, reinstated>>

Fail(s) ==
  /\ ServerFault(s)
  /\ UNCHANGED <<queueVars, payload, conn, unqueued, reinstated>>

Next ==
  \/ \E o \in Op, k \in Kind : Create(o, k)
  \/ \E o, i \in Op : DeleteLocalRoute(o, i)
  \/ \E i \in Op : RecordFix(i)
  \/ \E o, i \in Op, k \in Kind : CloseTrip(o, i, k)
  \/ QueuePendingPoints
  \/ \E a \in Owner : Login(a)
  \/ UserRetries
  \/ \E o \in Op : ClockTicks(o)
  \/ StartRound
  \/ ContinueRound
  \/ \E s \in Slot : \/ SendRequest(s) \/ Deliver(s) \/ Discard(s) \/ GiveUp(s)
                     \/ GatewayTimeout(s) \/ ServerCrash(s) \/ Work(s) \/ Fail(s)
  \/ KillApp

Spec == Init /\ [][Next]_vars

=============================================================================
