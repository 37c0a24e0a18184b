------------------------------ MODULE SyncProofs ------------------------------
(***************************************************************************)
(* Theorems about SyncSystem, for any number of accounts, operations and   *)
(* concurrent requests: its types, and the promise of the outbox.          *)
(***************************************************************************)
EXTENDS SyncProperties, FiniteSetTheorems, TLAPS

USE DEF Op, Owner

-----------------------------------------------------------------------------
(* The operators the model is built from. *)

LEMMA WithStatusType ==
  ASSUME row \in [Op -> Row], NEW S, NEW t \in Status
  PROVE  WithStatus(S, t) \in [Op -> Row]
  BY DEF WithStatus, Row

LEMMA BumpType == ASSUME NEW n \in 0..MaxAttempts PROVE Bump(n) \in 0..MaxAttempts
  BY SyncQueueAssumption DEF Bump

LEMMA RetriedType == ASSUME NEW r \in Row PROVE Retried(r) \in Row
  <1>1. Bump(r.retries) \in 0..MaxAttempts
    BY BumpType DEF Row
  <1> QED  BY <1>1 DEF Retried, Row, Status

LEMMA RejectedType ==
  ASSUME NEW r \in Row, NEW e \in Result \cup {"none", "REFUSED"}
  PROVE  Rejected(r, e) \in Row
  <1>1. Bump(r.retries) \in 0..MaxAttempts
    BY BumpType DEF Row
  <1> QED  BY <1>1 DEF Rejected, Row, Status

LEMMA ReinstatedType == ASSUME NEW r \in Row PROVE Reinstated(r) \in Row
  <1>1. 0 \in 0..MaxAttempts
    BY SyncQueueAssumption
  <1> QED  BY <1>1 DEF Reinstated, Row, Status

LEMMA NewRowType == ASSUME NEW a \in Owner PROVE NoRow \in Row /\ NewRow(a) \in Row
  <1>1. NoRow \in Row
    <2>1. 0 \in 0..MaxAttempts
      BY SyncQueueAssumption
    <2> QED  BY <2>1 DEF NoRow, Row, Status
  <1>2. ASSUME NEW r \in Row PROVE [r EXCEPT !.status = "PENDING", !.owner = a] \in Row
    BY DEF Row, Status
  <1> QED  BY <1>1, <1>2 DEF NewRow

LEMMA NoAnswerType == NoAnswer \in [Op -> Result \cup {"none"}]
  BY DEF NoAnswer

(* A batch has at most MaxOps operations. *)
LEMMA BatchSizeBound ==
  ASSUME NEW S \in SUBSET Op
  PROVE  Cardinality(S) \in 0..MaxOps
  <1>1. IsFiniteSet(1..MaxOps) /\ Cardinality(1..MaxOps) = MaxOps
    BY FS_Interval, SyncTypesAssumption
  <1>2. IsFiniteSet(S) /\ Cardinality(S) <= MaxOps
    BY <1>1, FS_Subset
  <1>3. Cardinality(S) \in Nat
    BY <1>2, FS_CardinalityType
  <1> QED  BY <1>2, <1>3, SyncTypesAssumption

(* What a statement does to the store: it stays a store, and the answer is *)
(* OK or a code of a permanent rejection.                                  *)
LEMMA RouteHandlerType ==
  ASSUME NEW s \in Store, NEW u \in Owner, NEW i \in Op
  PROVE  /\ UpsertRoute(s, u, i) \in [store : Store, code : Code \cup {"OK"}]
         /\ DeleteRoute(s, u, i) \in [store : Store, code : Code \cup {"OK"}]
  <1> USE DEF Ok, Refuse, Code
  <1>1. UpsertRoute(s, u, i) \in [store : Store, code : Code \cup {"OK"}]
    BY DEF UpsertRoute, Store
  <1>2. DeleteRoute(s, u, i) \in [store : Store, code : Code \cup {"OK"}]
    BY DEF DeleteRoute, Store
  <1> QED  BY <1>1, <1>2

LEMMA TripWrittenType ==
  ASSUME NEW s \in Store, NEW u \in Owner, NEW k, NEW i \in Op, NEW o \in Op
  PROVE  TripWritten(s, u, k, i, o) \in Store
  BY DEF TripWritten, Ending, Store, TripStatus

LEMMA MeasureType == ASSUME NEW s \in Store, NEW i \in Op PROVE Measure(s, i) \in Store
  BY DEF Measure, Store

LEMMA FindsType ==
  ASSUME NEW s, NEW u, NEW k, NEW i
  PROVE  Finds(s, u, k, i) \in Verdict
  BY DEF Finds, StartFinds, EndFinds, RecordFinds, Verdict, Code

-----------------------------------------------------------------------------
(* Type correctness of the phone's steps. *)

LEMMA RoundStepType ==
  ASSUME QueueTypeOK, BeginRound \/ RoundStep
  PROVE  QueueTypeOK'
  <1> USE DEF QueueTypeOK, Stage
  <1>1. CASE BeginRound
    BY <1>1, WithStatusType DEF BeginRound, Status
  <1>2. CASE SelectBatch
    <2>1. PICK b \in Prefixes(NextBatch(acct, Limit)) :
            batch' = b /\ row' = WithStatus(b, "SYNCING")
      BY <1>2 DEF SelectBatch
    <2>2. b \subseteq Op
      BY <2>1 DEF Prefixes, NextBatch, Pending
    <2>3. row' \in [Op -> Row]
      BY <2>1, WithStatusType DEF Status
    <2>4. SinglesLeft \in 0..MaxOps
      BY SyncTypesAssumption DEF SinglesLeft
    <2> QED  BY <1>2, <2>1, <2>2, <2>3, <2>4 DEF SelectBatch
  <1>3. CASE PushOver
    BY <1>3 DEF PushOver
  <1>4. CASE HandleResult
    <2>1. PICK o \in Op :
            /\ IsFirst(o, Unhandled)
            /\ ResultDone(o) \/ ResultRetried(o) \/ ResultRejected(o)
            /\ answer' = [answer EXCEPT ![o] = "none"]
            /\ batch' = batch \ {o}
      BY <1>4 DEF HandleResult
    <2>2. UNCHANGED <<session, pc, acct, oneByOne>>
      BY <1>4 DEF HandleResult
    <2>3. answer' \in [Op -> Result \cup {"none"}] /\ batch' \in SUBSET Op
      BY <2>1
    <2>4. row[o] \in Row /\ answer[o] \in Result \cup {"none", "REFUSED"}
      OBVIOUS
    <2>5. Retried(row[o]) \in Row /\ Rejected(row[o], answer[o]) \in Row
      BY <2>4, RetriedType, RejectedType
    <2>6. row' \in [Op -> Row] /\ done' \in SUBSET Op /\ blocked' \in BOOLEAN
      BY <2>1, <2>5 DEF ResultDone, ResultRetried, ResultRejected
    <2> QED  BY <2>2, <2>3, <2>6
  <1>5. CASE BatchOver
    <2>1. row' \in [Op -> Row]
      BY <1>5 DEF BatchOver, Row, Status
    <2> QED  BY <1>5, <2>1 DEF BatchOver
  <1>6. CASE FinishRound
    BY <1>6, SyncTypesAssumption DEF FinishRound
  <1>7. CASE PostUnauthorized
    BY <1>7, WithStatusType DEF PostUnauthorized, Release, Status
  <1>8. CASE RetryNext
    <2>1. PICK o \in Op : row' = [row EXCEPT ![o] = Retried(@)] /\ batch' = batch \ {o}
      BY <1>8 DEF RetryNext
    <2>2. row' \in [Op -> Row]
      BY <2>1, RetriedType
    <2> QED  BY <1>8, <2>1, <2>2 DEF RetryNext
  <1> QED  BY <1>1, <1>2, <1>3, <1>4, <1>5, <1>6, <1>7, <1>8 DEF RoundStep

LEMMA OutcomeType ==
  ASSUME QueueTypeOK,
         \/ NoReply \/ Unavailable \/ SplitBatch \/ RejectSingle \/ Post
         \/ \E results \in [Op -> Result \cup {"none"}] : Answered(results)
  PROVE  QueueTypeOK'
  <1> USE DEF QueueTypeOK, Stage
  <1>1. CASE NoReply
    BY <1>1, WithStatusType DEF NoReply, Release, Status
  <1>2. CASE Unavailable
    BY <1>2 DEF Unavailable
  <1>3. CASE SplitBatch
    <2>1. row' \in [Op -> Row]
      BY <1>3, WithStatusType DEF SplitBatch, Status
    <2> QED  BY <1>3, <2>1, BatchSizeBound DEF SplitBatch
  <1>4. CASE RejectSingle
    <2>1. ASSUME NEW o \in Op PROVE Rejected(row[o], "REFUSED") \in Row
      BY RejectedType
    <2>2. row' \in [Op -> Row]
      BY <1>4, <2>1 DEF RejectSingle
    <2> QED  BY <1>4, <2>2 DEF RejectSingle
  <1>5. CASE \E results \in [Op -> Result \cup {"none"}] : Answered(results)
    BY <1>5 DEF Answered
  <1>6. CASE Post
    BY <1>6 DEF Post
  <1> QED  BY <1>1, <1>2, <1>3, <1>4, <1>5, <1>6

LEMMA UserStepType ==
  ASSUME QueueTypeOK,
         \/ \E o \in Op, a \in Owner : Add(o, a)
         \/ \E a \in Owner : SwitchSession(a)
         \/ \E o \in Op : BackoffOver(o)
         \/ RetryFailed \/ AppKilled
  PROVE  QueueTypeOK'
  <1> USE DEF QueueTypeOK, Stage, roundVars
  <1>1. ASSUME NEW o \in Op, NEW a \in Owner, Add(o, a) PROVE QueueTypeOK'
    <2>1. row' \in [Op -> Row]
      BY <1>1, NewRowType DEF Add
    <2> QED  BY <1>1, <2>1 DEF Add
  <1>2. ASSUME NEW a \in Owner, SwitchSession(a) PROVE QueueTypeOK'
    BY <1>2 DEF SwitchSession
  <1>3. ASSUME NEW o \in Op, BackoffOver(o) PROVE QueueTypeOK'
    <2>1. row' \in [Op -> Row]
      BY <1>3, ZenonT(60) DEF BackoffOver, Row
    <2> QED  BY <1>3, <2>1 DEF BackoffOver
  <1>4. CASE RetryFailed
    <2>1. row' \in [Op -> Row]
      BY <1>4, ReinstatedType DEF RetryFailed
    <2> QED  BY <1>4, <2>1 DEF RetryFailed
  <1>5. CASE AppKilled
    <2>1. 0 \in 0..MaxOps
      BY SyncTypesAssumption
    <2>2. UNCHANGED <<row, session>> /\ acct' \in Owner /\ pc' \in Stage
      BY <1>5 DEF AppKilled
    <2>3. batch' = {} /\ done' = {} /\ oneByOne' = 0 /\ blocked' = FALSE /\ answer' = NoAnswer
      BY <1>5 DEF AppKilled
    <2> QED  BY <2>1, <2>2, <2>3, NoAnswerType
  <1> QED  BY <1>1, <1>2, <1>3, <1>4, <1>5

-----------------------------------------------------------------------------
(* Type correctness of the server's steps. *)

LEMMA FreeType == Free \in Request
  BY NoAnswerType DEF Free, Request, Phase, TripStatus

LEMMA ProcessedType ==
  ASSUME NEW q \in Request, NEW o \in Op, NEW r \in Result
  PROVE  Processed(q, o, r) \in Request
  <1>1. [q.result EXCEPT ![o] = r] \in [Op -> Result \cup {"none"}]
    BY DEF Request
  <1>2. q.todo \ {o} \in SUBSET Op
    BY DEF Request
  <1> QED  BY <1>1, <1>2 DEF Processed, Request, Phase, TripStatus

LEMMA AcceptedType == ASSUME NEW q \in Request PROVE Accepted(q) \in Request
  <1>1. Known(q.user, q.todo) \in SUBSET Op
    BY DEF Known, Request
  <1> QED  BY <1>1 DEF Accepted, Request, Phase

LEMMA DispatchedType ==
  ASSUME NEW q \in Request, NEW c \in Code \cup {"OK"}
  PROVE  Dispatched(q, c) \in Request
  BY DEF Dispatched, Request, Phase

LEMMA LookedUpType ==
  ASSUME NEW q \in Request, NEW v \in Verdict, NEW t \in TripStatus
  PROVE  LookedUp(q, v, t) \in Request
  <1>1. CASE v = "WRITE"
    BY <1>1 DEF LookedUp, Request, Phase
  <1>2. CASE v # "WRITE"
    BY <1>2, DispatchedType DEF LookedUp, Verdict
  <1> QED  BY <1>1, <1>2

(* The trips a request that stops leaves unmeasured.                       *)
LEMMA AbandonedType == ASSUME ServerTypeOK, NEW s PROVE Abandoned(s) \in SUBSET Op
  BY DEF Abandoned, ServerTypeOK, Payload

(* The shapes of update of a request that the server's steps use.          *)
LEMMA RequestUpdateType ==
  ASSUME ServerTypeOK, NEW s \in Slot
  PROVE  /\ \A p \in Phase : Goto(s, p) => req' \in [Slot -> Request]
         /\ Drop(s) => req' \in [Slot -> Request]
         /\ \A o \in Op, r \in Result : Settle(s, o, r) => req' \in [Slot -> Request]
  <1> USE DEF ServerTypeOK
  <1>1. ASSUME NEW p \in Phase, Goto(s, p) PROVE req' \in [Slot -> Request]
    <2>1. ASSUME NEW q \in Request PROVE [q EXCEPT !.phase = p] \in Request
      BY DEF Request
    <2> QED  BY <1>1, <2>1 DEF Goto
  <1>2. ASSUME Drop(s) PROVE req' \in [Slot -> Request]
    BY <1>2, FreeType DEF Drop
  <1>3. ASSUME NEW o \in Op, NEW r \in Result, Settle(s, o, r)
        PROVE  req' \in [Slot -> Request]
    <2>1. Processed(req[s], o, r) \in Request
      BY ProcessedType
    <2> QED  BY <1>3, <2>1 DEF Settle
  <1> QED  BY <1>1, <1>2, <1>3

LEMMA ServerStepType ==
  ASSUME ServerTypeOK, NEW s \in Slot, UNCHANGED payload,
         Serve(s) \/ ServerFault(s) \/ CrashServing(s) \/ Leave(s)
  PROVE  ServerTypeOK'
  <1> USE DEF ServerTypeOK
  <1>r. /\ \A p \in Phase : Goto(s, p) => req' \in [Slot -> Request]
        /\ Drop(s) => req' \in [Slot -> Request]
        /\ \A o \in Op, r \in Result : Settle(s, o, r) => req' \in [Slot -> Request]
    BY RequestUpdateType
  <1> USE DEF Phase, Result
  <1>1. CASE RefuseRequest(s)
    BY <1>1, <1>r DEF RefuseRequest
  <1>2. CASE AcceptRequest(s)
    BY <1>2, AcceptedType DEF AcceptRequest
  <1>3. CASE Reply(s)
    BY <1>3, <1>r DEF Reply
  <1>4. CASE Outage(s)
    BY <1>4, <1>r DEF Outage
  <1>5. CASE CrashServing(s)
    BY <1>5, <1>r, AbandonedType DEF CrashServing
  <1>6. CASE Leave(s)
    BY <1>6, <1>r DEF Leave
  <1>7. ASSUME NEW o \in Op, ReportDuplicate(s, o) PROVE ServerTypeOK'
    BY <1>7, <1>r DEF ReportDuplicate
  <1>8. ASSUME NEW o \in Op, DispatchFails(s, o) PROVE ServerTypeOK'
    BY <1>8, <1>r, AbandonedType DEF DispatchFails
  <1>9. ASSUME NEW o \in Op, Dispatch(s, o) PROVE ServerTypeOK'
    <2> DEFINE h == Handled(req[s].user, o)
    <2>1. h \in [store : Store, code : Code \cup {"OK"}]
      <3>1. payload[o].kind \in Kind /\ payload[o].item \in Op /\ req[s].user \in Owner
        BY DEF Payload, Request
      <3> QED  BY <3>1, RouteHandlerType DEF Handled, Refuse, Code
    <2>2. store' = h.store /\ req' = [req EXCEPT ![s] = Dispatched(@, h.code)]
      BY <1>9 DEF Dispatch
    <2>3. applied' \in SUBSET Op /\ UNCHANGED <<event, unmeasured>>
      BY <1>9 DEF Dispatch
    <2>4. req' \in [Slot -> Request]
      BY <2>1, <2>2, DispatchedType
    <2> QED  BY <2>1, <2>2, <2>3, <2>4
  <1>10. ASSUME NEW o \in Op, RecordEvent(s, o) PROVE ServerTypeOK'
    <2>1. req[s].code \in Code \cup {"OK"}
      BY DEF Request
    <2>2. req' \in [Slot -> Request]
      BY <1>10, <1>r, <2>1 DEF RecordEvent
    <2>3. event' \in [Account -> [Op -> {"none", "APPLIED", "FAILED"}]]
      BY <1>10 DEF RecordEvent
    <2> QED  BY <1>10, <2>2, <2>3 DEF RecordEvent
  <1>11. ASSUME NEW o \in Op, RecordFails(s, o) PROVE ServerTypeOK'
    BY <1>11, <1>r DEF RecordFails
  <1>p. ASSUME NEW o \in Op
        PROVE  payload[o].kind \in Kind /\ payload[o].item \in Op /\ req[s].user \in Owner
    BY DEF Payload, Request
  <1>12. ASSUME NEW o \in Op, LookUpTrip(s, o) PROVE ServerTypeOK'
    <2> DEFINE i == payload[o].item
               v == Finds(store, req[s].user, payload[o].kind, i)
    <2>1. /\ req' = [req EXCEPT ![s] = LookedUp(@, v, store.trip[i])]
          /\ applied' \in SUBSET Op /\ UNCHANGED <<event, store, unmeasured>>
      BY <1>12 DEF LookUpTrip
    <2>2. v \in Verdict /\ store.trip[i] \in TripStatus
      BY <1>p, FindsType DEF Store
    <2> HIDE DEF v, i
    <2>3. req' \in [Slot -> Request]
      BY <2>1, <2>2, LookedUpType
    <2> QED  BY <2>1, <2>3
  <1>13. ASSUME NEW o \in Op, WriteTrip(s, o) PROVE ServerTypeOK'
    <2>1. store' \in Store
      BY <1>13, <1>p, TripWrittenType DEF WriteTrip
    <2>2. Goto(s, "measuring") \/ Goto(s, "recording")
      BY <1>13 DEF WriteTrip
    <2>3. applied' \in SUBSET Op /\ unmeasured' \in SUBSET Op /\ UNCHANGED event
      BY <1>13, <1>p DEF WriteTrip
    <2> QED  BY <2>1, <2>2, <2>3, <1>r
  <1>14. ASSUME NEW o \in Op, MeasureTrip(s, o) PROVE ServerTypeOK'
    <2>1. store' \in Store
      BY <1>14, <1>p, MeasureType DEF MeasureTrip
    <2> QED  BY <1>14, <2>1, <1>r DEF MeasureTrip
  <1>15. ASSUME NEW o \in Op, CreationClashes(s, o) PROVE ServerTypeOK'
    BY <1>15, <1>r DEF CreationClashes
  <1> QED  BY <1>1, <1>2, <1>3, <1>4, <1>5, <1>6, <1>7, <1>8, <1>9, <1>10, <1>11,
              <1>12, <1>13, <1>14, <1>15
           DEF Serve, ServerFault

LEMMA ArriveType ==
  ASSUME ServerTypeOK, NEW s \in Slot, NEW u \in Owner, NEW b \in SUBSET Op,
         Arrive(s, u, b), UNCHANGED payload
  PROVE  ServerTypeOK'
  <1>1. [Free EXCEPT !.phase = "sent", !.user = u, !.todo = b] \in Request
    BY FreeType DEF Request, Phase
  <1> QED  BY <1>1 DEF Arrive, ServerTypeOK

-----------------------------------------------------------------------------
(* Type correctness of the system. *)

LEMMA InitType == Init => SystemTypeOK
  <1> SUFFICES ASSUME Init PROVE SystemTypeOK
    OBVIOUS
  <1>1. QueueTypeOK
    <2>1. row \in [Op -> Row]
      BY NewRowType DEF Init, QueueInit
    <2>2. 0 \in 0..MaxOps
      BY SyncTypesAssumption
    <2> QED  BY <2>1, <2>2, NoAnswerType DEF Init, QueueInit, QueueTypeOK, Stage
  <1>2. ServerTypeOK
    <2>1. payload \in [Op -> Payload]
      BY DEF Init, Payload, Kind
    <2>2. req \in [Slot -> Request]
      BY FreeType DEF Init, ServerInit
    <2>3. store \in Store
      BY DEF Init, ServerInit, EmptyStore, Store, TripStatus
    <2> QED  BY <2>1, <2>2, <2>3 DEF Init, ServerInit, ServerTypeOK
  <1> QED  BY <1>1, <1>2 DEF Init, SystemTypeOK

(* The steps of Next that store a change with its operations.              *)
LEMMA ChangeType ==
  ASSUME SystemTypeOK,
         \/ \E o \in Op, k \in Kind : Create(o, k)
         \/ \E o, i \in Op : DeleteLocalRoute(o, i)
         \/ \E i \in Op : RecordFix(i)
         \/ \E o, i \in Op, k \in Kind : CloseTrip(o, i, k)
         \/ QueuePendingPoints
  PROVE  SystemTypeOK'
  <1> USE DEF SystemTypeOK
  <1>q. ASSUME NEW o \in Op, NEW k \in Kind, NEW i \in Op, Queued(o, k, i)
        PROVE  payload' \in [Op -> Payload]
    BY <1>q DEF Queued, Payload, ServerTypeOK
  <1>s. ASSUME ServerIdle, payload' \in [Op -> Payload] PROVE ServerTypeOK'
    BY <1>s DEF ServerIdle, serverVars, ServerTypeOK
  <1>o. ASSUME NEW i \in Op PROVE row[i].owner \in Owner
    BY DEF QueueTypeOK, Row
  <1>1. ASSUME NEW o \in Op, NEW k \in Kind, Create(o, k) PROVE SystemTypeOK'
    <2>1. QueueTypeOK'
      <3>1. Add(o, session) /\ session \in Owner
        BY <1>1 DEF Create, QueueTypeOK
      <3> QED  BY <3>1, UserStepType
    <2> QED  BY <1>1, <1>q, <1>s, <2>1 DEF Create
  <1>2. ASSUME NEW o \in Op, NEW i \in Op, DeleteLocalRoute(o, i) PROVE SystemTypeOK'
    <2>1. QueueTypeOK'
      <3>1. Add(o, session) /\ session \in Owner
        BY <1>2 DEF DeleteLocalRoute, QueueTypeOK
      <3> QED  BY <3>1, UserStepType
    <2>2. "route:DELETE" \in Kind
      BY DEF Kind
    <2> QED  BY <1>2, <1>q, <1>s, <2>1, <2>2 DEF DeleteLocalRoute
  <1>3. ASSUME NEW i \in Op, RecordFix(i) PROVE SystemTypeOK'
    BY <1>3, <1>s DEF RecordFix, queueVars, roundVars, QueueTypeOK, ServerTypeOK
  <1>4. ASSUME NEW o \in Op, NEW i \in Op, NEW k \in Kind, CloseTrip(o, i, k)
        PROVE  SystemTypeOK'
    <2>1. CASE i \in unqueued
      <3>1. /\ o + 1 \in Op
            /\ row' = [row EXCEPT ![o] = NewRow(row[i].owner), ![o + 1] = NewRow(row[i].owner)]
            /\ payload' = [payload EXCEPT ![o] = [kind |-> "points:CREATE", item |-> i],
                                          ![o + 1] = [kind |-> k, item |-> i]]
            /\ UNCHANGED <<session, roundVars>>
        BY <1>4, <2>1 DEF CloseTrip
      <3>2. row' \in [Op -> Row]
        BY <3>1, <1>o, NewRowType DEF QueueTypeOK
      <3>3. payload' \in [Op -> Payload]
        <4>1. [kind |-> "points:CREATE", item |-> i] \in Payload /\ [kind |-> k, item |-> i] \in Payload
          BY DEF Payload, Kind
        <4> QED  BY <3>1, <4>1 DEF ServerTypeOK
      <3>4. QueueTypeOK'
        BY <3>1, <3>2 DEF QueueTypeOK, roundVars
      <3> QED  BY <1>4, <3>3, <3>4, <1>s DEF CloseTrip
    <2>2. CASE i \notin unqueued
      <3>1. Add(o, row[i].owner) /\ Queued(o, k, i)
        BY <1>4, <2>2 DEF CloseTrip
      <3>2. QueueTypeOK'
        BY <3>1, <1>o, UserStepType
      <3> QED  BY <1>4, <3>1, <3>2, <1>q, <1>s DEF CloseTrip
    <2> QED  BY <2>1, <2>2
  <1>5. CASE QueuePendingPoints
    <2>1. row' \in [Op -> Row] /\ payload' \in [Op -> Payload]
      <3>1. CASE unqueued = {}
        BY <1>5, <3>1 DEF QueuePendingPoints, QueueTypeOK, ServerTypeOK
      <3>2. CASE unqueued # {}
        <4>1. PICK o \in Op, i \in unqueued :
                row' = [row EXCEPT ![o] = NewRow(row[i].owner)] /\ Queued(o, "points:CREATE", i)
          BY <1>5, <3>2 DEF QueuePendingPoints
        <4>2. i \in Op /\ "points:CREATE" \in Kind
          BY DEF Kind
        <4> QED  BY <4>1, <4>2, <1>o, <1>q, NewRowType DEF QueueTypeOK
      <3> QED  BY <3>1, <3>2
    <2>2. QueueTypeOK'
      BY <1>5, <2>1 DEF QueuePendingPoints, PointsQueued, QueueTypeOK, Stage
    <2> QED  BY <1>5, <1>s, <2>1, <2>2 DEF QueuePendingPoints
  <1> QED  BY <1>1, <1>2, <1>3, <1>4, <1>5

(* The steps of the round, the user and the clock.                         *)
LEMMA PhoneType ==
  ASSUME SystemTypeOK,
         \/ \E a \in Owner : Login(a)
         \/ UserRetries \/ StartRound \/ ContinueRound \/ KillApp
         \/ \E o \in Op : ClockTicks(o)
  PROVE  SystemTypeOK'
  <1> USE DEF SystemTypeOK
  <1>s. ASSUME ServerIdle, UNCHANGED payload PROVE ServerTypeOK'
    BY <1>s DEF ServerIdle, serverVars, ServerTypeOK
  <1>1. ASSUME NEW a \in Owner, Login(a) PROVE SystemTypeOK'
    BY <1>1, <1>s, UserStepType DEF Login
  <1>2. CASE UserRetries
    <2>1. QueueTypeOK'
      BY <1>2, UserStepType DEF UserRetries
    <2>2. reinstated' \in SUBSET Op
      BY <1>2 DEF UserRetries
    <2> QED  BY <1>2, <1>s, <2>1, <2>2 DEF UserRetries
  <1>3. CASE StartRound
    BY <1>3, <1>s, RoundStepType DEF StartRound
  <1>4. CASE ContinueRound
    BY <1>4, <1>s, RoundStepType DEF ContinueRound
  <1>5. CASE KillApp
    BY <1>5, <1>s, UserStepType DEF KillApp
  <1>6. ASSUME NEW o \in Op, ClockTicks(o) PROVE SystemTypeOK'
    BY <1>6, <1>s, UserStepType DEF ClockTicks
  <1> QED  BY <1>1, <1>2, <1>3, <1>4, <1>5, <1>6

(* The steps of the network and the server.                                *)
LEMMA NetworkType ==
  ASSUME SystemTypeOK, NEW s \in Slot,
         \/ SendRequest(s) \/ Deliver(s) \/ Discard(s) \/ GiveUp(s)
         \/ GatewayTimeout(s) \/ ServerCrash(s) \/ Work(s) \/ Fail(s)
  PROVE  SystemTypeOK'
  <1> USE DEF SystemTypeOK
  <1>q. ASSUME UNCHANGED queueVars PROVE QueueTypeOK'
    BY <1>q DEF queueVars, roundVars, QueueTypeOK
  <1>1. CASE SendRequest(s)
    <2>1. Post /\ Arrive(s, session, batch) /\ conn' = s /\ UNCHANGED <<payload, unqueued, reinstated>>
      BY <1>1 DEF SendRequest
    <2>2. session \in Owner /\ batch \in SUBSET Op
      BY DEF QueueTypeOK
    <2>3. ServerTypeOK'
      BY <2>1, <2>2, ArriveType
    <2>4. QueueTypeOK'
      BY <2>1, OutcomeType
    <2> QED  BY <2>1, <2>3, <2>4
  <1>2. CASE Deliver(s)
    <2>1. Leave(s) /\ conn' = NoSlot /\ UNCHANGED <<payload, unqueued, reinstated>>
      BY <1>2 DEF Deliver
    <2>2. req[s].result \in [Op -> Result \cup {"none"}]
      BY DEF ServerTypeOK, Request
    <2>3. Answered(req[s].result) \/ SplitBatch \/ RejectSingle \/ Unavailable
      BY <1>2 DEF Deliver
    <2>4. QueueTypeOK'
      BY <2>2, <2>3, OutcomeType
    <2> QED  BY <2>1, <2>4, ServerStepType
  <1>3. CASE Discard(s)
    BY <1>3, <1>q, ServerStepType DEF Discard
  <1>4. CASE GiveUp(s)
    <2>1. QueueTypeOK'
      BY <1>4, OutcomeType DEF GiveUp
    <2>2. req' \in [Slot -> Request]
      BY <1>4, RequestUpdateType DEF GiveUp, ServerTypeOK
    <2> QED  BY <1>4, <2>1, <2>2 DEF GiveUp, ServerTypeOK
  <1>5. CASE GatewayTimeout(s)
    <2>1. QueueTypeOK'
      BY <1>5, OutcomeType DEF GatewayTimeout
    <2> QED  BY <1>5, <2>1 DEF GatewayTimeout, ServerIdle, serverVars, ServerTypeOK
  <1>6. CASE ServerCrash(s)
    <2>1. QueueTypeOK'
      BY <1>6, <1>q, OutcomeType DEF ServerCrash
    <2> QED  BY <1>6, <2>1, ServerStepType DEF ServerCrash
  <1>7. CASE Work(s)
    BY <1>7, <1>q, ServerStepType DEF Work
  <1>8. CASE Fail(s)
    BY <1>8, <1>q, ServerStepType DEF Fail
  <1> QED  BY <1>1, <1>2, <1>3, <1>4, <1>5, <1>6, <1>7, <1>8

LEMMA StepType == SystemTypeOK /\ [Next]_vars => SystemTypeOK'
  <1> SUFFICES ASSUME SystemTypeOK, [Next]_vars PROVE SystemTypeOK'
    OBVIOUS
  <1>1. CASE Next
    BY <1>1, ChangeType, PhoneType, NetworkType DEF Next
  <1>2. CASE UNCHANGED vars
    BY <1>2 DEF vars, queueVars, roundVars, serverVars, SystemTypeOK, QueueTypeOK, ServerTypeOK
  <1> QED  BY <1>1, <1>2

(* Every variable of the phone, the network and the server keeps its type. *)
THEOREM TypeCorrect == Spec => []SystemTypeOK
  BY InitType, StepType, PTL DEF Spec

-----------------------------------------------------------------------------
(* An operation reported as completed was applied. *)

(* The inductive invariant.  CompletedWasApplied alone is not inductive:   *)
(* a row becomes COMPLETED because of a result the phone took from a       *)
(* request, which took it from an event or from its own dispatch.          *)
HasUser == \A s \in Slot : req[s].phase # "free" => req[s].user \in Account

Backed == SystemTypeOK /\ HasUser /\ SuccessIsBacked /\ CompletedWasApplied

(* The part of it the server's steps are about. *)
ServerBacked ==
  /\ HasUser
  /\ \A s \in Slot : RequestIsBacked(req[s], applied)
  /\ \A u \in Account, o \in Op : event[u][o] = "APPLIED" => o \in applied

LEMMA MoreBacked ==
  ASSUME NEW q, NEW A, NEW B, A \subseteq B, RequestIsBacked(q, A)
  PROVE  RequestIsBacked(q, B)
  BY DEF RequestIsBacked

LEMMA FreeBacked == ASSUME NEW A PROVE RequestIsBacked(Free, A)
  BY DEF RequestIsBacked, Free, NoAnswer, Succeeded

LEMMA SentBacked ==
  ASSUME NEW A, NEW u, NEW b
  PROVE  RequestIsBacked([Free EXCEPT !.phase = "sent", !.user = u, !.todo = b], A)
  BY DEF RequestIsBacked, Free, NoAnswer, Succeeded

LEMMA GotoBacked ==
  ASSUME NEW q \in Request, NEW A, NEW p, RequestIsBacked(q, A),
         p \in {"measuring", "recording"} /\ q.code = "OK" =>
           \A o \in Op : IsFirst(o, q.todo) => o \in A
  PROVE  RequestIsBacked([q EXCEPT !.phase = p], A)
  BY DEF RequestIsBacked, Request

LEMMA ProcessedBacked ==
  ASSUME NEW q \in Request, NEW A, NEW o \in Op, NEW r \in Result,
         RequestIsBacked(q, A), Succeeded(r) => o \in A
  PROVE  RequestIsBacked(Processed(q, o, r), A)
  BY DEF RequestIsBacked, Processed, Request

LEMMA AcceptedBacked ==
  ASSUME NEW q \in Request, NEW A, RequestIsBacked(q, A), Known(q.user, q.todo) \subseteq A
  PROVE  RequestIsBacked(Accepted(q), A)
  BY DEF RequestIsBacked, Accepted, Request

(* An operation is the first to do of one request only.                    *)
LEMMA OneFirst ==
  ASSUME NEW q \in Request, NEW o \in Op, NEW p \in Op, IsFirst(o, q.todo), IsFirst(p, q.todo)
  PROVE  o = p
  <1>1. q.todo \subseteq Int
    BY SyncTypesAssumption DEF Request
  <1> QED  BY <1>1 DEF IsFirst

(* Dispatching operation o, the first to do, when A has it if it took.     *)
LEMMA DispatchedBacked ==
  ASSUME NEW q \in Request, NEW A, NEW o \in Op, NEW c \in Code \cup {"OK"},
         IsFirst(o, q.todo), RequestIsBacked(q, A), c = "OK" => o \in A
  PROVE  RequestIsBacked(Dispatched(q, c), A)
  <1>1. \A p \in Op : IsFirst(p, q.todo) => p = o
    BY OneFirst
  <1>2. /\ Dispatched(q, c).seen = q.seen /\ Dispatched(q, c).result = q.result
        /\ Dispatched(q, c).todo = q.todo /\ Dispatched(q, c).code = c
    BY DEF Dispatched, Request
  <1> QED  BY <1>1, <1>2 DEF RequestIsBacked

(* A step that puts a backed request into slot t, applies at most more,    *)
(* and records successes that are backed.                                  *)
LEMMA SlotBacked ==
  ASSUME ServerTypeOK, ServerBacked, NEW t \in Slot, NEW q,
         req' = [req EXCEPT ![t] = q], applied \subseteq applied',
         RequestIsBacked(q, applied'), q.phase # "free" => q.user \in Account,
         \A u \in Account, o \in Op : event'[u][o] = "APPLIED" => o \in applied'
  PROVE  ServerBacked'
  <1>1. \A s \in Slot : req'[s] = IF s = t THEN q ELSE req[s]
    BY DEF ServerTypeOK
  <1>2. \A s \in Slot : RequestIsBacked(req'[s], applied')
    BY <1>1, MoreBacked DEF ServerBacked
  <1>3. HasUser'
    BY <1>1 DEF ServerBacked, HasUser
  <1> QED  BY <1>2, <1>3 DEF ServerBacked

LEMMA ServerStepBacked ==
  ASSUME ServerTypeOK, ServerBacked, NEW s \in Slot,
         Serve(s) \/ ServerFault(s) \/ CrashServing(s) \/ Leave(s)
  PROVE  ServerBacked' /\ applied \subseteq applied'
  <1> DEFINE q == req[s]
  <1>q. q \in Request /\ RequestIsBacked(q, applied) /\ (q.phase # "free" => q.user \in Account)
    BY DEF ServerTypeOK, ServerBacked, HasUser
  <1>e. \A u \in Account, o \in Op : event[u][o] = "APPLIED" => o \in applied
    BY DEF ServerBacked
  <1> HIDE DEF q
  <1>g. ASSUME NEW p \in Phase, p \notin {"measuring", "recording"}, p # "free", q.phase # "free",
               Goto(s, p), UNCHANGED <<event, applied>>
        PROVE  ServerBacked'
    <2>1. req' = [req EXCEPT ![s] = [q EXCEPT !.phase = p]]
      BY <1>g DEF Goto, q
    <2>2. RequestIsBacked([q EXCEPT !.phase = p], applied) /\ [q EXCEPT !.phase = p].user = q.user
      BY <1>q, <1>g, GotoBacked DEF Request
    <2> QED  BY <2>1, <2>2, <1>q, <1>e, <1>g, SlotBacked
  <1>d. ASSUME Drop(s), UNCHANGED <<event, applied>> PROVE ServerBacked'
    <2>1. req' = [req EXCEPT ![s] = Free] /\ Free.phase = "free"
      BY <1>d DEF Drop, Free
    <2>2. RequestIsBacked(Free, applied)
      BY FreeBacked
    <2> QED  BY <2>1, <2>2, <1>e, <1>d, SlotBacked
  <1>p. ASSUME NEW o \in Op, NEW r \in Result, q.phase # "free", Settle(s, o, r),
               UNCHANGED applied, Succeeded(r) => o \in applied,
               \A u \in Account, x \in Op : event'[u][x] = "APPLIED" => x \in applied
        PROVE  ServerBacked'
    <2>1. req' = [req EXCEPT ![s] = Processed(q, o, r)]
      BY <1>p DEF Settle, q, ServerTypeOK
    <2>2. RequestIsBacked(Processed(q, o, r), applied) /\ Processed(q, o, r).user = q.user
      BY <1>p, <1>q, ProcessedBacked DEF Processed, Request
    <2> QED  BY <2>1, <2>2, <1>q, <1>p, SlotBacked
  <1>1. CASE RefuseRequest(s)
    BY <1>1, <1>g DEF RefuseRequest, In, q, Phase
  <1>2. CASE AcceptRequest(s)
    <2>1. q.phase = "sent" /\ UNCHANGED <<event, store, applied>>
          /\ req' = [req EXCEPT ![s] = Accepted(q)]
      BY <1>2 DEF AcceptRequest, In, q, ServerTypeOK
    <2>2. Known(q.user, q.todo) \subseteq applied
      BY <2>1, <1>q, <1>e DEF Known, Request
    <2>3. RequestIsBacked(Accepted(q), applied) /\ Accepted(q).user = q.user
      BY <2>2, <1>q, AcceptedBacked DEF Accepted, Request
    <2> QED  BY <2>1, <2>3, <1>q, <1>e, SlotBacked
  <1>3. CASE Reply(s)
    BY <1>3, <1>g DEF Reply, In, q, Phase
  <1>4. CASE Outage(s)
    BY <1>4, <1>g DEF Outage, In, q, Phase
  <1>5. CASE CrashServing(s)
    BY <1>5, <1>d DEF CrashServing
  <1>6. CASE Leave(s)
    BY <1>6, <1>d DEF Leave
  <1>7. ASSUME NEW o \in Op, ReportDuplicate(s, o)
        PROVE  ServerBacked' /\ applied \subseteq applied'
    <2>1. q.phase # "free" /\ o \in q.seen /\ Settle(s, o, "DUPLICATE")
          /\ UNCHANGED <<event, store, applied>>
      BY <1>7 DEF ReportDuplicate, AtOperation, In, q
    <2>2. o \in applied /\ "DUPLICATE" \in Result
      BY <2>1, <1>q DEF RequestIsBacked, Result
    <2> QED  BY <2>1, <2>2, <1>p, <1>e
  <1>8. ASSUME NEW o \in Op, DispatchFails(s, o)
        PROVE  ServerBacked' /\ applied \subseteq applied'
    <2>1. q.phase # "free" /\ Settle(s, o, "TRANSIENT") /\ UNCHANGED <<event, store, applied>>
      BY <1>8 DEF DispatchFails, AtOperation, InHandler, In, q
    <2>2. ~Succeeded("TRANSIENT") /\ "TRANSIENT" \in Result
      BY DEF Succeeded, Result
    <2> QED  BY <2>1, <2>2, <1>p, <1>e
  <1>9. ASSUME NEW o \in Op, Dispatch(s, o)
        PROVE  ServerBacked' /\ applied \subseteq applied'
    <2> DEFINE c == Handled(q.user, o).code
    <2>1. /\ q.phase = "serving" /\ IsFirst(o, q.todo) /\ UNCHANGED event
          /\ req' = [req EXCEPT ![s] = Dispatched(q, c)]
          /\ applied' = IF c = "OK" THEN applied \cup {o} ELSE applied
      BY <1>9 DEF Dispatch, AtOperation, In, q, ServerTypeOK
    <2>2. c \in Code \cup {"OK"}
      <3>1. payload[o].kind \in Kind /\ payload[o].item \in Op /\ q.user \in Owner
        BY <1>q DEF Payload, Request, ServerTypeOK
      <3> QED  BY <3>1, RouteHandlerType DEF Handled, Refuse, Code, ServerTypeOK
    <2> HIDE DEF c
    <2>3. applied \subseteq applied' /\ (c = "OK" => o \in applied')
      BY <2>1
    <2>4. RequestIsBacked(q, applied')
      BY <2>3, <1>q, MoreBacked
    <2>5. RequestIsBacked(Dispatched(q, c), applied') /\ Dispatched(q, c).user = q.user
      BY <2>1, <2>2, <2>3, <2>4, <1>q, DispatchedBacked DEF Dispatched, Request
    <2> QED  BY <2>1, <2>3, <2>5, <1>q, <1>e, SlotBacked
  <1>10. ASSUME NEW o \in Op, RecordEvent(s, o)
         PROVE  ServerBacked' /\ applied \subseteq applied'
    <2> DEFINE r == IF q.code = "OK" THEN "APPLIED" ELSE q.code
    <2>1. /\ q.phase = "recording" /\ IsFirst(o, q.todo) /\ UNCHANGED <<store, applied>>
          /\ event' = [event EXCEPT ![q.user][o] = IF q.code = "OK" THEN "APPLIED" ELSE "FAILED"]
          /\ Settle(s, o, r)
      BY <1>10 DEF RecordEvent, In, q
    <2>2. q.code = "OK" => o \in applied
      BY <2>1, <1>q DEF RequestIsBacked
    <2>3. r \in Result /\ (Succeeded(r) => o \in applied)
      BY <2>2, <1>q DEF Request, Succeeded, Result, Code
    <2>4. \A u \in Account, x \in Op : event'[u][x] = "APPLIED" => x \in applied
      BY <2>1, <2>2, <1>e, <1>q DEF ServerTypeOK
    <2> QED  BY <2>1, <2>3, <2>4, <1>p
  <1>11. ASSUME NEW o \in Op, RecordFails(s, o)
         PROVE  ServerBacked' /\ applied \subseteq applied'
    <2>1. q.phase # "free" /\ UNCHANGED <<event, store, applied>>
          /\ (Settle(s, o, "TRANSIENT") \/ Goto(s, "unavailable"))
      BY <1>11 DEF RecordFails, In, q
    <2>2. ~Succeeded("TRANSIENT") /\ "TRANSIENT" \in Result /\ "unavailable" \in Phase
      BY DEF Succeeded, Result, Phase
    <2> QED  BY <2>1, <2>2, <1>p, <1>g, <1>e
  <1>m. CASE \/ RefuseRequest(s) \/ AcceptRequest(s) \/ Reply(s)
             \/ Outage(s) \/ CrashServing(s) \/ Leave(s)
    <2>1. applied' = applied
      BY <1>m DEF RefuseRequest, AcceptRequest, Reply, Outage, CrashServing, Leave
    <2> QED  BY <2>1, <1>m, <1>1, <1>2, <1>3, <1>4, <1>5, <1>6
  <1>12. ASSUME NEW o \in Op, LookUpTrip(s, o)
         PROVE  ServerBacked' /\ applied \subseteq applied'
    <2> DEFINE v == Finds(store, q.user, payload[o].kind, payload[o].item)
               t == store.trip[payload[o].item]
    <2>1. /\ q.phase = "serving" /\ IsFirst(o, q.todo) /\ UNCHANGED event
          /\ req' = [req EXCEPT ![s] = LookedUp(q, v, t)]
          /\ applied' = IF v = "OK" THEN applied \cup {o} ELSE applied
      BY <1>12 DEF LookUpTrip, AtOperation, In, q, ServerTypeOK
    <2>2. v \in Verdict
      BY FindsType
    <2> HIDE DEF v, t
    <2>3. applied \subseteq applied' /\ (v = "OK" => o \in applied')
      BY <2>1
    <2>4. RequestIsBacked(q, applied')
      BY <2>3, <1>q, MoreBacked
    <2>5. RequestIsBacked(LookedUp(q, v, t), applied') /\ LookedUp(q, v, t).user = q.user
      <3>1. CASE v = "WRITE"
        <4>1. LookedUp(q, v, t) = [q EXCEPT !.phase = "writing", !.code = "OK", !.found = t]
          BY <3>1 DEF LookedUp
        <4>2. /\ LookedUp(q, v, t).phase = "writing" /\ LookedUp(q, v, t).seen = q.seen
              /\ LookedUp(q, v, t).result = q.result /\ LookedUp(q, v, t).user = q.user
          BY <4>1, <1>q DEF Request
        <4> QED  BY <4>2, <2>4 DEF RequestIsBacked
      <3>2. CASE v # "WRITE"
        <4>1. v \in Code \cup {"OK"} /\ LookedUp(q, v, t) = Dispatched(q, v)
          BY <3>2, <2>2 DEF LookedUp, Verdict
        <4>2. RequestIsBacked(Dispatched(q, v), applied')
          BY <4>1, <2>1, <2>3, <2>4, <1>q, DispatchedBacked
        <4>3. Dispatched(q, v).user = q.user
          BY <1>q DEF Dispatched, Request
        <4> QED  BY <4>1, <4>2, <4>3
      <3> QED  BY <3>1, <3>2
    <2>6. LookedUp(q, v, t).phase # "free" => q.user \in Account
      BY <2>1, <1>q
    <2> QED  BY <2>1, <2>3, <2>5, <2>6, <1>e, SlotBacked
  <1>13. ASSUME NEW o \in Op, NEW p \in {"measuring", "recording"}, NEW b,
                InHandler(s, {b}, o), b # "free", Goto(s, p), UNCHANGED event,
                applied \subseteq applied', q.code = "OK" => o \in applied'
         PROVE  ServerBacked'
    <2>1. q.phase # "free" /\ IsFirst(o, q.todo) /\ req' = [req EXCEPT ![s] = [q EXCEPT !.phase = p]]
      BY <1>13 DEF InHandler, Goto, q
    <2>2. RequestIsBacked(q, applied')
      BY <1>13, <1>q, MoreBacked
    <2>3. q.code = "OK" => \A x \in Op : IsFirst(x, q.todo) => x \in applied'
      BY <2>1, <1>13, <1>q, OneFirst
    <2>4. RequestIsBacked([q EXCEPT !.phase = p], applied') /\ [q EXCEPT !.phase = p].user = q.user
      BY <2>2, <2>3, <1>q, GotoBacked DEF Request
    <2> QED  BY <2>1, <2>2, <2>4, <1>q, <1>e, <1>13, SlotBacked
  <1>14. ASSUME NEW o \in Op, WriteTrip(s, o)
         PROVE  ServerBacked' /\ applied \subseteq applied'
    BY <1>14, <1>13 DEF WriteTrip
  <1>15. ASSUME NEW o \in Op, MeasureTrip(s, o)
         PROVE  ServerBacked' /\ applied \subseteq applied'
    <2>1. /\ InHandler(s, {"measuring"}, o) /\ Goto(s, "recording")
          /\ UNCHANGED <<event, applied>>
      BY <1>15 DEF MeasureTrip
    <2>2. q.code = "OK" => o \in applied
      BY <2>1, <1>q DEF InHandler, RequestIsBacked, q
    <2> QED  BY <2>1, <2>2, <1>13
  <1>16. ASSUME NEW o \in Op, CreationClashes(s, o)
         PROVE  ServerBacked' /\ applied \subseteq applied'
    <2>1. q.phase # "free" /\ Settle(s, o, "TRANSIENT") /\ UNCHANGED <<event, store, applied>>
      BY <1>16 DEF CreationClashes, InHandler, q
    <2>2. ~Succeeded("TRANSIENT") /\ "TRANSIENT" \in Result
      BY DEF Succeeded, Result
    <2> QED  BY <2>1, <2>2, <1>p, <1>e
  <1> QED  BY <1>m, <1>7, <1>8, <1>9, <1>10, <1>11, <1>12, <1>14, <1>15, <1>16
           DEF Serve, ServerFault

(* The part of Backed the phone's steps are about. *)
PhoneBacked ==
  /\ \A o \in Op : Succeeded(answer[o]) => o \in applied
  /\ done \subseteq applied
  /\ CompletedWasApplied

NothingCompletes ==
  \A o \in Op : row'[o].status = "COMPLETED" => row[o].status = "COMPLETED"

(* A step that completes nothing and takes no answer keeps PhoneBacked.    *)
LEMMA Uneventful ==
  ASSUME PhoneBacked, applied \subseteq applied', NothingCompletes,
         answer' = answer \/ answer' = NoAnswer, done' = done \/ done' = {}
  PROVE  PhoneBacked'
  BY DEF PhoneBacked, CompletedWasApplied, NothingCompletes, NoAnswer, Succeeded

LEMMA RowUpdates ==
  ASSUME QueueTypeOK
  PROVE  /\ \A S : \A t \in {"PENDING", "SYNCING"} : row' = WithStatus(S, t) => NothingCompletes
         /\ \A o \in Op : row' = [row EXCEPT ![o] = Retried(@)] => NothingCompletes
         /\ \A o \in Op : \A e : row' = [row EXCEPT ![o] = Rejected(@, e)] => NothingCompletes
  <1> USE DEF QueueTypeOK
  <1>1. ASSUME NEW r \in Row, NEW e
        PROVE  /\ Retried(r).status = "PENDING"
               /\ Rejected(r, e).status = "FAILED"
    BY DEF Retried, Rejected, Row
  <1>2. ASSUME NEW r \in Row, NEW t PROVE [r EXCEPT !.status = t].status = t
    BY DEF Row
  <1>3. ASSUME NEW S, NEW t \in {"PENDING", "SYNCING"}, row' = WithStatus(S, t)
        PROVE  NothingCompletes
    BY <1>2, <1>3 DEF NothingCompletes, WithStatus
  <1>4. ASSUME NEW o \in Op, row' = [row EXCEPT ![o] = Retried(@)] PROVE NothingCompletes
    BY <1>1, <1>4 DEF NothingCompletes
  <1>5. ASSUME NEW o \in Op, NEW e, row' = [row EXCEPT ![o] = Rejected(@, e)]
        PROVE  NothingCompletes
    BY <1>1, <1>5 DEF NothingCompletes
  <1> QED  BY <1>3, <1>4, <1>5

LEMMA UserStepBacked ==
  ASSUME QueueTypeOK, PhoneBacked, applied \subseteq applied',
         \/ \E o \in Op, a \in Owner : Add(o, a)
         \/ \E a \in Owner : SwitchSession(a)
         \/ \E o \in Op : BackoffOver(o)
         \/ RetryFailed \/ AppKilled
  PROVE  PhoneBacked'
  <1>1. ASSUME NEW o \in Op, NEW a \in Owner, Add(o, a) PROVE PhoneBacked'
    <2>1. NewRow(a).status = "PENDING"
      BY DEF NewRow, NoRow
    <2>2. NothingCompletes
      BY <1>1, <2>1 DEF Add, NothingCompletes, QueueTypeOK
    <2> QED  BY <1>1, <2>2, Uneventful DEF Add, roundVars
  <1>2. ASSUME NEW a \in Owner, SwitchSession(a) PROVE PhoneBacked'
    BY <1>2, Uneventful DEF SwitchSession, roundVars, NothingCompletes
  <1>3. ASSUME NEW o \in Op, BackoffOver(o) PROVE PhoneBacked'
    <2>1. NothingCompletes
      BY <1>3 DEF BackoffOver, NothingCompletes, QueueTypeOK, Row
    <2> QED  BY <1>3, <2>1, Uneventful DEF BackoffOver, roundVars
  <1>4. CASE RetryFailed
    <2>1. NothingCompletes
      BY <1>4 DEF RetryFailed, Reinstated, NothingCompletes, QueueTypeOK, Row
    <2> QED  BY <1>4, <2>1, Uneventful DEF RetryFailed, roundVars
  <1>5. CASE AppKilled
    BY <1>5, Uneventful DEF AppKilled, NothingCompletes
  <1> QED  BY <1>1, <1>2, <1>3, <1>4, <1>5

LEMMA RoundStepBacked ==
  ASSUME QueueTypeOK, PhoneBacked, applied \subseteq applied', BeginRound \/ RoundStep
  PROVE  PhoneBacked'
  <1>1. CASE BeginRound
    BY <1>1, RowUpdates, Uneventful DEF BeginRound
  <1>2. CASE SelectBatch
    BY <1>2, RowUpdates, Uneventful DEF SelectBatch
  <1>3. CASE PushOver
    BY <1>3, Uneventful DEF PushOver, NothingCompletes
  <1>4. CASE HandleResult
    <2>1. PICK o \in Op :
            /\ ResultDone(o) \/ ResultRetried(o) \/ ResultRejected(o)
            /\ answer' = [answer EXCEPT ![o] = "none"]
      BY <1>4 DEF HandleResult
    <2>2. \A p \in Op : Succeeded(answer'[p]) => p \in applied
      BY <2>1 DEF PhoneBacked, Succeeded, QueueTypeOK
    <2>3. done' \subseteq applied
      BY <2>1 DEF ResultDone, ResultRetried, ResultRejected, PhoneBacked
    <2>4. NothingCompletes
      BY <2>1, RowUpdates DEF ResultDone, ResultRetried, ResultRejected, NothingCompletes
    <2> QED  BY <2>2, <2>3, <2>4 DEF PhoneBacked, CompletedWasApplied, NothingCompletes
  <1>5. CASE BatchOver
    <2>1. \A o \in Op : row'[o].status = "COMPLETED" => row[o].status = "COMPLETED" \/ o \in done
      BY <1>5 DEF BatchOver, QueueTypeOK, Row
    <2>2. done' = {} /\ answer' = answer
      BY <1>5 DEF BatchOver
    <2> QED  BY <2>1, <2>2 DEF PhoneBacked, CompletedWasApplied
  <1>6. CASE FinishRound
    BY <1>6, Uneventful DEF FinishRound, NothingCompletes
  <1>7. CASE PostUnauthorized
    BY <1>7, RowUpdates, Uneventful DEF PostUnauthorized, Release
  <1>8. CASE RetryNext
    <2>1. NothingCompletes
      BY <1>8, RowUpdates DEF RetryNext
    <2> QED  BY <1>8, <2>1, Uneventful DEF RetryNext
  <1> QED  BY <1>1, <1>2, <1>3, <1>4, <1>5, <1>6, <1>7, <1>8 DEF RoundStep

LEMMA OutcomeBacked ==
  ASSUME QueueTypeOK, PhoneBacked, applied \subseteq applied',
         \/ NoReply \/ Unavailable \/ SplitBatch \/ RejectSingle \/ Post
         \/ \E results \in [Op -> Result \cup {"none"}] :
               /\ Answered(results)
               /\ \A o \in Op : Succeeded(results[o]) => o \in applied
  PROVE  PhoneBacked'
  <1>1. CASE NoReply
    BY <1>1, RowUpdates, Uneventful DEF NoReply, Release
  <1>2. CASE Unavailable
    BY <1>2, Uneventful DEF Unavailable, NothingCompletes
  <1>3. CASE SplitBatch
    BY <1>3, RowUpdates, Uneventful DEF SplitBatch
  <1>4. CASE RejectSingle
    <2>1. NothingCompletes
      BY <1>4, ZenonT(60) DEF RejectSingle, Rejected, NothingCompletes, QueueTypeOK, Row
    <2> QED  BY <1>4, <2>1, Uneventful DEF RejectSingle
  <1>5. ASSUME NEW results \in [Op -> Result \cup {"none"}], Answered(results),
               \A o \in Op : Succeeded(results[o]) => o \in applied
        PROVE  PhoneBacked'
    BY <1>5 DEF Answered, PhoneBacked, CompletedWasApplied, Succeeded
  <1>6. CASE Post
    BY <1>6, Uneventful DEF Post, NothingCompletes
  <1> QED  BY <1>1, <1>2, <1>3, <1>4, <1>5, <1>6

LEMMA BackedParts == Backed <=> SystemTypeOK /\ ServerBacked /\ PhoneBacked
  BY DEF Backed, ServerBacked, PhoneBacked, SuccessIsBacked

LEMMA InitBacked == Init => Backed
  <1> SUFFICES ASSUME Init PROVE Backed
    OBVIOUS
  <1>1. ServerBacked
    <2>1. Free.phase = "free"
      BY DEF Free
    <2> QED  BY <2>1, FreeBacked DEF Init, ServerInit, ServerBacked, HasUser
  <1>2. PhoneBacked
    BY DEF Init, QueueInit, PhoneBacked, CompletedWasApplied, NoRow, NoAnswer, Succeeded
  <1> QED  BY <1>1, <1>2, InitType, BackedParts

(* A server left alone stays as it was, and so does a phone left alone.    *)
LEMMA IdleBacked ==
  /\ ServerBacked /\ ServerIdle => ServerBacked' /\ applied \subseteq applied'
  /\ PhoneBacked /\ UNCHANGED queueVars /\ applied \subseteq applied' => PhoneBacked'
  <1>1. ASSUME ServerBacked, ServerIdle PROVE ServerBacked' /\ applied \subseteq applied'
    BY <1>1 DEF ServerIdle, serverVars, ServerBacked, HasUser
  <1>2. ASSUME PhoneBacked, UNCHANGED queueVars, applied \subseteq applied' PROVE PhoneBacked'
    BY <1>2, Uneventful DEF queueVars, roundVars, NothingCompletes
  <1> QED  BY <1>1, <1>2

LEMMA ChangeBacked ==
  ASSUME Backed,
         \/ \E o \in Op, k \in Kind : Create(o, k)
         \/ \E o, i \in Op : DeleteLocalRoute(o, i)
         \/ \E i \in Op : RecordFix(i)
         \/ \E o, i \in Op, k \in Kind : CloseTrip(o, i, k)
         \/ QueuePendingPoints
  PROVE  ServerBacked' /\ PhoneBacked'
  <1>0. QueueTypeOK /\ ServerBacked /\ PhoneBacked
    BY BackedParts DEF SystemTypeOK
  <1>s. ServerBacked' /\ applied \subseteq applied'
    <2>1. ServerIdle
      BY DEF Create, DeleteLocalRoute, RecordFix, CloseTrip, QueuePendingPoints
    <2> QED  BY <2>1, <1>0, IdleBacked
  <1>o. ASSUME NEW i \in Op PROVE row[i].owner \in Owner
    BY <1>0 DEF QueueTypeOK, Row
  <1>n. ASSUME NEW a PROVE NewRow(a).status = "PENDING"
    BY DEF NewRow, NoRow
  <1>1. ASSUME NEW o \in Op, NEW a \in Owner, Add(o, a) PROVE PhoneBacked'
    BY <1>1, <1>0, <1>s, UserStepBacked
  <1>2. ASSUME NEW o \in Op, NEW k \in Kind, Create(o, k) PROVE PhoneBacked'
    BY <1>2, <1>0, <1>1 DEF Create, QueueTypeOK
  <1>3. ASSUME NEW o \in Op, NEW i \in Op, DeleteLocalRoute(o, i) PROVE PhoneBacked'
    BY <1>3, <1>0, <1>1 DEF DeleteLocalRoute, QueueTypeOK
  <1>4. ASSUME NEW i \in Op, RecordFix(i) PROVE PhoneBacked'
    BY <1>4, <1>0, <1>s, IdleBacked DEF RecordFix
  <1>5. ASSUME NEW o \in Op, NEW i \in Op, NEW k \in Kind, CloseTrip(o, i, k)
        PROVE  PhoneBacked'
    <2>1. CASE i \in unqueued
      <3>1. /\ row' = [row EXCEPT ![o] = NewRow(row[i].owner), ![o + 1] = NewRow(row[i].owner)]
            /\ UNCHANGED roundVars
        BY <1>5, <2>1 DEF CloseTrip
      <3>2. NothingCompletes
        BY <3>1, <1>0, <1>n DEF NothingCompletes, QueueTypeOK
      <3> QED  BY <3>1, <3>2, <1>0, <1>s, Uneventful DEF roundVars
    <2>2. CASE i \notin unqueued
      BY <1>5, <2>2, <1>1, <1>o DEF CloseTrip
    <2> QED  BY <2>1, <2>2
  <1>6. CASE QueuePendingPoints
    <2>1. NothingCompletes
      <3>1. CASE unqueued = {}
        BY <1>6, <3>1 DEF QueuePendingPoints, NothingCompletes
      <3>2. CASE unqueued # {}
        <4>1. PICK o \in Op, i \in unqueued : row' = [row EXCEPT ![o] = NewRow(row[i].owner)]
          BY <1>6, <3>2 DEF QueuePendingPoints
        <4> QED  BY <4>1, <1>0, <1>n DEF NothingCompletes, QueueTypeOK
      <3> QED  BY <3>1, <3>2
    <2> QED  BY <1>6, <2>1, <1>0, <1>s, Uneventful DEF QueuePendingPoints, PointsQueued
  <1> QED  BY <1>s, <1>2, <1>3, <1>4, <1>5, <1>6

LEMMA PhoneStepBacked ==
  ASSUME Backed,
         \/ \E a \in Owner : Login(a)
         \/ UserRetries \/ StartRound \/ ContinueRound \/ KillApp
         \/ \E o \in Op : ClockTicks(o)
  PROVE  ServerBacked' /\ PhoneBacked'
  <1>0. QueueTypeOK /\ ServerBacked /\ PhoneBacked
    BY BackedParts DEF SystemTypeOK
  <1>s. ServerBacked' /\ applied \subseteq applied'
    <2>1. ServerIdle
      BY DEF Login, UserRetries, StartRound, ContinueRound, KillApp, ClockTicks
    <2> QED  BY <2>1, <1>0, IdleBacked
  <1>1. CASE \/ \E a \in Owner : SwitchSession(a)
             \/ \E o \in Op : BackoffOver(o)
             \/ RetryFailed \/ AppKilled
    BY <1>1, <1>0, <1>s, UserStepBacked
  <1>2. CASE BeginRound \/ RoundStep
    BY <1>2, <1>0, <1>s, RoundStepBacked
  <1> QED  BY <1>s, <1>1, <1>2
           DEF Login, UserRetries, StartRound, ContinueRound, KillApp, ClockTicks

LEMMA NetworkBacked ==
  ASSUME Backed, NEW s \in Slot,
         \/ SendRequest(s) \/ Deliver(s) \/ Discard(s) \/ GiveUp(s)
         \/ GatewayTimeout(s) \/ ServerCrash(s) \/ Work(s) \/ Fail(s)
  PROVE  ServerBacked' /\ PhoneBacked'
  <1>0. QueueTypeOK /\ ServerTypeOK /\ ServerBacked /\ PhoneBacked
    BY BackedParts DEF SystemTypeOK
  <1>e. \A u \in Account, o \in Op : event[u][o] = "APPLIED" => o \in applied
    BY <1>0 DEF ServerBacked
  <1>d. ASSUME Drop(s), UNCHANGED <<event, applied>> PROVE ServerBacked'
    <2>1. req' = [req EXCEPT ![s] = Free] /\ Free.phase = "free"
      BY <1>d DEF Drop, Free
    <2> QED  BY <2>1, <1>0, <1>e, <1>d, FreeBacked, SlotBacked
  <1>1. CASE SendRequest(s)
    <2> DEFINE q == [Free EXCEPT !.phase = "sent", !.user = session, !.todo = batch]
    <2>1. /\ Post /\ session # NoAccount
          /\ req' = [req EXCEPT ![s] = q] /\ UNCHANGED <<event, store, applied>>
      BY <1>1 DEF SendRequest, Post, Arrive
    <2>2. q.user \in Account
      BY <2>1, <1>0 DEF Free, QueueTypeOK
    <2>3. RequestIsBacked(q, applied)
      BY SentBacked
    <2> HIDE DEF q
    <2>4. ServerBacked'
      BY <2>1, <2>2, <2>3, <1>0, <1>e, SlotBacked
    <2> QED  BY <2>1, <2>4, <1>0, OutcomeBacked
  <1>2. CASE Deliver(s)
    <2>1. Leave(s) /\ applied' = applied
      BY <1>2 DEF Deliver, Leave
    <2>2. ServerBacked'
      BY <2>1, <1>0, ServerStepBacked
    <2>3. /\ req[s].result \in [Op -> Result \cup {"none"}]
          /\ \A o \in Op : Succeeded(req[s].result[o]) => o \in applied
      BY <1>0 DEF ServerTypeOK, Request, ServerBacked, RequestIsBacked
    <2>4. Answered(req[s].result) \/ SplitBatch \/ RejectSingle \/ Unavailable
      BY <1>2 DEF Deliver
    <2>5. PhoneBacked'
      BY <2>1, <2>3, <2>4, <1>0, OutcomeBacked
    <2> QED  BY <2>2, <2>5
  <1>3. CASE Discard(s)
    BY <1>3, <1>0, ServerStepBacked, IdleBacked DEF Discard
  <1>4. CASE GiveUp(s)
    <2>1. /\ NoReply /\ UNCHANGED <<event, store, applied, unmeasured>>
          /\ Drop(s) \/ UNCHANGED req
      BY <1>4 DEF GiveUp
    <2>2. ServerBacked'
      BY <2>1, <1>0, <1>d, IdleBacked DEF ServerIdle, serverVars
    <2>3. PhoneBacked'
      BY <2>1, <1>0, OutcomeBacked
    <2> QED  BY <2>2, <2>3
  <1>5. CASE GatewayTimeout(s)
    <2>1. ServerIdle /\ Unavailable
      BY <1>5 DEF GatewayTimeout
    <2>2. ServerBacked' /\ applied \subseteq applied'
      BY <2>1, <1>0, IdleBacked
    <2> QED  BY <2>1, <2>2, <1>0, OutcomeBacked
  <1>6. CASE ServerCrash(s)
    <2>1. ServerBacked' /\ applied \subseteq applied'
      BY <1>6, <1>0, ServerStepBacked DEF ServerCrash
    <2>2. NoReply \/ UNCHANGED queueVars
      BY <1>6 DEF ServerCrash
    <2> QED  BY <2>1, <2>2, <1>0, OutcomeBacked, IdleBacked
  <1>7. CASE Work(s) \/ Fail(s)
    <2>1. ServerBacked' /\ applied \subseteq applied'
      BY <1>7, <1>0, ServerStepBacked DEF Work, Fail
    <2>2. UNCHANGED queueVars
      BY <1>7 DEF Work, Fail
    <2> QED  BY <2>1, <2>2, <1>0, IdleBacked
  <1> QED  BY <1>1, <1>2, <1>3, <1>4, <1>5, <1>6, <1>7

LEMMA StepBacked == Backed /\ [Next]_vars => Backed'
  <1> SUFFICES ASSUME Backed, [Next]_vars PROVE Backed'
    OBVIOUS
  <1>1. SystemTypeOK'
    BY StepType DEF Backed
  <1>2. CASE Next
    <2>1. ServerBacked' /\ PhoneBacked'
      BY <1>2, ChangeBacked, PhoneStepBacked, NetworkBacked DEF Next
    <2> QED  BY <1>1, <2>1 DEF Backed, ServerBacked, PhoneBacked, SuccessIsBacked
  <1>3. CASE UNCHANGED vars
    <2>1. ServerIdle /\ UNCHANGED queueVars
      BY <1>3 DEF vars, ServerIdle
    <2>2. ServerBacked' /\ PhoneBacked'
      BY <2>1, IdleBacked, BackedParts
    <2> QED  BY <1>1, <2>2 DEF Backed, ServerBacked, PhoneBacked, SuccessIsBacked
  <1> QED  BY <1>2, <1>3

(* Whatever happens to the requests, the server and the app, an operation  *)
(* the phone marks COMPLETED was applied by the server, and every success  *)
(* the phone or the server has written down comes from a dispatch.         *)
THEOREM CompletedIsApplied == Spec => [](SuccessIsBacked /\ CompletedWasApplied)
  <1>1. Spec => []Backed
    BY InitBacked, StepBacked, PTL DEF Spec
  <1>2. Backed => SuccessIsBacked /\ CompletedWasApplied
    BY DEF Backed
  <1> QED  BY <1>1, <1>2, PTL

-----------------------------------------------------------------------------
(* A round keeps track of what it marked, and to its own account.          *)

(* The inductive invariant: RoundInHand says where each stage of a round   *)
(* leaves its batch, without which neither property is preserved.          *)
Orderly == RoundInHand /\ SyncingIsInBatch /\ RoundKeepsToItsAccount

LEMMA InitOrderly == Init => Orderly
  BY DEF Init, QueueInit, Orderly, RoundInHand, SyncingIsInBatch, RoundKeepsToItsAccount,
         Interrupted, Unhandled, NoRow, NoAnswer

(* A step that leaves the round and the rows it marked alone.              *)
LEMMA RoundUntouched ==
  ASSUME Orderly, UNCHANGED roundVars,
         \A o \in Op : /\ row'[o].status = "SYNCING" <=> row[o].status = "SYNCING"
                       /\ row[o].status = "SYNCING" => row'[o].owner = row[o].owner
  PROVE  Orderly'
  <1>1. Interrupted' = Interrupted /\ Unhandled' = Unhandled
    BY DEF Interrupted, Unhandled, roundVars
  <1>2. \A o \in batch \cup done \cup Unhandled : row'[o].owner = row[o].owner
    BY DEF Orderly, RoundInHand, Interrupted
  <1> QED  BY <1>1, <1>2 DEF Orderly, RoundInHand, SyncingIsInBatch, RoundKeepsToItsAccount, roundVars

(* What setting the status of some rows does to the rows marked SYNCING.   *)
LEMMA WithStatusMarks ==
  ASSUME QueueTypeOK, NEW S \in SUBSET Op, NEW t \in Status, row' = WithStatus(S, t)
  PROVE  /\ \A o \in Op : row'[o].owner = row[o].owner
         /\ t = "SYNCING" => Interrupted' = Interrupted \cup S
         /\ t # "SYNCING" => Interrupted' = Interrupted \ S
  <1>1. ASSUME NEW r \in Row
        PROVE  [r EXCEPT !.status = t].status = t /\ [r EXCEPT !.status = t].owner = r.owner
    BY DEF Row
  <1>2. \A o \in Op : row'[o] = IF o \in S THEN [row[o] EXCEPT !.status = t] ELSE row[o]
    BY DEF WithStatus
  <1>3. \A o \in Op : /\ row'[o].owner = row[o].owner
                      /\ row'[o].status = IF o \in S THEN t ELSE row[o].status
    BY <1>1, <1>2 DEF QueueTypeOK
  <1> QED  BY <1>3 DEF Interrupted

LEMMA RetryMarks ==
  ASSUME QueueTypeOK, NEW S \in SUBSET Op, NEW e,
         \/ row' = [o \in Op |-> IF o \in S THEN Retried(row[o]) ELSE row[o]]
         \/ row' = [o \in Op |-> IF o \in S THEN Rejected(row[o], e) ELSE row[o]]
  PROVE  /\ \A o \in Op : row'[o].owner = row[o].owner
         /\ Interrupted' = Interrupted \ S
  <1>1. ASSUME NEW r \in Row
        PROVE  /\ Retried(r).status = "PENDING" /\ Retried(r).owner = r.owner
               /\ Rejected(r, e).status = "FAILED" /\ Rejected(r, e).owner = r.owner
    BY DEF Retried, Rejected, Row
  <1>2. ASSUME NEW o \in Op
        PROVE  /\ row'[o].owner = row[o].owner
               /\ o \in S => row'[o].status \in {"PENDING", "FAILED"}
               /\ o \notin S => row'[o].status = row[o].status
    <2>1. row[o] \in Row
      BY DEF QueueTypeOK
    <2>2. o \notin S => row'[o] = row[o]
      OBVIOUS
    <2>3. o \in S => row'[o] = Retried(row[o]) \/ row'[o] = Rejected(row[o], e)
      OBVIOUS
    <2> QED  BY <2>1, <2>2, <2>3, <1>1
  <1> QED  BY <1>2 DEF Interrupted

LEMMA UserStepOrderly ==
  ASSUME QueueTypeOK, Orderly,
         \/ \E o \in Op, a \in Owner : Add(o, a)
         \/ \E a \in Owner : SwitchSession(a)
         \/ \E o \in Op : BackoffOver(o)
         \/ RetryFailed \/ AppKilled
  PROVE  Orderly'
  <1>1. ASSUME NEW o \in Op, NEW a \in Owner, Add(o, a) PROVE Orderly'
    <2>1. NewRow(a).status = "PENDING"
      BY DEF NewRow, NoRow
    <2>2. row[o].status = "NONE"
      BY <1>1, SyncTypesAssumption DEF Add, IsNext
    <2> QED  BY <1>1, <2>1, <2>2, RoundUntouched DEF Add, QueueTypeOK
  <1>2. ASSUME NEW a \in Owner, SwitchSession(a) PROVE Orderly'
    BY <1>2, RoundUntouched DEF SwitchSession
  <1>3. ASSUME NEW o \in Op, BackoffOver(o) PROVE Orderly'
    <2>1. \A p \in Op : row'[p].status = row[p].status /\ row'[p].owner = row[p].owner
      BY <1>3 DEF BackoffOver, QueueTypeOK, Row
    <2> QED  BY <1>3, <2>1, RoundUntouched DEF BackoffOver
  <1>4. CASE RetryFailed
    <2>1. ASSUME NEW r \in Row
          PROVE  Reinstated(r).status = "PENDING" /\ Reinstated(r).owner = r.owner
      BY DEF Reinstated, Row
    <2>2. \A p \in Op : /\ row'[p].owner = row[p].owner
                        /\ row'[p].status = "SYNCING" <=> row[p].status = "SYNCING"
      BY <1>4, <2>1 DEF RetryFailed, QueueTypeOK
    <2> QED  BY <1>4, <2>2, RoundUntouched DEF RetryFailed
  <1>5. CASE AppKilled
    <2>1. pc' = "idle" /\ batch' = {} /\ done' = {} /\ answer' = NoAnswer
      BY <1>5 DEF AppKilled
    <2>2. Unhandled' = {}
      BY <2>1 DEF Unhandled, NoAnswer
    <2> QED  BY <2>1, <2>2 DEF Orderly, RoundInHand, SyncingIsInBatch, RoundKeepsToItsAccount
  <1> QED  BY <1>1, <1>2, <1>3, <1>4, <1>5

LEMMA RoundStepOrderly ==
  ASSUME QueueTypeOK, Orderly, BeginRound \/ RoundStep
  PROVE  Orderly'
  <1> USE DEF Orderly, RoundInHand, SyncingIsInBatch, RoundKeepsToItsAccount
  <1>m. "PENDING" \in Status /\ "SYNCING" \in Status
    BY DEF Status
  <1>t. Interrupted \in SUBSET Op /\ batch \in SUBSET Op /\ done \in SUBSET Op
    BY DEF Interrupted, QueueTypeOK
  <1>a. answer' = answer => Unhandled' = Unhandled
    BY DEF Unhandled
  <1>1. CASE BeginRound
    <2>1. Interrupted' = {}
      BY <1>1, <1>m, <1>t, WithStatusMarks DEF BeginRound
    <2> QED  BY <1>1, <1>a, <2>1 DEF BeginRound
  <1>2. CASE SelectBatch
    <2>1. PICK b \in Prefixes(NextBatch(acct, Limit)) :
            batch' = b /\ row' = WithStatus(b, "SYNCING")
      BY <1>2 DEF SelectBatch
    <2>2. b \in SUBSET Op /\ \A o \in b : row[o].owner = acct
      BY <2>1 DEF Prefixes, NextBatch, Pending
    <2>3. Interrupted = {} /\ done = {} /\ Unhandled = {}
      BY <1>2 DEF SelectBatch
    <2>4. Interrupted' = b /\ \A o \in Op : row'[o].owner = row[o].owner
      BY <2>1, <2>2, <2>3, <1>m, WithStatusMarks
    <2> QED  BY <1>2, <1>a, <2>1, <2>2, <2>3, <2>4 DEF SelectBatch
  <1>3. CASE PushOver
    BY <1>3, <1>a DEF PushOver, Interrupted
  <1>4. CASE HandleResult
    <2>1. PICK o \in Op :
            /\ IsFirst(o, Unhandled)
            /\ ResultDone(o) \/ ResultRetried(o) \/ ResultRejected(o)
            /\ answer' = [answer EXCEPT ![o] = "none"]
            /\ batch' = batch \ {o}
      BY <1>4 DEF HandleResult
    <2>2. pc = "results" /\ UNCHANGED <<pc, acct>>
      BY <1>4 DEF HandleResult
    <2>3. o \in batch /\ o \notin done /\ Unhandled' = Unhandled \ {o}
      BY <2>1 DEF IsFirst, Unhandled, QueueTypeOK
    <2>4. CASE ResultDone(o)
      <3>1. done' = done \cup {o} /\ row' = row /\ Interrupted' = Interrupted
        BY <2>4 DEF ResultDone, Interrupted
      <3> QED  BY <2>1, <2>2, <2>3, <3>1
    <2>5. CASE ResultRetried(o) \/ ResultRejected(o)
      <3>1. done' = done
            /\ \/ row' = [p \in Op |-> IF p \in {o} THEN Retried(row[p]) ELSE row[p]]
               \/ row' = [p \in Op |-> IF p \in {o} THEN Rejected(row[p], answer[o]) ELSE row[p]]
        BY <2>5 DEF ResultRetried, ResultRejected, QueueTypeOK
      <3>2. Interrupted' = Interrupted \ {o} /\ \A p \in Op : row'[p].owner = row[p].owner
        <4>1. {o} \in SUBSET Op
          OBVIOUS
        <4> QED  BY <3>1, <4>1, RetryMarks
      <3> QED  BY <2>1, <2>2, <2>3, <3>1, <3>2, <1>t
    <2> QED  BY <2>1, <2>4, <2>5
  <1>5. CASE BatchOver
    <2>1. pc = "results" /\ Unhandled = {} /\ answer' = answer /\ batch' = {} /\ done' = {}
          /\ pc' = "select"
      BY <1>5 DEF BatchOver
    <2>2. \A o \in Op : row'[o].status = "SYNCING" => row[o].status = "SYNCING" /\ o \notin batch \cup done
      BY <1>5 DEF BatchOver, QueueTypeOK, Row
    <2>3. Interrupted' = {}
      BY <2>1, <2>2 DEF Interrupted
    <2> QED  BY <2>1, <2>3, <1>a
  <1>6. CASE FinishRound
    BY <1>6, <1>a DEF FinishRound, Interrupted
  <1>7. CASE PostUnauthorized
    <2>1. /\ pc = "post" /\ row' = WithStatus(batch, "PENDING") /\ batch' = {}
          /\ pc' = "finish" /\ UNCHANGED <<acct, answer, done>>
      BY <1>7 DEF PostUnauthorized, Release
    <2>2. Interrupted' = Interrupted \ batch
      BY <2>1, <1>m, <1>t, WithStatusMarks
    <2>3. Interrupted' = {}
      BY <2>1, <2>2
    <2> QED  BY <2>1, <2>3, <1>a
  <1>8. CASE RetryNext
    <2>1. PICK o \in Op : /\ IsFirst(o, batch) /\ batch' = batch \ {o}
                          /\ row' = [row EXCEPT ![o] = Retried(@)]
      BY <1>8 DEF RetryNext
    <2>2. /\ pc = "retry" /\ UNCHANGED <<acct, answer, done>>
          /\ pc' = IF batch' = {} THEN "finish" ELSE "retry"
      BY <1>8 DEF RetryNext
    <2>3. row' = [p \in Op |-> IF p \in {o} THEN Retried(row[p]) ELSE row[p]]
      BY <2>1 DEF QueueTypeOK
    <2>4. Interrupted' = Interrupted \ {o} /\ \A p \in Op : row'[p].owner = row[p].owner
      <3>1. {o} \in SUBSET Op
        OBVIOUS
      <3> QED  BY <2>3, <3>1, RetryMarks
    <2>5. Unhandled = {} /\ done = {}
      BY <2>2
    <2> QED  BY <2>1, <2>2, <2>4, <2>5, <1>a, <1>t
  <1> QED  BY <1>1, <1>2, <1>3, <1>4, <1>5, <1>6, <1>7, <1>8 DEF RoundStep

LEMMA OutcomeOrderly ==
  ASSUME QueueTypeOK, Orderly,
         \/ NoReply \/ Unavailable \/ SplitBatch \/ RejectSingle \/ Post
         \/ \E results \in [Op -> Result \cup {"none"}] : Answered(results)
  PROVE  Orderly'
  <1> USE DEF Orderly, RoundInHand, SyncingIsInBatch, RoundKeepsToItsAccount
  <1>m. "PENDING" \in Status /\ batch \in SUBSET Op
    BY DEF Status, QueueTypeOK
  <1>a. answer' = answer => Unhandled' = Unhandled
    BY DEF Unhandled
  <1>1. CASE NoReply \/ SplitBatch
    <2>1. row' = WithStatus(batch, "PENDING") /\ pc = "wait" /\ batch' = {}
          /\ pc' \in {"finish", "select"} /\ UNCHANGED <<acct, answer, done>>
      BY <1>1 DEF NoReply, SplitBatch, Release
    <2>2. Interrupted' = {}
      BY <2>1, <1>m, WithStatusMarks
    <2> QED  BY <2>1, <2>2, <1>a
  <1>2. CASE RejectSingle
    <2>1. /\ row' = [o \in Op |-> IF o \in batch THEN Rejected(row[o], "REFUSED") ELSE row[o]]
          /\ pc = "wait" /\ batch' = {} /\ pc' = "select"
          /\ UNCHANGED <<acct, answer, done>>
      BY <1>2 DEF RejectSingle
    <2>2. Interrupted' = {}
      BY <2>1, <1>m, RetryMarks, ZenonT(60)
    <2> QED  BY <2>1, <2>2, <1>a
  <1>3. CASE \E results \in [Op -> Result \cup {"none"}] : Answered(results)
    <2>1. pc = "wait" /\ pc' = "results" /\ UNCHANGED <<row, acct, batch>> /\ done' = {}
          /\ Unhandled' \subseteq batch
      BY <1>3 DEF Answered, Unhandled
    <2>2. Interrupted' = Interrupted
      BY <2>1 DEF Interrupted
    <2> QED  BY <2>1, <2>2
  <1>4. CASE Post \/ Unavailable
    BY <1>4, <1>a DEF Post, Unavailable, Interrupted
  <1> QED  BY <1>1, <1>2, <1>3, <1>4

LEMMA StepOrderly == SystemTypeOK /\ Orderly /\ [Next]_vars => Orderly'
  <1> SUFFICES ASSUME SystemTypeOK, Orderly, [Next]_vars PROVE Orderly'
    OBVIOUS
  <1>0. QueueTypeOK
    BY DEF SystemTypeOK
  <1>o. \A i \in Op : row[i].owner \in Owner
    BY <1>0 DEF QueueTypeOK, Row
  <1>i. ASSUME UNCHANGED queueVars PROVE Orderly'
    BY <1>i, RoundUntouched DEF queueVars
  <1>n. ASSUME NEW a PROVE NewRow(a).status = "PENDING"
    BY DEF NewRow, NoRow
  <1>1. ASSUME NEW o \in Op, NEW a \in Owner, Add(o, a) PROVE Orderly'
    BY <1>1, <1>0, UserStepOrderly
  <1>2. ASSUME NEW o \in Op, NEW k \in Kind, Create(o, k) PROVE Orderly'
    BY <1>2, <1>0, <1>1 DEF Create, QueueTypeOK
  <1>3. ASSUME NEW o \in Op, NEW i \in Op, DeleteLocalRoute(o, i) PROVE Orderly'
    BY <1>3, <1>0, <1>1 DEF DeleteLocalRoute, QueueTypeOK
  <1>4. ASSUME NEW i \in Op, RecordFix(i) PROVE Orderly'
    BY <1>4, <1>i DEF RecordFix
  <1>5. ASSUME NEW o \in Op, NEW i \in Op, NEW k \in Kind, CloseTrip(o, i, k) PROVE Orderly'
    <2>1. CASE i \in unqueued
      <3>1. /\ IsNext(o) /\ o + 1 \in Op
            /\ row' = [row EXCEPT ![o] = NewRow(row[i].owner), ![o + 1] = NewRow(row[i].owner)]
            /\ UNCHANGED roundVars
        BY <1>5, <2>1 DEF CloseTrip
      <3>2. row[o].status = "NONE" /\ row[o + 1].status = "NONE"
        BY <3>1, SyncTypesAssumption DEF IsNext
      <3>3. \A p \in Op : row'[p] = IF p \in {o, o + 1} THEN NewRow(row[i].owner) ELSE row[p]
        BY <3>1, <1>0 DEF QueueTypeOK
      <3> QED  BY <3>1, <3>2, <3>3, <1>n, RoundUntouched
    <2>2. CASE i \notin unqueued
      BY <1>5, <2>2, <1>1, <1>o DEF CloseTrip
    <2> QED  BY <2>1, <2>2
  <1>6. CASE QueuePendingPoints
    <2>1. \A p \in Op : /\ row'[p].status = "SYNCING" <=> row[p].status = "SYNCING"
                        /\ row[p].status = "SYNCING" => row'[p].owner = row[p].owner
      <3>1. CASE unqueued = {}
        BY <1>6, <3>1 DEF QueuePendingPoints
      <3>2. CASE unqueued # {}
        <4>1. PICK o \in Op, i \in unqueued :
                IsNext(o) /\ row' = [row EXCEPT ![o] = NewRow(row[i].owner)]
          BY <1>6, <3>2 DEF QueuePendingPoints
        <4>2. row[o].status = "NONE"
          BY <4>1, SyncTypesAssumption DEF IsNext
        <4> QED  BY <4>1, <4>2, <1>0, <1>n DEF QueueTypeOK
      <3> QED  BY <3>1, <3>2
    <2>2. pc = "points" /\ pc' = "select" /\ UNCHANGED <<acct, batch, answer, done>>
      BY <1>6 DEF QueuePendingPoints, PointsQueued
    <2>3. Interrupted' = Interrupted /\ Unhandled' = Unhandled
      BY <2>1, <2>2 DEF Interrupted, Unhandled
    <2>4. \A o \in batch \cup done \cup Unhandled : row'[o].owner = row[o].owner
      BY <2>1 DEF Orderly, RoundInHand, Interrupted
    <2> QED  BY <2>2, <2>3, <2>4 DEF Orderly, RoundInHand, SyncingIsInBatch, RoundKeepsToItsAccount
  <1>7. CASE \/ \E a \in Owner : Login(a)
             \/ \E o \in Op : ClockTicks(o)
             \/ UserRetries \/ KillApp
    BY <1>7, <1>0, UserStepOrderly DEF Login, ClockTicks, UserRetries, KillApp
  <1>8. CASE StartRound \/ ContinueRound
    BY <1>8, <1>0, RoundStepOrderly DEF StartRound, ContinueRound
  <1>9. ASSUME NEW s \in Slot,
               \/ SendRequest(s) \/ Deliver(s) \/ Discard(s) \/ GiveUp(s)
               \/ GatewayTimeout(s) \/ ServerCrash(s) \/ Work(s) \/ Fail(s)
        PROVE  Orderly'
    <2>1. req[s].result \in [Op -> Result \cup {"none"}]
      BY DEF SystemTypeOK, ServerTypeOK, Request
    <2>2. CASE SendRequest(s) \/ GiveUp(s) \/ GatewayTimeout(s)
      BY <2>2, <1>0, OutcomeOrderly DEF SendRequest, GiveUp, GatewayTimeout
    <2>3. CASE Deliver(s)
      <3>1. Answered(req[s].result) \/ SplitBatch \/ RejectSingle \/ Unavailable
        BY <2>3 DEF Deliver
      <3> QED  BY <3>1, <2>1, <1>0, OutcomeOrderly
    <2>4. CASE ServerCrash(s)
      BY <2>4, <1>0, <1>i, OutcomeOrderly DEF ServerCrash
    <2>5. CASE Discard(s) \/ Work(s) \/ Fail(s)
      BY <2>5, <1>i DEF Discard, Work, Fail
    <2> QED  BY <1>9, <2>2, <2>3, <2>4, <2>5
  <1>10. CASE UNCHANGED vars
    BY <1>10, <1>i DEF vars
  <1> QED  BY <1>2, <1>3, <1>4, <1>5, <1>6, <1>7, <1>8, <1>9, <1>10 DEF Next

(* A running round accounts for every row marked SYNCING, and handles      *)
(* operations of its own account only, whoever logs in meanwhile.          *)
THEOREM RoundIsOrderly == Spec => [](SyncingIsInBatch /\ RoundKeepsToItsAccount)
  <1>1. SystemTypeOK /\ Orderly /\ [Next]_vars => (SystemTypeOK /\ Orderly)'
    BY StepType, StepOrderly
  <1>2. Init => SystemTypeOK /\ Orderly
    BY InitType, InitOrderly
  <1>3. Orderly => SyncingIsInBatch /\ RoundKeepsToItsAccount
    BY DEF Orderly
  <1> QED  BY <1>1, <1>2, <1>3, PTL DEF Spec

-----------------------------------------------------------------------------
(* The system implements the outbox of module Delivery.                    *)

(* The rows of S, and no other, change what is reported of them.           *)
Moves(S, from, to) ==
  /\ \A o \in S : Report(row[o].status) = from /\ Report(row'[o].status) = to
  /\ \A o \in Op \ S : Report(row'[o].status) = Report(row[o].status)

RowsMove ==
  \E S \in SUBSET Op :
    \/ Moves(S, "new", "queued")
    \/ Moves(S, "queued", "aside")
    \/ Moves(S, "aside", "queued")
    \/ S \subseteq applied /\ Moves(S, "queued", "completed")

LEMMA StillReported ==
  ASSUME \A o \in Op : Report(row'[o].status) = Report(row[o].status)
  PROVE  RowsMove
  <1>1. Moves({}, "new", "queued") /\ {} \in SUBSET Op
    BY DEF Moves
  <1> QED  BY <1>1 DEF RowsMove

LEMMA SameStatus == ASSUME row' = row PROVE RowsMove
  BY StillReported

(* PENDING and SYNCING are the same to the outside.                        *)
LEMMA MarkingMoves ==
  ASSUME QueueTypeOK, NEW S \in SUBSET Op, S \subseteq Interrupted \/ S \subseteq Pending(acct),
         NEW t \in {"PENDING", "SYNCING"}, row' = WithStatus(S, t)
  PROVE  RowsMove
  <1>1. ASSUME NEW r \in Row PROVE [r EXCEPT !.status = t].status = t
    BY DEF Row
  <1>2. ASSUME NEW o \in Op PROVE Report(row'[o].status) = Report(row[o].status)
    <2>1. CASE o \in S
      <3>1. row'[o].status = t /\ row[o].status \in {"PENDING", "SYNCING"}
        BY <2>1, <1>1 DEF WithStatus, QueueTypeOK, Interrupted, Pending
      <3> QED  BY <3>1 DEF Report
    <2>2. CASE o \notin S
      BY <2>2 DEF WithStatus
    <2> QED  BY <2>1, <2>2
  <1> QED  BY <1>2, StillReported

LEMMA RetryMoves ==
  ASSUME QueueTypeOK, NEW S \in SUBSET Op, S \subseteq Interrupted, NEW e,
         \/ row' = [o \in Op |-> IF o \in S THEN Retried(row[o]) ELSE row[o]]
         \/ row' = [o \in Op |-> IF o \in S THEN Rejected(row[o], e) ELSE row[o]]
  PROVE  RowsMove
  <1>1. ASSUME NEW r \in Row
        PROVE  Retried(r).status = "PENDING" /\ Rejected(r, e).status = "FAILED"
    BY DEF Retried, Rejected, Row
  <1>2. \A o \in Op : row[o] \in Row /\ (o \in S => row[o].status = "SYNCING")
    BY DEF QueueTypeOK, Interrupted
  <1>3. CASE row' = [o \in Op |-> IF o \in S THEN Retried(row[o]) ELSE row[o]]
    <2>1. ASSUME NEW o \in Op PROVE Report(row'[o].status) = Report(row[o].status)
      BY <1>1, <1>2, <1>3 DEF Report
    <2> QED  BY <2>1, StillReported
  <1>4. CASE row' = [o \in Op |-> IF o \in S THEN Rejected(row[o], e) ELSE row[o]]
    <2>1. ASSUME NEW o \in S
          PROVE  Report(row[o].status) = "queued" /\ Report(row'[o].status) = "aside"
      BY <1>1, <1>2, <1>4 DEF Report
    <2>2. ASSUME NEW o \in Op \ S PROVE row'[o] = row[o]
      BY <1>4
    <2> QED  BY <2>1, <2>2 DEF RowsMove, Moves
  <1> QED  BY <1>3, <1>4

(* New rows are queued. *)
LEMMA AddingMoves ==
  ASSUME QueueTypeOK, NEW S \in SUBSET Op, NEW a,
         \A o \in S : row[o].status = "NONE" /\ row'[o] = NewRow(a),
         \A o \in Op \ S : row'[o] = row[o]
  PROVE  RowsMove
  <1>1. NewRow(a).status = "PENDING"
    BY DEF NewRow, NoRow
  <1>2. ASSUME NEW o \in S
        PROVE  Report(row[o].status) = "new" /\ Report(row'[o].status) = "queued"
    BY <1>1 DEF Report
  <1> QED  BY <1>2 DEF RowsMove, Moves

LEMMA UserStepMoves ==
  ASSUME QueueTypeOK,
         \/ \E o \in Op, a \in Owner : Add(o, a)
         \/ \E a \in Owner : SwitchSession(a)
         \/ \E o \in Op : BackoffOver(o)
         \/ RetryFailed \/ AppKilled
  PROVE  RowsMove
  <1>1. ASSUME NEW o \in Op, NEW a \in Owner, Add(o, a) PROVE RowsMove
    <2>1. row[o].status = "NONE" /\ row' = [row EXCEPT ![o] = NewRow(a)]
      BY <1>1, SyncTypesAssumption DEF Add, IsNext
    <2>2. {o} \in SUBSET Op
      OBVIOUS
    <2> QED  BY <2>1, <2>2, AddingMoves, ZenonT(60) DEF QueueTypeOK
  <1>2. ASSUME NEW a \in Owner, SwitchSession(a) PROVE RowsMove
    BY <1>2, SameStatus DEF SwitchSession
  <1>3. ASSUME NEW o \in Op, BackoffOver(o) PROVE RowsMove
    <2>1. \A p \in Op : row'[p].status = row[p].status
      BY <1>3 DEF BackoffOver, QueueTypeOK, Row
    <2> QED  BY <2>1, StillReported
  <1>4. CASE RetryFailed
    <2> DEFINE S == {o \in Op : row[o].status = "FAILED" /\ row[o].owner = session}
    <2>1. ASSUME NEW r \in Row PROVE Reinstated(r).status = "PENDING"
      BY DEF Reinstated, Row
    <2>2. ASSUME NEW o \in S
          PROVE  Report(row[o].status) = "aside" /\ Report(row'[o].status) = "queued"
      BY <1>4, <2>1 DEF RetryFailed, Report, QueueTypeOK
    <2>3. ASSUME NEW o \in Op \ S PROVE row'[o] = row[o]
      BY <1>4 DEF RetryFailed
    <2>4. S \in SUBSET Op
      OBVIOUS
    <2> HIDE DEF S
    <2> QED  BY <2>2, <2>3, <2>4 DEF RowsMove, Moves
  <1>5. CASE AppKilled
    BY <1>5, SameStatus DEF AppKilled
  <1> QED  BY <1>1, <1>2, <1>3, <1>4, <1>5

LEMMA RoundStepMoves ==
  ASSUME QueueTypeOK, Orderly, done \subseteq applied, BeginRound \/ RoundStep
  PROVE  RowsMove
  <1>h. batch \cup done \subseteq Interrupted /\ Unhandled \subseteq batch /\ batch \cap done = {}
    BY DEF Orderly, RoundInHand
  <1>t. Interrupted \in SUBSET Op /\ batch \in SUBSET Op /\ done \in SUBSET Op
    BY DEF Interrupted, QueueTypeOK
  <1>1. CASE BeginRound
    BY <1>1, <1>t, MarkingMoves DEF BeginRound
  <1>2. CASE SelectBatch
    <2>1. PICK b \in Prefixes(NextBatch(acct, Limit)) : row' = WithStatus(b, "SYNCING")
      BY <1>2 DEF SelectBatch
    <2>2. b \in SUBSET Op /\ b \subseteq Pending(acct)
      BY <2>1 DEF Prefixes, NextBatch, Pending
    <2> QED  BY <2>1, <2>2, MarkingMoves
  <1>3. CASE PushOver \/ FinishRound
    BY <1>3, SameStatus DEF PushOver, FinishRound
  <1>4. CASE HandleResult
    <2>1. PICK o \in Op :
            /\ IsFirst(o, Unhandled)
            /\ ResultDone(o) \/ ResultRetried(o) \/ ResultRejected(o)
      BY <1>4 DEF HandleResult
    <2>2. {o} \in SUBSET Op /\ {o} \subseteq Interrupted
      BY <2>1, <1>h DEF IsFirst
    <2>3. CASE ResultDone(o)
      BY <2>3, SameStatus DEF ResultDone
    <2>4. CASE ResultRetried(o) \/ ResultRejected(o)
      <3>1. \/ row' = [p \in Op |-> IF p \in {o} THEN Retried(row[p]) ELSE row[p]]
            \/ row' = [p \in Op |-> IF p \in {o} THEN Rejected(row[p], answer[o]) ELSE row[p]]
        BY <2>4 DEF ResultRetried, ResultRejected, QueueTypeOK
      <3> QED  BY <3>1, <2>2, RetryMoves
    <2> QED  BY <2>1, <2>3, <2>4
  <1>5. CASE BatchOver
    <2>1. ASSUME NEW o \in done
          PROVE  Report(row[o].status) = "queued" /\ Report(row'[o].status) = "completed"
      <3>1. row'[o].status = "COMPLETED" /\ row[o].status = "SYNCING"
        BY <1>5, <1>h, <1>t DEF BatchOver, QueueTypeOK, Row, Interrupted
      <3> QED  BY <3>1 DEF Report
    <2>2. ASSUME NEW o \in Op \ done PROVE Report(row'[o].status) = Report(row[o].status)
      <3>1. CASE o \in batch
        <4>1. row'[o].status = "PENDING" /\ row[o].status = "SYNCING"
          BY <1>5, <1>h, <3>1 DEF BatchOver, QueueTypeOK, Row, Interrupted
        <4> QED  BY <4>1 DEF Report
      <3>2. CASE o \notin batch
        <4>1. row'[o] = row[o]
          BY <1>5, <3>2 DEF BatchOver
        <4> QED  BY <4>1
      <3> QED  BY <3>1, <3>2
    <2> QED  BY <2>1, <2>2, <1>t DEF RowsMove, Moves
  <1>6. CASE PostUnauthorized
    BY <1>6, <1>h, <1>t, MarkingMoves DEF PostUnauthorized, Release
  <1>7. CASE RetryNext
    <2>1. PICK o \in Op : IsFirst(o, batch) /\ row' = [row EXCEPT ![o] = Retried(@)]
      BY <1>7 DEF RetryNext
    <2>2. {o} \in SUBSET Op /\ {o} \subseteq Interrupted
      BY <2>1, <1>h DEF IsFirst
    <2>3. row' = [p \in Op |-> IF p \in {o} THEN Retried(row[p]) ELSE row[p]]
      BY <2>1 DEF QueueTypeOK
    <2> QED  BY <2>2, <2>3, RetryMoves
  <1> QED  BY <1>1, <1>2, <1>3, <1>4, <1>5, <1>6, <1>7 DEF RoundStep

LEMMA OutcomeMoves ==
  ASSUME QueueTypeOK, Orderly,
         \/ NoReply \/ Unavailable \/ SplitBatch \/ RejectSingle \/ Post
         \/ \E results \in [Op -> Result \cup {"none"}] : Answered(results)
  PROVE  RowsMove
  <1>h. batch \subseteq Interrupted /\ batch \in SUBSET Op
    BY DEF Orderly, RoundInHand, QueueTypeOK
  <1>1. CASE NoReply \/ SplitBatch
    BY <1>1, <1>h, MarkingMoves DEF NoReply, SplitBatch, Release
  <1>2. CASE RejectSingle
    BY <1>2, <1>h, RetryMoves DEF RejectSingle
  <1>3. CASE \/ Post \/ Unavailable
             \/ \E results \in [Op -> Result \cup {"none"}] : Answered(results)
    BY <1>3, SameStatus DEF Post, Unavailable, Answered
  <1> QED  BY <1>1, <1>2, <1>3

LEMMA StepMoves ==
  ASSUME SystemTypeOK, Orderly, done \subseteq applied, Next
  PROVE  RowsMove
  <1>0. QueueTypeOK
    BY DEF SystemTypeOK
  <1>o. \A i \in Op : row[i].owner \in Owner
    BY <1>0 DEF QueueTypeOK, Row
  <1>i. ASSUME UNCHANGED queueVars PROVE RowsMove
    BY <1>i, SameStatus DEF queueVars
  <1>1. ASSUME NEW o \in Op, NEW a \in Owner, Add(o, a) PROVE RowsMove
    BY <1>1, <1>0, UserStepMoves
  <1>2. ASSUME NEW o \in Op, NEW k \in Kind, Create(o, k) PROVE RowsMove
    BY <1>2, <1>0, <1>1 DEF Create, QueueTypeOK
  <1>3. ASSUME NEW o \in Op, NEW i \in Op, DeleteLocalRoute(o, i) PROVE RowsMove
    BY <1>3, <1>0, <1>1 DEF DeleteLocalRoute, QueueTypeOK
  <1>4. ASSUME NEW i \in Op, RecordFix(i) PROVE RowsMove
    BY <1>4, <1>i DEF RecordFix
  <1>5. ASSUME NEW o \in Op, NEW i \in Op, NEW k \in Kind, CloseTrip(o, i, k) PROVE RowsMove
    <2>1. CASE i \in unqueued
      <3>1. /\ IsNext(o) /\ o + 1 \in Op
            /\ row' = [row EXCEPT ![o] = NewRow(row[i].owner), ![o + 1] = NewRow(row[i].owner)]
        BY <1>5, <2>1 DEF CloseTrip
      <3>2. row[o].status = "NONE" /\ row[o + 1].status = "NONE"
        BY <3>1, SyncTypesAssumption DEF IsNext
      <3>3. \A p \in Op : row'[p] = IF p \in {o, o + 1} THEN NewRow(row[i].owner) ELSE row[p]
        BY <3>1, <1>0 DEF QueueTypeOK
      <3>4. {o, o + 1} \in SUBSET Op
        BY <3>1
      <3> QED  BY <3>2, <3>3, <3>4, <1>0, AddingMoves
    <2>2. CASE i \notin unqueued
      BY <1>5, <2>2, <1>1, <1>o DEF CloseTrip
    <2> QED  BY <2>1, <2>2
  <1>6. CASE QueuePendingPoints
    <2>1. CASE unqueued = {}
      BY <1>6, <2>1, SameStatus DEF QueuePendingPoints
    <2>2. CASE unqueued # {}
      <3>1. PICK o \in Op, i \in unqueued :
              IsNext(o) /\ row' = [row EXCEPT ![o] = NewRow(row[i].owner)]
        BY <1>6, <2>2 DEF QueuePendingPoints
      <3>2. row[o].status = "NONE" /\ {o} \in SUBSET Op
        BY <3>1, SyncTypesAssumption DEF IsNext
      <3> QED  BY <3>1, <3>2, <1>0, AddingMoves DEF QueueTypeOK
    <2> QED  BY <2>1, <2>2
  <1>7. CASE \/ \E a \in Owner : Login(a)
             \/ \E o \in Op : ClockTicks(o)
             \/ UserRetries \/ KillApp
    BY <1>7, <1>0, UserStepMoves DEF Login, ClockTicks, UserRetries, KillApp
  <1>8. CASE StartRound \/ ContinueRound
    BY <1>8, <1>0, RoundStepMoves DEF StartRound, ContinueRound
  <1>9. ASSUME NEW s \in Slot,
               \/ SendRequest(s) \/ Deliver(s) \/ Discard(s) \/ GiveUp(s)
               \/ GatewayTimeout(s) \/ ServerCrash(s) \/ Work(s) \/ Fail(s)
        PROVE  RowsMove
    <2>1. req[s].result \in [Op -> Result \cup {"none"}]
      BY DEF SystemTypeOK, ServerTypeOK, Request
    <2>2. CASE SendRequest(s) \/ GiveUp(s) \/ GatewayTimeout(s)
      BY <2>2, <1>0, OutcomeMoves DEF SendRequest, GiveUp, GatewayTimeout
    <2>3. CASE Deliver(s)
      <3>1. Answered(req[s].result) \/ SplitBatch \/ RejectSingle \/ Unavailable
        BY <2>3 DEF Deliver
      <3> QED  BY <3>1, <2>1, <1>0, OutcomeMoves
    <2>4. CASE ServerCrash(s)
      BY <2>4, <1>0, <1>i, OutcomeMoves DEF ServerCrash
    <2>5. CASE Discard(s) \/ Work(s) \/ Fail(s)
      BY <2>5, <1>i DEF Discard, Work, Fail
    <2> QED  BY <1>9, <2>2, <2>3, <2>4, <2>5
  <1> QED  BY <1>2, <1>3, <1>4, <1>5, <1>6, <1>7, <1>8, <1>9 DEF Next

(* A request is about operations of the queue: the server has no others to *)
(* apply.                                                                  *)
InQueue == \A s \in Slot : \A o \in req[s].todo : row[o].status # "NONE"

LEMMA RowsStay ==
  ASSUME SystemTypeOK, RowsMove, NEW o \in Op, row[o].status # "NONE"
  PROVE  row'[o].status # "NONE"
  <1>1. row[o].status \in Status
    BY DEF SystemTypeOK, QueueTypeOK, Row
  <1>2. Report(row[o].status) # "new"
    BY <1>1 DEF Report, Status
  <1>3. Report(row'[o].status) # "new"
    BY <1>2 DEF RowsMove, Moves
  <1> QED  BY <1>3 DEF Report

(* No step but SendRequest adds to what a request has to do, or changes    *)
(* the user it does it for.                                                *)
TodosShrink ==
  \A t \in Slot : /\ req'[t].todo \subseteq req[t].todo
                  /\ req'[t].todo # {} => req'[t].user = req[t].user

LEMMA TodoShrinks ==
  ASSUME ServerTypeOK, NEW s \in Slot,
         Serve(s) \/ ServerFault(s) \/ CrashServing(s) \/ Leave(s) \/ Drop(s)
  PROVE  TodosShrink
  <1> USE DEF TodosShrink
  <1>q. \A t \in Slot : req[t] \in Request
    BY DEF ServerTypeOK
  <1>f. Free.todo = {}
    BY DEF Free
  <1>1. ASSUME NEW p, Goto(s, p) PROVE TodosShrink
    BY <1>1, <1>q DEF Goto, ServerTypeOK, Request
  <1>2. ASSUME Drop(s) PROVE TodosShrink
    BY <1>2, <1>f DEF Drop, ServerTypeOK
  <1>3. ASSUME NEW q \in Request, NEW o, NEW r
        PROVE  Processed(q, o, r).todo \subseteq q.todo /\ Processed(q, o, r).user = q.user
    BY DEF Processed, Request
  <1>4. ASSUME NEW o, NEW r, Settle(s, o, r)
        PROVE  TodosShrink
    BY <1>3, <1>4, <1>q DEF Settle, ServerTypeOK
  <1>5. ASSUME NEW q \in Request, NEW c
        PROVE  /\ Accepted(q).todo = q.todo /\ Accepted(q).user = q.user
               /\ Dispatched(q, c).todo = q.todo /\ Dispatched(q, c).user = q.user
               /\ \A t : LookedUp(q, c, t).todo = q.todo /\ LookedUp(q, c, t).user = q.user
    BY DEF Accepted, Dispatched, LookedUp, Request
  <1>6. CASE AcceptRequest(s)
    BY <1>5, <1>6, <1>q DEF AcceptRequest, ServerTypeOK
  <1>7. ASSUME NEW o \in Op, Dispatch(s, o) \/ LookUpTrip(s, o)
        PROVE  TodosShrink
    <2>1. PICK q \in {Dispatched(req[s], c) : c \in {Handled(req[s].user, o).code}}
                    \cup {LookedUp(req[s], v, store.trip[payload[o].item]) :
                            v \in {Finds(store, req[s].user, payload[o].kind, payload[o].item)}} :
            req' = [req EXCEPT ![s] = q]
      BY <1>7 DEF Dispatch, LookUpTrip, ServerTypeOK
    <2>2. q.todo = req[s].todo /\ q.user = req[s].user
      BY <1>5, <1>q
    <2> QED  BY <2>1, <2>2 DEF ServerTypeOK
  <1>8. CASE \/ RefuseRequest(s) \/ Reply(s) \/ Outage(s) \/ CrashServing(s) \/ Leave(s) \/ Drop(s)
             \/ \E o \in Op : \/ ReportDuplicate(s, o) \/ RecordEvent(s, o)
                             \/ DispatchFails(s, o) \/ RecordFails(s, o)
                             \/ WriteTrip(s, o) \/ MeasureTrip(s, o) \/ CreationClashes(s, o)
    BY <1>8, <1>1, <1>2, <1>4
       DEF RefuseRequest, Reply, Outage, CrashServing, Leave, ReportDuplicate, RecordEvent,
           DispatchFails, RecordFails, WriteTrip, MeasureTrip, CreationClashes
  <1> QED  BY <1>6, <1>7, <1>8 DEF Serve, ServerFault

(* What a step does to the requests and to the history of what was applied.*)
LEMMA ServerMoves ==
  ASSUME SystemTypeOK, Next
  PROVE  \/ applied' = applied /\ \E s \in Slot : SendRequest(s)
         \/ applied' = applied /\ TodosShrink
         \/ /\ TodosShrink
            /\ row' = row
            /\ \E s \in Slot : \E o \in req[s].todo : applied' = applied \cup {o}
  <1> DEFINE Goal ==
        \/ applied' = applied /\ \E s \in Slot : SendRequest(s)
        \/ applied' = applied /\ TodosShrink
        \/ TodosShrink /\ row' = row /\ \E s \in Slot : \E o \in req[s].todo : applied' = applied \cup {o}
  <1> SUFFICES Goal
    OBVIOUS
  <1>t. ServerTypeOK
    BY DEF SystemTypeOK
  <1>i. ASSUME UNCHANGED <<req, applied>> PROVE applied' = applied /\ TodosShrink
    BY <1>i DEF TodosShrink
  <1>1. CASE \/ \E o \in Op, k \in Kind : Create(o, k)
             \/ \E o, i \in Op : DeleteLocalRoute(o, i)
             \/ \E i \in Op : RecordFix(i)
             \/ \E o, i \in Op, k \in Kind : CloseTrip(o, i, k)
             \/ QueuePendingPoints
             \/ \E a \in Owner : Login(a)
             \/ UserRetries
             \/ \E o \in Op : ClockTicks(o)
             \/ StartRound \/ ContinueRound \/ KillApp
             \/ \E s \in Slot : GatewayTimeout(s)
    <2>1. ServerIdle
      BY <1>1 DEF Create, DeleteLocalRoute, RecordFix, CloseTrip, QueuePendingPoints, Login,
                  UserRetries, ClockTicks, StartRound, ContinueRound, KillApp, GatewayTimeout
    <2> QED  BY <2>1, <1>i DEF ServerIdle, serverVars
  <1>2. ASSUME NEW s \in Slot, SendRequest(s) PROVE applied' = applied
    BY <1>2 DEF SendRequest, Arrive
  <1>3. ASSUME NEW s \in Slot, Deliver(s) \/ Discard(s) \/ GiveUp(s) \/ ServerCrash(s) \/ Fail(s)
        PROVE  applied' = applied /\ TodosShrink
    <2>1. CASE Deliver(s) \/ Discard(s)
      <3>1. Leave(s) /\ applied' = applied
        BY <2>1 DEF Deliver, Discard, Leave
      <3> QED  BY <3>1, <1>t, TodoShrinks
    <2>2. CASE GiveUp(s)
      <3>1. applied' = applied /\ (Drop(s) \/ UNCHANGED req)
        BY <2>2 DEF GiveUp
      <3>2. CASE UNCHANGED req
        BY <3>1, <3>2, <1>i
      <3>3. CASE Drop(s)
        BY <3>1, <3>3, <1>t, TodoShrinks
      <3> QED  BY <3>1, <3>2, <3>3
    <2>3. CASE ServerCrash(s)
      <3>1. CrashServing(s) /\ applied' = applied
        BY <2>3 DEF ServerCrash, CrashServing
      <3> QED  BY <3>1, <1>t, TodoShrinks
    <2>4. CASE Fail(s)
      <3>1. ServerFault(s) /\ applied' = applied
        BY <2>4 DEF Fail, ServerFault, Outage, DispatchFails, RecordFails
      <3> QED  BY <3>1, <1>t, TodoShrinks
    <2> QED  BY <1>3, <2>1, <2>2, <2>3, <2>4
  <1>4. ASSUME NEW s \in Slot, Work(s)
        PROVE  /\ TodosShrink /\ row' = row
               /\ applied' = applied \/ \E o \in req[s].todo : applied' = applied \cup {o}
    <2>1. TodosShrink
      BY <1>4, <1>t, TodoShrinks DEF Work
    <2>2. row' = row
      BY <1>4 DEF Work, queueVars
    <2>3. CASE RefuseRequest(s) \/ AcceptRequest(s) \/ Reply(s)
               \/ \E o \in Op : \/ ReportDuplicate(s, o) \/ RecordEvent(s, o)
                               \/ MeasureTrip(s, o) \/ CreationClashes(s, o)
      BY <2>3, <2>1, <2>2 DEF RefuseRequest, AcceptRequest, Reply, ReportDuplicate, RecordEvent,
                              MeasureTrip, CreationClashes
    <2>4. CASE \E o \in Op : Dispatch(s, o) \/ LookUpTrip(s, o) \/ WriteTrip(s, o)
      BY <2>4, <2>1, <2>2
         DEF Dispatch, LookUpTrip, WriteTrip, AtOperation, InHandler, IsFirst
    <2> QED  BY <1>4, <2>3, <2>4 DEF Work, Serve
  <1>5. ASSUME NEW s \in Slot,
               \/ SendRequest(s) \/ Deliver(s) \/ Discard(s) \/ GiveUp(s)
               \/ ServerCrash(s) \/ Work(s) \/ Fail(s)
        PROVE  Goal
    <2>1. CASE SendRequest(s)
      BY <2>1, <1>2
    <2>2. CASE Deliver(s) \/ Discard(s) \/ GiveUp(s) \/ ServerCrash(s) \/ Fail(s)
      BY <2>2, <1>3
    <2>3. CASE Work(s)
      BY <2>3, <1>4
    <2> QED  BY <1>5, <2>1, <2>2, <2>3
  <1> HIDE DEF Goal
  <1> QED  BY <1>1, <1>5 DEF Next

LEMMA StepInQueue ==
  ASSUME SystemTypeOK, Orderly, done \subseteq applied, InQueue, Next
  PROVE  InQueue'
  <1>1. \A o \in Op : row[o].status # "NONE" => row'[o].status # "NONE"
    BY StepMoves, RowsStay
  <1>t. \A t \in Slot : req[t].todo \subseteq Op
    BY DEF SystemTypeOK, ServerTypeOK, Request
  <1>2. CASE TodosShrink
    BY <1>1, <1>2, <1>t DEF InQueue, TodosShrink
  <1>3. ASSUME NEW s \in Slot, SendRequest(s) PROVE InQueue'
    <2> DEFINE q == [Free EXCEPT !.phase = "sent", !.user = session, !.todo = batch]
    <2>1. req' = [req EXCEPT ![s] = q] /\ row' = row
      BY <1>3 DEF SendRequest, Arrive, Post
    <2>2. q.todo = batch
      BY DEF Free
    <2> HIDE DEF q
    <2>3. \A o \in batch : row[o].status = "SYNCING"
      BY DEF Orderly, RoundInHand, Interrupted
    <2> QED  BY <2>1, <2>2, <2>3 DEF InQueue, SystemTypeOK, ServerTypeOK
  <1> QED  BY <1>2, <1>3, ServerMoves

LEMMA StepDelivers ==
  ASSUME SystemTypeOK, Orderly, done \subseteq applied, InQueue, Next
  PROVE  [D!DeliveryNext]_<<Reported, applied>>
  <1>1. RowsMove
    BY StepMoves
  <1>2. CASE applied' = applied
    <2>1. PICK S \in SUBSET Op :
            \/ Moves(S, "new", "queued")
            \/ Moves(S, "queued", "aside")
            \/ Moves(S, "aside", "queued")
            \/ S \subseteq applied /\ Moves(S, "queued", "completed")
      BY <1>1 DEF RowsMove
    <2>2. ASSUME NEW from, NEW to, Moves(S, from, to)
          PROVE  S \subseteq D!In(from) /\ D!Move(S, to)
      BY <2>2 DEF Moves, D!In, D!Move, Reported
    <2>3. D!Enqueue(S) \/ D!SetAside(S) \/ D!PutBack(S) \/ D!Complete(S)
      BY <1>2, <2>1, <2>2 DEF D!Enqueue, D!SetAside, D!PutBack, D!Complete
    <2> QED  BY <2>3 DEF D!DeliveryNext
  <1>3. ASSUME NEW s \in Slot, NEW o \in req[s].todo, row' = row, applied' = applied \cup {o}
        PROVE  D!DeliveryNext
    <2>1. o \in Op /\ row[o].status \in Status \ {"NONE"}
      BY DEF SystemTypeOK, QueueTypeOK, ServerTypeOK, Request, Row, InQueue
    <2>2. Reported[o] # "new" /\ Reported' = Reported
      BY <1>3, <2>1 DEF Reported, Report, Status
    <2>3. D!TakeEffect(o)
      BY <1>3, <2>2 DEF D!TakeEffect
    <2> QED  BY <2>1, <2>3 DEF D!DeliveryNext
  <1> QED  BY <1>2, <1>3, ServerMoves

(* The phone, the network and the server together implement the outbox of  *)
(* module Delivery: through lost and late answers, crashes on both sides,  *)
(* refusals and retries, nothing that was queued is forgotten, completed   *)
(* means applied and is final, and only the user puts back what was refused*)
THEOREM DeliveryImplemented == Spec => ImplementsDelivery
  <1> DEFINE IInv == Backed /\ Orderly /\ InQueue
  <1>1. Init => IInv
    <2>1. Init => InQueue
      BY DEF Init, ServerInit, Free, InQueue
    <2> QED  BY <2>1, InitBacked, InitOrderly
  <1>p. IInv => SystemTypeOK /\ Orderly /\ done \subseteq applied /\ InQueue
    BY DEF Backed, SuccessIsBacked
  <1>2. IInv /\ [Next]_vars => IInv'
    <2> SUFFICES ASSUME IInv, [Next]_vars PROVE IInv'
      OBVIOUS
    <2>1. CASE Next
      BY <2>1, <1>p, StepBacked, StepOrderly, StepInQueue
    <2>2. CASE UNCHANGED vars
      <3>1. InQueue'
        BY <2>2, <1>p DEF vars, serverVars, queueVars, InQueue
      <3> QED  BY <2>2, <3>1, <1>p, StepBacked, StepOrderly
    <2> QED  BY <2>1, <2>2
  <1>3. Init => D!DeliveryInit
    BY DEF Init, QueueInit, ServerInit, NoRow, Report, Reported, D!DeliveryInit
  <1>4. IInv /\ [Next]_vars => [D!DeliveryNext]_<<Reported, applied>>
    <2> SUFFICES ASSUME IInv, [Next]_vars PROVE [D!DeliveryNext]_<<Reported, applied>>
      OBVIOUS
    <2>1. CASE Next
      BY <2>1, <1>p, StepDelivers
    <2>2. CASE UNCHANGED vars
      BY <2>2 DEF vars, serverVars, queueVars, Reported
    <2> QED  BY <2>1, <2>2
  <1> HIDE DEF IInv
  <1> QED  BY <1>1, <1>2, <1>3, <1>4, PTL DEF Spec, ImplementsDelivery, D!DeliverySpec

=============================================================================
