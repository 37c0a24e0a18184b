--------------------------- MODULE ConvergenceProofs ---------------------------
(***************************************************************************)
(* Theorems about SyncSystem that relate the queue of the phone, its       *)
(* requests and the rows of the server, for any number of accounts,        *)
(* operations and concurrent requests.                                     *)
(***************************************************************************)
EXTENDS SyncProofs

USE DEF Op, Owner

-----------------------------------------------------------------------------
(* A request refused as a whole costs only the operation at fault.         *)

(* The inductive invariant: the phone awaits an answer in one stage only,  *)
(* the request it awaits still carries the batch in hand, and one that was *)
(* refused carries an operation to blame.                                  *)
RequestsAsSent ==
  /\ conn # NoSlot => pc = "wait"
  /\ \A s \in Slot : conn = s /\ req[s].phase \in {"sent", "refused"} => req[s].todo = batch
  /\ \A s \in Slot : In(s, "refused") => req[s].todo \cap Refused # {}

Blamed == RequestsAsSent /\ OnlyOffenderRefused

(* Every step of request s in the server leaves the others alone; it comes *)
(* to be refused only with an operation to blame, never goes back to being *)
(* sent, and keeps what it carries while it is in either phase.            *)
LEMMA ServerStepSends ==
  ASSUME ServerTypeOK, NEW s \in Slot,
         Serve(s) \/ ServerFault(s) \/ CrashServing(s) \/ Leave(s) \/ Drop(s)
  PROVE  /\ \A t \in Slot \ {s} : req'[t] = req[t]
         /\ req'[s].phase = "sent" => req'[s] = req[s]
         /\ req'[s].phase = "refused" =>
              /\ req'[s].todo = req[s].todo /\ req[s].phase = "sent"
              /\ req[s].todo \cap Refused # {}
  <1>q. req \in [Slot -> Request] /\ req[s] \in Request
    BY DEF ServerTypeOK
  <1>1. CASE RefuseRequest(s)
    BY <1>1, <1>q DEF RefuseRequest, Goto, In, Request
  <1>2. ASSUME NEW p, p \notin {"sent", "refused"}, Goto(s, p)
        PROVE  /\ \A t \in Slot \ {s} : req'[t] = req[t]
               /\ req'[s].phase \notin {"sent", "refused"}
    BY <1>2, <1>q DEF Goto, Request
  <1>3. ASSUME Drop(s)
        PROVE  /\ \A t \in Slot \ {s} : req'[t] = req[t]
               /\ req'[s].phase \notin {"sent", "refused"}
    BY <1>3, <1>q DEF Drop, Free
  <1>4. ASSUME NEW o, NEW r, Settle(s, o, r)
        PROVE  /\ \A t \in Slot \ {s} : req'[t] = req[t]
               /\ req'[s].phase \notin {"sent", "refused"}
    <2>1. Processed(req[s], o, r).phase = "serving"
      BY <1>q DEF Processed, Request
    <2> QED  BY <2>1, <1>4, <1>q DEF Settle
  <1>5. CASE AcceptRequest(s)
    <2>1. Accepted(req[s]).phase = "serving"
      BY <1>q DEF Accepted, Request
    <2> QED  BY <2>1, <1>5, <1>q DEF AcceptRequest
  <1>6. ASSUME NEW o \in Op, Dispatch(s, o)
        PROVE  /\ \A t \in Slot \ {s} : req'[t] = req[t]
               /\ req'[s].phase \notin {"sent", "refused"}
    <2>1. \A c : Dispatched(req[s], c).phase = "recording"
      BY <1>q DEF Dispatched, Request
    <2> QED  BY <2>1, <1>6, <1>q DEF Dispatch
  <1>7. ASSUME NEW o \in Op, LookUpTrip(s, o)
        PROVE  /\ \A t \in Slot \ {s} : req'[t] = req[t]
               /\ req'[s].phase \notin {"sent", "refused"}
    <2>1. \A v, t : LookedUp(req[s], v, t).phase \in {"writing", "recording"}
      BY <1>q DEF LookedUp, Dispatched, Request
    <2> QED  BY <2>1, <1>7, <1>q DEF LookUpTrip
  <1>8. CASE \/ Reply(s) \/ Outage(s) \/ CrashServing(s) \/ Leave(s) \/ Drop(s)
             \/ \E o \in Op : \/ ReportDuplicate(s, o) \/ RecordEvent(s, o)
                             \/ WriteTrip(s, o) \/ MeasureTrip(s, o) \/ CreationClashes(s, o)
                             \/ DispatchFails(s, o) \/ RecordFails(s, o)
    <2>1. \/ \E p : p \notin {"sent", "refused"} /\ Goto(s, p)
          \/ Drop(s) \/ \E o, r : Settle(s, o, r)
      BY <1>8 DEF Reply, Outage, CrashServing, Leave, ReportDuplicate, RecordEvent, WriteTrip,
                  MeasureTrip, CreationClashes, DispatchFails, RecordFails
    <2> QED  BY <2>1, <1>2, <1>3, <1>4
  <1> QED  BY <1>1, <1>5, <1>6, <1>7, <1>8 DEF Serve, ServerFault

LEMMA RequestsStayAsSent ==
  ASSUME SystemTypeOK, RequestsAsSent, Next
  PROVE  RequestsAsSent'
  <1>t. ServerTypeOK /\ req \in [Slot -> Request] /\ NoSlot \notin Slot
    BY SyncSystemAssumption DEF SystemTypeOK, ServerTypeOK
  <1>a. ASSUME conn' = NoSlot \/ (conn # NoSlot => UNCHANGED <<pc, conn, batch>>),
               conn # NoSlot \/ conn' = NoSlot, UNCHANGED req
        PROVE  RequestsAsSent'
    BY <1>a, <1>t DEF RequestsAsSent, In
  <1>b. ASSUME NEW s \in Slot, conn' = NoSlot \/ UNCHANGED <<pc, conn, batch>>,
               Serve(s) \/ ServerFault(s) \/ CrashServing(s) \/ Leave(s) \/ Drop(s)
        PROVE  RequestsAsSent'
    <2>1. /\ \A t \in Slot \ {s} : req'[t] = req[t]
          /\ req'[s].phase = "sent" => req'[s] = req[s]
          /\ req'[s].phase = "refused" =>
               /\ req'[s].todo = req[s].todo /\ req[s].phase = "sent"
               /\ req[s].todo \cap Refused # {}
      BY <1>b, <1>t, ServerStepSends
    <2>2. \A t \in Slot : req'[t].phase \in {"sent", "refused"} =>
            /\ req'[t].todo = req[t].todo /\ req[t].phase \in {"sent", "refused"}
            /\ req'[t].phase = "refused" => req[t].todo \cap Refused # {}
      BY <2>1 DEF RequestsAsSent, In
    <2> QED  BY <1>b, <2>2, <1>t DEF RequestsAsSent, In
  <1>1. CASE \/ \E o \in Op, k \in Kind : Create(o, k)
             \/ \E o, i \in Op : DeleteLocalRoute(o, i)
             \/ \E i \in Op : RecordFix(i)
             \/ \E o, i \in Op, k \in Kind : CloseTrip(o, i, k)
             \/ \E a \in Owner : Login(a)
             \/ UserRetries
             \/ \E o \in Op : ClockTicks(o)
    <2>1. UNCHANGED <<pc, conn, batch, req>>
      BY <1>1 DEF Create, DeleteLocalRoute, RecordFix, CloseTrip, Login, UserRetries, ClockTicks,
                  Add, SwitchSession, RetryFailed, BackoffOver, queueVars, roundVars, ServerIdle,
                  serverVars
    <2> QED  BY <2>1, <1>a
  <1>2. CASE QueuePendingPoints \/ StartRound \/ ContinueRound
    <2>1. pc # "wait" /\ UNCHANGED <<conn, req>>
      BY <1>2 DEF QueuePendingPoints, StartRound, ContinueRound, PointsQueued, BeginRound, RoundStep,
                  SelectBatch, PushOver, HandleResult, BatchOver, FinishRound, PostUnauthorized,
                  RetryNext, ServerIdle, serverVars
    <2>2. conn = NoSlot
      BY <2>1 DEF RequestsAsSent
    <2> QED  BY <2>1, <2>2, <1>a
  <1>3. CASE KillApp \/ \E s \in Slot : GatewayTimeout(s)
    <2>1. conn' = NoSlot /\ UNCHANGED req
      BY <1>3 DEF KillApp, GatewayTimeout, ServerIdle, serverVars
    <2> QED  BY <2>1, <1>a
  <1>4. ASSUME NEW s \in Slot, SendRequest(s) PROVE RequestsAsSent'
    <2> DEFINE q == [Free EXCEPT !.phase = "sent", !.user = session, !.todo = batch]
    <2>1. /\ req' = [req EXCEPT ![s] = q] /\ conn' = s /\ pc = "post" /\ pc' = "wait"
          /\ batch' = batch
      BY <1>4 DEF SendRequest, Arrive, Post
    <2>2. q.phase = "sent" /\ q.todo = batch
      BY DEF Free
    <2> HIDE DEF q
    <2> QED  BY <2>1, <2>2, <1>t DEF RequestsAsSent, In
  <1>5. ASSUME NEW s \in Slot,
               Deliver(s) \/ Discard(s) \/ GiveUp(s) \/ ServerCrash(s) \/ Work(s) \/ Fail(s)
        PROVE  RequestsAsSent'
    <2>1. CASE Deliver(s) \/ Discard(s)
      <3>1. Leave(s) /\ (conn' = NoSlot \/ UNCHANGED <<pc, conn, batch>>)
        BY <2>1 DEF Deliver, Discard, queueVars, roundVars
      <3> QED  BY <3>1, <1>b
    <2>2. CASE GiveUp(s)
      <3>1. conn' = NoSlot /\ (Drop(s) \/ UNCHANGED req)
        BY <2>2 DEF GiveUp
      <3> QED  BY <3>1, <1>a, <1>b
    <2>3. CASE ServerCrash(s)
      <3>1. CrashServing(s) /\ (conn' = NoSlot \/ UNCHANGED <<pc, conn, batch>>)
        BY <2>3 DEF ServerCrash, queueVars, roundVars
      <3> QED  BY <3>1, <1>b
    <2>4. CASE Work(s) \/ Fail(s)
      <3>1. (Serve(s) \/ ServerFault(s)) /\ UNCHANGED <<pc, conn, batch>>
        BY <2>4 DEF Work, Fail, queueVars, roundVars
      <3> QED  BY <3>1, <1>b
    <2> QED  BY <1>5, <2>1, <2>2, <2>3, <2>4
  <1> QED  BY <1>1, <1>2, <1>3, <1>4, <1>5 DEF Next

(* No operation is refused with a whole request by a step of the phone     *)
(* other than RejectSingle.                                                *)
NoneRefused == \A o \in Op : row'[o].error = "REFUSED" => row[o].error = "REFUSED"

LEMMA RowErrors ==
  ASSUME QueueTypeOK
  PROVE  /\ \A S, t : row' = WithStatus(S, t) => NoneRefused
         /\ \A S : row' = [o \in Op |-> IF o \in S THEN Retried(row[o]) ELSE row[o]] => NoneRefused
         /\ \A o \in Op : \A e : e # "REFUSED" /\ row' = [row EXCEPT ![o] = Rejected(@, e)] => NoneRefused
         /\ \A o, a : row' = [row EXCEPT ![o] = NewRow(a)] => NoneRefused
  <1>q. row \in [Op -> Row]
    BY DEF QueueTypeOK
  <1>1. ASSUME NEW r \in Row, NEW e
        PROVE  /\ Retried(r).error = r.error /\ Rejected(r, e).error = e
               /\ \A t : [r EXCEPT !.status = t].error = r.error
    BY DEF Retried, Rejected, Row
  <1>2. \A a : NewRow(a).error = "none"
    BY DEF NewRow, NoRow
  <1>3. ASSUME NEW S, NEW t, row' = WithStatus(S, t) PROVE NoneRefused
    BY <1>q, <1>1, <1>3 DEF NoneRefused, WithStatus
  <1>4. ASSUME NEW S, row' = [o \in Op |-> IF o \in S THEN Retried(row[o]) ELSE row[o]]
        PROVE  NoneRefused
    BY <1>q, <1>1, <1>4 DEF NoneRefused
  <1>5. ASSUME NEW o \in Op, NEW e, e # "REFUSED", row' = [row EXCEPT ![o] = Rejected(@, e)]
        PROVE  NoneRefused
    BY <1>q, <1>1, <1>5 DEF NoneRefused
  <1>6. ASSUME NEW o, NEW a, row' = [row EXCEPT ![o] = NewRow(a)] PROVE NoneRefused
    BY <1>q, <1>2, <1>6 DEF NoneRefused
  <1> QED  BY <1>3, <1>4, <1>5, <1>6

LEMMA PhoneRefusesNone ==
  ASSUME QueueTypeOK,
         \/ \E o \in Op, a \in Owner : Add(o, a)
         \/ \E a \in Owner : SwitchSession(a)
         \/ \E o \in Op : BackoffOver(o)
         \/ RetryFailed \/ AppKilled \/ BeginRound \/ RoundStep
         \/ Post \/ NoReply \/ Unavailable \/ SplitBatch \/ \E r : Answered(r)
  PROVE  NoneRefused
  <1>q. row \in [Op -> Row] /\ answer \in [Op -> Result \cup {"none"}]
    BY DEF QueueTypeOK
  <1>0. ASSUME row' = row PROVE NoneRefused
    BY <1>0 DEF NoneRefused
  <1>1. CASE \E o \in Op, a \in Owner : Add(o, a)
    BY <1>1, RowErrors DEF Add
  <1>2. CASE \E o \in Op : BackoffOver(o)
    BY <1>2, <1>q DEF BackoffOver, NoneRefused, Row
  <1>3. CASE RetryFailed
    <2>1. ASSUME NEW r \in Row PROVE Reinstated(r).error = "none"
      BY DEF Reinstated, Row
    <2> QED  BY <1>3, <2>1, <1>q DEF RetryFailed, NoneRefused
  <1>4. CASE HandleResult
    <2>1. PICK o \in Op : ResultDone(o) \/ ResultRetried(o) \/ ResultRejected(o)
      BY <1>4 DEF HandleResult
    <2>2. CASE ResultDone(o)
      BY <2>2, <1>0 DEF ResultDone
    <2>3. CASE ResultRetried(o)
      <3>1. row' = [p \in Op |-> IF p \in {o} THEN Retried(row[p]) ELSE row[p]]
        BY <2>3, <1>q DEF ResultRetried
      <3> QED  BY <3>1, RowErrors
    <2>4. CASE ResultRejected(o)
      <3>1. answer[o] # "REFUSED"
        BY <1>q DEF Result, Code
      <3> QED  BY <3>1, <2>4, RowErrors DEF ResultRejected
    <2> QED  BY <2>1, <2>2, <2>3, <2>4
  <1>5. CASE BatchOver
    <2>1. ASSUME NEW o \in Op PROVE row'[o].error = row[o].error
      <3>1. \/ row'[o] = row[o]
            \/ row'[o] = [row[o] EXCEPT !.status = "COMPLETED"]
            \/ row'[o] = [row[o] EXCEPT !.status = "PENDING"]
        BY <1>5 DEF BatchOver
      <3> QED  BY <3>1, <1>q DEF Row
    <2> QED  BY <2>1 DEF NoneRefused
  <1>6. CASE BeginRound \/ SelectBatch \/ PostUnauthorized \/ NoReply \/ SplitBatch
    <2>1. \E S, t : row' = WithStatus(S, t)
      BY <1>6 DEF BeginRound, SelectBatch, PostUnauthorized, NoReply, Release, SplitBatch
    <2> QED  BY <2>1, RowErrors
  <1>7. CASE RetryNext
    <2>1. PICK o \in Op : row' = [row EXCEPT ![o] = Retried(@)]
      BY <1>7 DEF RetryNext
    <2>2. row' = [p \in Op |-> IF p \in {o} THEN Retried(row[p]) ELSE row[p]]
      BY <2>1, <1>q
    <2> QED  BY <2>2, RowErrors
  <1>8. CASE \/ \E a \in Owner : SwitchSession(a)
             \/ AppKilled \/ PushOver \/ FinishRound \/ Post \/ Unavailable \/ \E r : Answered(r)
    BY <1>8, <1>0 DEF SwitchSession, AppKilled, PushOver, FinishRound, Post, Unavailable, Answered
  <1> QED  BY <1>1, <1>2, <1>3, <1>4, <1>5, <1>6, <1>7, <1>8 DEF RoundStep

(* A step refuses no operation, or it is the answer to a request of one    *)
(* operation, which was refused.                                           *)
LEMMA RefusalsOfStep ==
  ASSUME SystemTypeOK, Next
  PROVE  NoneRefused \/ \E s \in Slot : Deliver(s) /\ In(s, "refused") /\ RejectSingle
  <1>q. QueueTypeOK /\ row \in [Op -> Row] /\ \A i \in Op : row[i].owner \in Owner
    BY DEF SystemTypeOK, QueueTypeOK, Row
  <1>0. ASSUME row' = row PROVE NoneRefused
    BY <1>0 DEF NoneRefused
  <1>1. CASE \/ \E o \in Op, k \in Kind : Create(o, k)
             \/ \E o, i \in Op : DeleteLocalRoute(o, i)
    <2>1. \E o \in Op, a \in Owner : Add(o, a)
      BY <1>1, <1>q DEF Create, DeleteLocalRoute, QueueTypeOK
    <2> QED  BY <2>1, <1>q, PhoneRefusesNone
  <1>2. ASSUME NEW o \in Op, NEW i \in Op, NEW k \in Kind, CloseTrip(o, i, k) PROVE NoneRefused
    <2>1. CASE i \in unqueued
      <3>1. row' = [row EXCEPT ![o] = NewRow(row[i].owner), ![o + 1] = NewRow(row[i].owner)]
        BY <1>2, <2>1 DEF CloseTrip
      <3>2. NewRow(row[i].owner).error = "none"
        BY DEF NewRow, NoRow
      <3> QED  BY <3>1, <3>2, <1>q DEF NoneRefused
    <2>2. CASE i \notin unqueued
      BY <1>2, <2>2, <1>q, PhoneRefusesNone DEF CloseTrip
    <2> QED  BY <2>1, <2>2
  <1>3. CASE QueuePendingPoints
    <2>1. row' = row \/ \E o \in Op : \E a : row' = [row EXCEPT ![o] = NewRow(a)]
      BY <1>3 DEF QueuePendingPoints
    <2> QED  BY <2>1, <1>0, <1>q, RowErrors
  <1>4. CASE \/ \E a \in Owner : Login(a)
             \/ \E o \in Op : ClockTicks(o)
             \/ UserRetries \/ KillApp \/ StartRound \/ ContinueRound
    BY <1>4, <1>q, PhoneRefusesNone
       DEF Login, ClockTicks, UserRetries, KillApp, StartRound, ContinueRound
  <1>5. ASSUME NEW s \in Slot, SendRequest(s) \/ GiveUp(s) \/ GatewayTimeout(s) PROVE NoneRefused
    BY <1>5, <1>q, PhoneRefusesNone DEF SendRequest, GiveUp, GatewayTimeout
  <1>6. ASSUME NEW s \in Slot, Deliver(s), ~ (In(s, "refused") /\ RejectSingle) PROVE NoneRefused
    <2>1. Answered(req[s].result) \/ SplitBatch \/ Unavailable
      BY <1>6 DEF Deliver, In
    <2> QED  BY <2>1, <1>q, PhoneRefusesNone
  <1>7. ASSUME NEW s \in Slot, ServerCrash(s) PROVE NoneRefused
    <2>1. NoReply \/ row' = row
      BY <1>7 DEF ServerCrash, queueVars
    <2> QED  BY <2>1, <1>0, <1>q, PhoneRefusesNone
  <1>8. CASE \/ \E i \in Op : RecordFix(i)
             \/ \E s \in Slot : Discard(s) \/ Work(s) \/ Fail(s)
    BY <1>8, <1>0 DEF RecordFix, Discard, Work, Fail, queueVars
  <1> QED  BY <1>1, <1>2, <1>3, <1>4, <1>5, <1>6, <1>7, <1>8 DEF Next

LEMMA StepBlames == SystemTypeOK /\ Blamed /\ [Next]_vars => Blamed'
  <1> SUFFICES ASSUME SystemTypeOK, Blamed, [Next]_vars PROVE Blamed'
    OBVIOUS
  <1>q. row \in [Op -> Row] /\ batch \in SUBSET Op
    BY DEF SystemTypeOK, QueueTypeOK
  <1>1. CASE UNCHANGED vars
    <2>1. UNCHANGED <<row, pc, conn, batch, req>>
      BY <1>1 DEF vars, queueVars, roundVars, serverVars
    <2> QED  BY <2>1 DEF Blamed, RequestsAsSent, OnlyOffenderRefused, In
  <1>2. CASE Next
    <2>1. RequestsAsSent'
      BY <1>2, RequestsStayAsSent DEF Blamed
    <2>2. CASE NoneRefused
      BY <2>1, <2>2 DEF NoneRefused, Blamed, OnlyOffenderRefused
    <2>3. ASSUME NEW s \in Slot, Deliver(s), In(s, "refused"), RejectSingle
          PROVE  OnlyOffenderRefused'
      <3>1. req[s].todo = batch /\ batch \cap Refused # {}
        BY <2>3 DEF Deliver, Blamed, RequestsAsSent, In
      <3>2. batch \subseteq Refused
        <4>1. IsFiniteSet(batch)
          <5>1. IsFiniteSet(1..MaxOps)
            BY FS_Interval, SyncTypesAssumption
          <5> QED  BY <5>1, <1>q, FS_Subset
        <4>2. PICK x : batch = {x}
          BY <2>3, <4>1, FS_Singleton DEF RejectSingle
        <4> QED  BY <4>2, <3>1
      <3>3. \A o \in Op : row'[o] = IF o \in batch THEN Rejected(row[o], "REFUSED") ELSE row[o]
        BY <2>3 DEF RejectSingle
      <3>4. \A o \in Op : row'[o].error = "REFUSED" => o \in Refused
        BY <3>2, <3>3 DEF Blamed, OnlyOffenderRefused
      <3> QED  BY <3>4 DEF OnlyOffenderRefused
    <2> QED  BY <2>1, <2>2, <2>3, <1>2, RefusalsOfStep DEF Blamed
  <1> QED  BY <1>1, <1>2

LEMMA InitBlames == Init => Blamed
  <1> SUFFICES ASSUME Init PROVE Blamed
    OBVIOUS
  <1>1. \A s \in Slot : req[s].phase = "free"
    BY DEF Init, ServerInit, Free
  <1> QED  BY <1>1, SyncSystemAssumption
           DEF Init, QueueInit, NoRow, Blamed, RequestsAsSent, OnlyOffenderRefused, In

(* An operation is set aside as refused only if the API refuses requests   *)
(* for what it carries: its neighbours in a request are sent again one by  *)
(* one, through outages, lost answers and requests that overlap.           *)
THEOREM OffenderAlwaysAlone == Spec => []OnlyOffenderRefused
  <1>1. Init => SystemTypeOK /\ Blamed
    BY InitType, InitBlames
  <1>2. SystemTypeOK /\ Blamed /\ [Next]_vars => (SystemTypeOK /\ Blamed)'
    BY StepType, StepBlames
  <1>3. Blamed => OnlyOffenderRefused
    BY DEF Blamed
  <1> QED  BY <1>1, <1>2, <1>3, PTL DEF Spec

-----------------------------------------------------------------------------
(* Nothing overtakes an operation that waits for its next attempt.         *)

(* A batch takes every operation of the account older than one of its own. *)
LEMMA BatchIsPrefix ==
  ASSUME NEW a, NEW n \in Int, NEW b \in Prefixes(NextBatch(a, n)), NEW o \in b,
         NEW p \in Pending(a), p < o
  PROVE  p \in b
  <1> DEFINE UpTo(q) == {r \in Pending(a) : r <= q}
  <1>1. /\ o \in NextBatch(a, n) /\ o \in Op /\ p \in Op
        /\ Cardinality(UpTo(o)) <= n /\ \A q \in UpTo(o) : ~row[q].waiting
    BY DEF Prefixes, NextBatch, Pending
  <1>2. UpTo(p) \subseteq UpTo(o)
    BY <1>1, SyncTypesAssumption DEF Pending
  <1>3. UpTo(o) \in SUBSET Op
    BY DEF Pending
  <1>4. Cardinality(UpTo(p)) <= Cardinality(UpTo(o)) /\ Cardinality(UpTo(p)) \in Int
        /\ Cardinality(UpTo(o)) \in Int
    <2>1. IsFiniteSet(1..MaxOps)
      BY FS_Interval, SyncTypesAssumption
    <2>2. IsFiniteSet(UpTo(o)) /\ IsFiniteSet(UpTo(p))
      BY <2>1, <1>2, <1>3, FS_Subset
    <2> QED  BY <2>2, <1>2, FS_Subset, FS_CardinalityType
  <1>5. p \in NextBatch(a, n)
    <2>1. Cardinality(UpTo(p)) <= n
      BY <1>1, <1>4 DEF NextBatch
    <2>2. \A q \in UpTo(p) : ~row[q].waiting
      BY <1>1, <1>2
    <2> QED  BY <2>1, <2>2 DEF NextBatch
  <1> QED  BY <1>1, <1>5, SyncTypesAssumption DEF Prefixes

(* A step that leaves a request in hand as it is, and makes none of the    *)
(* older operations pending but those it puts back.                        *)
LEMMA NoneOvertaken ==
  ASSUME Orderly, NothingOvertakes, SystemTypeOK, pc' \in {"post", "wait"}, pc \in {"post", "wait"},
         UNCHANGED <<acct, batch>>, reinstated \subseteq reinstated',
         \A p \in Op : \/ row[p].status = "NONE" /\ \A o \in Op : p < o => row[o].status = "NONE"
                       \/ row'[p].status = "PENDING" /\ row'[p].owner = acct =>
                            \/ row[p].status = "PENDING" /\ row[p].owner = acct
                            \/ p \in reinstated'
  PROVE  NothingOvertakes'
  <1> SUFFICES ASSUME NEW o \in batch, NEW p \in Pending(acct)', p < o PROVE p \in reinstated'
    BY DEF NothingOvertakes
  <1>1. o \in Op /\ p \in Op /\ row[o].status = "SYNCING"
    BY DEF Orderly, RoundInHand, Interrupted, Pending
  <1>2. row'[p].status = "PENDING" /\ row'[p].owner = acct
    BY DEF Pending
  <1>3. p \in Pending(acct) \/ p \in reinstated'
    BY <1>1, <1>2 DEF Pending
  <1>4. p \in Pending(acct) => p \in reinstated
    BY DEF NothingOvertakes
  <1> QED  BY <1>3, <1>4

LEMMA StepOvertakesNothing ==
  SystemTypeOK /\ Orderly /\ NothingOvertakes /\ [Next]_vars => NothingOvertakes'
  <1> SUFFICES ASSUME SystemTypeOK, Orderly, NothingOvertakes, [Next]_vars, pc' \in {"post", "wait"}
               PROVE  NothingOvertakes'
    BY DEF NothingOvertakes
  <1>q. row \in [Op -> Row] /\ batch \in SUBSET Op
    BY DEF SystemTypeOK, QueueTypeOK
  <1>n. \A o \in Op : IsNext(o) =>
          row[o].status = "NONE" /\ \A p \in Op : o <= p => row[p].status = "NONE"
    BY SyncTypesAssumption DEF IsNext
  <1>1. CASE UNCHANGED vars
    <2>1. UNCHANGED <<row, pc, acct, batch, reinstated>>
      BY <1>1 DEF vars, queueVars, roundVars
    <2> QED  BY <2>1 DEF NothingOvertakes, Pending
  <1>a. ASSUME NEW o \in Op, NEW a, Add(o, a), UNCHANGED reinstated PROVE NothingOvertakes'
    <2>1. UNCHANGED <<pc, acct, batch>>
      BY <1>a DEF Add, roundVars
    <2>2. \A p \in Op : p # o => row'[p] = row[p]
      BY <1>a, <1>q DEF Add
    <2>3. row[o].status = "NONE" /\ \A p \in Op : o < p => row[p].status = "NONE"
      BY <1>a, <1>n, SyncTypesAssumption DEF Add
    <2> QED  BY <2>1, <2>2, <2>3, <1>a, NoneOvertaken
  <1>u. ASSUME UNCHANGED <<queueVars, reinstated>> PROVE NothingOvertakes'
    BY <1>u DEF queueVars, roundVars, NothingOvertakes, Pending
  <1>2. CASE \/ \E o \in Op, k \in Kind : Create(o, k)
             \/ \E o, i \in Op : DeleteLocalRoute(o, i)
    BY <1>2, <1>a DEF Create, DeleteLocalRoute
  <1>3. ASSUME NEW o \in Op, NEW i \in Op, NEW k \in Kind, CloseTrip(o, i, k) PROVE NothingOvertakes'
    <2>1. CASE i \in unqueued
      <3>1. /\ IsNext(o) /\ o + 1 \in Op
            /\ row' = [row EXCEPT ![o] = NewRow(row[i].owner), ![o + 1] = NewRow(row[i].owner)]
            /\ UNCHANGED <<pc, acct, batch, reinstated>>
        BY <1>3, <2>1 DEF CloseTrip, roundVars
      <3>2. \A p \in Op : p # o /\ p # o + 1 => row'[p] = row[p]
        BY <3>1, <1>q
      <3>3. \A p \in {o, o + 1} : row[p].status = "NONE" /\ \A r \in Op : p < r => row[r].status = "NONE"
        BY <3>1, <1>n, SyncTypesAssumption
      <3> QED  BY <3>1, <3>2, <3>3, NoneOvertaken
    <2>2. CASE i \notin unqueued
      BY <1>3, <2>2, <1>a DEF CloseTrip
    <2> QED  BY <2>1, <2>2
  <1>4. CASE UserRetries
    <2>1. /\ \A p \in Op : row'[p] = IF row[p].status = "FAILED" /\ row[p].owner = session
                                     THEN Reinstated(row[p]) ELSE row[p]
          /\ UNCHANGED <<pc, acct, batch>>
      BY <1>4 DEF UserRetries, RetryFailed, roundVars
    <2>2. reinstated' = reinstated \cup {p \in Op : row'[p].status # row[p].status}
      BY <1>4, <2>1 DEF UserRetries
    <2>3. \A r \in Row : Reinstated(r).owner = r.owner
      BY DEF Reinstated, Row
    <2>4. \A p \in Op : row'[p].owner = row[p].owner
      BY <2>1, <2>3, <1>q
    <2> QED  BY <2>1, <2>2, <2>4, NoneOvertaken
  <1>5. CASE \E a \in Owner : Login(a)
    <2>1. UNCHANGED <<row, pc, acct, batch, reinstated>>
      BY <1>5 DEF Login, SwitchSession, roundVars
    <2> QED  BY <2>1 DEF NothingOvertakes, Pending
  <1>6. CASE ContinueRound
    <2>1. SelectBatch \/ pc = pc'
      BY <1>6 DEF ContinueRound, RoundStep, PushOver, HandleResult, BatchOver, FinishRound,
                  PostUnauthorized, Release, RetryNext
    <2>2. pc \notin {"post", "wait"} \/ PostUnauthorized
      BY <1>6 DEF ContinueRound, RoundStep, SelectBatch, PushOver, HandleResult, BatchOver, FinishRound,
                  RetryNext
    <2>3. SelectBatch
      BY <2>1, <2>2 DEF PostUnauthorized, Release
    <2>4. PICK b \in Prefixes(NextBatch(acct, Limit)) : batch' = b /\ row' = WithStatus(b, "SYNCING")
      BY <2>3 DEF SelectBatch
    <2>5. acct' = acct
      BY <2>3 DEF SelectBatch
    <2>6. \A p \in Op : row'[p] = IF p \in b THEN [row[p] EXCEPT !.status = "SYNCING"] ELSE row[p]
      BY <2>4 DEF WithStatus
    <2>7. \A p \in b : p \in Op => row'[p].status = "SYNCING"
      BY <2>6, <1>q DEF Row
    <2>8. \A p \in Op \ b : p \in Pending(acct)' => p \in Pending(acct)
      BY <2>5, <2>6 DEF Pending
    <2>9. ASSUME NEW o \in b, NEW p \in Pending(acct)', p < o PROVE FALSE
      <3>1. p \in Op /\ p \notin b
        BY <2>7 DEF Pending
      <3>2. Limit \in Int
        BY SyncQueueAssumption DEF Limit
      <3> QED  BY <3>1, <3>2, <2>8, <2>9, BatchIsPrefix
    <2> QED  BY <2>4, <2>9 DEF NothingOvertakes
  <1>7. ASSUME NEW s \in Slot, SendRequest(s) PROVE NothingOvertakes'
    <2>1. UNCHANGED <<row, acct, batch, reinstated>> /\ pc = "post"
      BY <1>7 DEF SendRequest, Post
    <2> QED  BY <2>1 DEF NothingOvertakes, Pending
  <1>8. ASSUME NEW s \in Slot, ServerCrash(s) PROVE NothingOvertakes'
    <2>1. NoReply \/ UNCHANGED queueVars
      BY <1>8 DEF ServerCrash
    <2> QED  BY <2>1, <1>8, <1>u DEF ServerCrash, NoReply, Release
  <1>9. CASE \/ \E i \in Op : RecordFix(i)
             \/ \E s \in Slot : Discard(s) \/ Work(s) \/ Fail(s)
    BY <1>9, <1>u DEF RecordFix, Discard, Work, Fail
  <1>10. ~ \/ QueuePendingPoints \/ StartRound \/ KillApp
           \/ \E o \in Op : ClockTicks(o)
           \/ \E s \in Slot : Deliver(s) \/ GiveUp(s) \/ GatewayTimeout(s)
    BY DEF QueuePendingPoints, PointsQueued, StartRound, BeginRound, KillApp, AppKilled, ClockTicks,
           BackoffOver, roundVars, Deliver, Answered, SplitBatch, RejectSingle, Unavailable, GiveUp,
           NoReply, Release, GatewayTimeout
  <1> QED  BY <1>1, <1>2, <1>3, <1>4, <1>5, <1>6, <1>7, <1>8, <1>9, <1>10 DEF Next

(* While a request is on its way, no older operation of its account waits  *)
(* for its next attempt behind it, unless the user put it back meanwhile,  *)
(* for any number of operations, sizes of a batch and sessions.            *)
THEOREM NothingEverOvertakes == Spec => []NothingOvertakes
  <1>1. Init => SystemTypeOK /\ Orderly /\ NothingOvertakes
    BY InitType, InitOrderly DEF Init, QueueInit, NothingOvertakes
  <1>2. /\ SystemTypeOK /\ Orderly /\ NothingOvertakes /\ [Next]_vars
        => (SystemTypeOK /\ Orderly /\ NothingOvertakes)'
    BY StepType, StepOrderly, StepOvertakesNothing
  <1> QED  BY <1>1, <1>2, PTL DEF Spec

-----------------------------------------------------------------------------
(* What the queue says about an item, whatever happens to its rows.        *)

Creation == {"route:UPSERT", "trip:CREATE"}

(* Operation o of table r with payloads p is about an item that an older   *)
(* operation of the same account created, or it is that operation.         *)
ItemAgrees(r, p, o) ==
  LET i == p[o].item
  IN  /\ i <= o /\ r[i].status # "NONE" /\ r[i].owner = r[o].owner
      /\ p[i].item = i /\ p[i].kind \in Creation
      /\ p[o].kind \in Creation => o = i
      /\ p[o].kind \in RouteKind <=> p[i].kind = "route:UPSERT"

TableAgrees(r, p) ==
  /\ \A o, q \in Op : o <= q /\ r[q].status # "NONE" => r[o].status # "NONE"
  /\ \A o \in Op : r[o].status # "NONE" => ItemAgrees(r, p, o)

UnqueuedAgrees(S, r, p) == \A i \in S : r[i].status # "NONE" /\ p[i].kind = "trip:CREATE"

QueueAgrees == TableAgrees(row, payload) /\ UnqueuedAgrees(unqueued, row, payload)

(* A new row o of account a is about itself, or about an item i that an    *)
(* operation of the account created.                                       *)
Grows(r, p, o, a, k, i, r1, p1) ==
  /\ r \in [Op -> Row] /\ p \in [Op -> Payload] /\ TableAgrees(r, p)
  /\ o \in Op /\ a \in Owner /\ k \in Kind /\ i \in Op
  /\ \A q \in Op : r[q].status = "NONE" <=> q >= o
  /\ \/ k \in Creation /\ i = o
     \/ /\ k \notin Creation /\ r[i].status # "NONE" /\ r[i].owner = a
        /\ p[i].item = i /\ p[i].kind \in Creation
        /\ k \in RouteKind <=> p[i].kind = "route:UPSERT"
  /\ r1 = [r EXCEPT ![o] = NewRow(a)]
  /\ p1 = [p EXCEPT ![o] = [kind |-> k, item |-> i]]

LEMMA TableGrows ==
  ASSUME NEW r, NEW p, NEW o, NEW a, NEW k, NEW i, NEW r1, NEW p1,
         Grows(r, p, o, a, k, i, r1, p1)
  PROVE  /\ TableAgrees(r1, p1)
         /\ \A q \in Op : r1[q].status = "NONE" <=> q > o
         /\ \A q \in Op \ {o} : r1[q] = r[q] /\ p1[q] = p[q]
         /\ r1 \in [Op -> Row] /\ p1 \in [Op -> Payload]
  <1> USE DEF Grows
  <1>1. NewRow(a).status = "PENDING" /\ NewRow(a).owner = a /\ NewRow(a) \in Row
    BY NewRowType DEF NewRow, NoRow
  <1>2. [kind |-> k, item |-> i] \in Payload
    BY DEF Payload
  <1>3. /\ \A q \in Op \ {o} : r1[q] = r[q] /\ p1[q] = p[q]
        /\ r1[o] = NewRow(a) /\ p1[o] = [kind |-> k, item |-> i]
        /\ r1 \in [Op -> Row] /\ p1 \in [Op -> Payload]
    BY <1>1, <1>2
  <1>4. \A q \in Op : r1[q].status = "NONE" <=> q > o
    BY <1>1, <1>3, SyncTypesAssumption
  <1>5. ASSUME NEW q \in Op, q # o, r[q].status # "NONE" PROVE ItemAgrees(r1, p1, q)
    <2>1. ItemAgrees(r, p, q) /\ p[q].item \in Op
      BY <1>5 DEF TableAgrees, Payload
    <2>2. r[o].status = "NONE"
      BY SyncTypesAssumption
    <2>3. p[q].item # o
      BY <2>1, <2>2 DEF ItemAgrees
    <2> QED  BY <2>1, <2>3, <1>3, <1>5 DEF ItemAgrees
  <1>6. ItemAgrees(r1, p1, o)
    <2>1. CASE k \in Creation /\ i = o
      BY <2>1, <1>1, <1>3, SyncTypesAssumption DEF ItemAgrees, Creation, RouteKind
    <2>2. CASE /\ k \notin Creation /\ r[i].status # "NONE" /\ r[i].owner = a
               /\ p[i].item = i /\ p[i].kind \in Creation
               /\ k \in RouteKind <=> p[i].kind = "route:UPSERT"
      <3>1. i < o
        BY <2>2, SyncTypesAssumption
      <3>2. r1[i] = r[i] /\ p1[i] = p[i]
        BY <3>1, <1>3
      <3>3. p1[o].item = i /\ p1[o].kind = k /\ r1[o].owner = a
        BY <1>1, <1>3
      <3> QED  BY <3>1, <3>2, <3>3, <2>2, SyncTypesAssumption DEF ItemAgrees
    <2> QED  BY <2>1, <2>2
  <1>7. \A q \in Op : r1[q].status # "NONE" => ItemAgrees(r1, p1, q)
    BY <1>3, <1>5, <1>6
  <1>8. \A q, t \in Op : q <= t /\ r1[t].status # "NONE" => r1[q].status # "NONE"
    BY <1>4, SyncTypesAssumption
  <1> QED  BY <1>3, <1>4, <1>7, <1>8 DEF TableAgrees

(* An item some operation is queued for is named by the operation that     *)
(* created it.                                                             *)
LEMMA QueuedItem ==
  ASSUME SystemTypeOK, TableAgrees(row, payload), NEW k \in Creation, NEW i \in Op, IsQueued(k, i)
  PROVE  row[i].status # "NONE" /\ payload[i] = [kind |-> k, item |-> i]
  <1>1. PICK o \in Op : row[o].status # "NONE" /\ payload[o] = [kind |-> k, item |-> i]
    BY DEF IsQueued, Inserted
  <1>2. o = i
    BY <1>1 DEF TableAgrees, ItemAgrees
  <1> QED  BY <1>1, <1>2

(* What no step undoes: a row stays, with its owner and its payload.       *)
RowsKept ==
  \A o \in Op : row[o].status # "NONE" =>
    row'[o].status # "NONE" /\ row'[o].owner = row[o].owner /\ payload'[o] = payload[o]

(* The steps that add no row.                                              *)
SameRows ==
  \A o \in Op : row'[o].owner = row[o].owner /\ (row'[o].status = "NONE" <=> row[o].status = "NONE")

LEMMA SameRowsOfPhone ==
  ASSUME QueueTypeOK, Orderly,
         \/ \E a \in Owner : SwitchSession(a)
         \/ \E o \in Op : BackoffOver(o)
         \/ RetryFailed \/ AppKilled \/ BeginRound \/ RoundStep
         \/ Post \/ NoReply \/ Unavailable \/ SplitBatch \/ RejectSingle \/ \E r : Answered(r)
  PROVE  SameRows
  <1>q. row \in [Op -> Row]
    BY DEF QueueTypeOK
  <1>b. \A o \in batch \cup done \cup Unhandled : row[o].status = "SYNCING"
    BY DEF Orderly, RoundInHand, Interrupted
  <1>0. ASSUME row' = row PROVE SameRows
    BY <1>0 DEF SameRows
  <1>s. ASSUME NEW S, NEW t, t # "NONE", row' = WithStatus(S, t), \A o \in S : row[o].status # "NONE"
        PROVE  SameRows
    <2>1. ASSUME NEW o \in Op
          PROVE  row'[o].owner = row[o].owner /\ (row'[o].status = "NONE" <=> row[o].status = "NONE")
      <3>1. row'[o] = IF o \in S THEN [row[o] EXCEPT !.status = t] ELSE row[o]
        BY <1>s DEF WithStatus
      <3> QED  BY <3>1, <1>s, <1>q DEF Row
    <2> QED  BY <2>1 DEF SameRows
  <1> DEFINE Tried(o) == \/ row'[o] = row[o]
                         \/ /\ row[o].status # "NONE"
                            /\ row'[o] = Retried(row[o]) \/ \E e : row'[o] = Rejected(row[o], e)
  <1>r. ASSUME \A o \in Op : Tried(o) PROVE SameRows
    <2>1. ASSUME NEW o \in Op
          PROVE  row'[o].owner = row[o].owner /\ (row'[o].status = "NONE" <=> row[o].status = "NONE")
      <3>1. ASSUME NEW e PROVE
            /\ Retried(row[o]).owner = row[o].owner /\ Retried(row[o]).status = "PENDING"
            /\ Rejected(row[o], e).owner = row[o].owner /\ Rejected(row[o], e).status = "FAILED"
        BY <1>q DEF Retried, Rejected, Row
      <3> QED  BY <3>1, <1>r
    <2> QED  BY <2>1 DEF SameRows
  <1>1. CASE \E o \in Op : BackoffOver(o)
    BY <1>1, <1>q DEF BackoffOver, SameRows, Row
  <1>2. CASE RetryFailed
    <2>1. ASSUME NEW r \in Row PROVE Reinstated(r).owner = r.owner /\ Reinstated(r).status = "PENDING"
      BY DEF Reinstated, Row
    <2>2. ASSUME NEW o \in Op
          PROVE  \/ row'[o] = row[o]
                 \/ row[o].status = "FAILED" /\ row'[o] = Reinstated(row[o])
      <3>1. row'[o] = IF row[o].status = "FAILED" /\ row[o].owner = session
                      THEN Reinstated(row[o]) ELSE row[o]
        BY <1>2 DEF RetryFailed
      <3> QED  BY <3>1
    <2> QED  BY <2>1, <2>2, <1>q DEF SameRows
  <1>3. CASE BeginRound
    BY <1>3, <1>s DEF BeginRound, Interrupted
  <1>4. CASE SelectBatch
    <2>1. PICK b \in Prefixes(NextBatch(acct, Limit)) : row' = WithStatus(b, "SYNCING")
      BY <1>4 DEF SelectBatch
    <2>2. \A o \in b : row[o].status = "PENDING"
      BY DEF Prefixes, NextBatch, Pending
    <2> QED  BY <2>1, <2>2, <1>s
  <1>5. CASE HandleResult
    <2>1. PICK o \in Op : IsFirst(o, Unhandled) /\ (ResultDone(o) \/ ResultRetried(o) \/ ResultRejected(o))
      BY <1>5 DEF HandleResult
    <2>2. row[o].status # "NONE"
      BY <2>1, <1>b DEF IsFirst
    <2>3. ASSUME NEW p \in Op PROVE Tried(p)
      <3>1. \/ row' = row
            \/ row' = [row EXCEPT ![o] = Retried(@)]
            \/ row' = [row EXCEPT ![o] = Rejected(@, answer[o])]
        BY <2>1 DEF ResultDone, ResultRetried, ResultRejected
      <3>2. p # o => row'[p] = row[p]
        BY <3>1, <1>q
      <3>3. \/ row'[o] = row[o] \/ row'[o] = Retried(row[o]) \/ row'[o] = Rejected(row[o], answer[o])
        BY <3>1, <1>q
      <3> QED  BY <3>2, <3>3, <2>2
    <2> QED  BY <2>3, <1>r
  <1>6. CASE BatchOver
    <2>1. ASSUME NEW o \in Op
          PROVE  row'[o].owner = row[o].owner /\ (row'[o].status = "NONE" <=> row[o].status = "NONE")
      <3>1. \/ row'[o] = row[o]
            \/ o \in batch \cup done /\ row'[o] = [row[o] EXCEPT !.status = "COMPLETED"]
            \/ o \in batch \cup done /\ row'[o] = [row[o] EXCEPT !.status = "PENDING"]
        BY <1>6 DEF BatchOver
      <3> QED  BY <3>1, <1>b, <1>q DEF Row
    <2> QED  BY <2>1 DEF SameRows
  <1>7. CASE PostUnauthorized \/ NoReply \/ SplitBatch
    BY <1>7, <1>b, <1>s DEF PostUnauthorized, NoReply, Release, SplitBatch
  <1>8. CASE RejectSingle
    <2>1. ASSUME NEW o \in Op PROVE Tried(o)
      <3>1. row'[o] = IF o \in batch THEN Rejected(row[o], "REFUSED") ELSE row[o]
        BY <1>8 DEF RejectSingle
      <3> QED  BY <3>1, <1>b
    <2> QED  BY <2>1, <1>r
  <1>9. CASE RetryNext
    <2>1. PICK o \in Op : o \in batch /\ row' = [row EXCEPT ![o] = Retried(@)]
      BY <1>9 DEF RetryNext, IsFirst
    <2>2. \A p \in Op : Tried(p)
      BY <2>1, <1>b, <1>q
    <2> QED  BY <2>2, <1>r
  <1>10. CASE \/ \E a \in Owner : SwitchSession(a)
              \/ AppKilled \/ PushOver \/ FinishRound \/ Post \/ Unavailable \/ \E r : Answered(r)
    BY <1>10, <1>0 DEF SwitchSession, AppKilled, PushOver, FinishRound, Post, Unavailable, Answered
  <1> QED  BY <1>1, <1>2, <1>3, <1>4, <1>5, <1>6, <1>7, <1>8, <1>9, <1>10 DEF RoundStep

(* The steps that add rows: one, or the points of a trip and its end.      *)
LEMMA RowsAdded ==
  ASSUME SystemTypeOK, QueueAgrees,
         \/ \E o \in Op, k \in Kind : Create(o, k)
         \/ \E o, i \in Op : DeleteLocalRoute(o, i)
         \/ \E o, i \in Op, k \in Kind : CloseTrip(o, i, k)
         \/ QueuePendingPoints
  PROVE  TableAgrees(row, payload)' /\ RowsKept
  <1>t. row \in [Op -> Row] /\ payload \in [Op -> Payload] /\ \A i \in Op : row[i].owner \in Owner
    BY DEF SystemTypeOK, QueueTypeOK, ServerTypeOK, Row
  <1>a. TableAgrees(row, payload) /\ unqueued \subseteq Op
    BY DEF QueueAgrees, SystemTypeOK
  <1>k. ASSUME NEW o \in Op, \A q \in Op : row[q].status = "NONE" <=> q >= o,
               \A q \in Op : q < o => row'[q] = row[q] /\ payload'[q] = payload[q]
        PROVE  RowsKept
    <2>1. \A q \in Op : row[q].status # "NONE" => q < o
      BY <1>k, SyncTypesAssumption
    <2> QED  BY <1>k, <2>1 DEF RowsKept
  <1>1. ASSUME NEW o \in Op, NEW a \in Owner, NEW k \in Kind, NEW i \in Op,
               IsNext(o), row' = [row EXCEPT ![o] = NewRow(a)], Queued(o, k, i),
               \/ k \in Creation /\ i = o
               \/ /\ k \notin Creation /\ row[i].status # "NONE" /\ row[i].owner = a
                  /\ payload[i].item = i /\ payload[i].kind \in Creation
                  /\ k \in RouteKind <=> payload[i].kind = "route:UPSERT"
        PROVE  TableAgrees(row, payload)' /\ RowsKept
    <2>1. payload' = [payload EXCEPT ![o] = [kind |-> k, item |-> i]]
      BY <1>1 DEF Queued
    <2>2. \A q \in Op : row[q].status = "NONE" <=> q >= o
      BY <1>1 DEF IsNext
    <2>g. Grows(row, payload, o, a, k, i, row', payload')
      BY <1>1, <1>t, <1>a, <2>1, <2>2 DEF Grows
    <2>3. TableAgrees(row', payload') /\ \A q \in Op \ {o} : row'[q] = row[q] /\ payload'[q] = payload[q]
      BY <2>g, TableGrows
    <2> QED  BY <2>2, <2>3, <1>k, SyncTypesAssumption
  <1>c. ASSUME NEW i \in Op, IsQueued("trip:CREATE", i)
        PROVE  row[i].status # "NONE" /\ payload[i] = [kind |-> "trip:CREATE", item |-> i]
    BY <1>c, <1>a, QueuedItem DEF Creation
  <1>2. ASSUME NEW o \in Op, NEW k \in Kind, Create(o, k) PROVE TableAgrees(row, payload)' /\ RowsKept
    <2>1. session \in Owner /\ k \in Creation
      BY <1>2 DEF Create, SystemTypeOK, QueueTypeOK, Creation
    <2> QED  BY <2>1, <1>1, <1>2 DEF Create, Add
  <1>3. ASSUME NEW o \in Op, NEW i \in Op, DeleteLocalRoute(o, i)
        PROVE  TableAgrees(row, payload)' /\ RowsKept
    <2>1. IsQueued("route:UPSERT", i) /\ row[i].owner = session
      BY <1>3 DEF DeleteLocalRoute, LocalRoutes
    <2>2. row[i].status # "NONE" /\ payload[i] = [kind |-> "route:UPSERT", item |-> i]
      BY <2>1, <1>a, QueuedItem DEF Creation
    <2>3. /\ "route:DELETE" \in Kind /\ "route:DELETE" \notin Creation /\ "route:DELETE" \in RouteKind
          /\ payload[i].item = i /\ payload[i].kind = "route:UPSERT" /\ "route:UPSERT" \in Creation
      BY <2>2 DEF Kind, Creation, RouteKind
    <2>4. IsNext(o) /\ row' = [row EXCEPT ![o] = NewRow(session)] /\ Queued(o, "route:DELETE", i)
      BY <1>3 DEF DeleteLocalRoute, Add
    <2> QED  BY <2>1, <2>2, <2>3, <2>4, <1>1, <1>t
  <1>4. ASSUME NEW o \in Op, NEW i \in Op, NEW k \in Kind, CloseTrip(o, i, k)
        PROVE  TableAgrees(row, payload)' /\ RowsKept
    <2>1. IsQueued("trip:CREATE", i) /\ k \notin Creation /\ k \notin RouteKind
      BY <1>4 DEF CloseTrip, ActiveTrips, Creation, RouteKind
    <2>2. /\ row[i].status # "NONE" /\ payload[i].item = i /\ payload[i].kind = "trip:CREATE"
          /\ payload[i].kind \in Creation
      <3>1. row[i].status # "NONE" /\ payload[i] = [kind |-> "trip:CREATE", item |-> i]
        BY <2>1, <1>c
      <3> QED  BY <3>1 DEF Creation
    <2>3. CASE i \notin unqueued
      <3>1. IsNext(o) /\ row' = [row EXCEPT ![o] = NewRow(row[i].owner)] /\ Queued(o, k, i)
        BY <1>4, <2>3 DEF CloseTrip, Add
      <3> QED  BY <3>1, <2>1, <2>2, <1>1, <1>t
    <2>4. CASE i \in unqueued
      <3>1. /\ IsNext(o) /\ o + 1 \in Op
            /\ row' = [row EXCEPT ![o] = NewRow(row[i].owner), ![o + 1] = NewRow(row[i].owner)]
            /\ payload' = [payload EXCEPT ![o] = [kind |-> "points:CREATE", item |-> i],
                                          ![o + 1] = [kind |-> k, item |-> i]]
        BY <1>4, <2>4 DEF CloseTrip
      <3>2. PICK r1, p1 : /\ r1 = [row EXCEPT ![o] = NewRow(row[i].owner)]
                          /\ p1 = [payload EXCEPT ![o] = [kind |-> "points:CREATE", item |-> i]]
        OBVIOUS
      <3>3. row' = [r1 EXCEPT ![o + 1] = NewRow(row[i].owner)]
            /\ payload' = [p1 EXCEPT ![o + 1] = [kind |-> k, item |-> i]]
        BY <3>1, <3>2
      <3>4. "points:CREATE" \in Kind \ (Creation \cup RouteKind)
        BY DEF Kind, Creation, RouteKind
      <3>5. \A q \in Op : row[q].status = "NONE" <=> q >= o
        BY <3>1 DEF IsNext
      <3>6. /\ TableAgrees(r1, p1) /\ r1 \in [Op -> Row] /\ p1 \in [Op -> Payload]
            /\ \A q \in Op : r1[q].status = "NONE" <=> q > o
            /\ \A q \in Op \ {o} : r1[q] = row[q] /\ p1[q] = payload[q]
        <4>1. Grows(row, payload, o, row[i].owner, "points:CREATE", i, r1, p1)
          BY <3>2, <3>4, <3>5, <2>2, <1>t, <1>a DEF Grows, Creation, RouteKind
        <4> QED  BY <4>1, TableGrows
      <3>7. i # o
        BY <2>2, <3>5, SyncTypesAssumption
      <3>8. \A q \in Op : r1[q].status = "NONE" <=> q >= o + 1
        BY <3>6, SyncTypesAssumption
      <3>9. r1[i] = row[i] /\ p1[i] = payload[i]
        BY <3>6, <3>7
      <3>10. /\ TableAgrees(row', payload')
             /\ \A q \in Op \ {o + 1} : row'[q] = r1[q] /\ payload'[q] = p1[q]
        <4>1. Grows(r1, p1, o + 1, row[i].owner, k, i, row', payload')
          BY <3>1, <3>3, <3>6, <3>8, <3>9, <2>1, <2>2, <1>t DEF Grows, Creation, RouteKind
        <4> QED  BY <4>1, TableGrows
      <3>11. \A q \in Op : q < o => row'[q] = row[q] /\ payload'[q] = payload[q]
        BY <3>6, <3>10, SyncTypesAssumption
      <3> QED  BY <3>5, <3>10, <3>11, <1>k
    <2> QED  BY <2>3, <2>4
  <1>5. CASE QueuePendingPoints
    <2>1. CASE unqueued = {}
      <3>1. UNCHANGED <<row, payload>>
        BY <1>5, <2>1 DEF QueuePendingPoints
      <3> QED  BY <3>1, <1>a DEF RowsKept, TableAgrees, ItemAgrees
    <2>2. CASE unqueued # {}
      <3>1. PICK o \in Op, i \in unqueued :
              /\ IsNext(o) /\ row' = [row EXCEPT ![o] = NewRow(row[i].owner)]
              /\ Queued(o, "points:CREATE", i)
        BY <1>5, <2>2 DEF QueuePendingPoints
      <3>2. i \in Op /\ row[i].status # "NONE" /\ payload[i].kind = "trip:CREATE"
        BY <1>a DEF QueueAgrees, UnqueuedAgrees
      <3>3. payload[i].item = i /\ payload[i].kind \in Creation
        BY <3>2, <1>a DEF TableAgrees, ItemAgrees, Creation
      <3>4. "points:CREATE" \in Kind \ (Creation \cup RouteKind)
        BY DEF Kind, Creation, RouteKind
      <3> QED  BY <3>1, <3>2, <3>3, <3>4, <1>1, <1>t
    <2> QED  BY <2>1, <2>2
  <1> QED  BY <1>2, <1>3, <1>4, <1>5

(* All the other steps but RecordFix touch neither payloads nor fixes.     *)
LEMMA OtherSteps ==
  ASSUME SystemTypeOK, Orderly,
         \/ \E a \in Owner : Login(a)
         \/ \E o \in Op : ClockTicks(o)
         \/ UserRetries \/ StartRound \/ ContinueRound \/ KillApp
         \/ \E s \in Slot : \/ SendRequest(s) \/ Deliver(s) \/ Discard(s) \/ GiveUp(s)
                            \/ GatewayTimeout(s) \/ ServerCrash(s) \/ Work(s) \/ Fail(s)
  PROVE  SameRows /\ UNCHANGED <<payload, unqueued>>
  <1>1. UNCHANGED <<payload, unqueued>>
    BY DEF Login, ClockTicks, UserRetries, StartRound, ContinueRound, KillApp, SendRequest,
           Deliver, Discard, GiveUp, GatewayTimeout, ServerCrash, Work, Fail
  <1>2. \/ UNCHANGED queueVars
        \/ \E a \in Owner : SwitchSession(a)
        \/ \E o \in Op : BackoffOver(o)
        \/ RetryFailed \/ AppKilled \/ BeginRound \/ RoundStep
        \/ Post \/ NoReply \/ Unavailable \/ SplitBatch \/ RejectSingle \/ \E r : Answered(r)
    <2>1. CASE \E s \in Slot : Deliver(s)
      BY <2>1 DEF Deliver
    <2>2. CASE \/ \E a \in Owner : Login(a)
               \/ \E o \in Op : ClockTicks(o)
               \/ UserRetries \/ StartRound \/ ContinueRound \/ KillApp
               \/ \E s \in Slot : \/ SendRequest(s) \/ Discard(s) \/ GiveUp(s)
                                  \/ GatewayTimeout(s) \/ ServerCrash(s) \/ Work(s) \/ Fail(s)
      BY <2>2 DEF Login, ClockTicks, UserRetries, StartRound, ContinueRound, KillApp, SendRequest,
                  Discard, GiveUp, GatewayTimeout, ServerCrash, Work, Fail
    <2> QED  BY <2>1, <2>2
  <1>3. SameRows
    <2>1. UNCHANGED queueVars => SameRows
      BY DEF queueVars, SameRows
    <2> QED  BY <1>2, <2>1, SameRowsOfPhone DEF SystemTypeOK
  <1> QED  BY <1>1, <1>3

LEMMA StepKeepsRows ==
  ASSUME SystemTypeOK, Orderly, QueueAgrees, Next
  PROVE  QueueAgrees' /\ RowsKept
  <1>t. QueueTypeOK /\ row \in [Op -> Row] /\ unqueued \subseteq Op
    BY DEF SystemTypeOK, QueueTypeOK
  <1>a. TableAgrees(row, payload) /\ UnqueuedAgrees(unqueued, row, payload)
    BY DEF QueueAgrees
  <1>u. ASSUME RowsKept, unqueued' \subseteq unqueued PROVE UnqueuedAgrees(unqueued, row, payload)'
    BY <1>u, <1>a, <1>t DEF UnqueuedAgrees, RowsKept
  <1>s. ASSUME SameRows, payload' = payload PROVE TableAgrees(row, payload)' /\ RowsKept
    <2>1. RowsKept
      BY <1>s DEF SameRows, RowsKept
    <2>2. ASSUME NEW o \in Op, row[o].status # "NONE" PROVE ItemAgrees(row', payload', o)
      <3>1. ItemAgrees(row, payload, o) /\ payload[o].item \in Op
        BY <2>2, <1>a DEF TableAgrees, SystemTypeOK, ServerTypeOK, Payload
      <3> QED  BY <1>s, <3>1 DEF SameRows, ItemAgrees
    <2> QED  BY <1>s, <1>a, <2>1, <2>2 DEF SameRows, TableAgrees
  <1>1. CASE \/ \E o \in Op, k \in Kind : Create(o, k)
             \/ \E o, i \in Op : DeleteLocalRoute(o, i)
             \/ \E o, i \in Op, k \in Kind : CloseTrip(o, i, k)
             \/ QueuePendingPoints
    <2>1. unqueued' \subseteq unqueued
      BY <1>1 DEF Create, DeleteLocalRoute, CloseTrip, QueuePendingPoints
    <2> QED  BY <1>1, <2>1, <1>u, RowsAdded DEF QueueAgrees
  <1>2. ASSUME NEW i \in Op, RecordFix(i) PROVE QueueAgrees' /\ RowsKept
    <2>1. UNCHANGED <<row, payload>> /\ unqueued' = unqueued \cup {i} /\ IsQueued("trip:CREATE", i)
      BY <1>2 DEF RecordFix, queueVars, ActiveTrips
    <2>2. row[i].status # "NONE" /\ payload[i].kind = "trip:CREATE"
      <3>1. "trip:CREATE" \in Creation
        BY DEF Creation
      <3>2. payload[i] = [kind |-> "trip:CREATE", item |-> i] /\ row[i].status # "NONE"
        BY <3>1, <2>1, <1>a, QueuedItem
      <3> QED  BY <3>2
    <2>3. SameRows
      BY <2>1 DEF SameRows
    <2> QED  BY <2>1, <2>2, <2>3, <1>a, <1>s DEF QueueAgrees, UnqueuedAgrees
  <1>3. CASE \/ \E a \in Owner : Login(a)
             \/ \E o \in Op : ClockTicks(o)
             \/ UserRetries \/ StartRound \/ ContinueRound \/ KillApp
             \/ \E s \in Slot : \/ SendRequest(s) \/ Deliver(s) \/ Discard(s) \/ GiveUp(s)
                                \/ GatewayTimeout(s) \/ ServerCrash(s) \/ Work(s) \/ Fail(s)
    <2>1. SameRows /\ UNCHANGED <<payload, unqueued>>
      BY <1>3, OtherSteps
    <2> QED  BY <2>1, <1>s, <1>u DEF QueueAgrees
  <1> QED  BY <1>1, <1>2, <1>3 DEF Next

-----------------------------------------------------------------------------
(* A trip ends once.                                                       *)

Ends == {"trip:FINISH", "trip:CANCEL"}
EndOf(o, i) == row[o].status # "NONE" /\ payload[o].kind \in Ends /\ payload[o].item = i
EndsOnce == \A i, o, p \in Op : EndOf(o, i) /\ EndOf(p, i) => o = p

(* Of the operations a step adds, one at most ends a trip, an active one.  *)
NewEnd(e, i) ==
  \A o \in Op : row[o].status = "NONE" /\ row'[o].status # "NONE" /\ payload'[o].kind \in Ends =>
    i \in ActiveTrips /\ o = e /\ payload'[o].item = i

LEMMA StepEnds ==
  ASSUME SystemTypeOK, Orderly, Next
  PROVE  \E e, i : NewEnd(e, i)
  <1>t. row \in [Op -> Row] /\ payload \in [Op -> Payload]
    BY DEF SystemTypeOK, QueueTypeOK, ServerTypeOK
  <1>0. ASSUME SameRows PROVE NewEnd(0, 0)
    BY <1>0 DEF SameRows, NewEnd
  <1>2. ASSUME NEW o \in Op, NEW k \in Kind, Create(o, k) PROVE NewEnd(0, 0)
    <2>1. row' = [row EXCEPT ![o] = NewRow(session)] /\ Queued(o, k, o) /\ k \notin Ends
      BY <1>2 DEF Create, Add, Ends
    <2>2. (\A q \in Op \ {o} : row'[q] = row[q]) /\ payload'[o].kind = k
      BY <2>1, <1>t DEF Queued
    <2> QED  BY <2>1, <2>2 DEF NewEnd
  <1>3. ASSUME NEW o \in Op, NEW i \in Op, DeleteLocalRoute(o, i) PROVE NewEnd(0, 0)
    <2>1. row' = [row EXCEPT ![o] = NewRow(session)] /\ Queued(o, "route:DELETE", i)
      BY <1>3 DEF DeleteLocalRoute, Add
    <2>2. (\A q \in Op \ {o} : row'[q] = row[q]) /\ payload'[o].kind = "route:DELETE"
      BY <2>1, <1>t DEF Queued
    <2> QED  BY <2>2 DEF NewEnd, Ends
  <1>4. ASSUME NEW o \in Op, NEW i \in Op, NEW k \in Kind, CloseTrip(o, i, k) PROVE \E e : NewEnd(e, i)
    <2>1. CASE i \in unqueued
      <3>1. /\ o + 1 \in Op /\ i \in ActiveTrips
            /\ row' = [row EXCEPT ![o] = NewRow(row[i].owner), ![o + 1] = NewRow(row[i].owner)]
            /\ payload' = [payload EXCEPT ![o] = [kind |-> "points:CREATE", item |-> i],
                                          ![o + 1] = [kind |-> k, item |-> i]]
        BY <1>4, <2>1 DEF CloseTrip
      <3>2. /\ \A q \in Op : q # o /\ q # o + 1 => row'[q] = row[q]
            /\ payload'[o + 1].item = i
        BY <3>1, <1>t
      <3>4. payload'[o].kind = "points:CREATE"
        <4>1. o # o + 1
          BY SyncTypesAssumption
        <4> QED  BY <3>1, <4>1, <1>t
      <3>3. NewEnd(o + 1, i)
        BY <3>1, <3>2, <3>4 DEF NewEnd, Ends
      <3> QED  BY <3>3
    <2>2. CASE i \notin unqueued
      <3>1. row' = [row EXCEPT ![o] = NewRow(row[i].owner)] /\ Queued(o, k, i) /\ i \in ActiveTrips
        BY <1>4, <2>2 DEF CloseTrip, Add
      <3>2. (\A q \in Op \ {o} : row'[q] = row[q]) /\ payload'[o].item = i
        BY <3>1, <1>t DEF Queued
      <3>3. NewEnd(o, i)
        BY <3>1, <3>2 DEF NewEnd
      <3> QED  BY <3>3
    <2> QED  BY <2>1, <2>2
  <1>5. CASE QueuePendingPoints
    <2>1. CASE unqueued = {}
      BY <1>5, <2>1, <1>0 DEF QueuePendingPoints, SameRows
    <2>2. CASE unqueued # {}
      <3>1. PICK o \in Op, i \in unqueued :
              row' = [row EXCEPT ![o] = NewRow(row[i].owner)] /\ Queued(o, "points:CREATE", i)
        BY <1>5, <2>2 DEF QueuePendingPoints
      <3>2. (\A q \in Op \ {o} : row'[q] = row[q]) /\ payload'[o].kind = "points:CREATE"
        BY <3>1, <1>t DEF Queued
      <3>3. NewEnd(0, 0)
        BY <3>2 DEF NewEnd, Ends
      <3> QED  BY <3>3
    <2> QED  BY <2>1, <2>2
  <1>6. CASE \E i \in Op : RecordFix(i)
    BY <1>6, <1>0 DEF RecordFix, queueVars, SameRows
  <1>7. CASE \/ \E a \in Owner : Login(a)
             \/ \E o \in Op : ClockTicks(o)
             \/ UserRetries \/ StartRound \/ ContinueRound \/ KillApp
             \/ \E s \in Slot : \/ SendRequest(s) \/ Deliver(s) \/ Discard(s) \/ GiveUp(s)
                                \/ GatewayTimeout(s) \/ ServerCrash(s) \/ Work(s) \/ Fail(s)
    BY <1>7, <1>0, OtherSteps
  <1> QED  BY <1>2, <1>3, <1>4, <1>5, <1>6, <1>7 DEF Next

LEMMA StepEndsOnce ==
  ASSUME SystemTypeOK, Orderly, EndsOnce, RowsKept, Next
  PROVE  EndsOnce'
  <1>t. payload \in [Op -> Payload]
    BY DEF SystemTypeOK, ServerTypeOK
  <1>1. PICK e, j : NewEnd(e, j)
    BY StepEnds
  <1>2. ASSUME NEW i \in Op, NEW o \in Op, EndOf(o, i)'
        PROVE  EndOf(o, i) \/ (i \in ActiveTrips /\ o = e /\ j = i)
    <2>1. CASE row[o].status # "NONE"
      BY <1>2, <2>1 DEF EndOf, RowsKept
    <2>2. CASE row[o].status = "NONE"
      BY <1>2, <2>2, <1>1 DEF EndOf, NewEnd
    <2> QED  BY <2>1, <2>2
  <1>3. ASSUME NEW i \in ActiveTrips, NEW o \in Op, EndOf(o, i) PROVE FALSE
    <2>1. payload[o] = [kind |-> payload[o].kind, item |-> payload[o].item]
      BY <1>t DEF Payload
    <2>2. IsQueued("trip:FINISH", i) \/ IsQueued("trip:CANCEL", i)
      BY <2>1, <1>3 DEF EndOf, Ends, IsQueued, Inserted
    <2> QED  BY <2>2 DEF ActiveTrips
  <1> QED  BY <1>2, <1>3 DEF EndsOnce

-----------------------------------------------------------------------------
(* What the server holds is what it applied.                               *)

(* Operations of A, applied, of kind k about item i. *)
AppliedOf(A, k, i) == {o \in A : payload[o] = [kind |-> k, item |-> i]}

(* The rows of trip i in store st are what the operations of A left.       *)
TripAgrees(st, A, i) ==
  /\ st.owner[i] = IF i \in A THEN row[i].owner ELSE NoAccount
  /\ st.trip[i] = IF i \notin A THEN "NONE"
                  ELSE IF AppliedOf(A, "trip:FINISH", i) # {} THEN "COMPLETED"
                  ELSE IF AppliedOf(A, "trip:CANCEL", i) # {} THEN "CANCELLED"
                  ELSE "ACTIVE"
  /\ st.points[i] = AppliedOf(A, "points:CREATE", i)

(* The inductive invariant: an item no operation created, and every trip,  *)
(* has the rows that what was applied leaves; nothing but the deletion of  *)
(* a route, which may come late, is applied before the creation of its item*)
StoreAgreesOn(st, A) ==
  /\ \A o \in A : row[o].status # "NONE"
  /\ \A o \in A : payload[o].kind # "route:DELETE" => payload[o].item \in A
  /\ \A i \in Op : row[i].status = "NONE" \/ payload[i].kind = "trip:CREATE" => TripAgrees(st, A, i)

StoreAgrees == StoreAgreesOn(store, applied)

(* A handler about to write to a trip has found it, unless it creates it:  *)
(* what it decided on may have changed since, but the trip is still there. *)
WriteFound(o) ==
  /\ o \notin Invalid /\ payload[o].kind \notin RouteKind
  /\ payload[o].kind # "trip:CREATE" => payload[o].item \in applied
WritesFound == \A s \in Slot, o \in Op : InHandler(s, {"writing"}, o) => WriteFound(o)

LEMMA StoreKept ==
  ASSUME SystemTypeOK, StoreAgrees, RowsKept, UNCHANGED <<store, applied>>
  PROVE  StoreAgrees'
  <1>t. applied \subseteq Op /\ payload \in [Op -> Payload]
    BY DEF SystemTypeOK, ServerTypeOK
  <1>1. \A o \in applied : /\ row[o].status # "NONE" /\ row'[o].status # "NONE"
                           /\ row'[o].owner = row[o].owner /\ payload'[o] = payload[o]
    BY <1>t DEF StoreAgrees, StoreAgreesOn, RowsKept
  <1>2. \A k, i : AppliedOf(applied, k, i)' = AppliedOf(applied, k, i)
    BY <1>1 DEF AppliedOf
  <1>3. ASSUME NEW i \in Op, row'[i].status = "NONE" \/ payload'[i].kind = "trip:CREATE"
        PROVE  TripAgrees(store, applied, i)'
    <2>1. row[i].status = "NONE" \/ payload[i].kind = "trip:CREATE"
      BY <1>3 DEF RowsKept
    <2>2. TripAgrees(store, applied, i)
      BY <2>1 DEF StoreAgrees, StoreAgreesOn
    <2> QED  BY <2>2, <1>1, <1>2 DEF TripAgrees
  <1>4. \A o \in applied : payload'[o].kind # "route:DELETE" => payload'[o].item \in applied
    BY <1>1 DEF StoreAgrees, StoreAgreesOn
  <1> QED  BY <1>1, <1>3, <1>4 DEF StoreAgrees, StoreAgreesOn

(* The rows of one item do not change by what is done to another.          *)
LEMMA OtherTrips ==
  ASSUME NEW st, NEW st1, NEW A, NEW o, NEW i, TripAgrees(st, A, i), i # o,
         payload[o].item # i \/ payload[o].kind \notin {"points:CREATE", "trip:FINISH", "trip:CANCEL"},
         st1.owner[i] = st.owner[i], st1.trip[i] = st.trip[i], st1.points[i] = st.points[i]
  PROVE  TripAgrees(st1, A \cup {o}, i)
  <1>1. ASSUME NEW k \in {"points:CREATE", "trip:FINISH", "trip:CANCEL"}
        PROVE  AppliedOf(A \cup {o}, k, i) = AppliedOf(A, k, i)
    <2>1. payload[o] # [kind |-> k, item |-> i]
      OBVIOUS
    <2> QED  BY <2>1 DEF AppliedOf
  <1>2. i \in A \cup {o} <=> i \in A
    OBVIOUS
  <1>3. /\ AppliedOf(A \cup {o}, "points:CREATE", i) = AppliedOf(A, "points:CREATE", i)
        /\ AppliedOf(A \cup {o}, "trip:FINISH", i) = AppliedOf(A, "trip:FINISH", i)
        /\ AppliedOf(A \cup {o}, "trip:CANCEL", i) = AppliedOf(A, "trip:CANCEL", i)
    BY <1>1
  <1> QED  BY <1>2, <1>3 DEF TripAgrees

(* The rows of the items other than i are the same in stores st and st1.   *)
OnlyItem(st, st1, i) ==
  \A j \in Op \ {i} : /\ st1.owner[j] = st.owner[j] /\ st1.trip[j] = st.trip[j]
                      /\ st1.points[j] = st.points[j]

(* A statement for operation o that touches the rows of its item only.     *)
LEMMA OneMoreApplied ==
  ASSUME QueueAgrees, StoreAgrees, UNCHANGED <<row, payload>>,
         NEW o \in Op, NEW i \in Op, row[o].status # "NONE", payload[o].item = i,
         applied' = applied \cup {o}, OnlyItem(store, store', i),
         \/ payload[o].kind \in RouteKind
         \/ TripAgrees(store', applied \cup {o}, i) /\ i \in applied \cup {o}
  PROVE  StoreAgrees'
  <1>a. /\ \A p \in applied : row[p].status # "NONE"
        /\ \A p \in applied : payload[p].kind # "route:DELETE" => payload[p].item \in applied
        /\ \A j \in Op : row[j].status = "NONE" \/ payload[j].kind = "trip:CREATE"
                           => TripAgrees(store, applied, j)
    BY DEF StoreAgrees, StoreAgreesOn
  <1>i. /\ row[i].status # "NONE"
        /\ payload[o].kind \in Creation => o = i
        /\ payload[o].kind \in RouteKind <=> payload[i].kind = "route:UPSERT"
    BY DEF QueueAgrees, TableAgrees, ItemAgrees
  <1>1. ASSUME NEW j \in Op, j # i, row[j].status = "NONE" \/ payload[j].kind = "trip:CREATE"
        PROVE  TripAgrees(store', applied \cup {o}, j)
    <2>1. TripAgrees(store, applied, j)
      BY <1>1, <1>a
    <2>2. j # o
      <3>1. payload[o].kind # "trip:CREATE" \/ o = i
        BY <1>i DEF Creation
      <3> QED  BY <3>1, <1>1
    <2> QED  BY <1>1, <2>1, <2>2, OtherTrips DEF OnlyItem
  <1>2. StoreAgreesOn(store', applied \cup {o})
    <2>1. \A p \in applied \cup {o} : row[p].status # "NONE"
      BY <1>a
    <2>2. \A p \in applied \cup {o} : payload[p].kind # "route:DELETE" => payload[p].item \in applied \cup {o}
      BY <1>a, <1>i DEF RouteKind, Creation
    <2>3. \A j \in Op : row[j].status = "NONE" \/ payload[j].kind = "trip:CREATE"
                          => TripAgrees(store', applied \cup {o}, j)
      BY <1>1, <1>i
    <2> QED  BY <2>1, <2>2, <2>3 DEF StoreAgreesOn
  <1> QED  BY <1>2 DEF StoreAgrees, StoreAgreesOn, TripAgrees, AppliedOf

(* Operation o of kind k is about trip i of account u.                     *)
OfTrip(st, A, u, k, i, o) ==
  /\ st \in Store /\ A \in SUBSET Op /\ o \in Op /\ i \in Op /\ u # NoAccount
  /\ k \in {"trip:CREATE", "points:CREATE", "trip:FINISH", "trip:CANCEL"}
  /\ payload[o] = [kind |-> k, item |-> i] /\ (k = "trip:CREATE" => o = i)
  /\ row[i].owner = u
  /\ \A p \in A : payload[p].kind # "route:DELETE" => payload[p].item \in A
  /\ TripAgrees(st, A, i)

(* What is applied about trip i once operation o is too.                   *)
LEMMA AppliedMore ==
  ASSUME NEW st, NEW A, NEW o, NEW i, NEW u, NEW k, OfTrip(st, A, u, k, i, o), NEW B, B = A \cup {o}
  PROVE  /\ AppliedOf(B, "points:CREATE", i) =
              AppliedOf(A, "points:CREATE", i) \cup (IF "points:CREATE" = k THEN {o} ELSE {})
         /\ AppliedOf(B, "trip:FINISH", i) =
              AppliedOf(A, "trip:FINISH", i) \cup (IF "trip:FINISH" = k THEN {o} ELSE {})
         /\ AppliedOf(B, "trip:CANCEL", i) =
              AppliedOf(A, "trip:CANCEL", i) \cup (IF "trip:CANCEL" = k THEN {o} ELSE {})
         /\ i \notin A => /\ AppliedOf(A, "points:CREATE", i) = {}
                          /\ AppliedOf(A, "trip:FINISH", i) = {}
                          /\ AppliedOf(A, "trip:CANCEL", i) = {}
         /\ st.owner[i] = u <=> i \in A
         /\ st.owner[i] = NoAccount <=> i \notin A
  <1> USE DEF OfTrip
  <1>a. ASSUME NEW j PROVE AppliedOf(B, j, i) = AppliedOf(A, j, i) \cup (IF j = k THEN {o} ELSE {})
    BY DEF AppliedOf
  <1>n. ASSUME i \notin A, NEW j, j # "route:DELETE" PROVE AppliedOf(A, j, i) = {}
    <2>1. ASSUME NEW p \in A, payload[p] = [kind |-> j, item |-> i] PROVE FALSE
      <3>1. payload[p].kind = j /\ payload[p].item = i
        BY <2>1
      <3> QED  BY <3>1, <1>n
    <2> QED  BY <2>1 DEF AppliedOf
  <1>w. (st.owner[i] = u <=> i \in A) /\ (st.owner[i] = NoAccount <=> i \notin A)
    BY DEF TripAgrees
  <1> QED  BY <1>a, <1>n, <1>w

(* A trip that was found as asked already.                                 *)
LEMMA TripFound ==
  ASSUME NEW st, NEW A, NEW o, NEW i, NEW u, NEW k, OfTrip(st, A, u, k, i, o),
         Finds(st, u, k, i) = "OK"
  PROVE  TripAgrees(st, A \cup {o}, i) /\ i \in A
  <1>0. PICK B : B = A \cup {o}
    OBVIOUS
  <1>f. /\ AppliedOf(B, "points:CREATE", i) =
             AppliedOf(A, "points:CREATE", i) \cup (IF "points:CREATE" = k THEN {o} ELSE {})
        /\ AppliedOf(B, "trip:FINISH", i) =
             AppliedOf(A, "trip:FINISH", i) \cup (IF "trip:FINISH" = k THEN {o} ELSE {})
        /\ AppliedOf(B, "trip:CANCEL", i) =
             AppliedOf(A, "trip:CANCEL", i) \cup (IF "trip:CANCEL" = k THEN {o} ELSE {})
        /\ st.owner[i] = u <=> i \in A
    BY <1>0, AppliedMore
  <1> USE DEF OfTrip
  <1>1. CASE k = "trip:CREATE"
    <2>1. i \in A
      BY <1>1, <1>f DEF Finds, StartFinds
    <2>2. B = A
      BY <1>0, <1>1, <2>1
    <2> QED  BY <2>1, <2>2, <1>0
  <1>2. CASE k = "points:CREATE"
    BY <1>2 DEF Finds, RecordFinds
  <1>3. CASE k = "trip:FINISH"
    <2>1. i \in A /\ st.trip[i] = "COMPLETED"
      BY <1>3, <1>f DEF Finds, EndFinds, Ending
    <2> QED  BY <2>1, <1>0, <1>3, <1>f DEF TripAgrees
  <1>4. CASE k = "trip:CANCEL"
    <2>1. i \in A /\ st.trip[i] = "CANCELLED"
      BY <1>4, <1>f DEF Finds, EndFinds, Ending
    <2> QED  BY <2>1, <1>0, <1>4, <1>f DEF TripAgrees
  <1> QED  BY <1>1, <1>2, <1>3, <1>4

(* The write to a trip that is there, or of a new one.                     *)
LEMMA TripIsWritten ==
  ASSUME NEW st, NEW A, NEW o, NEW i, NEW u, NEW k, OfTrip(st, A, u, k, i, o),
         IF k = "trip:CREATE" THEN i \notin A ELSE i \in A,
         k = "trip:CANCEL" => AppliedOf(A, "trip:FINISH", i) = {}
  PROVE  TripAgrees(TripWritten(st, u, k, i, o), A \cup {o}, i) /\ i \in A \cup {o}
  <1>0. PICK st1, B : st1 = TripWritten(st, u, k, i, o) /\ B = A \cup {o}
    OBVIOUS
  <1> SUFFICES TripAgrees(st1, B, i) /\ i \in B
    BY <1>0
  <1>f. /\ AppliedOf(B, "points:CREATE", i) =
             AppliedOf(A, "points:CREATE", i) \cup (IF "points:CREATE" = k THEN {o} ELSE {})
        /\ AppliedOf(B, "trip:FINISH", i) =
             AppliedOf(A, "trip:FINISH", i) \cup (IF "trip:FINISH" = k THEN {o} ELSE {})
        /\ AppliedOf(B, "trip:CANCEL", i) =
             AppliedOf(A, "trip:CANCEL", i) \cup (IF "trip:CANCEL" = k THEN {o} ELSE {})
        /\ i \notin A => /\ AppliedOf(A, "points:CREATE", i) = {}
                         /\ AppliedOf(A, "trip:FINISH", i) = {}
                         /\ AppliedOf(A, "trip:CANCEL", i) = {}
    BY <1>0, AppliedMore
  <1> USE DEF OfTrip
  <1>s. /\ st.owner \in [Op -> Owner] /\ st.trip \in [Op -> TripStatus]
        /\ st.points \in [Op -> SUBSET Op] /\ st.measured \in [Op -> SUBSET Op]
    BY DEF Store
  <1>e. st = [owner |-> st.owner, trip |-> st.trip, points |-> st.points, measured |-> st.measured]
    BY DEF Store
  <1>i. i \in B
    BY <1>0
  <1>1. CASE k = "trip:CREATE"
    <2>1. st1 = [st EXCEPT !.owner[i] = u, !.trip[i] = "ACTIVE"]
      BY <1>0, <1>1 DEF TripWritten
    <2>2. st1 = [owner |-> [st.owner EXCEPT ![i] = u], trip |-> [st.trip EXCEPT ![i] = "ACTIVE"],
                 points |-> st.points, measured |-> st.measured]
      BY <2>1, <1>e
    <2>3. /\ st1.owner = [st.owner EXCEPT ![i] = u] /\ st1.points = st.points
          /\ st1.trip = [st.trip EXCEPT ![i] = "ACTIVE"]
      BY <2>2
    <2>4. st1.owner[i] = u /\ st1.trip[i] = "ACTIVE" /\ st1.points[i] = st.points[i]
      BY <2>3, <1>s
    <2>5. st.points[i] = {}
      BY <1>1, <1>f DEF TripAgrees
    <2> QED  BY <2>4, <2>5, <1>i, <1>1, <1>f DEF TripAgrees
  <1>2. CASE k = "points:CREATE"
    <2>1. /\ st1.owner[i] = st.owner[i] /\ st1.trip[i] = st.trip[i]
          /\ st1.points[i] = st.points[i] \cup {o}
      BY <1>0, <1>2, <1>s DEF TripWritten, Store
    <2> QED  BY <2>1, <1>i, <1>2, <1>f DEF TripAgrees
  <1>3. CASE k \in Ends
    <2>1. /\ st1.owner[i] = st.owner[i] /\ st1.trip[i] = Ending(k)
          /\ st1.points[i] = st.points[i]
      BY <1>0, <1>3, <1>s DEF TripWritten, Store, Ends
    <2> QED  BY <2>1, <1>i, <1>3, <1>f DEF TripAgrees, Ending, Ends
  <1> QED  BY <1>1, <1>2, <1>3 DEF Ends

(* A statement touches the rows of the item of its operation only.         *)
LEMMA StatementKeeps ==
  ASSUME NEW st \in Store, NEW u \in Owner, NEW k, NEW i \in Op, NEW o \in Op
  PROVE  /\ OnlyItem(st, UpsertRoute(st, u, i).store, i)
         /\ OnlyItem(st, DeleteRoute(st, u, i).store, i)
         /\ OnlyItem(st, TripWritten(st, u, k, i, o), i)
         /\ Measure(st, i).owner = st.owner /\ Measure(st, i).trip = st.trip
         /\ Measure(st, i).points = st.points
  <1>s. /\ st.owner \in [Op -> Owner] /\ st.trip \in [Op -> TripStatus]
        /\ st.points \in [Op -> SUBSET Op] /\ st.measured \in [Op -> SUBSET Op]
    BY DEF Store
  <1>e. st = [owner |-> st.owner, trip |-> st.trip, points |-> st.points, measured |-> st.measured]
    BY DEF Store
  <1>o. OnlyItem(st, st, i)
    BY DEF OnlyItem
  <1>w. ASSUME NEW v PROVE OnlyItem(st, [st EXCEPT !.owner[i] = v], i)
    BY <1>s DEF OnlyItem, Store
  <1>1. OnlyItem(st, UpsertRoute(st, u, i).store, i)
    BY <1>o, <1>w DEF UpsertRoute, Ok, Refuse
  <1>2. OnlyItem(st, DeleteRoute(st, u, i).store, i)
    BY <1>o, <1>w DEF DeleteRoute, Ok
  <1>3. OnlyItem(st, [st EXCEPT !.owner[i] = u, !.trip[i] = "ACTIVE"], i)
    <2>1. PICK st1 : st1 = [st EXCEPT !.owner[i] = u, !.trip[i] = "ACTIVE"]
      OBVIOUS
    <2>2. st1 = [owner |-> [st.owner EXCEPT ![i] = u], trip |-> [st.trip EXCEPT ![i] = "ACTIVE"],
                 points |-> st.points, measured |-> st.measured]
      BY <2>1, <1>e
    <2>3. /\ st1.owner = [st.owner EXCEPT ![i] = u] /\ st1.trip = [st.trip EXCEPT ![i] = "ACTIVE"]
          /\ st1.points = st.points
      BY <2>2
    <2> QED  BY <2>1, <2>3, <1>s DEF OnlyItem
  <1>4. OnlyItem(st, [st EXCEPT !.points[i] = @ \cup {o}], i)
    BY <1>s DEF OnlyItem, Store
  <1>5. OnlyItem(st, [st EXCEPT !.trip[i] = Ending(k)], i)
    BY <1>s DEF OnlyItem, Store
  <1>6. OnlyItem(st, TripWritten(st, u, k, i, o), i)
    BY <1>3, <1>4, <1>5 DEF TripWritten
  <1>7. /\ Measure(st, i).owner = st.owner /\ Measure(st, i).trip = st.trip
        /\ Measure(st, i).points = st.points
    BY DEF Measure, Store
  <1> QED  BY <1>1, <1>2, <1>6, <1>7

(* What is known of operation o, the first to do of request s.             *)
LEMMA AtHand ==
  ASSUME SystemTypeOK, Backed, QueueAgrees, InQueue, OwnSession, StoreAgrees,
         NEW s \in Slot, NEW o \in Op, o \in req[s].todo, req[s].phase # "free",
         NEW u, NEW k, NEW i, u = req[s].user, k = payload[o].kind, i = payload[o].item
  PROVE  /\ u \in Owner /\ u # NoAccount /\ k \in Kind /\ i \in Op
         /\ row[o].status # "NONE" /\ payload[o] = [kind |-> k, item |-> i]
         /\ k \notin RouteKind => OfTrip(store, applied, u, k, i, o)
  <1>t. /\ store \in Store /\ applied \in SUBSET Op /\ payload \in [Op -> Payload]
        /\ req[s].user \in Owner
    BY DEF SystemTypeOK, ServerTypeOK, Request
  <1>u. row[o].status # "NONE" /\ row[o].owner = u /\ u # NoAccount
    BY SyncTypesAssumption DEF InQueue, OwnSession, Backed, HasUser
  <1>p. payload[o] = [kind |-> k, item |-> i] /\ k \in Kind /\ i \in Op
    BY <1>t DEF Payload
  <1>i. /\ row[i].owner = u /\ (k \in Creation => o = i) /\ payload[i].kind \in Creation
        /\ k \in RouteKind <=> payload[i].kind = "route:UPSERT"
    BY <1>u DEF QueueAgrees, TableAgrees, ItemAgrees
  <1>1. ASSUME k \notin RouteKind PROVE OfTrip(store, applied, u, k, i, o)
    <2>1. payload[i].kind = "trip:CREATE"
      BY <1>1, <1>i DEF Creation
    <2>2. k \in {"trip:CREATE", "points:CREATE", "trip:FINISH", "trip:CANCEL"}
      BY <1>1, <1>p DEF Kind, RouteKind
    <2>3. k = "trip:CREATE" => o = i
      BY <1>i DEF Creation
    <2> QED  BY <2>1, <2>2, <2>3, <1>t, <1>u, <1>p, <1>i DEF OfTrip, StoreAgrees, StoreAgreesOn
  <1> QED  BY <1>t, <1>u, <1>p, <1>1

(* Each statement of a handler, for the account its operation belongs to.  *)
LEMMA StatementAgrees ==
  ASSUME SystemTypeOK, Backed, QueueAgrees, InQueue, OwnSession, StoreAgrees, WritesFound, EndsOnce,
         NEW s \in Slot, NEW o \in Op, UNCHANGED <<row, payload>>,
         Dispatch(s, o) \/ LookUpTrip(s, o) \/ WriteTrip(s, o) \/ MeasureTrip(s, o)
  PROVE  StoreAgrees'
  <1>o. o \in req[s].todo /\ req[s].phase # "free"
    BY DEF Dispatch, LookUpTrip, WriteTrip, MeasureTrip, AtOperation, InHandler, In, IsFirst
  <1>0. PICK u, k, i : u = req[s].user /\ k = payload[o].kind /\ i = payload[o].item
    OBVIOUS
  <1>h. /\ u \in Owner /\ u # NoAccount /\ k \in Kind /\ i \in Op
        /\ row[o].status # "NONE" /\ payload[o] = [kind |-> k, item |-> i]
        /\ k \notin RouteKind => OfTrip(store, applied, u, k, i, o)
    BY <1>0, <1>o, AtHand
  <1>t. store \in Store
    BY DEF SystemTypeOK, ServerTypeOK
  <1>k. ASSUME UNCHANGED <<store, applied>> PROVE StoreAgrees'
    <2>1. RowsKept
      BY DEF RowsKept
    <2> QED  BY <1>k, <2>1, StoreKept
  <1>1. CASE Dispatch(s, o)
    <2>1. PICK h : h = Handled(u, o) /\ store' = h.store
                   /\ applied' = IF h.code = "OK" THEN applied \cup {o} ELSE applied
      BY <1>1, <1>0 DEF Dispatch
    <2>2. CASE o \in Invalid
      <3>1. h.store = store /\ h.code # "OK"
        BY <2>1, <2>2 DEF Handled, Refuse
      <3> QED  BY <3>1, <2>1, <1>k
    <2>3. CASE o \notin Invalid
      <3>1. k \in RouteKind /\ (h = UpsertRoute(store, u, i) \/ h = DeleteRoute(store, u, i))
        BY <1>1, <2>1, <2>3, <1>0 DEF Dispatch, Handled
      <3>2. OnlyItem(store, h.store, i)
        BY <3>1, <1>h, <1>t, StatementKeeps
      <3>3. CASE h.code = "OK"
        BY <3>1, <3>2, <3>3, <2>1, <1>0, <1>h, OneMoreApplied
      <3>4. CASE h.code # "OK"
        <4>1. h.store = store
          BY <3>1, <3>4 DEF UpsertRoute, DeleteRoute, Ok, Refuse
        <4> QED  BY <4>1, <3>4, <2>1, <1>k
      <3> QED  BY <3>3, <3>4
    <2> QED  BY <2>2, <2>3
  <1>2. CASE LookUpTrip(s, o)
    <2>1. /\ store' = store /\ k \notin RouteKind
          /\ applied' = IF Finds(store, u, k, i) = "OK" THEN applied \cup {o} ELSE applied
      BY <1>2, <1>0 DEF LookUpTrip
    <2>2. CASE Finds(store, u, k, i) # "OK"
      BY <2>1, <2>2, <1>k
    <2>3. CASE Finds(store, u, k, i) = "OK"
      <3>1. TripAgrees(store, applied \cup {o}, i) /\ i \in applied
        BY <2>1, <2>3, <1>h, TripFound
      <3>2. OnlyItem(store, store', i)
        BY <2>1 DEF OnlyItem
      <3> QED  BY <2>1, <2>3, <3>1, <3>2, <1>0, <1>h, OneMoreApplied
    <2> QED  BY <2>2, <2>3
  <1>3. CASE WriteTrip(s, o)
    <2>1. /\ store' = TripWritten(store, u, k, i, o) /\ applied' = applied \cup {o}
          /\ k = "trip:CREATE" => store.owner[i] = NoAccount
          /\ InHandler(s, {"writing"}, o)
      BY <1>3, <1>0 DEF WriteTrip
    <2>2. k \notin RouteKind /\ (k # "trip:CREATE" => i \in applied)
      BY <2>1, <1>0 DEF WritesFound, WriteFound
    <2>3. OfTrip(store, applied, u, k, i, o)
      BY <2>2, <1>h
    <2>4. k = "trip:CREATE" => i \notin applied
      BY <2>1, <2>3, AppliedMore
    <2>5. ASSUME k = "trip:CANCEL" PROVE AppliedOf(applied, "trip:FINISH", i) = {}
      <3> SUFFICES ASSUME NEW p \in applied, payload[p] = [kind |-> "trip:FINISH", item |-> i]
                   PROVE  FALSE
        BY DEF AppliedOf
      <3>1. p \in Op /\ row[p].status # "NONE"
        BY DEF StoreAgrees, StoreAgreesOn, SystemTypeOK, ServerTypeOK
      <3>2. payload[p].kind = "trip:FINISH" /\ payload[p].item = i
        OBVIOUS
      <3>3. EndOf(p, i) /\ EndOf(o, i)
        BY <3>1, <3>2, <2>5, <1>0, <1>h DEF EndOf, Ends
      <3>4. p = o
        BY <3>1, <3>3, <1>h DEF EndsOnce
      <3> QED  BY <3>2, <3>4, <2>5, <1>0
    <2>6. TripAgrees(TripWritten(store, u, k, i, o), applied \cup {o}, i) /\ i \in applied \cup {o}
      BY <2>2, <2>3, <2>4, <2>5, TripIsWritten
    <2>7. OnlyItem(store, store', i)
      BY <2>1, <1>h, <1>t, StatementKeeps
    <2> QED  BY <2>1, <2>6, <2>7, <1>0, <1>h, OneMoreApplied
  <1>4. CASE MeasureTrip(s, o)
    <2>1. store' = Measure(store, i) /\ applied' = applied
      BY <1>4, <1>0 DEF MeasureTrip
    <2>2. store'.owner = store.owner /\ store'.trip = store.trip /\ store'.points = store.points
      BY <2>1, <1>h, <1>t, StatementKeeps
    <2> QED  BY <2>1, <2>2 DEF StoreAgrees, StoreAgreesOn, TripAgrees, AppliedOf
  <1> QED  BY <1>1, <1>2, <1>3, <1>4

(* A statement of the handler of operation o.                              *)
Statement(s, o) == Dispatch(s, o) \/ LookUpTrip(s, o) \/ WriteTrip(s, o) \/ MeasureTrip(s, o)

(* Only statements of handlers touch the rows of the server.               *)
LEMMA OnlyStatementsStore ==
  ASSUME Next
  PROVE  \/ UNCHANGED <<store, applied>>
         \/ \E s \in Slot : \E o \in Op : Statement(s, o) /\ UNCHANGED <<row, payload>>
  <1>1. CASE \/ \E o \in Op, k \in Kind : Create(o, k)
             \/ \E o, i \in Op : DeleteLocalRoute(o, i)
             \/ \E i \in Op : RecordFix(i)
             \/ \E o, i \in Op, k \in Kind : CloseTrip(o, i, k)
             \/ QueuePendingPoints
             \/ \E a \in Owner : Login(a)
             \/ UserRetries
             \/ \E o \in Op : ClockTicks(o)
             \/ StartRound \/ ContinueRound \/ KillApp
             \/ \E s \in Slot : GatewayTimeout(s)
    <2>1. ServerIdle
      BY <1>1 DEF Create, DeleteLocalRoute, RecordFix, CloseTrip, QueuePendingPoints, Login,
                  UserRetries, ClockTicks, StartRound, ContinueRound, KillApp, GatewayTimeout
    <2> QED  BY <2>1 DEF ServerIdle, serverVars
  <1>2. CASE \E s \in Slot : \/ SendRequest(s) \/ Deliver(s) \/ Discard(s) \/ GiveUp(s)
                             \/ ServerCrash(s) \/ Fail(s)
    BY <1>2 DEF SendRequest, Arrive, Deliver, Discard, Leave, GiveUp, ServerCrash, CrashServing, Fail,
                ServerFault, Outage, DispatchFails, RecordFails
  <1>3. ASSUME NEW s \in Slot, Work(s)
        PROVE  \/ UNCHANGED <<store, applied>>
               \/ \E o \in Op : Statement(s, o) /\ UNCHANGED <<row, payload>>
    BY <1>3 DEF Work, Serve, RefuseRequest, AcceptRequest, Reply, ReportDuplicate, RecordEvent,
                CreationClashes, queueVars, Statement
  <1> QED  BY <1>1, <1>2, <1>3 DEF Next

(* How a request comes to write and to measure, and how it goes on.        *)
RequestGoesOn(s) ==
  /\ In(s, "writing")' => req'[s] = req[s] \/ \E o \in Op : LookUpTrip(s, o)
  /\ In(s, "measuring")' => req'[s] = req[s] \/ \E o \in Op : WriteTrip(s, o)
  /\ In(s, "measuring") =>
       \/ req'[s] = req[s] \/ CrashServing(s)
       \/ \E o \in Op : MeasureTrip(s, o) \/ DispatchFails(s, o)

LEMMA ServerGoesOn ==
  ASSUME ServerTypeOK, NEW s \in Slot, NEW t \in Slot,
         Serve(s) \/ ServerFault(s) \/ CrashServing(s) \/ Leave(s) \/ (Drop(s) /\ In(s, "sent"))
  PROVE  RequestGoesOn(t)
  <1>q. req \in [Slot -> Request] /\ req[s] \in Request
    BY DEF ServerTypeOK
  <1>0. ASSUME NEW q, req' = [req EXCEPT ![s] = q], t # s PROVE RequestGoesOn(t)
    BY <1>0, <1>q DEF RequestGoesOn, In
  <1>w. ASSUME NEW q, req' = [req EXCEPT ![s] = q], q.phase \notin {"writing", "measuring"},
               req[s].phase # "measuring"
        PROVE  RequestGoesOn(t)
    BY <1>w, <1>0, <1>q DEF RequestGoesOn, In
  <1>g. ASSUME NEW p, Goto(s, p)
        PROVE  \E q : req' = [req EXCEPT ![s] = q] /\ q.phase = p
    <2>1. [req[s] EXCEPT !.phase = p].phase = p
      BY <1>q DEF Request
    <2>2. req' = [req EXCEPT ![s] = [req[s] EXCEPT !.phase = p]]
      BY <1>g, <1>q DEF Goto
    <2> QED  BY <2>1, <2>2
  <1>d. ASSUME Drop(s) PROVE \E q : req' = [req EXCEPT ![s] = q] /\ q.phase = "free"
    <2>1. Free.phase = "free"
      BY DEF Free
    <2> QED  BY <2>1, <1>d DEF Drop
  <1>p. ASSUME NEW o, NEW r, Settle(s, o, r)
        PROVE  \E q : req' = [req EXCEPT ![s] = q] /\ q.phase = "serving"
    <2>1. Processed(req[s], o, r).phase = "serving"
      BY <1>q DEF Processed, Request
    <2>2. req' = [req EXCEPT ![s] = Processed(req[s], o, r)]
      BY <1>p, <1>q DEF Settle
    <2> QED  BY <2>1, <2>2
  <1>1. CASE RefuseRequest(s) \/ Reply(s) \/ Outage(s)
    <2>1. req[s].phase \in {"sent", "serving"} /\ \E p \in {"refused", "replied", "unavailable"} : Goto(s, p)
      BY <1>1 DEF RefuseRequest, Reply, Outage, In
    <2> QED  BY <2>1, <1>g, <1>w
  <1>2. CASE AcceptRequest(s)
    <2>1. Accepted(req[s]).phase = "serving" /\ req[s].phase = "sent"
      BY <1>2, <1>q DEF Accepted, Request, AcceptRequest, In
    <2> QED  BY <2>1, <1>2, <1>w, <1>q DEF AcceptRequest
  <1>3. CASE Leave(s) \/ (Drop(s) /\ In(s, "sent"))
    <2>1. Drop(s) /\ req[s].phase # "measuring"
      BY <1>3 DEF Leave, In
    <2> QED  BY <2>1, <1>d, <1>w
  <1>4. CASE CrashServing(s)
    <2>1. Drop(s)
      BY <1>4 DEF CrashServing
    <2>2. PICK q : req' = [req EXCEPT ![s] = q] /\ q.phase = "free"
      BY <2>1, <1>d
    <2> QED  BY <2>2, <1>4, <1>0, <1>q DEF RequestGoesOn, In
  <1>5. ASSUME NEW o \in Op, ReportDuplicate(s, o) \/ RecordEvent(s, o) \/ RecordFails(s, o)
                             \/ CreationClashes(s, o)
        PROVE  RequestGoesOn(t)
    <2>1. req[s].phase # "measuring"
      BY <1>5 DEF ReportDuplicate, RecordEvent, RecordFails, CreationClashes, AtOperation, InHandler, In
    <2>2. Goto(s, "unavailable") \/ \E r : Settle(s, o, r)
      BY <1>5 DEF ReportDuplicate, RecordEvent, RecordFails, CreationClashes
    <2> QED  BY <2>1, <2>2, <1>g, <1>p, <1>w
  <1>6. ASSUME NEW o \in Op, Dispatch(s, o) PROVE RequestGoesOn(t)
    <2>1. \A c : Dispatched(req[s], c).phase = "recording"
      BY <1>q DEF Dispatched, Request
    <2>2. req[s].phase = "serving" /\ \E c : req' = [req EXCEPT ![s] = Dispatched(req[s], c)]
      BY <1>6, <1>q DEF Dispatch, AtOperation, In
    <2> QED  BY <2>1, <2>2, <1>w
  <1>7. ASSUME NEW o \in Op, LookUpTrip(s, o) PROVE RequestGoesOn(t)
    <2>1. \A v, x : LookedUp(req[s], v, x).phase \in {"writing", "recording"}
      BY <1>q DEF LookedUp, Dispatched, Request
    <2>2. req[s].phase = "serving" /\ \E v, x : req' = [req EXCEPT ![s] = LookedUp(req[s], v, x)]
      BY <1>7, <1>q DEF LookUpTrip, AtOperation, In
    <2> QED  BY <2>1, <2>2, <1>7, <1>0, <1>q DEF RequestGoesOn, In
  <1>8. ASSUME NEW o \in Op, WriteTrip(s, o) \/ MeasureTrip(s, o) \/ DispatchFails(s, o)
        PROVE  RequestGoesOn(t)
    <2>1. CASE WriteTrip(s, o)
      <3>1. req[s].phase = "writing" /\ \E p \in {"measuring", "recording"} : Goto(s, p)
        BY <2>1 DEF WriteTrip, InHandler
      <3> QED  BY <3>1, <2>1, <1>g, <1>0, <1>q DEF RequestGoesOn, In
    <2>2. CASE MeasureTrip(s, o)
      <3>1. Goto(s, "recording")
        BY <2>2 DEF MeasureTrip
      <3> QED  BY <3>1, <2>2, <1>g, <1>0, <1>q DEF RequestGoesOn, In
    <2>3. CASE DispatchFails(s, o)
      <3>1. Settle(s, o, "TRANSIENT")
        BY <2>3 DEF DispatchFails
      <3> QED  BY <3>1, <2>3, <1>p, <1>0, <1>q DEF RequestGoesOn, In
    <2> QED  BY <1>8, <2>1, <2>2, <2>3
  <1> QED  BY <1>1, <1>2, <1>3, <1>4, <1>5, <1>6, <1>7, <1>8 DEF Serve, ServerFault

LEMMA StepGoesOn ==
  ASSUME SystemTypeOK, Next, NEW t \in Slot
  PROVE  RequestGoesOn(t)
  <1>t. ServerTypeOK /\ req \in [Slot -> Request]
    BY DEF SystemTypeOK, ServerTypeOK
  <1>0. ASSUME UNCHANGED req PROVE RequestGoesOn(t)
    BY <1>0 DEF RequestGoesOn
  <1>1. CASE \/ \E o \in Op, k \in Kind : Create(o, k)
             \/ \E o, i \in Op : DeleteLocalRoute(o, i)
             \/ \E i \in Op : RecordFix(i)
             \/ \E o, i \in Op, k \in Kind : CloseTrip(o, i, k)
             \/ QueuePendingPoints
             \/ \E a \in Owner : Login(a)
             \/ UserRetries
             \/ \E o \in Op : ClockTicks(o)
             \/ StartRound \/ ContinueRound \/ KillApp
             \/ \E s \in Slot : GatewayTimeout(s)
    <2>1. ServerIdle
      BY <1>1 DEF Create, DeleteLocalRoute, RecordFix, CloseTrip, QueuePendingPoints, Login,
                  UserRetries, ClockTicks, StartRound, ContinueRound, KillApp, GatewayTimeout
    <2> QED  BY <2>1, <1>0 DEF ServerIdle, serverVars
  <1>2. ASSUME NEW s \in Slot, SendRequest(s) PROVE RequestGoesOn(t)
    <2> DEFINE q == [Free EXCEPT !.phase = "sent", !.user = session, !.todo = batch]
    <2>1. req' = [req EXCEPT ![s] = q] /\ req[s].phase = "free"
      BY <1>2 DEF SendRequest, Arrive, In
    <2>2. q.phase = "sent"
      BY DEF Free
    <2> HIDE DEF q
    <2> QED  BY <2>1, <2>2, <1>t DEF RequestGoesOn, In
  <1>3. ASSUME NEW s \in Slot,
               Deliver(s) \/ Discard(s) \/ GiveUp(s) \/ ServerCrash(s) \/ Work(s) \/ Fail(s)
        PROVE  RequestGoesOn(t)
    <2>1. \/ UNCHANGED req
          \/ Serve(s) \/ ServerFault(s) \/ CrashServing(s) \/ Leave(s) \/ (Drop(s) /\ In(s, "sent"))
      BY <1>3 DEF Deliver, Discard, GiveUp, ServerCrash, Work, Fail
    <2> QED  BY <2>1, <1>0, <1>t, ServerGoesOn
  <1> QED  BY <1>1, <1>2, <1>3 DEF Next

(* The inductive invariant of the two ends together.                       *)
Agreed ==
  /\ Backed /\ Orderly /\ InQueue /\ QueueAgrees /\ EndsOnce
  /\ StoreAgrees /\ WritesFound

LEMMA StepFindsWrites ==
  ASSUME Agreed, OwnSession, Next, RowsKept
  PROVE  WritesFound'
  <1>t. /\ SystemTypeOK /\ Backed /\ QueueAgrees /\ InQueue /\ StoreAgrees /\ WritesFound
        /\ req \in [Slot -> Request]
    BY DEF Agreed, Backed, SystemTypeOK, ServerTypeOK
  <1>a. applied \subseteq applied'
    <2>1. applied' = applied \/ \E o : applied' = applied \cup {o}
      BY <1>t, ServerMoves
    <2> QED  BY <2>1
  <1> SUFFICES ASSUME NEW s \in Slot, NEW o \in Op, InHandler(s, {"writing"}, o)'
               PROVE  WriteFound(o)'
    BY DEF WritesFound
  <1>1. CASE req'[s] = req[s]
    <2>1. InHandler(s, {"writing"}, o) /\ o \in req[s].todo
      BY <1>1 DEF InHandler, IsFirst
    <2>2. payload'[o] = payload[o]
      BY <2>1, <1>t DEF InQueue, RowsKept
    <2> QED  BY <2>1, <2>2, <1>t, <1>a DEF WritesFound, WriteFound
  <1>2. ASSUME NEW p \in Op, LookUpTrip(s, p) PROVE WriteFound(o)'
    <2>0. PICK u, k, i : u = req[s].user /\ k = payload[p].kind /\ i = payload[p].item
      OBVIOUS
    <2>1. /\ p \in req[s].todo /\ IsFirst(p, req[s].todo) /\ req[s].phase # "free"
          /\ p \notin Invalid /\ k \notin RouteKind
          /\ req' = [req EXCEPT ![s] = LookedUp(req[s], Finds(store, u, k, i), store.trip[i])]
      BY <1>2, <2>0, <1>t DEF LookUpTrip, AtOperation, In, IsFirst
    <2>2. OfTrip(store, applied, u, k, i, p) /\ row[p].status # "NONE"
      BY <2>0, <2>1, <1>t, AtHand
    <2>3. req[s] \in Request /\ req'[s] = LookedUp(req[s], Finds(store, u, k, i), store.trip[i])
      BY <2>1, <1>t
    <2>4. req'[s].phase = "writing" /\ IsFirst(o, req'[s].todo)
      BY DEF InHandler
    <2>5. Finds(store, u, k, i) = "WRITE" /\ req'[s].todo = req[s].todo
      BY <2>3, <2>4 DEF LookedUp, Dispatched, Request
    <2>6. o = p
      BY <2>1, <2>3, <2>4, <2>5, OneFirst
    <2>7. k # "trip:CREATE" => i \in applied
      <3>1. k # "trip:CREATE" => store.owner[i] = u
        BY <2>2, <2>5 DEF OfTrip, Finds, RecordFinds, EndFinds
      <3>2. PICK B : B = applied \cup {p}
        OBVIOUS
      <3>3. store.owner[i] = u <=> i \in applied
        BY <3>2, <2>2, AppliedMore
      <3> QED  BY <3>1, <3>3
    <2>8. payload'[p] = payload[p]
      BY <2>2 DEF RowsKept
    <2> QED  BY <2>0, <2>1, <2>6, <2>7, <2>8, <1>a DEF WriteFound
  <1>3. RequestGoesOn(s)
    BY <1>t, StepGoesOn
  <1> QED  BY <1>1, <1>2, <1>3 DEF RequestGoesOn, InHandler, In

LEMMA AgreedImpliesConverged == Agreed => TripConverged
  <1> SUFFICES ASSUME Agreed, NEW i \in Inserted, payload[i].kind = "trip:CREATE", AllCompleted(i)
               PROVE  /\ store.owner[i] = row[i].owner
                      /\ store.trip[i] = IF IsQueued("trip:FINISH", i) THEN "COMPLETED"
                                         ELSE IF IsQueued("trip:CANCEL", i) THEN "CANCELLED" ELSE "ACTIVE"
                      /\ store.points[i] = {o \in About(i) : payload[o].kind = "points:CREATE"}
    BY DEF TripConverged
  <1>t. payload \in [Op -> Payload] /\ applied \subseteq Op /\ i \in Op /\ row[i].status # "NONE"
    BY DEF Agreed, Backed, SystemTypeOK, ServerTypeOK, Inserted
  <1>1. \A o \in About(i) : o \in applied
    BY DEF Agreed, Backed, CompletedWasApplied, AllCompleted, About, Inserted
  <1>2. \A o \in applied : o \in Inserted
    BY <1>t DEF Agreed, StoreAgrees, StoreAgreesOn, Inserted
  <1>3. i \in applied
    <2>1. payload[i].item = i
      BY <1>t DEF Agreed, QueueAgrees, TableAgrees, ItemAgrees, Creation
    <2> QED  BY <2>1, <1>1, <1>t DEF About
  <1>4. TripAgrees(store, applied, i)
    BY <1>t DEF Agreed, StoreAgrees, StoreAgreesOn
  <1>5. ASSUME NEW k \in Kind
        PROVE  AppliedOf(applied, k, i) = {o \in About(i) : payload[o].kind = k}
    <2>1. \A o \in Op : payload[o] = [kind |-> k, item |-> i] <=> payload[o].item = i /\ payload[o].kind = k
      BY <1>t DEF Payload
    <2> QED  BY <2>1, <1>1, <1>2, <1>t DEF AppliedOf, About, Inserted
  <1>6. ASSUME NEW k \in Kind
        PROVE  AppliedOf(applied, k, i) # {} <=> IsQueued(k, i)
    <2>1. \A o \in Op : payload[o] = [kind |-> k, item |-> i] <=> payload[o].item = i /\ payload[o].kind = k
      BY <1>t DEF Payload
    <2> QED  BY <2>1, <1>5 DEF IsQueued, About, Inserted
  <1>7. "trip:FINISH" \in Kind /\ "trip:CANCEL" \in Kind /\ "points:CREATE" \in Kind
    BY DEF Kind
  <1>8. /\ AppliedOf(applied, "trip:FINISH", i) # {} <=> IsQueued("trip:FINISH", i)
        /\ AppliedOf(applied, "trip:CANCEL", i) # {} <=> IsQueued("trip:CANCEL", i)
        /\ AppliedOf(applied, "points:CREATE", i) = {o \in About(i) : payload[o].kind = "points:CREATE"}
    BY <1>5, <1>6, <1>7
  <1> QED  BY <1>3, <1>4, <1>8 DEF TripAgrees

LEMMA InitAgrees == Init => Agreed
  <1> SUFFICES ASSUME Init PROVE Agreed
    OBVIOUS
  <1>1. \A o \in Op : row[o].status = "NONE"
    BY DEF Init, QueueInit, NoRow
  <1>2. applied = {} /\ unqueued = {} /\ InQueue /\ WritesFound /\ store = EmptyStore
    BY DEF Init, ServerInit, Free, InQueue, WritesFound, InHandler
  <1>3. QueueAgrees /\ EndsOnce
    BY <1>1, <1>2 DEF QueueAgrees, TableAgrees, UnqueuedAgrees, EndsOnce, EndOf
  <1>4. \A i \in Op : TripAgrees(store, applied, i)
    BY <1>2 DEF TripAgrees, EmptyStore, AppliedOf
  <1> QED  BY <1>2, <1>3, <1>4, InitBacked, InitOrderly DEF Agreed, StoreAgrees, StoreAgreesOn

LEMMA StepAgrees == Agreed /\ OwnSession /\ [Next]_vars => Agreed'
  <1> SUFFICES ASSUME Agreed, OwnSession, [Next]_vars PROVE Agreed'
    OBVIOUS
  <1>t. /\ SystemTypeOK /\ Backed /\ Orderly /\ InQueue /\ QueueAgrees /\ StoreAgrees
        /\ EndsOnce /\ WritesFound /\ done \subseteq applied
    BY DEF Agreed, Backed, SuccessIsBacked
  <1>1. CASE Next
    <2>1. Backed' /\ Orderly' /\ InQueue'
      BY <1>1, <1>t, StepBacked, StepOrderly, StepInQueue
    <2>2. QueueAgrees' /\ RowsKept
      BY <1>1, <1>t, StepKeepsRows
    <2>3. EndsOnce' /\ WritesFound'
      BY <1>1, <1>t, <2>2, StepEndsOnce, StepFindsWrites
    <2>4. StoreAgrees'
      BY <1>1, <1>t, <2>2, OnlyStatementsStore, StoreKept, StatementAgrees DEF Statement
    <2> QED  BY <2>1, <2>2, <2>3, <2>4 DEF Agreed
  <1>2. CASE UNCHANGED vars
    <2>1. Backed' /\ Orderly'
      BY <1>2, <1>t, StepBacked, StepOrderly
    <2>2. UNCHANGED <<row, payload, unqueued, store, applied, req>>
      BY <1>2 DEF vars, queueVars, serverVars
    <2>3. InQueue' /\ QueueAgrees' /\ EndsOnce' /\ WritesFound'
      BY <2>2, <1>t DEF InQueue, QueueAgrees, TableAgrees, UnqueuedAgrees, ItemAgrees, EndsOnce, EndOf,
                        WritesFound, WriteFound, InHandler
    <2>4. RowsKept
      BY <2>2 DEF RowsKept
    <2> QED  BY <2>1, <2>2, <2>3, <2>4, <1>t, StoreKept DEF Agreed
  <1> QED  BY <1>1, <1>2

(* If every request is sent with the session of the account its operations *)
(* belong to, the server ends up with exactly the trips the phone recorded *)
(* and completed: for any number of operations, accounts, overlapping      *)
(* requests, lost answers, crashes on both sides, faults and retries.  The *)
(* hypothesis is what SyncService says of itself and does not keep when a  *)
(* login comes in the middle of a round (run SyncOwnSession): the requests *)
(* of a phone whose user stays logged in satisfy it.                       *)
THEOREM TripsAlwaysConverge == Spec /\ []OwnSession => []TripConverged
  BY InitAgrees, StepAgrees, AgreedImpliesConverged, PTL DEF Spec

-----------------------------------------------------------------------------
(* The distance counts what is stored.                                     *)

(* The inductive invariant: whatever is not counted is about to be, by the *)
(* handler of a request.                                                   *)
MeasuredOrDue(i) ==
  store.trip[i] = "COMPLETED" =>
    \/ store.measured[i] = store.points[i]
    \/ \E s \in Slot, o \in Op : InHandler(s, {"measuring"}, o) /\ payload[o].item = i

DistanceInv == \A i \in Op \ unmeasured : MeasuredOrDue(i)

LEMMA StatementMeasures ==
  ASSUME NEW st \in Store, NEW u \in Owner, NEW i \in Op
  PROVE  /\ \A s1 \in {UpsertRoute(st, u, i).store, DeleteRoute(st, u, i).store} :
              s1.trip = st.trip /\ s1.points = st.points /\ s1.measured = st.measured
         /\ \A j \in Op : Measure(st, i).measured[j] = IF j = i THEN st.points[i] ELSE st.measured[j]
  <1>s. st.measured \in [Op -> SUBSET Op]
    BY DEF Store
  <1>1. \A s1 \in {UpsertRoute(st, u, i).store, DeleteRoute(st, u, i).store} :
          s1.trip = st.trip /\ s1.points = st.points /\ s1.measured = st.measured
    <2>1. ASSUME NEW v, NEW s1, s1 = [st EXCEPT !.owner[i] = v]
          PROVE  s1.trip = st.trip /\ s1.points = st.points /\ s1.measured = st.measured
      BY <2>1 DEF Store
    <2> QED  BY <2>1 DEF UpsertRoute, DeleteRoute, Ok, Refuse
  <1>2. \A j \in Op : Measure(st, i).measured[j] = IF j = i THEN st.points[i] ELSE st.measured[j]
    BY <1>s DEF Measure, Store
  <1> QED  BY <1>1, <1>2

LEMMA WriteMeasuresNot ==
  ASSUME NEW st \in Store, NEW u, NEW k, NEW i, NEW o
  PROVE  TripWritten(st, u, k, i, o).measured = st.measured
  <1>1. ASSUME NEW s1, s1 = [st EXCEPT !.owner[i] = u, !.trip[i] = "ACTIVE"]
        PROVE  s1.measured = st.measured
    <2>1. st = [owner |-> st.owner, trip |-> st.trip, points |-> st.points, measured |-> st.measured]
      BY DEF Store
    <2>2. s1 = [owner |-> [st.owner EXCEPT ![i] = u], trip |-> [st.trip EXCEPT ![i] = "ACTIVE"],
                points |-> st.points, measured |-> st.measured]
      BY <1>1, <2>1
    <2> QED  BY <2>2
  <1>2. [st EXCEPT !.points[i] = @ \cup {o}].measured = st.measured
    BY DEF Store
  <1>3. [st EXCEPT !.trip[i] = Ending(k)].measured = st.measured
    BY DEF Store
  <1> QED  BY <1>1, <1>2, <1>3 DEF TripWritten

(* Besides the write and the measuring of trip j itself, a step leaves its *)
(* status, its fixes and its distance alone.                               *)
LEMMA DistanceOfStep ==
  ASSUME SystemTypeOK, Orderly, QueueAgrees, InQueue, Next, NEW j \in Op
  PROVE  \/ \E s \in Slot, o \in Op : /\ WriteTrip(s, o) \/ MeasureTrip(s, o)
                                      /\ payload[o].item = j /\ UNCHANGED payload
         \/ /\ store'.trip[j] = store.trip[j] /\ store'.points[j] = store.points[j]
            /\ store'.measured[j] = store.measured[j] /\ (j \in unmeasured => j \in unmeasured')
  <1>t. /\ store \in Store /\ payload \in [Op -> Payload]
        /\ \A s \in Slot : req[s].user \in Owner
    BY DEF SystemTypeOK, ServerTypeOK, Request
  <1>1. CASE \E s \in Slot : \E o \in Op : Statement(s, o) /\ UNCHANGED <<row, payload>>
    <2>1. PICK s \in Slot, o \in Op : Statement(s, o) /\ UNCHANGED <<row, payload>>
      BY <1>1
    <2> DEFINE u == req[s].user
               k == payload[o].kind
               i == payload[o].item
    <2>2. u \in Owner /\ i \in Op
      BY <1>t DEF Payload
    <2>3. CASE Dispatch(s, o)
      <3>1. store' = Handled(u, o).store /\ unmeasured' = unmeasured
        BY <2>3 DEF Dispatch
      <3>2. Handled(u, o).store \in {store, UpsertRoute(store, u, i).store, DeleteRoute(store, u, i).store}
        BY DEF Handled, Refuse
      <3>3. \A s1 \in {UpsertRoute(store, u, i).store, DeleteRoute(store, u, i).store} :
              s1.trip = store.trip /\ s1.points = store.points /\ s1.measured = store.measured
        BY <2>2, <1>t, StatementMeasures, Zenon
      <3> QED  BY <3>1, <3>2, <3>3
    <2>4. CASE LookUpTrip(s, o)
      BY <2>4 DEF LookUpTrip
    <2>5. CASE i = j /\ (WriteTrip(s, o) \/ MeasureTrip(s, o))
      BY <2>1, <2>2, <2>5
    <2>6. CASE i # j /\ WriteTrip(s, o)
      <3>1. store' = TripWritten(store, u, k, i, o) /\ unmeasured \subseteq unmeasured'
        BY <2>6 DEF WriteTrip
      <3>2. OnlyItem(store, TripWritten(store, u, k, i, o), i)
        BY <2>2, <1>t, StatementKeeps
      <3>3. TripWritten(store, u, k, i, o).measured = store.measured
        BY <1>t, WriteMeasuresNot
      <3> QED  BY <3>1, <3>2, <3>3, <2>6 DEF OnlyItem
    <2>7. CASE i # j /\ MeasureTrip(s, o)
      <3>1. store' = Measure(store, i) /\ unmeasured' = unmeasured \ {i}
        BY <2>7 DEF MeasureTrip
      <3>2. store'.trip = store.trip /\ store'.points = store.points
        BY <3>1, <1>t DEF Measure, Store
      <3>3. store'.measured[j] = store.measured[j]
        BY <3>1, <2>2, <2>7, <1>t, StatementMeasures
      <3> QED  BY <3>1, <3>2, <3>3, <2>7
    <2> QED  BY <2>1, <2>3, <2>4, <2>5, <2>6, <2>7 DEF Statement
  <1>2. CASE ~ \E s \in Slot : \E o \in Op : Statement(s, o) /\ UNCHANGED <<row, payload>>
    <2>1. UNCHANGED store
      BY <1>2, OnlyStatementsStore
    <2>2. unmeasured \subseteq unmeasured'
      <3>1. CASE \/ \E o \in Op, k \in Kind : Create(o, k)
                 \/ \E o, i \in Op : DeleteLocalRoute(o, i)
                 \/ \E i \in Op : RecordFix(i)
                 \/ \E o, i \in Op, k \in Kind : CloseTrip(o, i, k)
                 \/ QueuePendingPoints
                 \/ \E a \in Owner : Login(a)
                 \/ UserRetries
                 \/ \E o \in Op : ClockTicks(o)
                 \/ StartRound \/ ContinueRound \/ KillApp
                 \/ \E s \in Slot : GatewayTimeout(s)
        <4>1. ServerIdle
          BY <3>1 DEF Create, DeleteLocalRoute, RecordFix, CloseTrip, QueuePendingPoints, Login,
                      UserRetries, ClockTicks, StartRound, ContinueRound, KillApp, GatewayTimeout
        <4> QED  BY <4>1 DEF ServerIdle, serverVars
      <3>2. CASE \E s \in Slot : SendRequest(s) \/ Deliver(s) \/ Discard(s) \/ GiveUp(s) \/ ServerCrash(s)
        BY <3>2 DEF SendRequest, Arrive, Deliver, Discard, Leave, GiveUp, ServerCrash, CrashServing
      <3>3. ASSUME NEW s \in Slot, Fail(s) PROVE unmeasured \subseteq unmeasured'
        BY <3>3 DEF Fail, ServerFault, Outage, DispatchFails, RecordFails
      <3>4. ASSUME NEW s \in Slot, Work(s) PROVE unmeasured \subseteq unmeasured'
        BY <3>4, <1>2 DEF Work, Serve, RefuseRequest, AcceptRequest, Reply, ReportDuplicate, RecordEvent,
                          CreationClashes, queueVars, Statement
      <3> QED  BY <3>1, <3>2, <3>3, <3>4 DEF Next
    <2> QED  BY <2>1, <2>2
  <1> QED  BY <1>1, <1>2

LEMMA StepMeasures ==
  ASSUME SystemTypeOK, Orderly, QueueAgrees, InQueue, RowsKept, DistanceInv, Next
  PROVE  DistanceInv'
  <1>t. /\ store \in Store /\ payload \in [Op -> Payload] /\ req \in [Slot -> Request]
        /\ \A s \in Slot : req[s].user \in Owner
    BY DEF SystemTypeOK, ServerTypeOK, Request
  <1> SUFFICES ASSUME NEW j \in Op \ unmeasured', store'.trip[j] = "COMPLETED"
               PROVE  \/ store'.measured[j] = store'.points[j]
                      \/ \E s \in Slot, o \in Op : InHandler(s, {"measuring"}, o)' /\ payload'[o].item = j
    BY DEF DistanceInv, MeasuredOrDue
  <1> DEFINE Done == \/ store'.measured[j] = store'.points[j]
                     \/ \E s \in Slot, o \in Op : InHandler(s, {"measuring"}, o)' /\ payload'[o].item = j
  (* A handler that was about to measure j still is, or has. *)
  <1>1. ASSUME NEW s \in Slot, NEW o \in Op, InHandler(s, {"measuring"}, o), payload[o].item = j
        PROVE  Done
    <2>1. o \in req[s].todo /\ req[s].phase = "measuring" /\ IsFirst(o, req[s].todo)
      BY <1>1 DEF InHandler, IsFirst
    <2>2. payload'[o] = payload[o]
      BY <2>1 DEF InQueue, RowsKept
    <2>3. CASE req'[s] = req[s]
      BY <2>2, <2>3, <1>1 DEF InHandler
    <2>4. CASE CrashServing(s) \/ \E p \in Op : DispatchFails(s, p)
      <3>1. j \in Abandoned(s)
        BY <1>1 DEF Abandoned
      <3>2. Abandoned(s) \subseteq unmeasured'
        BY <2>4 DEF CrashServing, DispatchFails
      <3> QED  BY <3>1, <3>2
    <2>5. ASSUME NEW p \in Op, MeasureTrip(s, p) PROVE Done
      <3>1. IsFirst(p, req[s].todo) /\ store' = Measure(store, payload[p].item)
        BY <2>5 DEF MeasureTrip, InHandler
      <3>2. p = o
        BY <3>1, <2>1, <1>t, OneFirst
      <3>3. store' = Measure(store, j)
        BY <3>1, <3>2, <1>1
      <3>4. store'.points[j] = store.points[j] /\ store'.measured[j] = store.points[j]
        BY <3>3, <1>t, StatementKeeps, StatementMeasures
      <3> QED  BY <3>4
    <2>6. RequestGoesOn(s)
      BY StepGoesOn
    <2> QED  BY <2>1, <2>3, <2>4, <2>5, <2>6 DEF RequestGoesOn, In
  <1>2. ASSUME NEW s \in Slot, NEW o \in Op, MeasureTrip(s, o), payload[o].item = j PROVE Done
    BY <1>1, <1>2 DEF MeasureTrip
  <1>3. ASSUME NEW s \in Slot, NEW o \in Op, WriteTrip(s, o), payload[o].item = j, UNCHANGED payload
        PROVE  Done
    <2>0. PICK u \in Owner, k \in {payload[o].kind} : u = req[s].user /\ k = payload[o].kind
      BY <1>t
    <2>1. /\ InHandler(s, {"writing"}, o) /\ store' = TripWritten(store, u, k, j, o)
          /\ unmeasured' = IF Overtaken(s, o) THEN unmeasured \cup {j} ELSE unmeasured
          /\ Goto(s, IF MeasureDue(store, req[s].found, k, j, o) THEN "measuring" ELSE "recording")
      BY <1>3, <2>0 DEF WriteTrip
    <2>2. CASE MeasureDue(store, req[s].found, k, j, o)
      <3>1. Goto(s, "measuring")
        BY <2>1, <2>2
      <3>2. req'[s].phase = "measuring" /\ req'[s].todo = req[s].todo
        BY <3>1, <1>t DEF Goto, Request
      <3> QED  BY <2>1, <3>2, <1>3 DEF InHandler
    <2>3. CASE ~MeasureDue(store, req[s].found, k, j, o)
      <3>1. store'.measured = store.measured
        <4>1. TripWritten(store, u, k, j, o).measured = store.measured
          BY <1>t, WriteMeasuresNot
        <4> QED  BY <2>1, <4>1
      <3>2. CASE k = "points:CREATE"
        <4>1. /\ store'.trip[j] = store.trip[j] /\ store'.points[j] = store.points[j] \cup {o}
          BY <2>1, <3>2, <1>t DEF TripWritten, Store
        <4>2. o \in store.points[j]
          BY <1>3, <2>0, <2>1, <2>3, <3>2, <4>1 DEF MeasureDue, Overtaken
        <4>3. MeasuredOrDue(j)
          BY <2>1 DEF DistanceInv
        <4>4. store'.points[j] = store.points[j] /\ store'.measured[j] = store.measured[j]
          BY <4>1, <4>2, <3>1
        <4> QED  BY <4>1, <4>3, <4>4, <1>1 DEF MeasuredOrDue
      <3>3. CASE k = "trip:CREATE"
        <4>1. PICK st1 : st1 = [store EXCEPT !.owner[j] = u, !.trip[j] = "ACTIVE"] /\ store' = st1
          BY <2>1, <3>3 DEF TripWritten
        <4>2. store = [owner |-> store.owner, trip |-> store.trip, points |-> store.points,
                       measured |-> store.measured]
          BY <1>t DEF Store
        <4>3. st1.trip = [store.trip EXCEPT ![j] = "ACTIVE"]
          <5>1. st1 = [owner |-> [store.owner EXCEPT ![j] = u], trip |-> [store.trip EXCEPT ![j] = "ACTIVE"],
                       points |-> store.points, measured |-> store.measured]
            BY <4>1, <4>2
          <5> QED  BY <5>1
        <4>4. store.trip \in [Op -> TripStatus]
          BY <1>t DEF Store
        <4>5. store'.trip[j] = "ACTIVE"
          BY <4>1, <4>3, <4>4
        <4> QED  BY <4>5
      <3>4. CASE k \notin {"points:CREATE", "trip:CREATE"}
        <4>1. store'.trip[j] = Ending(k) /\ k # "trip:FINISH"
          BY <2>1, <2>3, <3>4, <1>t DEF TripWritten, Store, MeasureDue
        <4> QED  BY <4>1 DEF Ending
      <3> QED  BY <3>2, <3>3, <3>4
    <2> QED  BY <2>2, <2>3
  <1>4. CASE /\ store'.trip[j] = store.trip[j] /\ store'.points[j] = store.points[j]
             /\ store'.measured[j] = store.measured[j] /\ (j \in unmeasured => j \in unmeasured')
    <2>1. MeasuredOrDue(j)
      BY <1>4 DEF DistanceInv
    <2> QED  BY <2>1, <1>1, <1>4 DEF MeasuredOrDue
  <1> QED  BY <1>2, <1>3, <1>4, DistanceOfStep

(* The distance of every finished trip counts all its stored fixes as soon *)
(* as no request runs, for any number of requests that overlap, whoever is *)
(* logged in when they are sent: unless the handler of a request was cut   *)
(* off before it measured, or a finish overtook a batch of fixes.  The     *)
(* server measures nothing again on a retry (run SyncDistance).            *)
THEOREM DistanceAlwaysKept == Spec => []DistanceKept
  <1> DEFINE Inv == Backed /\ Orderly /\ InQueue /\ QueueAgrees /\ DistanceInv
  <1>1. Init => Inv
    <2> SUFFICES ASSUME Init PROVE Inv
      OBVIOUS
    <2>1. \A o \in Op : row[o].status = "NONE"
      BY DEF Init, QueueInit, NoRow
    <2>2. done = {} /\ unqueued = {} /\ InQueue /\ store = EmptyStore
      BY DEF Init, QueueInit, ServerInit, Free, InQueue
    <2>3. QueueAgrees /\ DistanceInv
      BY <2>1, <2>2 DEF QueueAgrees, TableAgrees, UnqueuedAgrees, DistanceInv, MeasuredOrDue, EmptyStore
    <2> QED  BY <2>2, <2>3, InitBacked, InitOrderly
  <1>2. Inv /\ [Next]_vars => Inv'
    <2> SUFFICES ASSUME Inv, [Next]_vars PROVE Inv'
      OBVIOUS
    <2>a. SystemTypeOK /\ done \subseteq applied
      BY DEF Backed, SuccessIsBacked
    <2>1. CASE UNCHANGED vars
      <3>1. Orderly' /\ Backed'
        BY <2>1, <2>a, StepOrderly, StepBacked
      <3>2. UNCHANGED <<row, payload, unqueued, req, store, unmeasured>>
        BY <2>1 DEF vars, queueVars, serverVars
      <3> QED  BY <3>1, <3>2 DEF InQueue, QueueAgrees, TableAgrees, UnqueuedAgrees, ItemAgrees,
                                 DistanceInv, MeasuredOrDue, InHandler
    <2>2. CASE Next
      <3>1. Orderly' /\ Backed' /\ InQueue'
        BY <2>2, <2>a, StepOrderly, StepBacked, StepInQueue
      <3>2. QueueAgrees' /\ RowsKept
        BY <2>2, <2>a, StepKeepsRows
      <3>3. DistanceInv'
        BY <2>2, <2>a, <3>2, StepMeasures
      <3> QED  BY <3>1, <3>2, <3>3
    <2> QED  BY <2>1, <2>2
  <1>3. Inv => DistanceKept
    <2> SUFFICES ASSUME Inv, Quiet, NEW i \in Op \ unmeasured, store.trip[i] = "COMPLETED"
                 PROVE  store.measured[i] = store.points[i]
      BY DEF DistanceKept
    <2>1. \A s \in Slot, o \in Op : ~InHandler(s, {"measuring"}, o)
      BY DEF Quiet, In, InHandler
    <2> QED  BY <2>1 DEF DistanceInv, MeasuredOrDue
  <1> HIDE DEF Inv
  <1> QED  BY <1>1, <1>2, <1>3, PTL DEF Spec

-----------------------------------------------------------------------------
(* Requests carry operations of their own account.                         *)

(* The inductive invariant: a request still to be sent finds the session   *)
(* of the round.                                                           *)
PostsAsItself == pc = "post" => session = acct
OwnInv == SystemTypeOK /\ Orderly /\ InQueue /\ done \subseteq applied /\ QueueAgrees
          /\ OwnSession /\ PostsAsItself

LEMMA SessionOfPost ==
  ASSUME PostsAsItself, Next, pc = "post" => session' = session
  PROVE  PostsAsItself'
  <1>1. CASE UNCHANGED <<session, roundVars>>
    BY <1>1 DEF PostsAsItself, roundVars
  <1>2. CASE pc' # "post"
    BY <1>2 DEF PostsAsItself
  <1>3. CASE SelectBatch
    BY <1>3 DEF SelectBatch, PostsAsItself
  <1>4. CASE \E a \in Owner : Login(a)
    <2>1. UNCHANGED roundVars
      BY <1>4 DEF Login, SwitchSession
    <2> QED  BY <2>1 DEF PostsAsItself, roundVars
  <1>5. CASE \/ \E o \in Op, k \in Kind : Create(o, k)
             \/ \E o, i \in Op : DeleteLocalRoute(o, i)
             \/ \E i \in Op : RecordFix(i)
             \/ \E o, i \in Op, k \in Kind : CloseTrip(o, i, k)
             \/ UserRetries
             \/ \E o \in Op : ClockTicks(o)
             \/ \E s \in Slot : Discard(s) \/ Work(s) \/ Fail(s)
    BY <1>5, <1>1 DEF Create, DeleteLocalRoute, RecordFix, CloseTrip, Add, UserRetries, RetryFailed,
                      ClockTicks, BackoffOver, Discard, Work, Fail, queueVars
  <1>6. CASE QueuePendingPoints \/ StartRound \/ KillApp
    BY <1>6, <1>2 DEF QueuePendingPoints, PointsQueued, StartRound, BeginRound, KillApp, AppKilled
  <1>7. CASE ContinueRound
    <2>1. CASE HandleResult
      BY <2>1, <1>2 DEF HandleResult
    <2>2. CASE PushOver \/ BatchOver \/ FinishRound \/ PostUnauthorized \/ RetryNext
      BY <2>2, <1>2 DEF PushOver, BatchOver, FinishRound, PostUnauthorized, Release, RetryNext
    <2> QED  BY <1>7, <1>3, <2>1, <2>2 DEF ContinueRound, RoundStep
  <1>8. ASSUME NEW s \in Slot,
               SendRequest(s) \/ Deliver(s) \/ GiveUp(s) \/ GatewayTimeout(s) \/ ServerCrash(s)
        PROVE  PostsAsItself'
    <2>1. CASE NoReply \/ Unavailable \/ SplitBatch \/ RejectSingle \/ Answered(req[s].result) \/ Post
      BY <2>1, <1>2 DEF NoReply, Release, Unavailable, SplitBatch, RejectSingle, Answered, Post
    <2>2. CASE Deliver(s)
      BY <2>1, <2>2 DEF Deliver
    <2>3. CASE SendRequest(s) \/ GiveUp(s) \/ GatewayTimeout(s) \/ ServerCrash(s)
      BY <2>1, <2>3, <1>1 DEF SendRequest, GiveUp, GatewayTimeout, ServerCrash, queueVars
    <2> QED  BY <1>8, <2>2, <2>3
  <1> QED  BY <1>4, <1>5, <1>6, <1>7, <1>8 DEF Next

LEMMA OwnersOfRequests ==
  ASSUME SystemTypeOK, Orderly, InQueue, OwnSession, PostsAsItself, RowsKept, Next
  PROVE  OwnSession'
  <1>t. \A t \in Slot : req[t].todo \subseteq Op
    BY DEF SystemTypeOK, ServerTypeOK, Request
  <1>1. CASE TodosShrink
    <2>1. ASSUME NEW t \in Slot, NEW o \in req'[t].todo PROVE row'[o].owner = req'[t].user
      <3>1. o \in req[t].todo /\ req'[t].user = req[t].user
        BY <1>1, <2>1 DEF TodosShrink
      <3>2. o \in Op /\ row[o].status # "NONE" /\ row[o].owner = req[t].user
        BY <3>1, <1>t DEF InQueue, OwnSession
      <3> QED  BY <3>1, <3>2 DEF RowsKept
    <2> QED  BY <2>1 DEF OwnSession
  <1>2. ASSUME NEW s \in Slot, SendRequest(s) PROVE OwnSession'
    <2> DEFINE q == [Free EXCEPT !.phase = "sent", !.user = session, !.todo = batch]
    <2>1. req' = [req EXCEPT ![s] = q] /\ row' = row /\ session = acct
      BY <1>2 DEF SendRequest, Arrive, Post, PostsAsItself
    <2>2. q.todo = batch /\ q.user = session
      BY DEF Free
    <2> HIDE DEF q
    <2>3. \A o \in batch : row[o].owner = acct
      BY DEF Orderly, RoundKeepsToItsAccount
    <2> QED  BY <2>1, <2>2, <2>3 DEF OwnSession, SystemTypeOK, ServerTypeOK
  <1> QED  BY <1>1, <1>2, ServerMoves

(* What the code says of itself ("Stops if another account logs in: its    *)
(* session must not send these") fails in one place only: between the      *)
(* selection of a batch and its request.  A phone on which nobody logs in  *)
(* or out at that very moment sends every request with the session of the  *)
(* account its operations belong to, whatever else happens to the session. *)
THEOREM OwnSessionUnlessSwitchedAtPost ==
  Spec /\ [][pc = "post" => session' = session]_vars => []OwnSession
  <1>1. Init => OwnInv
    <2> SUFFICES ASSUME Init PROVE OwnInv
      OBVIOUS
    <2>1. \A o \in Op : row[o].status = "NONE"
      BY DEF Init, QueueInit, NoRow
    <2>2. done = {} /\ unqueued = {} /\ InQueue /\ pc = "idle" /\ OwnSession
      BY DEF Init, QueueInit, ServerInit, Free, InQueue, OwnSession
    <2>3. QueueAgrees
      BY <2>1, <2>2 DEF QueueAgrees, TableAgrees, UnqueuedAgrees
    <2> QED  BY <2>2, <2>3, InitType, InitOrderly DEF OwnInv, PostsAsItself
  <1>2. Backed /\ OwnInv /\ [Next]_vars /\ [pc = "post" => session' = session]_vars => OwnInv'
    <2> SUFFICES ASSUME Backed, OwnInv, [Next]_vars, [pc = "post" => session' = session]_vars
                 PROVE  OwnInv'
      OBVIOUS
    <2> USE DEF OwnInv
    <2>1. CASE UNCHANGED vars
      <3>1. Orderly' /\ Backed'
        BY <2>1, StepOrderly, StepBacked
      <3>2. UNCHANGED <<row, payload, unqueued, done, applied, req, session, pc, acct>>
        BY <2>1 DEF vars, queueVars, roundVars, serverVars
      <3> QED  BY <3>1, <3>2 DEF Backed, InQueue, QueueAgrees, TableAgrees, UnqueuedAgrees, ItemAgrees,
                                 OwnSession, PostsAsItself
    <2>2. CASE Next /\ (pc = "post" => session' = session)
      <3>1. Orderly' /\ Backed' /\ InQueue'
        BY <2>2, StepOrderly, StepBacked, StepInQueue
      <3>2. QueueAgrees' /\ RowsKept
        BY <2>2, StepKeepsRows
      <3>3. PostsAsItself' /\ OwnSession'
        BY <2>2, <3>2, SessionOfPost, OwnersOfRequests
      <3> QED  BY <3>1, <3>2, <3>3 DEF Backed, SuccessIsBacked
    <2> QED  BY <2>1, <2>2
  <1>3. OwnInv => OwnSession
    BY DEF OwnInv
  <1>4. Init => Backed
    BY InitBacked
  <1>5. Backed /\ [Next]_vars => Backed'
    BY StepBacked
  <1> QED  BY <1>1, <1>2, <1>3, <1>4, <1>5, PTL DEF Spec

(* So the trips of a phone whose session does not change while a request   *)
(* is prepared always arrive as they were recorded.                        *)
THEOREM TripsConvergeUnlessSwitchedAtPost ==
  Spec /\ [][pc = "post" => session' = session]_vars => []TripConverged
  BY OwnSessionUnlessSwitchedAtPost, TripsAlwaysConverge, PTL

-----------------------------------------------------------------------------
(* Nothing fails for want of a trip that is only to be retried.            *)

Creator(o) == payload[o].item
Alive(o) == row[o].status \in {"PENDING", "SYNCING"}

(* While a creation is neither applied nor set aside, no operation about   *)
(* its item has used up more attempts.                                     *)
FollowersTryLess ==
  \A o \in Op : Alive(o) /\ Creator(o) # o /\ Alive(Creator(o)) /\ Creator(o) \notin applied
                  => row[o].retries <= row[Creator(o)].retries

(* The request awaited works through the batch and answers for all of it.  *)
AnswersForBatch ==
  \A s \in Slot : conn = s =>
    /\ req[s].todo \subseteq batch
    /\ req[s].phase \in Processing \cup {"replied"} =>
         \A o \in batch \ req[s].todo : req[s].result[o] # "none"
    /\ In(s, "replied") => req[s].todo = {}

HandlesBatch == pc = "results" => batch \subseteq Unhandled

(* What waits to be put back by a failed request comes after its creation. *)
RetriesBehind ==
  pc = "retry" => \A o \in batch :
    row[Creator(o)].status = "PENDING" /\ Creator(o) \notin applied
      => Bump(row[o].retries) <= row[Creator(o)].retries

(* Request s says, or is about to say, that operation o found no trip.     *)
Missing(s, o) ==
  \/ req[s].result[o] = "TRIP_NOT_FOUND"
  \/ InHandler(s, {"writing", "measuring", "recording"}, o) /\ req[s].code = "TRIP_NOT_FOUND"

(* Result r of creation c fails it, and o has no more attempts behind it.  *)
FailsWith(r, o, c) == r \in {"TRANSIENT"} \cup Code /\ row[o].retries <= row[c].retries

(* A trip is missing because its creation was set aside, or failed in the  *)
(* same request.                                                           *)
HasCause(s, o) ==
  LET c == Creator(o)
  IN  /\ c # o
      /\ \/ row[c].status = "FAILED"
         \/ c \in batch /\ c \notin req[s].todo /\ FailsWith(req[s].result[c], o, c)

MissingHasCause ==
  \A s \in Slot : \A o \in batch : conn = s /\ Missing(s, o) => HasCause(s, o)

(* The same once the answer is here: what was not found waits behind a     *)
(* creation to be retried, and has attempts left if the creation has.      *)
Held(o, c) ==
  /\ row[c].status = "PENDING" /\ blocked
  /\ row[o].retries < row[c].retries /\ row[c].retries < MaxAttempts

HeldOrFailed(o) ==
  LET c == Creator(o)
  IN  /\ c # o
      /\ \/ row[c].status = "FAILED"
         \/ c \in Unhandled /\ FailsWith(answer[c], o, c)
         \/ Held(o, c)

AnswerHasCause ==
  \A o \in Unhandled :
    /\ row[Creator(o)].status = "PENDING" /\ Creator(o) \notin applied
         => row[o].retries < row[Creator(o)].retries
    /\ answer[o] = "TRIP_NOT_FOUND" => HeldOrFailed(o)

(* The inductive invariant, on top of Agreed, Blamed and NothingOvertakes. *)
Causes ==
  /\ FollowersTryLess /\ AnswersForBatch /\ HandlesBatch /\ MissingHasCause /\ AnswerHasCause
  /\ RetriesBehind

(* The steps that count no attempt, set aside nothing but what is refused  *)
(* with its request, and complete nothing but what the response says.      *)
Untried ==
  \A o \in Op : /\ Alive(o)' => \/ Alive(o) /\ row'[o].retries = row[o].retries
                                \/ row[o].status = "NONE" /\ row'[o].retries = 0
                /\ row'[o].status = "FAILED" => row[o].status = "FAILED" \/ row'[o].error = "REFUSED"
                /\ row'[o].status = "COMPLETED" => row[o].status = "COMPLETED" \/ o \in done

LEMMA AttemptsOfStep ==
  ASSUME SystemTypeOK, Orderly, Next
  PROVE  Untried \/ UserRetries \/ (ContinueRound /\ (HandleResult \/ RetryNext))
  <1>q. row \in [Op -> Row] /\ batch \in SUBSET Op
    BY DEF SystemTypeOK, QueueTypeOK
  <1>b. \A o \in batch \cup done : row[o].status = "SYNCING"
    BY DEF Orderly, RoundInHand, Interrupted
  <1>0. ASSUME row' = row PROVE Untried
    BY <1>0 DEF Untried, Alive
  <1>s. ASSUME NEW S, NEW t, t \notin {"FAILED", "COMPLETED"}, row' = WithStatus(S, t),
               \A o \in S : Alive(o)
        PROVE  Untried
    <2>1. ASSUME NEW o \in Op
          PROVE  /\ row'[o].retries = row[o].retries /\ (Alive(o)' => Alive(o))
                 /\ row'[o].status \in {"FAILED", "COMPLETED"} => row[o].status = row'[o].status
      <3>1. row'[o] = IF o \in S THEN [row[o] EXCEPT !.status = t] ELSE row[o]
        BY <1>s DEF WithStatus
      <3> QED  BY <3>1, <1>s, <1>q DEF Row, Alive
    <2> QED  BY <2>1 DEF Untried
  <1>n. \A a : NewRow(a).retries = 0 /\ NewRow(a).status = "PENDING"
    BY DEF NewRow, NoRow
  <1>a. ASSUME NEW o \in Op, NEW a, Add(o, a) PROVE Untried
    <2>1. row[o].status = "NONE" /\ row'[o].retries = 0 /\ row'[o].status = "PENDING"
      BY <1>a, <1>n, <1>q, SyncTypesAssumption DEF Add, IsNext
    <2>2. \A p \in Op : p # o => row'[p] = row[p]
      BY <1>a, <1>q DEF Add
    <2> QED  BY <2>1, <2>2 DEF Untried, Alive
  <1>1. CASE \/ \E o \in Op, k \in Kind : Create(o, k)
             \/ \E o, i \in Op : DeleteLocalRoute(o, i)
    BY <1>1, <1>a DEF Create, DeleteLocalRoute
  <1>2. ASSUME NEW o \in Op, NEW i \in Op, NEW k \in Kind, CloseTrip(o, i, k) PROVE Untried
    <2>1. CASE i \notin unqueued
      BY <1>2, <2>1, <1>a DEF CloseTrip
    <2>2. CASE i \in unqueued
      <3>1. /\ IsNext(o) /\ o + 1 \in Op
            /\ row' = [row EXCEPT ![o] = NewRow(row[i].owner), ![o + 1] = NewRow(row[i].owner)]
        BY <1>2, <2>2 DEF CloseTrip
      <3>2. \A p \in Op : p # o /\ p # o + 1 => row'[p] = row[p]
        BY <3>1, <1>q
      <3>3. \A p \in {o, o + 1} : row[p].status = "NONE" /\ row'[p].retries = 0 /\ row'[p].status = "PENDING"
        BY <3>1, <1>n, <1>q, SyncTypesAssumption DEF IsNext
      <3> QED  BY <3>2, <3>3 DEF Untried, Alive
    <2> QED  BY <2>1, <2>2
  <1>3. CASE QueuePendingPoints
    <2>1. CASE unqueued = {}
      BY <1>3, <2>1, <1>0 DEF QueuePendingPoints
    <2>2. CASE unqueued # {}
      <3>1. PICK o \in Op, i \in unqueued : IsNext(o) /\ row' = [row EXCEPT ![o] = NewRow(row[i].owner)]
        BY <1>3, <2>2 DEF QueuePendingPoints
      <3>2. /\ row[o].status = "NONE" /\ row'[o].retries = 0 /\ row'[o].status = "PENDING"
            /\ \A p \in Op : p # o => row'[p] = row[p]
        BY <3>1, <1>n, <1>q, SyncTypesAssumption DEF IsNext
      <3> QED  BY <3>2 DEF Untried, Alive
    <2> QED  BY <2>1, <2>2
  <1>4. ASSUME NEW o \in Op, ClockTicks(o) PROVE Untried
    <2>1. row' = [row EXCEPT ![o].waiting = FALSE]
      BY <1>4 DEF ClockTicks, BackoffOver
    <2>2. ASSUME NEW p \in Op PROVE row'[p].status = row[p].status /\ row'[p].retries = row[p].retries
      <3>1. row'[p] = IF p = o THEN [row[p] EXCEPT !.waiting = FALSE] ELSE row[p]
        BY <2>1, <1>q
      <3> QED  BY <3>1, <1>q DEF Row
    <2> QED  BY <2>2 DEF Untried, Alive
  <1>5. CASE StartRound
    BY <1>5, <1>s DEF StartRound, BeginRound, Interrupted, Alive
  <1>6. CASE ContinueRound /\ ~HandleResult /\ ~RetryNext
    <2>1. CASE SelectBatch
      <3>1. PICK b \in Prefixes(NextBatch(acct, Limit)) : row' = WithStatus(b, "SYNCING")
        BY <2>1 DEF SelectBatch
      <3>2. \A o \in b : Alive(o)
        BY DEF Prefixes, NextBatch, Pending, Alive
      <3> QED  BY <3>1, <3>2, <1>s
    <2>2. CASE PostUnauthorized
      BY <2>2, <1>b, <1>s DEF PostUnauthorized, Release, Alive
    <2>3. CASE PushOver \/ FinishRound
      BY <2>3, <1>0 DEF PushOver, FinishRound
    <2>4. CASE BatchOver
      <3>1. ASSUME NEW o \in Op
            PROVE  /\ row'[o].retries = row[o].retries /\ (Alive(o)' => Alive(o))
                   /\ row'[o].status = "FAILED" => row[o].status = "FAILED"
                   /\ row'[o].status = "COMPLETED" => row[o].status = "COMPLETED" \/ o \in done
        <4>1. row'[o] = IF o \in done THEN [row[o] EXCEPT !.status = "COMPLETED"]
                        ELSE IF o \in batch THEN [row[o] EXCEPT !.status = "PENDING"] ELSE row[o]
          BY <2>4 DEF BatchOver
        <4> QED  BY <4>1, <1>b, <1>q DEF Row, Alive
      <3> QED  BY <3>1 DEF Untried
    <2> QED  BY <1>6, <2>1, <2>2, <2>3, <2>4 DEF ContinueRound, RoundStep
  <1>7. ASSUME NoReply \/ SplitBatch PROVE Untried
    BY <1>7, <1>b, <1>s DEF NoReply, Release, SplitBatch, Alive
  <1>8. ASSUME RejectSingle PROVE Untried
    <2>1. ASSUME NEW o \in Op
          PROVE  (row'[o].status = "FAILED" /\ row'[o].error = "REFUSED") \/ row'[o] = row[o]
      <3>1. row'[o] = IF o \in batch THEN Rejected(row[o], "REFUSED") ELSE row[o]
        BY <1>8 DEF RejectSingle
      <3> QED  BY <3>1, <1>q DEF Rejected, Row
    <2> QED  BY <2>1 DEF Untried, Alive
  <1>9. ASSUME NEW s \in Slot,
               \/ SendRequest(s) \/ Deliver(s) \/ Discard(s) \/ GiveUp(s)
               \/ GatewayTimeout(s) \/ ServerCrash(s) \/ Work(s) \/ Fail(s)
        PROVE  Untried
    <2>1. CASE Deliver(s)
      <3>1. row' = row \/ SplitBatch \/ RejectSingle
        BY <2>1 DEF Deliver, Answered, Unavailable
      <3> QED  BY <3>1, <1>0, <1>7, <1>8
    <2>2. CASE GiveUp(s) \/ ServerCrash(s) \/ GatewayTimeout(s)
      <3>1. row' = row \/ NoReply
        BY <2>2 DEF GiveUp, ServerCrash, GatewayTimeout, Unavailable, queueVars
      <3> QED  BY <3>1, <1>0, <1>7
    <2>3. CASE SendRequest(s) \/ Discard(s) \/ Work(s) \/ Fail(s)
      BY <2>3, <1>0 DEF SendRequest, Post, Discard, Work, Fail, queueVars
    <2> QED  BY <1>9, <2>1, <2>2, <2>3
  <1>10. CASE \/ \E i \in Op : RecordFix(i)
              \/ \E a \in Owner : Login(a)
              \/ KillApp
    BY <1>10, <1>0 DEF RecordFix, queueVars, Login, SwitchSession, KillApp, AppKilled
  <1> QED  BY <1>1, <1>2, <1>3, <1>4, <1>5, <1>6, <1>9, <1>10 DEF Next

(* An operation about an item is queued after the creation of the item, by *)
(* the same account.                                                       *)
LEMMA CreatorIsOlder ==
  ASSUME SystemTypeOK, QueueAgrees, NEW o \in Op, row[o].status # "NONE"
  PROVE  /\ Creator(o) \in Op /\ Creator(o) <= o
         /\ row[Creator(o)].status # "NONE" /\ row[Creator(o)].owner = row[o].owner
  BY DEF SystemTypeOK, ServerTypeOK, Payload, QueueAgrees, TableAgrees, ItemAgrees, Creator

(* While the phone awaits an answer, the creation of what it sent is in    *)
(* the same request, if it is still to be settled.                         *)
LEMMA CreatorInBatch ==
  ASSUME SystemTypeOK, Orderly, QueueAgrees, NothingOvertakes, reinstated = {}, pc = "wait",
         NEW o \in batch, Alive(Creator(o))
  PROVE  Creator(o) \in batch
  <1>1. o \in Op /\ row[o].status = "SYNCING" /\ row[o].owner = acct /\ done = {}
    BY DEF Orderly, RoundInHand, Interrupted, RoundKeepsToItsAccount
  <1>2. Creator(o) \in Op /\ Creator(o) <= o /\ row[Creator(o)].owner = acct
    BY <1>1, CreatorIsOlder
  <1>3. CASE row[Creator(o)].status = "PENDING"
    <2>1. Creator(o) < o /\ Creator(o) \in Pending(acct)
      <3>1. Creator(o) # o
        BY <1>1, <1>3
      <3>2. Creator(o) < o
        BY <3>1, <1>1, <1>2, SyncTypesAssumption
      <3> QED  BY <3>2, <1>2, <1>3 DEF Pending
    <2> QED  BY <2>1 DEF NothingOvertakes
  <1>4. CASE row[Creator(o)].status = "SYNCING"
    BY <1>1, <1>2, <1>4 DEF Orderly, SyncingIsInBatch, Interrupted
  <1> QED  BY <1>3, <1>4 DEF Alive

LEMMA BumpGrows ==
  ASSUME NEW m \in 0..MaxAttempts, NEW n \in 0..MaxAttempts, m <= n
  PROVE  Bump(m) <= Bump(n) /\ (m < n => Bump(m) <= n) /\ n <= Bump(n)
  BY SyncQueueAssumption DEF Bump

(* What handling the result of operation o does to the rows.               *)
LEMMA RowsOfResult ==
  ASSUME QueueTypeOK, NEW o \in Op, ResultDone(o) \/ ResultRetried(o) \/ ResultRejected(o)
  PROVE  /\ \A p \in Op \ {o} : row'[p] = row[p]
         /\ ResultDone(o) => row'[o] = row[o] /\ blocked' = blocked
         /\ ResultRetried(o) => /\ row'[o].status = "PENDING" /\ row'[o].retries = Bump(row[o].retries)
                                /\ row[o].retries + 1 < MaxAttempts /\ blocked' = TRUE
         /\ ResultRejected(o) => row'[o].status = "FAILED" /\ blocked' = blocked
  <1>q. row \in [Op -> Row]
    BY DEF QueueTypeOK
  <1>1. ASSUME NEW r \in Row, NEW e
        PROVE  /\ Retried(r).status = "PENDING" /\ Retried(r).retries = Bump(r.retries)
               /\ Rejected(r, e).status = "FAILED"
    BY DEF Retried, Rejected, Row
  <1>2. CASE ResultDone(o)
    BY <1>2 DEF ResultDone, ResultRetried, ResultRejected
  <1>3. CASE ResultRetried(o)
    <2>1. row'[o] = Retried(row[o]) /\ \A p \in Op \ {o} : row'[p] = row[p]
      BY <1>3, <1>q DEF ResultRetried
    <2> QED  BY <1>1, <1>3, <2>1, <1>q DEF ResultRetried, MayRetry, ResultDone, ResultRejected
  <1>4. CASE ResultRejected(o)
    <2>1. row'[o] = Rejected(row[o], answer[o]) /\ \A p \in Op \ {o} : row'[p] = row[p]
      BY <1>4, <1>q DEF ResultRejected
    <2> QED  BY <1>1, <1>4, <2>1, <1>q DEF ResultRetried, MayRetry, ResultDone, ResultRejected
  <1> QED  BY <1>2, <1>3, <1>4

LEMMA StepTriesLess ==
  ASSUME SystemTypeOK, SystemTypeOK', Orderly, QueueAgrees, RowsKept, NothingOvertakes,
         reinstated = {}, done \subseteq applied, applied \subseteq applied', Causes,
         "retry" \notin UserDoes, Next
  PROVE  FollowersTryLess'
  <1> SUFFICES ASSUME NEW o \in Op, NEW c, c = payload'[o].item, c # o, c \notin applied',
                      row'[o].status \in {"PENDING", "SYNCING"},
                      row'[c].status \in {"PENDING", "SYNCING"}
               PROVE  row'[o].retries <= row'[c].retries
    BY DEF FollowersTryLess, Creator, Alive
  <1>q. row \in [Op -> Row] /\ \A p \in Op : row[p].retries \in 0..MaxAttempts
    BY DEF SystemTypeOK, QueueTypeOK, Row
  <1>r. c \in Op /\ row'[o].retries \in 0..MaxAttempts /\ row'[c].retries \in 0..MaxAttempts
    BY DEF SystemTypeOK, QueueTypeOK, ServerTypeOK, Payload, Row
  <1>o. ASSUME row[o].status # "NONE"
        PROVE  /\ c = Creator(o) /\ c < o /\ row[c].status # "NONE" /\ c \notin applied
               /\ Alive(o) /\ Alive(c) => row[o].retries <= row[c].retries
    <2>1. c = Creator(o)
      BY <1>o DEF RowsKept, Creator
    <2>2. c <= o /\ row[c].status # "NONE"
      BY <2>1, <1>o, CreatorIsOlder
    <2> QED  BY <2>1, <2>2, <1>r, SyncTypesAssumption DEF Causes, FollowersTryLess
  <1>1. CASE Untried
    <2>1. CASE row[o].status = "NONE"
      <3>1. row'[o].retries = 0
        BY <1>1, <2>1 DEF Untried, Alive
      <3> QED  BY <3>1, <1>r
    <2>2. CASE row[o].status # "NONE"
      <3>1. Alive(o) /\ row'[o].retries = row[o].retries
        BY <1>1, <2>2 DEF Untried, Alive
      <3>2. Alive(c) /\ row'[c].retries = row[c].retries
        BY <1>1, <1>r, <2>2, <1>o DEF Untried, Alive
      <3> QED  BY <3>1, <3>2, <2>2, <1>o
    <2> QED  BY <2>1, <2>2
  <1>2. CASE RetryNext
    <2>1. PICK h \in Op : IsFirst(h, batch) /\ row' = [row EXCEPT ![h] = Retried(@)]
      BY <1>2 DEF RetryNext
    <2>2. h \in batch /\ row[h].status = "SYNCING" /\ pc = "retry"
      BY <1>2, <2>1 DEF RetryNext, IsFirst, Orderly, RoundInHand, Interrupted
    <2>3. row'[h].retries = Bump(row[h].retries) /\ \A p \in Op : p # h => row'[p] = row[p]
      BY <2>1, <1>q DEF Retried, Row
    <2>4. Alive(o) /\ Alive(c)
      BY <2>2, <2>3, <1>r DEF Alive
    <2>5. c = Creator(o) /\ c < o /\ c \notin applied /\ row[o].retries <= row[c].retries
      BY <2>4, <1>o DEF Alive
    <2>6. CASE h = c
      <3>1. row'[o] = row[o] /\ row[c].retries <= row'[c].retries
        BY <2>3, <2>5, <2>6, <1>q, <1>r, BumpGrows
      <3> QED  BY <3>1, <2>5, <1>q, <1>r
    <2>7. CASE h = o
      <3>1. c \notin batch /\ row'[c] = row[c]
        BY <2>1, <2>3, <2>5, <2>7, <1>r, SyncTypesAssumption DEF IsFirst
      <3>2. row[c].status = "PENDING"
        BY <3>1, <2>2, <2>4, <1>r DEF Alive, Orderly, SyncingIsInBatch, RoundInHand, Interrupted
      <3> QED  BY <3>1, <3>2, <2>2, <2>3, <2>5, <2>7 DEF Causes, RetriesBehind
    <2>8. CASE h # c /\ h # o
      BY <2>3, <2>5, <2>8, <1>r
    <2> QED  BY <2>6, <2>7, <2>8
  <1>3. CASE HandleResult
    <2>1. PICK h \in Op : IsFirst(h, Unhandled) /\ (ResultDone(h) \/ ResultRetried(h) \/ ResultRejected(h))
      BY <1>3 DEF HandleResult
    <2>2. QueueTypeOK /\ h \in Unhandled /\ row[h].status = "SYNCING"
      BY <2>1 DEF IsFirst, Orderly, RoundInHand, Interrupted, SystemTypeOK
    <2>3. \A p \in Op : p # h => row'[p] = row[p]
      BY <2>1, <2>2, RowsOfResult
    <2>4. Alive(o) /\ Alive(c)
      BY <2>2, <2>3, <1>r DEF Alive
    <2>5. c = Creator(o) /\ c < o /\ c \notin applied /\ row[o].retries <= row[c].retries
      BY <2>4, <1>o DEF Alive
    <2>6. CASE ~ResultRetried(h)
      <3>1. row'[o].retries = row[o].retries /\ row'[c].retries = row[c].retries
        BY <2>1, <2>2, <2>3, <2>6, <1>r, RowsOfResult
      <3> QED  BY <3>1, <2>5
    <2>7. CASE ResultRetried(h)
      <3>1. row'[h].retries = Bump(row[h].retries)
        BY <2>1, <2>2, <2>7, RowsOfResult
      <3>2. CASE h = c
        <4>1. row'[o] = row[o] /\ row[c].retries <= row'[c].retries
          BY <3>1, <3>2, <2>3, <1>q, <1>r, BumpGrows
        <4> QED  BY <4>1, <2>5, <1>q, <1>r
      <3>3. CASE h = o
        <4>1. c \notin Unhandled
          BY <3>3, <2>1, <2>5, <1>r, SyncTypesAssumption DEF IsFirst
        <4>2. row[c].status # "SYNCING"
          <5>1. c \notin batch \cup done
            BY <4>1, <2>5, <1>3 DEF Causes, HandlesBatch, HandleResult
          <5> QED  BY <5>1, <1>3, <1>r DEF HandleResult, Orderly, SyncingIsInBatch, Interrupted
        <4>3. row[o].retries < row[c].retries
          BY <4>2, <3>3, <2>2, <2>4, <2>5 DEF Causes, AnswerHasCause, Alive
        <4>4. row'[c] = row[c]
          BY <3>3, <2>3, <2>5, <1>r
        <4> QED  BY <4>3, <4>4, <3>1, <3>3, <1>q, <1>r, BumpGrows
      <3>4. CASE h # c /\ h # o
        BY <3>4, <2>3, <2>5, <1>r
      <3> QED  BY <3>2, <3>3, <3>4
    <2> QED  BY <2>6, <2>7
  <1>4. ~UserRetries
    BY DEF UserRetries
  <1> QED  BY <1>1, <1>2, <1>3, <1>4, AttemptsOfStep

(* Request s looks up the trip of operation o and does not find it.        *)
MissesTrip(s, o) ==
  /\ AtOperation(s, o)
  /\ payload[o].kind \notin RouteKind
  /\ Finds(store, req[s].user, payload[o].kind, payload[o].item) = "TRIP_NOT_FOUND"

(* Only an existing trip is missed, and only when it is not there for the  *)
(* user.                                                                   *)
LEMMA HandlerMisses ==
  ASSUME NEW u, NEW k, NEW i, Finds(store, u, k, i) = "TRIP_NOT_FOUND"
  PROVE  k # "trip:CREATE" /\ store.owner[i] # u
  <1>1. k # "trip:CREATE"
    BY DEF Finds, StartFinds
  <1>2. CASE k = "points:CREATE"
    BY <1>2 DEF Finds, RecordFinds
  <1>3. CASE k # "points:CREATE"
    BY <1>1, <1>3 DEF Finds, EndFinds, Ending
  <1> QED  BY <1>1, <1>2, <1>3

(* No handler of a route, nor the validation, misses a trip.               *)
LEMMA RouteMissesNone == \A u, o : Handled(u, o).code # "TRIP_NOT_FOUND"
  BY DEF Handled, UpsertRoute, DeleteRoute, Ok, Refuse

LEMMA MissingTrip ==
  ASSUME Agreed, OwnSession, NothingOvertakes, reinstated = {}, Causes, pc = "wait",
         NEW s \in Slot, conn = s, NEW o \in Op, MissesTrip(s, o)
  PROVE  HasCause(s, o)
  <1>a. SystemTypeOK /\ Orderly /\ QueueAgrees /\ InQueue /\ StoreAgrees /\ SuccessIsBacked
        /\ CompletedWasApplied /\ HasUser
    BY DEF Agreed, Backed
  <1>t. payload \in [Op -> Payload] /\ row \in [Op -> Row] /\ req[s] \in Request
    BY <1>a DEF SystemTypeOK, ServerTypeOK, QueueTypeOK
  <1>o. o \in req[s].todo /\ o \in batch /\ \A p \in req[s].todo : o <= p
    BY DEF MissesTrip, AtOperation, IsFirst, Causes, AnswersForBatch
  <1>1. row[o].status = "SYNCING" /\ row[o].owner = req[s].user
    BY <1>o, <1>a DEF Orderly, RoundInHand, Interrupted, OwnSession
  <1>0. PICK c : c = Creator(o)
    OBVIOUS
  <1>c. /\ c \in Op /\ c <= o /\ row[c].status # "NONE" /\ row[c].owner = req[s].user
    BY <1>0, <1>1, <1>a, CreatorIsOlder
  <1>2. payload[o].kind \notin RouteKind \cup Creation /\ store.owner[c] # req[s].user
    BY <1>0, <1>t, HandlerMisses DEF MissesTrip, RouteKind, Creation, Creator
  <1>3. payload[c].kind = "trip:CREATE" /\ payload[c].kind \in Creation
    BY <1>0, <1>1, <1>2, <1>a DEF QueueAgrees, TableAgrees, ItemAgrees, Creator, Creation, RouteKind
  <1>4. c # o /\ c < o
    BY <1>2, <1>3, <1>c, SyncTypesAssumption
  <1>5. c \notin applied
    BY <1>2, <1>3, <1>c, <1>a DEF StoreAgrees, StoreAgreesOn, TripAgrees
  <1>6. row[c].status \in {"PENDING", "SYNCING", "FAILED"}
    <2>1. row[c].status # "COMPLETED"
      BY <1>5, <1>c, <1>a DEF CompletedWasApplied
    <2> QED  BY <2>1, <1>c, <1>t DEF Row, Status
  <1>7. CASE row[c].status = "FAILED"
    BY <1>0, <1>4, <1>7 DEF HasCause
  <1>8. CASE row[c].status # "FAILED"
    <2>1. c \in batch
      BY <1>0, <1>6, <1>8, <1>o, <1>a, CreatorInBatch DEF Alive
    <2>2. c \notin req[s].todo
      BY <1>4, <1>c, <1>o, SyncTypesAssumption
    <2>3. req[s].result[c] # "none" /\ req[s].result[c] \in Result \cup {"none"}
      BY <2>1, <2>2, <1>c, <1>t DEF Causes, AnswersForBatch, MissesTrip, AtOperation, In, Request, Processing
    <2>4. ~Succeeded(req[s].result[c])
      BY <1>5, <1>c, <1>a DEF SuccessIsBacked, RequestIsBacked
    <2>5. req[s].result[c] \in {"TRANSIENT"} \cup Code
      BY <2>3, <2>4 DEF Succeeded, Result
    <2>6. row[o].retries <= row[c].retries
      BY <1>0, <1>1, <1>4, <1>5, <1>6, <1>8 DEF Causes, FollowersTryLess, Alive
    <2> QED  BY <1>0, <1>4, <2>1, <2>2, <2>5, <2>6 DEF HasCause, FailsWith
  <1> QED  BY <1>7, <1>8

(* A step of the server on the request awaited.                            *)
LEMMA AwaitedStep ==
  ASSUME SystemTypeOK, RequestsAsSent, Causes, pc = "wait", NEW s \in Slot, conn = s,
         Serve(s) \/ ServerFault(s), UNCHANGED <<row, batch, conn, payload>>,
         \A o \in Op : MissesTrip(s, o) => HasCause(s, o)
  PROVE  AnswersForBatch' /\ MissingHasCause'
  <1>t. req \in [Slot -> Request] /\ req[s] \in Request
    BY DEF SystemTypeOK, ServerTypeOK
  <1>c. /\ req[s].todo \subseteq batch
        /\ req[s].phase \in Processing => \A o \in batch \ req[s].todo : req[s].result[o] # "none"
        /\ \A o \in batch : Missing(s, o) => HasCause(s, o)
    BY DEF Causes, AnswersForBatch, MissingHasCause
  <1>0. ASSUME req'[s].todo \subseteq batch,
               req'[s].phase \in Processing \cup {"replied"} =>
                 \A o \in batch \ req'[s].todo : req'[s].result[o] # "none",
               req'[s].phase = "replied" => req'[s].todo = {},
               \A o \in batch : Missing(s, o)' => HasCause(s, o)'
        PROVE  AnswersForBatch' /\ MissingHasCause'
    BY <1>0 DEF AnswersForBatch, MissingHasCause, In
  (* The phase moves on and nothing is processed. *)
  <1>1. ASSUME req'[s].todo = req[s].todo, req'[s].result = req[s].result,
               req'[s].phase \notin {"writing", "measuring", "recording"},
               \/ req'[s].phase \notin {"serving", "replied"}
               \/ req[s].todo = batch /\ req'[s].phase = "serving"
               \/ req[s].phase = "serving" /\ req[s].todo = {}
        PROVE  AnswersForBatch' /\ MissingHasCause'
    <2>1. \A o \in batch : Missing(s, o)' => Missing(s, o)
      BY <1>1 DEF Missing, InHandler
    <2>2. \A o \in batch : HasCause(s, o) => HasCause(s, o)'
      BY <1>1 DEF HasCause, FailsWith, Creator
    <2> QED  BY <1>0, <1>1, <1>c, <2>1, <2>2 DEF Processing
  (* The handler of the next operation goes on, or has a verdict. *)
  <1>h. ASSUME NEW o \in Op, IsFirst(o, req[s].todo), req[s].phase \in Processing,
               req'[s].todo = req[s].todo, req'[s].result = req[s].result,
               req'[s].phase \in {"writing", "measuring", "recording"},
               req'[s].code = "TRIP_NOT_FOUND" => HasCause(s, o)
        PROVE  AnswersForBatch' /\ MissingHasCause'
    <2>1. \A p \in batch : IsFirst(p, req[s].todo) => p = o
      <3> SUFFICES ASSUME NEW p \in batch, IsFirst(p, req[s].todo) PROVE p = o
        OBVIOUS
      <3>1. p \in Op
        BY DEF SystemTypeOK, QueueTypeOK
      <3> QED  BY <3>1, <1>h, <1>t, OneFirst
    <2>2. \A p \in batch : Missing(s, p)' => HasCause(s, p)
      BY <1>h, <1>c, <2>1 DEF Missing, InHandler
    <2>3. \A p \in batch : HasCause(s, p) => HasCause(s, p)'
      BY <1>h DEF HasCause, FailsWith, Creator
    <2> QED  BY <1>0, <1>h, <1>c, <2>2, <2>3
  <1>2. ASSUME NEW p, p \notin Processing \cup {"replied"}, Goto(s, p)
        PROVE  AnswersForBatch' /\ MissingHasCause'
    <2>1. req'[s].todo = req[s].todo /\ req'[s].result = req[s].result /\ req'[s].phase = p
      BY <1>2, <1>t DEF Goto, Request
    <2> QED  BY <2>1, <1>1, <1>2 DEF Processing
  (* Operation o gets its result. *)
  <1>3. ASSUME NEW o \in Op, NEW r \in Result, Settle(s, o, r), IsFirst(o, req[s].todo),
               req[s].phase \in Processing,
               r = "TRIP_NOT_FOUND" => HasCause(s, o)
        PROVE  AnswersForBatch' /\ MissingHasCause'
    <2>1. /\ req'[s].todo = req[s].todo \ {o} /\ req'[s].phase = "serving"
          /\ req'[s].result = [req[s].result EXCEPT ![o] = r]
      BY <1>3, <1>t DEF Settle, Processed, Request
    <2>2. o \in req[s].todo /\ req[s].result \in [Op -> Result \cup {"none"}] /\ batch \subseteq Op
      BY <1>3, <1>t DEF IsFirst, Request, SystemTypeOK, QueueTypeOK
    <2>3. \A p \in Op : req'[s].result[p] = IF p = o THEN r ELSE req[s].result[p]
      BY <2>1, <2>2
    <2>4. r # "none"
      BY DEF Result, Code
    <2>5. \A p \in batch : Missing(s, p)' => HasCause(s, p)
      BY <1>3, <1>c, <2>1, <2>2, <2>3 DEF Missing, InHandler
    <2>6. \A p \in batch : HasCause(s, p) => HasCause(s, p)'
      <3> SUFFICES ASSUME NEW p \in batch, HasCause(s, p) PROVE HasCause(s, p)'
        OBVIOUS
      <3>1. PICK c : c = Creator(p)
        OBVIOUS
      <3>2. Creator(p)' = c
        BY <3>1 DEF Creator
      <3>3. c \in batch /\ c \notin req[s].todo => req'[s].result[c] = req[s].result[c]
        BY <2>2, <2>3
      <3> QED  BY <2>1, <3>1, <3>2, <3>3 DEF HasCause, FailsWith
    <2>7. \A p \in batch \ req'[s].todo : req'[s].result[p] # "none"
      BY <1>3, <1>c, <2>1, <2>2, <2>3, <2>4
    <2> QED  BY <1>0, <1>c, <2>1, <2>5, <2>6, <2>7
  <1>4. ASSUME NEW o \in Op, Dispatch(s, o) PROVE AnswersForBatch' /\ MissingHasCause'
    <2>0. PICK h : h = Handled(req[s].user, o) /\ req' = [req EXCEPT ![s] = Dispatched(@, h.code)]
      BY <1>4 DEF Dispatch
    <2>1. /\ req'[s].todo = req[s].todo /\ req'[s].phase = "recording" /\ req'[s].code = h.code
          /\ req'[s].result = req[s].result
      BY <2>0, <1>t DEF Dispatched, Request
    <2>2. IsFirst(o, req[s].todo) /\ req[s].phase = "serving" /\ h.code # "TRIP_NOT_FOUND"
      BY <1>4, <2>0, RouteMissesNone DEF Dispatch, AtOperation, In
    <2> QED  BY <2>1, <2>2, <1>h DEF Processing
  <1>4a. ASSUME NEW o \in Op, LookUpTrip(s, o) PROVE AnswersForBatch' /\ MissingHasCause'
    <2>1. PICK v, t : /\ v = Finds(store, req[s].user, payload[o].kind, payload[o].item)
                      /\ req' = [req EXCEPT ![s] = LookedUp(@, v, t)]
      BY <1>4a DEF LookUpTrip
    <2>2. req'[s] = LookedUp(req[s], v, t)
      BY <2>1, <1>t
    <2>3. /\ req'[s].todo = req[s].todo /\ req'[s].result = req[s].result
          /\ req'[s].phase \in {"writing", "recording"}
          /\ req'[s].code = IF v = "WRITE" THEN "OK" ELSE v
      BY <2>2, <1>t DEF LookedUp, Dispatched, Request
    <2>4. IsFirst(o, req[s].todo) /\ req[s].phase = "serving"
      BY <1>4a DEF LookUpTrip, AtOperation, In
    <2>5. v = "TRIP_NOT_FOUND" => HasCause(s, o)
      BY <1>4a, <2>1 DEF LookUpTrip, MissesTrip
    <2> QED  BY <2>3, <2>4, <2>5, <1>h DEF Processing
  <1>4b. ASSUME NEW o \in Op, WriteTrip(s, o) \/ MeasureTrip(s, o)
         PROVE  AnswersForBatch' /\ MissingHasCause'
    <2>1. PICK p \in {"measuring", "recording"} : Goto(s, p)
      BY <1>4b DEF WriteTrip, MeasureTrip
    <2>2. /\ req'[s].todo = req[s].todo /\ req'[s].result = req[s].result
          /\ req'[s].phase = p /\ req'[s].code = req[s].code
      BY <2>1, <1>t DEF Goto, Request
    <2>3. InHandler(s, {"writing", "measuring"}, o)
      BY <1>4b DEF WriteTrip, MeasureTrip, InHandler
    <2>4. o \in batch
      BY <2>3, <1>c DEF InHandler, IsFirst
    <2>5. req'[s].code = "TRIP_NOT_FOUND" => HasCause(s, o)
      BY <2>2, <2>3, <2>4, <1>c DEF Missing, InHandler
    <2> QED  BY <2>2, <2>3, <2>5, <1>h DEF InHandler, Processing
  <1>5. CASE AcceptRequest(s)
    <2>1. /\ req'[s].todo = req[s].todo /\ req'[s].result = req[s].result /\ req'[s].phase = "serving"
          /\ req[s].todo = batch
      BY <1>5, <1>t DEF AcceptRequest, Accepted, Request, RequestsAsSent, In
    <2> QED  BY <2>1, <1>1
  <1>6. CASE Reply(s)
    <2>1. /\ req'[s].todo = req[s].todo /\ req'[s].result = req[s].result /\ req'[s].phase = "replied"
          /\ req[s].phase = "serving" /\ req[s].todo = {}
      BY <1>6, <1>t DEF Reply, Goto, Request, In
    <2> QED  BY <2>1, <1>1
  <1>7. CASE RefuseRequest(s) \/ Outage(s)
    BY <1>7, <1>2 DEF RefuseRequest, Outage, Processing
  <1>8. ASSUME NEW o \in Op, ReportDuplicate(s, o) \/ DispatchFails(s, o) \/ CreationClashes(s, o)
        PROVE  AnswersForBatch' /\ MissingHasCause'
    <2>1. "DUPLICATE" \in Result /\ "TRANSIENT" \in Result
      BY DEF Result
    <2>2. /\ Settle(s, o, "DUPLICATE") \/ Settle(s, o, "TRANSIENT")
          /\ IsFirst(o, req[s].todo) /\ req[s].phase \in Processing
      BY <1>8 DEF ReportDuplicate, DispatchFails, CreationClashes, AtOperation, InHandler, In, Processing
    <2> QED  BY <2>1, <2>2, <1>3
  <1>9. ASSUME NEW o \in Op, RecordEvent(s, o) PROVE AnswersForBatch' /\ MissingHasCause'
    <2>1. PICK r : r = IF req[s].code = "OK" THEN "APPLIED" ELSE req[s].code
      OBVIOUS
    <2>2. Settle(s, o, r) /\ IsFirst(o, req[s].todo) /\ In(s, "recording")
      BY <1>9, <2>1 DEF RecordEvent
    <2>3. r \in Result
      BY <2>1, <1>t DEF Result, Request
    <2>4. o \in batch
      BY <2>2, <1>c DEF IsFirst
    <2>5. r = "TRIP_NOT_FOUND" => HasCause(s, o)
      BY <2>1, <2>2, <2>4, <1>c DEF Missing, InHandler, In
    <2> QED  BY <2>2, <2>3, <2>5, <1>3 DEF In, Processing
  <1>10. ASSUME NEW o \in Op, RecordFails(s, o) PROVE AnswersForBatch' /\ MissingHasCause'
    <2>1. "TRANSIENT" \in Result
      BY DEF Result
    <2>2. CASE req[s].code = "OK"
      BY <1>10, <2>1, <2>2, <1>3 DEF RecordFails, In, Processing
    <2>3. CASE req[s].code # "OK"
      BY <1>10, <2>3, <1>2 DEF RecordFails, Processing
    <2> QED  BY <2>2, <2>3
  <1> QED  BY <1>4, <1>4a, <1>4b, <1>5, <1>6, <1>7, <1>8, <1>9, <1>10 DEF Serve, ServerFault

(* Steps beside the round, its request and its rows.                       *)
LEMMA CausesUntouched ==
  ASSUME SystemTypeOK, Orderly, QueueAgrees, Causes, applied \subseteq applied',
         UNCHANGED <<pc, batch, answer, blocked, conn>>,
         \A p \in Op : row[p].status # "NONE" => row'[p] = row[p] /\ payload'[p] = payload[p],
         \A s \in Slot : conn = s => req'[s] = req[s]
  PROVE  AnswersForBatch' /\ HandlesBatch' /\ MissingHasCause' /\ AnswerHasCause' /\ RetriesBehind'
  <1>1. Unhandled' = Unhandled
    BY DEF Unhandled
  <1>2. \A o \in batch \cup Unhandled : o \in Op /\ row[o].status # "NONE"
    BY DEF Orderly, RoundInHand, Interrupted
  <1>3. ASSUME NEW o \in batch \cup Unhandled
        PROVE  /\ Creator(o)' = Creator(o) /\ Creator(o) \in Op
               /\ row'[o] = row[o] /\ row'[Creator(o)] = row[Creator(o)]
    <2>1. Creator(o) \in Op /\ row[Creator(o)].status # "NONE"
      BY <1>2, CreatorIsOlder
    <2> QED  BY <2>1, <1>2 DEF Creator
  <1>4. AnswersForBatch' /\ HandlesBatch'
    BY <1>1 DEF Causes, AnswersForBatch, HandlesBatch, In
  <1>5. MissingHasCause'
    <2> SUFFICES ASSUME NEW s \in Slot, conn = s, NEW o \in batch, Missing(s, o)' PROVE HasCause(s, o)'
      BY DEF MissingHasCause
    <2>1. HasCause(s, o)
      BY DEF Missing, InHandler, Causes, MissingHasCause
    <2> QED  BY <2>1, <1>3 DEF HasCause, FailsWith
  <1>6. AnswerHasCause'
    <2> SUFFICES ASSUME NEW o \in Unhandled
                 PROVE  /\ row'[Creator(o)].status = "PENDING" /\ Creator(o) \notin applied
                             => row'[o].retries < row'[Creator(o)].retries
                        /\ answer[o] = "TRIP_NOT_FOUND" => HeldOrFailed(o)'
      BY <1>1, <1>3 DEF AnswerHasCause
    <2>1. HeldOrFailed(o) => HeldOrFailed(o)'
      BY <1>1, <1>3 DEF HeldOrFailed, FailsWith, Held
    <2> QED  BY <2>1, <1>3 DEF Causes, AnswerHasCause
  <1>7. RetriesBehind'
    <2> SUFFICES ASSUME pc = "retry", NEW o \in batch,
                        row'[Creator(o)].status = "PENDING", Creator(o) \notin applied
                 PROVE  Bump(row'[o].retries) <= row'[Creator(o)].retries
      BY <1>3 DEF RetriesBehind
    <2> QED  BY <1>3 DEF Causes, RetriesBehind
  <1> QED  BY <1>4, <1>5, <1>6, <1>7

(* The answer arrives.                                                     *)
LEMMA AnswerArrives ==
  ASSUME SystemTypeOK, Orderly, QueueAgrees, NothingOvertakes, reinstated = {}, Causes,
         NEW s \in Slot, conn = s, In(s, "replied"), Answered(req[s].result), UNCHANGED payload
  PROVE  HandlesBatch' /\ AnswerHasCause'
  <1>t. req[s].result \in [Op -> Result \cup {"none"}] /\ batch \subseteq Op
    BY DEF SystemTypeOK, QueueTypeOK, ServerTypeOK, Request
  <1>1. /\ pc = "wait" /\ UNCHANGED <<row, batch>>
        /\ \A o \in Op : answer'[o] = IF o \in batch THEN req[s].result[o] ELSE "none"
    BY DEF Answered
  <1>2. req[s].todo = {} /\ \A o \in batch : req[s].result[o] # "none"
    BY DEF Causes, AnswersForBatch, In
  <1>3. Unhandled' = batch
    BY <1>1, <1>2, <1>t DEF Unhandled
  <1>4. ASSUME NEW o \in batch
        PROVE  /\ row[Creator(o)].status = "PENDING" => Creator(o) = o
               /\ answer'[o] = "TRIP_NOT_FOUND" => HeldOrFailed(o)'
               /\ row[o].status = "SYNCING" /\ Creator(o)' = Creator(o)
    <2>1. row[o].status = "SYNCING"
      BY DEF Orderly, RoundInHand, Interrupted
    <2>2. row[Creator(o)].status # "PENDING"
      <3>1. row[Creator(o)].status = "PENDING" => Creator(o) \in batch
        BY <1>1, CreatorInBatch DEF Alive
      <3> QED  BY <3>1 DEF Orderly, RoundInHand, Interrupted
    <2>3. answer'[o] = "TRIP_NOT_FOUND" => HasCause(s, o)
      BY <1>1, <1>t DEF Causes, MissingHasCause, Missing
    <2>4. HasCause(s, o) => HeldOrFailed(o)'
      <3>1. PICK c : c = Creator(o) /\ c = Creator(o)'
        BY DEF Creator
      <3>2. c \in batch => answer'[c] = req[s].result[c]
        BY <1>1, <1>t
      <3> QED  BY <1>1, <1>3, <3>1, <3>2 DEF HasCause, HeldOrFailed, FailsWith
    <2> QED  BY <2>1, <2>2, <2>3, <2>4 DEF Creator
  <1>5. HandlesBatch'
    BY <1>1, <1>3 DEF HandlesBatch
  <1>6. \A o \in batch : row'[Creator(o)'].status # "PENDING"
    <2> SUFFICES ASSUME NEW o \in batch PROVE row[Creator(o)].status # "PENDING"
      BY <1>1, <1>4
    <2> QED  BY <1>4
  <1> QED  BY <1>3, <1>4, <1>5, <1>6 DEF AnswerHasCause

(* A result is handled.                                                    *)
LEMMA ResultHandled ==
  ASSUME SystemTypeOK, Orderly, QueueAgrees, done \subseteq applied, Causes,
         HandleResult, UNCHANGED <<payload, applied>>
  PROVE  HandlesBatch' /\ AnswerHasCause'
  <1>t. QueueTypeOK /\ answer \in [Op -> Result \cup {"none"}] /\ row \in [Op -> Row]
    BY DEF SystemTypeOK, QueueTypeOK
  <1>1. PICK h \in Op : /\ IsFirst(h, Unhandled)
                        /\ ResultDone(h) \/ ResultRetried(h) \/ ResultRejected(h)
                        /\ answer' = [answer EXCEPT ![h] = "none"]
                        /\ batch' = batch \ {h}
    BY DEF HandleResult
  <1>2. Unhandled' = Unhandled \ {h} /\ \A o \in Op \ {h} : answer'[o] = answer[o]
    BY <1>1, <1>t DEF Unhandled
  <1>3. h \in Unhandled /\ row[h].status = "SYNCING" /\ pc = "results" /\ pc' = "results"
    BY <1>1 DEF IsFirst, HandleResult, Orderly, RoundInHand, Interrupted
  <1>r. /\ \A p \in Op \ {h} : row'[p] = row[p]
        /\ ResultDone(h) => row'[h] = row[h] /\ blocked' = blocked
        /\ ResultRetried(h) => /\ row'[h].status = "PENDING" /\ row'[h].retries = Bump(row[h].retries)
                               /\ row[h].retries + 1 < MaxAttempts /\ blocked' = TRUE
        /\ ResultRejected(h) => row'[h].status = "FAILED" /\ blocked' = blocked
    BY <1>1, <1>t, RowsOfResult
  <1>4. HandlesBatch'
    BY <1>1, <1>2, <1>3 DEF HandlesBatch, Causes
  <1>5. ASSUME NEW o \in Unhandled, o # h
        PROVE  /\ row'[Creator(o)].status = "PENDING" /\ Creator(o) \notin applied
                    => row'[o].retries < row'[Creator(o)].retries
               /\ answer[o] = "TRIP_NOT_FOUND" => HeldOrFailed(o)'
    <2>0. PICK c : c = Creator(o) /\ c = Creator(o)'
      BY DEF Creator
    <2>1. o \in Op /\ row[o].status = "SYNCING" /\ row'[o] = row[o]
      BY <1>5, <1>r DEF Orderly, RoundInHand, Interrupted
    <2>2. c \in Op
      BY <2>0, <2>1, CreatorIsOlder
    <2>3. /\ row[c].status = "PENDING" /\ c \notin applied => row[o].retries < row[c].retries
          /\ answer[o] = "TRIP_NOT_FOUND" => HeldOrFailed(o)
      BY <2>0 DEF Causes, AnswerHasCause
    <2>4. CASE c # h
      <3>1. row'[c] = row[c] /\ answer'[c] = answer[c]
        BY <2>2, <2>4, <1>r, <1>2
      <3>2. blocked => blocked'
        BY <1>1, <1>r
      <3>3. HeldOrFailed(o) => HeldOrFailed(o)'
        BY <2>0, <2>1, <2>4, <3>1, <3>2, <1>2 DEF HeldOrFailed, FailsWith, Held
      <3> QED  BY <2>0, <2>1, <2>3, <3>1, <3>3
    <2>5. CASE c = h /\ ResultDone(h)
      <3>1. row'[c].status = "SYNCING" /\ row[c].status = "SYNCING" /\ Succeeded(answer[c])
        BY <2>5, <1>3, <1>r DEF ResultDone
      <3>2. ~HeldOrFailed(o)
        BY <2>0, <3>1 DEF HeldOrFailed, FailsWith, Held, Succeeded, Code
      <3> QED  BY <2>0, <2>3, <3>1, <3>2
    <2>6. CASE c = h /\ ResultRetried(h)
      <3>1. row[h].retries \in 0..MaxAttempts /\ row[o].retries \in 0..MaxAttempts
        BY <2>1, <1>t DEF Row
      <3>2. /\ row[o].retries <= row[h].retries => row'[o].retries < row'[c].retries
            /\ row'[c].retries < MaxAttempts /\ row'[c].status = "PENDING" /\ blocked'
        BY <2>1, <2>6, <3>1, <1>r, SyncQueueAssumption DEF Bump
      <3>3. c \notin applied => row[o].retries <= row[h].retries
        BY <2>0, <2>1, <2>6, <1>3, <1>5 DEF Causes, FollowersTryLess, Alive
      <3>4. HeldOrFailed(o) => HeldOrFailed(o)'
        <4>1. HeldOrFailed(o) => row[o].retries <= row[h].retries
          BY <2>0, <2>6, <1>3 DEF HeldOrFailed, FailsWith, Held
        <4> QED  BY <2>0, <2>6, <3>2, <4>1, <1>5 DEF HeldOrFailed, Held
      <3> QED  BY <2>0, <2>3, <3>2, <3>3, <3>4, <2>6
    <2>7. CASE c = h /\ ResultRejected(h)
      <3>1. row'[c].status = "FAILED"
        BY <2>7, <1>r
      <3>2. HeldOrFailed(o)'
        BY <2>0, <2>7, <3>1, <1>5 DEF HeldOrFailed
      <3> QED  BY <2>0, <3>1, <3>2
    <2> QED  BY <2>4, <2>5, <2>6, <2>7, <1>1
  <1>6. \A o \in Unhandled' : o \in Unhandled /\ o # h /\ answer'[o] = answer[o] /\ Creator(o)' = Creator(o)
    BY <1>2 DEF Unhandled, Creator
  <1>7. AnswerHasCause'
    <2> SUFFICES ASSUME NEW o \in Unhandled'
                 PROVE  /\ row'[Creator(o)'].status = "PENDING" /\ Creator(o)' \notin applied
                             => row'[o].retries < row'[Creator(o)'].retries
                        /\ answer'[o] = "TRIP_NOT_FOUND" => HeldOrFailed(o)'
      BY DEF AnswerHasCause
    <2> QED  BY <1>5, <1>6
  <1> QED  BY <1>4, <1>7

LEMMA StepHasCauses ==
  ASSUME Agreed, OwnSession, Blamed, NothingOvertakes, reinstated = {}, Causes,
         SystemTypeOK', Orderly', Blamed', "retry" \notin UserDoes, Next
  PROVE  Causes' /\ reinstated' = {}
  <1>a. SystemTypeOK /\ Orderly /\ QueueAgrees /\ RequestsAsSent /\ done \subseteq applied
    BY DEF Agreed, Backed, SuccessIsBacked, Blamed
  <1>k. RowsKept
    BY <1>a, StepKeepsRows
  <1>m. applied \subseteq applied'
    BY <1>a, ServerMoves
  <1>q. row \in [Op -> Row] /\ payload \in [Op -> Payload]
    BY <1>a DEF SystemTypeOK, QueueTypeOK, ServerTypeOK
  <1>1. FollowersTryLess'
    BY <1>a, <1>k, <1>m, StepTriesLess
  <1>2. reinstated' = {}
    <2>1. ~UserRetries
      BY DEF UserRetries
    <2>2. CASE ContinueRound \/ KillApp
      BY <2>2 DEF ContinueRound, KillApp
    <2>3. CASE ~ContinueRound /\ ~KillApp
      BY <2>1, <2>3 DEF Next, Create, DeleteLocalRoute, RecordFix, CloseTrip, QueuePendingPoints, Login,
                   ClockTicks, StartRound, SendRequest, Deliver, Discard, GiveUp, GatewayTimeout,
                   ServerCrash, Work, Fail
    <2> QED  BY <2>2, <2>3
  <1> DEFINE Rest == /\ AnswersForBatch' /\ HandlesBatch' /\ MissingHasCause' /\ AnswerHasCause'
                     /\ RetriesBehind'
  <1>v. ASSUME pc' # "retry" PROVE RetriesBehind'
    BY <1>v DEF RetriesBehind
  <1>n. ASSUME pc' \notin {"wait", "results"}, RetriesBehind' PROVE Rest
    <2>1. conn' = NoSlot /\ NoSlot \notin Slot
      BY <1>n, SyncSystemAssumption DEF Blamed, RequestsAsSent
    <2>2. Unhandled' = {}
      BY <1>n DEF Orderly, RoundInHand
    <2> QED  BY <1>n, <2>1, <2>2 DEF AnswersForBatch, HandlesBatch, MissingHasCause, AnswerHasCause
  <1>w. ASSUME pc' = "wait" PROVE HandlesBatch' /\ AnswerHasCause' /\ RetriesBehind'
    <2>1. Unhandled' = {}
      BY <1>w DEF Orderly, RoundInHand
    <2> QED  BY <1>w, <1>v, <2>1 DEF HandlesBatch, AnswerHasCause
  <1>r. ASSUME pc' = "results" PROVE AnswersForBatch' /\ MissingHasCause' /\ RetriesBehind'
    <2>1. conn' = NoSlot /\ NoSlot \notin Slot
      BY <1>r, SyncSystemAssumption DEF Blamed, RequestsAsSent
    <2> QED  BY <1>r, <1>v, <2>1 DEF AnswersForBatch, MissingHasCause
  (* When a request fails, no creation it depends on is pending. *)
  <1>f. ASSUME Unavailable, payload' = payload PROVE Rest
    <2>1. pc = "wait" /\ pc' = "retry" /\ UNCHANGED <<row, batch>>
      BY <1>f DEF Unavailable
    <2>2. ASSUME NEW o \in batch PROVE row[Creator(o)].status # "PENDING" /\ Creator(o)' = Creator(o)
      <3>1. row[Creator(o)].status = "PENDING" => Creator(o) \in batch
        BY <2>1, <1>a, CreatorInBatch DEF Alive
      <3> QED  BY <3>1, <1>f, <1>a DEF Orderly, RoundInHand, Interrupted, Creator
    <2>3. RetriesBehind'
      BY <2>1, <2>2 DEF RetriesBehind
    <2> QED  BY <2>1, <2>3, <1>n
  (* Each operation is put back behind its creation. *)
  <1>b. ASSUME RetryNext, UNCHANGED <<payload, applied>> PROVE Rest
    <2>1. PICK h \in Op : IsFirst(h, batch) /\ row' = [row EXCEPT ![h] = Retried(@)] /\ batch' = batch \ {h}
      BY <1>b DEF RetryNext
    <2>2. pc = "retry" /\ pc' \notin {"wait", "results"} /\ row[h].status = "SYNCING"
      BY <1>b, <2>1, <1>a DEF RetryNext, IsFirst, Orderly, RoundInHand, Interrupted
    <2>3. row'[h].retries = Bump(row[h].retries) /\ \A p \in Op : p # h => row'[p] = row[p]
      BY <2>1, <1>q DEF Retried, Row
    <2>4. ASSUME NEW o \in batch, o # h, row'[Creator(o)].status = "PENDING", Creator(o) \notin applied
          PROVE  Bump(row'[o].retries) <= row'[Creator(o)].retries
      <3>1. o \in Op /\ row[o].status = "SYNCING" /\ row'[o] = row[o]
        BY <2>3, <2>4, <1>a DEF Orderly, RoundInHand, Interrupted
      <3>2. Creator(o) \in Op
        BY <3>1, <1>a, CreatorIsOlder
      <3>3. CASE Creator(o) = h
        <4>1. row[o].retries <= row[h].retries
          BY <3>1, <3>3, <2>2, <2>4 DEF Causes, FollowersTryLess, Alive
        <4>2. row[o].retries \in 0..MaxAttempts /\ row[h].retries \in 0..MaxAttempts
          BY <3>1, <1>q DEF Row
        <4> QED  BY <4>1, <4>2, <3>1, <3>3, <2>3, BumpGrows
      <3>4. CASE Creator(o) # h
        BY <3>1, <3>2, <3>4, <2>2, <2>3, <2>4 DEF Causes, RetriesBehind
      <3> QED  BY <3>3, <3>4
    <2>5. \A o : Creator(o)' = Creator(o)
      BY <1>b DEF Creator
    <2>6. RetriesBehind'
      <3> SUFFICES ASSUME NEW o \in batch', row'[Creator(o)'].status = "PENDING", Creator(o)' \notin applied'
                   PROVE  Bump(row'[o].retries) <= row'[Creator(o)'].retries
        BY DEF RetriesBehind
      <3> QED  BY <2>1, <2>4, <2>5, <1>b
    <2> QED  BY <2>2, <2>6, <1>n
  <1>u. ASSUME UNCHANGED <<roundVars, conn>>,
               \A p \in Op : row[p].status # "NONE" => row'[p] = row[p] /\ payload'[p] = payload[p],
               \A s \in Slot : conn = s => req'[s] = req[s]
        PROVE  Rest
    BY <1>u, <1>a, <1>m, CausesUntouched DEF roundVars
  <1>i. \A o \in Op : IsNext(o) => \A p \in Op : row[p].status # "NONE" => p # o /\ p # o + 1
    BY SyncTypesAssumption DEF IsNext
  <1>3. ASSUME NEW o \in Op, NEW a, NEW k, NEW i, Add(o, a), Queued(o, k, i), UNCHANGED <<conn, serverVars>>
        PROVE  Rest
    BY <1>3, <1>u, <1>i, <1>q DEF Add, Queued, serverVars
  <1>4. ASSUME \/ \E o \in Op, k \in Kind : Create(o, k)
               \/ \E o, i \in Op : DeleteLocalRoute(o, i)
        PROVE  Rest
    BY <1>4, <1>3 DEF Create, DeleteLocalRoute, ServerIdle
  <1>5. ASSUME NEW o \in Op, NEW i \in Op, NEW k \in Kind, CloseTrip(o, i, k) PROVE Rest
    <2>1. CASE i \notin unqueued
      BY <1>5, <2>1, <1>3 DEF CloseTrip, ServerIdle
    <2>2. CASE i \in unqueued
      <3>1. /\ IsNext(o) /\ o + 1 \in Op /\ UNCHANGED <<roundVars, conn, serverVars>>
            /\ row' = [row EXCEPT ![o] = NewRow(row[i].owner), ![o + 1] = NewRow(row[i].owner)]
            /\ payload' = [payload EXCEPT ![o] = [kind |-> "points:CREATE", item |-> i],
                                          ![o + 1] = [kind |-> k, item |-> i]]
        BY <1>5, <2>2 DEF CloseTrip, ServerIdle
      <3>2. \A p \in Op : p # o /\ p # o + 1 => row'[p] = row[p] /\ payload'[p] = payload[p]
        BY <3>1, <1>q
      <3> QED  BY <3>1, <3>2, <1>u, <1>i DEF serverVars
    <2> QED  BY <2>1, <2>2
  <1>6. ASSUME \/ \E i \in Op : RecordFix(i)
               \/ \E a \in Owner : Login(a)
        PROVE  Rest
    BY <1>6, <1>u DEF RecordFix, Login, SwitchSession, queueVars, ServerIdle, serverVars
  <1>7. ASSUME QueuePendingPoints \/ StartRound \/ KillApp \/ \E o \in Op : ClockTicks(o)
        PROVE  Rest
    <2>1. pc' \in {"idle", "points", "select"}
      BY <1>7 DEF QueuePendingPoints, PointsQueued, StartRound, BeginRound, KillApp, AppKilled,
                  ClockTicks, BackoffOver, roundVars
    <2> QED  BY <2>1, <1>n, <1>v
  <1>8. ASSUME ContinueRound PROVE Rest
    <2>1. CASE HandleResult
      <3>1. UNCHANGED <<payload, applied>> /\ pc' = "results"
        BY <1>8, <2>1 DEF ContinueRound, ServerIdle, serverVars, HandleResult
      <3> QED  BY <2>1, <3>1, <1>a, <1>r, ResultHandled
    <2>2. CASE RetryNext
      BY <1>8, <2>2, <1>b DEF ContinueRound, ServerIdle, serverVars
    <2>3. CASE ~HandleResult /\ ~RetryNext
      <3>1. pc' \in {"post", "finish", "select", "idle"}
        BY <1>8, <2>3 DEF ContinueRound, RoundStep, SelectBatch, PushOver, BatchOver, FinishRound,
                          PostUnauthorized, Release
      <3> QED  BY <3>1, <1>n, <1>v
    <2> QED  BY <2>1, <2>2, <2>3
  <1>9. ASSUME NEW s \in Slot, SendRequest(s) PROVE Rest
    <2> DEFINE q == [Free EXCEPT !.phase = "sent", !.user = session, !.todo = batch]
    <2>1. req' = [req EXCEPT ![s] = q] /\ conn' = s /\ batch' = batch /\ pc' = "wait"
      BY <1>9 DEF SendRequest, Arrive, Post
    <2>2. q.todo = batch /\ q.phase = "sent" /\ q.result = NoAnswer
      BY DEF Free
    <2> HIDE DEF q
    <2>3. req'[s] = q /\ batch \subseteq Op
      BY <2>1, <1>a DEF SystemTypeOK, ServerTypeOK, QueueTypeOK
    <2>4. AnswersForBatch'
      BY <2>1, <2>2, <2>3 DEF AnswersForBatch, In, Processing
    <2>5. MissingHasCause'
      BY <2>1, <2>2, <2>3 DEF MissingHasCause, Missing, InHandler, NoAnswer
    <2> QED  BY <2>1, <2>4, <2>5, <1>w
  <1>10. ASSUME NEW s \in Slot, Deliver(s) PROVE Rest
    <2>1. /\ conn = s /\ payload' = payload
          /\ \/ In(s, "replied") /\ Answered(req[s].result)
             \/ SplitBatch \/ RejectSingle \/ Unavailable
      BY <1>10 DEF Deliver
    <2>2. CASE In(s, "replied") /\ Answered(req[s].result)
      <3>1. pc' = "results"
        BY <2>2 DEF Answered
      <3> QED  BY <2>1, <2>2, <3>1, <1>a, <1>r, AnswerArrives
    <2>3. CASE SplitBatch \/ RejectSingle
      BY <2>3, <1>n, <1>v DEF SplitBatch, RejectSingle
    <2> QED  BY <2>1, <2>2, <2>3, <1>f
  <1>11. ASSUME NEW s \in Slot, UNCHANGED <<queueVars, payload, conn>>, conn # s,
                \/ Serve(s) \/ ServerFault(s) \/ CrashServing(s) \/ Leave(s)
         PROVE  Rest
    <2>1. \A t \in Slot \ {s} : req'[t] = req[t]
      BY <1>11, <1>a, ServerStepSends DEF SystemTypeOK
    <2> QED  BY <1>11, <2>1, <1>u DEF queueVars
  <1>12. ASSUME NEW s \in Slot, Work(s) \/ Fail(s) PROVE Rest
    <2>1. UNCHANGED <<queueVars, payload, conn>> /\ (Serve(s) \/ ServerFault(s))
      BY <1>12 DEF Work, Fail
    <2>2. CASE conn = s
      <3>1. pc = "wait" /\ pc' = "wait"
        BY <2>1, <2>2, <1>a, SyncSystemAssumption DEF RequestsAsSent, queueVars, roundVars
      <3>2. UNCHANGED <<row, batch, conn, payload>>
        BY <2>1 DEF queueVars, roundVars
      <3>3. AnswersForBatch' /\ MissingHasCause'
        BY <2>1, <2>2, <3>1, <3>2, <1>a, AwaitedStep, MissingTrip
      <3> QED  BY <3>1, <3>3, <1>w
    <2> QED  BY <2>1, <2>2, <1>11
  <1>13. ASSUME NEW s \in Slot, Discard(s) \/ GiveUp(s) \/ GatewayTimeout(s) \/ ServerCrash(s) PROVE Rest
    <2>1. CASE Discard(s)
      BY <2>1, <1>11 DEF Discard
    <2>2. CASE NoReply
      BY <2>2, <1>n, <1>v DEF NoReply, Release
    <2>3. CASE ServerCrash(s) /\ conn # s
      BY <2>3, <1>11 DEF ServerCrash
    <2>4. CASE GatewayTimeout(s)
      BY <2>4, <1>f DEF GatewayTimeout
    <2> QED  BY <1>13, <2>1, <2>2, <2>3, <2>4 DEF GiveUp, ServerCrash
  <1>14. Rest
    <2> HIDE DEF Rest
    <2>1. ~UserRetries
      BY DEF UserRetries
    <2> QED  BY <2>1, <1>4, <1>5, <1>6, <1>7, <1>8, <1>9, <1>10, <1>12, <1>13 DEF Next
  <1> QED  BY <1>1, <1>2, <1>14 DEF Causes

(* What is set aside as missing is so while its creation is set aside.     *)
LEMMA StepFailsWithCause ==
  ASSUME SystemTypeOK, Orderly, QueueAgrees, done \subseteq applied, Causes,
         "retry" \notin UserDoes, Next,
         NEW o \in Op, row[o].status = "SYNCING", row'[o].status = "FAILED",
         row'[o].error = "TRIP_NOT_FOUND"
  PROVE  row[Creator(o)].status = "FAILED"
  <1>q. QueueTypeOK /\ row \in [Op -> Row]
    BY DEF SystemTypeOK, QueueTypeOK
  <1>1. HandleResult
    <2>1. ~Untried
      BY DEF Untried
    <2>2. ~RetryNext
      <3>1. \A r \in Row : Retried(r).status = "PENDING"
        BY DEF Retried, Row
      <3>2. RetryNext => row'[o] = Retried(row[o]) \/ row'[o] = row[o]
        BY <1>q DEF RetryNext
      <3> QED  BY <3>1, <3>2, <1>q
    <2>3. ~UserRetries
      BY DEF UserRetries
    <2> QED  BY <2>1, <2>2, <2>3, AttemptsOfStep
  <1>2. PICK h \in Op : IsFirst(h, Unhandled) /\ (ResultDone(h) \/ ResultRetried(h) \/ ResultRejected(h))
    BY <1>1 DEF HandleResult
  <1>3. h = o /\ ResultRejected(o)
    BY <1>2, <1>q, RowsOfResult
  <1>4. /\ o \in Unhandled /\ \A p \in Unhandled : o <= p
        /\ answer[o] = "TRIP_NOT_FOUND" /\ ~MayRetry(o)
    <2>1. row'[o] = Rejected(row[o], answer[o]) /\ ~MayRetry(o)
      BY <1>3, <1>q DEF ResultRejected
    <2>2. ASSUME NEW r \in Row, NEW e PROVE Rejected(r, e).error = e
      BY DEF Rejected, Row
    <2>3. row'[o].error = answer[o]
      BY <2>1, <2>2, <1>q
    <2>4. IsFirst(o, Unhandled)
      BY <1>2, <1>3
    <2> QED  BY <2>1, <2>3, <2>4 DEF IsFirst
  <1>5. HeldOrFailed(o)
    BY <1>4 DEF Causes, AnswerHasCause
  <1>6. Creator(o) \in Op /\ Creator(o) <= o
    BY CreatorIsOlder
  <1>7. Creator(o) \notin Unhandled
    <2>1. Creator(o) # o
      BY <1>5 DEF HeldOrFailed
    <2> QED  BY <2>1, <1>4, <1>6, SyncTypesAssumption
  <1>8. ~Held(o, Creator(o))
    <2>1. row[o].retries \in 0..MaxAttempts /\ row[Creator(o)].retries \in 0..MaxAttempts
      BY <1>6, <1>q DEF Row
    <2> QED  BY <2>1, <1>4, SyncQueueAssumption DEF MayRetry, Held
  <1> QED  BY <1>5, <1>7, <1>8 DEF HeldOrFailed

(* Points, finish and cancel of a trip are set aside as TRIP_NOT_FOUND only*)
(* when the creation of the trip was set aside before, through outages,    *)
(* lost answers, crashes and requests that overlap, for any number of      *)
(* attempts: as long as requests go out with the session of their account  *)
(* and the user puts back nothing of what was set aside.  A creation put   *)
(* back between two rounds starts with fresh attempts, what depends on it  *)
(* does not, and is given up before it.                                    *)
THEOREM FailuresAlwaysCausal ==
  "retry" \notin UserDoes => (Spec /\ []OwnSession => CausalFailure)
  <1> SUFFICES ASSUME "retry" \notin UserDoes PROVE Spec /\ []OwnSession => CausalFailure
    OBVIOUS
  <1>1. Init => Causes /\ reinstated = {}
    <2> SUFFICES ASSUME Init PROVE Causes
      BY DEF Init
    <2>1. \A o \in Op : row[o].status = "NONE"
      BY DEF Init, QueueInit, NoRow
    <2>2. Unhandled = {} /\ batch = {} /\ pc = "idle" /\ \A s \in Slot : conn # s
      BY SyncSystemAssumption DEF Init, QueueInit, Unhandled, NoAnswer
    <2> QED  BY <2>1, <2>2 DEF Causes, FollowersTryLess, Alive, AnswersForBatch, HandlesBatch,
                               MissingHasCause, AnswerHasCause, RetriesBehind
  <1>2. /\ Agreed /\ Agreed' /\ OwnSession /\ Blamed /\ Blamed' /\ NothingOvertakes
        /\ Causes /\ reinstated = {} /\ [Next]_vars
        => (Causes /\ reinstated = {})' /\ [\A o \in Op :
             /\ row[o].status = "SYNCING" /\ row'[o].status = "FAILED"
             /\ row'[o].error = "TRIP_NOT_FOUND"
             => LET creation == payload[o].item
                IN  row[creation].status = "FAILED" \/ creation \in reinstated]_vars
    <2> SUFFICES ASSUME Agreed, Agreed', OwnSession, Blamed, Blamed', NothingOvertakes,
                        Causes, reinstated = {}, [Next]_vars
                 PROVE  /\ (Causes /\ reinstated = {})'
                        /\ UNCHANGED vars \/
                             \A o \in Op : row[o].status = "SYNCING" /\ row'[o].status = "FAILED"
                                           /\ row'[o].error = "TRIP_NOT_FOUND"
                                             => row[Creator(o)].status = "FAILED"
      BY DEF Creator
    <2>1. CASE UNCHANGED vars
      <3>1. UNCHANGED <<row, payload, batch, conn, req, applied, pc, answer, blocked, reinstated>>
        BY <2>1 DEF vars, queueVars, roundVars, serverVars
      <3> QED  BY <2>1, <3>1 DEF Causes, FollowersTryLess, Alive, Creator, AnswersForBatch, In, InHandler,
                  HandlesBatch, Unhandled, MissingHasCause, Missing, HasCause, AnswerHasCause,
                  HeldOrFailed, Held, FailsWith, RetriesBehind
    <2>2. CASE Next
      <3>1. SystemTypeOK /\ Orderly /\ QueueAgrees /\ done \subseteq applied
            /\ SystemTypeOK' /\ Orderly'
        BY DEF Agreed, Backed, SuccessIsBacked
      <3>2. (Causes /\ reinstated = {})'
        BY <2>2, <3>1, StepHasCauses
      <3> QED  BY <2>2, <3>1, <3>2, StepFailsWithCause
    <2> QED  BY <2>1, <2>2
  <1>3. Spec /\ []OwnSession => []Agreed
    BY InitAgrees, StepAgrees, PTL DEF Spec
  <1>4. Spec => [](SystemTypeOK /\ Blamed)
    <2>1. Init => SystemTypeOK /\ Blamed
      BY InitType, InitBlames
    <2>2. SystemTypeOK /\ Blamed /\ [Next]_vars => (SystemTypeOK /\ Blamed)'
      BY StepType, StepBlames
    <2> QED  BY <2>1, <2>2, PTL DEF Spec
  <1> QED  BY <1>1, <1>2, <1>3, <1>4, NothingEverOvertakes, PTL DEF Spec, CausalFailure
-----------------------------------------------------------------------------
(* Routes converge too, if requests do not overlap and no handler fails    *)
(* for a time.                                                             *)

HIDE DEF Op, Owner

OneAtATime == \A s, t \in Slot : s = t
NoFailingHandler == Fault \cap {"dispatch", "record"} = {}

(* The server knows that it applied operation o. *)
Written(o) == row[o].status # "NONE" /\ event[row[o].owner][o] = "APPLIED"

(* A creation that will never be applied, or one that will not be again.   *)
Hopeless == Invalid \cup Refused
Saved(i) == Written(i) \/ i \in Hopeless

(* Operation o fails, which the creation of a route only does for good. *)
FailsForGood(o) ==
  row[o].status # "NONE" /\ (payload[o].kind = "route:UPSERT" => o \in Hopeless)

(* What request q says was applied is recorded; it skips what is recorded, *)
(* and no deletion of a route is ahead of its creation.                    *)
RequestInOrder(q) ==
  /\ \A o \in Op : o \in q.seen \/ Succeeded(q.result[o]) => Written(o)
  /\ \A o \in Op : q.result[o] # "none" /\ ~Succeeded(q.result[o]) => FailsForGood(o)
  /\ q.phase \in Processing =>
       q.todo \cap Refused = {} /\ \A o \in q.todo : o \in q.seen <=> Written(o)
  /\ q.phase \in {"writing", "measuring", "recording"} =>
       \A o \in Op : IsFirst(o, q.todo) => o \notin q.seen /\ (q.code # "OK" => FailsForGood(o))
  /\ \A d \in q.todo : payload[d].kind = "route:DELETE" =>
       Creator(d) \in q.todo \/ Saved(Creator(d))

RequestsInOrder == \A s \in Slot : RequestInOrder(req[s])

(* The same of what the phone was told. *)
PhoneInOrder ==
  /\ \A o \in Op : Succeeded(answer[o]) \/ o \in done \/ row[o].status = "COMPLETED" => Written(o)
  /\ \A o \in Op : \/ answer[o] # "none" /\ ~Succeeded(answer[o])
                   \/ row[o].status = "FAILED" \/ o \in reinstated
                   => FailsForGood(o)

(* A route is there if its creation was applied and its deletion was not,  *)
(* and whoever deleted it will not have it created again.                  *)
RoutesAgreeOn(st, A) ==
  /\ A \cap Hopeless = {}
  /\ \A d \in A : payload[d].kind = "route:DELETE" => Saved(Creator(d))
  /\ \A i \in Op : row[i].status # "NONE" /\ payload[i].kind = "route:UPSERT" =>
       st.owner[i] = IF i \in A /\ AppliedOf(A, "route:DELETE", i) = {} THEN row[i].owner ELSE NoAccount

RoutesAgree == RoutesAgreeOn(store, applied)

RoutesInOrder == RequestsInOrder /\ PhoneInOrder /\ RoutesAgree

-----------------------------------------------------------------------------
LEMMA RoutesInOrderConverge == Agreed /\ RoutesInOrder => RouteConverged
  <1> SUFFICES ASSUME Agreed, RoutesInOrder, NEW i \in Inserted, payload[i].kind = "route:UPSERT",
                      AllCompleted(i)
               PROVE  store.owner[i] = IF IsQueued("route:DELETE", i) THEN NoAccount ELSE row[i].owner
    BY DEF RouteConverged
  <1>t. payload \in [Op -> Payload] /\ applied \subseteq Op /\ i \in Op /\ row[i].status # "NONE"
    BY DEF Agreed, Backed, SystemTypeOK, ServerTypeOK, Inserted
  <1>1. \A o \in About(i) : o \in applied
    BY DEF Agreed, Backed, CompletedWasApplied, AllCompleted, About, Inserted
  <1>2. i \in applied
    <2>1. payload[i].item = i
      BY <1>t DEF Agreed, QueueAgrees, TableAgrees, ItemAgrees, Creation
    <2> QED  BY <2>1, <1>1, <1>t DEF About
  <1>3. AppliedOf(applied, "route:DELETE", i) # {} <=> IsQueued("route:DELETE", i)
    <2>1. \A o \in applied : o \in Inserted
      BY <1>t DEF Agreed, StoreAgrees, StoreAgreesOn, Inserted
    <2>2. \A o \in Inserted : payload[o] = [kind |-> "route:DELETE", item |-> i] => o \in applied
      BY <1>1 DEF About
    <2> QED  BY <2>1, <2>2 DEF AppliedOf, IsQueued
  <1>4. store.owner[i] = IF i \in applied /\ AppliedOf(applied, "route:DELETE", i) = {}
                         THEN row[i].owner ELSE NoAccount
    BY <1>t DEF RoutesInOrder, RoutesAgree, RoutesAgreeOn
  <1> QED  BY <1>2, <1>3, <1>4

LEMMA InitRoutesInOrder == Init => RoutesInOrder
  <1> SUFFICES ASSUME Init PROVE RoutesInOrder
    OBVIOUS
  <1>1. \A o \in Op : row[o].status = "NONE"
    BY DEF Init, QueueInit, NoRow
  <1>2. \A s \in Slot : RequestInOrder(req[s])
    BY DEF Init, ServerInit, Free, NoAnswer, Succeeded, RequestInOrder, Processing
  <1>3. PhoneInOrder
    BY <1>1 DEF Init, QueueInit, NoAnswer, Succeeded, PhoneInOrder
  <1>4. RoutesAgree
    BY <1>1 DEF Init, ServerInit, RoutesAgree, RoutesAgreeOn
  <1> QED  BY <1>2, <1>3, <1>4 DEF RoutesInOrder, RequestsInOrder

(* What is known of an operation stays so while the events are kept.       *)
LEMMA KnowledgeKept ==
  ASSUME RowsKept, \A o \in Op : Written(o) => event'[row[o].owner][o] = "APPLIED"
  PROVE  /\ \A o \in Op : Written(o) => Written(o)'
         /\ \A o \in Op : FailsForGood(o) => FailsForGood(o)'
         /\ \A o \in Op : Saved(o) => Saved(o)'
  BY DEF RowsKept, Written, FailsForGood, Saved, Hopeless

(* A request in the server is in order as long as nothing new is recorded  *)
(* of what it has to do.                                                   *)
LEMMA RequestKept ==
  ASSUME SystemTypeOK, QueueAgrees, RowsKept, NEW q \in Request, RequestInOrder(q),
         \A o \in q.todo : row[o].status # "NONE", UNCHANGED event
  PROVE  RequestInOrder(q)'
  <1>1. /\ \A o \in Op : Written(o) => Written(o)'
        /\ \A o \in Op : FailsForGood(o) => FailsForGood(o)'
        /\ \A o \in Op : Saved(o) => Saved(o)'
    BY KnowledgeKept DEF Written
  <1>2. q.todo \subseteq Op
    BY DEF Request
  <1>3. ASSUME NEW o \in q.todo
        PROVE  (Written(o)' <=> Written(o)) /\ Creator(o)' = Creator(o) /\ Creator(o) \in Op
               /\ payload'[o] = payload[o]
    BY <1>2, CreatorIsOlder DEF RowsKept, Written, Creator
  <1> QED  BY <1>1, <1>2, <1>3 DEF RequestInOrder

(* Operation o of the request leaves it with result r. *)
LEMMA ResultInOrder ==
  ASSUME SystemTypeOK, QueueAgrees, InQueue, NEW s \in Slot, RequestInOrder(req[s]),
         NEW o \in Op, NEW r \in Result, Settle(s, o, r), IsFirst(o, req[s].todo),
         req[s].phase \in Processing, UNCHANGED <<row, payload>>,
         Succeeded(r) => Written(o)', ~Succeeded(r) => FailsForGood(o), Written(o) => Written(o)',
         \A x \in Op \ {o} : Written(x)' <=> Written(x)
  PROVE  RequestInOrder(req[s])'
  <1>t. req \in [Slot -> Request] /\ req[s] \in Request
    BY DEF SystemTypeOK, ServerTypeOK
  <1>1. /\ req'[s].todo = req[s].todo \ {o} /\ req'[s].phase = "serving" /\ req'[s].seen = req[s].seen
        /\ req'[s].result = [req[s].result EXCEPT ![o] = r]
    BY <1>t DEF Settle, Processed, Request
  <1>2. \A p \in Op : req'[s].result[p] = IF p = o THEN r ELSE req[s].result[p]
    BY <1>1, <1>t DEF Request
  <1>3. /\ \A x \in Op : Written(x) => Written(x)'
        /\ \A x \in Op : FailsForGood(x)' <=> FailsForGood(x)
        /\ \A x \in Op : Saved(x) => Saved(x)'
    BY DEF FailsForGood, Saved, Hopeless
  <1>4. req[s].todo \subseteq Op
    BY <1>t DEF Request
  <1>5. ASSUME NEW d \in req'[s].todo, payload[d].kind = "route:DELETE"
        PROVE  Creator(d)' \in req'[s].todo \/ Saved(Creator(d))'
    <2>1. d \in req[s].todo /\ row[d].status # "NONE" /\ Creator(d)' = Creator(d)
      BY <1>1, <1>5 DEF InQueue, Creator
    <2>2. Creator(d) \in Op /\ payload[Creator(d)].kind = "route:UPSERT"
      BY <2>1, <1>4, <1>5, CreatorIsOlder DEF QueueAgrees, TableAgrees, ItemAgrees, Creator, RouteKind
    <2>3. Creator(d) \in req[s].todo \/ Saved(Creator(d))
      BY <2>1, <1>5 DEF RequestInOrder
    <2>4. Creator(d) = o => Saved(Creator(d))'
      BY <2>1, <2>2 DEF Saved, FailsForGood, Hopeless
    <2> QED  BY <2>1, <2>2, <2>3, <2>4, <1>1, <1>3
  <1>6. /\ \A x \in Op : x \in req'[s].seen \/ Succeeded(req'[s].result[x]) => Written(x)'
        /\ \A x \in Op : req'[s].result[x] # "none" /\ ~Succeeded(req'[s].result[x]) => FailsForGood(x)'
    BY <1>1, <1>2, <1>3 DEF RequestInOrder
  <1>7. req'[s].todo \cap Refused = {} /\ \A x \in req'[s].todo : x \in req'[s].seen <=> Written(x)'
    BY <1>1, <1>4 DEF RequestInOrder
  <1> QED  BY <1>1, <1>5, <1>6, <1>7 DEF RequestInOrder

(* The handler of a route finds it free or of its own user.                *)
LEMMA RouteHandled ==
  ASSUME SystemTypeOK, Backed, QueueAgrees, InQueue, OwnSession, RoutesAgree,
         NEW s \in Slot, NEW o \in Op, o \in req[s].todo, payload[o].kind = "route:UPSERT",
         Handled(req[s].user, o).code # "OK"
  PROVE  o \in Invalid
  <1>1. row[o].status # "NONE" /\ row[o].owner = req[s].user
    BY DEF InQueue, OwnSession
  <1>2. payload[o].item = o
    BY <1>1 DEF QueueAgrees, TableAgrees, ItemAgrees, Creation
  <1>3. store.owner[o] \in {NoAccount, req[s].user}
    BY <1>1 DEF RoutesAgree, RoutesAgreeOn
  <1>4. o \notin Invalid => Handled(req[s].user, o) = UpsertRoute(store, req[s].user, o)
    BY <1>2 DEF Handled
  <1> QED  BY <1>3, <1>4 DEF UpsertRoute, Ok

LEMMA ServerStepInOrder ==
  ASSUME SystemTypeOK, Backed, QueueAgrees, InQueue, OwnSession, RoutesAgree, NoFailingHandler,
         NEW s \in Slot, RequestInOrder(req[s]), UNCHANGED <<row, payload>>,
         Serve(s) \/ ServerFault(s)
  PROVE  /\ RequestInOrder(req[s])'
         /\ \A o \in Op : Written(o) => Written(o)'
  <1>t. req \in [Slot -> Request] /\ req[s] \in Request /\ req[s].todo \subseteq Op
        /\ req[s].phase \in Phase
    BY DEF SystemTypeOK, ServerTypeOK, Request
  <1>o. \A o \in req[s].todo : o \in Op /\ row[o].status # "NONE" /\ row[o].owner = req[s].user
    BY <1>t DEF InQueue, OwnSession
  <1>w. ASSUME UNCHANGED event
        PROVE  /\ \A x \in Op : Written(x)' <=> Written(x)
               /\ \A x \in Op : FailsForGood(x)' <=> FailsForGood(x)
               /\ \A x \in Op : Saved(x)' <=> Saved(x)
               /\ \A x \in Op : Creator(x)' = Creator(x)
    BY <1>w DEF Written, FailsForGood, Saved, Hopeless, Creator
  <1>c. \A d \in req[s].todo : Creator(d) \in Op
    BY <1>o, CreatorIsOlder
  <1>k. ASSUME UNCHANGED event, req'[s].todo = req[s].todo, req'[s].result = req[s].result,
               req'[s].seen = req[s].seen, req'[s].phase \notin Processing
        PROVE  RequestInOrder(req[s])'
    BY <1>k, <1>w, <1>t, <1>c DEF RequestInOrder, Processing
  (* The handler of the next operation goes on, or has a verdict. *)
  <1>h. ASSUME NEW o \in Op, IsFirst(o, req[s].todo), req[s].phase \in Processing, o \notin req[s].seen,
               UNCHANGED event, req'[s].todo = req[s].todo, req'[s].result = req[s].result,
               req'[s].seen = req[s].seen, req'[s].phase \in {"writing", "measuring", "recording"},
               req'[s].code # "OK" => FailsForGood(o)
        PROVE  RequestInOrder(req[s])' /\ \A x \in Op : Written(x) => Written(x)'
    <2>1. \A p \in Op : IsFirst(p, req[s].todo) => p = o
      BY <1>h, <1>t, OneFirst
    <2>2. RequestInOrder(req[s])'
      BY <1>h, <2>1, <1>w, <1>t, <1>c DEF RequestInOrder, Processing
    <2> QED  BY <2>2, <1>h, <1>w
  <1>1. ASSUME NEW p, p \notin Processing, Goto(s, p), UNCHANGED event
        PROVE  RequestInOrder(req[s])' /\ \A o \in Op : Written(o) => Written(o)'
    <2>1. /\ req'[s].todo = req[s].todo /\ req'[s].result = req[s].result /\ req'[s].phase = p
          /\ req'[s].seen = req[s].seen
      BY <1>1, <1>t DEF Goto, Request
    <2> QED  BY <2>1, <1>1, <1>k, <1>w
  <1>3. CASE RefuseRequest(s) \/ Reply(s) \/ Outage(s)
    BY <1>3, <1>1 DEF RefuseRequest, Reply, Outage, Processing
  <1>5. CASE AcceptRequest(s)
    <2>1. /\ req'[s].todo = req[s].todo /\ req'[s].result = req[s].result /\ req'[s].phase = "serving"
          /\ req'[s].seen = Known(req[s].user, req[s].todo)
          /\ req[s].todo \cap Refused = {} /\ UNCHANGED event
      BY <1>5, <1>t DEF AcceptRequest, Accepted, Request
    <2>2. \A o \in req[s].todo : o \in req'[s].seen <=> Written(o)
      BY <2>1, <1>o DEF Known, Written
    <2>3. req'[s].seen \subseteq req[s].todo
      BY <2>1 DEF Known
    <2>4. \A d \in req[s].todo : payload[d].kind = "route:DELETE" =>
            Creator(d)' \in req'[s].todo \/ Saved(Creator(d))'
      BY <2>1, <1>w, <1>t, <1>c DEF RequestInOrder
    <2>5. /\ \A x \in Op : x \in req'[s].seen \/ Succeeded(req'[s].result[x]) => Written(x)'
          /\ \A x \in Op : req'[s].result[x] # "none" /\ ~Succeeded(req'[s].result[x]) => FailsForGood(x)'
      BY <2>1, <2>2, <2>3, <1>w DEF RequestInOrder
    <2>6. \A x \in req'[s].todo : x \in req'[s].seen <=> Written(x)'
      BY <2>1, <2>2, <1>w, <1>t
    <2>7. RequestInOrder(req[s])'
      BY <2>1, <2>4, <2>5, <2>6 DEF RequestInOrder, Processing
    <2> QED  BY <2>1, <2>7, <1>w
  <1>6. ASSUME NEW o \in Op, ReportDuplicate(s, o)
        PROVE  RequestInOrder(req[s])' /\ \A x \in Op : Written(x) => Written(x)'
    <2>1. /\ Settle(s, o, "DUPLICATE") /\ IsFirst(o, req[s].todo) /\ req[s].phase = "serving"
          /\ o \in req[s].seen /\ UNCHANGED event /\ "DUPLICATE" \in Result /\ Succeeded("DUPLICATE")
      BY <1>6 DEF ReportDuplicate, AtOperation, In, Result, Succeeded
    <2>2. Written(o)
      BY <2>1 DEF RequestInOrder
    <2> QED  BY <2>1, <2>2, <1>w, ResultInOrder DEF Processing
  <1>7. ASSUME NEW o \in Op, Dispatch(s, o)
        PROVE  RequestInOrder(req[s])' /\ \A x \in Op : Written(x) => Written(x)'
    <2>0. PICK h : h = Handled(req[s].user, o) /\ req' = [req EXCEPT ![s] = Dispatched(@, h.code)]
      BY <1>7 DEF Dispatch
    <2>1. /\ req'[s].todo = req[s].todo /\ req'[s].phase = "recording" /\ req'[s].code = h.code
          /\ req'[s].result = req[s].result /\ req'[s].seen = req[s].seen
      BY <2>0, <1>t DEF Dispatched, Request
    <2>2. /\ IsFirst(o, req[s].todo) /\ req[s].phase = "serving" /\ o \notin req[s].seen /\ UNCHANGED event
          /\ o \in req[s].todo
      BY <1>7 DEF Dispatch, AtOperation, In, IsFirst
    <2>3. h.code # "OK" => FailsForGood(o)
      BY <2>0, <2>2, <1>o, RouteHandled DEF FailsForGood, Hopeless
    <2> QED  BY <2>1, <2>2, <2>3, <1>h DEF Processing
  <1>7a. ASSUME NEW o \in Op, LookUpTrip(s, o)
         PROVE  RequestInOrder(req[s])' /\ \A x \in Op : Written(x) => Written(x)'
    <2>1. PICK v, t : req' = [req EXCEPT ![s] = LookedUp(@, v, t)]
      BY <1>7a DEF LookUpTrip
    <2>2. req'[s] = LookedUp(req[s], v, t)
      BY <2>1, <1>t
    <2>3. /\ req'[s].todo = req[s].todo /\ req'[s].result = req[s].result /\ req'[s].seen = req[s].seen
          /\ req'[s].phase \in {"writing", "recording"}
      BY <2>2, <1>t DEF LookedUp, Dispatched, Request
    <2>4. /\ IsFirst(o, req[s].todo) /\ req[s].phase = "serving" /\ o \notin req[s].seen /\ UNCHANGED event
          /\ o \in req[s].todo /\ payload[o].kind # "route:UPSERT"
      BY <1>7a DEF LookUpTrip, AtOperation, In, IsFirst, RouteKind
    <2>5. FailsForGood(o)
      BY <2>4, <1>o DEF FailsForGood
    <2> QED  BY <2>3, <2>4, <2>5, <1>h DEF Processing
  <1>7b. ASSUME NEW o \in Op, WriteTrip(s, o) \/ MeasureTrip(s, o)
         PROVE  RequestInOrder(req[s])' /\ \A x \in Op : Written(x) => Written(x)'
    <2>1. PICK p \in {"measuring", "recording"} : Goto(s, p)
      BY <1>7b DEF WriteTrip, MeasureTrip
    <2>2. /\ req'[s].todo = req[s].todo /\ req'[s].result = req[s].result /\ req'[s].seen = req[s].seen
          /\ req'[s].phase = p /\ req'[s].code = req[s].code
      BY <2>1, <1>t DEF Goto, Request
    <2>3. InHandler(s, {"writing", "measuring"}, o) /\ UNCHANGED event
      BY <1>7b DEF WriteTrip, MeasureTrip, InHandler
    <2>4. IsFirst(o, req[s].todo) /\ o \notin req[s].seen /\ (req[s].code # "OK" => FailsForGood(o))
      BY <2>3 DEF InHandler, RequestInOrder
    <2> QED  BY <2>2, <2>3, <2>4, <1>h DEF InHandler, Processing
  <1>7c. ASSUME NEW o \in Op, CreationClashes(s, o)
         PROVE  RequestInOrder(req[s])' /\ \A x \in Op : Written(x) => Written(x)'
    <2>1. /\ Settle(s, o, "TRANSIENT") /\ IsFirst(o, req[s].todo) /\ req[s].phase = "writing"
          /\ UNCHANGED event /\ "TRANSIENT" \in Result /\ ~Succeeded("TRANSIENT")
          /\ o \in req[s].todo /\ payload[o].kind # "route:UPSERT"
      BY <1>7c DEF CreationClashes, InHandler, IsFirst, Result, Succeeded
    <2>2. FailsForGood(o)
      BY <2>1, <1>o DEF FailsForGood
    <2> QED  BY <2>1, <2>2, <1>w, ResultInOrder DEF Processing
  <1>8. ASSUME NEW o \in Op, RecordEvent(s, o)
        PROVE  RequestInOrder(req[s])' /\ \A x \in Op : Written(x) => Written(x)'
    <2>1. PICK ok : ok = (req[s].code = "OK")
      OBVIOUS
    <2>2. PICK r : r = IF req[s].code = "OK" THEN "APPLIED" ELSE req[s].code
      OBVIOUS
    <2>3. /\ event' = [event EXCEPT ![req[s].user][o] = IF req[s].code = "OK" THEN "APPLIED" ELSE "FAILED"]
          /\ Settle(s, o, r) /\ IsFirst(o, req[s].todo) /\ req[s].phase = "recording"
      BY <1>8, <2>2 DEF RecordEvent, In
    <2>4. /\ r \in Result /\ (Succeeded(r) <=> req[s].code = "OK")
      BY <2>2, <1>t DEF Request, Result, Code, Succeeded
    <2>5. o \in req[s].todo /\ o \notin req[s].seen /\ (req[s].code # "OK" => FailsForGood(o))
      BY <2>3 DEF IsFirst, RequestInOrder
    <2>6. ~Written(o)
      BY <2>3, <2>5 DEF RequestInOrder, Processing
    <2>7. req[s].user \in Account /\ row[o].owner = req[s].user /\ row[o].status # "NONE"
      BY <2>3, <2>5, <1>o DEF Backed, HasUser
    <2>8. \A u \in Account : \A x \in Op : event'[u][x] = IF u = req[s].user /\ x = o
            THEN IF req[s].code = "OK" THEN "APPLIED" ELSE "FAILED" ELSE event[u][x]
      BY <2>3, <2>7 DEF SystemTypeOK, ServerTypeOK
    <2>9. req[s].code = "OK" => Written(o)'
      BY <2>7, <2>8 DEF Written
    <2>10. \A x \in Op \ {o} : Written(x)' <=> Written(x)
      BY <2>3, <2>7 DEF Written, SystemTypeOK, ServerTypeOK
    <2>11. RequestInOrder(req[s])'
      BY <2>3, <2>4, <2>5, <2>6, <2>9, <2>10, ResultInOrder DEF Processing
    <2> QED  BY <2>6, <2>10, <2>11
  <1>9. \A o \in Op : ~DispatchFails(s, o) /\ ~RecordFails(s, o)
    BY DEF NoFailingHandler, DispatchFails, RecordFails
  <1> QED  BY <1>3, <1>5, <1>6, <1>7, <1>7a, <1>7b, <1>7c, <1>8, <1>9 DEF Serve, ServerFault

(* A dispatch leaves of the route it is about what the operations applied  *)
(* leave, since a creation is recorded before its deletion is dispatched.  *)
LEMMA DispatchOfRoute ==
  ASSUME SystemTypeOK, Backed, QueueAgrees, InQueue, OwnSession, StoreAgrees, RoutesAgree,
         NEW s \in Slot, RequestInOrder(req[s]), NEW o \in Op, Dispatch(s, o),
         UNCHANGED <<row, payload>>
  PROVE  RoutesAgree'
  <1>t. /\ store \in Store /\ applied \in SUBSET Op /\ payload \in [Op -> Payload]
        /\ req[s].user \in Owner /\ store.owner \in [Op -> Owner]
    BY DEF SystemTypeOK, ServerTypeOK, Request, Store
  <1>o. /\ o \in req[s].todo /\ req[s].phase = "serving" /\ o \notin req[s].seen
        /\ \A p \in req[s].todo : o <= p
    BY DEF Dispatch, AtOperation, In, IsFirst
  <1>u. row[o].status # "NONE" /\ row[o].owner = req[s].user /\ req[s].user # NoAccount
    BY <1>o, SyncTypesAssumption DEF InQueue, OwnSession, Backed, HasUser
  <1>0. PICK u, k, i : u = req[s].user /\ k = payload[o].kind /\ i = payload[o].item
    OBVIOUS
  <1>p. payload[o] = [kind |-> k, item |-> i] /\ k \in Kind /\ i \in Op /\ u \in Owner /\ i = Creator(o)
    BY <1>0, <1>t DEF Payload, Creator
  <1>q. ItemAgrees(row, payload, o)
    BY <1>u DEF QueueAgrees, TableAgrees
  <1>i. /\ row[i].status # "NONE" /\ row[i].owner = u /\ i <= o
        /\ k \in Creation => o = i
        /\ k \in RouteKind <=> payload[i].kind = "route:UPSERT"
    BY <1>0, <1>q, <1>u DEF ItemAgrees
  <1>w. /\ \A x \in Op : Written(x)' <=> Written(x)
        /\ \A x \in Op : Saved(x)' <=> Saved(x)
    BY DEF Dispatch, Written, Saved, Hopeless
  <1>a. /\ applied \cap Hopeless = {}
        /\ \A d \in applied : payload[d].kind = "route:DELETE" => Saved(Creator(d))
        /\ \A j \in Op : row[j].status # "NONE" /\ payload[j].kind = "route:UPSERT" =>
             store.owner[j] = IF j \in applied /\ AppliedOf(applied, "route:DELETE", j) = {}
                              THEN row[j].owner ELSE NoAccount
    BY DEF RoutesAgree, RoutesAgreeOn
  <1>f. o \notin Refused /\ ~Written(o)
    BY <1>o DEF RequestInOrder, Processing
  <1>1. PICK h : h = Handled(u, o) /\ store' = h.store
                 /\ applied' = IF h.code = "OK" THEN applied \cup {o} ELSE applied
    BY <1>0 DEF Dispatch
  <1>g. \A d \in Op : Creator(d)' = Creator(d)
    BY DEF Creator
  <1>c. \A d \in applied : Creator(d) \in Op
    BY <1>t DEF Payload, Creator
  (* It is enough to look at the rows it leaves. *)
  <1>2. ASSUME RoutesAgreeOn(h.store, applied')
        PROVE  RoutesAgree'
    <2>1. applied' \subseteq Op
      BY <1>1, <1>t
    <2>2. \A d \in applied' : payload[d].kind = "route:DELETE" => Saved(Creator(d))'
      BY <1>2, <1>p, <1>w, <1>t, <2>1 DEF RoutesAgreeOn, Creator, Payload
    <2>3. \A j \in Op : row'[j].status # "NONE" /\ payload'[j].kind = "route:UPSERT" =>
            store'.owner[j] = IF j \in applied' /\ AppliedOf(applied, "route:DELETE", j)' = {}
                              THEN row'[j].owner ELSE NoAccount
      BY <1>2, <1>1 DEF RoutesAgreeOn, AppliedOf
    <2> QED  BY <1>2, <2>2, <2>3, <1>g, <2>1 DEF RoutesAgree, RoutesAgreeOn, Hopeless
  <1>3. CASE h.code # "OK"
    <2>1. h.store = store
      BY <1>1, <1>3 DEF Handled, UpsertRoute, DeleteRoute, Ok, Refuse
    <2> QED  BY <1>1, <1>2, <1>3, <2>1 DEF RoutesAgree
  <1>4. CASE h.code = "OK"
    <2>1. /\ o \notin Invalid /\ k \in RouteKind /\ applied' = applied \cup {o}
          /\ h = IF k = "route:UPSERT" THEN UpsertRoute(store, u, i) ELSE DeleteRoute(store, u, i)
      BY <1>0, <1>1, <1>4 DEF Handled, Refuse, Dispatch
    <2>2. \A j \in Op \ {i} : h.store.owner[j] = store.owner[j]
      BY <2>1, <1>p, <1>t, StatementKeeps DEF OnlyItem
    <2>3. applied' \cap Hopeless = {}
      BY <2>1, <1>a, <1>f DEF Hopeless
    <2>4. k = "route:DELETE" => Saved(i) /\ i # o
      <3> SUFFICES ASSUME k = "route:DELETE" PROVE Saved(i) /\ i # o
        OBVIOUS
      <3>1. i # o
        BY <1>i, <1>p DEF RouteKind
      <3>2. i \notin req[s].todo
        BY <3>1, <1>i, <1>o, <1>p, SyncTypesAssumption DEF Op
      <3> QED  BY <3>1, <3>2, <1>o, <1>p DEF RequestInOrder
    <2>5. \A d \in applied' : payload[d].kind = "route:DELETE" => Saved(Creator(d))
      BY <2>1, <2>4, <1>a, <1>p
    <2>6. ASSUME NEW j \in Op, j # i, row[j].status # "NONE", payload[j].kind = "route:UPSERT"
          PROVE  h.store.owner[j] = IF j \in applied' /\ AppliedOf(applied', "route:DELETE", j) = {}
                                    THEN row[j].owner ELSE NoAccount
      <3>1. AppliedOf(applied', "route:DELETE", j) = AppliedOf(applied, "route:DELETE", j)
        BY <2>1, <2>6, <1>p DEF AppliedOf
      <3>2. j # o
        BY <2>6, <1>i, <1>p DEF Creation
      <3> QED  BY <2>1, <2>2, <2>6, <3>1, <3>2, <1>a
    <2>7. CASE k = "route:UPSERT"
      <3>1. i = o /\ payload[i].kind = "route:UPSERT"
        BY <2>7, <1>i, <1>p DEF Creation
      <3>2. h.store.owner[i] = u
        <4>2. h = Ok([store EXCEPT !.owner[i] = u])
          BY <2>1, <2>7, <1>4 DEF UpsertRoute, Refuse
        <4>3. h.store = [store EXCEPT !.owner[i] = u]
          BY <4>2 DEF Ok
        <4> QED  BY <4>3, <1>p, <1>t DEF Store
      <3>3. AppliedOf(applied', "route:DELETE", i) = {}
        <4> SUFFICES ASSUME NEW d \in applied', payload[d] = [kind |-> "route:DELETE", item |-> i]
                     PROVE FALSE
          BY DEF AppliedOf
        <4>1. d \in applied
          BY <2>1, <2>7, <1>p
        <4>2. Saved(i)
          BY <4>1, <1>a DEF Creator
        <4> QED  BY <4>2, <2>1, <3>1, <1>f DEF Saved, Hopeless
      <3>4. h.store.owner[i] = IF i \in applied' /\ AppliedOf(applied', "route:DELETE", i) = {}
                               THEN row[i].owner ELSE NoAccount
        BY <2>1, <3>1, <3>2, <3>3, <1>i
      <3>5. RoutesAgreeOn(h.store, applied')
        BY <2>3, <2>5, <2>6, <3>4 DEF RoutesAgreeOn
      <3> QED  BY <3>5, <1>2
    <2>8. CASE k = "route:DELETE"
      <3>1. payload[i].kind = "route:UPSERT" /\ row[i].status # "NONE"
        BY <2>8, <1>i DEF RouteKind
      <3>2. store.owner[i] \in {u, NoAccount}
        BY <3>1, <1>a, <1>i, <1>p
      <3>3. h.store.owner[i] = NoAccount
        <4>1. h = DeleteRoute(store, u, i)
          BY <2>1, <2>8
        <4>2. CASE store.owner[i] = u
          <5>1. h.store = [store EXCEPT !.owner[i] = NoAccount]
            BY <4>1, <4>2 DEF DeleteRoute, Ok
          <5> QED  BY <5>1, <1>p, <1>t DEF Store
        <4>3. CASE store.owner[i] # u
          <5>1. h.store = store
            BY <4>1, <4>3 DEF DeleteRoute, Ok
          <5> QED  BY <5>1, <4>3, <3>2
        <4> QED  BY <4>2, <4>3
      <3>4. o \in AppliedOf(applied', "route:DELETE", i)
        BY <2>1, <2>8, <1>p DEF AppliedOf
      <3>5. RoutesAgreeOn(h.store, applied')
        BY <2>3, <2>5, <2>6, <3>3, <3>4 DEF RoutesAgreeOn
      <3> QED  BY <3>5, <1>2
    <2> QED  BY <2>1, <2>7, <2>8 DEF RouteKind
  <1> QED  BY <1>3, <1>4

(* The handler of a trip leaves the routes alone.                          *)
LEMMA TripsLeaveRoutes ==
  ASSUME SystemTypeOK, Backed, QueueAgrees, InQueue, OwnSession, StoreAgrees, WritesFound, RoutesAgree,
         NEW s \in Slot, RequestInOrder(req[s]), NEW o \in Op,
         LookUpTrip(s, o) \/ WriteTrip(s, o) \/ MeasureTrip(s, o), UNCHANGED <<row, payload>>
  PROVE  RoutesAgree'
  <1>t. /\ store \in Store /\ applied \in SUBSET Op /\ payload \in [Op -> Payload]
    BY DEF SystemTypeOK, ServerTypeOK
  <1>w. /\ \A x \in Op : Saved(x)' <=> Saved(x)
        /\ \A x : Creator(x)' = Creator(x)
    BY DEF LookUpTrip, WriteTrip, MeasureTrip, Written, Saved, Hopeless, Creator
  <1>0. PICK u, k, i : u = req[s].user /\ k = payload[o].kind /\ i = payload[o].item
    OBVIOUS
  <1>o. o \in req[s].todo /\ req[s].phase \in Processing
    BY DEF LookUpTrip, WriteTrip, MeasureTrip, AtOperation, InHandler, In, IsFirst, Processing
  <1>p. u \in Owner /\ k \in Kind /\ i \in Op /\ row[o].status # "NONE"
    BY <1>0, <1>o, AtHand DEF Processing
  <1>f. o \notin Refused
    BY <1>o DEF RequestInOrder
  <1>a. /\ applied \cap Hopeless = {}
        /\ \A d \in applied : payload[d].kind = "route:DELETE" => Saved(Creator(d))
        /\ \A j \in Op : row[j].status # "NONE" /\ payload[j].kind = "route:UPSERT" =>
             store.owner[j] = IF j \in applied /\ AppliedOf(applied, "route:DELETE", j) = {}
                              THEN row[j].owner ELSE NoAccount
    BY DEF RoutesAgree, RoutesAgreeOn
  (* It is enough that the routes keep their rows, and that what is applied *)
  (* is no hopeless operation and none of a route.                          *)
  <1>1. ASSUME \A j \in Op : payload[j].kind = "route:UPSERT" => store'.owner[j] = store.owner[j],
               \/ applied' = applied
               \/ applied' = applied \cup {o} /\ k \notin RouteKind /\ o \notin Invalid
        PROVE  RoutesAgree'
    <2>1. applied' \cap Hopeless = {}
      BY <1>1, <1>a, <1>f DEF Hopeless
    <2>2. ASSUME NEW d \in applied', payload[d].kind = "route:DELETE" PROVE Saved(Creator(d))'
      <3>1. d \in applied
        BY <2>2, <1>0, <1>1 DEF RouteKind
      <3>2. Saved(Creator(d)) /\ Creator(d) \in Op
        BY <3>1, <2>2, <1>a, <1>t DEF Creator, Payload
      <3> QED  BY <3>2, <1>w
    <2>3. \A j \in Op : AppliedOf(applied, "route:DELETE", j)' = AppliedOf(applied, "route:DELETE", j)
      BY <1>0, <1>1 DEF AppliedOf, RouteKind
    <2>4. \A j \in Op : payload[j].kind = "route:UPSERT" => (j \in applied' <=> j \in applied)
      BY <1>0, <1>1 DEF RouteKind
    <2> QED  BY <2>1, <2>2, <2>3, <2>4, <1>1, <1>a DEF RoutesAgree, RoutesAgreeOn, Hopeless
  <1>2. CASE LookUpTrip(s, o)
    <2>1. k \notin RouteKind /\ o \notin Invalid /\ store' = store
          /\ (applied' = applied \/ applied' = applied \cup {o})
      BY <1>2, <1>0 DEF LookUpTrip
    <2> QED  BY <2>1, <1>1
  <1>3. CASE WriteTrip(s, o)
    <2>1. InHandler(s, {"writing"}, o) /\ applied' = applied \cup {o}
          /\ store' = TripWritten(store, u, k, i, o)
      BY <1>3, <1>0 DEF WriteTrip
    <2>2. k \notin RouteKind /\ o \notin Invalid
      BY <2>1, <1>0 DEF WritesFound, WriteFound
    <2>3. payload[i].kind # "route:UPSERT"
      BY <2>2, <1>0, <1>p DEF QueueAgrees, TableAgrees, ItemAgrees
    <2>4. OnlyItem(store, store', i)
      BY <2>1, <1>p, <1>t, StatementKeeps
    <2>5. \A j \in Op : payload[j].kind = "route:UPSERT" => store'.owner[j] = store.owner[j]
      BY <2>3, <2>4 DEF OnlyItem
    <2> QED  BY <2>1, <2>2, <2>5, <1>1
  <1>4. CASE MeasureTrip(s, o)
    <2>1. store' = Measure(store, i) /\ applied' = applied
      BY <1>4, <1>0 DEF MeasureTrip
    <2>2. store'.owner = store.owner
      BY <2>1, <1>p, <1>t, StatementKeeps
    <2> QED  BY <2>1, <2>2, <1>1
  <1> QED  BY <1>2, <1>3, <1>4

(* Rows of the server that do not change agree with a queue that grows.    *)
LEMMA RoutesKept ==
  ASSUME SystemTypeOK, QueueAgrees, StoreAgrees, RoutesAgree, RowsKept, UNCHANGED <<store, applied>>,
         \A o \in Op : Saved(o) => Saved(o)'
  PROVE  RoutesAgree'
  <1>t. applied \subseteq Op /\ payload \in [Op -> Payload]
    BY DEF SystemTypeOK, ServerTypeOK
  <1>1. \A o \in applied : row[o].status # "NONE" /\ payload'[o] = payload[o]
    BY <1>t DEF StoreAgrees, StoreAgreesOn, RowsKept
  <1>2. \A i : AppliedOf(applied, "route:DELETE", i)' = AppliedOf(applied, "route:DELETE", i)
    BY <1>1 DEF AppliedOf
  <1>3. \A d \in applied' : payload'[d].kind = "route:DELETE" => Saved(Creator(d))'
    <2> SUFFICES ASSUME NEW d \in applied, payload[d].kind = "route:DELETE" PROVE Saved(Creator(d))'
      BY <1>1
    <2>1. Saved(Creator(d)) /\ Creator(d) \in Op /\ Creator(d)' = Creator(d)
      BY <1>1, <1>t DEF RoutesAgree, RoutesAgreeOn, Creator, Payload
    <2> QED  BY <2>1
  <1>4. ASSUME NEW i \in Op, row'[i].status # "NONE", payload'[i].kind = "route:UPSERT"
        PROVE  store'.owner[i] = IF i \in applied' /\ AppliedOf(applied, "route:DELETE", i)' = {}
                                 THEN row'[i].owner ELSE NoAccount
    <2>1. CASE row[i].status # "NONE"
      BY <2>1, <1>2, <1>4 DEF RoutesAgree, RoutesAgreeOn, RowsKept
    <2>2. CASE row[i].status = "NONE"
      <3>1. i \notin applied /\ TripAgrees(store, applied, i)
        BY <2>2, <1>1 DEF StoreAgrees, StoreAgreesOn
      <3> QED  BY <3>1 DEF TripAgrees
    <2> QED  BY <2>1, <2>2
  <1> QED  BY <1>3, <1>4 DEF RoutesAgree, RoutesAgreeOn, Hopeless

(* What a step completes, fails or puts back, and what it learns.          *)
Settles ==
  /\ \A o \in Op : row'[o].status = "COMPLETED" => row[o].status = "COMPLETED" \/ o \in done
  /\ \A o \in Op : row'[o].status = "FAILED" =>
       \/ row[o].status = "FAILED" \/ row'[o].error = "REFUSED"
       \/ o \in Unhandled /\ ~Succeeded(answer[o])
  /\ \A o \in done' : o \in done \/ Succeeded(answer[o])
  /\ \A o \in reinstated' : o \in reinstated \/ row[o].status = "FAILED"
  /\ \A o \in Op : \/ answer'[o] \in {"none", answer[o]}
                   \/ \E s \in Slot : answer'[o] = req[s].result[o]

LEMMA StepSettles ==
  ASSUME SystemTypeOK, Orderly, Next
  PROVE  Settles
  <1>q. row \in [Op -> Row] /\ answer \in [Op -> Result \cup {"none"}] /\ batch \subseteq Op
    BY DEF SystemTypeOK, QueueTypeOK
  <1>1. CASE ContinueRound /\ HandleResult
    <2>1. PICK o \in Op : /\ IsFirst(o, Unhandled)
                          /\ ResultDone(o) \/ ResultRetried(o) \/ ResultRejected(o)
                          /\ answer' = [answer EXCEPT ![o] = "none"]
      BY <1>1 DEF HandleResult
    <2>2. \A p \in Op : answer'[p] \in {"none", answer[p]}
      BY <2>1, <1>q
    <2>3. reinstated' \subseteq reinstated
      BY <1>1 DEF ContinueRound
    <2>4. \A r \in Row : \A e : Retried(r).status = "PENDING" /\ Rejected(r, e).status = "FAILED"
      BY DEF Retried, Rejected, Row
    <2>5. CASE ResultDone(o)
      BY <2>2, <2>3, <2>5 DEF Settles, ResultDone
    <2>6. CASE ResultRetried(o)
      <3>1. \A p \in Op : row'[p] = IF p = o THEN Retried(row[p]) ELSE row[p]
        BY <2>6, <1>q DEF ResultRetried
      <3> QED  BY <2>2, <2>3, <2>4, <2>6, <3>1, <1>q DEF Settles, ResultRetried
    <2>7. CASE ResultRejected(o)
      <3>1. \A p \in Op : row'[p] = IF p = o THEN Rejected(row[p], answer[o]) ELSE row[p]
        BY <2>7, <1>q DEF ResultRejected
      <3>2. o \in Unhandled /\ ~Succeeded(answer[o]) /\ done' = done
        BY <2>1, <2>7 DEF IsFirst, ResultRejected
      <3>3. \A p \in Op : p # o => row'[p] = row[p]
        BY <3>1
      <3>4. row'[o].status = "FAILED"
        BY <3>1, <2>4, <1>q
      <3> QED  BY <2>2, <2>3, <3>2, <3>3, <3>4 DEF Settles
    <2> QED  BY <2>1, <2>5, <2>6, <2>7
  <1>2. CASE UserRetries
    <2>1. /\ \A o \in Op : row'[o] = IF row[o].status = "FAILED" /\ row[o].owner = session
                                     THEN Reinstated(row[o]) ELSE row[o]
          /\ UNCHANGED <<done, answer>>
      BY <1>2 DEF UserRetries, RetryFailed, roundVars
    <2>2. \A r \in Row : Reinstated(r).status = "PENDING"
      BY DEF Reinstated, Row
    <2>3. \A o \in Op : row'[o].status # row[o].status => row[o].status = "FAILED"
      BY <2>1
    <2>4. \A o \in reinstated' : o \in reinstated \/ row[o].status = "FAILED"
      BY <1>2, <2>3 DEF UserRetries
    <2> QED  BY <2>1, <2>2, <2>4, <1>q DEF Settles
  <1>3. CASE ~UserRetries /\ ~(ContinueRound /\ HandleResult)
    <2>1. /\ \A o \in Op : row'[o].status = "COMPLETED" => row[o].status = "COMPLETED" \/ o \in done
          /\ \A o \in Op : row'[o].status = "FAILED" => row[o].status = "FAILED" \/ row'[o].error = "REFUSED"
      <3>1. CASE Untried
        BY <3>1 DEF Untried
      <3>2. CASE RetryNext
        <4>1. \A r \in Row : Retried(r).status = "PENDING"
          BY DEF Retried, Row
        <4>2. \A o \in Op : row'[o] = Retried(row[o]) \/ row'[o] = row[o]
          BY <3>2, <1>q DEF RetryNext
        <4> QED  BY <4>1, <4>2, <1>q
      <3> QED  BY <1>3, <3>1, <3>2, AttemptsOfStep
    <2>2. CASE UNCHANGED <<done, answer>> /\ reinstated' \subseteq reinstated
      BY <2>1, <2>2 DEF Settles
    <2>3. CASE KillApp \/ (ContinueRound /\ BatchOver)
      <3>1. done' = {} /\ reinstated' \subseteq reinstated /\ \A o \in Op : answer'[o] \in {"none", answer[o]}
        BY <2>3 DEF KillApp, AppKilled, NoAnswer, ContinueRound, BatchOver
      <3> QED  BY <2>1, <3>1 DEF Settles
    <2>4. ASSUME NEW s \in Slot, Deliver(s), Answered(req[s].result) PROVE Settles
      <3>1. /\ done' = {} /\ reinstated' = reinstated
            /\ \A o \in Op : answer'[o] = "none" \/ answer'[o] = req[s].result[o]
        BY <2>4 DEF Deliver, Answered
      <3> QED  BY <2>1, <3>1 DEF Settles
    <2>5. \/ UNCHANGED <<done, answer>> /\ reinstated' \subseteq reinstated
          \/ KillApp \/ (ContinueRound /\ BatchOver)
          \/ \E s \in Slot : Deliver(s) /\ Answered(req[s].result)
      <3>1. CASE \/ \E o \in Op, k \in Kind : Create(o, k)
                 \/ \E o, i \in Op : DeleteLocalRoute(o, i)
                 \/ \E i \in Op : RecordFix(i)
                 \/ \E o, i \in Op, k \in Kind : CloseTrip(o, i, k)
                 \/ QueuePendingPoints
                 \/ \E a \in Owner : Login(a)
                 \/ \E o \in Op : ClockTicks(o)
                 \/ StartRound
        BY <3>1 DEF Create, DeleteLocalRoute, RecordFix, CloseTrip, QueuePendingPoints, PointsQueued, Login,
                    ClockTicks, StartRound, Add, SwitchSession, BackoffOver, BeginRound, queueVars, roundVars
      <3>2. CASE ContinueRound
        <4>1. reinstated' \subseteq reinstated
          BY <3>2 DEF ContinueRound
        <4>2. BatchOver \/ UNCHANGED <<done, answer>>
          BY <3>2, <1>3 DEF ContinueRound, RoundStep, SelectBatch, PushOver, FinishRound,
                            PostUnauthorized, Release, RetryNext
        <4> QED  BY <3>2, <4>1, <4>2
      <3>3. ASSUME NEW s \in Slot, Deliver(s)
            PROVE  Answered(req[s].result) \/ UNCHANGED <<done, answer, reinstated>>
        BY <3>3 DEF Deliver, SplitBatch, RejectSingle, Unavailable
      <3>4. CASE \E s \in Slot : \/ SendRequest(s) \/ Discard(s) \/ GiveUp(s)
                                 \/ GatewayTimeout(s) \/ ServerCrash(s) \/ Work(s) \/ Fail(s)
        <4>1. UNCHANGED <<done, answer, reinstated>>
          BY <3>4 DEF SendRequest, Post, Discard, GiveUp, NoReply, Release, GatewayTimeout, Unavailable,
                      ServerCrash, Work, Fail, queueVars, roundVars
        <4> QED  BY <4>1
      <3> QED  BY <1>3, <3>1, <3>2, <3>3, <3>4 DEF Next
    <2> QED  BY <2>2, <2>3, <2>4, <2>5
  <1> QED  BY <1>1, <1>2, <1>3

LEMMA PhoneStaysInOrder ==
  ASSUME SystemTypeOK, Orderly, RequestsInOrder, PhoneInOrder, RowsKept, Settles, OnlyOffenderRefused',
         \A o \in Op : Written(o) => Written(o)', done' \subseteq Op, reinstated' \subseteq Op
  PROVE  PhoneInOrder'
  <1>1. \A o \in Op : FailsForGood(o) => FailsForGood(o)'
    BY DEF RowsKept, FailsForGood, Hopeless
  <1>2. ASSUME NEW o \in Op, Succeeded(answer'[o]) \/ o \in done' \/ row'[o].status = "COMPLETED"
        PROVE  Written(o)'
    <2>1. Succeeded(answer'[o]) => Succeeded(answer[o]) \/ \E s \in Slot : Succeeded(req[s].result[o])
      BY DEF Settles, Succeeded
    <2> QED  BY <1>2, <2>1 DEF Settles, PhoneInOrder, RequestsInOrder, RequestInOrder
  <1>3. ASSUME NEW o \in Op, \/ answer'[o] # "none" /\ ~Succeeded(answer'[o])
                             \/ row'[o].status = "FAILED" \/ o \in reinstated'
        PROVE  FailsForGood(o)'
    <2>1. CASE answer'[o] # "none" /\ ~Succeeded(answer'[o])
      <3>1. \/ answer[o] # "none" /\ ~Succeeded(answer[o])
            \/ \E s \in Slot : req[s].result[o] # "none" /\ ~Succeeded(req[s].result[o])
        BY <2>1 DEF Settles
      <3> QED  BY <3>1, <1>1 DEF PhoneInOrder, RequestsInOrder, RequestInOrder
    <2>2. CASE row'[o].status = "FAILED"
      <3>1. CASE row'[o].error = "REFUSED"
        BY <2>2, <3>1 DEF OnlyOffenderRefused, FailsForGood, Hopeless
      <3>2. CASE row'[o].error # "REFUSED"
        BY <2>2, <3>2, <1>1 DEF Settles, PhoneInOrder, Unhandled
      <3> QED  BY <3>1, <3>2
    <2>3. CASE o \in reinstated'
      BY <2>3, <1>1 DEF Settles, PhoneInOrder
    <2> QED  BY <1>3, <2>1, <2>2, <2>3
  <1> QED  BY <1>2, <1>3 DEF PhoneInOrder

(* A batch has the creation of what it deletes before it, unless that is   *)
(* applied or hopeless.                                                    *)
LEMMA SentInOrder ==
  ASSUME SystemTypeOK, Orderly, QueueAgrees, NothingOvertakes, PhoneInOrder,
         NEW s \in Slot, SendRequest(s)
  PROVE  RequestInOrder(req[s])' /\ \A o \in Op : Written(o) => Written(o)'
  <1> DEFINE q == [Free EXCEPT !.phase = "sent", !.user = session, !.todo = batch]
  <1>1. /\ req' = [req EXCEPT ![s] = q] /\ pc = "post"
        /\ UNCHANGED <<row, payload, event, batch>>
    BY DEF SendRequest, Arrive, Post
  <1>2. q.todo = batch /\ q.phase = "sent" /\ q.result = NoAnswer /\ q.seen = {}
    BY DEF Free
  <1> HIDE DEF q
  <1>3. req'[s] = q
    BY <1>1 DEF SystemTypeOK, ServerTypeOK
  <1>4. \A x \in Op : (Written(x)' <=> Written(x)) /\ (Saved(x)' <=> Saved(x))
    BY <1>1 DEF Written, Saved, Hopeless
  <1>5. ASSUME NEW d \in batch, payload[d].kind = "route:DELETE"
        PROVE  Creator(d) \in batch \/ Saved(Creator(d))
    <2>0. PICK c : c = Creator(d)
      OBVIOUS
    <2>1. d \in Op /\ row[d].status = "SYNCING" /\ row[d].owner = acct
      BY DEF Orderly, RoundInHand, Interrupted, RoundKeepsToItsAccount
    <2>2. c \in Op /\ c <= d /\ row[c].status # "NONE" /\ row[c].owner = acct
      BY <2>0, <2>1, CreatorIsOlder
    <2>3. payload[c].kind = "route:UPSERT" /\ c # d
      BY <2>0, <2>1, <1>5 DEF QueueAgrees, TableAgrees, ItemAgrees, Creator, RouteKind
    <2>4. c < d
      BY <2>1, <2>2, <2>3, SyncTypesAssumption DEF Op
    <2>5. FailsForGood(c) => Saved(c)
      BY <2>3 DEF FailsForGood, Saved
    <2>6. CASE row[c].status = "PENDING"
      <3>1. c \in reinstated
        BY <2>2, <2>4, <2>6, <1>1 DEF NothingOvertakes, Pending
      <3> QED  BY <3>1, <2>0, <2>2, <2>5 DEF PhoneInOrder
    <2>7. CASE row[c].status = "SYNCING"
      <3>1. c \in batch \cup done /\ done = {}
        BY <2>2, <2>7, <1>1 DEF Orderly, SyncingIsInBatch, Interrupted, RoundInHand
      <3> QED  BY <3>1, <2>0
    <2>8. CASE row[c].status \in {"COMPLETED", "FAILED"}
      BY <2>8, <2>0, <2>2, <2>5 DEF PhoneInOrder, Saved
    <2>9. row[c].status \in Status
      BY <2>2 DEF SystemTypeOK, QueueTypeOK, Row
    <2> QED  BY <2>2, <2>6, <2>7, <2>8, <2>9 DEF Status
  <1>6. \A d \in batch : payload'[d].kind = "route:DELETE" => Creator(d)' \in batch \/ Saved(Creator(d))'
    <2>1. ASSUME NEW d \in batch, payload[d].kind = "route:DELETE"
          PROVE  Creator(d)' \in batch \/ Saved(Creator(d))'
      <3>1. Creator(d)' = Creator(d) /\ Creator(d) \in Op
        BY <1>1 DEF Creator, SystemTypeOK, ServerTypeOK, QueueTypeOK, Payload
      <3> QED  BY <3>1, <2>1, <1>4, <1>5
    <2> QED  BY <2>1, <1>1
  <1>7. \A x \in Op : q.result[x] = "none"
    BY <1>2 DEF NoAnswer
  <1> QED  BY <1>2, <1>3, <1>4, <1>6, <1>7 DEF RequestInOrder, Succeeded, Processing

(* What a step does to the requests and the events.                        *)
LEMMA RequestsOfStep ==
  ASSUME Next
  PROVE  \/ UNCHANGED <<req, event>>
         \/ \E s \in Slot : SendRequest(s)
         \/ \E s \in Slot : Drop(s) /\ UNCHANGED event
         \/ \E s \in Slot : (Serve(s) \/ ServerFault(s)) /\ UNCHANGED <<row, payload>>
  <1>1. CASE \/ \E o \in Op, k \in Kind : Create(o, k)
             \/ \E o, i \in Op : DeleteLocalRoute(o, i)
             \/ \E i \in Op : RecordFix(i)
             \/ \E o, i \in Op, k \in Kind : CloseTrip(o, i, k)
             \/ QueuePendingPoints
             \/ \E a \in Owner : Login(a)
             \/ UserRetries
             \/ \E o \in Op : ClockTicks(o)
             \/ StartRound \/ ContinueRound \/ KillApp
             \/ \E s \in Slot : GatewayTimeout(s)
    <2>1. ServerIdle
      BY <1>1 DEF Create, DeleteLocalRoute, RecordFix, CloseTrip, QueuePendingPoints, Login,
                  UserRetries, ClockTicks, StartRound, ContinueRound, KillApp, GatewayTimeout
    <2> QED  BY <2>1 DEF ServerIdle, serverVars
  <1>2. CASE \E s \in Slot : Deliver(s) \/ Discard(s) \/ GiveUp(s) \/ ServerCrash(s)
    BY <1>2 DEF Deliver, Discard, Leave, GiveUp, ServerCrash, CrashServing
  <1>3. CASE \E s \in Slot : Work(s) \/ Fail(s)
    BY <1>3 DEF Work, Fail, queueVars
  <1> QED  BY <1>1, <1>2, <1>3 DEF Next

LEMMA RoutesStayInOrder ==
  ASSUME Agreed, OwnSession, Blamed', NothingOvertakes, RoutesInOrder, SystemTypeOK',
         OneAtATime, NoFailingHandler, Next
  PROVE  RoutesInOrder'
  <1>a. /\ SystemTypeOK /\ Backed /\ Orderly /\ InQueue /\ QueueAgrees /\ StoreAgrees /\ WritesFound
        /\ RequestsInOrder /\ PhoneInOrder /\ RoutesAgree /\ OnlyOffenderRefused'
    BY DEF Agreed, Backed, RoutesInOrder, Blamed
  <1>k. RowsKept
    BY <1>a, StepKeepsRows
  <1>t. /\ req \in [Slot -> Request] /\ done' \subseteq Op /\ reinstated' \subseteq Op
        /\ \A s \in Slot : RequestInOrder(req[s]) /\ req[s] \in Request
    BY <1>a DEF SystemTypeOK, QueueTypeOK, ServerTypeOK, RequestsInOrder
  <1>o. ASSUME NEW s \in Slot, RequestInOrder(req[s])' PROVE RequestsInOrder'
    BY <1>o DEF OneAtATime, RequestsInOrder
  <1>1. RequestsInOrder' /\ \A o \in Op : Written(o) => Written(o)'
    <2>e. ASSUME UNCHANGED event PROVE \A o \in Op : Written(o) => Written(o)'
      BY <2>e, <1>k DEF Written, RowsKept
    <2>1. CASE UNCHANGED <<req, event>>
      <3>1. ASSUME NEW s \in Slot PROVE RequestInOrder(req[s])'
        <4>1. PICK q \in Request : q = req[s]
          BY <1>t
        <4>2. \A o \in q.todo : row[o].status # "NONE"
          BY <4>1, <1>a DEF InQueue
        <4>3. RequestInOrder(q)'
          BY <4>1, <4>2, <2>1, <1>a, <1>k, <1>t, RequestKept
        <4> QED  BY <4>1, <4>3, <2>1
      <3> QED  BY <3>1, <2>1, <2>e DEF RequestsInOrder
    <2>2. ASSUME NEW s \in Slot, SendRequest(s)
          PROVE  RequestsInOrder' /\ \A o \in Op : Written(o) => Written(o)'
      BY <2>2, <1>a, <1>o, SentInOrder
    <2>3. ASSUME NEW s \in Slot, Drop(s), UNCHANGED event
          PROVE  RequestsInOrder' /\ \A o \in Op : Written(o) => Written(o)'
      <3>1. req'[s] = Free
        BY <2>3, <1>t DEF Drop
      <3>2. RequestInOrder(req[s])'
        BY <3>1 DEF RequestInOrder, Free, NoAnswer, Succeeded, Processing
      <3> QED  BY <3>2, <2>3, <2>e, <1>o
    <2>4. ASSUME NEW s \in Slot, Serve(s) \/ ServerFault(s), UNCHANGED <<row, payload>>
          PROVE  RequestsInOrder' /\ \A o \in Op : Written(o) => Written(o)'
      BY <2>4, <1>a, <1>t, <1>o, ServerStepInOrder
    <2> QED  BY <2>1, <2>2, <2>3, <2>4, RequestsOfStep
  <1>2. PhoneInOrder'
    BY <1>1, <1>a, <1>k, <1>t, StepSettles, PhoneStaysInOrder
  <1>3. RoutesAgree'
    <2>1. CASE UNCHANGED <<store, applied>>
      <3>1. \A o \in Op : Saved(o) => Saved(o)'
        BY <1>1 DEF Saved, Hopeless
      <3> QED  BY <2>1, <3>1, <1>a, <1>k, RoutesKept
    <2>2. ASSUME NEW s \in Slot, NEW o \in Op, Statement(s, o), UNCHANGED <<row, payload>>
          PROVE  RoutesAgree'
      BY <2>2, <1>a, <1>t, DispatchOfRoute, TripsLeaveRoutes DEF Statement
    <2> QED  BY <2>1, <2>2, OnlyStatementsStore
  <1> QED  BY <1>1, <1>2, <1>3 DEF RoutesInOrder

(* If every request is sent with the session of its account, one request   *)
(* is served at a time, and no handler fails for a time, then the server   *)
(* has a saved route if and only if the phone kept it, once all that was   *)
(* queued about it is completed: through outages, lost answers, crashes on *)
(* both sides, gateway timeouts, refused requests, invalid operations and  *)
(* retries by the user.  Both conditions are needed: an old request that   *)
(* overlaps a new one, or a creation retried after its deletion went on    *)
(* (run SyncHoldsQueue), brings a deleted route back.                      *)
THEOREM RoutesAlwaysConverge ==
  OneAtATime /\ NoFailingHandler => (Spec /\ []OwnSession => []RouteConverged)
  <1> SUFFICES ASSUME OneAtATime, NoFailingHandler PROVE Spec /\ []OwnSession => []RouteConverged
    OBVIOUS
  <1>1. /\ Agreed /\ OwnSession /\ Blamed' /\ NothingOvertakes /\ SystemTypeOK'
        /\ RoutesInOrder /\ [Next]_vars
        => RoutesInOrder'
    <2> SUFFICES ASSUME Agreed, OwnSession, Blamed', NothingOvertakes, SystemTypeOK', RoutesInOrder,
                        UNCHANGED vars
                 PROVE  RoutesInOrder'
      BY RoutesStayInOrder
    <2>1. UNCHANGED <<row, payload, req, event, store, applied, answer, done, reinstated>>
      BY DEF vars, queueVars, roundVars, serverVars
    <2> QED  BY <2>1 DEF RoutesInOrder, RequestsInOrder, RequestInOrder, PhoneInOrder, RoutesAgree,
                RoutesAgreeOn, AppliedOf, FailsForGood, Saved, Hopeless, Written, Creator
  <1>2. Spec /\ []OwnSession => []Agreed
    BY InitAgrees, StepAgrees, PTL DEF Spec
  <1>3. Spec => [](SystemTypeOK /\ Blamed)
    <2>1. Init => SystemTypeOK /\ Blamed
      BY InitType, InitBlames
    <2>2. SystemTypeOK /\ Blamed /\ [Next]_vars => (SystemTypeOK /\ Blamed)'
      BY StepType, StepBlames
    <2> QED  BY <2>1, <2>2, PTL DEF Spec
  <1> QED  BY <1>1, <1>2, <1>3, NothingEverOvertakes, InitRoutesInOrder, RoutesInOrderConverge, PTL
           DEF Spec

==============================================================================
