------------------------------ MODULE SyncServer ------------------------------
(***************************************************************************)
(* POST /api/v1/sync/push: SynchronizationService.push, one request per    *)
(* slot.  Requests run concurrently and interleave at every await: the     *)
(* events of the batch are read once at the start, then each operation is  *)
(* dispatched and, as a separate write, recorded.  A statement or a        *)
(* transaction of PostgreSQL is one step: the handler of a trip has up to  *)
(* three (look up, write, measure), and may be cut off between any two.    *)
(***************************************************************************)
EXTENDS SyncHandlers

CONSTANTS
  Slot,     \* requests the server may be working on at the same time
  Refused,  \* operations the API refuses with the whole request (400, 413)
  Invalid,  \* operations whose payload does not pass validation
  Fault     \* what may go wrong in the server, see the guards that name it

ASSUME SyncServerAssumption ==
  /\ Refused \subseteq Op
  /\ Invalid \subseteq Op
  /\ Fault \subseteq {"dispatch", "record", "outage", "crash"}

VARIABLES
  payload,   \* what each operation asks for: its kind and the item it is about
  req,       \* the requests being served
  event,     \* synchronization_events: what is recorded per user and operation
  store,     \* routes, trips and trip_points
  applied,   \* history: operations whose dispatch took effect
  unmeasured \* history: trips whose distance a handler should have measured and did not

serverVars == <<req, event, store, applied, unmeasured>>

Phase == {"free", "sent", "serving", "writing", "measuring", "recording",
          "replied", "refused", "unavailable"}
Request == [phase : Phase, user : Owner, todo : SUBSET Op, seen : SUBSET Op,
            code : Code \cup {"OK"}, found : TripStatus, result : [Op -> Result \cup {"none"}]]
Processing == {"serving", "writing", "measuring", "recording"}
Payload == [kind : Kind, item : Op]

Free == [phase |-> "free", user |-> NoAccount, todo |-> {}, seen |-> {},
         code |-> "OK", found |-> "NONE", result |-> NoAnswer]

(* todo: operations still to process; seen: those with an event that is    *)
(* not FAILED when the request began; found: the status of the trip that   *)
(* is to be written, when it was looked up; result: the results so far.    *)
ServerTypeOK ==
  /\ payload \in [Op -> Payload]
  /\ req \in [Slot -> Request]
  /\ event \in [Account -> [Op -> {"none", "APPLIED", "FAILED"}]]
  /\ store \in Store
  /\ applied \in SUBSET Op
  /\ unmeasured \in SUBSET Op

ServerInit ==
  /\ req = [s \in Slot |-> Free]
  /\ event = [u \in Account |-> [o \in Op |-> "none"]]
  /\ store = EmptyStore
  /\ applied = {}
  /\ unmeasured = {}

In(s, phase) == req[s].phase = phase
Goto(s, phase) == req' = [req EXCEPT ![s].phase = phase]
Drop(s) == req' = [req EXCEPT ![s] = Free]

(* Request q once the result of its operation o is known. *)
Processed(q, o, r) ==
  [q EXCEPT !.phase = "serving", !.todo = @ \ {o}, !.code = "OK",
            !.found = "NONE", !.result = [@ EXCEPT ![o] = r]]

Settle(s, o, r) == req' = [req EXCEPT ![s] = Processed(@, o, r)]

(* A request of user u with the operations b reaches the server. *)
Arrive(s, u, b) ==
  /\ In(s, "free")
  /\ req' = [req EXCEPT ![s] = [Free EXCEPT !.phase = "sent", !.user = u, !.todo = b]]
  /\ UNCHANGED <<event, store, applied, unmeasured>>

(* The request body is refused as a whole. *)
RefuseRequest(s) ==
  /\ In(s, "sent")
  /\ req[s].todo \cap Refused # {}
  /\ Goto(s, "refused")
  /\ UNCHANGED <<event, store, applied, unmeasured>>

(* Mutant: a failed attempt counts as a previous application. *)
KnownMutant(u, b) == {o \in b : event[u][o] # "none"}

(* Operations of the batch with an event that is not FAILED. *)
Known(u, b) == {o \in b : event[u][o] = "APPLIED"}

Accepted(q) == [q EXCEPT !.phase = "serving", !.seen = Known(q.user, q.todo)]

(* The device is registered and the events of the batch are read. *)
AcceptRequest(s) ==
  /\ In(s, "sent")
  /\ req[s].todo \cap Refused = {}
  /\ req' = [req EXCEPT ![s] = Accepted(@)]
  /\ UNCHANGED <<event, store, applied, unmeasured>>

(* 429, or an error before the first operation (device, events). *)
Outage(s) ==
  /\ "outage" \in Fault
  /\ In(s, "sent")
  /\ Goto(s, "unavailable")
  /\ UNCHANGED <<event, store, applied, unmeasured>>

(* Request s is about to process operation o, the next of its batch. *)
AtOperation(s, o) == In(s, "serving") /\ IsFirst(o, req[s].todo)

(* Recorded before this request began. *)
ReportDuplicate(s, o) ==
  /\ AtOperation(s, o)
  /\ o \in req[s].seen
  /\ Settle(s, o, "DUPLICATE")
  /\ UNCHANGED <<event, store, applied, unmeasured>>

(* dispatch: the payload is validated, then a route is saved or deleted.   *)
Handled(u, o) ==
  IF o \in Invalid THEN Refuse(store, "VALIDATION_ERROR")
  ELSE IF payload[o].kind = "route:UPSERT" THEN UpsertRoute(store, u, payload[o].item)
  ELSE DeleteRoute(store, u, payload[o].item)

Dispatched(q, c) == [q EXCEPT !.phase = "recording", !.code = c]

Dispatch(s, o) ==
  /\ AtOperation(s, o)
  /\ o \notin req[s].seen
  /\ o \in Invalid \/ payload[o].kind \in RouteKind
  /\ LET h == Handled(req[s].user, o)
     IN  /\ store' = h.store
         /\ req' = [req EXCEPT ![s] = Dispatched(@, h.code)]
         /\ applied' = IF h.code = "OK" THEN applied \cup {o} ELSE applied
  /\ UNCHANGED <<event, unmeasured>>

(* The request once verdict v is known for a trip found in status t. *)
LookedUp(q, v, t) ==
  IF v = "WRITE" THEN [q EXCEPT !.phase = "writing", !.code = "OK", !.found = t]
  ELSE Dispatched(q, v)

(* The handler of a trip's operation reads the trip. *)
LookUpTrip(s, o) ==
  /\ AtOperation(s, o)
  /\ o \notin req[s].seen \cup Invalid
  /\ payload[o].kind \notin RouteKind
  /\ LET i == payload[o].item
         v == Finds(store, req[s].user, payload[o].kind, i)
     IN  /\ req' = [req EXCEPT ![s] = LookedUp(@, v, store.trip[i])]
         /\ applied' = IF v = "OK" THEN applied \cup {o} ELSE applied
  /\ UNCHANGED <<event, store, unmeasured>>

(* Request s is in the handler of operation o of a trip, in one of phases. *)
InHandler(s, phases, o) == req[s].phase \in phases /\ IsFirst(o, req[s].todo)

(* Another request has created the trip meanwhile: the row is refused by   *)
(* its primary key, an unexpected failure.                                 *)
CreationClashes(s, o) ==
  /\ InHandler(s, {"writing"}, o)
  /\ payload[o].kind = "trip:CREATE"
  /\ store.owner[payload[o].item] # NoAccount
  /\ Settle(s, o, "TRANSIENT")
  /\ UNCHANGED <<event, store, applied, unmeasured>>

(* New fixes of a trip that has been finished since it was looked up.      *)
Overtaken(s, o) ==
  LET i == payload[o].item
  IN  /\ payload[o].kind = "points:CREATE" /\ o \notin store.points[i]
      /\ req[s].found # "COMPLETED" /\ store.trip[i] = "COMPLETED"

WriteTrip(s, o) ==
  LET k == payload[o].kind
      i == payload[o].item
  IN  /\ InHandler(s, {"writing"}, o)
      /\ k = "trip:CREATE" => store.owner[i] = NoAccount
      /\ store' = TripWritten(store, req[s].user, k, i, o)
      /\ applied' = applied \cup {o}
      /\ unmeasured' = IF Overtaken(s, o) THEN unmeasured \cup {i} ELSE unmeasured
      /\ Goto(s, IF MeasureDue(store, req[s].found, k, i, o) THEN "measuring" ELSE "recording")
      /\ UNCHANGED event

MeasureTrip(s, o) ==
  /\ InHandler(s, {"measuring"}, o)
  /\ store' = Measure(store, payload[o].item)
  /\ unmeasured' = unmeasured \ {payload[o].item}
  /\ Goto(s, "recording")
  /\ UNCHANGED <<event, applied>>

(* The trip whose distance is not measured if request s stops here. *)
Abandoned(s) == {payload[o].item : o \in {p \in Op : InHandler(s, {"measuring"}, p)}}

(* A handler fails: one of a route without effect (its transaction is      *)
(* rolled back), one of a trip with the effect of the statements it ran.   *)
DispatchFails(s, o) ==
  /\ "dispatch" \in Fault
  /\ \/ AtOperation(s, o) /\ o \notin req[s].seen
     \/ InHandler(s, {"writing", "measuring"}, o)
  /\ Settle(s, o, "TRANSIENT")
  /\ unmeasured' = unmeasured \cup Abandoned(s)
  /\ UNCHANGED <<event, store, applied>>

(* record: an upsert of the event, APPLIED or FAILED. *)
RecordEvent(s, o) ==
  /\ In(s, "recording") /\ IsFirst(o, req[s].todo)
  /\ LET ok == req[s].code = "OK"
     IN  /\ event' = [event EXCEPT ![req[s].user][o] = IF ok THEN "APPLIED" ELSE "FAILED"]
         /\ Settle(s, o, IF ok THEN "APPLIED" ELSE req[s].code)
  /\ UNCHANGED <<store, applied, unmeasured>>

(* record throws.  After a successful dispatch applyOne catches it and     *)
(* answers a retryable failure; in its catch block nothing does, and the   *)
(* whole request fails.  A handler that fails reading back what it wrote,  *)
(* or giving a new trip its device, is caught like the former.             *)
RecordFails(s, o) ==
  /\ "record" \in Fault
  /\ In(s, "recording") /\ IsFirst(o, req[s].todo)
  /\ IF req[s].code = "OK"
     THEN Settle(s, o, "TRANSIENT")
     ELSE Goto(s, "unavailable")
  /\ UNCHANGED <<event, store, applied, unmeasured>>

Reply(s) ==
  /\ In(s, "serving")
  /\ req[s].todo = {}
  /\ Goto(s, "replied")
  /\ UNCHANGED <<event, store, applied, unmeasured>>

(* The process dies with the request in it, at any statement. *)
CrashServing(s) ==
  /\ "crash" \in Fault
  /\ req[s].phase \in {"sent"} \cup Processing
  /\ Drop(s)
  /\ unmeasured' = unmeasured \cup Abandoned(s)
  /\ UNCHANGED <<event, store, applied>>

(* A finished request leaves the server, answered or not. *)
Leave(s) ==
  /\ req[s].phase \in {"replied", "refused", "unavailable"}
  /\ Drop(s)
  /\ UNCHANGED <<event, store, applied, unmeasured>>

Serve(s) ==
  \/ RefuseRequest(s) \/ AcceptRequest(s) \/ Reply(s)
  \/ \E o \in Op : \/ ReportDuplicate(s, o) \/ Dispatch(s, o) \/ RecordEvent(s, o)
                  \/ LookUpTrip(s, o) \/ WriteTrip(s, o) \/ MeasureTrip(s, o)
                  \/ CreationClashes(s, o)

ServerFault(s) == Outage(s) \/ \E o \in Op : DispatchFails(s, o) \/ RecordFails(s, o)

=============================================================================
