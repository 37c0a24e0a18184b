---------------------------- MODULE SyncHandlers ----------------------------
(***************************************************************************)
(* What the server does with one pushed operation: the cases of            *)
(* SynchronizationService.dispatch for saved routes, trips and tracking    *)
(* points, down to the rows they leave.  A route or a trip is named by the *)
(* rowid of the operation that created it (its UUID), and the points of a  *)
(* trip by the operation that carries them.  A route is saved or deleted   *)
(* in one transaction; the handlers of a trip have none: they look the trip*)
(* up, write, and may measure its distance, in a statement each.  No state *)
(* of its own: each operator is one statement, or what one decides.        *)
(***************************************************************************)
EXTENDS SyncTypes

TripStatus == {"NONE", "ACTIVE", "COMPLETED", "CANCELLED"}

(* owner: user_id of the row in routes or trips; trip: trips.status;       *)
(* points: rows of trip_points; measured: those distance_meters counts.    *)
Store == [owner : [Op -> Owner], trip : [Op -> TripStatus],
          points : [Op -> SUBSET Op], measured : [Op -> SUBSET Op]]

EmptyStore == [owner |-> [i \in Op |-> NoAccount], trip |-> [i \in Op |-> "NONE"],
               points |-> [i \in Op |-> {}], measured |-> [i \in Op |-> {}]]

Ok(s) == [store |-> s, code |-> "OK"]
Refuse(s, c) == [store |-> s, code |-> c]

(* SavedRoutesService.save: an upsert that leaves rows of other users alone. *)
UpsertRoute(s, u, i) ==
  IF s.owner[i] \in {NoAccount, u} THEN Ok([s EXCEPT !.owner[i] = u]) ELSE Refuse(s, "CONFLICT")

(* Deleting a route that is not there succeeds and does nothing. *)
DeleteRoute(s, u, i) ==
  Ok(IF s.owner[i] = u THEN [s EXCEPT !.owner[i] = NoAccount] ELSE s)

(* What a look-up tells a handler to do: write, or answer at once, with OK *)
(* for a trip that is as asked already.                                    *)
Verdict == Code \cup {"OK", "WRITE"}

(* TripsService.start: an existing trip of the same user is returned as it is. *)
StartFinds(s, u, i) ==
  CASE s.owner[i] = NoAccount -> "WRITE"
    [] s.owner[i] = u         -> "OK"
    [] OTHER                  -> "CONFLICT"

(* TripsService.finish and cancel: a trip that ended so is returned.       *)
Ending(k) == IF k = "trip:FINISH" THEN "COMPLETED" ELSE "CANCELLED"

EndFinds(s, u, i, end) ==
  IF s.owner[i] # u THEN "TRIP_NOT_FOUND"
  ELSE CASE s.trip[i] = end      -> "OK"
         [] s.trip[i] = "ACTIVE" -> "WRITE"
         [] OTHER                -> "TRIP_NOT_ACTIVE"

(* TripsService.assertAcceptsPoints *)
RecordFinds(s, u, i) ==
  IF s.owner[i] # u THEN "TRIP_NOT_FOUND"
  ELSE IF s.trip[i] = "CANCELLED" THEN "TRIP_NOT_ACTIVE" ELSE "WRITE"

(* What user u's operation of kind k finds of trip i. *)
Finds(s, u, k, i) ==
  CASE k = "trip:CREATE"   -> StartFinds(s, u, i)
    [] k = "points:CREATE" -> RecordFinds(s, u, i)
    [] OTHER               -> EndFinds(s, u, i, Ending(k))

(* Mutant: fixes of a trip that has ended meanwhile are not stored. *)
LateFixesDroppedMutant(s, u, k, i, o) ==
  CASE k = "trip:CREATE"   -> [s EXCEPT !.owner[i] = u, !.trip[i] = "ACTIVE"]
    [] k = "points:CREATE" ->
         IF s.trip[i] = "ACTIVE" THEN [s EXCEPT !.points[i] = @ \cup {o}] ELSE s
    [] OTHER               -> [s EXCEPT !.trip[i] = Ending(k)]

(* The write that follows, whatever became of the trip since the look-up:  *)
(* a new row; fixes, ON CONFLICT DO NOTHING; or the status of a trip.      *)
TripWritten(s, u, k, i, o) ==
  CASE k = "trip:CREATE"   -> [s EXCEPT !.owner[i] = u, !.trip[i] = "ACTIVE"]
    [] k = "points:CREATE" -> [s EXCEPT !.points[i] = @ \cup {o}]
    [] OTHER               -> [s EXCEPT !.trip[i] = Ending(k)]

(* Mutant: late fixes do not update the distance. *)
LateFixesUnmeasuredMutant(s, found, k, i, o) == k = "trip:FINISH"

(* The distance is measured next: the trip ends, or new fixes come to one  *)
(* that was found finished.                                                *)
MeasureDue(s, found, k, i, o) ==
  \/ k = "trip:FINISH"
  \/ k = "points:CREATE" /\ found = "COMPLETED" /\ o \notin s.points[i]

(* TripsService.recomputeDistance *)
Measure(s, i) == [s EXCEPT !.measured[i] = s.points[i]]

=============================================================================
