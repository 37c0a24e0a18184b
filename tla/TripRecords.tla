----------------------------- MODULE TripRecords -----------------------------
(***************************************************************************)
(* A trip and its fixes on the server: TripsService and TrackingService    *)
(* over the tables trips and trip_points.  Every await is a step, and a    *)
(* statement reads and writes the rows as committed when it runs.          *)
(***************************************************************************)
EXTENDS Integers, FiniteSets

CONSTANTS
  Owner,      \* accounts; the first to start the trip owns it
  Nobody,
  Client,       \* requests handled at once
  MaxFix        \* bound: instants a fix can be recorded at

ASSUME TripRecordsAssumption == MaxFix \in Nat /\ Nobody \notin Owner

(* (trip_id, recorded_at) is unique: a fix is its instant. *)
Fix == 1..MaxFix

VARIABLES
  trip,    \* the row of trips
  fixes,   \* its rows of trip_points
  ask,     \* requests, by client
  missed   \* history: fixes stored after the distance, by requests that had found the trip ACTIVE

tripVars == <<trip, fixes, ask, missed>>

(* `measured' stands for distance_meters: the fixes it was measured over. *)
NoTrip == [owner |-> Nobody, status |-> "none", measured |-> {}]
NoAsk == [step |-> "idle", to |-> "none", by |-> Nobody, batch |-> {}, seen |-> "none"]

TripsInit ==
  /\ trip = NoTrip
  /\ fixes = {}
  /\ ask = [c \in Client |-> NoAsk]
  /\ missed = {}

AtStep(c, step) == ask[c].step = step
Reach(c, step) == ask' = [ask EXCEPT ![c].step = step]
Owns(c) == trip.owner = ask[c].by

-----------------------------------------------------------------------------
(* TripsController and TrackingController, and the pushed operations.      *)

Ask(c, by, to, batch) ==
  /\ AtStep(c, "idle")
  /\ ask' = [ask EXCEPT ![c] =
               [step |-> CASE to = "start" -> "find" [] to = "record" -> "accept" [] OTHER -> "get",
                to |-> to, by |-> by, batch |-> batch, seen |-> "none"]]
  /\ UNCHANGED <<trip, fixes, missed>>

Answered(c) ==
  /\ ask[c].step \in {"ok", "refused"}
  /\ ask' = [ask EXCEPT ![c] = NoAsk]
  /\ UNCHANGED <<trip, fixes, missed>>

(* A crash of the server, or a connection that is cut, ends the request. *)
Cut(c) ==
  /\ ask[c].step \notin {"idle", "ok", "refused"}
  /\ ask' = [ask EXCEPT ![c] = NoAsk]
  /\ missed' = IF AtStep(c, "measure") THEN missed \cup (fixes \ trip.measured) ELSE missed
  /\ UNCHANGED <<trip, fixes>>

-----------------------------------------------------------------------------
(* TripsService.                                                           *)

(* start: idempotent for the id the client chose. *)
FindTrip(c) ==
  /\ AtStep(c, "find")
  /\ Reach(c, IF trip = NoTrip THEN "create" ELSE IF Owns(c) THEN "ok" ELSE "refused")
  /\ UNCHANGED <<trip, fixes, missed>>

(* The primary key refuses a second row. *)
CreateTrip(c) ==
  /\ AtStep(c, "create")
  /\ \/ /\ trip = NoTrip
        /\ trip' = [owner |-> ask[c].by, status |-> "ACTIVE", measured |-> {}]
        /\ Reach(c, "ok")
     \/ trip # NoTrip /\ Reach(c, "refused") /\ UNCHANGED trip
  /\ UNCHANGED <<fixes, missed>>

(* finish and cancel: nothing to do twice, and only to an active trip. *)
GetTrip(c) ==
  /\ AtStep(c, "get")
  /\ Reach(c, IF ~Owns(c) THEN "refused" ELSE IF trip.status = ask[c].to THEN "ok"
           ELSE IF trip.status = "ACTIVE" THEN "update" ELSE "refused")
  /\ UNCHANGED <<trip, fixes, missed>>

UpdateTrip(c) ==
  /\ AtStep(c, "update")
  /\ trip' = [trip EXCEPT !.status = ask[c].to]
  /\ Reach(c, IF ask[c].to = "COMPLETED" THEN "measure" ELSE "ok")
  /\ UNCHANGED <<fixes, missed>>

recomputeDistance(c) ==
  /\ AtStep(c, "measure")
  /\ trip' = [trip EXCEPT !.measured = fixes]
  /\ Reach(c, "ok")
  /\ UNCHANGED <<fixes, missed>>

(* path: the positions of a track of `total' fixes that are returned.  The *)
(* division is that of SQL integers.                                       *)
EveryNthMutant(total, max) == {p \in 0..total - 1 : total <= max \/ p % (total \div max) = 0}
Thinned(total, max) ==
  {p \in 0..total - 1 :
     \/ total <= max
     \/ p = 0
     \/ (p * (max - 1)) \div (total - 1) > ((p - 1) * (max - 1)) \div (total - 1)}

-----------------------------------------------------------------------------
(* TrackingService.recordBatch.                                            *)

assertAcceptsPoints(c) ==
  /\ AtStep(c, "accept")
  /\ ask' = [ask EXCEPT ![c].step = IF ~Owns(c) \/ trip.status = "CANCELLED" THEN "refused" ELSE "insert",
                        ![c].seen = trip.status]
  /\ UNCHANGED <<trip, fixes, missed>>

(* ON CONFLICT DO NOTHING.  "Late fixes for an already finished trip       *)
(* (offline upload) update its distance."                                  *)
OnlyNewestMutant(c) ==
  /\ AtStep(c, "insert")
  /\ fixes' = fixes \cup ask[c].batch
  /\ Reach(c, IF \E f \in ask[c].batch : \A g \in fixes : f > g
           THEN IF ask[c].seen = "COMPLETED" THEN "measure" ELSE "ok" ELSE "ok")
  /\ missed' = IF ask[c].seen = "ACTIVE" /\ trip.status # "ACTIVE"
               THEN missed \cup (ask[c].batch \ fixes) ELSE missed
  /\ UNCHANGED trip
InsertFixes(c) ==
  /\ AtStep(c, "insert")
  /\ fixes' = fixes \cup ask[c].batch
  /\ Reach(c, IF ask[c].batch \subseteq fixes \/ ask[c].seen # "COMPLETED" THEN "ok" ELSE "measure")
  /\ missed' = IF ask[c].seen = "ACTIVE" /\ trip.status # "ACTIVE"
               THEN missed \cup (ask[c].batch \ fixes) ELSE missed
  /\ UNCHANGED trip

TripsStep(c) ==
  \/ FindTrip(c) \/ CreateTrip(c) \/ GetTrip(c) \/ UpdateTrip(c) \/ recomputeDistance(c)
  \/ assertAcceptsPoints(c) \/ InsertFixes(c) \/ Answered(c) \/ Cut(c)

TripsNext ==
  \E c \in Client :
    \/ TripsStep(c)
    \/ \E a \in Owner : \/ \E to \in {"start", "COMPLETED", "CANCELLED"} : Ask(c, a, to, {})
                          \/ \E batch \in SUBSET Fix : batch # {} /\ Ask(c, a, "record", batch)

TripsSpec == TripsInit /\ [][TripsNext]_tripVars

-----------------------------------------------------------------------------
(* Properties. *)

(* The distance of a completed trip is measured over every fix it has,     *)
(* also those that arrive later; it can leave out only fixes that a        *)
(* request stored after it had found the trip ACTIVE and another closed    *)
(* it, or whose request was cut before it measured                         *)
(* (TrackingService.recordBatch, TripsService.finish).                     *)
DistanceCoversTrack ==
  trip.status = "COMPLETED" /\ (\A c \in Client : ~AtStep(c, "measure"))
    => fixes \subseteq trip.measured \cup missed

(* "Longer recordings are thinned out to maxPoints fixes spread evenly     *)
(* from the first to the last one" (TripsService.path).                    *)
ThinnedKeepsEnds(total, max) ==
  LET kept == Thinned(total, max) IN
  total >= 1 => {0, total - 1} \subseteq kept /\ Cardinality(kept) = IF total < max THEN total ELSE max

(* A trip that begins, whatever number of fixes it will have. *)
PathKeepsEnds ==
  trip.status = "ACTIVE" /\ fixes = {} => \A total \in 0..12, max \in 2..6 : ThinnedKeepsEnds(total, max)

(* What a trip says of its fixes is about all of them: the distance kept   *)
(* when it ends covers the track, and the track shown keeps both ends.     *)
TracksAreWhole == DistanceCoversTrack /\ PathKeepsEnds
=============================================================================
