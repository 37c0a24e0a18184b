------------------------------- MODULE MCServer -------------------------------
(***************************************************************************)
(* Instances of the server for TLC: its records, and what it answers about *)
(* roads and places (MCRoads).  The parts share nothing: a behaviour is    *)
(* about one of them, and the others stay as they begin.                   *)
(***************************************************************************)
EXTENDS MCRoads, Accounts, RouteFeed, TripRecords, Geofences

CONSTANT Part   \* the parts of the run

recordVars == <<accountVars, feedVars, tripVars, fenceVars>>

Init ==
  /\ AccountsInit /\ RouteFeedInit /\ TripsInit /\ FencesInit
  /\ part \in Part /\ RoadsInit
Next ==
  /\ part' = part
  /\ \/ RoadsNext /\ UNCHANGED recordVars
     \/ /\ UNCHANGED roadVars
        /\ \/ part = "accounts" /\ AccountsNext /\ UNCHANGED <<feedVars, tripVars, fenceVars>>
           \/ part = "routes" /\ RouteFeedNext /\ UNCHANGED <<accountVars, tripVars, fenceVars>>
           \/ part = "trips" /\ TripsNext /\ UNCHANGED <<accountVars, feedVars, fenceVars>>
           \/ part = "geofences" /\ FencesNext /\ UNCHANGED <<accountVars, feedVars, tripVars>>
Spec == Init /\ [][Next]_<<recordVars, roadVars, part>>
=============================================================================
