------------------------------- MODULE Geocoding -------------------------------
(***************************************************************************)
(* Place searches on the server (GeocodingService over                     *)
(* CompositeGeocodingProvider): the detailed provider of the country, the  *)
(* index of the world, which is a file re-read at most every RECHECK, and  *)
(* the cache of a day.  An answer is told by the versions of the data in   *)
(* it, 0 for a source that is not in it; every await ends a step.  What    *)
(* the places of an answer are is in PlaceAnswers.                         *)
(***************************************************************************)
EXTENDS Integers, FiniteSets

CONSTANTS
  Searcher,      \* requests under way at a time
  MaxSearch,     \* bound: requests
  MaxRelease,    \* bound: times each file is written
  BadFile,       \* releases of the world that cannot be parsed
  MaxMinute,     \* bound: time
  RECHECK, DEGRADED   \* recheckMs, DEGRADED_MS: a minute each

ASSUME GeocodingAssumption ==
  /\ {MaxSearch, MaxRelease, MaxMinute, RECHECK, DEGRADED} \subseteq Nat
  /\ MaxRelease > 0 /\ RECHECK > 0 /\ DEGRADED > 0

VARIABLES
  provider,      \* "native", "nominatim" or "none"
  detail,        \* the release that the provider answers from
  detailUp,      \* whether it answers
  placesFile,    \* the release of world.places.json, 0 while there is none
  placeIndex,    \* places, loadedMtime, checkedAt; loading and the mtime seen
  degradedUntil,
  answers,       \* cached: of a kind of request and a dataVersion
  searches,      \* of each Searcher
  searched, minute

geoVars == <<provider, detail, detailUp, placesFile, placeIndex, degradedUntil, answers, searches, searched, minute>>

NoAnswer == [world |-> -1, detailed |-> -1]
NoSearch == [pc |-> "idle", kind |-> "search", version |-> 0, named |-> FALSE, world |-> 0, status |-> 0]
Told(status) == [NoSearch EXCEPT !.status = status]
Unavailable == Told(503)      \* GeocodingUnavailableError
Goes(s, search) == searches' = [searches EXCEPT ![s] = search]
enabled == provider # "none"

-----------------------------------------------------------------------------
(* GeocodingService.cached. *)

(* Nominatim has no data version.  The text names a place of the world, or *)
(* none of them.                                                           *)
StartSearch(s, kind, named) ==
  /\ searches[s].pc = "idle" /\ searched < MaxSearch
  /\ searched' = searched + 1
  /\ Goes(s, [pc |-> "cache", kind |-> kind, version |-> IF provider = "native" THEN detail ELSE 0,
              named |-> named, world |-> 0, status |-> 0])
  /\ UNCHANGED <<provider, detail, detailUp, placesFile, placeIndex, degradedUntil, answers, minute>>

ReadAnswer(s) ==
  LET of == searches[s] IN
  /\ of.pc = "cache"
  /\ Goes(s, IF answers[<<of.kind, of.version>>] # NoAnswer THEN Told(200)
             ELSE [of EXCEPT !.pc = IF of.kind = "search" THEN "world" ELSE "detailed"])
  /\ UNCHANGED <<provider, detail, detailUp, placesFile, placeIndex, degradedUntil, answers, searched, minute>>

(* Partial answers (a source is down) would hide the complete ones.        *)
AlwaysMutant(of, answer) == answers' = [answers EXCEPT ![<<of.kind, of.version>>] = answer]
KeepsWhole(of, answer) ==
  answers' = IF degradedUntil' > minute THEN answers ELSE [answers EXCEPT ![<<of.kind, of.version>>] = answer]

-----------------------------------------------------------------------------
(* WorldPlaceIndex.load and reload. *)

WithPlaces(of, places) ==
  IF of.pc = "available" THEN IF places = 0 THEN Unavailable ELSE [of EXCEPT !.pc = "end"]
  ELSE [of EXCEPT !.world = places,
                  !.pc = IF enabled THEN "detailed" ELSE IF of.named /\ places # 0 THEN "end" ELSE "available"]
LoadPlaces(s) ==
  /\ searches[s].pc \in {"world", "available"}
  /\ IF minute - placeIndex.checkedAt < RECHECK
     THEN UNCHANGED placeIndex /\ Goes(s, WithPlaces(searches[s], placeIndex.places))
     ELSE /\ placeIndex' = IF placeIndex.loading # "no" THEN placeIndex
                           ELSE [placeIndex EXCEPT !.loading = "stat", !.checkedAt = minute]
          /\ Goes(s, [searches[s] EXCEPT !.pc = IF @ = "world" THEN "joined" ELSE "rejoined"])
  /\ UNCHANGED <<provider, detail, detailUp, placesFile, degradedUntil, answers, searched, minute>>

Waiting(s) == searches[s].pc \in {"joined", "rejoined"}
AsAsked(s) == [searches[s] EXCEPT !.pc = IF @ = "joined" THEN "world" ELSE "available"]
FirstWaitingMutant == {CHOOSE s \in Searcher : Waiting(s)}
Resolved == {s \in Searcher : Waiting(s)}
(* The load ends, and all who wait for it go on with the same places.      *)
Reloaded(places, mtime) ==
  /\ placeIndex' = [placeIndex EXCEPT !.places = places, !.loadedMtime = mtime, !.loading = "no", !.seen = 0]
  /\ searches' = [s \in Searcher |-> IF s \in Resolved THEN WithPlaces(AsAsked(s), places) ELSE searches[s]]

(* stat: the file that was read already is not read again. *)
StatPlaces ==
  /\ placeIndex.loading = "stat"
  /\ IF placesFile \in {0, placeIndex.loadedMtime}
     THEN Reloaded(placeIndex.places, placeIndex.loadedMtime)
     ELSE placeIndex' = [placeIndex EXCEPT !.loading = "read", !.seen = placesFile] /\ UNCHANGED searches
  /\ UNCHANGED <<provider, detail, detailUp, placesFile, degradedUntil, answers, searched, minute>>
SeenMtimeMutant == placeIndex.seen
MtimeAfterFailure == placeIndex.loadedMtime
ReadPlaces ==
  /\ placeIndex.loading = "read"
  /\ IF placesFile \in BadFile THEN Reloaded(placeIndex.places, MtimeAfterFailure)
     ELSE Reloaded(placesFile, placeIndex.seen)
  /\ UNCHANGED <<provider, detail, detailUp, placesFile, degradedUntil, answers, searched, minute>>

-----------------------------------------------------------------------------
(* CompositeGeocodingProvider.search, once it has the places of the world, *)
(* and reverse, which is the detailed provider's.                          *)

AskDetailed(s) ==
  LET of == searches[s] IN
  /\ of.pc = "detailed"
  /\ IF enabled /\ detailUp
     THEN UNCHANGED degradedUntil /\ KeepsWhole(of, [world |-> of.world, detailed |-> detail]) /\ Goes(s, Told(200))
     ELSE IF of.kind = "reverse" \/ ~of.named \/ of.world = 0
     THEN UNCHANGED <<degradedUntil, answers>> /\ Goes(s, Unavailable)
     ELSE /\ degradedUntil' = minute + DEGRADED
          /\ KeepsWhole(of, [world |-> of.world, detailed |-> 0]) /\ Goes(s, Told(200))
  /\ UNCHANGED <<provider, detail, detailUp, placesFile, placeIndex, searched, minute>>

(* Without a detailed provider the world answers alone. *)
WorldOnly(s) ==
  /\ searches[s].pc = "end"
  /\ UNCHANGED degradedUntil /\ KeepsWhole(searches[s], [world |-> searches[s].world, detailed |-> 0]) /\ Goes(s, Told(200))
  /\ UNCHANGED <<provider, detail, detailUp, placesFile, placeIndex, searched, minute>>

-----------------------------------------------------------------------------
(* The files and the sources change, time passes, what is cached expires.  *)
WritePlaces ==
  /\ placesFile < MaxRelease
  /\ placesFile' = placesFile + 1
  /\ UNCHANGED <<provider, detail, detailUp, placeIndex, degradedUntil, answers, searches, searched, minute>>
ReplaceDetail ==
  /\ detail < MaxRelease
  /\ detail' = detail + 1
  /\ UNCHANGED <<provider, detailUp, placesFile, placeIndex, degradedUntil, answers, searches, searched, minute>>
DetailGoes ==
  /\ detailUp' = ~detailUp
  /\ UNCHANGED <<provider, detail, placesFile, placeIndex, degradedUntil, answers, searches, searched, minute>>
Minute ==
  /\ minute < MaxMinute
  /\ minute' = minute + 1
  /\ UNCHANGED <<provider, detail, detailUp, placesFile, placeIndex, degradedUntil, answers, searches, searched>>
ExpireAnswer ==
  /\ \E k \in DOMAIN answers : answers' = [answers EXCEPT ![k] = NoAnswer]
  /\ UNCHANGED <<provider, detail, detailUp, placesFile, placeIndex, degradedUntil, searches, searched, minute>>

GeoInit ==
  /\ provider \in {"native", "nominatim", "none"}
  /\ detail = 1 /\ detailUp \in BOOLEAN
  /\ placesFile \in {0, 1}
  /\ placeIndex = [places |-> 0, loadedMtime |-> -1, checkedAt |-> -RECHECK, loading |-> "no", seen |-> 0]
  /\ degradedUntil = 0
  /\ answers = [k \in {"search", "reverse"} \X (0..MaxRelease) |-> NoAnswer]
  /\ searches = [s \in Searcher |-> NoSearch]
  /\ searched = 0 /\ minute = 0

GeoNext ==
  \/ \E s \in Searcher : \/ \E kind \in {"search", "reverse"}, named \in BOOLEAN : StartSearch(s, kind, named)
                         \/ ReadAnswer(s) \/ LoadPlaces(s) \/ AskDetailed(s) \/ WorldOnly(s)
  \/ StatPlaces \/ ReadPlaces \/ WritePlaces \/ ReplaceDetail \/ DetailGoes \/ Minute \/ ExpireAnswer

GeoSpec == GeoInit /\ [][GeoNext]_geoVars

-----------------------------------------------------------------------------
(* Properties. *)

Release == 0..MaxRelease
Search == [pc : {"idle", "cache", "world", "joined", "detailed", "available", "rejoined", "end"},
           kind : {"search", "reverse"}, version : Release, named : BOOLEAN,
           world : Release, status : {0, 200, 503}]
GeoTypeOK ==
  /\ provider \in {"native", "nominatim", "none"}
  /\ detail \in Release /\ detailUp \in BOOLEAN /\ placesFile \in Release
  /\ placeIndex \in [places : Release, loadedMtime : Release \cup {-1}, checkedAt : Int,
                     loading : {"no", "stat", "read"}, seen : Release]
  /\ degradedUntil \in 0..MaxMinute + DEGRADED /\ minute \in 0..MaxMinute /\ searched \in 0..MaxSearch
  /\ answers \in [{"search", "reverse"} \X Release -> [world : Release \cup {-1}, detailed : Release \cup {-1}]]
  /\ searches \in [Searcher -> Search]

(* "Partial answers (a source is down) would hide the complete ones for a  *)
(* day": where there is a detailed provider, an answer is kept only with   *)
(* what that provider has (0 is an answer without it, whatever the key),   *)
(* and of the release in its key or a later one (cached, degraded,         *)
(* dataVersion).                                                           *)
KeptAnswersAreDetailed ==
  enabled => \A k \in DOMAIN answers : answers[k] # NoAnswer =>
    answers[k].detailed >= 1 /\ answers[k].detailed >= k[2]

(* The index passes for that of the file on disk only when it is, though   *)
(* the file was replaced while it was read (reload).                       *)
PlacesAreCurrent ==
  placeIndex.loadedMtime = placesFile => placeIndex.places = placesFile

(* Who waits for the index waits for a load under way (load).              *)
WaitersAreServed == \A s \in Searcher : Waiting(s) => placeIndex.loading # "no"

(* Searches that wait for the places of the world are answered with them,  *)
(* and none takes an older file for the one on disk.                       *)
PlacesReachTheirSearchers == WaitersAreServed /\ PlacesAreCurrent
================================================================================
