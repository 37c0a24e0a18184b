----------------------------- MODULE ServiceProofs -----------------------------
(***************************************************************************)
(* Theorems about the services whose files are replaced while they answer, *)
(* for any number of requests, releases of the files, minutes and hours.   *)
(* Geocoding: the index of the world's places, who waits for it, and the   *)
(* answers that are kept.  RouteService: the store of road graphs, and the *)
(* traffic drawn on them.  RouteConditions: what a route is told besides.  *)
(***************************************************************************)
EXTENDS Geocoding, RouteService, RouteConditions, TLAPS, FiniteSetTheorems, FunctionTheorems, NaturalsInduction,
        WellFoundedInduction

-----------------------------------------------------------------------------
(* The inductive invariant. *)

(* The versions read are of files that were there; 0 is no release of the  *)
(* detailed provider.                                                      *)
VersionsArePast ==
  /\ detail >= 1
  /\ placeIndex.loadedMtime <= placesFile /\ placeIndex.seen <= placesFile
  /\ \A s \in Searcher : searches[s].version <= detail

(* With a detailed provider no search goes on to answer from the world alone. *)
DetailIsAsked ==
  enabled => \A s \in Searcher : searches[s].pc \notin {"available", "rejoined", "end"}

GeoInv == GeoTypeOK /\ VersionsArePast /\ DetailIsAsked /\ KeptAnswersAreDetailed
          /\ PlacesAreCurrent /\ WaitersAreServed

USE GeocodingAssumption

LEMMA Releases == 0 \in Release /\ 1 \in Release /\ Release \subseteq Int /\ \A r \in Release : 0 <= r
  BY DEF Release

LEMMA ToldIsSearch ==
  /\ NoSearch \in Search /\ NoSearch.version = 0
  /\ \A status \in {0, 200, 503} :
       Told(status) \in Search /\ Told(status).version = 0 /\ Told(status).pc = "idle"
  <1>1. NoSearch \in Search /\ NoSearch.version = 0 /\ NoSearch.pc = "idle"
    BY Releases DEF NoSearch, Search
  <1> QED  BY <1>1 DEF Told, Search

LEMMA InitInv == GeoInit => GeoInv
  <1> SUFFICES ASSUME GeoInit PROVE GeoInv
    OBVIOUS
  <1>1. GeoTypeOK
    BY DEF GeoInit, GeoTypeOK, Release, Search, NoSearch, NoAnswer
  <1>2. VersionsArePast /\ DetailIsAsked /\ PlacesAreCurrent /\ WaitersAreServed
    BY DEF GeoInit, VersionsArePast, DetailIsAsked, PlacesAreCurrent, WaitersAreServed, Waiting, NoSearch
  <1>3. KeptAnswersAreDetailed
    BY DEF GeoInit, KeptAnswersAreDetailed
  <1> QED  BY <1>1, <1>2, <1>3 DEF GeoInv

(* A search that goes on without waiting, the rest being equal. *)
LEMMA Going ==
  ASSUME GeoInv, NEW s \in Searcher, NEW new \in Search, Goes(s, new),
         new.pc \notin {"joined", "rejoined"}, new.version <= detail,
         enabled => new.pc \notin {"available", "end"},
         UNCHANGED <<provider, detail, detailUp, placesFile, placeIndex, minute>>,
         degradedUntil' \in 0..MaxMinute + DEGRADED, searched' \in 0..MaxSearch,
         answers' \in [{"search", "reverse"} \X Release -> [world : Release \cup {-1}, detailed : Release \cup {-1}]],
         KeptAnswersAreDetailed'
  PROVE  GeoInv'
  <1> USE DEF GeoInv
  <1>1. searches' = [searches EXCEPT ![s] = new] /\ searches \in [Searcher -> Search]
    BY DEF Goes, GeoTypeOK
  <1>2. GeoTypeOK'
    BY <1>1 DEF GeoTypeOK, Release, Search
  <1>3. VersionsArePast'
    BY <1>1 DEF VersionsArePast
  <1>4. DetailIsAsked'
    BY <1>1 DEF DetailIsAsked, enabled
  <1>5. PlacesAreCurrent' /\ WaitersAreServed'
    BY <1>1 DEF PlacesAreCurrent, WaitersAreServed, Waiting
  <1> QED  BY <1>2, <1>3, <1>4, <1>5

LEMMA SameAnswers ==
  ASSUME KeptAnswersAreDetailed, UNCHANGED <<provider, answers>>
  PROVE  KeptAnswersAreDetailed'
  BY DEF KeptAnswersAreDetailed, enabled

(* What a search does with the places, when it has them. *)
LEMMA HasPlaces ==
  ASSUME NEW of \in Search, NEW places \in Release, of.pc \in {"world", "available"},
         enabled => of.pc # "available"
  PROVE  /\ WithPlaces(of, places) \in Search
         /\ WithPlaces(of, places).pc \notin {"joined", "rejoined"}
         /\ WithPlaces(of, places).version \in {of.version, 0}
         /\ enabled => WithPlaces(of, places).pc \notin {"available", "end"}
  <1>1. CASE of.pc = "available"
    BY <1>1, ToldIsSearch DEF WithPlaces, Unavailable, Search
  <1>2. CASE of.pc = "world"
    <2> DEFINE pc == IF enabled THEN "detailed" ELSE IF of.named /\ places # 0 THEN "end" ELSE "available"
    <2>1. WithPlaces(of, places) = [of EXCEPT !.world = places, !.pc = pc]
      BY <1>2 DEF WithPlaces
    <2>2. pc \in {"detailed", "end", "available"} /\ (enabled => pc = "detailed")
      OBVIOUS
    <2> HIDE DEF pc
    <2>3. /\ [of EXCEPT !.world = places, !.pc = pc] \in Search
          /\ [of EXCEPT !.world = places, !.pc = pc].pc = pc
          /\ [of EXCEPT !.world = places, !.pc = pc].version = of.version
      BY <2>2, ZenonT(60) DEF Search
    <2> QED  BY <2>1, <2>2, <2>3
  <1> QED  BY <1>1, <1>2

(* The load ends: all who wait go on. *)
LEMMA LoadEnds ==
  ASSUME GeoInv, NEW places \in Release, NEW mtime \in Release \cup {-1}, Reloaded(places, mtime),
         mtime <= placesFile, mtime = placesFile => places = placesFile,
         UNCHANGED <<provider, detail, detailUp, placesFile, degradedUntil, answers, searched, minute>>
  PROVE  GeoInv'
  <1> USE DEF GeoInv
  <1>1. placeIndex' = [placeIndex EXCEPT !.places = places, !.loadedMtime = mtime, !.loading = "no", !.seen = 0]
    BY DEF Reloaded
  <1>2. placeIndex' \in [places : Release, loadedMtime : Release \cup {-1}, checkedAt : Int,
                         loading : {"no", "stat", "read"}, seen : Release]
    BY <1>1, Releases DEF GeoTypeOK
  <1>3. placeIndex'.places = places /\ placeIndex'.loadedMtime = mtime /\ placeIndex'.seen = 0
    BY <1>1 DEF GeoTypeOK
  <1>4. ASSUME NEW s \in Searcher
        PROVE  /\ searches'[s] \in Search /\ searches'[s].version \in {searches[s].version, 0}
               /\ searches'[s].pc \notin {"joined", "rejoined"}
               /\ enabled => searches'[s].pc \notin {"available", "end"}
    <2>1. searches[s] \in Search
      BY DEF GeoTypeOK
    <2>2. CASE Waiting(s)
      <3>1. searches'[s] = WithPlaces(AsAsked(s), places)
        BY <2>2 DEF Reloaded, Resolved
      <3>2. /\ AsAsked(s) \in Search /\ AsAsked(s).version = searches[s].version
            /\ AsAsked(s).pc \in {"world", "available"}
            /\ enabled => AsAsked(s).pc # "available"
        BY <2>1, <2>2 DEF AsAsked, Search, Waiting, DetailIsAsked
      <3> QED  BY <3>1, <3>2, HasPlaces
    <2>3. CASE ~Waiting(s)
      <3>1. searches'[s] = searches[s]
        BY <2>3 DEF Reloaded, Resolved
      <3> QED  BY <2>1, <2>3, <3>1 DEF Waiting, DetailIsAsked
    <2> QED  BY <2>2, <2>3
  <1>5. searches' \in [Searcher -> Search]
    BY <1>4 DEF Reloaded
  <1>6. GeoTypeOK'
    BY <1>2, <1>5 DEF GeoTypeOK, Release
  <1>7. VersionsArePast'
    <2>1. \A s \in Searcher : searches[s].version <= detail /\ 0 <= detail
      BY DEF VersionsArePast, GeoTypeOK, Release
    <2> QED  BY <1>3, <1>4, <2>1 DEF VersionsArePast, GeoTypeOK, Release
  <1>8. DetailIsAsked' /\ WaitersAreServed'
    BY <1>4 DEF DetailIsAsked, WaitersAreServed, Waiting, enabled
  <1>9. PlacesAreCurrent'
    BY <1>3 DEF PlacesAreCurrent
  <1> QED  BY <1>6, <1>7, <1>8, <1>9, SameAnswers

-----------------------------------------------------------------------------
(* The steps. *)

LEMMA StartKeepsInv ==
  ASSUME GeoInv, NEW s \in Searcher, NEW kind \in {"search", "reverse"}, NEW named \in BOOLEAN,
         StartSearch(s, kind, named)
  PROVE  GeoInv'
  <1> DEFINE v == IF provider = "native" THEN detail ELSE 0
             new == [pc |-> "cache", kind |-> kind, version |-> v, named |-> named, world |-> 0, status |-> 0]
  <1>1. v \in Release /\ v <= detail
    BY DEF GeoInv, GeoTypeOK, Release
  <1>2. new \in Search /\ new.pc = "cache" /\ new.version = v
    <2>1. "cache" \in {"idle", "cache", "world", "joined", "detailed", "available", "rejoined", "end"}
          /\ 0 \in {0, 200, 503}
      OBVIOUS
    <2>2. new \in Search
      BY <1>1, <2>1, Releases, Zenon DEF Search
    <2> QED  BY <2>2
  <1>3. Goes(s, new) /\ searched' \in 0..MaxSearch
        /\ UNCHANGED <<provider, detail, detailUp, placesFile, placeIndex, degradedUntil, answers, minute>>
    BY DEF StartSearch, GeoInv, GeoTypeOK
  <1>4. KeptAnswersAreDetailed'
    BY <1>3, SameAnswers DEF GeoInv
  <1> QED  BY <1>1, <1>2, <1>3, <1>4, Going DEF GeoInv, GeoTypeOK

LEMMA ReadKeepsInv ==
  ASSUME GeoInv, NEW s \in Searcher, ReadAnswer(s)
  PROVE  GeoInv'
  <1> DEFINE of == searches[s]
             on == [of EXCEPT !.pc = IF of.kind = "search" THEN "world" ELSE "detailed"]
  <1>1. of \in Search /\ of.version <= detail /\ 0 <= detail
    BY DEF GeoInv, GeoTypeOK, VersionsArePast, Release
  <1>2. on \in Search /\ on.version = of.version /\ on.pc \in {"world", "detailed"}
    BY <1>1 DEF Search
  <1>3. Told(200) \in Search /\ Told(200).version = 0 /\ Told(200).pc = "idle"
    BY ToldIsSearch
  <1>4. /\ Goes(s, on) \/ Goes(s, Told(200))
        /\ UNCHANGED <<provider, detail, detailUp, placesFile, placeIndex, degradedUntil, answers, searched, minute>>
    BY DEF ReadAnswer
  <1>5. KeptAnswersAreDetailed'
    BY <1>4, SameAnswers DEF GeoInv
  <1> HIDE DEF on, of
  <1> QED  BY <1>1, <1>2, <1>3, <1>4, <1>5, Going DEF GeoInv, GeoTypeOK

LEMMA LoadKeepsInv ==
  ASSUME GeoInv, NEW s \in Searcher, LoadPlaces(s)
  PROVE  GeoInv'
  <1> DEFINE of == searches[s]
  <1>1. /\ of \in Search /\ of.version <= detail /\ 0 <= detail /\ of.pc \in {"world", "available"}
        /\ enabled => of.pc # "available"
        /\ UNCHANGED <<provider, detail, detailUp, placesFile, degradedUntil, answers, searched, minute>>
    BY DEF GeoInv, GeoTypeOK, VersionsArePast, Release, DetailIsAsked, LoadPlaces
  <1>2. KeptAnswersAreDetailed'
    BY <1>1, SameAnswers DEF GeoInv
  <1>3. CASE minute - placeIndex.checkedAt < RECHECK
    <2>1. UNCHANGED placeIndex /\ Goes(s, WithPlaces(of, placeIndex.places)) /\ placeIndex.places \in Release
      BY <1>3 DEF LoadPlaces, GeoInv, GeoTypeOK
    <2>2. /\ WithPlaces(of, placeIndex.places) \in Search
          /\ WithPlaces(of, placeIndex.places).pc \notin {"joined", "rejoined"}
          /\ WithPlaces(of, placeIndex.places).version \in {of.version, 0}
          /\ enabled => WithPlaces(of, placeIndex.places).pc \notin {"available", "end"}
      BY <1>1, <2>1, HasPlaces
    <2> HIDE DEF of
    <2> QED  BY <1>1, <1>2, <2>1, <2>2, Going DEF GeoInv, GeoTypeOK
  <1>4. CASE ~(minute - placeIndex.checkedAt < RECHECK)
    <2> DEFINE new == [of EXCEPT !.pc = IF of.pc = "world" THEN "joined" ELSE "rejoined"]
    <2>1. /\ searches' = [searches EXCEPT ![s] = new]
          /\ placeIndex' = IF placeIndex.loading # "no" THEN placeIndex
                           ELSE [placeIndex EXCEPT !.loading = "stat", !.checkedAt = minute]
      BY <1>4 DEF LoadPlaces, Goes
    <2>2. new \in Search /\ new.version = of.version /\ (enabled => new.pc = "joined")
      BY <1>1 DEF Search
    <2>3. /\ placeIndex' \in [places : Release, loadedMtime : Release \cup {-1}, checkedAt : Int,
                             loading : {"no", "stat", "read"}, seen : Release]
          /\ placeIndex'.places = placeIndex.places /\ placeIndex'.loadedMtime = placeIndex.loadedMtime
          /\ placeIndex'.seen = placeIndex.seen /\ placeIndex'.loading # "no"
      <3>1. placeIndex \in [places : Release, loadedMtime : Release \cup {-1}, checkedAt : Int,
                            loading : {"no", "stat", "read"}, seen : Release] /\ minute \in Int
        BY DEF GeoInv, GeoTypeOK
      <3>2. CASE placeIndex.loading # "no"
        BY <2>1, <3>1, <3>2
      <3>3. CASE placeIndex.loading = "no"
        BY <2>1, <3>1, <3>3
      <3> QED  BY <3>2, <3>3
    <2>4. /\ searches' \in [Searcher -> Search] /\ searches'[s] = new
          /\ \A r \in Searcher : r # s => searches'[r] = searches[r]
      <3>1. searches \in [Searcher -> Search] /\ searches' = [searches EXCEPT ![s] = new]
        BY <2>1 DEF GeoInv, GeoTypeOK
      <3> HIDE DEF new
      <3> QED  BY <2>2, <3>1
    <2>5. GeoTypeOK'
      BY <1>1, <2>3, <2>4 DEF GeoInv, GeoTypeOK, Release
    <2>6. VersionsArePast'
      BY <1>1, <2>2, <2>3, <2>4, ZenonT(60) DEF GeoInv, VersionsArePast
    <2>8. DetailIsAsked'
      BY <1>1, <2>2, <2>4 DEF GeoInv, DetailIsAsked, enabled
    <2>7. PlacesAreCurrent' /\ WaitersAreServed'
      BY <1>1, <2>3 DEF GeoInv, PlacesAreCurrent, WaitersAreServed
    <2> QED  BY <1>2, <2>5, <2>6, <2>7, <2>8 DEF GeoInv
  <1> QED  BY <1>3, <1>4

LEMMA FileKeepsInv ==
  ASSUME GeoInv, StatPlaces \/ ReadPlaces
  PROVE  GeoInv'
  <1>1. /\ placeIndex.places \in Release /\ placeIndex.loadedMtime \in Release \cup {-1}
        /\ placeIndex.seen \in Release /\ placeIndex.loadedMtime <= placesFile /\ placeIndex.seen <= placesFile
        /\ placesFile \in Release /\ (placeIndex.loadedMtime = placesFile => placeIndex.places = placesFile)
    BY DEF GeoInv, GeoTypeOK, VersionsArePast, PlacesAreCurrent
  <1>2. UNCHANGED <<provider, detail, detailUp, placesFile, degradedUntil, answers, searched, minute>>
    BY DEF StatPlaces, ReadPlaces
  <1>3. CASE Reloaded(placeIndex.places, placeIndex.loadedMtime)
    BY <1>1, <1>2, <1>3, LoadEnds
  <1>4. CASE Reloaded(placesFile, placeIndex.seen)
    BY <1>1, <1>2, <1>4, LoadEnds
  <1>5. CASE placeIndex' = [placeIndex EXCEPT !.loading = "read", !.seen = placesFile] /\ UNCHANGED searches
    <2>1. /\ placeIndex' \in [places : Release, loadedMtime : Release \cup {-1}, checkedAt : Int,
                             loading : {"no", "stat", "read"}, seen : Release]
          /\ placeIndex'.places = placeIndex.places /\ placeIndex'.loadedMtime = placeIndex.loadedMtime
          /\ placeIndex'.seen = placesFile /\ placeIndex'.loading # "no"
      BY <1>1, <1>5 DEF GeoInv, GeoTypeOK
    <2>2. GeoTypeOK'
      BY <1>2, <1>5, <2>1 DEF GeoInv, GeoTypeOK, Release, Search
    <2>3. VersionsArePast'
      BY <1>1, <1>2, <1>5, <2>1 DEF GeoInv, VersionsArePast, Release
    <2>4. DetailIsAsked' /\ PlacesAreCurrent' /\ WaitersAreServed'
      BY <1>2, <1>5, <2>1 DEF GeoInv, DetailIsAsked, PlacesAreCurrent, WaitersAreServed, enabled
    <2> QED  BY <1>2, <2>2, <2>3, <2>4, SameAnswers DEF GeoInv
  <1> QED  BY <1>3, <1>4, <1>5 DEF StatPlaces, ReadPlaces, MtimeAfterFailure

(* An answer is kept when it has what the detailed provider found, of the  *)
(* release of its key or a later one.                                      *)
LEMMA AnswerKeepsInv ==
  ASSUME GeoInv, NEW s \in Searcher, AskDetailed(s) \/ WorldOnly(s)
  PROVE  GeoInv'
  <1> DEFINE of == searches[s]
             Answers == [{"search", "reverse"} \X Release -> [world : Release \cup {-1}, detailed : Release \cup {-1}]]
  <1>1. /\ of \in Search /\ of.version <= detail /\ of.version \in Release /\ of.world \in Release
        /\ of.kind \in {"search", "reverse"} /\ answers \in Answers
        /\ detail \in Release /\ minute \in 0..MaxMinute /\ degradedUntil \in 0..MaxMinute + DEGRADED
    BY DEF GeoInv, GeoTypeOK, VersionsArePast, Search
  <1>2. /\ UNCHANGED <<provider, detail, detailUp, placesFile, placeIndex, searched, minute>>
        /\ degradedUntil' \in 0..MaxMinute + DEGRADED
    BY <1>1 DEF AskDetailed, WorldOnly
  <1>3. \E status \in {200, 503} : Goes(s, Told(status))
    BY DEF AskDetailed, WorldOnly, Unavailable
  <1>4. \A status \in {200, 503} : Told(status) \in Search /\ Told(status).version = 0 /\ Told(status).pc = "idle"
    BY ToldIsSearch
  <1>5. answers' \in Answers /\ KeptAnswersAreDetailed'
    <2>1. CASE answers' = answers
      BY <1>1, <1>2, <2>1, SameAnswers DEF GeoInv
    <2>2. ASSUME NEW d \in Release, answers' = [answers EXCEPT ![<<of.kind, of.version>>] = [world |-> of.world, detailed |-> d]],
                 enabled => d = detail
          PROVE  answers' \in Answers /\ KeptAnswersAreDetailed'
      <3>1. answers' \in Answers
        BY <1>1, <2>2
      <3>2. SUFFICES ASSUME enabled, NEW k \in {"search", "reverse"} \X Release, answers'[k] # NoAnswer
                     PROVE  answers'[k].detailed >= 1 /\ answers'[k].detailed >= k[2]
        BY <1>1, <1>2, <3>1 DEF KeptAnswersAreDetailed, enabled
      <3>3. CASE k = <<of.kind, of.version>>
        BY <1>1, <2>2, <3>2, <3>3 DEF GeoInv, VersionsArePast
      <3>4. CASE k # <<of.kind, of.version>>
        BY <1>1, <2>2, <3>2, <3>4 DEF GeoInv, KeptAnswersAreDetailed
      <3> QED  BY <3>1, <3>3, <3>4
    <2>3. CASE AskDetailed(s) /\ enabled /\ detailUp
      BY <1>1, <2>1, <2>2, <2>3 DEF AskDetailed, KeepsWhole
    <2>4. CASE AskDetailed(s) /\ ~(enabled /\ detailUp)
      <3>1. answers' = answers \/ (degradedUntil' = minute + DEGRADED /\ KeepsWhole(of, [world |-> of.world, detailed |-> 0]))
        BY <2>4 DEF AskDetailed
      <3>2. minute + DEGRADED > minute
        BY <1>1
      <3> QED  BY <2>1, <3>1, <3>2 DEF KeepsWhole
    <2>5. CASE WorldOnly(s)
      <3>1. ~enabled
        BY <2>5 DEF WorldOnly, GeoInv, DetailIsAsked
      <3>2. 0 \in Release
        BY DEF Release
      <3> QED  BY <2>1, <2>2, <2>5, <3>1, <3>2 DEF WorldOnly, KeepsWhole
    <2> QED  BY <2>3, <2>4, <2>5
  <1>6. searched' \in 0..MaxSearch /\ 0 <= detail
    BY <1>1, <1>2 DEF GeoInv, GeoTypeOK, Release
  <1> QED  BY <1>2, <1>3, <1>4, <1>5, <1>6, Going

LEMMA WorldKeepsInv ==
  ASSUME GeoInv, WritePlaces \/ ReplaceDetail \/ DetailGoes \/ Minute \/ ExpireAnswer
  PROVE  GeoInv'
  <1> USE DEF GeoInv
  <1>1. UNCHANGED <<provider, placeIndex, degradedUntil, searches, searched>>
    BY DEF WritePlaces, ReplaceDetail, DetailGoes, Minute, ExpireAnswer
  <1>2. /\ placesFile \in Release /\ placesFile' \in Release /\ placesFile <= placesFile'
        /\ placesFile' = placesFile \/ placesFile' = placesFile + 1
        /\ detail \in Release /\ detail' \in Release /\ detail <= detail'
        /\ detailUp' \in BOOLEAN /\ minute' \in 0..MaxMinute
    <2>1. CASE WritePlaces
      BY <2>1 DEF WritePlaces, GeoTypeOK, Release
    <2>2. CASE ReplaceDetail
      BY <2>2 DEF ReplaceDetail, GeoTypeOK, Release
    <2>3. CASE DetailGoes
      BY <2>3 DEF DetailGoes, GeoTypeOK, Release
    <2>4. CASE Minute
      BY <2>4 DEF Minute, GeoTypeOK, Release
    <2>5. CASE ExpireAnswer
      BY <2>5 DEF ExpireAnswer, GeoTypeOK, Release
    <2> QED  BY <2>1, <2>2, <2>3, <2>4, <2>5
  <1>3. /\ answers' \in [{"search", "reverse"} \X Release -> [world : Release \cup {-1}, detailed : Release \cup {-1}]]
        /\ \A k \in {"search", "reverse"} \X Release : answers'[k] \in {answers[k], NoAnswer}
    <2>1. NoAnswer \in [world : Release \cup {-1}, detailed : Release \cup {-1}]
      BY DEF NoAnswer
    <2>2. answers' = answers \/ \E k \in DOMAIN answers : answers' = [answers EXCEPT ![k] = NoAnswer]
      BY DEF WritePlaces, ReplaceDetail, DetailGoes, Minute, ExpireAnswer
    <2> QED  BY <2>1, <2>2 DEF GeoTypeOK
  <1>4. GeoTypeOK'
    BY <1>1, <1>2, <1>3 DEF GeoTypeOK, Release, Search
  <1>5. VersionsArePast' /\ PlacesAreCurrent'
    BY <1>1, <1>2 DEF VersionsArePast, PlacesAreCurrent, GeoTypeOK, Release, Search
  <1>6. DetailIsAsked' /\ WaitersAreServed'
    BY <1>1 DEF DetailIsAsked, WaitersAreServed, Waiting, enabled
  <1>7. KeptAnswersAreDetailed'
    BY <1>1, <1>3 DEF KeptAnswersAreDetailed, enabled, GeoTypeOK
  <1> QED  BY <1>4, <1>5, <1>6, <1>7

LEMMA NextKeepsInv == GeoInv /\ [GeoNext]_geoVars => GeoInv'
  <1> SUFFICES ASSUME GeoInv, [GeoNext]_geoVars PROVE GeoInv'
    OBVIOUS
  <1>1. CASE GeoNext
    BY <1>1, StartKeepsInv, ReadKeepsInv, LoadKeepsInv, FileKeepsInv, AnswerKeepsInv, WorldKeepsInv DEF GeoNext
  <1>2. CASE UNCHANGED geoVars
    BY <1>2 DEF geoVars, GeoInv, GeoTypeOK, VersionsArePast, DetailIsAsked, KeptAnswersAreDetailed, PlacesAreCurrent,
                WaitersAreServed, Waiting, enabled
  <1> QED  BY <1>1, <1>2

-----------------------------------------------------------------------------
(* An answer is kept only with what the detailed provider found, native or *)
(* Nominatim, and of the release of its key or a later one, however its    *)
(* failures and the releases of its data fall between the steps of the     *)
(* searches (GeocodingService.cached, CompositeGeocodingProvider.degraded).*)
THEOREM KeptAreDetailed == GeoSpec => []KeptAnswersAreDetailed
  <1>1. GeoInv => KeptAnswersAreDetailed
    BY DEF GeoInv
  <1> QED  BY <1>1, InitInv, NextKeepsInv, PTL DEF GeoSpec

(* Who waits for the index of the world waits for a load that is under     *)
(* way, and the index passes for that of the file on disk only when it is  *)
(* (WorldPlaceIndex.load, reload).                                         *)
THEOREM PlacesReach == GeoSpec => []PlacesReachTheirSearchers
  <1>1. GeoInv => PlacesReachTheirSearchers
    BY DEF GeoInv, PlacesReachTheirSearchers
  <1> QED  BY <1>1, InitInv, NextKeepsInv, PTL DEF GeoSpec

-----------------------------------------------------------------------------
(* Roads: the inductive invariant.                                         *)

Fields == DOMAIN Quiet
Version == 0..MaxVersion
CallsAre(all) == DOMAIN all = Caller /\ \A c \in Caller : DOMAIN all[c] = Fields /\ all[c].graph \in Version

RoadTypes ==
  /\ graphFile \in Version
  /\ graphStore \in [value : Version, version : Version, loading : [label : Version, read : Version]]
  /\ CallsAre(calls)
  /\ hour \in 0..MaxHour /\ DOMAIN typicalCache = 0..MaxHour

(* The label of a load is no newer than the file was when it was read.     *)
LabelsAreOld ==
  LET load == graphStore.loading IN
  /\ graphStore.value <= graphFile
  /\ graphStore.value # 0 => graphStore.version <= graphStore.value
  /\ load # NoLoad => /\ load.label # 0 /\ load.label <= graphFile
                      /\ load.read # 0 => load.label <= load.read /\ load.read <= graphFile
  /\ \A c \in Caller : calls[c].pc = "get" => calls[c].seen \in 1..graphFile

(* Speeds of edges, each once, from fixes of these days on their roads. *)
SpeedsAre(S, day, minTrips) ==
  /\ \A s \in S : /\ s.graph \in DOMAIN Roads /\ s.edge \in DOMAIN Roads[s.graph]
                  /\ Backed([road |-> Roads[s.graph][s.edge]], {x \in Report : x.day = day}, minTrips)
  /\ \A s, t \in S : s.edge = t.edge => s = t

SpeedsAreKnown ==
  /\ \A c \in Caller :
       /\ calls[c].pc \in {"live", "typical", "publish"} => calls[c].graph # 0
       /\ calls[c].pc \in {"typical", "publish"} => SpeedsAre(calls[c].live, "today", MIN_TRIPS)
       /\ calls[c].pc = "publish" => SpeedsAre(calls[c].typical, "earlier", MIN_TYPICAL_TRIPS)
  /\ \A h \in 0..MaxHour :
       typicalCache[h] # NoValue => SpeedsAre(typicalCache[h][1], "earlier", MIN_TYPICAL_TRIPS)

RoadInv == RoadTypes /\ LabelsAreOld /\ NobodyIsForgotten /\ SpeedsAreKnown /\ TrafficIsBacked

LEMMA RoadBounds ==
  /\ MaxVersion \in Nat \ {0} /\ MaxHour \in Nat /\ 0 \in Version /\ 1 \in Version
  /\ Version \subseteq Nat /\ NoLoad = [label |-> 0, read |-> 0]
  /\ NoLoad \in [label : Version, read : Version]
  /\ \A v \in Version : v # 0 => v \in DOMAIN Roads
  /\ IsFiniteSet(Report)
  <1>1. MaxVersion \in Nat \ {0} /\ 1..MaxVersion \subseteq DOMAIN Roads /\ IsFiniteSet(Report) /\ MaxHour \in Nat
    BY RouteServiceAssumption
  <1> QED  BY <1>1 DEF Version, NoLoad

(* What a call is after the steps that change it. *)
LEMMA CallFields ==
  /\ Fields = {"pc", "op", "key", "seen", "graph", "live", "typical", "answer"}
  /\ DOMAIN Quiet = Fields /\ Quiet.pc = "idle" /\ Quiet.graph = 0
  /\ \A status : /\ DOMAIN Replied(status) = Fields
                 /\ Replied(status).pc = "idle" /\ Replied(status).graph = 0
  /\ \A op, pc : LET r == [Quiet EXCEPT !.op = op, !.pc = pc]
                 IN  DOMAIN r = Fields /\ r.pc = pc /\ r.graph = 0
  BY DEF Fields, Quiet, Replied

(* A step of caller c that leaves everything else alone: it needs no graph *)
(* yet, or keeps the one it has with what it knows of it. *)
LEMMA CallGoesOn ==
  ASSUME RoadInv, NEW c \in Caller, NEW call, Continue(c, call), DOMAIN call = Fields, call.graph \in Version,
         call.pc = "loading" => graphStore'.loading # NoLoad,
         call.pc = "get" => call.seen \in 1..graphFile,
         call.pc \in {"live", "typical", "publish"} => call.graph # 0,
         call.pc \in {"typical", "publish"} => SpeedsAre(call.live, "today", MIN_TRIPS),
         call.pc = "publish" => SpeedsAre(call.typical, "earlier", MIN_TYPICAL_TRIPS),
         graphStore'.loading # NoLoad \/ graphStore'.loading = graphStore.loading,
         UNCHANGED <<graphFile, hour>>
  PROVE  /\ CallsAre(calls') /\ NobodyIsForgotten'
         /\ \A d \in Caller : calls'[d].pc = "get" => calls'[d].seen \in 1..graphFile
         /\ UNCHANGED typicalCache => SpeedsAreKnown'
  <1>1. DOMAIN calls = Caller
    BY DEF RoadInv, RoadTypes, CallsAre
  <1>2. DOMAIN calls' = Caller /\ calls'[c] = call /\ \A d \in Caller : d # c => calls'[d] = calls[d]
    BY <1>1 DEF Continue
  <1>3. CallsAre(calls')
    BY <1>2 DEF RoadInv, RoadTypes, CallsAre
  <1>4. NobodyIsForgotten'
    BY <1>2 DEF RoadInv, NobodyIsForgotten
  <1>5. \A d \in Caller : calls'[d].pc = "get" => calls'[d].seen \in 1..graphFile
    BY <1>2 DEF RoadInv, LabelsAreOld
  <1>6. UNCHANGED typicalCache => SpeedsAreKnown'
    BY <1>2 DEF RoadInv, SpeedsAreKnown
  <1> QED  BY <1>3, <1>4, <1>5, <1>6

(* What is asked of the fixes on a road: Of(e) are no more than those.     *)
LEMMA SpeedsOfEdges ==
  ASSUME NEW graph \in Version \ {0}, NEW day, NEW fixes \in SUBSET {x \in Report : x.day = day}, NEW minTrips \in Nat
  PROVE  SpeedsAre(edgeSpeeds(graph, fixes, minTrips), day, minTrips)
  <1> DEFINE Of(e) == {f \in fixes : e \in Matched(graph, f)}
             SpeedOf(e) == [edge |-> e,
                         median |-> SetToSortSeq(Of(e), Slower)[Cardinality(Of(e)) \div 2 + 1].speed,
                         graph |-> graph]
             Edges == {d \in DOMAIN Roads[graph] : /\ Cardinality(Of(d)) >= MIN_SAMPLES
                                                   /\ Cardinality({f.trip : f \in Of(d)}) >= minTrips}
  <1>1. edgeSpeeds(graph, fixes, minTrips) = {SpeedOf(e) : e \in Edges}
    BY DEF edgeSpeeds
  <1>2. \A e : SpeedOf(e).edge = e /\ SpeedOf(e).graph = graph
    OBVIOUS
  <1>3. ASSUME NEW e \in Edges
        PROVE  Backed([road |-> Roads[graph][e]], {x \in Report : x.day = day}, minTrips)
    <2> DEFINE road == Roads[graph][e]
               onRoad == {x \in {x \in Report : x.day = day} : x.road = road}
    <2>1. Of(e) \subseteq onRoad
      BY DEF Matched
    <2>2. IsFiniteSet(onRoad)
      BY RoadBounds, FS_Subset
    <2>3. IsFiniteSet(Of(e)) /\ Cardinality(Of(e)) \in Nat /\ Cardinality(onRoad) \in Nat
          /\ Cardinality(Of(e)) <= Cardinality(onRoad)
      BY <2>1, <2>2, FS_Subset, FS_CardinalityType
    <2>4. IsFiniteSet({x.trip : x \in onRoad})
      <3> DEFINE trip == [x \in onRoad |-> x.trip]
      <3>1. trip \in Surjection(onRoad, {x.trip : x \in onRoad})
        BY DEF Surjection
      <3> HIDE DEF trip, onRoad
      <3> QED  BY <2>2, <3>1, FS_Surjection
    <2>5. {f.trip : f \in Of(e)} \subseteq {x.trip : x \in onRoad}
      BY <2>1
    <2>6. Cardinality({f.trip : f \in Of(e)}) <= Cardinality({x.trip : x \in onRoad})
          /\ Cardinality({f.trip : f \in Of(e)}) \in Nat /\ Cardinality({x.trip : x \in onRoad}) \in Nat
      BY <2>4, <2>5, FS_Subset, FS_CardinalityType
    <2>7. Cardinality(Of(e)) >= MIN_SAMPLES /\ Cardinality({f.trip : f \in Of(e)}) >= minTrips
      OBVIOUS
    <2>8. MIN_SAMPLES \in Nat
      BY RouteServiceAssumption
    <2>9. Cardinality(onRoad) >= MIN_SAMPLES
      <3> HIDE DEF Of, onRoad
      <3> QED  BY <2>3, <2>7, <2>8
    <2>10. Cardinality({x.trip : x \in onRoad}) >= minTrips
      <3> DEFINE m == Cardinality({f.trip : f \in Of(e)})
                 n == Cardinality({x.trip : x \in onRoad})
      <3>1. m \in Nat /\ n \in Nat /\ m <= n /\ m >= minTrips
        BY <2>6, <2>7
      <3> HIDE DEF m, n
      <3>2. n >= minTrips
        BY <3>1
      <3> QED  BY <3>2 DEF n
    <2>11. [road |-> Roads[graph][e]].road = road
      OBVIOUS
    <2> QED  BY <2>9, <2>10, <2>11 DEF Backed
  <1>4. Edges \subseteq DOMAIN Roads[graph] /\ graph \in DOMAIN Roads
    BY RoadBounds
  <1> HIDE DEF SpeedOf, Edges
  <1>5. \A s \in {SpeedOf(e) : e \in Edges} :
          /\ s.graph \in DOMAIN Roads /\ s.edge \in DOMAIN Roads[s.graph]
          /\ Backed([road |-> Roads[s.graph][s.edge]], {x \in Report : x.day = day}, minTrips)
    BY <1>2, <1>3, <1>4
  <1>6. \A s, t \in {SpeedOf(e) : e \in Edges} : s.edge = t.edge => s = t
    BY <1>2
  <1> QED  BY <1>1, <1>5, <1>6 DEF SpeedsAre

(* What backs a colour is a matter of its road. *)
LEMMA SameRoad ==
  ASSUME NEW f, NEW g, f.road = g.road, NEW fixes, NEW trips, Backed(g, fixes, trips)
  PROVE  Backed(f, fixes, trips)
  <1>1. {x \in fixes : x.road = f.road} = {x \in fixes : x.road = g.road}
    OBVIOUS
  <1> QED  BY <1>1 DEF Backed

(* The features of a flow: what they are backed by, and each road once. *)
LEMMA FeaturesAreBacked ==
  ASSUME NEW graph \in Version \ {0}, NEW live, NEW typical,
         SpeedsAre(live, "today", MIN_TRIPS), SpeedsAre(typical, "earlier", MIN_TYPICAL_TRIPS)
  PROVE  /\ \A f \in Features(graph, live, typical) : f.of = f.graph => BackedAsTold(f)
         /\ \A f, g \in Features(graph, live, typical) : f.road = g.road /\ f.road # "nowhere" => f = g
  <1> DEFINE rest == {t \in typical : t.edge \notin {s.edge : s \in live}}
             road(e) == IF e \in DOMAIN Roads[graph] THEN Roads[graph][e] ELSE "nowhere"
  <1>0. graph \in DOMAIN Roads
    BY RoadBounds
  <1>1. Features(graph, live, typical)
          = {Feature(graph, s, "live") : s \in live} \cup {Feature(graph, s, "typical") : s \in rest}
    BY DEF Features
  <1>2. \A s, source : /\ Feature(graph, s, source).road = road(s.edge)
                       /\ Feature(graph, s, source).source = source
                       /\ Feature(graph, s, source).graph = graph
                       /\ Feature(graph, s, source).of = s.graph
    BY DEF Feature
  <1>3. ASSUME NEW s \in live, s.graph = graph PROVE BackedAsTold(Feature(graph, s, "live"))
    <2>1. /\ s.edge \in DOMAIN Roads[graph]
          /\ Backed([road |-> Roads[graph][s.edge]], {x \in Report : x.day = "today"}, MIN_TRIPS)
      BY <1>3 DEF SpeedsAre
    <2>2. Feature(graph, s, "live").road = [road |-> Roads[graph][s.edge]].road
      BY <1>2, <2>1
    <2>3. Backed(Feature(graph, s, "live"), {x \in Report : x.day = "today"}, MIN_TRIPS)
      BY <2>1, <2>2, SameRoad
    <2> QED  BY <1>2, <2>3 DEF BackedAsTold
  <1>4. ASSUME NEW s \in rest, s.graph = graph PROVE BackedAsTold(Feature(graph, s, "typical"))
    <2>1. /\ s.edge \in DOMAIN Roads[graph]
          /\ Backed([road |-> Roads[graph][s.edge]], {x \in Report : x.day = "earlier"}, MIN_TYPICAL_TRIPS)
      BY <1>4 DEF SpeedsAre
    <2>2. Feature(graph, s, "typical").road = [road |-> Roads[graph][s.edge]].road
      BY <1>2, <2>1
    <2>3. Backed(Feature(graph, s, "typical"), {x \in Report : x.day = "earlier"}, MIN_TYPICAL_TRIPS)
      BY <2>1, <2>2, SameRoad
    <2> QED  BY <1>2, <2>3 DEF BackedAsTold
  <1>5. ASSUME NEW d, NEW e, road(d) = road(e), road(d) # "nowhere" PROVE d = e
    <2>1. d \in DOMAIN Roads[graph] /\ e \in DOMAIN Roads[graph]
      BY <1>5
    <2> QED  BY <1>0, <1>5, <2>1, RouteServiceAssumption
  <1>6. \A s, t \in live : s.edge = t.edge => s = t
    BY DEF SpeedsAre
  <1>7. \A s, t \in rest : s.edge = t.edge => s = t
    BY DEF SpeedsAre
  <1>8. \A s \in live, t \in rest : s.edge # t.edge
    OBVIOUS
  <1> HIDE DEF rest, road
  <1>9. \A f \in Features(graph, live, typical) : f.of = f.graph => BackedAsTold(f)
    BY <1>1, <1>2, <1>3, <1>4
  <1>10. ASSUME NEW f \in Features(graph, live, typical), NEW g \in Features(graph, live, typical),
                f.road = g.road, f.road # "nowhere"
         PROVE  f = g
    <2>1. \/ \E s \in live : f = Feature(graph, s, "live")
          \/ \E s \in rest : f = Feature(graph, s, "typical")
      BY <1>1
    <2>2. \/ \E s \in live : g = Feature(graph, s, "live")
          \/ \E s \in rest : g = Feature(graph, s, "typical")
      BY <1>1
    <2>3. \A s, t, a, b : Feature(graph, s, a).road = Feature(graph, t, b).road
                          /\ Feature(graph, s, a).road # "nowhere" => s.edge = t.edge
      BY <1>2, <1>5
    <2> QED  BY <1>6, <1>7, <1>8, <1>10, <2>1, <2>2, <2>3
  <1> QED  BY <1>9, <1>10

LEMMA InitRoads == ServiceInit => RoadInv
  <1> SUFFICES ASSUME ServiceInit PROVE RoadInv
    OBVIOUS
  <1> USE DEF ServiceInit
  <1>1. RoadTypes
    BY RoadBounds, CallFields DEF RoadTypes, CallsAre
  <1>2. LabelsAreOld /\ NobodyIsForgotten
    BY RoadBounds, CallFields DEF LabelsAreOld, NobodyIsForgotten
  <1>3. SpeedsAreKnown /\ TrafficIsBacked
    BY CallFields DEF SpeedsAreKnown, TrafficIsBacked
  <1> QED  BY <1>1, <1>2, <1>3 DEF RoadInv

(* The steps of a caller that leave the store, the file and the traffic alone. *)
LEMMA CallKeepsRoads ==
  ASSUME RoadInv, NEW c \in Caller, NEW call, Continue(c, call), DOMAIN call = Fields, call.graph \in Version,
         call.pc # "loading",
         call.pc = "get" => call.seen \in 1..graphFile,
         call.pc \in {"live", "typical", "publish"} => call.graph # 0,
         call.pc \in {"typical", "publish"} => SpeedsAre(call.live, "today", MIN_TRIPS),
         call.pc = "publish" => SpeedsAre(call.typical, "earlier", MIN_TYPICAL_TRIPS),
         UNCHANGED <<graphFile, graphStore, hour, typicalCache, flowCache>>
  PROVE  RoadInv'
  <1>1. /\ CallsAre(calls') /\ NobodyIsForgotten' /\ SpeedsAreKnown'
        /\ \A d \in Caller : calls'[d].pc = "get" => calls'[d].seen \in 1..graphFile
    BY CallGoesOn
  <1>2. RoadTypes'
    BY <1>1 DEF RoadInv, RoadTypes, CallsAre
  <1>3. LabelsAreOld'
    BY <1>1 DEF RoadInv, LabelsAreOld
  <1>4. TrafficIsBacked'
    BY DEF RoadInv, TrafficIsBacked
  <1> QED  BY <1>1, <1>2, <1>3, <1>4 DEF RoadInv

LEMMA CallerKeepsRoads ==
  ASSUME RoadInv, NEW c \in Caller,
         \/ \E op \in {"route", "flow"} : AskQuestion(c, op)
         \/ Fingerprint(c) \/ Lookup(c) \/ Stat(c) \/ Get(c) \/ CallEngine(c)
         \/ StoreRoute(c) \/ ReadLive(c) \/ Typical(c) \/ PublishFlow(c)
  PROVE  RoadInv'
  <1> USE CallFields
  <1>0. /\ DOMAIN calls[c] = Fields /\ calls[c].graph \in Version /\ 0 \in Version
        /\ graphFile \in Version /\ Version \subseteq Nat
        /\ calls[c].pc \in {"live", "typical", "publish"} => calls[c].graph # 0
        /\ calls[c].pc \in {"typical", "publish"} => SpeedsAre(calls[c].live, "today", MIN_TRIPS)
        /\ calls[c].pc = "publish" => SpeedsAre(calls[c].typical, "earlier", MIN_TYPICAL_TRIPS)
    BY RoadBounds DEF RoadInv, RoadTypes, CallsAre, SpeedsAreKnown
  <1>1. ASSUME NEW op \in {"route", "flow"}, AskQuestion(c, op) PROVE RoadInv'
    <2> DEFINE call == [Quiet EXCEPT !.op = op, !.pc = IF op = "route" THEN "fingerprint" ELSE "lookup"]
    <2>1. DOMAIN call = Fields /\ call.pc \in {"fingerprint", "lookup"} /\ call.graph = 0
      BY DEF Quiet
    <2>2. Continue(c, call) /\ UNCHANGED <<graphFile, graphStore, hour, typicalCache, flowCache>>
      BY <1>1 DEF AskQuestion
    <2> HIDE DEF call
    <2> QED  BY <1>0, <2>1, <2>2, CallKeepsRoads
  <1>2. CASE Fingerprint(c)
    <2> DEFINE call == [calls[c] EXCEPT !.pc = "lookup", !.key = IF engine = "native" THEN graphFile ELSE 0]
    <2>1. DOMAIN call = Fields /\ call.pc = "lookup" /\ call.graph = calls[c].graph
      BY <1>0
    <2>2. Continue(c, call) /\ UNCHANGED <<graphFile, graphStore, hour, typicalCache, flowCache>>
      BY <1>2 DEF Fingerprint
    <2> HIDE DEF call
    <2> QED  BY <1>0, <2>1, <2>2, CallKeepsRoads
  <1>r. ASSUME NEW status, Continue(c, Replied(status)),
               UNCHANGED <<graphFile, graphStore, hour, typicalCache, flowCache>>
        PROVE  RoadInv'
    <2> DEFINE call == Replied(status)
    <2>1. DOMAIN call = Fields /\ call.pc = "idle" /\ call.graph = 0
      OBVIOUS
    <2> HIDE DEF call
    <2> QED  BY <1>0, <1>r, <2>1, CallKeepsRoads DEF call
  <1>3. CASE Lookup(c)
    <2>1. ASSUME NEW pc \in {"engine", "stat"}, Moves(c, pc) PROVE RoadInv'
      <3> DEFINE call == [calls[c] EXCEPT !.pc = pc]
      <3>1. DOMAIN call = Fields /\ call.pc = pc /\ call.graph = calls[c].graph
        BY <1>0
      <3>2. Continue(c, call) /\ UNCHANGED <<graphFile, graphStore, hour, typicalCache, flowCache>>
        BY <1>3, <2>1 DEF Moves, Lookup
      <3> HIDE DEF call
      <3> QED  BY <1>0, <2>1, <3>1, <3>2, CallKeepsRoads
    <2>2. Continue(c, Replied(200)) \/ \E pc \in {"engine", "stat"} : Moves(c, pc)
      BY <1>3 DEF Lookup
    <2>3. UNCHANGED <<graphFile, graphStore, hour, typicalCache, flowCache>>
      BY <1>3 DEF Lookup
    <2> QED  BY <1>r, <2>1, <2>2, <2>3
  <1>4. CASE Stat(c)
    <2>1. CASE graphFile = 0
      BY <2>1, <1>4, <1>r DEF Stat, NoGraph
    <2>2. CASE graphFile # 0
      <3> DEFINE call == [calls[c] EXCEPT !.pc = "get", !.seen = graphFile]
      <3>1. DOMAIN call = Fields /\ call.pc = "get" /\ call.graph = calls[c].graph /\ call.seen = graphFile
        BY <1>0
      <3>2. Continue(c, call) /\ UNCHANGED <<graphFile, graphStore, hour, typicalCache, flowCache>>
        BY <1>4, <2>2 DEF Stat
      <3>3. graphFile \in 1..graphFile
        BY <1>0, <2>2
      <3> HIDE DEF call
      <3> QED  BY <1>0, <3>1, <3>2, <3>3, CallKeepsRoads
    <2> QED  BY <2>1, <2>2
  <1>5. CASE Get(c)
    <2>1. CASE graphStore.value # 0 /\ calls[c].seen = graphStore.version
      <3> DEFINE call == [calls[c] EXCEPT !.pc = Asked(calls[c]), !.graph = graphStore.value]
      <3>1. DOMAIN call = Fields /\ call.pc \in {"store", "live"} /\ call.graph = graphStore.value
        BY <1>0 DEF Asked
      <3>2. Continue(c, call) /\ UNCHANGED <<graphFile, graphStore, hour, typicalCache, flowCache>>
        BY <1>5, <2>1 DEF Get
      <3>3. graphStore.value \in Version
        BY DEF RoadInv, RoadTypes
      <3> HIDE DEF call
      <3> QED  BY <2>1, <3>1, <3>2, <3>3, CallKeepsRoads
    <2>2. CASE ~(graphStore.value # 0 /\ calls[c].seen = graphStore.version)
      <3> DEFINE call == [calls[c] EXCEPT !.pc = "loading"]
      <3>1. DOMAIN call = Fields /\ call.pc = "loading" /\ call.graph = calls[c].graph
        BY <1>0
      <3>2. /\ Continue(c, call) /\ UNCHANGED <<graphFile, hour, typicalCache, flowCache>>
            /\ graphStore' = IF graphStore.loading # NoLoad THEN graphStore
                             ELSE [graphStore EXCEPT !.loading = [label |-> calls[c].seen, read |-> 0]]
            /\ calls[c].pc = "get"
        BY <1>5, <2>2 DEF Get, Moves
      <3>3. calls[c].seen \in 1..graphFile /\ calls[c].seen \in Version \ {0}
        <4>1. calls[c].seen \in 1..graphFile
          BY <3>2 DEF RoadInv, LabelsAreOld
        <4> QED  BY <4>1, <1>0, RoadBounds DEF Version
      <3>4. /\ graphStore' \in [value : Version, version : Version, loading : [label : Version, read : Version]]
            /\ graphStore'.value = graphStore.value /\ graphStore'.version = graphStore.version
            /\ \/ graphStore' = graphStore /\ graphStore.loading # NoLoad
               \/ graphStore'.loading = [label |-> calls[c].seen, read |-> 0]
            /\ graphStore'.loading # NoLoad
        BY <3>2, <3>3, RoadBounds DEF RoadInv, RoadTypes
      <3> HIDE DEF call
      <3>5. /\ CallsAre(calls') /\ NobodyIsForgotten' /\ SpeedsAreKnown'
            /\ \A d \in Caller : calls'[d].pc = "get" => calls'[d].seen \in 1..graphFile
        BY <1>0, <3>1, <3>2, <3>4, CallGoesOn
      <3>6. RoadTypes'
        BY <3>2, <3>4, <3>5 DEF RoadInv, RoadTypes, CallsAre
      <3>7. LabelsAreOld'
        BY <3>2, <3>3, <3>4, <3>5, <1>0 DEF RoadInv, LabelsAreOld
      <3>8. TrafficIsBacked'
        BY <3>2 DEF RoadInv, TrafficIsBacked
      <3> QED  BY <3>5, <3>6, <3>7, <3>8 DEF RoadInv
    <2> QED  BY <2>1, <2>2
  <1>6. CASE CallEngine(c)
    <2>1. PICK outcome \in Outcome :
            Continue(c, IF outcome = "ok" THEN [calls[c] EXCEPT !.pc = "store", !.graph = graphFile]
                        ELSE Replied(callProvider(mapError(outcome)).status))
      BY <1>6 DEF CallEngine
    <2>2. UNCHANGED <<graphFile, graphStore, hour, typicalCache, flowCache>>
      BY <1>6 DEF CallEngine
    <2>3. CASE outcome = "ok"
      <3> DEFINE call == [calls[c] EXCEPT !.pc = "store", !.graph = graphFile]
      <3>1. DOMAIN call = Fields /\ call.pc = "store" /\ call.graph = graphFile
        BY <1>0
      <3>2. Continue(c, call)
        BY <2>1, <2>3
      <3> HIDE DEF call
      <3> QED  BY <1>0, <2>2, <3>1, <3>2, CallKeepsRoads
    <2>4. CASE outcome # "ok"
      <3>1. Continue(c, Replied(callProvider(mapError(outcome)).status))
        BY <2>1, <2>4
      <3> QED  BY <3>1, <2>2, <1>r
    <2> QED  BY <2>3, <2>4
  <1>7. CASE StoreRoute(c)
    BY <1>7, <1>r DEF StoreRoute
  <1>8. CASE ReadLive(c)
    <2> DEFINE speeds == edgeSpeeds(calls[c].graph, liveFixes, MIN_TRIPS)
               call == [calls[c] EXCEPT !.pc = "typical", !.live = speeds]
    <2>1. DOMAIN call = Fields /\ call.pc = "typical" /\ call.graph = calls[c].graph /\ call.live = speeds
      BY <1>0
    <2>2. /\ Continue(c, call) /\ UNCHANGED <<graphFile, graphStore, hour, typicalCache, flowCache>>
          /\ calls[c].graph # 0
      BY <1>8, <1>0 DEF ReadLive
    <2>3. SpeedsAre(speeds, "today", MIN_TRIPS)
      BY <1>0, <2>2, SpeedsOfEdges, RouteServiceAssumption DEF liveFixes
    <2> HIDE DEF call, speeds
    <2> QED  BY <1>0, <2>1, <2>2, <2>3, CallKeepsRoads
  <1>9. CASE Typical(c)
    <2> DEFINE entry == Cached(typicalCache[hour])
               speeds == IF entry # NoValue THEN entry[1]
                         ELSE edgeSpeeds(calls[c].graph, typicalFixes, MIN_TYPICAL_TRIPS)
               call == [calls[c] EXCEPT !.pc = "publish", !.typical = speeds]
    <2>1. /\ DOMAIN call = Fields /\ call.pc = "publish" /\ call.graph = calls[c].graph
          /\ call.live = calls[c].live /\ call.typical = speeds
      BY <1>0
    <2>2. /\ Continue(c, call) /\ UNCHANGED <<graphFile, graphStore, hour, flowCache>>
          /\ typicalCache' = IF entry # NoValue THEN typicalCache
                             ELSE [typicalCache EXCEPT ![hour] = Kept(@, <<speeds>>)]
          /\ calls[c].pc = "typical"
      BY <1>9 DEF Typical
    <2>3. hour \in 0..MaxHour /\ DOMAIN typicalCache = 0..MaxHour
      BY DEF RoadInv, RoadTypes
    <2>4. SpeedsAre(speeds, "earlier", MIN_TYPICAL_TRIPS)
      <3>1. CASE entry # NoValue
        BY <3>1, <2>3 DEF Cached, RoadInv, SpeedsAreKnown
      <3>2. CASE entry = NoValue
        BY <3>2, <1>0, <2>2, SpeedsOfEdges, RouteServiceAssumption DEF typicalFixes
      <3> QED  BY <3>1, <3>2
    <2>5. /\ DOMAIN typicalCache' = 0..MaxHour
          /\ \A h \in 0..MaxHour : typicalCache'[h] = typicalCache[h] \/ typicalCache'[h] = <<speeds>>
      <3> HIDE DEF speeds
      <3> QED  BY <2>2, <2>3 DEF Kept
    <2>6. <<speeds>>[1] = speeds
      OBVIOUS
    <2> HIDE DEF call, speeds, entry
    <2>7. /\ CallsAre(calls') /\ NobodyIsForgotten'
          /\ \A d \in Caller : calls'[d].pc = "get" => calls'[d].seen \in 1..graphFile
      BY <1>0, <2>1, <2>2, <2>4, CallGoesOn
    <2>8. DOMAIN calls = Caller /\ calls' = [calls EXCEPT ![c] = call]
      BY <2>2 DEF Continue, RoadInv, RoadTypes, CallsAre
    <2>9. SpeedsAreKnown'
      <3>1. ASSUME NEW d \in Caller
            PROVE  /\ calls'[d].pc \in {"live", "typical", "publish"} => calls'[d].graph # 0
                   /\ calls'[d].pc \in {"typical", "publish"} => SpeedsAre(calls'[d].live, "today", MIN_TRIPS)
                   /\ calls'[d].pc = "publish" => SpeedsAre(calls'[d].typical, "earlier", MIN_TYPICAL_TRIPS)
        <4>1. CASE d = c
          BY <4>1, <1>0, <2>1, <2>2, <2>4, <2>8
        <4>2. CASE d # c
          BY <4>2, <2>8 DEF RoadInv, SpeedsAreKnown
        <4> QED  BY <4>1, <4>2
      <3>2. ASSUME NEW h \in 0..MaxHour, typicalCache'[h] # NoValue
            PROVE  SpeedsAre(typicalCache'[h][1], "earlier", MIN_TYPICAL_TRIPS)
        BY <3>2, <2>4, <2>5, <2>6 DEF RoadInv, SpeedsAreKnown
      <3> QED  BY <3>1, <3>2 DEF SpeedsAreKnown
    <2>10. RoadTypes'
      BY <2>2, <2>5, <2>7 DEF RoadInv, RoadTypes, CallsAre
    <2>11. LabelsAreOld' /\ TrafficIsBacked'
      BY <2>2, <2>7 DEF RoadInv, LabelsAreOld, TrafficIsBacked
    <2> QED  BY <2>7, <2>9, <2>10, <2>11 DEF RoadInv
  <1>10. CASE PublishFlow(c)
    <2> DEFINE features == Features(calls[c].graph, calls[c].live, calls[c].typical)
               call == Replied(200)
    <2>1. /\ Continue(c, call) /\ UNCHANGED <<graphFile, graphStore, hour, typicalCache>>
          /\ flowCache' = Kept(flowCache, <<features>>) /\ calls[c].pc = "publish"
      BY <1>10 DEF PublishFlow
    <2>2. DOMAIN call = Fields /\ call.pc = "idle" /\ call.graph = 0
      OBVIOUS
    <2>3. /\ \A f \in features : f.of = f.graph => BackedAsTold(f)
          /\ \A f, g \in features : f.road = g.road /\ f.road # "nowhere" => f = g
      BY <1>0, <2>1, FeaturesAreBacked
    <2>4. flowCache' = flowCache \/ flowCache' = <<features>>
      BY <2>1 DEF Kept
    <2> HIDE DEF call, features
    <2>5. <<features>>[1] = features
      OBVIOUS
    <2>6. TrafficIsBacked'
      BY <2>3, <2>4, <2>5 DEF RoadInv, TrafficIsBacked
    <2>7. /\ CallsAre(calls') /\ NobodyIsForgotten' /\ SpeedsAreKnown'
          /\ \A d \in Caller : calls'[d].pc = "get" => calls'[d].seen \in 1..graphFile
      BY <1>0, <2>1, <2>2, CallGoesOn
    <2>8. RoadTypes' /\ LabelsAreOld'
      BY <2>1, <2>7 DEF RoadInv, RoadTypes, CallsAre, LabelsAreOld
    <2> QED  BY <2>6, <2>7, <2>8 DEF RoadInv
  <1> QED  BY <1>1, <1>2, <1>3, <1>4, <1>5, <1>6, <1>7, <1>8, <1>9, <1>10

(* The load, the pipeline and time. *)
LEMMA WorldKeepsRoads ==
  ASSUME RoadInv,
         ReadFile \/ EndLoad \/ Publish \/ NextHour \/ ExpireRoute \/ ExpireTraffic \/ Redis
  PROVE  RoadInv'
  <1>0. /\ graphFile \in Version /\ Version \subseteq Nat /\ MaxVersion \in Nat /\ Version = 0..MaxVersion
        /\ graphStore \in [value : Version, version : Version, loading : [label : Version, read : Version]]
        /\ CallsAre(calls) /\ hour \in 0..MaxHour /\ DOMAIN typicalCache = 0..MaxHour /\ MaxHour \in Nat
    BY RoadBounds DEF RoadInv, RoadTypes, Version
  <1>s. ASSUME UNCHANGED <<graphStore, calls>>, graphFile' \in Version, graphFile <= graphFile'
        PROVE  LabelsAreOld' /\ NobodyIsForgotten' /\ CallsAre(calls')
               /\ graphStore' \in [value : Version, version : Version, loading : [label : Version, read : Version]]
    <2>1. \A c \in Caller : calls[c].pc = "get" => calls[c].seen \in 1..graphFile'
      BY <1>0, <1>s, SMTT(30) DEF RoadInv, LabelsAreOld
    <2>2. LabelsAreOld'
      BY <1>0, <1>s, <2>1 DEF RoadInv, LabelsAreOld
    <2> QED  BY <1>0, <1>s, <2>2 DEF RoadInv, NobodyIsForgotten, CallsAre
  <1>1. CASE ReadFile
    <2> DEFINE load == graphStore.loading
    <2>1. /\ load # NoLoad /\ load.read = 0 /\ graphStore' = [graphStore EXCEPT !.loading.read = graphFile]
          /\ UNCHANGED <<graphFile, calls, typicalCache, flowCache, hour>>
      BY <1>1 DEF ReadFile
    <2>2. load.label # 0 /\ load.label <= graphFile
      BY <2>1 DEF RoadInv, LabelsAreOld
    <2>3. /\ graphStore' \in [value : Version, version : Version, loading : [label : Version, read : Version]]
          /\ graphStore'.value = graphStore.value /\ graphStore'.version = graphStore.version
          /\ graphStore'.loading.label = load.label /\ graphStore'.loading.read = graphFile
          /\ graphStore'.loading # NoLoad
      BY <1>0, <2>1, <2>2 DEF NoLoad
    <2>4. LabelsAreOld'
      BY <1>0, <2>1, <2>2, <2>3, SMTT(30) DEF RoadInv, LabelsAreOld
    <2>5. NobodyIsForgotten' /\ RoadTypes'
      BY <1>0, <2>1, <2>3 DEF NobodyIsForgotten, RoadTypes, CallsAre
    <2>6. SpeedsAreKnown' /\ TrafficIsBacked'
      BY <2>1 DEF RoadInv, SpeedsAreKnown, TrafficIsBacked
    <2> QED  BY <2>4, <2>5, <2>6 DEF RoadInv
  <1>2. CASE EndLoad
    <2> DEFINE load == graphStore.loading
               fails == load.read \in Unreadable
               value == IF fails THEN graphStore.value ELSE load.read
               waiting == {c \in Caller : calls[c].pc = "loading"}
    <2>1. /\ load # NoLoad /\ load.read # 0
          /\ graphStore' = IF fails THEN [graphStore EXCEPT !.loading = NoLoad]
                           ELSE [value |-> value, version |-> load.label, loading |-> NoLoad]
          /\ calls' = [c \in Caller |->
               IF c \notin waiting THEN calls[c]
               ELSE IF value = 0 THEN NoGraph(calls[c].op)
               ELSE [calls[c] EXCEPT !.pc = Asked(calls[c]), !.graph = value]]
          /\ UNCHANGED <<graphFile, typicalCache, flowCache, hour>>
      BY <1>2 DEF EndLoad, Resumed, Labelled, Loaded
    <2>2. load.label <= load.read /\ load.read <= graphFile /\ load.label \in Version /\ load.read \in Version
      BY <1>0, <2>1 DEF RoadInv, LabelsAreOld
    <2>3. /\ graphStore' \in [value : Version, version : Version, loading : [label : Version, read : Version]]
          /\ graphStore'.loading = NoLoad
          /\ fails => graphStore'.value = graphStore.value /\ graphStore'.version = graphStore.version
          /\ ~fails => graphStore'.value = load.read /\ graphStore'.version = load.label
      BY <1>0, <2>1, <2>2, RoadBounds
    <2>4. value \in Version
      BY <1>0, <2>2
    <2>5. ASSUME NEW c \in Caller
          PROVE  /\ DOMAIN calls'[c] = Fields /\ calls'[c].graph \in Version
                 /\ \/ calls'[c] = calls[c] /\ calls[c].pc # "loading"
                    \/ calls'[c].pc \in {"idle", "store"}
                    \/ calls'[c].pc = "live" /\ calls'[c].graph # 0
      <3> HIDE DEF value
      <3>1. CASE c \notin waiting
        BY <1>0, <2>1, <3>1 DEF CallsAre
      <3>2. CASE c \in waiting /\ value = 0
        <4>1. calls'[c] = Replied(IF calls[c].op = "route" THEN 503 ELSE 500)
          BY <2>1, <3>2 DEF NoGraph
        <4>2. \A status : /\ DOMAIN Replied(status) = Fields
                          /\ Replied(status).pc = "idle" /\ Replied(status).graph \in Version
          BY CallFields, RoadBounds
        <4> QED  BY <4>1, <4>2
      <3>3. CASE c \in waiting /\ value # 0
        <4> DEFINE call == [calls[c] EXCEPT !.pc = Asked(calls[c]), !.graph = value]
        <4>1. calls'[c] = call
          BY <2>1, <3>3, Zenon
        <4>2. DOMAIN call = Fields /\ call.graph = value /\ call.pc \in {"store", "live"}
          BY <1>0, CallFields DEF CallsAre, Asked
        <4> HIDE DEF call
        <4> QED  BY <2>4, <3>3, <4>1, <4>2
      <3> QED  BY <3>1, <3>2, <3>3
    <2>6. CallsAre(calls')
      BY <2>1, <2>5 DEF CallsAre
    <2> HIDE DEF value
    <2>7. RoadTypes'
      BY <1>0, <2>1, <2>3, <2>6 DEF RoadTypes, CallsAre
    <2>8. NobodyIsForgotten'
      BY <2>5 DEF NobodyIsForgotten
    <2>9. LabelsAreOld'
      <3>1. \A c \in Caller : calls'[c].pc = "get" => calls'[c].seen \in 1..graphFile
        BY <2>5 DEF RoadInv, LabelsAreOld
      <3>2. graphStore.value <= graphFile /\ (graphStore.value # 0 => graphStore.version <= graphStore.value)
        BY DEF RoadInv, LabelsAreOld
      <3> HIDE DEF fails
      <3> QED  BY <1>0, <2>1, <2>2, <2>3, <3>1, <3>2 DEF LabelsAreOld
    <2>10. SpeedsAreKnown'
      BY <2>1, <2>5 DEF RoadInv, SpeedsAreKnown
    <2>11. TrafficIsBacked'
      BY <2>1 DEF RoadInv, TrafficIsBacked
    <2> QED  BY <2>7, <2>8, <2>9, <2>10, <2>11 DEF RoadInv
  <1>3. CASE Publish
    <2>1. /\ graphFile' = graphFile + 1 /\ graphFile < MaxVersion
          /\ UNCHANGED <<graphStore, calls, typicalCache, flowCache, hour>>
      BY <1>3 DEF Publish
    <2>2. graphFile' \in Version /\ graphFile <= graphFile'
      BY <1>0, <2>1
    <2>3. SpeedsAreKnown' /\ TrafficIsBacked'
      BY <2>1 DEF RoadInv, SpeedsAreKnown, TrafficIsBacked
    <2> QED  BY <1>0, <1>s, <2>1, <2>2, <2>3 DEF RoadInv, RoadTypes
  <1>4. CASE NextHour
    <2>1. /\ hour' = hour + 1 /\ hour < MaxHour
          /\ UNCHANGED <<graphFile, graphStore, calls, typicalCache, flowCache>>
      BY <1>4 DEF NextHour
    <2>2. hour' \in 0..MaxHour /\ graphFile <= graphFile'
      BY <1>0, <2>1
    <2>3. SpeedsAreKnown' /\ TrafficIsBacked'
      BY <2>1 DEF RoadInv, SpeedsAreKnown, TrafficIsBacked
    <2> QED  BY <1>0, <1>s, <2>1, <2>2, <2>3 DEF RoadInv, RoadTypes
  <1>5. CASE ExpireTraffic
    <2>1. /\ flowCache' = NoValue /\ UNCHANGED <<graphFile, graphStore, calls, hour>>
          /\ \E h \in 0..MaxHour : typicalCache' \in {typicalCache, [typicalCache EXCEPT ![h] = NoValue]}
      BY <1>0, <1>5 DEF ExpireTraffic
    <2>2. DOMAIN typicalCache' = 0..MaxHour
          /\ \A h \in 0..MaxHour : typicalCache'[h] \in {typicalCache[h], NoValue}
      BY <1>0, <2>1
    <2>3. SpeedsAreKnown'
      BY <2>1, <2>2 DEF RoadInv, SpeedsAreKnown
    <2>4. TrafficIsBacked'
      BY <2>1 DEF TrafficIsBacked
    <2>5. graphFile <= graphFile'
      BY <1>0, <2>1
    <2> QED  BY <1>0, <1>s, <2>1, <2>2, <2>3, <2>4, <2>5 DEF RoadInv, RoadTypes
  <1>6. CASE ExpireRoute \/ Redis
    <2>1. UNCHANGED <<graphFile, graphStore, calls, typicalCache, flowCache, hour>>
      BY <1>6 DEF ExpireRoute, Redis
    <2>2. SpeedsAreKnown' /\ TrafficIsBacked' /\ graphFile <= graphFile'
      BY <1>0, <2>1 DEF RoadInv, SpeedsAreKnown, TrafficIsBacked
    <2> QED  BY <1>0, <1>s, <2>1, <2>2 DEF RoadInv, RoadTypes
  <1> QED  BY <1>1, <1>2, <1>3, <1>4, <1>5, <1>6

LEMMA RoadsAlways == ServiceSpec => []RoadInv
  <1>1. RoadInv /\ [ServiceNext]_serviceVars => RoadInv'
    <2> SUFFICES ASSUME RoadInv, [ServiceNext]_serviceVars PROVE RoadInv'
      OBVIOUS
    <2>1. CASE ServiceNext
      BY <2>1, CallerKeepsRoads, WorldKeepsRoads DEF ServiceNext
    <2>2. CASE UNCHANGED serviceVars
      BY <2>2 DEF serviceVars, RoadInv, RoadTypes, CallsAre, LabelsAreOld, NobodyIsForgotten, SpeedsAreKnown,
                  TrafficIsBacked
    <2> QED  BY <2>1, <2>2
  <1> QED  BY <1>1, InitRoads, PTL DEF ServiceSpec

(* A graph in memory passes for the file on disk only when it is, and who  *)
(* waits for a load waits for one under way, whatever files are published  *)
(* meanwhile and however many of them cannot be read (ReloadingFile.get).  *)
THEOREM StoresAlwaysServe == ServiceSpec => []StoresServeEveryone
  <1>1. RoadInv => StoresServeEveryone
    <2> SUFFICES ASSUME RoadInv PROVE StoreIsCurrent /\ NobodyIsForgotten
      BY DEF StoresServeEveryone
    <2>1. /\ graphFile \in Nat /\ graphStore.value \in Nat /\ graphStore.version \in Nat
          /\ graphStore.value <= graphFile /\ (graphStore.value # 0 => graphStore.version <= graphStore.value)
      BY RoadBounds DEF RoadInv, RoadTypes, LabelsAreOld
    <2> QED  BY <2>1 DEF RoadInv, StoreIsCurrent
  <1> QED  BY <1>1, RoadsAlways, PTL

(* A colour is backed by enough fixes of enough trips when its speed is of *)
(* the graph it is drawn on, and no road has two, with any number of roads *)
(* and fixes and whatever expires or is lost (TrafficService.flow).        *)
THEOREM TrafficAlwaysBacked == ServiceSpec => []TrafficIsBacked
  <1>1. RoadInv => TrafficIsBacked
    BY DEF RoadInv
  <1> QED  BY <1>1, RoadsAlways, PTL

HIDE GeocodingAssumption

-----------------------------------------------------------------------------
(* RouteConditions: the arithmetic of the delay, the geometry of the zones *)
(* and the order in which they are told.                                   *)

(* Rounding down: what is at most a quotient. *)
LEMMA FloorIs ==
  ASSUME NEW x \in Nat, NEW n \in Nat \ {0}, NEW q \in Int
  PROVE  /\ x \div n \in Nat
         /\ q <= x \div n <=> n * q <= x
  <1>1. x \div n \in Nat /\ n * (x \div n) <= x /\ x < n * (x \div n) + n
    BY SMT
  <1>2. CASE q <= x \div n
    <2>1. n * q <= n * (x \div n)
      BY <1>1, <1>2, SMT
    <2> QED  BY <2>1, <1>1, <1>2, SMT
  <1>3. CASE ~(q <= x \div n)
    <2>1. q >= x \div n + 1
      BY <1>1, <1>3
    <2>2. n * q >= n * (x \div n + 1) 
      BY <2>1, <1>1, SMT
    <2>3. n * (x \div n + 1) = n * (x \div n) + n
      BY <1>1, SMT
    <2> QED  BY <2>2, <2>3, <1>1, <1>3, SMT
  <1> QED  BY <1>1, <1>2, <1>3

(* For every distance, duration and pair of speeds: slower observed        *)
(* traffic never shortens a route, the delay told is the one added, and a  *)
(* route grows to two and a half times its duration at most, rounded       *)
(* (RouteConditionsService.evaluate).                                      *)
THEOREM SlowerAlwaysLonger ==
  ASSUME NEW meters \in Nat, NEW seconds \in Nat, NEW fast \in Nat, NEW slow \in Nat
  PROVE  /\ adjusted(meters, seconds, slow) \in Nat /\ delaySeconds(meters, seconds, slow) \in Nat
         /\ seconds + delaySeconds(meters, seconds, slow) = adjusted(meters, seconds, slow)
         /\ 2 * adjusted(meters, seconds, slow) <= 5 * seconds + 1
         /\ 0 < slow /\ slow <= fast => adjusted(meters, seconds, fast) <= adjusted(meters, seconds, slow)
  <1> DEFINE x == 36 * meters
             cap == Rounded(5 * seconds, 2)
             Time(v) == Rounded(x, 10 * v)
  <1>1. /\ cap \in Nat /\ seconds <= cap /\ 2 * cap <= 5 * seconds + 1
    BY SMT DEF Rounded
  <1>2. ASSUME NEW v \in Nat, 0 < v, NEW q \in Nat
        PROVE  Time(v) \in Nat /\ (q <= Time(v) <=> 20 * v * q <= 2 * x + 10 * v)
    <2>1. 2 * x + 10 * v \in Nat /\ 20 * v \in Nat \ {0}
      BY <1>2
    <2>2. Time(v) = (2 * x + 10 * v) \div (20 * v)
      BY <1>2 DEF Rounded
    <2>3. (20 * v) * q = 20 * v * q
      BY <1>2
    <2> HIDE DEF Time
    <2> QED  BY <1>2, <2>1, <2>2, <2>3, FloorIs
  <1>3. ASSUME NEW v \in Nat
        PROVE  /\ adjusted(meters, seconds, v) \in Nat
               /\ seconds <= adjusted(meters, seconds, v)
               /\ 2 * adjusted(meters, seconds, v) <= 5 * seconds + 1
    <2>1. CASE v = 0 \/ seconds = 0 \/ 36 * meters <= 10 * v * seconds
      BY <2>1, <1>3 DEF adjusted
    <2>2. CASE ~(v = 0 \/ seconds = 0 \/ 36 * meters <= 10 * v * seconds)
      <3>1. adjusted(meters, seconds, v) = Smaller(Time(v), cap)
        BY <2>2 DEF adjusted
      <3>2. 20 * v * seconds <= 2 * x + 10 * v
        <4>1. 20 * v * seconds = 2 * (10 * v * seconds)
          BY <1>3, SMT
        <4>2. 10 * v * seconds \in Nat
          BY <1>3, SMT
        <4> QED  BY <4>1, <4>2, <2>2, <1>3
      <3>3. Time(v) \in Nat /\ seconds <= Time(v)
        BY <3>2, <1>2, <2>2
      <3> HIDE DEF cap, Time
      <3> QED  BY <3>1, <3>3, <1>1 DEF Smaller
    <2> QED  BY <2>1, <2>2
  <1>4. ASSUME 0 < slow, slow <= fast
        PROVE  adjusted(meters, seconds, fast) <= adjusted(meters, seconds, slow)
    <2>1. CASE seconds = 0 \/ 36 * meters <= 10 * fast * seconds
      <3>1. adjusted(meters, seconds, fast) = seconds
        BY <2>1, <1>4 DEF adjusted
      <3> QED  BY <3>1, <1>3, <1>4
    <2>2. CASE ~(seconds = 0 \/ 36 * meters <= 10 * fast * seconds)
      <3>1. 10 * slow * seconds <= 10 * fast * seconds
        <4>1. slow * seconds <= fast * seconds
          BY <1>4, SMT
        <4>2. 10 * slow * seconds = 10 * (slow * seconds) /\ 10 * fast * seconds = 10 * (fast * seconds)
          BY SMT
        <4> QED  BY <4>1, <4>2, SMT
      <3>2. /\ adjusted(meters, seconds, fast) = Smaller(Time(fast), cap)
            /\ adjusted(meters, seconds, slow) = Smaller(Time(slow), cap)
        <4>1. ~(seconds = 0 \/ 36 * meters <= 10 * slow * seconds)
          <5>1. 10 * slow * seconds \in Nat /\ 10 * fast * seconds \in Nat
            BY SMT
          <5> QED  BY <5>1, <3>1, <2>2
        <4> QED  BY <4>1, <2>2, <1>4 DEF adjusted
      <3> DEFINE q == Time(fast)
      <3>3. q \in Nat /\ 20 * fast * q <= 2 * x + 10 * fast
        <4>1. Time(fast) \in Nat
          BY <1>2, <1>4
        <4> QED  BY <4>1, <1>2, <1>4
      <3>4. 20 * slow * q <= 2 * x + 10 * slow
        <4> HIDE DEF q
        <4> SUFFICES ASSUME q # 0 PROVE 20 * slow * q <= 2 * x + 10 * slow
          BY <1>4, <3>3
        <4>1. slow * (2 * q - 1) <= fast * (2 * q - 1)
          <5>1. 2 * q - 1 \in Nat
            BY <3>3
          <5> QED  BY <5>1, <1>4, SMT
        <4>2. /\ 10 * (slow * (2 * q - 1)) = 20 * slow * q - 10 * slow
              /\ 10 * (fast * (2 * q - 1)) = 20 * fast * q - 10 * fast
          BY <3>3, SMT
        <4>3. /\ slow * (2 * q - 1) \in Int /\ fast * (2 * q - 1) \in Int
              /\ 20 * slow * q \in Int /\ 20 * fast * q \in Int
          BY <3>3, SMT
        <4> QED  BY <4>1, <4>2, <4>3, <3>3, SMT
      <3>5. Time(slow) \in Nat /\ Time(fast) <= Time(slow)
        BY <3>3, <3>4, <1>2, <1>4
      <3> HIDE DEF cap, Time, q
      <3> QED  BY <3>2, <3>3, <3>5, <1>1 DEF Smaller, q
    <2> QED  BY <2>1, <2>2
  <1> QED  BY <1>3, <1>4, SMTT(30) DEF delaySeconds

(* Of n positions in a row, one is at a multiple of n. *)
LEMMA InRow ==
  ASSUME NEW n \in Nat \ {0}, NEW i \in Nat \ {0}
  PROVE  \E k \in i..(i + n - 1) : (k - 1) % n = 0
  <1> DEFINE r == (i - 1) % n
             d == (i - 1) \div n
  <1>1. r \in 0..(n - 1) /\ d \in Nat /\ i - 1 = n * d + r
    BY SMT
  <1>2. CASE r = 0
    <2>1. i \in i..(i + n - 1) /\ (i - 1) % n = 0
      BY <1>2
    <2> QED  BY <2>1
  <1>3. CASE r # 0
    <2> DEFINE k == i + n - r
    <2>1. k \in i..(i + n - 1) /\ k - 1 = n * d + n
      BY <1>1, <1>3
    <2>2. n * d + n = n * (d + 1)
      BY <1>1, SMT
    <2>3. (n * (d + 1)) % n = 0
      BY <1>1, SMT
    <2> QED  BY <2>1, <2>2, <2>3
  <1> QED  BY <1>2, <1>3

(* However long a route, a zone of rain that it stays in for as many       *)
(* positions as two of those looked at are apart is seen at one of them:   *)
(* no stretch of that length goes by unlooked at (climateAlong).           *)
LEMMA LongCrossingsAreSeen ==
  ASSUME NEW positions \in Seq(Position)
  PROVE  /\ Stride(positions) \in Nat \ {0} /\ LookedAt(positions) \subseteq DOMAIN positions
         /\ \A i \in 1..Len(positions) - Stride(positions) + 1 :
              \E k \in i..i + Stride(positions) - 1 : k \in LookedAt(positions)
  <1> DEFINE n == Stride(positions)
  <1>1. Len(positions) \in Nat /\ DOMAIN positions = 1..Len(positions) /\ n \in Nat \ {0}
    BY RouteConditionsAssumption, FloorIs DEF Stride
  <1>2. LookedAt(positions) = {k \in DOMAIN positions : (k - 1) % n = 0}
    BY DEF LookedAt, Strided
  <1> HIDE DEF n
  <1>3. ASSUME NEW i \in 1..Len(positions) - n + 1
        PROVE  \E k \in i..i + n - 1 : k \in LookedAt(positions)
    <2>a. i \in Nat \ {0}
      BY <1>1
    <2>1. PICK k \in i..(i + n - 1) : (k - 1) % n = 0
      BY <1>1, <2>a, InRow
    <2>2. k \in 1..Len(positions)
      BY <1>1
    <2> QED  BY <1>1, <1>2, <2>1, <2>2
  <1> QED  BY <1>1, <1>2, <1>3 DEF n

LEMMA ItemType ==
  ASSUME NEW S, NEW s \in Seq(S), NEW i \in 1..Len(s)
  PROVE  s[i] \in S
  OBVIOUS

(* An edge is crossed when it passes the height of p with p on its left. *)
LEMMA CrossesIs ==
  ASSUME NEW p \in Position, NEW a \in Position, NEW b \in Position
  PROVE  /\ Side(p, a, b) \in Int
         /\ Crosses(p, b, a) <=> \/ a[2] <= p[2] /\ p[2] < b[2] /\ Side(p, a, b) > 0
                                 \/ b[2] <= p[2] /\ p[2] < a[2] /\ Side(p, a, b) < 0
  <1>1. a[1] \in Int /\ a[2] \in Int /\ b[1] \in Int /\ b[2] \in Int /\ p[1] \in Int /\ p[2] \in Int
    BY DEF Position
  <1> DEFINE u == (p[1] - a[1]) * (b[2] - a[2])
             v == (b[1] - a[1]) * (p[2] - a[2])
             w == (p[1] - b[1]) * (a[2] - b[2])
             x == (a[1] - b[1]) * (p[2] - b[2])
  <1>2. u \in Int /\ v \in Int /\ w \in Int /\ x \in Int
    BY <1>1
  <1>3. Side(p, a, b) = v - u
    <2>1. (b[2] - a[2]) * (p[1] - a[1]) = u
      BY <1>1, SMT
    <2> QED  BY <2>1 DEF Side
  <1>a. x - w = u - v
    BY <1>1, SMT
  <1>4. Crosses(p, b, a) <=> (b[2] > p[2]) # (a[2] > p[2]) /\ IF a[2] > b[2] THEN w < x ELSE w > x
    BY DEF Crosses
  <1> HIDE DEF u, v, w, x
  <1> QED  BY <1>1, <1>2, <1>3, <1>a, <1>4

(* The heights of the corners over p, weighted by the sides opposite. *)
LEMMA Weights ==
  ASSUME NEW p \in Position, NEW a \in Position, NEW b \in Position, NEW c \in Position
  PROVE  /\ Side(p, b, c) * (a[2] - p[2]) + Side(p, c, a) * (b[2] - p[2]) + Side(p, a, b) * (c[2] - p[2]) = 0
         /\ Side(p, a, b) + Side(p, b, c) + Side(p, c, a) = Side(a, b, c)
  BY SMT DEF Position, Side

(* When the number of the three edges that are crossed is odd. *)
LEMMA OddOfThree ==
  ASSUME NEW T \in SUBSET (2..4)
  PROVE  (Cardinality(T) % 2 = 1) <=> (((4 \in T) # (2 \in T)) # (3 \in T))
  <1> DEFINE U == T \cap {4}
             V == T \cap {4, 2}
  <1>1. IsFiniteSet({}) /\ Cardinality({}) = 0
    BY FS_EmptySet
  <1>2. IsFiniteSet(U) /\ Cardinality(U) = IF 4 \in T THEN 1 ELSE 0
    <2>1. CASE 4 \in T
      <3>1. U = {4}
        BY <2>1
      <3> HIDE DEF U
      <3> QED  BY <2>1, <3>1, FS_Singleton
    <2>2. CASE 4 \notin T
      <3>1. U = {}
        BY <2>2
      <3> QED  BY <1>1, <2>2, <3>1
    <2> QED  BY <2>1, <2>2
  <1>3. IsFiniteSet(V) /\ Cardinality(V) = Cardinality(U) + IF 2 \in T THEN 1 ELSE 0
    <2>1. V = (IF 2 \in T THEN U \cup {2} ELSE U) /\ 2 \notin U
      OBVIOUS
    <2> HIDE DEF U, V
    <2> QED  BY <1>2, <2>1, FS_AddElement
  <1>4. Cardinality(T) = Cardinality(V) + IF 3 \in T THEN 1 ELSE 0
    <2>1. 3 \notin V /\ (3 \in T => T = V \cup {3}) /\ (3 \notin T => T = V)
      <3>1. \A i \in T : i = 4 \/ i = 2 \/ i = 3
        OBVIOUS
      <3>2. 3 \notin V /\ \A i : i \in V <=> i \in T /\ (i = 4 \/ i = 2)
        OBVIOUS
      <3> HIDE DEF V
      <3> QED  BY <3>1, <3>2
    <2> HIDE DEF V
    <2>2. CASE 3 \in T
      <3>1. T = V \cup {3}
        BY <2>1, <2>2
      <3>2. Cardinality(V \cup {3}) = Cardinality(V) + 1
        BY <1>3, <2>1, FS_AddElement
      <3> QED  BY <3>1, <3>2, <2>2
    <2>3. CASE 3 \notin T
      BY <2>1, <2>3, <1>2, <1>3
    <2> QED  BY <2>2, <2>3
  <1> HIDE DEF U, V
  <1>5. Cardinality(T) = (IF 4 \in T THEN 1 ELSE 0) + (IF 2 \in T THEN 1 ELSE 0) + (IF 3 \in T THEN 1 ELSE 0)
    BY <1>2, <1>3, <1>4
  <1> QED  BY <1>5

(* Of the edges of a triangle that pass the height of p, an odd number has *)
(* p on its left when p is strictly inside.  The height of p is that of    *)
(* the corners weighted by the sides opposite, so their signs say which of *)
(* the two edges at its height has p on its left.                          *)
LEMMA EdgesOnTheLeft ==
  ASSUME NEW p \in Position, NEW a \in Position, NEW b \in Position, NEW c \in Position,
         Side(p, a, b) # 0, Side(p, b, c) # 0, Side(p, c, a) # 0
  PROVE  ((Crosses(p, a, c) # Crosses(p, b, a)) # Crosses(p, c, b)) <=>
           \/ Side(p, a, b) > 0 /\ Side(p, b, c) > 0 /\ Side(p, c, a) > 0
           \/ Side(p, a, b) < 0 /\ Side(p, b, c) < 0 /\ Side(p, c, a) < 0
  <1> DEFINE ab == Side(p, a, b)
             bc == Side(p, b, c)
             ca == Side(p, c, a)
             x == a[2] - p[2]
             y == b[2] - p[2]
             z == c[2] - p[2]
             odd == (Crosses(p, a, c) # Crosses(p, b, a)) # Crosses(p, c, b)
  <1>2. odd <=> (Crosses(p, a, c) <=> (Crosses(p, b, a) <=> Crosses(p, c, b)))
    BY DEF Crosses
  <1>3. /\ ab \in Int /\ bc \in Int /\ ca \in Int /\ x \in Int /\ y \in Int /\ z \in Int
        /\ ab # 0 /\ bc # 0 /\ ca # 0
    BY CrossesIs DEF Position
  <1>4. /\ Crosses(p, b, a) <=> (x <= 0 /\ 0 < y /\ ab > 0) \/ (y <= 0 /\ 0 < x /\ ab < 0)
        /\ Crosses(p, c, b) <=> (y <= 0 /\ 0 < z /\ bc > 0) \/ (z <= 0 /\ 0 < y /\ bc < 0)
        /\ Crosses(p, a, c) <=> (z <= 0 /\ 0 < x /\ ca > 0) \/ (x <= 0 /\ 0 < z /\ ca < 0)
    BY CrossesIs DEF Position
  <1>5. bc * x + ca * y + ab * z = 0 /\ (x = 0 /\ y = 0 => ab = 0)
    <2>1. bc * x + ca * y + ab * z = 0
      BY Weights
    <2>2. x = 0 /\ y = 0 => ab = 0
      <3>1. \A q \in Position : q[1] \in Int /\ q[2] \in Int
        BY DEF Position
      <3>2. b[1] - a[1] \in Int /\ p[1] - a[1] \in Int
        BY <3>1
      <3>3. x = 0 /\ y = 0 => p[2] - a[2] = 0 /\ b[2] - a[2] = 0
        BY <3>1
      <3> HIDE DEF x, y
      <3> QED  BY <3>2, <3>3, SMT DEF Side
    <2> QED  BY <2>1, <2>2
  <1> HIDE DEF ab, bc, ca, x, y, z, odd
  <1>6. ASSUME NEW m \in Int, NEW n \in Int
        PROVE  /\ m * n \in Int
               /\ (m > 0 /\ n > 0) \/ (m < 0 /\ n < 0) => m * n > 0
               /\ (m < 0 /\ n > 0) \/ (m > 0 /\ n < 0) => m * n < 0
               /\ n = 0 => m * n = 0
    BY SMT
  <1> DEFINE u == bc * x
             v == ca * y
             w == ab * z
  <1>7. /\ u \in Int /\ (u > 0 <=> (bc > 0 /\ x > 0) \/ (bc < 0 /\ x < 0)) /\ (u = 0 <=> x = 0)
        /\ v \in Int /\ (v > 0 <=> (ca > 0 /\ y > 0) \/ (ca < 0 /\ y < 0)) /\ (v = 0 <=> y = 0)
        /\ w \in Int /\ (w > 0 <=> (ab > 0 /\ z > 0) \/ (ab < 0 /\ z < 0)) /\ (w = 0 <=> z = 0)
        /\ u + v + w = 0
    BY <1>3, <1>5, <1>6
  <1> HIDE DEF u, v, w
  <1>8. ASSUME (x > 0 /\ y > 0 /\ z > 0) \/ (x <= 0 /\ y <= 0 /\ z <= 0)
        PROVE  odd <=> ((ab > 0 /\ bc > 0 /\ ca > 0) \/ (ab < 0 /\ bc < 0 /\ ca < 0))
    BY <1>2, <1>3, <1>4, <1>5, <1>7, <1>8, SMT
  <1>9. ASSUME (x > 0 /\ y <= 0 /\ z <= 0) \/ (x <= 0 /\ y > 0 /\ z > 0)
        PROVE  odd <=> ((ab > 0 /\ bc > 0 /\ ca > 0) \/ (ab < 0 /\ bc < 0 /\ ca < 0))
    <2>1. odd <=> (ca > 0 <=> ab > 0)
      BY <1>2, <1>3, <1>4, <1>9
    <2> QED  BY <2>1, <1>3, <1>5, <1>7, <1>9, SMT
  <1>10. ASSUME (y > 0 /\ z <= 0 /\ x <= 0) \/ (y <= 0 /\ z > 0 /\ x > 0)
        PROVE  odd <=> ((ab > 0 /\ bc > 0 /\ ca > 0) \/ (ab < 0 /\ bc < 0 /\ ca < 0))
    <2>1. odd <=> (ab > 0 <=> bc > 0)
      BY <1>2, <1>3, <1>4, <1>10
    <2> QED  BY <2>1, <1>3, <1>5, <1>7, <1>10, SMT
  <1>11. ASSUME (z > 0 /\ x <= 0 /\ y <= 0) \/ (z <= 0 /\ x > 0 /\ y > 0)
        PROVE  odd <=> ((ab > 0 /\ bc > 0 /\ ca > 0) \/ (ab < 0 /\ bc < 0 /\ ca < 0))
    <2>1. odd <=> (bc > 0 <=> ca > 0)
      BY <1>2, <1>3, <1>4, <1>11
    <2> QED  BY <2>1, <1>3, <1>5, <1>7, <1>11, SMT
  <1>12. \/ (x > 0 /\ y > 0 /\ z > 0) \/ (x <= 0 /\ y <= 0 /\ z <= 0)
         \/ (x > 0 /\ y <= 0 /\ z <= 0) \/ (x <= 0 /\ y > 0 /\ z > 0)
         \/ (y > 0 /\ z <= 0 /\ x <= 0) \/ (y <= 0 /\ z > 0 /\ x > 0)
         \/ (z > 0 /\ x <= 0 /\ y <= 0) \/ (z <= 0 /\ x > 0 /\ y > 0)
    BY <1>3
  <1>13. odd <=> ((ab > 0 /\ bc > 0 /\ ca > 0) \/ (ab < 0 /\ bc < 0 /\ ca < 0))
    BY <1>8, <1>9, <1>10, <1>11, <1>12
  <1> QED  BY <1>13 DEF ab, bc, ca, odd

(* A position strictly inside a triangle is found inside, and one strictly *)
(* outside is not, whichever way the ring goes and also level with a       *)
(* corner, for every size of the grid (insideRing).                        *)
THEOREM TrianglesAlwaysExact ==
  ASSUME NEW p \in Position, NEW rings \in Seq(Seq(Position)), IsTriangle(rings), 0 \notin Sides(p, rings[1])
  PROVE  insideRing(p, rings[1]) <=> OnOneSide(p, rings[1])
  <1> DEFINE r == rings[1]
             T == {i \in DOMAIN r : Crosses(p, r[i], r[IF i = 1 THEN Len(r) ELSE i - 1])}
  <1>1. Len(rings) = 1 /\ Len(r) = 4 /\ r[4] = r[1]
    BY DEF IsTriangle
  <1>2. r \in Seq(Position)
    <2>1. 1 \in 1..Len(rings)
      BY <1>1
    <2> QED  BY <2>1, ItemType
  <1>3. OnOneSide(p, r) <=> \/ Side(p, r[1], r[2]) > 0 /\ Side(p, r[2], r[3]) > 0 /\ Side(p, r[3], r[1]) > 0
                            \/ Side(p, r[1], r[2]) < 0 /\ Side(p, r[2], r[3]) < 0 /\ Side(p, r[3], r[1]) < 0
    BY DEF OnOneSide, Sides
  <1>4. Side(p, r[1], r[2]) # 0 /\ Side(p, r[2], r[3]) # 0 /\ Side(p, r[3], r[1]) # 0
    BY DEF Sides
  <1>5. insideRing(p, r) <=> Cardinality(T) % 2 = 1
    BY DEF insideRing
  <1> HIDE DEF r
  <1>6. r[1] \in Position /\ r[2] \in Position /\ r[3] \in Position /\ DOMAIN r = 1..4
    <2>1. 1 \in 1..Len(r) /\ 2 \in 1..Len(r) /\ 3 \in 1..Len(r)
      BY <1>1
    <2>2. DOMAIN r = 1..4
      BY <1>1, <1>2
    <2> QED  BY <1>2, <2>1, <2>2, ItemType
  <1>7. /\ T \in SUBSET (2..4)
        /\ (4 \in T <=> Crosses(p, r[1], r[3])) /\ (2 \in T <=> Crosses(p, r[2], r[1])) /\ (3 \in T <=> Crosses(p, r[3], r[2]))
    <2>1. ~Crosses(p, r[1], r[1])
      BY DEF Crosses
    <2>2. 1 \notin T
      BY <1>1, <2>1
    <2>3. (4 \in T <=> Crosses(p, r[1], r[3])) /\ (2 \in T <=> Crosses(p, r[2], r[1])) /\ (3 \in T <=> Crosses(p, r[3], r[2]))
      BY <1>1, <1>6
    <2>4. \A i \in T : i \in 1..4
      BY <1>6
    <2> HIDE DEF T
    <2> QED  BY <2>2, <2>3, <2>4
  <1> HIDE DEF T
  <1>8. (Cardinality(T) % 2 = 1) <=> (((4 \in T) # (2 \in T)) # (3 \in T))
    BY <1>7, OddOfThree
  <1>9. (((4 \in T) # (2 \in T)) # (3 \in T)) <=> ((Crosses(p, r[1], r[3]) # Crosses(p, r[2], r[1])) # Crosses(p, r[3], r[2]))
    <2>1. Crosses(p, r[1], r[3]) \in BOOLEAN /\ Crosses(p, r[2], r[1]) \in BOOLEAN /\ Crosses(p, r[3], r[2]) \in BOOLEAN
      BY DEF Crosses
    <2> QED  BY <1>7, <2>1
  <1>10. ((Crosses(p, r[1], r[3]) # Crosses(p, r[2], r[1])) # Crosses(p, r[3], r[2])) <=> OnOneSide(p, r)
    BY <1>3, <1>4, <1>6, EdgesOnTheLeft
  <1> QED  BY <1>5, <1>8, <1>9, <1>10 DEF r

(* A position strictly inside of a triangle is within its box.             *)
LEMMA InTheBox ==
  ASSUME NEW p \in Position, NEW a \in Position, NEW b \in Position, NEW c \in Position,
         \/ Side(p, a, b) > 0 /\ Side(p, b, c) > 0 /\ Side(p, c, a) > 0
         \/ Side(p, a, b) < 0 /\ Side(p, b, c) < 0 /\ Side(p, c, a) < 0
  PROVE  \A n \in {1, 2} : /\ a[n] <= p[n] \/ b[n] <= p[n] \/ c[n] <= p[n]
                           /\ p[n] <= a[n] \/ p[n] <= b[n] \/ p[n] <= c[n]
  <1> SUFFICES ASSUME NEW n \in {1, 2}
               PROVE  /\ a[n] <= p[n] \/ b[n] <= p[n] \/ c[n] <= p[n]
                      /\ p[n] <= a[n] \/ p[n] <= b[n] \/ p[n] <= c[n]
    OBVIOUS
  <1> DEFINE ab == Side(p, a, b)
             bc == Side(p, b, c)
             ca == Side(p, c, a)
             x == a[n] - p[n]
             y == b[n] - p[n]
             z == c[n] - p[n]
  <1>1. \A q \in Position : q[n] \in Int
    BY DEF Position
  <1>2. ab \in Int /\ bc \in Int /\ ca \in Int /\ x \in Int /\ y \in Int /\ z \in Int
    BY <1>1, CrossesIs
  <1>3. bc * x + ca * y + ab * z = 0
    <2>1. CASE n = 1
      BY <2>1, SMT DEF Position, Side
    <2>2. CASE n = 2
      BY <2>2, Weights
    <2> QED  BY <2>1, <2>2
  <1>4. ASSUME NEW k \in Int, NEW m \in Int
        PROVE  /\ k * m \in Int
               /\ (k > 0 /\ m > 0) \/ (k < 0 /\ m < 0) => k * m > 0
               /\ (k < 0 /\ m > 0) \/ (k > 0 /\ m < 0) => k * m < 0
    BY SMT
  <1> DEFINE u == bc * x
             v == ca * y
             w == ab * z
  <1>5. /\ u \in Int /\ ((bc > 0 /\ x > 0) \/ (bc < 0 /\ x < 0) => u > 0) /\ ((bc < 0 /\ x > 0) \/ (bc > 0 /\ x < 0) => u < 0)
        /\ v \in Int /\ ((ca > 0 /\ y > 0) \/ (ca < 0 /\ y < 0) => v > 0) /\ ((ca < 0 /\ y > 0) \/ (ca > 0 /\ y < 0) => v < 0)
        /\ w \in Int /\ ((ab > 0 /\ z > 0) \/ (ab < 0 /\ z < 0) => w > 0) /\ ((ab < 0 /\ z > 0) \/ (ab > 0 /\ z < 0) => w < 0)
        /\ u + v + w = 0
    BY <1>2, <1>3, <1>4
  <1>6. (ab > 0 /\ bc > 0 /\ ca > 0) \/ (ab < 0 /\ bc < 0 /\ ca < 0)
    OBVIOUS
  <1>7. /\ a[n] \in Int /\ b[n] \in Int /\ c[n] \in Int /\ p[n] \in Int
        /\ x = a[n] - p[n] /\ y = b[n] - p[n] /\ z = c[n] - p[n]
    BY <1>1
  <1> HIDE DEF ab, bc, ca, x, y, z, u, v, w
  <1>8. ~(x > 0 /\ y > 0 /\ z > 0) /\ ~(x < 0 /\ y < 0 /\ z < 0)
    BY <1>2, <1>5, <1>6
  <1> QED  BY <1>2, <1>7, <1>8

(* A position that is in a zone is covered by it, and one out of it is not. *)
LEMMA CoversIsExact ==
  ASSUME NEW zone, IsZone(zone), NEW p \in Position
  PROVE  /\ IsIn(p, zone) => Covers(zone, p)
         /\ IsOut(p, zone) => ~Covers(zone, p)
  <1>1. ASSUME NEW rings \in zone.polygons, IsTriangle(rings)
        PROVE  /\ rings \in Seq(Seq(Position)) /\ Len(rings) = 1 /\ rings[1] \in Seq(Position)
               /\ insidePolygon(p, rings) <=> insideRing(p, rings[1])
    <2>1. rings \in Seq(Seq(Position)) /\ Len(rings) = 1
      BY <1>1, Zenon DEF IsZone, IsTriangle
    <2>2. rings[1] \in Seq(Position)
      <3>1. 1 \in 1..Len(rings)
        BY <2>1
      <3> QED  BY <2>1, <3>1, ItemType
    <2>3. rings # <<>> /\ 2..Len(rings) = {}
      <3>1. Len(<<>>) = 0 /\ 2..1 = {}
        OBVIOUS
      <3>2. Len(rings) # Len(<<>>) /\ 2..Len(rings) = 2..1
        <4>1. 1 # 0
          OBVIOUS
        <4> QED  BY <2>1, <3>1, <4>1, Zenon
      <3> QED  BY <3>1, <3>2, Zenon
    <2> QED  BY <2>1, <2>2, <2>3, Zenon DEF insidePolygon
  <1>2. ASSUME IsIn(p, zone) PROVE Covers(zone, p)
    <2>1. PICK rings \in zone.polygons : IsTriangle(rings) /\ OnOneSide(p, rings[1])
      BY <1>2 DEF IsIn
    <2> DEFINE r == rings[1]
               corners == UNION {UNION {Range(s[i]) : i \in DOMAIN s} : s \in zone.polygons}
    <2>2. r \in Seq(Position) /\ Len(r) = 4 /\ 1 \in DOMAIN rings
      BY <1>1, <2>1 DEF IsTriangle
    <2>3. r[1] \in Position /\ r[2] \in Position /\ r[3] \in Position
      <3>1. 1 \in 1..Len(r) /\ 2 \in 1..Len(r) /\ 3 \in 1..Len(r)
        BY <2>2
      <3> HIDE DEF r
      <3> QED  BY <2>2, <3>1, ItemType
    <2>4. Range(r) \subseteq corners
      BY <2>2
    <2>5. r[1] \in corners /\ r[2] \in corners /\ r[3] \in corners
      <3>1. r[1] \in Range(r) /\ r[2] \in Range(r) /\ r[3] \in Range(r)
        BY <2>2 DEF Range
      <3> HIDE DEF corners, r
      <3> QED  BY <2>4, <3>1
    <2>6. \/ Side(p, r[1], r[2]) > 0 /\ Side(p, r[2], r[3]) > 0 /\ Side(p, r[3], r[1]) > 0
          \/ Side(p, r[1], r[2]) < 0 /\ Side(p, r[2], r[3]) < 0 /\ Side(p, r[3], r[1]) < 0
      BY <2>1 DEF OnOneSide, Sides
    <2>7. 0 \notin Sides(p, r)
      <3>1. Side(p, r[1], r[2]) \in Int /\ Side(p, r[2], r[3]) \in Int /\ Side(p, r[3], r[1]) \in Int
        BY <2>3, CrossesIs
      <3> QED  BY <2>6, <3>1 DEF Sides
    <2>8. insidePolygon(p, rings)
      BY <1>1, <2>1, <2>7, TrianglesAlwaysExact
    <2>9. insideBbox(p, zone)
      <3> HIDE DEF corners, r
      <3>1. \A n \in {1, 2} : \E q \in corners : q[n] <= p[n]
        BY <2>3, <2>5, <2>6, InTheBox
      <3>2. \A n \in {1, 2} : \E q \in corners : p[n] <= q[n]
        BY <2>3, <2>5, <2>6, InTheBox
      <3> QED  BY <3>1, <3>2 DEF insideBbox, corners
    <2> QED  BY <2>1, <2>8, <2>9 DEF Covers
  <1>3. ASSUME IsOut(p, zone) PROVE ~Covers(zone, p)
    <2> SUFFICES ASSUME NEW rings \in zone.polygons PROVE ~insidePolygon(p, rings)
      BY DEF Covers
    <2>1. IsTriangle(rings) /\ 0 \notin Sides(p, rings[1]) /\ ~OnOneSide(p, rings[1])
      BY <1>3 DEF IsOut
    <2> QED  BY <1>1, <2>1, TrianglesAlwaysExact
  <1> QED  BY <1>2, <1>3

(* A strict total order R numbers the elements of a finite set F.          *)
IsOrder(R, F) ==
  /\ \A a \in F : <<a, a>> \notin R
  /\ \A a, b, c \in F : <<a, b>> \in R /\ <<b, c>> \in R => <<a, c>> \in R
  /\ \A a, b \in F : a = b \/ <<a, b>> \in R \/ <<b, a>> \in R
Below(R, F, a) == {b \in F : <<b, a>> \in R}

LEMMA Places ==
  ASSUME NEW F, IsFiniteSet(F), NEW R, IsOrder(R, F)
  PROVE  /\ \A a \in F : Cardinality(Below(R, F, a)) + 1 \in 1..Cardinality(F)
         /\ \A a, b \in F : <<a, b>> \in R => Cardinality(Below(R, F, a)) < Cardinality(Below(R, F, b))
         /\ \A p \in 1..Cardinality(F) : \E a \in F : Cardinality(Below(R, F, a)) + 1 = p
  <1> DEFINE n == Cardinality(F)
             size(a) == Cardinality(Below(R, F, a))
  <1>1. n \in Nat
    BY FS_CardinalityType
  <1>2. ASSUME NEW a \in F PROVE IsFiniteSet(Below(R, F, a)) /\ size(a) \in Nat /\ size(a) + 1 <= n
    <2>1. Below(R, F, a) \subseteq F \ {a}
      BY DEF Below, IsOrder
    <2>2. IsFiniteSet(F \ {a}) /\ Cardinality(F \ {a}) = n - 1
      BY FS_RemoveElement
    <2>3. IsFiniteSet(Below(R, F, a)) /\ size(a) <= n - 1
      BY <2>1, <2>2, FS_Subset
    <2>4. size(a) \in Nat
      BY <2>3, FS_CardinalityType
    <2> QED  BY <1>1, <2>3, <2>4
  <1>3. ASSUME NEW a \in F, NEW b \in F, <<a, b>> \in R PROVE size(a) < size(b)
    <2>1. Below(R, F, a) \subseteq Below(R, F, b) \ {a} /\ a \in Below(R, F, b)
      BY <1>3 DEF Below, IsOrder
    <2>2. IsFiniteSet(Below(R, F, b) \ {a}) /\ Cardinality(Below(R, F, b) \ {a}) = size(b) - 1
      BY <1>2, <2>1, FS_RemoveElement
    <2>3. size(a) <= size(b) - 1
      BY <2>1, <2>2, FS_Subset
    <2> QED  BY <1>2, <2>3
  <1> DEFINE f == [a \in F |-> size(a) + 1]
  <1>4. f \in Injection(F, 1..n)
    <2>1. f \in [F -> 1..n]
      BY <1>1, <1>2
    <2>2. ASSUME NEW a \in F, NEW b \in F, f[a] = f[b] PROVE a = b
      <3>1. size(a) \in Nat /\ size(b) \in Nat /\ size(a) = size(b)
        BY <1>2, <2>2
      <3>2. <<a, b>> \notin R /\ <<b, a>> \notin R
        BY <1>3, <3>1
      <3> QED  BY <3>2 DEF IsOrder
    <2> HIDE DEF f
    <2> QED  BY <2>1, <2>2 DEF Injection, IsInjective
  <1>5. IsFiniteSet(1..n) /\ Cardinality(1..n) = n
    BY <1>1, FS_Interval
  <1>6. f \in Surjection(F, 1..n)
    <2> HIDE DEF f
    <2> QED  BY <1>4, <1>5, FS_Injection
  <1>7. ASSUME NEW p \in 1..n PROVE \E a \in F : size(a) + 1 = p
    <2>1. \E a \in F : f[a] = p
      <3> HIDE DEF f
      <3> QED  BY <1>6 DEF Surjection
    <2> QED  BY <2>1
  <1>8. \A a \in F : size(a) + 1 \in 1..n
    BY <1>1, <1>2
  <1> QED  BY <1>3, <1>7, <1>8

(* A set of naturals has a least one. *)
LEMMA LeastOf ==
  ASSUME NEW T \in SUBSET Nat, T # {}
  PROVE  \E x \in T : \A y \in T : x <= y
  <1> DEFINE less == {p \in Nat \X Nat : p[1] < p[2]}
  <1>1. IsWellFoundedOn(less, Nat)
    BY NatLessThanWellFounded, Zenon DEF OpToRel
  <1>2. PICK x \in T : \A y \in T : <<y, x>> \notin less
    BY <1>1, WFMin, Zenon
  <1>3. \A m, n \in Nat : <<m, n>> \in less <=> m < n
    OBVIOUS
  <1> HIDE DEF less
  <1>4. \A y \in T : ~(y < x)
    BY <1>2, <1>3, Zenon
  <1> QED  BY <1>4

(* Of the findings of a kind, one is the first. *)
LEMMA OneIsFirst ==
  ASSUME NEW T \in SUBSET (Nat \X Nat), T # {}
  PROVE  \E a \in T : \A b \in T : ~Earlier(b, a)
  <1> DEFINE U == {a[1] : a \in T}
  <1>1. U \in SUBSET Nat /\ U # {}
    OBVIOUS
  <1>2. PICK m \in U : \A y \in U : m <= y
    <2> HIDE DEF U
    <2> QED  BY <1>1, LeastOf
  <1> DEFINE V == {a[2] : a \in {b \in T : b[1] = m}}
  <1>3. V \in SUBSET Nat /\ V # {}
    OBVIOUS
  <1>4. PICK n \in V : \A y \in V : n <= y
    <2> HIDE DEF V
    <2> QED  BY <1>3, LeastOf
  <1>5. PICK a \in T : a[1] = m /\ a[2] = n
    OBVIOUS
  <1>6. ASSUME NEW b \in T PROVE ~Earlier(b, a)
    <2>1. b[1] \in Nat /\ b[2] \in Nat /\ m \in Nat /\ n \in Nat
      BY <1>1, <1>3
    <2>2. m <= b[1] /\ (b[1] = m => n <= b[2])
      BY <1>2, <1>4
    <2> HIDE DEF U, V
    <2> QED  BY <1>5, <2>1, <2>2 DEF Earlier
  <1> QED  BY <1>6

LEMMA ProductOf ==
  ASSUME NEW A, NEW B, NEW S, A \subseteq B
  PROVE  /\ A \X S \subseteq B \X S
         /\ \A q \in A \X S : q[1] \in A /\ q[2] \in S /\ q = <<q[1], q[2]>>
  OBVIOUS

LEMMA ProductIsFinite ==
  ASSUME NEW A, NEW S, IsFiniteSet(A), IsFiniteSet(S)
  PROVE  IsFiniteSet(A \X S)
  BY FS_Product

(* Zones read from a file. *)
AreZones(zones) == Len(zones) \in Nat /\ DOMAIN zones = 1..Len(zones) /\ \A i \in DOMAIN zones : IsZone(zones[i])
Findings(positions, zones) == {a \in LookedAt(positions) \X DOMAIN zones : Covers(zones[a[2]], positions[a[1]])}
Order(positions, zones) ==
  LET F == FirstFound(positions, zones) IN {ab \in F \X F : Ahead(zones, ab[1], ab[2])}
Place(positions, zones, a) == Cardinality({b \in FirstFound(positions, zones) : Ahead(zones, b, a)}) + 1

(* The findings told are ordered, and each has a place. *)
LEMMA FindingsAreOrdered ==
  ASSUME NEW positions \in Seq(Position), NEW zones, AreZones(zones)
  PROVE  LET F == FirstFound(positions, zones) IN
         /\ F \subseteq Findings(positions, zones) /\ Findings(positions, zones) \subseteq (DOMAIN positions) \X DOMAIN zones
         /\ IsFiniteSet(F) /\ Cardinality(F) \in Nat
         /\ \A a \in F : Place(positions, zones, a) \in 1..Cardinality(F)
         /\ \A a, b \in F : a # b => \/ Ahead(zones, a, b) /\ Place(positions, zones, a) < Place(positions, zones, b)
                                     \/ Ahead(zones, b, a) /\ Place(positions, zones, b) < Place(positions, zones, a)
         /\ \A p \in 1..Cardinality(F) : \E a \in F : Place(positions, zones, a) = p
  <1> DEFINE F == FirstFound(positions, zones)
             G == Findings(positions, zones)
             R == Order(positions, zones)
             n == Cardinality(F)
             place(a) == Place(positions, zones, a)
  <1>1. LookedAt(positions) \subseteq DOMAIN positions /\ DOMAIN positions = 1..Len(positions) /\ Len(positions) \in Nat
    BY LongCrossingsAreSeen
  <1>2. F \subseteq G /\ G \subseteq (DOMAIN positions) \X DOMAIN zones
    <2>1. G \subseteq LookedAt(positions) \X DOMAIN zones
      BY Zenon DEF Findings
    <2>2. LookedAt(positions) \X DOMAIN zones \subseteq (DOMAIN positions) \X DOMAIN zones
      BY <1>1, ProductOf, Zenon
    <2>3. F = {a \in G : \A b \in G : Summary(zones[b[2]]) = Summary(zones[a[2]]) => ~Earlier(b, a)}
      BY Zenon DEF FirstFound, Findings
    <2> HIDE DEF F, G
    <2> QED  BY <2>1, <2>2, <2>3
  <1>3. IsFiniteSet(F) /\ n \in Nat
    <2>1. IsFiniteSet(DOMAIN positions) /\ IsFiniteSet(DOMAIN zones)
      BY <1>1, FS_Interval DEF AreZones
    <2>2. IsFiniteSet((DOMAIN positions) \X DOMAIN zones)
      BY <2>1, ProductIsFinite, Zenon
    <2>3. IsFiniteSet(F)
      BY <1>2, <2>2, FS_Subset
    <2> QED  BY <2>3, FS_CardinalityType
  <1>4. ASSUME NEW a \in F
        PROVE  /\ a[1] \in Nat /\ a[2] \in Nat /\ a = <<a[1], a[2]>> /\ zones[a[2]].max \in Nat
    <2>1. a \in (DOMAIN positions) \X DOMAIN zones
      <3> HIDE DEF F, G
      <3> QED  BY <1>2, <1>4
    <2>2. a[1] \in 1..Len(positions) /\ a[2] \in DOMAIN zones /\ a = <<a[1], a[2]>>
      BY <1>1, <2>1, ProductOf, Zenon
    <2>3. zones[a[2]].max \in Nat /\ DOMAIN zones = 1..Len(zones) /\ Len(zones) \in Nat
      BY <2>2, Zenon DEF AreZones, IsZone
    <2> QED  BY <1>1, <2>2, <2>3
  <1>5. \A a, b : <<a, b>> \in R <=> a \in F /\ b \in F /\ Ahead(zones, a, b)
    BY DEF Order
  <1> HIDE DEF F, R
  <1>6. IsOrder(R, F)
    <2>1. ASSUME NEW a \in F PROVE ~Ahead(zones, a, a)
      BY <1>4 DEF Ahead, Earlier
    <2>2. ASSUME NEW a \in F, NEW b \in F, NEW c \in F, Ahead(zones, a, b), Ahead(zones, b, c)
          PROVE  Ahead(zones, a, c)
      <3>1. /\ a[1] \in Nat /\ a[2] \in Nat /\ zones[a[2]].max \in Nat
            /\ b[1] \in Nat /\ b[2] \in Nat /\ zones[b[2]].max \in Nat
            /\ c[1] \in Nat /\ c[2] \in Nat /\ zones[c[2]].max \in Nat
        BY <1>4
      <3> QED  BY <2>2, <3>1, SMTT(30) DEF Ahead, Earlier
    <2>3. ASSUME NEW a \in F, NEW b \in F, a # b
          PROVE  Ahead(zones, a, b) \/ Ahead(zones, b, a)
      <3>1. /\ a[1] \in Nat /\ a[2] \in Nat /\ zones[a[2]].max \in Nat
            /\ b[1] \in Nat /\ b[2] \in Nat /\ zones[b[2]].max \in Nat
        BY <1>4
      <3>2. a[1] # b[1] \/ a[2] # b[2]
        BY <1>4, <2>3
      <3> QED  BY <3>1, <3>2 DEF Ahead, Earlier
    <2> QED  BY <1>5, <2>1, <2>2, <2>3 DEF IsOrder
  <1>7. ASSUME NEW a \in F PROVE place(a) = Cardinality(Below(R, F, a)) + 1
    <2>1. Below(R, F, a) = {b \in F : Ahead(zones, b, a)}
      BY <1>5 DEF Below
    <2> QED  BY <2>1 DEF Place, F
  <1>8. /\ \A a \in F : place(a) \in 1..n
        /\ \A p \in 1..n : \E a \in F : place(a) = p
    BY <1>3, <1>6, <1>7, Places
  <1>9. ASSUME NEW a \in F, NEW b \in F, a # b
        PROVE  (Ahead(zones, a, b) /\ place(a) < place(b)) \/ (Ahead(zones, b, a) /\ place(b) < place(a))
    <2>1. ASSUME NEW c \in F, NEW d \in F, <<c, d>> \in R PROVE place(c) < place(d)
      <3>1. Cardinality(Below(R, F, c)) < Cardinality(Below(R, F, d))
        BY <1>3, <1>6, <2>1, Places
      <3>2. place(c) \in Nat /\ place(d) \in Nat /\ IsFiniteSet(Below(R, F, c)) /\ IsFiniteSet(Below(R, F, d))
        <4>1. Below(R, F, c) \subseteq F /\ Below(R, F, d) \subseteq F
          BY DEF Below
        <4> QED  BY <1>3, <1>8, <4>1, FS_Subset
      <3>3. Cardinality(Below(R, F, c)) \in Nat /\ Cardinality(Below(R, F, d)) \in Nat
        BY <3>2, FS_CardinalityType
      <3> QED  BY <1>7, <3>1, <3>3
    <2>2. <<a, b>> \in R \/ <<b, a>> \in R
      BY <1>6, <1>9 DEF IsOrder
    <2> QED  BY <1>5, <2>1, <2>2
  <1> QED  BY <1>2, <1>3, <1>8, <1>9 DEF F

LEMMA FindingsArePairs ==
  ASSUME NEW positions \in Seq(Position), NEW zones, AreZones(zones)
  PROVE  (DOMAIN positions) \X (DOMAIN zones) \subseteq Nat \X Nat
  <1>1. DOMAIN positions \subseteq Nat /\ DOMAIN zones \subseteq Nat
    BY DEF AreZones
  <1> QED  BY <1>1

(* Two findings of one range and district are one. *)
LEMMA OneOfAKind ==
  ASSUME NEW positions \in Seq(Position), NEW zones, AreZones(zones),
         NEW a \in FirstFound(positions, zones), NEW b \in FirstFound(positions, zones),
         Summary(zones[a[2]]) = Summary(zones[b[2]])
  PROVE  a = b
  <1>1. a \in Findings(positions, zones) /\ b \in Findings(positions, zones)
    BY FindingsAreOrdered
  <1>2. ~Earlier(b, a) /\ ~Earlier(a, b)
    BY <1>1, Zenon DEF FirstFound, Findings
  <1>3. a \in Nat \X Nat /\ b \in Nat \X Nat
    BY <1>1, FindingsAreOrdered, FindingsArePairs
  <1> QED  BY <1>2, <1>3 DEF Earlier

(* What is told is the summary of the findings at the first places. *)
LEMMA ToldAre ==
  ASSUME NEW positions \in Seq(Position), NEW zones, AreZones(zones)
  PROVE  LET F == FirstFound(positions, zones)
             told == climateAlong(positions, zones)
             m == Smaller(Cardinality(F), MaxTold) IN
         /\ m \in Nat /\ DOMAIN told = 1..m /\ Len(told) = m
         /\ \A p \in 1..m : \E a \in F : Place(positions, zones, a) = p /\ told[p] = Summary(zones[a[2]])
         /\ \A a \in F : Place(positions, zones, a) <= m => told[Place(positions, zones, a)] = Summary(zones[a[2]])
  <1> DEFINE F == FirstFound(positions, zones)
             told == climateAlong(positions, zones)
             m == Smaller(Cardinality(F), MaxTold)
             place(a) == Place(positions, zones, a)
             at(p) == CHOOSE a \in F : place(a) = p
  <1>1. told = [p \in 1..m |-> Summary(zones[at(p)[2]])]
    BY Zenon DEF climateAlong, Place
  <1>2. /\ Cardinality(F) \in Nat
        /\ \A a \in F : place(a) \in 1..Cardinality(F)
        /\ \A a, b \in F : a # b => place(a) < place(b) \/ place(b) < place(a)
        /\ \A p \in 1..Cardinality(F) : \E a \in F : place(a) = p
    BY FindingsAreOrdered, Zenon
  <1>3. m \in Nat /\ m <= Cardinality(F)
    <2> HIDE DEF F
    <2> QED  BY <1>2, RouteConditionsAssumption DEF Smaller
  <1> HIDE DEF F, told, m, place
  <1>4. DOMAIN told = 1..m /\ Len(told) = m
    BY <1>1, <1>3
  <1>5. ASSUME NEW p \in 1..m PROVE at(p) \in F /\ place(at(p)) = p /\ told[p] = Summary(zones[at(p)[2]])
    <2>1. \E a \in F : place(a) = p
      BY <1>2, <1>3
    <2>2. at(p) \in F /\ place(at(p)) = p
      BY <2>1, Zenon
    <2>3. told[p] = Summary(zones[at(p)[2]])
      BY <1>1
    <2> QED  BY <2>2, <2>3
  <1> HIDE DEF at
  <1>6. ASSUME NEW a \in F, place(a) <= m PROVE told[place(a)] = Summary(zones[a[2]])
    <2>1. place(a) \in 1..m
      BY <1>2, <1>3, <1>6
    <2>2. place(at(place(a))) = place(a) /\ at(place(a)) \in F /\ told[place(a)] = Summary(zones[at(place(a))[2]])
      BY <1>5, <2>1
    <2>3. at(place(a)) = a
      BY <1>2, <2>1, <2>2
    <2> QED  BY <2>2, <2>3
  <1> QED  BY <1>3, <1>4, <1>5, <1>6 DEF F, told, m, place

(* The zone that a finding at place p is of, or as many as can be told are *)
(* as wet.                                                                 *)
LEMMA ZoneIsTold ==
  ASSUME NEW positions \in Seq(Position), NEW zones, AreZones(zones),
         NEW z \in DOMAIN zones, NEW k \in LookedAt(positions), Covers(zones[z], positions[k])
  PROVE  LET told == climateAlong(positions, zones) IN
         \/ \E j \in DOMAIN told : told[j] = Summary(zones[z])
         \/ Len(told) = MaxTold /\ \A j \in DOMAIN told : told[j].max >= zones[z].max
  <1> DEFINE F == FirstFound(positions, zones)
             G == Findings(positions, zones)
             T == {b \in G : Summary(zones[b[2]]) = Summary(zones[z])}
             told == climateAlong(positions, zones)
             m == Smaller(Cardinality(F), MaxTold)
             place(a) == Place(positions, zones, a)
  <1>1. <<k, z>> \in T
    BY DEF Findings
  <1>2. /\ F \subseteq G /\ G \subseteq (DOMAIN positions) \X (DOMAIN zones)
        /\ Cardinality(F) \in Nat
        /\ \A a \in F : place(a) \in 1..Cardinality(F)
        /\ \A a, b \in F : a # b => \/ Ahead(zones, a, b) /\ place(a) < place(b)
                                    \/ Ahead(zones, b, a) /\ place(b) < place(a)
    BY FindingsAreOrdered, Zenon
  <1>3. T \subseteq Nat \X Nat
    <2> HIDE DEF G
    <2> QED  BY <1>2, FindingsArePairs
  <1>4. PICK a \in T : \A b \in T : ~Earlier(b, a)
    <2> HIDE DEF T
    <2> QED  BY <1>1, <1>3, OneIsFirst
  <1>5. a \in F /\ Summary(zones[a[2]]) = Summary(zones[z])
    BY <1>4 DEF FirstFound, Findings
  <1>6. /\ m \in Nat /\ DOMAIN told = 1..m /\ Len(told) = m
        /\ \A p \in 1..m : \E b \in F : place(b) = p /\ told[p] = Summary(zones[b[2]])
        /\ place(a) <= m => told[place(a)] = Summary(zones[a[2]])
    BY <1>5, ToldAre, Zenon
  <1>7. zones[a[2]].max = zones[z].max
    <2>1. Summary(zones[a[2]]).max = zones[a[2]].max /\ Summary(zones[z]).max = zones[z].max
      BY DEF Summary
    <2> QED  BY <1>5, <2>1
  <1>8. \A b \in F : zones[b[2]].max \in Nat /\ Summary(zones[b[2]]).max = zones[b[2]].max
    <2> SUFFICES ASSUME NEW b \in F PROVE zones[b[2]].max \in Nat /\ Summary(zones[b[2]]).max = zones[b[2]].max
      OBVIOUS
    <2>1. b \in (DOMAIN positions) \X (DOMAIN zones)
      <3> HIDE DEF F, G
      <3> QED  BY <1>2
    <2>2. b[2] \in DOMAIN zones
      BY <2>1
    <2> QED  BY <2>2 DEF AreZones, IsZone, Summary
  <1>9. CASE place(a) <= m
    <2>1. place(a) \in DOMAIN told
      <3> HIDE DEF F, told, m, place
      <3> QED  BY <1>2, <1>5, <1>6, <1>9
    <2> QED  BY <1>5, <1>6, <1>9, <2>1
  <1>10. CASE ~(place(a) <= m)
    <2>1. Len(told) = MaxTold
      <3>1. place(a) \in Nat /\ place(a) <= Cardinality(F)
        <4> HIDE DEF F, place
        <4> QED  BY <1>2, <1>5
      <3>2. m = IF Cardinality(F) <= MaxTold THEN Cardinality(F) ELSE MaxTold
        BY Zenon DEF Smaller
      <3> HIDE DEF F, told, m, place
      <3> QED  BY <1>2, <1>6, <1>10, <3>1, <3>2, RouteConditionsAssumption
    <2>2. ASSUME NEW j \in DOMAIN told PROVE told[j].max >= zones[z].max
      <3> HIDE DEF F, G, T, told, m, place
      <3>1. PICK b \in F : place(b) = j /\ told[j] = Summary(zones[b[2]])
        BY <1>6, <2>2
      <3>2. place(b) < place(a)
        BY <1>2, <1>5, <1>6, <1>10, <2>2, <3>1
      <3>3. Ahead(zones, b, a)
        BY <1>2, <1>5, <3>2
      <3>4. zones[b[2]].max \in Nat /\ zones[a[2]].max \in Nat /\ told[j].max = zones[b[2]].max
        BY <1>5, <1>8, <3>1
      <3>5. zones[b[2]].max >= zones[a[2]].max
        BY <3>3, <3>4 DEF Ahead
      <3> QED  BY <1>7, <3>4, <3>5
    <2> QED  BY <2>1, <2>2
  <1> QED  BY <1>9, <1>10

(* For every route and every file of zones: what is told is as it should   *)
(* be.                                                                     *)
LEMMA ToldOfItsFile ==
  ASSUME NEW route, route.positions \in Seq(Position), NEW file, file.kind = "zones", AreZones(file.zones)
  PROVE  IsToldOf(route, file, ClimateTold(route, file.zones))
  <1> DEFINE positions == route.positions
             zones == file.zones
             told == climateAlong(positions, zones)
             F == FirstFound(positions, zones)
             place(a) == Place(positions, zones, a)
             long == Stride(positions)
             all == ClimateTold(route, zones)
  <1>1. CASE zones = <<>>
    BY <1>1 DEF ClimateTold, NoClimate, IsToldOf
  <1>2. CASE zones # <<>>
    <2>1. all.status = "climatology" /\ all.zones = told /\ "climatology" # "unavailable"
      BY <1>2 DEF ClimateTold
    <2>2. /\ Len(told) \in Nat /\ DOMAIN told = 1..Len(told) /\ Len(told) <= MaxTold
          /\ \A p \in DOMAIN told : \E a \in F : place(a) = p /\ told[p] = Summary(zones[a[2]])
      <3> DEFINE m == Smaller(Cardinality(F), MaxTold)
      <3>1. /\ m \in Nat /\ DOMAIN told = 1..m /\ Len(told) = m
            /\ \A p \in 1..m : \E a \in F : place(a) = p /\ told[p] = Summary(zones[a[2]])
        BY ToldAre, Zenon
      <3>2. m <= MaxTold
        <4>1. Cardinality(F) \in Nat
          BY FindingsAreOrdered, Zenon
        <4> HIDE DEF F
        <4> QED  BY <4>1, RouteConditionsAssumption DEF Smaller
      <3> HIDE DEF m, told, F, place
      <3> QED  BY <3>1, <3>2
    <2>3. /\ F \subseteq Findings(positions, zones)
          /\ Findings(positions, zones) \subseteq (DOMAIN positions) \X (DOMAIN zones)
          /\ \A a, b \in F : a # b => \/ Ahead(zones, a, b) /\ place(a) < place(b)
                                      \/ Ahead(zones, b, a) /\ place(b) < place(a)
      BY FindingsAreOrdered, Zenon
    <2>4. ASSUME NEW a \in F
          PROVE  /\ a[1] \in DOMAIN positions /\ a[2] \in DOMAIN zones
                 /\ zones[a[2]].max \in Nat /\ Summary(zones[a[2]]).max = zones[a[2]].max
                 /\ IsZone(zones[a[2]]) /\ positions[a[1]] \in Position /\ Covers(zones[a[2]], positions[a[1]])
      <3>1. a \in Findings(positions, zones)
        BY <2>3
      <3>2. a \in (DOMAIN positions) \X (DOMAIN zones)
        <4> HIDE DEF F, positions, zones
        <4> QED  BY <2>3, <3>1
      <3>3. a[1] \in DOMAIN positions /\ a[2] \in DOMAIN zones
        BY <3>2
      <3>4. Covers(zones[a[2]], positions[a[1]])
        BY <3>1, Zenon DEF Findings
      <3>5. positions[a[1]] \in Position
        BY <3>3
      <3>6. IsZone(zones[a[2]])
        BY <3>3, Zenon DEF AreZones
      <3> QED  BY <3>3, <3>4, <3>5, <3>6 DEF Summary, IsZone
    <2>5. ASSUME NEW i \in DOMAIN told, NEW j \in DOMAIN told, i < j
          PROVE  told[i].max >= told[j].max /\ told[i] # told[j]
      <3>1. PICK a \in F : place(a) = i /\ told[i] = Summary(zones[a[2]])
        BY <2>2, <2>5
      <3>2. PICK b \in F : place(b) = j /\ told[j] = Summary(zones[b[2]])
        BY <2>2, <2>5
      <3>3. i \in Nat /\ j \in Nat
        <4> HIDE DEF told
        <4> QED  BY <2>2, <2>5
      <3> HIDE DEF place
      <3>4. a # b
        BY <2>5, <3>1, <3>2, <3>3
      <3>5. told[i] # told[j]
        BY <3>1, <3>2, <3>4, OneOfAKind, Zenon
      <3>6. Ahead(zones, a, b)
        <4>1. ~(place(b) < place(a))
          BY <2>5, <3>1, <3>2, <3>3
        <4> HIDE DEF F, zones
        <4> QED  BY <2>3, <3>4, <4>1
      <3>7. told[i].max >= told[j].max
        <4>1. zones[a[2]].max >= zones[b[2]].max
          <5>1. zones[a[2]].max \in Nat /\ zones[b[2]].max \in Nat
            BY <2>4
          <5> QED  BY <3>6, <5>1 DEF Ahead
        <4>2. told[i].max = zones[a[2]].max /\ told[j].max = zones[b[2]].max
          BY <2>4, <3>1, <3>2
        <4> QED  BY <4>1, <4>2
      <3> QED  BY <3>5, <3>7
    <2>6. ASSUME NEW z \in DOMAIN zones, NEW i \in 1..Len(positions) - long + 1,
                 \A k \in i..i + long - 1 : IsIn(positions[k], zones[z])
          PROVE  \/ \E j \in DOMAIN told : told[j] = Summary(zones[z])
                 \/ Len(told) = MaxTold /\ \A j \in DOMAIN told : told[j].max >= zones[z].max
      <3>1. PICK k \in i..i + long - 1 : k \in LookedAt(positions)
        BY LongCrossingsAreSeen
      <3>2. k \in DOMAIN positions /\ positions[k] \in Position
        <4>1. k \in DOMAIN positions
          BY <3>1, LongCrossingsAreSeen
        <4> QED  BY <4>1
      <3>3. IsZone(zones[z])
        BY Zenon DEF AreZones
      <3>4. Covers(zones[z], positions[k])
        BY <2>6, <3>1, <3>2, <3>3, CoversIsExact
      <3> QED  BY <3>1, <3>4, ZoneIsTold
    <2>7. ASSUME NEW j \in DOMAIN told
          PROVE  \E z \in DOMAIN zones, k \in DOMAIN positions :
                   told[j] = Summary(zones[z]) /\ ~IsOut(positions[k], zones[z])
      <3>1. PICK a \in F : told[j] = Summary(zones[a[2]])
        BY <2>2, <2>7
      <3>2. ~IsOut(positions[a[1]], zones[a[2]])
        BY <2>4, <3>1, CoversIsExact
      <3> QED  BY <2>4, <3>1, <3>2
    <2> HIDE DEF F, place
    <2> QED  BY <2>1, <2>2, <2>5, <2>6, <2>7 DEF IsToldOf
  <1> QED  BY <1>1, <1>2

-----------------------------------------------------------------------------
(* The climate file in memory and the routes being evaluated.              *)

EvaluationType ==
  [pc : {"stat", "look", "read", "keep", "told", "answered"}, route : Routes, since : Nat, mtime : Nat,
   read : {<<>>} \cup {file.zones : file \in Climates},
   told : {NoClimate} \cup {ClimateTold(route, file.zones) : route \in Routes, file \in Climates},
   speed : Nat, adjusted : Nat, delay : Nat]
ConditionsTypeOK ==
  /\ climateFiles \in Seq(Climates) /\ Len(climateFiles) >= 1
  /\ climate \in [mtime : Nat, zones : {<<>>} \cup {file.zones : file \in Climates}]
  /\ evaluations \in [Evaluation -> {NotAsked} \cup EvaluationType]

(* The zones that the file had once, and what is told of them. *)
ZonesAt(files, v, zones) == files[v].kind = "zones" /\ files[v].zones = zones
ToldAt(files, v, x) ==
  \/ files[v].kind # "zones" /\ x.told = NoClimate
  \/ files[v].kind = "zones" /\ x.told = ClimateTold(x.route, files[v].zones)

(* What is in memory is of a file not older than the mtime kept with it.   *)
MemoryIsPast(files, kept) == kept.mtime # 0 => \E v \in kept.mtime..Len(files) : ZonesAt(files, v, kept.zones)

(* How far an evaluation is, and what it rests on.                         *)
IsUnderWay(files, x) ==
  /\ x.since \in 1..Len(files)
  /\ x.pc \in {"look", "read", "keep"} => x.mtime \in x.since..Len(files)
  /\ x.pc = "keep" => \E v \in x.mtime..Len(files) : ZonesAt(files, v, x.read)
  /\ x.pc \in {"told", "answered"} => \E v \in x.since..Len(files) : ToldAt(files, v, x)
  /\ x.pc = "answered" =>
       /\ x.adjusted = adjusted(x.route.meters, x.route.seconds, x.speed)
       /\ x.delay = delaySeconds(x.route.meters, x.route.seconds, x.speed)

ConditionsInv ==
  /\ ConditionsTypeOK /\ MemoryIsPast(climateFiles, climate)
  /\ \A e \in Evaluation : evaluations[e].pc # "idle" => IsUnderWay(climateFiles, evaluations[e])

(* A file is written after those that were there.                          *)
LEMMA FilesStay ==
  ASSUME NEW files \in Seq(Climates), Len(files) >= 1, NEW file \in Climates
  PROVE  LET more == Append(files, file) IN
         /\ more \in Seq(Climates) /\ Len(more) = Len(files) + 1
         /\ \A v \in 1..Len(files) : more[v] = files[v]
         /\ \A kept : kept.mtime \in Nat /\ MemoryIsPast(files, kept) => MemoryIsPast(more, kept)
         /\ \A x : IsUnderWay(files, x) => IsUnderWay(more, x)
  <1> DEFINE more == Append(files, file)
             n == Len(files)
  <1>1. more \in Seq(Climates) /\ Len(more) = n + 1 /\ n \in Nat /\ \A v \in 1..n : more[v] = files[v]
    OBVIOUS
  <1> HIDE DEF more
  <1>2. \A v \in 1..n : v \in 1..Len(more) /\ (\A zones : ZonesAt(files, v, zones) => ZonesAt(more, v, zones))
                        /\ (\A x : ToldAt(files, v, x) => ToldAt(more, v, x))
    BY <1>1 DEF ZonesAt, ToldAt
  <1>3. \A m \in Nat : \A v \in m..n : v \in m..Len(more) /\ (m >= 1 => v \in 1..n)
    BY <1>1
  <1>4. ASSUME NEW kept, kept.mtime \in Nat, MemoryIsPast(files, kept) PROVE MemoryIsPast(more, kept)
    <2> SUFFICES ASSUME kept.mtime # 0
                 PROVE  \E v \in kept.mtime..Len(more) : ZonesAt(more, v, kept.zones)
      BY DEF MemoryIsPast
    <2>1. PICK v \in kept.mtime..n : ZonesAt(files, v, kept.zones)
      BY <1>4 DEF MemoryIsPast
    <2>2. kept.mtime >= 1
      BY <1>4
    <2>3. v \in kept.mtime..Len(more) /\ v \in 1..n
      BY <1>3, <1>4, <2>1, <2>2
    <2> QED  BY <1>2, <2>1, <2>3
  <1>5. ASSUME NEW x, IsUnderWay(files, x) PROVE IsUnderWay(more, x)
    <2>1. x.since \in 1..n /\ x.since \in Nat /\ x.since >= 1 /\ x.since \in 1..Len(more)
      BY <1>1, <1>5 DEF IsUnderWay
    <2>2. ASSUME x.pc \in {"look", "read", "keep"}
          PROVE  x.mtime \in x.since..Len(more) /\ x.mtime \in Nat /\ x.mtime >= 1
      <3>1. x.mtime \in x.since..n
        BY <1>5, <2>2 DEF IsUnderWay
      <3> QED  BY <1>1, <2>1, <3>1
    <2>3. ASSUME x.pc = "keep" PROVE \E v \in x.mtime..Len(more) : ZonesAt(more, v, x.read)
      <3>1. PICK v \in x.mtime..n : ZonesAt(files, v, x.read)
        BY <1>5, <2>3 DEF IsUnderWay
      <3>2. v \in x.mtime..Len(more) /\ v \in 1..n
        BY <1>3, <2>2, <2>3, <3>1
      <3> QED  BY <1>2, <3>1, <3>2
    <2>4. ASSUME x.pc \in {"told", "answered"} PROVE \E v \in x.since..Len(more) : ToldAt(more, v, x)
      <3>1. PICK v \in x.since..n : ToldAt(files, v, x)
        BY <1>5, <2>4 DEF IsUnderWay
      <3>2. v \in x.since..Len(more) /\ v \in 1..n
        BY <1>3, <2>1, <3>1
      <3> QED  BY <1>2, <3>1, <3>2
    <2> QED  BY <1>5, <2>1, <2>2, <2>3, <2>4 DEF IsUnderWay
  <1> QED  BY <1>1, <1>4, <1>5 DEF more

(* An evaluation that goes on, alone.                                      *)
LEMMA OneGoesOn ==
  ASSUME ConditionsTypeOK, NEW e \in Evaluation, NEW y \in EvaluationType, Evaluates(e, y),
         UNCHANGED climateFiles, climate' \in [mtime : Nat, zones : {<<>>} \cup {file.zones : file \in Climates}],
         ConditionsInv, MemoryIsPast(climateFiles, climate'), IsUnderWay(climateFiles, y)
  PROVE  ConditionsInv'
  <1>1. evaluations' \in [Evaluation -> {NotAsked} \cup EvaluationType]
    BY Zenon DEF ConditionsTypeOK, Evaluates
  <1>2. ConditionsTypeOK'
    BY <1>1 DEF ConditionsTypeOK
  <1>3. ASSUME NEW f \in Evaluation, evaluations'[f].pc # "idle" PROVE IsUnderWay(climateFiles, evaluations'[f])
    <2>1. evaluations'[f] = IF f = e THEN y ELSE evaluations[f]
      BY DEF ConditionsTypeOK, Evaluates
    <2> QED  BY <1>3, <2>1 DEF ConditionsInv
  <1> QED  BY <1>2, <1>3 DEF ConditionsInv

(* What changes as an evaluation goes on.                                  *)
Looks(x, y, n) == y = [x EXCEPT !.pc = "look", !.mtime = n]
Keeps(x, y, zones) == y = [x EXCEPT !.pc = "keep", !.read = zones]
Answers(x, y, speed, late, delay) ==
  y = [x EXCEPT !.pc = "answered", !.speed = speed, !.adjusted = late, !.delay = delay]

LEMMA LooksIs ==
  ASSUME NEW x \in EvaluationType, NEW n \in Nat, NEW y, Looks(x, y, n)
  PROVE  y \in EvaluationType /\ y.pc = "look" /\ y.since = x.since /\ y.mtime = n
  <1> DEFINE Texts == {NoClimate} \cup {ClimateTold(route, file.zones) : route \in Routes, file \in Climates}
             Reads == {<<>>} \cup {file.zones : file \in Climates}
             Type == [pc : {"stat", "look", "read", "keep", "told", "answered"}, route : Routes, since : Nat, mtime : Nat,
                      read : Reads, told : Texts, speed : Nat, adjusted : Nat, delay : Nat]
  <1>1. Type = EvaluationType
    BY DEF EvaluationType
  <1> HIDE DEF Texts, Reads
  <1>2. x \in Type
    BY <1>1
  <1> QED  BY <1>1, <1>2 DEF Looks

LEMMA KeepsIs ==
  ASSUME NEW x \in EvaluationType, NEW zones \in {<<>>} \cup {file.zones : file \in Climates}, NEW y, Keeps(x, y, zones)
  PROVE  y \in EvaluationType /\ y.pc = "keep" /\ y.since = x.since /\ y.mtime = x.mtime /\ y.read = zones
  <1> DEFINE Texts == {NoClimate} \cup {ClimateTold(route, file.zones) : route \in Routes, file \in Climates}
             Reads == {<<>>} \cup {file.zones : file \in Climates}
             Type == [pc : {"stat", "look", "read", "keep", "told", "answered"}, route : Routes, since : Nat, mtime : Nat,
                      read : Reads, told : Texts, speed : Nat, adjusted : Nat, delay : Nat]
  <1>1. Type = EvaluationType
    BY DEF EvaluationType
  <1>2. zones \in Reads
    OBVIOUS
  <1> HIDE DEF Texts, Reads
  <1>3. x \in Type
    BY <1>1
  <1> QED  BY <1>1, <1>2, <1>3 DEF Keeps

LEMMA AnswersIs ==
  ASSUME NEW x \in EvaluationType, NEW speed \in Nat, NEW late \in Nat, NEW delay \in Nat, NEW y,
         Answers(x, y, speed, late, delay)
  PROVE  /\ y \in EvaluationType /\ y.pc = "answered" /\ y.since = x.since /\ y.route = x.route
         /\ y.told = x.told /\ y.speed = speed /\ y.adjusted = late /\ y.delay = delay
  <1> DEFINE Texts == {NoClimate} \cup {ClimateTold(route, file.zones) : route \in Routes, file \in Climates}
             Reads == {<<>>} \cup {file.zones : file \in Climates}
             Type == [pc : {"stat", "look", "read", "keep", "told", "answered"}, route : Routes, since : Nat, mtime : Nat,
                      read : Reads, told : Texts, speed : Nat, adjusted : Nat, delay : Nat]
  <1>1. Type = EvaluationType
    BY DEF EvaluationType
  <1> HIDE DEF Texts, Reads
  <1>2. x \in Type
    BY <1>1
  <1> QED  BY <1>1, <1>2 DEF Answers

(* What an evaluation under way knows. *)
LEMMA UnderWay ==
  ASSUME ConditionsInv, NEW e \in Evaluation, evaluations[e].pc # "idle"
  PROVE  /\ evaluations[e] \in EvaluationType /\ IsUnderWay(climateFiles, evaluations[e])
         /\ Len(climateFiles) \in Nat /\ Len(climateFiles) >= 1 /\ InPlace \in Climates
  <1>1. evaluations[e] \in {NotAsked} \cup EvaluationType /\ NotAsked.pc = "idle"
    BY DEF ConditionsInv, ConditionsTypeOK, NotAsked
  <1>2. climateFiles \in Seq(Climates) /\ Len(climateFiles) >= 1
    BY DEF ConditionsInv, ConditionsTypeOK
  <1>3. InPlace \in Climates
    BY <1>2 DEF InPlace
  <1>4. evaluations[e] # NotAsked
    BY <1>1
  <1>5. IsUnderWay(climateFiles, evaluations[e])
    BY DEF ConditionsInv
  <1> QED  BY <1>1, <1>2, <1>3, <1>4, <1>5

(* What is told of a file since the route was asked about may be answered. *)
LEMMA Telling ==
  ASSUME ConditionsInv, NEW e \in Evaluation, evaluations[e].pc # "idle", UNCHANGED climateFiles,
         climate' \in [mtime : Nat, zones : {<<>>} \cup {file.zones : file \in Climates}], MemoryIsPast(climateFiles, climate'),
         NEW v \in evaluations[e].since..Len(climateFiles), NEW told, Tells(e, told),
         \/ climateFiles[v].kind # "zones" /\ told = NoClimate
         \/ climateFiles[v].kind = "zones" /\ told = ClimateTold(evaluations[e].route, climateFiles[v].zones)
  PROVE  ConditionsInv'
  <1> DEFINE x == evaluations[e]
             y == [x EXCEPT !.pc = "told", !.told = told]
             Texts == {NoClimate} \cup {ClimateTold(route, file.zones) : route \in Routes, file \in Climates}
  <1>1. x \in EvaluationType /\ IsUnderWay(climateFiles, x)
    BY UnderWay
  <1>2. climateFiles[v] \in Climates
    <2>1. climateFiles \in Seq(Climates) /\ v \in 1..Len(climateFiles)
      BY <1>1 DEF ConditionsInv, ConditionsTypeOK, IsUnderWay
    <2> QED  BY <2>1
  <1>3. told \in Texts
    <2>1. x.route \in Routes
      BY <1>1 DEF EvaluationType
    <2> QED  BY <1>2, <2>1
  <1>4. y \in EvaluationType /\ y.since = x.since /\ y.route = x.route /\ y.told = told /\ y.pc = "told"
    <2> HIDE DEF x, Texts
    <2>1. x \in [pc : {"stat", "look", "read", "keep", "told", "answered"}, route : Routes, since : Nat, mtime : Nat,
                 read : {<<>>} \cup {file.zones : file \in Climates}, told : Texts, speed : Nat, adjusted : Nat, delay : Nat]
      BY <1>1 DEF EvaluationType, Texts
    <2>2. y \in [pc : {"stat", "look", "read", "keep", "told", "answered"}, route : Routes, since : Nat, mtime : Nat,
                 read : {<<>>} \cup {file.zones : file \in Climates}, told : Texts, speed : Nat, adjusted : Nat, delay : Nat]
      BY <1>3, <2>1
    <2>3. y.since = x.since /\ y.route = x.route /\ y.told = told /\ y.pc = "told"
      BY <2>1
    <2> QED  BY <2>2, <2>3 DEF EvaluationType, Texts
  <1>5. IsUnderWay(climateFiles, y)
    <2>1. ToldAt(climateFiles, v, y)
      <3> HIDE DEF x, y
      <3> QED  BY <1>4 DEF ToldAt, x
    <2>2. y.since \in 1..Len(climateFiles) /\ v \in y.since..Len(climateFiles)
      <3> HIDE DEF y
      <3> QED  BY <1>1, <1>4 DEF IsUnderWay
    <2> HIDE DEF x, y
    <2> QED  BY <1>4, <2>1, <2>2 DEF IsUnderWay
  <1>6. Evaluates(e, y) /\ ConditionsTypeOK
    BY DEF Tells, ConditionsInv
  <1> HIDE DEF x, y
  <1> QED  BY <1>4, <1>5, <1>6, OneGoesOn

LEMMA Remembered ==
  ASSUME ConditionsInv
  PROVE  climate \in [mtime : Nat, zones : {<<>>} \cup {file.zones : file \in Climates}] /\ MemoryIsPast(climateFiles, climate)
  BY DEF ConditionsInv, ConditionsTypeOK

LEMMA ConditionsStart == ConditionsInit => ConditionsInv
  <1> SUFFICES ASSUME ConditionsInit PROVE ConditionsInv
    OBVIOUS
  <1>1. PICK file \in Climates : climateFiles = <<file>>
    BY DEF ConditionsInit
  <1>2. climateFiles \in Seq(Climates) /\ Len(climateFiles) >= 1
    BY <1>1
  <1>3. /\ climate = [mtime |-> 0, zones |-> <<>>]
        /\ evaluations = [e \in Evaluation |-> NotAsked]
    BY DEF ConditionsInit
  <1>4. climate \in [mtime : Nat, zones : {<<>>} \cup {f.zones : f \in Climates}] /\ climate.mtime = 0
    BY <1>3
  <1>5. evaluations \in [Evaluation -> {NotAsked} \cup EvaluationType]
    BY <1>3
  <1>6. \A e \in Evaluation : evaluations[e].pc = "idle"
    BY <1>3 DEF NotAsked
  <1> QED  BY <1>2, <1>4, <1>5, <1>6 DEF ConditionsInv, ConditionsTypeOK, MemoryIsPast

LEMMA EvaluateRouteKeeps ==
  ASSUME ConditionsInv, NEW e \in Evaluation, NEW route \in Routes, EvaluateRoute(e, route)
  PROVE  ConditionsInv'
  <1> DEFINE y == [pc |-> "stat", route |-> route, since |-> Len(climateFiles), mtime |-> 0, read |-> <<>>,
                   told |-> NoClimate, speed |-> 0, adjusted |-> 0, delay |-> 0]
  <1>1. Evaluates(e, y) /\ UNCHANGED <<climateFiles, climate>>
    BY DEF EvaluateRoute
  <1>2. Len(climateFiles) \in Nat /\ Len(climateFiles) >= 1
    BY DEF ConditionsInv, ConditionsTypeOK
  <1>3. y \in EvaluationType
    <2> DEFINE Texts == {NoClimate} \cup {ClimateTold(r, file.zones) : r \in Routes, file \in Climates}
    <2>1. NoClimate \in Texts
      OBVIOUS
    <2> HIDE DEF Texts
    <2>2. y \in [pc : {"stat", "look", "read", "keep", "told", "answered"}, route : Routes, since : Nat, mtime : Nat,
                 read : {<<>>} \cup {file.zones : file \in Climates}, told : Texts, speed : Nat, adjusted : Nat, delay : Nat]
      BY <1>2, <2>1
    <2> QED  BY <2>2 DEF EvaluationType, Texts
  <1>4. IsUnderWay(climateFiles, y)
    BY <1>2 DEF IsUnderWay
  <1> HIDE DEF y
  <1> QED  BY <1>1, <1>3, <1>4, Remembered, OneGoesOn DEF ConditionsInv

LEMMA StatClimateKeeps ==
  ASSUME ConditionsInv, NEW e \in Evaluation, StatClimate(e)
  PROVE  ConditionsInv'
  <1> DEFINE x == evaluations[e]
             n == Len(climateFiles)
             y == [x EXCEPT !.pc = "look", !.mtime = n]
  <1>1. x.pc = "stat" /\ UNCHANGED <<climateFiles, climate>>
    BY DEF StatClimate
  <1>2. x \in EvaluationType /\ IsUnderWay(climateFiles, x) /\ n \in Nat /\ n >= 1 /\ InPlace \in Climates
    BY <1>1, UnderWay
  <1>3. n \in x.since..n /\ x.since \in 1..n
    BY <1>2 DEF IsUnderWay
  <1>4. CASE InPlace.kind = "missing"
    <2>1. Tells(e, NoClimate) /\ climateFiles[n].kind # "zones"
      BY <1>4 DEF StatClimate, InPlace
    <2> HIDE DEF x
    <2> QED  BY <1>1, <1>3, <2>1, Remembered, Telling DEF x
  <1>5. CASE InPlace.kind # "missing"
    <2>1. Evaluates(e, y)
      BY <1>5 DEF StatClimate
    <2>2. y \in EvaluationType /\ y.pc = "look" /\ y.since = x.since /\ y.mtime = n
      <3>1. Looks(x, y, n)
        BY DEF Looks
      <3> HIDE DEF x, y, n
      <3> QED  BY <1>2, <3>1, LooksIs
    <2> HIDE DEF y, x
    <2>3. IsUnderWay(climateFiles, y)
      BY <1>2, <1>3, <2>2 DEF IsUnderWay
    <2> QED  BY <1>1, <2>1, <2>2, <2>3, Remembered, OneGoesOn DEF ConditionsInv
  <1> QED  BY <1>4, <1>5

LEMMA LookAtClimateKeeps ==
  ASSUME ConditionsInv, NEW e \in Evaluation, LookAtClimate(e)
  PROVE  ConditionsInv'
  <1> DEFINE x == evaluations[e]
             n == Len(climateFiles)
             y == [x EXCEPT !.pc = "read"]
  <1>1. x.pc = "look" /\ UNCHANGED <<climateFiles, climate>>
    BY DEF LookAtClimate
  <1>2. x \in EvaluationType /\ IsUnderWay(climateFiles, x) /\ n \in Nat
    BY <1>1, UnderWay
  <1>3. x.since \in 1..n /\ x.mtime \in x.since..n /\ x.mtime \in Nat /\ x.since \in Nat
    BY <1>1, <1>2 DEF IsUnderWay, EvaluationType
  <1>4. CASE IsKept(x.mtime)
    <2>1. Tells(e, ClimateTold(x.route, climate.zones)) /\ climate.mtime = x.mtime
      BY <1>4 DEF LookAtClimate, IsKept
    <2>2. PICK v \in x.mtime..n : ZonesAt(climateFiles, v, climate.zones)
      BY <1>3, <2>1, Remembered DEF MemoryIsPast
    <2>3. v \in x.since..n
      BY <1>3, <2>2
    <2>4. climateFiles[v].kind = "zones" /\ ClimateTold(x.route, climate.zones) = ClimateTold(x.route, climateFiles[v].zones)
      BY <2>2 DEF ZonesAt
    <2> HIDE DEF x
    <2> QED  BY <1>1, <2>1, <2>3, <2>4, Remembered, Telling DEF x
  <1>5. CASE ~IsKept(x.mtime)
    <2>1. Evaluates(e, y)
      BY <1>5 DEF LookAtClimate
    <2>2. y \in EvaluationType /\ y.pc = "read" /\ y.since = x.since /\ y.mtime = x.mtime
      BY <1>2 DEF EvaluationType
    <2> HIDE DEF y, x
    <2>3. IsUnderWay(climateFiles, y)
      BY <1>2, <1>3, <2>2 DEF IsUnderWay
    <2> QED  BY <1>1, <2>1, <2>2, <2>3, Remembered, OneGoesOn DEF ConditionsInv
  <1> QED  BY <1>4, <1>5

LEMMA ReadClimateKeeps ==
  ASSUME ConditionsInv, NEW e \in Evaluation, ReadClimate(e)
  PROVE  ConditionsInv'
  <1> DEFINE x == evaluations[e]
             n == Len(climateFiles)
             y == [x EXCEPT !.pc = "keep", !.read = InPlace.zones]
  <1>1. x.pc = "read" /\ UNCHANGED <<climateFiles, climate>>
    BY DEF ReadClimate
  <1>2. x \in EvaluationType /\ IsUnderWay(climateFiles, x) /\ n \in Nat /\ InPlace \in Climates
    BY <1>1, UnderWay
  <1>3. x.since \in 1..n /\ x.mtime \in x.since..n /\ n \in x.since..n /\ n \in x.mtime..n
    BY <1>1, <1>2 DEF IsUnderWay
  <1>4. CASE InPlace.kind # "zones"
    <2>1. Tells(e, NoClimate) /\ climateFiles[n].kind # "zones"
      BY <1>4 DEF ReadClimate, InPlace
    <2> HIDE DEF x
    <2> QED  BY <1>1, <1>3, <2>1, Remembered, Telling DEF x
  <1>5. CASE InPlace.kind = "zones"
    <2>1. Evaluates(e, y)
      BY <1>5 DEF ReadClimate
    <2>2. y \in EvaluationType /\ y.pc = "keep" /\ y.since = x.since /\ y.mtime = x.mtime /\ y.read = InPlace.zones
      <3>1. InPlace.zones \in {<<>>} \cup {file.zones : file \in Climates}
        BY <1>2
      <3>2. Keeps(x, y, InPlace.zones)
        BY DEF Keeps
      <3> HIDE DEF x, y
      <3> QED  BY <1>2, <3>1, <3>2, KeepsIs
    <2>3. ZonesAt(climateFiles, n, y.read)
      <3> HIDE DEF y
      <3> QED  BY <1>5, <2>2 DEF ZonesAt, InPlace
    <2> HIDE DEF y, x
    <2>4. IsUnderWay(climateFiles, y)
      BY <1>2, <1>3, <2>2, <2>3 DEF IsUnderWay
    <2> QED  BY <1>1, <2>1, <2>2, <2>4, Remembered, OneGoesOn DEF ConditionsInv
  <1> QED  BY <1>4, <1>5

LEMMA KeepClimateKeeps ==
  ASSUME ConditionsInv, NEW e \in Evaluation, KeepClimate(e)
  PROVE  ConditionsInv'
  <1> DEFINE x == evaluations[e]
             n == Len(climateFiles)
  <1>1. /\ x.pc = "keep" /\ UNCHANGED climateFiles /\ climate' = [mtime |-> x.mtime, zones |-> x.read]
        /\ Tells(e, ClimateTold(x.route, x.read))
    BY DEF KeepClimate
  <1>2. x \in EvaluationType /\ IsUnderWay(climateFiles, x) /\ n \in Nat
    BY <1>1, UnderWay
  <1>3. x.since \in 1..n /\ x.mtime \in x.since..n
    BY <1>1, <1>2 DEF IsUnderWay
  <1>4. PICK v \in x.mtime..n : ZonesAt(climateFiles, v, x.read)
    BY <1>1, <1>2 DEF IsUnderWay
  <1>5. v \in x.since..n /\ climateFiles[v].kind = "zones" /\ climateFiles[v].zones = x.read
    BY <1>3, <1>4 DEF ZonesAt
  <1>6. /\ climate' \in [mtime : Nat, zones : {<<>>} \cup {file.zones : file \in Climates}]
        /\ climate'.mtime = x.mtime /\ climate'.zones = x.read
    <2>1. x.mtime \in Nat /\ x.read \in {<<>>} \cup {file.zones : file \in Climates}
      BY <1>2 DEF EvaluationType
    <2> HIDE DEF x
    <2> QED  BY <1>1, <2>1
  <1>7. MemoryIsPast(climateFiles, climate')
    <2> HIDE DEF x
    <2> QED  BY <1>4, <1>6 DEF MemoryIsPast
  <1>8. ClimateTold(x.route, x.read) = ClimateTold(x.route, climateFiles[v].zones)
    BY <1>5
  <1> HIDE DEF x
  <1> QED  BY <1>1, <1>5, <1>6, <1>7, <1>8, Telling DEF x

LEMMA AnswerConditionsKeeps ==
  ASSUME ConditionsInv, NEW e \in Evaluation, NEW row \in TrafficRows, AnswerConditions(e, row)
  PROVE  ConditionsInv'
  <1> DEFINE x == evaluations[e]
             speed == averageSpeed(row)
             late == adjusted(x.route.meters, x.route.seconds, speed)
             delay == delaySeconds(x.route.meters, x.route.seconds, speed)
             y == [x EXCEPT !.pc = "answered", !.speed = speed, !.adjusted = late, !.delay = delay]
  <1>1. x.pc = "told" /\ Evaluates(e, y) /\ UNCHANGED <<climateFiles, climate>>
    BY DEF AnswerConditions
  <1>2. x \in EvaluationType /\ IsUnderWay(climateFiles, x)
    BY <1>1, UnderWay
  <1>3. speed \in Nat /\ late \in Nat /\ delay \in Nat
    <2>1. speed \in Nat
      BY RouteConditionsAssumption DEF averageSpeed
    <2>2. x.route.meters \in Nat /\ x.route.seconds \in Nat
      BY <1>2, RouteConditionsAssumption DEF EvaluationType
    <2> HIDE DEF x, speed
    <2> QED  BY <2>1, <2>2, SlowerAlwaysLonger
  <1>4. /\ y \in EvaluationType /\ y.pc = "answered" /\ y.since = x.since /\ y.route = x.route /\ y.told = x.told
        /\ y.speed = speed /\ y.adjusted = late /\ y.delay = delay
    <2> HIDE DEF x, speed, late, delay
    <2>1. Answers(x, y, speed, late, delay)
      BY DEF Answers
    <2> HIDE DEF y
    <2> QED  BY <1>2, <1>3, <2>1, AnswersIs
  <1>5. IsUnderWay(climateFiles, y)
    <2>1. PICK v \in x.since..Len(climateFiles) : ToldAt(climateFiles, v, x)
      BY <1>1, <1>2 DEF IsUnderWay
    <2> HIDE DEF y
    <2>2. ToldAt(climateFiles, v, y)
      BY <1>4, <2>1 DEF ToldAt
    <2>3. y.since \in 1..Len(climateFiles) /\ v \in y.since..Len(climateFiles)
      BY <1>2, <1>4, <2>1 DEF IsUnderWay
    <2>4. /\ y.adjusted = adjusted(y.route.meters, y.route.seconds, y.speed)
          /\ y.delay = delaySeconds(y.route.meters, y.route.seconds, y.speed)
      BY <1>4
    <2> QED  BY <1>4, <2>2, <2>3, <2>4 DEF IsUnderWay
  <1> HIDE DEF y
  <1> QED  BY <1>1, <1>4, <1>5, Remembered, OneGoesOn DEF ConditionsInv

LEMMA PublishClimateKeeps ==
  ASSUME ConditionsInv, PublishClimate
  PROVE  ConditionsInv'
  <1>1. PICK file \in Climates : climateFiles' = Append(climateFiles, file)
    BY DEF PublishClimate
  <1>2. UNCHANGED <<climate, evaluations>>
    BY DEF PublishClimate
  <1>3. climateFiles \in Seq(Climates) /\ Len(climateFiles) >= 1 /\ climate.mtime \in Nat
    BY DEF ConditionsInv, ConditionsTypeOK
  <1>4. /\ climateFiles' \in Seq(Climates) /\ Len(climateFiles') >= 1
        /\ MemoryIsPast(climateFiles', climate) /\ \A x : IsUnderWay(climateFiles, x) => IsUnderWay(climateFiles', x)
    <2>1. /\ climateFiles' \in Seq(Climates) /\ Len(climateFiles') = Len(climateFiles) + 1
          /\ MemoryIsPast(climateFiles, climate) => MemoryIsPast(climateFiles', climate)
          /\ \A x : IsUnderWay(climateFiles, x) => IsUnderWay(climateFiles', x)
      BY <1>1, <1>3, FilesStay
    <2>2. Len(climateFiles) \in Nat
      BY <1>3
    <2> QED  BY <1>3, <2>1, <2>2, Remembered
  <1> QED  BY <1>2, <1>4 DEF ConditionsInv, ConditionsTypeOK

LEMMA ConditionsStep == ConditionsInv /\ [ConditionsNext]_conditionVars => ConditionsInv'
  <1> SUFFICES ASSUME ConditionsInv, [ConditionsNext]_conditionVars PROVE ConditionsInv'
    OBVIOUS
  <1>1. ASSUME NEW e \in Evaluation, NEW route \in Routes, EvaluateRoute(e, route) PROVE ConditionsInv'
    BY <1>1, EvaluateRouteKeeps
  <1>2. ASSUME NEW e \in Evaluation, StatClimate(e) PROVE ConditionsInv'
    BY <1>2, StatClimateKeeps
  <1>3. ASSUME NEW e \in Evaluation, LookAtClimate(e) PROVE ConditionsInv'
    BY <1>3, LookAtClimateKeeps
  <1>4. ASSUME NEW e \in Evaluation, ReadClimate(e) PROVE ConditionsInv'
    BY <1>4, ReadClimateKeeps
  <1>5. ASSUME NEW e \in Evaluation, KeepClimate(e) PROVE ConditionsInv'
    BY <1>5, KeepClimateKeeps
  <1>6. ASSUME NEW e \in Evaluation, NEW row \in TrafficRows, AnswerConditions(e, row) PROVE ConditionsInv'
    BY <1>6, AnswerConditionsKeeps
  <1>7. ASSUME UNCHANGED conditionVars PROVE ConditionsInv'
    BY <1>7 DEF conditionVars, ConditionsInv, ConditionsTypeOK
  <1> QED  BY <1>1, <1>2, <1>3, <1>4, <1>5, <1>6, <1>7, PublishClimateKeeps DEF ConditionsNext

LEMMA ConditionsFollow == ConditionsInv => ConditionsAreBounded
  <1> SUFFICES ASSUME ConditionsInv PROVE ConditionsAreBounded
    OBVIOUS
  <1>1. ASSUME NEW e \in Evaluated
        PROVE  LET x == evaluations[e] IN
               /\ x \in EvaluationType /\ x.pc = "answered" /\ IsUnderWay(climateFiles, x)
               /\ x.route \in Routes /\ x.speed \in Nat
               /\ x.route.meters \in Nat /\ x.route.seconds \in Nat /\ x.route.positions \in Seq(Position)
    <2>1. e \in Evaluation /\ evaluations[e].pc = "answered"
      BY DEF Evaluated
    <2>2. evaluations[e] \in EvaluationType /\ IsUnderWay(climateFiles, evaluations[e])
      BY <2>1, UnderWay
    <2>3. evaluations[e].route \in Routes /\ evaluations[e].speed \in Nat
      BY <2>2 DEF EvaluationType
    <2> QED  BY <2>1, <2>2, <2>3, RouteConditionsAssumption
  <1>2. ASSUME NEW e \in Evaluated
        PROVE  LET x == evaluations[e] IN
               /\ x.adjusted = adjusted(x.route.meters, x.route.seconds, x.speed)
               /\ x.delay = delaySeconds(x.route.meters, x.route.seconds, x.speed)
    BY <1>1 DEF IsUnderWay
  <1>3. DelaysAreBounded
    <2>1. ASSUME NEW e \in Evaluated
          PROVE  LET x == evaluations[e] IN
                 /\ x.route.seconds + x.delay = x.adjusted /\ x.delay >= 0
                 /\ 2 * x.adjusted <= 5 * x.route.seconds + 1
      <3> DEFINE x == evaluations[e]
      <3>1. x.speed \in Nat /\ x.route.meters \in Nat /\ x.route.seconds \in Nat
        BY <1>1
      <3>2. x.adjusted = adjusted(x.route.meters, x.route.seconds, x.speed)
            /\ x.delay = delaySeconds(x.route.meters, x.route.seconds, x.speed)
        BY <1>2
      <3> HIDE DEF x
      <3>3. /\ x.delay \in Nat /\ x.route.seconds + x.delay = x.adjusted
            /\ 2 * x.adjusted <= 5 * x.route.seconds + 1
        <4> DEFINE meters == x.route.meters
                   seconds == x.route.seconds
                   speed == x.speed
        <4>1. meters \in Nat /\ seconds \in Nat /\ speed \in Nat
          BY <3>1
        <4>2. x.adjusted = adjusted(meters, seconds, speed) /\ x.delay = delaySeconds(meters, seconds, speed)
          BY <3>2
        <4> HIDE DEF meters, seconds, speed
        <4>3. /\ delaySeconds(meters, seconds, speed) \in Nat
              /\ seconds + delaySeconds(meters, seconds, speed) = adjusted(meters, seconds, speed)
              /\ 2 * adjusted(meters, seconds, speed) <= 5 * seconds + 1
          BY <4>1, SlowerAlwaysLonger
        <4> QED  BY <4>2, <4>3 DEF seconds
      <3> QED  BY <3>3 DEF x
    <2>2. ASSUME NEW e \in Evaluated, NEW f \in Evaluated,
                 evaluations[e].route.meters = evaluations[f].route.meters,
                 evaluations[e].route.seconds = evaluations[f].route.seconds,
                 0 < evaluations[e].speed, evaluations[e].speed <= evaluations[f].speed
          PROVE  evaluations[e].adjusted >= evaluations[f].adjusted
      <3> DEFINE x == evaluations[e]
                 y == evaluations[f]
      <3>1. /\ x.speed \in Nat /\ x.route.meters \in Nat /\ x.route.seconds \in Nat /\ y.speed \in Nat
            /\ x.route.meters = y.route.meters /\ x.route.seconds = y.route.seconds /\ 0 < x.speed /\ x.speed <= y.speed
        BY <1>1, <2>2
      <3>2. /\ x.adjusted = adjusted(x.route.meters, x.route.seconds, x.speed)
            /\ y.adjusted = adjusted(x.route.meters, x.route.seconds, y.speed)
        BY <1>2, <3>1
      <3> HIDE DEF x, y
      <3>3. y.adjusted <= x.adjusted /\ x.adjusted \in Nat /\ y.adjusted \in Nat
        <4> DEFINE meters == x.route.meters
                   seconds == x.route.seconds
                   slow == x.speed
                   fast == y.speed
        <4>1. meters \in Nat /\ seconds \in Nat /\ slow \in Nat /\ fast \in Nat /\ 0 < slow /\ slow <= fast
          BY <3>1
        <4>2. x.adjusted = adjusted(meters, seconds, slow) /\ y.adjusted = adjusted(meters, seconds, fast)
          BY <3>2
        <4> HIDE DEF meters, seconds, slow, fast
        <4>3. /\ adjusted(meters, seconds, fast) <= adjusted(meters, seconds, slow)
              /\ adjusted(meters, seconds, slow) \in Nat /\ adjusted(meters, seconds, fast) \in Nat
          BY <4>1, SlowerAlwaysLonger
        <4> QED  BY <4>2, <4>3
      <3>4. x.adjusted >= y.adjusted
        BY <3>3
      <3> QED  BY <3>4 DEF x, y
    <2> QED  BY <2>1, <2>2 DEF DelaysAreBounded
  <1>4. ASSUME NEW e \in Evaluated
        PROVE  \E v \in evaluations[e].since..Len(climateFiles) :
                 IsToldOf(evaluations[e].route, climateFiles[v], evaluations[e].told)
    <2> DEFINE x == evaluations[e]
    <2>1. PICK v \in x.since..Len(climateFiles) : ToldAt(climateFiles, v, x)
      BY <1>1 DEF IsUnderWay
    <2>2. climateFiles[v] \in Climates
      <3>1. x.since \in 1..Len(climateFiles) /\ climateFiles \in Seq(Climates)
        BY <1>1 DEF IsUnderWay, ConditionsInv, ConditionsTypeOK
      <3>2. v \in 1..Len(climateFiles)
        BY <2>1, <3>1
      <3> QED  BY <3>1, <3>2
    <2>3. CASE climateFiles[v].kind # "zones" /\ x.told = NoClimate
      <3>1. x.told.status = "unavailable"
        BY <2>3 DEF NoClimate
      <3>2. IsToldOf(x.route, climateFiles[v], x.told)
        BY <2>3, <3>1, Zenon DEF IsToldOf
      <3> QED  BY <2>1, <3>2
    <2>4. CASE climateFiles[v].kind = "zones" /\ x.told = ClimateTold(x.route, climateFiles[v].zones)
      <3>1. AreZones(climateFiles[v].zones)
        BY <2>2, RouteConditionsAssumption, Zenon DEF AreZones
      <3>2. x.route.positions \in Seq(Position)
        BY <1>1
      <3>3. IsToldOf(x.route, climateFiles[v], x.told)
        BY <2>4, <3>1, <3>2, ToldOfItsFile
      <3> QED  BY <2>1, <3>3
    <2> QED  BY <2>1, <2>3, <2>4 DEF ToldAt
  <1> QED  BY <1>3, <1>4 DEF ConditionsAreBounded, ClimateIsCurrent

(* For any number of routes and of changes of the climate file while they  *)
(* are evaluated: the delay told is the one added and within its bounds,   *)
(* and the zones told are those of a file in place since the route was     *)
(* asked about, every zone the route stays in among them, the wettest      *)
(* first and none twice (RouteConditionsService).                          *)
THEOREM ConditionsAlwaysBounded == ConditionsSpec => []ConditionsAreBounded
  <1>1. ConditionsSpec => []ConditionsInv
    BY ConditionsStart, ConditionsStep, PTL DEF ConditionsSpec
  <1> QED  BY <1>1, ConditionsFollow, PTL
=============================================================================
