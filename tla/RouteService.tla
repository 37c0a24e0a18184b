----------------------------- MODULE RouteService -----------------------------
(***************************************************************************)
(* Questions about roads on the server: POST /routes/calculate and GET     *)
(* /traffic/flow (CalculateRouteUseCase, TrafficService).  They share the  *)
(* road graph, a file that the pipeline replaces and that is reloaded when *)
(* it changes (ReloadingFile), and a cache that may be out (Redis).  Every *)
(* await is the end of a step: requests interleave there.                  *)
(***************************************************************************)
EXTENDS EngineAnswers, FiniteSets

CONSTANTS
  Caller,            \* requests under way at a time
  MaxQuestion,       \* bound: questions asked
  MaxVersion,        \* bound: times the pipeline writes the graph
  Unreadable,        \* versions that cannot be loaded
  MaxHour,           \* bound: hours that pass
  Roads,             \* of each version: the road that each of its edges is
  Report,               \* records: id, trip, road, speed (km/h), hour
  MIN_SAMPLES, MIN_TRIPS, MIN_TYPICAL_TRIPS,
  FreeFlow           \* speed('CAR', edge) of a road

ASSUME RouteServiceAssumption ==
  /\ {MaxQuestion, MaxHour, MIN_SAMPLES, MIN_TRIPS, MIN_TYPICAL_TRIPS} \subseteq Nat
  /\ MaxVersion \in Nat \ {0} /\ 1..MaxVersion \subseteq DOMAIN Roads
  /\ \A v \in DOMAIN Roads : \A d, e \in DOMAIN Roads[v] :
       Roads[v][d] # "nowhere" /\ (Roads[v][d] = Roads[v][e] => d = e)
  /\ IsFiniteSet(Report)

VARIABLES
  engine,       \* ROUTING_PROVIDER
  graphFile,    \* the version of the file; 0 before the pipeline wrote it
  graphStore,   \* value, version: of the copy in memory; loading: the load under way
  redisUp,
  routeCache,   \* route:v1 of one question: by data version, the graph it was made on
  typicalCache, \* traffic:v2:typical, by hour
  flowCache,    \* traffic:v2:flow
  calls,        \* of each caller
  questions, hour

serviceVars == <<engine, graphFile, graphStore, redisUp, routeCache, typicalCache, flowCache, calls, questions, hour>>

NoValue == <<>>   \* anything cached is in a sequence of one
NoLoad == [label |-> 0, read |-> 0]
Quiet == [pc |-> "idle", op |-> "none", key |-> 0, seen |-> 0, graph |-> 0,
          live |-> {}, typical |-> {}, answer |-> 0]
Replied(status) == [Quiet EXCEPT !.answer = status]
Continue(c, call) == calls' = [calls EXCEPT ![c] = call]
Moves(c, pc) == Continue(c, [calls[c] EXCEPT !.pc = pc])

(* RedisCacheProvider: a read while it is out is a miss, a write is lost. *)
Cached(entry) == IF redisUp THEN entry ELSE NoValue
Kept(entry, value) == IF redisUp THEN value ELSE entry

-----------------------------------------------------------------------------
(* Traffic (edgeSpeeds, flow). *)

(* nearestEdges: the edge of the graph for the road a fix is on, if any. *)
Matched(graph, fix) == {e \in DOMAIN Roads[graph] : Roads[graph][e] = fix.road}
Slower(a, b) == a.speed < b.speed \/ (a.speed = b.speed /\ a.id < b.id)
FixesAsTripsMutant(graph, fixes, minTrips) ==
  LET Of(e) == {f \in fixes : e \in Matched(graph, f)}
      sorted(e) == SetToSortSeq(Of(e), Slower) IN
  {[edge |-> e, median |-> sorted(e)[Cardinality(Of(e)) \div 2 + 1].speed, graph |-> graph] :
     e \in {d \in DOMAIN Roads[graph] : Cardinality(Of(d)) >= MIN_SAMPLES /\ Cardinality(Of(d)) >= minTrips}}
edgeSpeeds(graph, fixes, minTrips) ==
  LET Of(e) == {f \in fixes : e \in Matched(graph, f)}
      Trips(e) == {f.trip : f \in Of(e)}
      sorted(e) == SetToSortSeq(Of(e), Slower) IN
  {[edge |-> e, median |-> sorted(e)[Cardinality(Of(e)) \div 2 + 1].speed, graph |-> graph] :
     e \in {d \in DOMAIN Roads[graph] : Cardinality(Of(d)) >= MIN_SAMPLES /\ Cardinality(Trips(d)) >= minTrips}}

(* liveFixes are those of this hour; typical ones are of earlier days, at  *)
(* this hour or one beside it.                                             *)
liveFixes == {f \in Report : f.day = "today" /\ f.hour = hour}
typicalFixes == {f \in Report : f.day = "earlier" /\ f.hour - hour \in {-1, 0, 1}}

trafficStatus(percent) ==
  IF percent >= 75 THEN "free" ELSE IF percent >= 50 THEN "moderate" ELSE IF percent >= 25 THEN "slow" ELSE "jammed"
Feature(graph, s, source) ==
  LET known == s.edge \in DOMAIN Roads[graph]
      road == IF known THEN Roads[graph][s.edge] ELSE "nowhere" IN
  [road |-> road, source |-> source, graph |-> graph, of |-> s.graph, median |-> s.median,
   status |-> trafficStatus(IF known THEN (s.median * 100) \div FreeFlow[road] ELSE 100)]
Features(graph, live, typical) ==
  LET measured == {s.edge : s \in live} IN
  {Feature(graph, s, "live") : s \in live}
    \cup {Feature(graph, s, "typical") : s \in {t \in typical : t.edge \notin measured}}

-----------------------------------------------------------------------------
(* ReloadingFile. *)

(* The pipeline replaces the file, which has a new mtime. *)
Publish ==
  /\ graphFile < MaxVersion
  /\ graphFile' = graphFile + 1
  /\ UNCHANGED <<engine, graphStore, redisUp, routeCache, typicalCache, flowCache, calls, questions, hour>>

(* Without a graph a route is refused as unavailable; a flow just fails. *)
NoGraph(op) == Replied(IF op = "route" THEN 503 ELSE 500)

(* get: the stat. *)
Stat(c) ==
  /\ calls[c].pc = "stat"
  /\ IF graphFile = 0 THEN Continue(c, NoGraph(calls[c].op))
     ELSE Continue(c, [calls[c] EXCEPT !.pc = "get", !.seen = graphFile])
  /\ UNCHANGED <<engine, graphFile, graphStore, redisUp, routeCache, typicalCache, flowCache, questions, hour>>

Asked(call) == IF call.op = "route" THEN "store" ELSE "live"
(* get: the copy in memory, or the load under way, or a new one. *)
Get(c) ==
  /\ calls[c].pc = "get"
  /\ IF graphStore.value # 0 /\ calls[c].seen = graphStore.version
     THEN /\ Continue(c, [calls[c] EXCEPT !.pc = Asked(calls[c]), !.graph = graphStore.value])
          /\ UNCHANGED graphStore
     ELSE /\ Moves(c, "loading")
          /\ graphStore' = IF graphStore.loading # NoLoad THEN graphStore
                           ELSE [graphStore EXCEPT !.loading = [label |-> calls[c].seen, read |-> 0]]
  /\ UNCHANGED <<engine, graphFile, redisUp, routeCache, typicalCache, flowCache, questions, hour>>

ReadFile ==
  /\ graphStore.loading # NoLoad /\ graphStore.loading.read = 0
  /\ graphStore' = [graphStore EXCEPT !.loading.read = graphFile]
  /\ UNCHANGED <<engine, graphFile, redisUp, routeCache, typicalCache, flowCache, calls, questions, hour>>

(* The load ends for all who wait for it: with the new copy, with the one  *)
(* before when the file cannot be loaded, or in an error.                  *)
Loaded(label, value) == [value |-> value, version |-> label, loading |-> NoLoad]
StatAfterMutant(label, value) == [value |-> value, version |-> graphFile, loading |-> NoLoad]
Labelled(label, value) == Loaded(label, value)
FirstOnlyMutant(waiting) == {CHOOSE c \in waiting : TRUE}
Resumed(waiting) == waiting
EndLoad ==
  LET load == graphStore.loading
      fails == load.read \in Unreadable
      value == IF fails THEN graphStore.value ELSE load.read
      waiting == {c \in Caller : calls[c].pc = "loading"} IN
  /\ load # NoLoad /\ load.read # 0
  /\ graphStore' = IF fails THEN [graphStore EXCEPT !.loading = NoLoad] ELSE Labelled(load.label, value)
  /\ calls' = [c \in Caller |->
       IF c \notin Resumed(waiting) THEN calls[c]
       ELSE IF value = 0 THEN NoGraph(calls[c].op)
       ELSE [calls[c] EXCEPT !.pc = Asked(calls[c]), !.graph = value]]
  /\ UNCHANGED <<engine, graphFile, redisUp, routeCache, typicalCache, flowCache, questions, hour>>

-----------------------------------------------------------------------------
(* CalculateRouteUseCase.execute.  The native provider has a data version; *)
(* Valhalla and OSRM have none, and their routes are kept under one key.   *)

AskQuestion(c, op) ==
  /\ calls[c].pc = "idle" /\ questions < MaxQuestion
  /\ questions' = questions + 1
  /\ Continue(c, [Quiet EXCEPT !.op = op, !.pc = IF op = "route" THEN "fingerprint" ELSE "lookup"])
  /\ UNCHANGED <<engine, graphFile, graphStore, redisUp, routeCache, typicalCache, flowCache, hour>>

Fingerprint(c) ==
  /\ calls[c].pc = "fingerprint"
  /\ Continue(c, [calls[c] EXCEPT !.pc = "lookup", !.key = IF engine = "native" THEN graphFile ELSE 0])
  /\ UNCHANGED <<engine, graphFile, graphStore, redisUp, routeCache, typicalCache, flowCache, questions, hour>>

(* calculateWithCache, and the same for a flow. *)
Lookup(c) ==
  LET entry == IF calls[c].op = "route" THEN routeCache[calls[c].key] ELSE flowCache IN
  /\ calls[c].pc = "lookup"
  /\ IF Cached(entry) # NoValue THEN Continue(c, Replied(200))
     ELSE Moves(c, IF calls[c].op = "route" /\ engine # "native" THEN "engine" ELSE "stat")
  /\ UNCHANGED <<engine, graphFile, graphStore, redisUp, routeCache, typicalCache, flowCache, questions, hour>>

StoreRoute(c) ==
  /\ calls[c].pc = "store"
  /\ routeCache' = [routeCache EXCEPT ![calls[c].key] = Kept(@, <<calls[c].graph>>)]
  /\ Continue(c, Replied(200))
  /\ UNCHANGED <<engine, graphFile, graphStore, redisUp, typicalCache, flowCache, questions, hour>>

(* An engine of its own process answers, or fails, from the data it has. *)
CallEngine(c) ==
  /\ calls[c].pc = "engine"
  /\ \E outcome \in Outcome :
       LET answer == callProvider(mapError(outcome)) IN
       Continue(c, IF outcome = "ok" THEN [calls[c] EXCEPT !.pc = "store", !.graph = graphFile]
             ELSE Replied(answer.status))
  /\ UNCHANGED <<engine, graphFile, graphStore, redisUp, routeCache, typicalCache, flowCache, questions, hour>>

-----------------------------------------------------------------------------
(* TrafficService.flow, once it has its graph. *)

ReadLive(c) ==
  /\ calls[c].pc = "live"
  /\ Continue(c, [calls[c] EXCEPT !.pc = "typical", !.live = edgeSpeeds(calls[c].graph, liveFixes, MIN_TRIPS)])
  /\ UNCHANGED <<engine, graphFile, graphStore, redisUp, routeCache, typicalCache, flowCache, questions, hour>>

(* Typical speeds are kept by edge, for 15 minutes. *)
Typical(c) ==
  LET entry == Cached(typicalCache[hour])
      speeds == IF entry # NoValue THEN entry[1]
                ELSE edgeSpeeds(calls[c].graph, typicalFixes, MIN_TYPICAL_TRIPS) IN
  /\ calls[c].pc = "typical"
  /\ typicalCache' = IF entry # NoValue THEN typicalCache
                     ELSE [typicalCache EXCEPT ![hour] = Kept(@, <<speeds>>)]
  /\ Continue(c, [calls[c] EXCEPT !.pc = "publish", !.typical = speeds])
  /\ UNCHANGED <<engine, graphFile, graphStore, redisUp, routeCache, flowCache, questions, hour>>

PublishFlow(c) ==
  /\ calls[c].pc = "publish"
  /\ flowCache' = Kept(flowCache, <<Features(calls[c].graph, calls[c].live, calls[c].typical)>>)
  /\ Continue(c, Replied(200))
  /\ UNCHANGED <<engine, graphFile, graphStore, redisUp, routeCache, typicalCache, questions, hour>>

-----------------------------------------------------------------------------
(* Time: the hour, the expiry of what is cached, Redis going and coming.   *)
NextHour ==
  /\ hour < MaxHour
  /\ hour' = hour + 1
  /\ UNCHANGED <<engine, graphFile, graphStore, redisUp, routeCache, typicalCache, flowCache, calls, questions>>
ExpireRoute ==
  /\ \E v \in DOMAIN routeCache : routeCache' = [routeCache EXCEPT ![v] = NoValue]
  /\ UNCHANGED <<engine, graphFile, graphStore, redisUp, typicalCache, flowCache, calls, questions, hour>>
ExpireTraffic ==
  /\ flowCache' = NoValue
  /\ \E h \in DOMAIN typicalCache : typicalCache' \in {typicalCache, [typicalCache EXCEPT ![h] = NoValue]}
  /\ UNCHANGED <<engine, graphFile, graphStore, redisUp, routeCache, calls, questions, hour>>
Redis ==
  /\ redisUp' = ~redisUp
  /\ UNCHANGED <<engine, graphFile, graphStore, routeCache, typicalCache, flowCache, calls, questions, hour>>

ServiceInit ==
  /\ engine \in {"native", "valhalla"}
  /\ graphFile \in {0, 1}
  /\ graphStore = [value |-> 0, version |-> 0, loading |-> NoLoad]
  /\ redisUp = TRUE
  /\ routeCache = [v \in 0..MaxVersion |-> NoValue]
  /\ typicalCache = [h \in 0..MaxHour |-> NoValue]
  /\ flowCache = NoValue
  /\ calls = [c \in Caller |-> Quiet]
  /\ questions = 0 /\ hour = 0

ServiceNext ==
  \/ \E c \in Caller : \/ \E op \in {"route", "flow"} : AskQuestion(c, op)
                       \/ Fingerprint(c) \/ Lookup(c) \/ Stat(c) \/ Get(c) \/ CallEngine(c)
                       \/ StoreRoute(c) \/ ReadLive(c) \/ Typical(c) \/ PublishFlow(c)
  \/ ReadFile \/ EndLoad \/ Publish \/ NextHour \/ ExpireRoute \/ ExpireTraffic \/ Redis

ServiceSpec == ServiceInit /\ [][ServiceNext]_serviceVars

-----------------------------------------------------------------------------
(* Properties. *)

(* The copy in memory passes for that of the file on disk only when it is: *)
(* a file replaced while it was being read is read again (get).            *)
StoreIsCurrent ==
  graphStore.value # 0 /\ graphStore.version = graphFile => graphStore.value = graphFile

(* Nobody waits for a load that is not under way: who joins a load that    *)
(* fails, or that another request started, goes on when it ends (get).     *)
NobodyIsForgotten == \A c \in Caller : calls[c].pc = "loading" => graphStore.loading # NoLoad

(* A store never labels a graph with a newer version than its content, and *)
(* answers every caller that waits for a load, also for one that fails.    *)
StoresServeEveryone == StoreIsCurrent /\ NobodyIsForgotten

(* A road is coloured once, from enough fixes of enough trips on it, those *)
(* of this hour before the typical ones, when the speeds are of the graph  *)
(* that is drawn (edgeSpeeds, flow).                                       *)
Backed(f, fixes, minTrips) ==
  LET of == {x \in fixes : x.road = f.road} IN
  Cardinality(of) >= MIN_SAMPLES /\ Cardinality({x.trip : x \in of}) >= minTrips
BackedAsTold(f) ==
  IF f.source = "live" THEN Backed(f, {x \in Report : x.day = "today"}, MIN_TRIPS)
  ELSE Backed(f, {x \in Report : x.day = "earlier"}, MIN_TYPICAL_TRIPS)
TrafficIsBacked ==
  flowCache # NoValue =>
    /\ \A f \in flowCache[1] : f.of = f.graph => BackedAsTold(f)
    /\ \A f, g \in flowCache[1] : f.road = g.road /\ f.road # "nowhere" => f = g

(* "A road segment only gets a traffic colour when enough fixes from       *)
(* different trips were matched to it" (TrafficService).                   *)
ColoursAreOfTheirRoad == flowCache # NoValue => \A f \in flowCache[1] : BackedAsTold(f)
=============================================================================
