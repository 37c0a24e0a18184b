# Route Maps: formal models

TLA+ models of the Route Maps platform (NestJS API with its native routing and search, Flutter app,
web map, data publication), checked with TLC and proved with TLAPS. The code is the reference:
`PROJECT.json` names, under `map`, the lines every definition stands for, and under `hazards` what is
hard to test in this code and which property covers it.

1. The system · 2. Modules · 3. State and code · 4. What TLC checks · 5. Where the code and its
comments differ · 6. What is proved · 7. Not modelled

## 1. The system

| Component | State it keeps | Operations | Hard behaviours | Module |
|---|---|---|---|---|
| Queue and rounds of the phone (`sync_service.dart`, `sync_queue_store.dart`) | `sync_queue`, the running round and its batch | enqueue, synchronize, retryFailed | killed anywhere, lost answers, backoff, account changes in a round, refusals of a whole request | `SyncQueue`, `SyncSystem` |
| Push API (`synchronization.service.ts`, `sync-handlers.ts`) | `synchronization_events`, rows of every entity | read events, dispatch, record | overlapping requests, crash between dispatch and record | `SyncServer`, `SyncHandlers` |
| Pull API, change feed, saved routes (`prisma-route.repository.ts`, `saved-routes.service.ts`) | `routes`, `route_tombstones`, the cursor of the phone | upsert, delete, pull, applyRemote | commits later than their timestamp, two tables for one route, local deletes not sent | `RouteFeed` |
| Trips and tracking (`trips.service.ts`, `tracking.service.ts`) | `trips`, `trip_points` | start, finish, cancel, recordBatch, path | look up, write, measure in a statement each, late fixes | `TripRecords`; as handlers of a push, `SyncHandlers` |
| Authentication and session (`auth.service.ts`, `refresh-token.repository.ts`, `auth_interceptor.dart`) | `refresh_tokens`, the session stored on the phone | register, login, refresh, logout | one token presented twice, lost answers, refresh against logout | `Accounts` |
| Geofences (`geofences.service.ts`) | one row per fence | create, update, delete | partial updates that overlap | `Geofences` |
| Region catalog and publication (`map-region.service.ts`, `publish-region.sh`) | `map_regions`, files, manifests | publish, syncFromStorage, enable | files swapped under readers, two processes registering | `RegionCatalog`, `RegionRules` |
| Region downloads (`region-download.service.ts`, `region_download_manager.dart`) | `.part` files, `region_downloads`, `downloaded_regions` | download, stop, resume, verify, register, delete | replaced files, kills between file and row | `RegionDownload` |
| Native engine (`native-graph.ts`, `native-router.ts`) | a loaded graph, arrays shared by searches | load, nearest edges, snap, leg, alternatives, steps | stale labels, pieces of edges, islands | `NativeGraph`, `NativeRouter`, `NativeResult` |
| Other engines (`valhalla…`, `osrm…`) | none | decode, steps | indices across legs | `EngineAnswers` |
| Conditions of a route (`route-conditions.service.ts`) | the climate file in memory with its mtime | evaluate: delay, rain along the route | file replaced between stat and read, positions skipped, limits | `RouteConditions` |
| Routing and traffic services (`calculate-route.use-case.ts`, `traffic.service.ts`, `native-graph.store.ts`, `redis-cache.provider.ts`) | the loaded graph and its version, cached answers | calculate, flow | file replaced while it loads, cache keys, Redis out | `RouteService` |
| Geocoding (`geocoding.service.ts`, `composite-geocoding.provider.ts`, `world-place-index.ts`, `native-search.ts`) | the index of the world, kept answers | search, reverse | partial answers, a file that cannot be read for a while | `Geocoding`, `NativeSearch`, `PlaceAnswers` |
| Web map (`viewer.js`, `sdk/map-style.js`) | stops, markers, search boxes, layers, requests under way | gestures, answers, switches | answers late, out of order or never | `ViewerDirections`, `ViewerSearch`, `MapTraffic`, `MapStyle` |

The phone pushes its queue and then pulls the feed; both ends meet in the rows of trips and routes.
The pipeline writes files that the catalog, the engine and the searches read while it replaces them.
The services read the same graph through one store and one cache. The web map asks the same API and
shares with the SDK the style and the traffic layer.

Connectivity, the trip recorder, the phone's screens, offline routing, the service worker, the SDK's
`createMap` and the data tools are listed in `PROJECT.json` with the reason they are left out.

## 2. Modules

| Module | Models |
|---|---|
| `SyncTypes`, `SyncQueue`, `SyncHandlers`, `SyncServer`, `SyncSystem` | names, the phone's queue and round, what one operation does, push requests, and their composition with user, clock, network and crashes |
| `Delivery` | the promise of an outbox in four states and five actions; `SyncSystem` implements it |
| `SyncProperties`, `MCSyncSystem` | properties, refinement mapping and fairness of synchronization; its instances |
| `Accounts` | rotation of refresh tokens statement by statement, and the phone's session |
| `RouteFeed` | transactions with the time they began, the feed and the phone that follows it |
| `TripRecords`, `Geofences` | a trip with its fixes, and a fence, under overlapping requests |
| `MCServer` | instance of the four modules above and of `MCRoads` |
| `RegionCatalog`, `RegionRules`, `RegionDownload`, `RegionProperties`, `MCRegions` | publication and registration; ranges and versions; server and phone of a download; what must hold; scenes |
| `NativeGraph`, `NativeRouter`, `NativeResult` | loading, search, answer of the native engine; each extends the one before |
| `EngineAnswers`, `RouteConditions`, `RouteService` | answers of Valhalla and OSRM; the delay and the rain told of a route while the climate file is replaced; the cached services with the store of graphs |
| `NativeSearch`, `PlaceAnswers`, `Geocoding` | the word index; crossings, taps and the merge of two sources; searches while sources fail and files are replaced |
| `MCRoads` | networks, questions and files for the nine modules above; run by `MCServer` |
| `ViewerDirections`, `ViewerSearch`, `MapTraffic`, `MapStyle`, `MCViewer` | the web map, one module per part of the page that shares no state with the others; their instance |
| `SyncProofs`, `ConvergenceProofs` | theorems about `SyncSystem`: types, what a completion means, rounds, refinement of `Delivery`; then what relates the queue to the rows of the server |
| `ServerProofs`, `RegionProofs`, `ServiceProofs`, `RouterProofs`, `ViewerProofs`, `StyleProofs` | theorems about the modules they are named after; `ServerProofs` is about `Accounts`, `RouteFeed`, `TripRecords` and `Geofences`, `ServiceProofs` about `RouteConditions`, `Geocoding` and `RouteService`, `RouterProofs` about `NativeRouter`, `ViewerProofs` about `ViewerDirections`, `ViewerSearch` and `MapTraffic`, `StyleProofs` about `MapStyle` |

`MCServer` and `MCViewer` run components that share no variable: a behaviour picks one (`part`) and
the others keep their initial state. This asks the same as one run per component.

## 3. State and code

An await, a database statement or a turn of the event loop ends a step; what the code does between
two of them is one action.

**Synchronization.** `row[o]` is a row of `sync_queue`; `o` is the rowid, the order of the queue, and
stands for the UUID that is the idempotency key. `waiting` says that `nextAttemptAt` is in the
future; `retries` stops at `MaxAttempts` since it is only compared with it. `pc` is the place of the
round between two awaits; `acct`, `batch`, `oneByOne`, `answer`, `done` and `blocked` are the locals
of `_push`, and the writes after each result are steps of their own. `session` may change at any
step; a request takes the session of the moment it leaves. `req[s]` is a request at the server,
`seen` the events read at its start; `dispatch` and `record` are steps apart. The handler of a route
is one transaction, hence one step (`Dispatch`). The handlers of a trip have none: they look the trip up
(`LookUpTrip`; `found` is the status they saw), write (`WriteTrip`, whatever became of the trip since) and
may measure it (`MeasureTrip`), each a statement; two creations that both found nothing clash in the
primary key (`CreationClashes`). `applied`, `reinstated` and `unmeasured` are history variables; the last
are the trips whose distance a handler should have measured and did not: it was cut off before
(`Abandoned`), or a finish came between its look-up and its insertion of fixes (`Overtaken`). A round may
start whenever none runs and there is a session: the triggers only decide when. `Fault` names what the
server suffers in an instance: `dispatch` (a handler fails before any of its statements; the effect of
those it ran stays), `record` (the event cannot be written), `outage` (the whole request fails, or the proxy answers
504 while it runs), `crash` (between any two statements). After the last result, `markCompleted` and
`release` are one step (`BatchOver`): `push` answers for every operation of its batch or not at all, so
the second has nothing to write. The attempts of a request that failed as a whole are written one by one
(`RetryNext`). `Refused` operations make the
API refuse their request (400, 413); `Invalid` ones fail validation. Always possible: the answer does
not arrive (`GiveUp`), and the app is killed (`KillApp`).

**Accounts.** `token` is `refresh_tokens`; `login` is the token a row descends from, which the table
does not have: it is what the property is about. A slot of `req` is a request with the step it is at:
the phone's `enter` and `renew`, and a repetition of a refresh by the network. `Claim` is the
conditional `UPDATE` of `rotate`, which waits for a row another transaction changed (`Locked`) and
then sees it as committed. `disturbed` is history: accounts whose tokens were presented out of turn.

**RouteFeed.** `tx` is a transaction with `now()`, the clock at which it began, and the statements it has
left; its changes are seen when it commits. It is open for at most `Longest` ticks. Prisma ends interactive
transactions after 5 s, which is the overlap of the cursor (`sync_service.dart:84-86`), hence the
assumption `Longest <= Overlap`; the instance has them equal, the boundary case. A pull reads pages by
timestamp and id; a page is the set of the changes it brings, since each is applied to a route of its own.

**TripRecords.** `measured` are the fixes that `distance_meters` counts; `missed` is history: fixes
stored by a request that had found the trip ACTIVE when another closed it, or that was cut before it
measured. `ask[c]` is a request with what it read. **Geofences.** `edit[e]` is an update between its read and its write; circle and polygon are
the columns, `area` the geography PostGIS derives.

**Regions.** A build is one output of the pipeline and stands for its SHA-256; a file on the phone is
the sequence of builds its chunks come from, so a mixed file is told from a whole one. `publisher` is
`publish-region.sh` step by step, stopped at any of them; `job[p]` a process of `syncFromStorage`
between stat, hash and upsert. On the phone, `run` is the download with its place, `part`, `target`,
`task` and `reg` the files and rows; killing the app keeps the last four. The conditional GET and
`X-Accel-Redirect` are abstracted to which file is served.

**Roads.** A graph is a record of arrays; distances are along the longer axis of a grid, where rounding
coordinates to six decimals changes nothing. Pieces of edges without length are dropped, and a line of
fewer than two points is told as two after its steps were made (`Drawn`). An A* search
is one step, because JavaScript runs it to its end, and the stamped arrays are state because one
search leaves them to the next. In `RouteService`, `RouteConditions` and `Geocoding` each await is a step; a version is
the modification time of a file, and a cached answer is told by the versions of the data in it. The
pipeline (`Publish`, `WritePlaces`, `ReplaceDetail`, `PublishClimate`), Redis and the availability of providers are
external.

**Web map.** A point is a spot with the number of the object, since the code compares identities. A
request is in a set until it is answered, in any order; `newest` marks the one that still equals the
counter. Answers carry what was asked, so that a wrong one shows. In `MapStyle` paint is whose it is.

## 4. What TLC checks

Every property has a mutant of the code, listed in `PROJECT.json`, that breaks it under the same
configuration. Properties with several conjuncts have a mutant for the main ones.

| Run | Question | Shows |
|---|---|---|
| `SyncTrips` | a trip with points, finished or cancelled, under `dispatch`, `record`, `crash` and a killed app | `SystemTypeOK`; every SYNCING row is in hand (`SyncingIsInBatch`); nothing overtakes a waiting operation (`NothingOvertakes`); completed operations leave the trip the phone recorded, its status and its fixes (`TripConverged`); the distance of a finished trip counts all of them unless a handler was cut off before it measured (`DistanceKept`); points are not set aside because their trip is late (`CausalFailure`) |
| `SyncDistance` | a finished trip has its distance, also when a handler failed half-way | a violation, section 5 |
| `SyncRoutes` | saves and deletes under `outage`, `crash` | the server has the route iff the phone kept it (`RouteConverged`) |
| `SyncOverlap` | two requests at once, routes and trip creations, an invalid payload, `record`, `crash`, retries by the user; the handlers of both requests interleave statement by statement | the system implements `Delivery` (`ImplementsDelivery`); every success known anywhere is backed by a dispatch (`SuccessIsBacked`), so completed means applied (`CompletedWasApplied`) |
| `SyncLive` | one operation that makes the API refuse its request, handlers that may fail forever, two accounts that log in and out at any step | only the offender is refused (`OnlyOffenderRefused`); a round keeps to its account (`RoundKeepsToItsAccount`); every operation is completed or set aside (`EveryOpSettles`); a round ends (`RoundEnds`) |
| `Server` | four kinds of rows under overlapping requests; the engine against reference definitions; services while files are replaced | see below |
| `FeedCut` | pulls that are cut off after the last page they may read | a violation, section 5 |
| `Regions` | builds published over those being served and downloaded | see below |
| `Viewer` | the web map while answers are late, out of order or missing | see below |

`Server`, records: `OneLivePerLogin`, one refresh token that works per login; `SessionLasts`, the server ends a
session only after its tokens were presented out of turn; `NeverInBothTables`, a route is not both
saved and deleted; `FeedIsFollowed`, a pull that reached its last page leaves the phone with the
routes of the server (with pages enough for every pull; `FeedCut` has one page too few), and no page
ever brings back a route whose deletion is not sent yet (`DeletionsStay`); `TracksAreWhole`, the distance
covers the stored fixes (`DistanceCoversTrack`; fixes that an interleaving or a cut left unmeasured are
exempt through `missed`, as the code does not measure again) and a thinned track keeps both ends (`PathKeepsEnds`, for up to a dozen fixes); `FenceIsWhole`, the
area is that of the shape.

`Regions`: `RowIsOfItsFiles`, once a publication ended and nobody registers, the row describes the
files in place (`RowDescribesFiles`), and at no time is its checksum that of a build of another
version (`VersionIsThatOfItsFile`); `RegisteredIsWhole`, what the phone registered is one whole build of
the region asked for, also when the region is withdrawn while it downloads (scene `withdraw`);
`RangesAndVersions`, `Range` headers name the bytes of RFC 9110 (`RangesAreNamed`) and updates never
go back (`UpdatesGoForward`); `DownloadEnds`, liveness.

`Server`, roads: `GraphIndexIsExact` (`AdjacencyHolds`, `ComponentsHold`, `NearestHold`, `SnapsHold`): the
indexes answer as a look at all edges would. `LegsAreRight` has three parts. `LegIsFastest`: a leg costs the least of all the walks
that lead to its goal, after any searches used the same arrays, also when the stamp wraps.
`LegIsAWalk`: the pieces rebuilt join, and last as long as the search said. The search counts the
junction at the end of a whole edge, the duration also the one at the end of the first piece, hence
the tolerance of one `Delay`; and a goal on a loop is rebuilt as entered at `u`, whichever of its
tails was the shorter (`native-router.ts:257-262`), so its duration may be the other tail's.
`AlternativesDiffer`: at most as many as asked for, none much slower, no two alike.
`StepsAreOfTheRoute`: steps tile the line of the route and their lengths add up to its own
(`StepsTileTheRoute`; one segment is of no step where the legs of a stop were snapped to two places, and
the steps of a line of one point stay on its first vertex; a route whose first leg has no pieces is left
out, see section 5), the geometry told has at least two different points, turns mirror, encoded
shapes decode or are refused, manoeuvres of Valhalla and steps of OSRM keep their points.
`ConditionsAreBounded`: the delay told is the one added, the whole two and a half times the duration at
most, and slower traffic never shortens it (`DelaysAreBounded`); the zones told are those of a file
in place since the route was asked about (`ClimateIsCurrent`), which tells every zone that the route
stays in for as long as two looks at it are apart, unless as many as can be told are as wet, the wettest
first, none twice, none the route stays out of (`IsToldOf`). Two evaluations overlap a replacement of the
file; the mtime kept is of a stat before the read, so it may be older than the zones but never newer.
`PlacesAreFound`: words, taps, merge, crossings, addresses. `StoresServeEveryone`: a graph is never
labelled newer than it is (`StoreIsCurrent`) and nobody waits for a load that is not under way
(`NobodyIsForgotten`). `TrafficIsBacked`: a colour drawn on the graph it was computed on has enough
fixes of enough trips. `KeptAnswersAreDetailed`: with a detailed provider, native or Nominatim, an answer
is kept only with what that provider found, of the release of its key or a later one.
`PlacesReachTheirSearchers`: see section 6.

`Viewer`: `RoutesAreOfTheTrip`, with no newest request under way the routes listed and drawn are of
the stops and the profile on screen; `NamesAreOfTheirPoints`, a late address names only its point;
`StopsAreInStep`, markers, stops and the stop the next click fills agree; `SuggestionsAreOfTheText`;
`LayersSpeakTrue`, hidden traffic is silent, a status is of the segments shown, activity is of its newest answer; `StyleIsWhole`, after
any switches the style is the one those switches give to a new map, in order, each region once;
`TrafficCatchesUp`, liveness.

### Bounds

| Run | Bounds | Why they are enough |
|---|---|---|
| Sync runs | 2 or 3 rows, batches of 2, 2 attempts, 1 or 2 requests | three rows are the fewest for which a batch does not take everything, a trip has points and an end, and something can overtake; two attempts tell retried from set aside; a second slot lets a request the phone gave up run beside the next. With two slots, three operations and failing handlers the states exceed what a run can explore: `TripConverged` and `DistanceKept` are run with one request at a time, and with overlapping ones they are the theorems `TripsAlwaysConverge` and `DistanceAlwaysKept`, which alone speak of fixes overtaken by a finish (`Overtaken`) |
| `Server`, records | 1 account, 3 tokens; 2 routes, 2 writes, clock 2, `Overlap = Longest = 1`, pages of 1; 2 owners, 2 requests, 2 instants; 2 editors, 2 centres, radius 1 | three tokens are a login, its successor and one more; two writes commit out of the order of their timestamps, and a page of one route cuts between them; two requests overlap on one trip or fence |
| `Server`, roads | networks of 4 and 5 nodes with a short cut, roundabout and one-ways, 2 requests over one set of arrays; legs between one place, as one snap or as the end of an edge and the beginning of the next, and stops snapped to two places; small graphs with loops, parallels and islands; 2 callers, 2 questions, 3 versions, 1 change of hour; 2 searchers, 2 searches, 2 releases of each file, 1 minute; 2 evaluations, 2 routes, 2 contents of the climate file out of 4, 2 zones told | two requests are needed for labels left by another search; two callers and two publications for a file replaced while it is loaded, one of them unreadable; four zones of three kinds and two to tell for the limit, six positions and three samples for the stride. Pure functions are asked over all inputs of a small grid |
| `Regions` | 4 builds in two versions, files of up to 3 chunks, 2 processes; 8 scenes | the builds cover a rebuild of equal size, a smaller one, and a new version; a scene says what is published and what else happens, so that each kind of replacement is explored to its end |
| `Viewer` | directions: 4 gestures from an empty trip or from a route on screen, up to 3 stops, once with one profile and one address under way, once with 3 gestures, 2 profiles and 2 addresses; search: 3 texts, 2 searches, once with a second box of one text, once with one box and a map that moves between 2 places; 2 boxes of the map and one view that is too wide, 4 moves, 1 failure; 5 switches over 3 lists of regions | two requests and two gestures suffice for one answer to overtake another; three stops are the fewest with one in the middle; switches on, across types and off again |

The counters that bound a behaviour (`MaxToken`, `MaxWrite`, `MaxClock`, `MaxRequest`, `MaxQuestion`,
`MaxVersion`, `MaxHour`, `MaxClimate`, `MaxSearch`, `MaxRelease`, `MaxMinute`, `MaxGesture`, `MaxStop`, `MaxNaming`,
`MaxAsked`, `MaxSearches`, `MaxMove`, `MaxFailure`, `MaxSwitch`) end behaviours in `Server` and
`Viewer`, and a pure function is asked once: these runs do not check deadlock. The sync runs and
`Regions` do.

`SyncOverlap` takes the two slots as interchangeable (`AnySlot`): no definition names one, and its
properties are about states and single steps.

### Remarks

`RouteConverged` is checked where it can hold: handlers that do not fail by themselves and requests
that do not overlap. With `dispatch` failures a `route:UPSERT` that fails once and the `route:DELETE`
behind it end in the wrong order (`SyncHoldsQueue` shows the cause); with two slots a request that
timed out on the phone and runs late does the same, since its events were read before the delete
(`synchronization.service.ts:90-98`).

Operations may be dispatched more than once: `dispatch` and `record` are separate writes. The comment
of `SynchronizationService` ("a retried push reports DUPLICATE instead of applying it twice") holds
for what was recorded; what protects the rest is that the writes of every handler are idempotent, which is
what `TripConverged` and `Delivery` rest on. The distance is not protected so (`SyncDistance`).

### Fairness

* Synchronization (`LiveSpec`): weak fairness of the phone's steps and of each server request, strong
  fairness of the clock ending a backoff. `Timer.periodic` starts rounds while the app lives, an await
  returns, and a backoff lasts at most fifteen minutes; its end is only visible when a batch is
  selected, hence strong. `EveryOpSettles` supposes that connections, crashes and the user stop
  interfering at some moment (`Trouble`); handlers may go on failing. A lost request is given up by
  Dio's timeouts, so `RoundEnds` needs nothing more.
* Regions: weak fairness of the server answering (`ServeStep`) and of the phone going on after an
  await (`PhoneStep`), as the event loops do. Publications and interruptions are not fair.
* Traffic: weak fairness of the debounce and of the interval of a minute (`setTimeout`,
  `setInterval`), strong fairness of a request under way being answered well at some time
  (`FlowAnswered`): failures are bounded by `MaxFailure`, and an aborted request may be followed by
  another before it is answered.

## 5. Where the code and its comments differ

| Run | Statement | What happens |
|---|---|---|
| `SyncHoldsQueue` | `sync_service.dart:30-31`: the rest of the queue waits behind a retryable failure | the server goes on with the batch, and later operations complete; a delete can overtake the save it follows |
| `SyncOwnSession` | `sync_service.dart:286`: another session must not send these | the account is compared before three awaits; the token is read after them |
| `FeedCut` | `sync_service.dart:84-85`: windows of pulls overlap, so that a change committed while a pull was being answered is not skipped | a pull cut off after `_maxPullPages` pages keeps the cursor of its last page without the overlap (`:408`; a pull to its end subtracts it, `:399-402`); a change whose transaction began before that cursor and committed after the page was read is skipped for good |
| `SyncDistance` | `trips.service.ts:91`: finish stores the travelled distance; `tracking.service.ts:56`: late fixes update it | write and measuring are two statements without a transaction (`trips.service.ts:98` and `:102`, `tracking.service.ts:49` and `:57-58`); after a failure or a crash between them the retry finds the trip COMPLETED and returns (`:94`), or inserts nothing, and the operation completes with the distance never measured |
| `TrafficRoads` | `traffic.service.ts:16-17`: a segment is coloured only by fixes of different trips matched to it | usual speeds are kept by hour without the version of the graph; after a publication they colour whichever edges have those indices |

Others, found while modelling, are notes of the hazards they belong to: points retried after a
cancellation (`trip_repository_impl.dart:149`), a request that fails as a whole and is retried
without limit (`sync_service.dart:73-74`), a route stored under a version newer than its graph
(`calculate-route.use-case.ts:124`), a first leg without pieces, and what depends on an operation the user put back
(`sync_service.dart:344-345`): a trip's creation put back between two rounds starts with fresh
attempts while its points keep those they had, so they can be given up before it. TLC shows this with
`retry` in `UserDoes` and three attempts; it is why `FailuresAlwaysCausal` excludes `retry`.

Of a first leg without pieces: `route-result.ts:41` calls `geometryIndex` the "Index range of the step
inside the route geometry". When the first stop is snapped to the end of an edge and the second to the
beginning of the next, at their common node, every piece is empty and dropped (`native-router.ts:294`).
The final step is made on an empty line, so its range is `[-1, -1]` (`:577`) and its location is
`coordinates[-1]`, undefined (`:569`); the route is given a geometry of two points only afterwards
(`:385-388`). The phone requires the location (`route.dart:49`). The queries of `Server` reach this leg
(`accepted` has a leg without edges); `StepsTileTheRoute` makes no claim about it.

## 6. What is proved

For every value of the constants; the assumptions on them are the `ASSUME`s of the modules.

| Theorem | States | Inductive invariant and argument |
|---|---|---|
| `SyncProofs!TypeCorrect` | `SystemTypeOK` | itself; the work is in `oneByOne`, set to the size of a batch and counted down only while positive, and in the operations of requests |
| `SyncProofs!CompletedIsApplied` | `SuccessIsBacked`, `CompletedWasApplied` | `Backed`. A row becomes COMPLETED from `done`, which comes from `answer`, a result, the events seen or a dispatch in progress: each link of that chain is in `applied`, which never shrinks |
| `SyncProofs!RoundIsOrderly` | `SyncingIsInBatch`, `RoundKeepsToItsAccount` | `Orderly`, with `RoundInHand`: which of `batch`, `done`, `answer` are empty in each stage, and that what is in hand is SYNCING and handled once |
| `SyncProofs!DeliveryImplemented` | `ImplementsDelivery` | `Backed` for completions, `Orderly` for the status a row has when its result is handled, `InQueue` for effects |
| `ServerProofs!OneLiveTokenPerLogin` | `OneLivePerLogin` | `AccountsInv`. Alone it is not inductive: a rotation adds a successor when it commits, so the token it claimed must still be live and nobody else's (`ClaimsAreExclusive`); issued tokens have an owner and an issued login (`TokensAreIssued`), a request goes through the steps of its kind (`RequestsAreOfTheirKind`) |
| `ServerProofs!AccountsTypeCorrect` | `AccountsTypeOK` | the same invariant |
| `ServerProofs!SessionAlwaysLasts` | `SessionLasts` | `LastsInv`: for an account nobody disturbed the phone has one request of a kind at a time (`RenewsAreAlone`, `EntersAreAlone`), a refresh presents the token of the session and nothing revokes it meanwhile (`CopiesDisturb`), and when none is under way the token of the session works (`SessionWorks`) |
| `ServerProofs!RoutesAreInOneTable` | `NeverInBothTables` | `FeedInv`: the statements left fit the kind of transaction (`TxAreOrderly`), one transaction at a time holds a route (`ChangesAreExclusive`), and at its commit a save has cleared the tombstone that is there (`ClearsAreKnown`) |
| `ServerProofs!FeedAlwaysFollowed` | `FeedIsFollowed`, while no pull is cut off (`[]PullsFit`) | `FollowInv`, on top of `FeedInv`. What the cursor has passed is known on the phone (`CursorIsBehind`); what the pull under way or its answer has passed is too, unless it was committed since the pull began, and then its time is no earlier than the next pull starts from (`PullIsBehind`, `AnswerIsBehind`). This last step is `Longest <= Overlap`. Routes with an unsent deletion are gone from the phone (`PhoneWaits`) |
| `ServerProofs!FencesAreWhole` | `FenceIsWhole` | `FencesInv`: the shape an update has merged and validated is as whole as the row, so writing it later, over another update, keeps the row whole |
| `ServerProofs!TracksAlwaysWhole` | `TracksAreWhole` | `TripsInv` for the distance: a request inserts only when it found the trip ACTIVE or COMPLETED, so that it measures after it or its fixes are among the missed (`AsksAreOfTheTrip`); `PathAlwaysKeepsEnds` for the track |
| `ServerProofs!PathAlwaysKeepsEnds` | tracks and limits of any length keep both ends and as many fixes as were asked for | a fix is kept where `floor(p·m/n)` steps up; the step is at most one since `m < n`, so the kept fixes map onto `0..m` |
| `RegionProofs!RowAlwaysOfItsFiles` | `RowIsOfItsFiles`, for any operator | `CatalogInv`: the row and every registration under way hold what some build or none had when it was read, and a publication that ended well has registered what it moved (`DoneGood`), even over older registrations (`JobGood`) |
| `RegionProofs!RegisteredAlwaysWhole` | `RegisteredIsWhole`, files of any number of chunks | `PhoneInv`: the row the phone follows is of one whole build; between the checksum and the row, `.part` and then the file are that build |
| `RegionProofs!RangesAlwaysNamed`, `RangeAlwaysNamed`, `UpdatesAlwaysForward` | `RangesAndVersions`; the same for headers on files of any size, and versions of any number of segments | no state: comparison is decided by the first segment that differs (`CompareIs`), hence antisymmetric and transitive where updates need it |
| `ServiceProofs!KeptAreDetailed` | `KeptAnswersAreDetailed` | `GeoInv`: versions read are of the past and releases count from one, so that 0 is an answer without the provider (`VersionsArePast`), and with a detailed provider no search answers from the world alone (`DetailIsAsked`) |
| `ServiceProofs!PlacesReach` | `PlacesReachTheirSearchers` | `GeoInv`: who waits does so for a load under way; the time a file was seen is never later than the file read |
| `ServiceProofs!StoresAlwaysServe` | `StoresServeEveryone` | `RoadInv`: a load is labelled with a version read before it opens the file, so the label is never newer than the copy (`LabelsAreOld`), and who waits does so for a load under way |
| `ServiceProofs!TrafficAlwaysBacked` | `TrafficIsBacked` | `RoadInv`: speeds held by a call or kept in a cache name each edge once and are backed on the graph they were matched on (`SpeedsAreKnown`); roads are told apart by what they are, indices by the graph they belong to |
| `ServiceProofs!SlowerAlwaysLonger` | the delay of a route, for every distance, duration and speeds | no state: a time rounded to the nearest second is at least `q` iff `20 v q <= 72 meters + 10 v` (`FloorIs`), which a slower `v` only makes easier |
| `ServiceProofs!TrianglesAlwaysExact` | `insideRing` on every triangle, as a closed ring, and position of the grid | no state: the corners' heights over the position, weighted by the sides opposite, add up to 0 (`Weights`), so the signs of two sides and the heights decide the third |
| `ServiceProofs!ConditionsAlwaysBounded` | `ConditionsAreBounded`, for any evaluations, routes, zones and contents of the file | `ConditionsInv`: zones in memory are of a file not older than the mtime kept with them (`MemoryIsPast`), an evaluation's mtime is not older than its question, and what it read is of a file since that mtime (`IsUnderWay`). What is told of a file rests on `FindingsAreOrdered` (findings have places `1..n`, since the order is strict and total), `OneIsFirst`, `LongCrossingsAreSeen` (of `n` positions in a row one is looked at) and `CoversIsExact` |
| `ViewerProofs!StopsAlwaysInStep` | `StopsAreInStep` | `DirectionsInv`: `TripInv`, stops have ids of their own below the next one, and the markers are the function of the stops that the page draws |
| `ViewerProofs!RoutesAlwaysOfTheTrip` | `RoutesAreOfTheTrip` | `RoutesInv`: whatever changes stops or profile ends in a request that becomes the newest, or in no routes |
| `ViewerProofs!NamesAlwaysOfTheirPoints` | `NamesAreOfTheirPoints` | `TripInv`, `CardInv`: an address under way is for a point the page has made, and each name, on a stop or the card, is of its point |
| `ViewerProofs!BoxesAreAnswered` | `SearchesAreAsked`: no box waits for an answer that will not come | `SearchInv`: superseded searches stay with the request they wait for, and settling a request answers all of them |
| `ViewerProofs!SuggestionsAlwaysOfTheText` | `SuggestionsAreOfTheText` | `SearchInv` with `BoxesInStep`: what a box waits for, and what it shows, is of the text it last asked for |
| `ViewerProofs!LayersAlwaysSpeakTrue` | `LayersSpeakTrue` | `TrafficInv`: hidden traffic has no request that counts (`HiddenIsSilent`), and the newest request of activity is for the box asked last (`NewestHeatIsAsked`) |
| `StyleProofs!StyleAlwaysWhole` | `StyleIsWhole` | `StyleInv` (`StyleIsOfItsSwitches`): the map is exactly the one that the switches give to a new map, with all that is kept to undo its type. Every step keeps this because undoing a type gives back the map there was (`TypedIsUndone`: its layers are told from those under them, and what it changed of a layer is kept once, `KeptIsRestored`) and a switch under a type is the type over the switch (`TypedIsApplied`: no type hides what has a switch, and switches move no layer). What the map shows follows: each layer has its place in the stack (`StackedIsStack`), above what it goes over (`StackedIsInOrder`), and what `outermost` leaves covers all the rest (`OutermostCovers`) |
| `RouterProofs!FastestLegs` | `LegIsFastest`, on every graph, with any delays and penalties | `RouterInv` (`RouterIsSound`). During a search (`InLeg`): every label is the cost of a walk and leads back to a seed; an entry of the heap is its node's or stale, never below its label; every labelled node has its entry in the heap, or has been spread over its edges and tried as an end; no mark is that of the next search (`StampsAreOld`). When nothing in the heap improves on the best, an induction over walks (`Ends`) shows that none is cheaper: the estimate never exceeds what is left to drive (`EstimateOver`, `EstimateAtEnds`). The heap is proved for any length: `Push` and `Pop` keep it ordered and lose nothing (`HeapLeast`) |
| `RouterProofs!LegsAreWalks` | `LegIsAWalk` | the same invariant: `via` never runs in circles (`IsGrounded`), so the way back is a sequence of pieces that join (`Backs`), whose time, with the delay of its first junction, is at most the label's plus that delay |
| `RouterProofs!DifferentAlternatives`, `LegsAlwaysRight` | `AlternativesDiffer`; with the two above, `LegsAreRight` | `AlternativesHold`: a candidate of the same edges shares all of its length (`SharesAll`), more than `SharedPercent` of it |

`ConvergenceProofs` relates the queue of the phone to the rows of the server:

| Theorem | States | Inductive invariant and argument |
|---|---|---|
| `OffenderAlwaysAlone` | `OnlyOffenderRefused` | `Blamed`: a request refused as a whole carries what is to blame as long as it is in the server, and a batch sent one by one is that operation |
| `NothingEverOvertakes` | `NothingOvertakes` | with `Orderly`: a batch is taken from the front of the queue, so while one is in hand every older operation of the account is in it or settled |
| `TripsAlwaysConverge` | `TripConverged`, under `[]OwnSession` | `Agreed`: what the table, the operations not queued yet and each request say of a trip is what the phone recorded (`QueueAgrees`), and the rows of the server are what the operations applied so far make of it in any order they can arrive in, statement by statement (`StoreAgrees`). The distance is left to `DistanceAlwaysKept`: the code does not promise it to a retry |
| `OwnSessionUnlessSwitchedAtPost` | `OwnSession`, if the session does not change between the choice of a batch and its request | `OwnInv`, with `PostsAsItself`: past the comparison of accounts the session is that of the round |
| `TripsConvergeUnlessSwitchedAtPost` | `TripConverged`, under the same condition | the two theorems above |
| `DistanceAlwaysKept` | `DistanceKept`, whoever is logged in, for any faults | `DistanceInv`: a finished trip outside `unmeasured` has a distance that counts all its fixes, or some request is about to measure it (`MeasuredOrDue`). What adds to `unmeasured` are cut-off handlers and batches that a finish overtook, which `SyncDistance` and `Overtaken` show to be real |
| `FailuresAlwaysCausal` | `CausalFailure`, under `[]OwnSession` and without `retry` | `Causes`, on top of all the above: what follows a creation has fewer attempts than it, also when only the server, the answer or the round knows that the creation has to be tried again |
| `RoutesAlwaysConverge` | `RouteConverged`, under `[]OwnSession`, with one request served at a time (`OneAtATime`) and no handler that fails for a time (`NoFailingHandler`) | `RoutesInOrder`, on top of the above: what a request or the phone was told was applied is recorded (`Written`), a creation fails only for good (`FailsForGood`), and no deletion is ahead of its creation (`RequestInOrder`), so that no creation is applied after its deletion (`RoutesAgree`) |

Step lemmas are grouped by actor or action; `PTL` closes each theorem.

**Hypotheses of theorems.** `[]OwnSession` is what the comment of `sync_service.dart:286` promises. The run
`SyncOwnSession` refutes it, for the reason `OwnSessionUnlessSwitchedAtPost` pins down: a login while
a batch chosen for another account has not left yet. `"retry" \notin UserDoes` is needed (section 5), and
so is `[]PullsFit`, which `FeedCut` violates with one page too few and `Server` satisfies with four.
`OneAtATime` and `NoFailingHandler` are the remark on `RouteConverged` in section 4: an old request
that overlaps a new one, or a creation retried after its deletion went on (`SyncHoldsQueue`), brings a
deleted route back. `SyncRoutes` satisfies both; outages, crashes of either side, refused and invalid
operations and retries by the user stay allowed.

**Assumptions on constants** beyond sets being disjoint and bounds being naturals: `Longest <= Overlap`
(Prisma's five seconds), a search needs at least one letter (`SEARCH_MIN_LENGTH`), a trip of the web
map has at least two stops, every version of the road graph exists and its edges are different roads,
fixes are finitely many, and the builds of a region have sizes that follow from their chunks.
Of the router: penalties grow (`PenaltyFactor`, 1.6 in the code) and less than the whole of an
alternative may be shared (`SharedPercent`, 70). A graph is as the constructor of `NativeGraph` leaves
it (`IsLoaded`): the entries of a node are those of the edges that begin at it, and an edge is no
shorter than the distance of its ends, along a straight line here. Snaps are on roads of the profile
(`IsSnap`), as `snapPair` chooses them, and an edge costs at least one unit per unit of length, the
inverse of the greatest speed: this is why the estimate of A* never exceeds the cost. Of conditions:
distances, durations, speeds and the greatest rain of a zone are naturals, positions are on a grid.
Of the map style, what publication and `style.json` keep: published ids are different and boxes are not
empty (`map-region.service.ts:167`); a template layer is hidden only if a switch shows it and has one
switch at most; the layers of a type are not in the template, go before one that is, above the
background, and no type hides a layer that has a switch.

**Recursion and induction.** `RouterProofs` begins with what the library states with operator parameters,
for functions and sets: a recursive function on a domain with a well-founded step exists and unfolds
(`RecursionExists`), and a set that every step carries up is the domain (`GroundedInduction`). The heap,
the way back, sums, penalties and the costs of walks of every length rest on them.

**Only model-checked.** Liveness (`EveryOpSettles`, `RoundEnds`, `DownloadEnds`, `TrafficCatchesUp`) and
what the folds of the community modules compute for every input (components in `GraphIndexIsExact`,
`StepsAreOfTheRoute`, `PlacesAreFound`): they take an operator as a parameter, which no installed prover
instantiates. `MapStyle` does without them: a list is put together from the set of its spots, in order
(`InOrder`), and `InOrderCounts` and `OneCount` say that there is one such list.

## 7. Not modelled

* Synchronization: sizes of batches (any non-empty prefix fits), places and
  downloaded regions in a push, purge by age, the triggers of rounds.
* Accounts: hashing, signatures, which local rows `adoptGuestData` takes.
* Routes: validation of a saved payload. Feed: fifty pages (the instance reaches its last page).
* Regions: several regions, automatic resumption on reconnection, a deletion that overlaps one, the
  operation queued after a registration, a rebuild of the version that is being registered on the
  phone, version segments that mix digits and letters.
* Engine: binary formats and their checks, distances on the sphere, wording of instructions.
* Traffic on the server: the activity of the last day and the validation of boxes, which only read.
* Conditions: zones of other shapes than triangles are covered as the code does, but the properties speak
  of triangles, whose inside is stated without a ray; warnings and millimetres are wording of the range.
  A file put back with its old mtime (`restore` of `refresh-region.sh`) is not among the successions of
  files: an mtime here is never used again.
* Geocoding: translation of Nominatim's answers; errors of `fetch-json.ts` are one step.
* Web map: the page before its map exists, camera, sheet, installation, the reader of PMTiles
  archives, `createMap` of the SDK, which wraps `MapStyle` and `MapTraffic`, and the service worker.
* Phone: trip recorder, connectivity, controllers (the pattern of request counters is that of the web
  map), offline routing and the style service, which keep no state that outlives a call.
* Data tools and tile generator: batch conversions, nothing concurrent. Guards, filters and health keep
  no state.

What would come next: the phone's triggers and connectivity with the liveness of a pending operation,
and automatic resumption of downloads.
