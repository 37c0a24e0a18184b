---------------------------- MODULE RegionCatalog ----------------------------
(***************************************************************************)
(* The catalog of map regions on the server: files published over the ones *)
(* being served, the registration of their manifests (MapRegionService     *)
(* .syncFromStorage, in the backend and in the CLI at once) and downloads  *)
(* (RegionDownloadService).  One region; every await is a step.  A build   *)
(* is one output of the pipeline; the SHA-256 of a file is its build.      *)
(***************************************************************************)
EXTENDS Integers, Sequences, FiniteSets

CONSTANTS
  Build,        \* builds of the region, 1..n
  VersionOf,    \* version in the manifest of each build
  MapSize, AssetSize, RoutingSize,  \* sizes of its files, in chunks; 0: it has none
  Process       \* processes that run syncFromStorage

None == 0
Kind == {"map", "asset", "routing"}
SizeOf(kind, b) ==
  IF b = None THEN 0
  ELSE CASE kind = "map" -> MapSize[b] [] kind = "asset" -> AssetSize[b]
         [] kind = "routing" -> RoutingSize[b]

ASSUME RegionCatalogAssumption ==
  /\ Build \subseteq Nat \ {None}
  /\ VersionOf \in [Build -> Nat \ {None}]
  /\ MapSize \in [Build -> Nat \ {0}] /\ {AssetSize, RoutingSize} \subseteq [Build -> Nat]
  /\ "cli" \in Process

VARIABLES
  disk,       \* build of each file in map storage; "manifest" is the *.region.json
  row,        \* map_regions row of the region; version None: no row
  job,        \* runs of syncFromStorage, one per process
  publisher   \* publish-region.sh: its step and the build it installs

catalogVars == <<disk, row, job, publisher>>

Row == [version : {None} \cup {VersionOf[b] : b \in Build}, size : Nat, sum : Build \cup {None},
        assetSize : Nat, asset : Build \cup {None},
        routingSize : Nat, routing : Build \cup {None}, enabled : BOOLEAN]
NoRow == [version |-> None, size |-> 0, sum |-> None, assetSize |-> 0, asset |-> None,
          routingSize |-> 0, routing |-> None, enabled |-> FALSE]

JobStep == {"idle", "map", "routing", "row", "asset", "hashAsset", "plan", "hashRouting",
            "upsert", "sweep", "sweepFile", "disable"}
Job == [step : JobStep, force : BOOLEAN, manifest : Build \cup {None}, size : Nat,
        routingSize : Nat, old : Row, assetSize : Nat, asset : Build \cup {None},
        sum : Build \cup {None}, routing : Build \cup {None}, seen : BOOLEAN, failed : BOOLEAN]
Idle == [step |-> "idle", force |-> FALSE, manifest |-> None, size |-> 0, routingSize |-> 0,
         old |-> NoRow, assetSize |-> 0, asset |-> None, sum |-> None, routing |-> None,
         seen |-> FALSE, failed |-> FALSE]

CatalogInit ==
  /\ disk = [f \in Kind \cup {"manifest"} |-> None]
  /\ row = NoRow
  /\ job = [p \in Process |-> Idle]
  /\ publisher = [step |-> "idle", build |-> None]

-----------------------------------------------------------------------------
(* Registration. *)

At(p, step) == job[p].step = step
Advance(p, j) == job' = [job EXCEPT ![p] = j]
Step(p, step) == [job[p] EXCEPT !.step = step]

(* The manifest is done; what the run knew of it is no longer read. *)
Done(p) == Advance(p, [Idle EXCEPT !.step = "sweep", !.seen = TRUE])
(* An error ends the manifest, not the run: the region is not seen. *)
Fail(p) == Advance(p, [Idle EXCEPT !.step = "sweep", !.failed = TRUE])

(* A run that begins: manifests are listed first. *)
Started(force) == [Idle EXCEPT !.step = IF disk["manifest"] = None THEN "sweep" ELSE "map",
                               !.force = force, !.manifest = disk["manifest"]]

(* At startup of the backend, by POST /maps/regions/sync or by the CLI. *)
StartSync(p, force) ==
  /\ At(p, "idle") /\ p # "cli"
  /\ Advance(p, Started(force))
  /\ UNCHANGED <<disk, row, publisher>>

StatMap(p) ==
  /\ At(p, "map")
  /\ IF disk["map"] = None THEN Fail(p)
     ELSE Advance(p, [Step(p, "routing") EXCEPT !.size = SizeOf("map", disk["map"])])
  /\ UNCHANGED <<disk, row, publisher>>

StatRouting(p) ==
  /\ At(p, "routing")
  /\ Advance(p, [Step(p, "row") EXCEPT
       !.routingSize = IF SizeOf("routing", job[p].manifest) > 0
                       THEN SizeOf("routing", disk["routing"]) ELSE 0])
  /\ UNCHANGED <<disk, row, publisher>>

FindRow(p) ==
  /\ At(p, "row")
  /\ Advance(p, [Step(p, "asset") EXCEPT !.old = row])
  /\ UNCHANGED <<disk, row, publisher>>

(* The checksum of an archive is kept while nothing says that it changed.  *)
(* Manifests written by region.sh list the checksum of every archive.      *)
SameAsset(j, size) ==
  /\ ~j.force
  /\ j.old.assetSize = size
  /\ j.old.version = VersionOf[j.manifest]
  /\ j.old.asset = j.manifest

StatAsset(p) ==
  LET j == job[p]
      size == SizeOf("asset", disk["asset"])
  IN /\ At(p, "asset")
     /\ Advance(p,
          IF SizeOf("asset", j.manifest) = 0 \/ size = 0 THEN Step(p, "plan")
          ELSE IF SameAsset(j, size)
          THEN [Step(p, "plan") EXCEPT !.assetSize = size, !.asset = j.old.asset]
          ELSE [Step(p, "hashAsset") EXCEPT !.assetSize = size])
     /\ UNCHANGED <<disk, row, publisher>>

HashAsset(p) ==
  /\ At(p, "hashAsset")
  /\ IF disk["asset"] # job[p].manifest THEN Fail(p)
     ELSE Advance(p, [Step(p, "plan") EXCEPT !.asset = disk["asset"]])
  /\ UNCHANGED <<disk, row, publisher>>

(* Mutant of SameMap: a rebuild under the same version looks the same. *)
RebuildMutant(j) == ~j.force /\ j.old.enabled /\ j.old.version = VersionOf[j.manifest]
                    /\ j.old.size = j.size
SameMap(j) ==
  /\ ~j.force
  /\ j.old.enabled
  /\ j.old.version = VersionOf[j.manifest]
  /\ j.old.size = j.size
  /\ j.old.sum = j.manifest
SameRouting(j) ==
  /\ ~j.force
  /\ j.old.version # None
  /\ j.old.routingSize = j.routingSize
SameAssets(j) ==
  /\ j.old.version # None
  /\ j.old.assetSize = j.assetSize
  /\ j.old.asset = j.asset

Unchanged(p) ==
  /\ At(p, "plan")
  /\ SameMap(job[p]) /\ SameRouting(job[p]) /\ SameAssets(job[p])
  /\ Done(p)
  /\ UNCHANGED <<disk, row, publisher>>

(* Mutant of HashMap: what the manifest says is not compared. *)
UncheckedMutant(p) ==
  LET j == job[p] IN
  /\ At(p, "plan")
  /\ ~(SameMap(j) /\ SameRouting(j) /\ SameAssets(j))
  /\ Advance(p, [Step(p, "hashRouting") EXCEPT !.sum = IF SameMap(j) THEN j.old.sum ELSE disk["map"]])
  /\ UNCHANGED <<disk, row, publisher>>

(* The map is hashed unless it is the registered one; what the manifest    *)
(* says must hold.                                                         *)
HashMap(p) ==
  LET j == job[p]
      sum == IF SameMap(j) THEN j.old.sum ELSE disk["map"]
  IN /\ At(p, "plan")
     /\ ~(SameMap(j) /\ SameRouting(j) /\ SameAssets(j))
     /\ IF sum # j.manifest THEN Fail(p)
        ELSE Advance(p, [Step(p, "hashRouting") EXCEPT !.sum = sum])
     /\ UNCHANGED <<disk, row, publisher>>

HashRouting(p) ==
  LET j == job[p] IN
  /\ At(p, "hashRouting")
  /\ IF j.routingSize > 0 /\ ~(SameRouting(j) /\ j.old.routing # None) /\ disk["routing"] = None
     THEN Fail(p)
     ELSE Advance(p, [Step(p, "upsert") EXCEPT !.old = NoRow,
            !.routing = IF j.routingSize = 0 THEN None
                        ELSE IF SameRouting(j) /\ j.old.routing # None THEN j.old.routing
                        ELSE disk["routing"]])
  /\ UNCHANGED <<disk, row, publisher>>

Upsert(p) ==
  LET j == job[p] IN
  /\ At(p, "upsert")
  /\ row' = [version |-> VersionOf[j.manifest], size |-> j.size, sum |-> j.sum,
             assetSize |-> j.assetSize, asset |-> j.asset,
             routingSize |-> j.routingSize, routing |-> j.routing, enabled |-> TRUE]
  /\ Done(p)
  /\ UNCHANGED <<disk, publisher>>

(* Enabled regions without a manifest are disabled when their file is gone. *)
Ended(p) == [Idle EXCEPT !.failed = job[p].failed]

Sweep(p) ==
  /\ At(p, "sweep")
  /\ Advance(p, IF row.enabled /\ ~job[p].seen THEN Step(p, "sweepFile") ELSE Ended(p))
  /\ UNCHANGED <<disk, row, publisher>>

SweepFile(p) ==
  /\ At(p, "sweepFile")
  /\ Advance(p, IF disk["map"] = None THEN Step(p, "disable") ELSE Ended(p))
  /\ UNCHANGED <<disk, row, publisher>>

Disable(p) ==
  /\ At(p, "disable")
  /\ row' = [row EXCEPT !.enabled = FALSE]
  /\ Advance(p, Ended(p))
  /\ UNCHANGED <<disk, publisher>>

SyncStep(p) ==
  \/ StatMap(p) \/ StatRouting(p) \/ FindRow(p) \/ StatAsset(p) \/ HashAsset(p) \/ Unchanged(p)
  \/ HashMap(p) \/ HashRouting(p) \/ Upsert(p) \/ Sweep(p) \/ SweepFile(p) \/ Disable(p)

(* PATCH /maps/regions/:id *)
SetEnabled(enabled) ==
  /\ row.version # None
  /\ row' = [row EXCEPT !.enabled = enabled]
  /\ UNCHANGED <<disk, job, publisher>>

-----------------------------------------------------------------------------
(* publish-region.sh: data files, then the manifest, then a restart of the *)
(* backend and the CLI in its container.  It may stop at any step.         *)

Goto(step) == publisher' = [publisher EXCEPT !.step = step]

(* Bound: builds are published in order; one that stopped may be repeated. *)
Publish(b) ==
  /\ publisher.step \in {"idle", "done"}
  /\ \A f \in DOMAIN disk : disk[f] <= b
  /\ publisher' = [step |-> "map", build |-> b]
  /\ UNCHANGED <<disk, row, job>>

(* mv -f of a file of the build over the one in place. *)
Install(file, next) ==
  /\ publisher.step = file
  /\ disk' = [disk EXCEPT ![file] =
       IF file = "manifest" \/ SizeOf(file, publisher.build) > 0 THEN publisher.build ELSE @]
  /\ Goto(next)
  /\ UNCHANGED <<row, job>>

(* Everything the container runs dies; unless REGIONS_SYNC_ON_STARTUP is   *)
(* false, the backend registers the regions when it has started.           *)
Restart(onStartup) ==
  /\ publisher.step = "restart"
  /\ job' = [p \in Process |-> IF p = "cli" \/ ~onStartup THEN Idle ELSE Started(FALSE)]
  /\ Goto("cli")
  /\ UNCHANGED <<disk, row>>

RunCli ==
  /\ publisher.step = "cli"
  /\ At("cli", "idle")
  /\ Advance("cli", Started(FALSE))
  /\ Goto("wait")
  /\ UNCHANGED <<disk, row>>

(* The exit code of the CLI is that of the publication. *)
Published ==
  /\ publisher.step = "wait"
  /\ At("cli", "idle")
  /\ Goto(IF job["cli"].failed THEN "idle" ELSE "done")
  /\ UNCHANGED <<disk, row, job>>

StopPublisher ==
  /\ publisher.step \notin {"idle", "done"}
  /\ Goto("idle")
  /\ UNCHANGED <<disk, row, job>>

PublisherStep ==
  \/ Install("map", "asset") \/ Install("asset", "manifest") \/ Install("manifest", "restart")
  \/ RunCli \/ Published

(* The operator puts a routing package in place, or removes the region. *)
InstallRouting(b) ==
  /\ publisher.step \in {"idle", "done"}
  /\ SizeOf("routing", b) > 0
  /\ disk' = [disk EXCEPT !["routing"] = b]
  /\ publisher' = [step |-> "idle", build |-> None]
  /\ UNCHANGED <<row, job>>
RemoveFiles ==
  /\ publisher.step \in {"idle", "done"}
  /\ disk["map"] # None
  /\ disk' = [f \in DOMAIN disk |-> None]
  /\ publisher' = [step |-> "idle", build |-> None]
  /\ UNCHANGED <<row, job>>

(* `operator' is what the operator does or has configured besides publishing. *)
CatalogNext(operator) ==
  \/ \E p \in Process : SyncStep(p)
  \/ \E p \in Process : "sync" \in operator /\ StartSync(p, FALSE)
  \/ \E p \in Process : "force" \in operator /\ StartSync(p, TRUE)
  \/ \E b \in Build : Publish(b)
  \/ PublisherStep
  \/ Restart("startup" \in operator)
  \/ StopPublisher
  \/ \E enabled \in BOOLEAN : "enable" \in operator /\ SetEnabled(enabled)
  \/ \E b \in Build : "routing" \in operator /\ InstallRouting(b)
  \/ "remove" \in operator /\ RemoveFiles
=============================================================================
