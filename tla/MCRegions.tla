------------------------------ MODULE MCRegions ------------------------------
(***************************************************************************)
(* Instances of the region catalog and of the downloads for TLC.  A scene  *)
(* bounds a behaviour: which builds are published and what else happens.   *)
(***************************************************************************)
EXTENDS RegionProperties

CONSTANT Scene   \* the scenes of the run

(* Four builds: one of a version, three of the next one.  The third has    *)
(* the sizes of the second, the fourth is smaller.                         *)
MCVersionOf == [b \in Build |-> IF b = 1 THEN 1 ELSE 2]
MCMapSize == [b \in Build |-> IF b \in {2, 3} THEN 3 ELSE 1]
MCAssetSize == [b \in Build |-> IF b = 1 THEN 1 ELSE 0]
MCRoutingSize == [b \in Build |-> 1]

BuildsOf(s) == CASE s = "resume" -> {2, 3} [] s = "shrink" -> {2, 4} [] s = "rebuild" -> {1, 2, 3}
                 [] s = "withdraw" -> {4}
                 [] OTHER -> {1, 2}
Downloaded == {"resume", "shrink", "upgrade", "withdraw"}
Does(s) == CASE s = "rebuild" -> {"startup", "sync"} [] s = "force" -> {"sync", "force"}
             [] s = "enable" -> {"sync", "enable"} [] s = "routing" -> {"startup", "routing"}
             [] s = "withdraw" -> {"enable", "remove"} [] s \in Downloaded -> {} [] OTHER -> {s}

VARIABLE scene
mcVars == <<downloadVars, scene>>

Init == DownloadInit /\ scene \in Scene
Next ==
  /\ scene' = scene
  /\ \/ scene \in Downloaded /\ DownloadNext(Does(scene))
     \/ scene \notin Downloaded /\ CatalogNext(Does(scene)) /\ UNCHANGED phoneVars
  /\ {publisher'.build, disk'["routing"]} \subseteq BuildsOf(scene) \cup {None}
Spec == Init /\ [][Next]_mcVars
LiveSpec == Spec /\ WF_mcVars(ServeStep /\ scene' = scene) /\ WF_mcVars(PhoneStep /\ scene' = scene)
=============================================================================
