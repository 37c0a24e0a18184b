--------------------------- MODULE RegionProperties ---------------------------
(***************************************************************************)
(* What the region catalog and the downloads must satisfy.                 *)
(***************************************************************************)
EXTENDS RegionDownload

(* When a publication ended well and no registration runs, the row tells   *)
(* the version, size and checksum of the files in place: checksums kept    *)
(* "when the file size or version" did not change are still right, with    *)
(* the backend and the CLI registering at once (syncFromStorage).          *)
Settled == publisher.step = "done" /\ \A p \in Process : At(p, "idle")
RowDescribesFiles ==
  Settled => /\ row.version = VersionOf[disk["manifest"]]
             /\ row.sum = disk["map"] /\ row.size = SizeOf("map", disk["map"])
             /\ SizeOf("asset", disk["manifest"]) > 0 => row.asset = disk["asset"]

(* A row never has the version of one build and the checksum of a build of *)
(* another version, whatever files were replaced while it was computed.    *)
VersionIsThatOfItsFile ==
  row.version # None => row.sum \in Build /\ VersionOf[row.sum] = row.version

(* The row of a region describes files that were published together: one   *)
(* build at all times, and those in place once nothing is under way.       *)
RowIsOfItsFiles == RowDescribesFiles /\ VersionIsThatOfItsFile

(* A region the phone has registered is a whole build of its version, also *)
(* after resumed transfers of replaced files, kills and deletions.         *)
RegisteredIsWhole ==
  reg # NoEntry =>
    \E b \in Build : VersionOf[b] = reg.version /\ target[reg.version] = Whole(b)

(* The bytes chosen for a Range header are those RFC 9110 names: the       *)
(* positions asked that the file has, or the last ones; with none of them, *)
(* 416 (http-range.ts).                                                    *)
Named(h, size) ==
  {i \in 0..(size - 1) :
     CASE h.form = "from" -> i >= h.a
       [] h.form = "between" -> i >= h.a /\ i <= h.b
       [] h.form = "suffix" -> i >= size - h.a
       [] OTHER -> TRUE}
RangeIsNamed(h, size) ==
  LET parsed == parseRangeHeader(h, size) IN
  CASE parsed.type = "none" -> h.form = "none"
    [] parsed.type = "range" -> parsed.start..parsed.end = Named(h, size) /\ h.form # "none"
    [] parsed.type = "unsatisfiable" -> Named(h, size) = {}

(* An update offered to a device is never a step back, and none is offered *)
(* to a device that has the version, however its segments are written.     *)
VersionNumbers == UNION {[1..n -> 0..1] : n \in 1..3}
GoesForward(x, y, z) ==
  /\ compareVersions(x, y) = -compareVersions(y, x)
  /\ updateAvailable(x, y) /\ compareVersions(y, z) >= 0 => updateAvailable(x, z)
UpdatesGoForward == \A x, y, z \in VersionNumbers : GoesForward(x, y, z)

(* A phone that resumes by ranges and updates by versions gets the bytes   *)
(* it asked for, whatever the size of the file when the request is served, *)
(* and never goes back: both rules over all small inputs.                  *)
RangesAreNamed == get.step = "send" => \A h \in RangeHeader : RangeIsNamed(h, get.size)
RangesAndVersions == UpdatesGoForward /\ RangesAreNamed

(* A download that runs ends, whatever the server answers and however its  *)
(* file changes: 416 starts over once, no answer makes the phone ask for   *)
(* ever (_transfer).  Only the steps of the server and of the phone are    *)
(* fair: nobody has to interrupt it.                                       *)
DownloadEnds == run.step # "idle" ~> run.step = "idle"
=============================================================================
