---------------------------- MODULE RegionDownload ----------------------------
(***************************************************************************)
(* Downloads of the map of a region: GET /maps/regions/:id/download        *)
(* (RegionDownloadService.sendFile, parseRangeHeader) and the phone that   *)
(* downloads, resumes, verifies, registers and deletes it                  *)
(* (RegionDownloadManager, RegionDownloadService, the two tables and the   *)
(* files).  A file is the sequence of the builds its chunks come from; the *)
(* app may be killed, and the connection or the user may stop a transfer,  *)
(* at any step.                                                            *)
(***************************************************************************)
EXTENDS RegionCatalog, RegionRules

VARIABLES
  get,      \* the request the server is answering
  cat,      \* catalog entry stored on the phone
  task,     \* region_downloads row: the unfinished download
  run,      \* the download or the deletion that is running
  part,     \* <code>.pmtiles.part of each version
  target,   \* <code>.pmtiles of each version
  reg       \* downloaded_regions row

phoneVars == <<get, cat, task, run, part, target, reg>>
downloadVars == <<catalogVars, phoneVars>>

Version == {VersionOf[b] : b \in Build}
Whole(b) == [i \in 1..MapSize[b] |-> b]
Content == UNION {[1..n -> Build] : n \in 0..3}
Entry == [version : Version \cup {None}, size : Nat, sum : Build \cup {None}]
NoEntry == [version |-> None, size |-> 0, sum |-> None]

-----------------------------------------------------------------------------
(* The server.  `range' and `ifRange' are the headers of the request;      *)
(* `size' is what stat() said, `region' the row that was read.             *)
NoRequest == [step |-> "none", from |-> 0, ifRange |-> None, region |-> NoEntry, size |-> 0]
Answer(status, sum, total, body) ==
  [step |-> "answer", status |-> status, sum |-> sum, total |-> total, body |-> body]

GetEnabled ==
  /\ get.step = "region"
  /\ get' = IF row.enabled
            THEN [get EXCEPT !.step = "stat",
                    !.region = [version |-> row.version, size |-> row.size, sum |-> row.sum]]
            ELSE Answer(404, None, 0, <<>>)
  /\ UNCHANGED <<catalogVars, cat, task, run, part, target, reg>>

StatFile ==
  /\ get.step = "stat"
  /\ get' = IF disk["map"] = None THEN Answer(404, None, 0, <<>>)
            ELSE [get EXCEPT !.step = "send", !.size = SizeOf("map", disk["map"])]
  /\ UNCHANGED <<catalogVars, cat, task, run, part, target, reg>>

(* The file is opened after the headers were written: its bytes are those  *)
(* of the file in place then, cut at the length announced.                 *)
SendFile ==
  LET asked == [form |-> IF get.from > 0 THEN "from" ELSE "none", a |-> get.from, b |-> 0]
      honoured == IF get.ifRange \notin {None, get.region.sum} THEN [asked EXCEPT !.form = "none"]
                  ELSE asked
      parsed == parseRangeHeader(honoured, get.size)
      start == IF parsed.type = "range" THEN parsed.start ELSE 0
      end == IF parsed.type = "range" THEN parsed.end ELSE get.size - 1
      opened == IF disk["map"] = None THEN <<>> ELSE Whole(disk["map"])
  IN /\ get.step = "send"
     /\ get' = IF parsed.type = "unsatisfiable" THEN Answer(416, None, get.size, <<>>)
               ELSE Answer(IF parsed.type = "range" THEN 206 ELSE 200, get.region.sum,
                           end - start + 1, SubSeq(opened, start + 1, Smaller(end + 1, Len(opened))))
     /\ UNCHANGED <<catalogVars, cat, task, run, part, target, reg>>

-----------------------------------------------------------------------------
(* The phone. *)

NoRun == [step |-> "idle", entry |-> NoEntry, etag |-> None, offset |-> 0, again |-> TRUE]
NoTask == [version |-> None, etag |-> None, status |-> "none"]

PhoneInit ==
  /\ get = NoRequest
  /\ cat = NoEntry
  /\ task = NoTask
  /\ run = NoRun
  /\ part = [v \in Version |-> <<>>]
  /\ target = [v \in Version |-> <<>>]
  /\ reg = NoEntry

Running(step) == run.step = step
To(step) == run' = [run EXCEPT !.step = step]
v == run.entry.version

(* GET /maps/regions and the catalog table, which only a new download reads. *)
RefreshCatalog ==
  /\ Running("idle")
  /\ cat' = IF row.enabled THEN [version |-> row.version, size |-> row.size, sum |-> row.sum]
            ELSE NoEntry
  /\ UNCHANGED <<catalogVars, get, task, run, part, target, reg>>

(* The download ends with the task in a status; what was received stays.   *)
Stop(status) ==
  /\ run' = NoRun
  /\ get' = NoRequest
  /\ task' = [task EXCEPT !.status = status]

(* download() and resume(): a partial file of another version is useless.  *)
Download ==
  /\ Running("idle")
  /\ cat # NoEntry
  /\ run' = [NoRun EXCEPT !.step = "begin", !.entry = cat]
  /\ part' = IF task.version \in Version \ {cat.version}
             THEN [part EXCEPT ![task.version] = <<>>] ELSE part
  /\ UNCHANGED <<catalogVars, get, cat, task, target, reg>>

(* The validator is kept for the same version only. *)
Begin ==
  LET etag == IF task.version = v THEN task.etag ELSE None
      received == IF Len(part[v]) > run.entry.size THEN <<>> ELSE part[v]
  IN /\ Running("begin")
     /\ task' = [version |-> v, etag |-> etag, status |-> "downloading"]
     /\ part' = [part EXCEPT ![v] = received]
     /\ run' = [run EXCEPT !.step = IF Len(received) < run.entry.size THEN "request" ELSE "verify",
                           !.etag = etag, !.offset = Len(received)]
     /\ UNCHANGED <<catalogVars, get, cat, target, reg>>

Request ==
  /\ Running("request")
  /\ To("wait")
  /\ get' = [NoRequest EXCEPT !.step = "region", !.from = run.offset,
               !.ifRange = IF run.offset > 0 THEN run.etag ELSE None]
  /\ UNCHANGED <<catalogVars, cat, task, part, target, reg>>

Drop == part' = [part EXCEPT ![v] = <<>>]

(* Mutant of StartOver: the same range is asked again. *)
AskAgainMutant == [run EXCEPT !.step = "request"]
StartOver == [run EXCEPT !.step = "request", !.offset = 0, !.again = FALSE]

(* The start of a 206 is the offset that was asked, as sendFile has it.    *)
(* _transfer: an answer for something else than this entry is discarded,   *)
(* 416 starts over once, 200 starts the file over, 206 continues it.       *)
Receive ==
  /\ Running("wait")
  /\ get.step = "answer"
  /\ \/ get.status \notin {200, 206, 416} /\ Stop("failed") /\ UNCHANGED part
     \/ /\ get.status = 416 /\ get.total # run.offset /\ run.again
        /\ Drop
        /\ run' = StartOver
        /\ get' = NoRequest /\ UNCHANGED task
     \/ get.status = 416 /\ (get.total = run.offset \/ ~run.again) /\ Drop /\ Stop("failed")
     \/ get.status \in {200, 206} /\ get.sum # run.entry.sum /\ Drop /\ Stop("failed")
     \/ /\ get.status \in {200, 206} /\ get.sum = run.entry.sum
        /\ task' = [task EXCEPT !.etag = get.sum]
        /\ part' = IF get.status = 206 THEN part ELSE [part EXCEPT ![v] = <<>>]
        /\ run' = [NoRun EXCEPT !.step = "write", !.entry = run.entry]
        /\ get' = Answer(200, None, get.total, get.body)
  /\ UNCHANGED <<catalogVars, cat, target, reg>>

(* _write: one chunk; more than expected is an error. *)
Write ==
  /\ Running("write")
  /\ get.body # <<>>
  /\ IF Len(part[v]) = run.entry.size THEN Stop("failed") /\ UNCHANGED part
     ELSE /\ part' = [part EXCEPT ![v] = Append(@, Head(get.body))]
          /\ get' = [get EXCEPT !.body = Tail(@), !.total = @ - 1]
          /\ UNCHANGED <<task, run>>
  /\ UNCHANGED <<catalogVars, cat, target, reg>>

(* A body shorter than announced is an error of the connection; one of     *)
(* another length than expected is discarded.                              *)
EndOfBody ==
  /\ Running("write")
  /\ get.body = <<>>
  /\ \/ get.total > 0 /\ Stop("failed") /\ UNCHANGED part
     \/ get.total <= 0 /\ Len(part[v]) # run.entry.size /\ Drop /\ Stop("failed")
     \/ /\ get.total <= 0 /\ Len(part[v]) = run.entry.size
        /\ To("verify") /\ get' = NoRequest /\ UNCHANGED <<task, part>>
  /\ UNCHANGED <<catalogVars, cat, target, reg>>

(* Mutant of Verify: the length of the file is enough. *)
LengthMutant ==
  /\ Running("verify")
  /\ IF Len(part[v]) = run.entry.size
     THEN To("rename") /\ UNCHANGED <<get, task, part>>
     ELSE Drop /\ Stop("failed")
  /\ UNCHANGED <<catalogVars, cat, target, reg>>

(* SHA-256 of the part, then an atomic rename. *)
Verify ==
  /\ Running("verify")
  /\ IF part[v] = Whole(run.entry.sum)
     THEN To("rename") /\ UNCHANGED <<get, task, part>>
     ELSE Drop /\ Stop("failed")
  /\ UNCHANGED <<catalogVars, cat, target, reg>>

Rename ==
  /\ Running("rename")
  /\ target' = [target EXCEPT ![v] = part[v]]
  /\ Drop
  /\ To("register")
  /\ UNCHANGED <<catalogVars, get, cat, task, reg>>

SaveDownloaded ==
  /\ Running("register")
  /\ reg' = run.entry
  /\ To("removeTask")
  /\ UNCHANGED <<catalogVars, get, cat, task, part, target>>

RemoveTask ==
  /\ Running("removeTask")
  /\ task' = NoTask
  /\ To("removeOld")
  /\ UNCHANGED <<catalogVars, get, cat, part, target, reg>>

(* deleteRegionFiles(keepVersion) *)
RemoveOld ==
  /\ Running("removeOld")
  /\ target' = [w \in Version |-> IF w = v THEN target[w] ELSE <<>>]
  /\ part' = [w \in Version |-> IF w = v THEN part[w] ELSE <<>>]
  /\ run' = NoRun
  /\ UNCHANGED <<catalogVars, get, cat, task, reg>>

(* The user or the connection stops a transfer; nothing stops the hash.    *)
Interrupt(status) ==
  /\ run.step \in {"request", "wait", "write"}
  /\ Stop(status)
  /\ UNCHANGED <<catalogVars, cat, part, target, reg>>

(* deleteRegion: discard(), then rows, then files. *)
DeleteRegion ==
  /\ Running("idle")
  /\ reg # NoEntry
  /\ part' = IF task.version = None THEN part ELSE [part EXCEPT ![task.version] = <<>>]
  /\ task' = NoTask
  /\ To("deleteRow")
  /\ UNCHANGED <<catalogVars, get, cat, target, reg>>
DeleteRow ==
  /\ Running("deleteRow")
  /\ reg' = NoEntry
  /\ To("deleteFiles")
  /\ UNCHANGED <<catalogVars, get, cat, task, part, target>>
DeleteFiles ==
  /\ Running("deleteFiles")
  /\ target' = [w \in Version |-> <<>>]
  /\ part' = [w \in Version |-> <<>>]
  /\ run' = NoRun
  /\ UNCHANGED <<catalogVars, get, cat, task, reg>>

(* The app dies and starts again: start() forgets regions without a file   *)
(* and pauses what was downloading.                                        *)
RestartApp ==
  /\ ~Running("idle")
  /\ run' = NoRun
  /\ get' = NoRequest
  /\ reg' = IF reg # NoEntry /\ target[reg.version] = <<>> THEN NoEntry ELSE reg
  /\ task' = IF task.status = "downloading" THEN [task EXCEPT !.status = "paused"] ELSE task
  /\ UNCHANGED <<catalogVars, cat, part, target>>

ServeStep == GetEnabled \/ StatFile \/ SendFile
PhoneStep ==
  \/ Begin \/ Request \/ Receive \/ Write \/ EndOfBody \/ Verify \/ Rename \/ SaveDownloaded
  \/ RemoveTask \/ RemoveOld \/ DeleteRow \/ DeleteFiles

DownloadInit == CatalogInit /\ PhoneInit
DownloadNext(operator) ==
  \/ CatalogNext(operator) /\ UNCHANGED phoneVars
  \/ ServeStep
  \/ PhoneStep
  \/ RefreshCatalog
  \/ Download
  \/ DeleteRegion
  \/ RestartApp
  \/ \E status \in {"paused", "failed"} : Interrupt(status)

RegionSpec(operator) == DownloadInit /\ [][DownloadNext(operator)]_downloadVars
=============================================================================
