------------------------------ MODULE PlexReap ------------------------------
(***************************************************************************)
(* PlexReaper (pkg/manager/plex_reap*.go) removes a title's unavailable    *)
(* versions from Plex once their file has been replaced.  Notices become   *)
(* persistent jobs (Enqueue), retried by a loop (runDue, process) or       *)
(* brought forward by an import (NudgeFolder); a backlog scan applies the  *)
(* same guards to items the user chose.                                    *)
(*                                                                         *)
(* One title with the two file paths "old" and "new".  Time is left open:  *)
(* a job that is not due may become due at any time.                       *)
(***************************************************************************)
EXTENDS Integers, FiniteSets

CONSTANTS
  MaxTries,    \* plexReapEventMaxTries
  MaxEvents,   \* bound on what the Arr and the mount do
  MaxSlips    \* bound on failed lookups and on Plex refusing a delete

VARIABLES
  disk,      \* [path -> "gone" | "dangling" | "there"] the library's symlink
  mount,     \* the mount behind the links answers
  arrFile,   \* the path the Arr holds for the title, or "none"
  version,   \* [path -> "none" | "live" | "marked"] Plex's versions of the title
  playing,   \* someone plays the title
  job,       \* the job of "old": [on, source, tries, scanned, due]
  actor,     \* [thread -> [pc, copy, item, owned]]; threads are "loop" and "apply"
  actMu,     \* the thread inside act, or "none"
  picked,    \* the backlog scan found the title to have an unavailable version
  settled,   \* no file has appeared at "old" since the last look at the disk
  events, slips

reapvars == <<disk, mount, arrFile, version, playing, job, actor, actMu, picked, settled,
              events, slips>>

Paths   == {"old", "new"}
Thread2 == {"loop", "apply"}
NoJob   == [on |-> FALSE, source |-> "none", tries |-> 0, scanned |-> FALSE, due |-> FALSE]
Off     == [pc |-> "idle", copy |-> NoJob, item |-> [p \in Paths |-> "none"]]
world   == <<disk, mount, arrFile, version, playing>>
Readable(p) == disk[p] = "there" /\ mount
Slip    == slips < MaxSlips /\ slips' = slips + 1

InitReap ==
  /\ disk = [p \in Paths |-> IF p = "old" THEN "there" ELSE "gone"]
  /\ mount = TRUE /\ arrFile = "old" /\ playing = FALSE
  /\ \E v \in {"live", "none"} : version = [p \in Paths |-> IF p = "old" THEN v ELSE "none"]
  /\ job = NoJob /\ actor = [t \in Thread2 |-> Off] /\ actMu = "none"
  /\ picked = FALSE /\ settled = TRUE /\ events = 0 /\ slips = 0

---------------------------------------------------------------------------
(* The Arr, the mount and Plex (external)                                  *)

Event == events < MaxEvents /\ events' = events + 1

(* Enqueue merges a notice into the job of the same old files; an Arr's    *)
(* own notice brings a re-grab's job forward.                              *)
Enqueue(source) ==
  job' = IF job.on THEN [job EXCEPT !.due = @ \/ source # "repair"]
         ELSE [NoJob EXCEPT !.on = TRUE, !.source = source, !.due = source # "repair"]

(* The Arr replaces its file: an upgrade or a rename.                      *)
Upgrade ==
  /\ Event /\ arrFile = "old"
  /\ disk' = [disk EXCEPT !["old"] = "gone", !["new"] = "there"] /\ arrFile' = "new"
  /\ Enqueue("upgrade")
  /\ UNCHANGED <<mount, version, playing, actor, actMu, picked, settled, slips>>

(* A repair deletes the Arr's file and asks for another one; the link may  *)
(* stay behind.                                                            *)
Regrab ==
  /\ Event /\ arrFile = "old" /\ arrFile' = "none"
  /\ disk' \in {disk, [disk EXCEPT !["old"] = "gone"]}
  /\ Enqueue("repair")
  /\ UNCHANGED <<mount, version, playing, actor, actMu, picked, settled, slips>>

(* The replacement is imported, under a new path or under the old one, and *)
(* the webhook nudges the folder's jobs.                                   *)
NudgeFolder == job' = IF job.on /\ ~job.due THEN [job EXCEPT !.due = TRUE, !.scanned = FALSE]
               ELSE job
Replace(p) ==
  /\ arrFile = "none" /\ arrFile' = p /\ disk' = [disk EXCEPT ![p] = "there"]
  /\ settled' = (settled /\ p # "old")
  /\ NudgeFolder
  /\ UNCHANGED <<mount, version, playing, actor, actMu, picked, events, slips>>

(* The entry behind a link goes, or the mount does, or someone presses play*)
Dangle(p) ==
  /\ Event /\ disk[p] = "there" /\ disk' = [disk EXCEPT ![p] = "dangling"]
  /\ UNCHANGED <<mount, arrFile, version, playing, job, actor, actMu, picked, settled, slips>>
Mount ==
  /\ Event /\ mount' = ~mount
  /\ UNCHANGED <<disk, arrFile, version, playing, job, actor, actMu, picked, settled, slips>>
Play ==
  /\ Event /\ playing' = ~playing
  /\ UNCHANGED <<disk, mount, arrFile, version, job, actor, actMu, picked, settled, slips>>

(* Plex scans the folder: readable files are live, others become marked.   *)
Scanned == [p \in Paths |-> IF Readable(p) THEN "live"
                            ELSE IF version[p] = "none" THEN "none" ELSE "marked"]
PlexScan ==
  /\ version # Scanned /\ version' = Scanned
  /\ UNCHANGED <<disk, mount, arrFile, playing, job, actor, actMu, picked, settled, events, slips>>

---------------------------------------------------------------------------
(* evaluateReap                                                            *)

Stale(item) == {p \in Paths : item[p] = "marked"}
Live(item)  == {p \in Paths : item[p] = "live"}
Targets(t, item) == IF t = "loop" THEN Stale(item) \cap {"old"} ELSE Stale(item)

(* The guards before any Arr lookup: an unavailable version, a live one    *)
(* that can be read, and no file left of the unavailable ones.             *)
NoDiskGuard(t, item) ==
  IF Targets(t, item) = {} THEN "no_stale"
  ELSE IF Live(item) = {} THEN "all_unavailable" ELSE "pass"
DiskVerdict(t, item) ==
  IF Targets(t, item) = {} THEN
    IF t = "loop" /\ item["old"] = "live"
    THEN IF arrFile = "old" THEN "same_path" ELSE "not_marked_yet"
    ELSE "no_stale"
  ELSE IF Live(item) = {} THEN "all_unavailable"
  ELSE IF ~\E p \in Live(item) : Readable(p) THEN "live_unreadable"
  ELSE IF \E p \in Targets(t, item) : disk[p] # "gone" THEN "stale_on_disk"
  ELSE "pass"

ArrVerdict(t, item) ==
  IF arrFile = "none" THEN "arr_not_live"
  ELSE IF arrFile \in Targets(t, item) THEN "arr_references"
  ELSE IF arrFile \notin Live(item) THEN "arr_not_live"
  ELSE IF playing THEN "playing" ELSE "pass"

Waiting(v) == v \in {"not_marked_yet", "live_unreadable", "arr_not_live", "playing", "lookup_failed"}

---------------------------------------------------------------------------
(* The loop                                                                *)

Set(t, r)  == actor' = [actor EXCEPT ![t] = r]
At(t, pc)  == Set(t, [actor[t] EXCEPT !.pc = pc])

Due ==
  /\ job.on /\ ~job.due /\ job' = [job EXCEPT !.due = TRUE]
  /\ UNCHANGED <<world, actor, actMu, picked, settled, events, slips>>

(* runDue takes a copy of a job that is due.  Only the remainder by three  *)
(* of a re-grab's attempts matters.                                        *)
Tried(j) == IF j.source = "repair" THEN (j.tries + 1) % 3 ELSE j.tries + 1
runDue ==
  /\ actor["loop"].pc = "idle" /\ job.on /\ job.due
  /\ Set("loop", [Off EXCEPT !.pc = "process", !.copy = [job EXCEPT !.tries = Tried(job)]])
  /\ UNCHANGED <<world, job, actMu, picked, settled, events, slips>>

(* After process: a job that is done goes; another keeps a nudge that came *)
(* meanwhile, and otherwise what the copy says.                            *)
Finish(done, copy) ==
  job' = IF done \/ ~job.on THEN NoJob ELSE [copy EXCEPT !.due = FALSE]

expired(copy) == copy.source # "repair" /\ copy.tries >= MaxTries

(* retry: a re-grab's job has 72 hours, an event's job ten attempts.       *)
retry(copy) ==
  \/ expired(copy) /\ Finish(TRUE, copy)
  \/ ~expired(copy) /\ Finish(FALSE, [copy EXCEPT !.scanned = @ /\ ~(copy.source = "repair" /\ copy.tries = 0)])
  \/ copy.source = "repair" /\ Finish(TRUE, copy)              \* the 72 hours are over

(* process: the first attempt only asks Plex to scan; later ones look the  *)
(* item up and act on it.                                                  *)
process ==
  LET copy == actor["loop"].copy IN
  /\ actor["loop"].pc = "process"
  /\ \/ /\ Slip /\ retry(copy) /\ Set("loop", Off) /\ UNCHANGED version
     \/ /\ ~copy.scanned /\ version' = Scanned /\ UNCHANGED slips
        /\ Finish(FALSE, [copy EXCEPT !.scanned = TRUE, !.tries = job.tries]) /\ Set("loop", Off)
     \/ /\ copy.scanned /\ version = [p \in Paths |-> "none"]       \* not found in Plex
        /\ retry(copy) /\ Set("loop", Off) /\ UNCHANGED <<version, slips>>
     \/ /\ copy.scanned /\ \E p \in Paths : version[p] # "none"
        /\ Set("loop", [actor["loop"] EXCEPT !.pc = "act", !.item = version])
        /\ UNCHANGED <<job, version, slips>>
  /\ UNCHANGED <<disk, mount, arrFile, playing, actMu, picked, settled, events>>

(* What process does with act's verdict.                                   *)
Concluded(t, v) ==
  /\ actMu' = "none"
  /\ IF t = "loop"
       THEN /\ Set(t, Off)
            /\ IF Waiting(v) THEN retry(actor[t].copy) ELSE Finish(TRUE, actor[t].copy)
       ELSE Set(t, Off) /\ UNCHANGED job

---------------------------------------------------------------------------
(* act: evaluate, fetch the item again, evaluate again, delete             *)

beginAct(t) ==
  /\ actor[t].pc = "act" /\ actMu = "none" /\ actMu' = t /\ At(t, "disk1")
  /\ UNCHANGED <<world, job, picked, settled, events, slips>>

evaluateDisk(t) ==
  LET v == DiskVerdict(t, actor[t].item) IN
  /\ actor[t].pc \in {"disk1", "disk2"}
  /\ IF v = "pass"
       THEN At(t, IF actor[t].pc = "disk1" THEN "arr1" ELSE "arr2") /\ UNCHANGED <<job, actMu>>
       ELSE Concluded(t, v)
  /\ settled' = IF v = "pass" THEN TRUE ELSE settled
  /\ UNCHANGED <<world, picked, events, slips>>

evaluateArr(t) ==
  LET v == ArrVerdict(t, actor[t].item) IN
  /\ actor[t].pc \in {"arr1", "arr2"}
  /\ \/ /\ v = "pass" /\ UNCHANGED <<job, actMu, slips>>
        /\ At(t, IF actor[t].pc = "arr1" THEN "fetch" ELSE "delete")
     \/ v # "pass" /\ Concluded(t, v) /\ UNCHANGED slips
     \/ Slip /\ Concluded(t, "lookup_failed")
  /\ UNCHANGED <<world, picked, settled, events>>

fetchAgain(t) ==
  /\ actor[t].pc = "fetch"
  /\ \/ /\ Set(t, [actor[t] EXCEPT !.pc = "disk2", !.item = version])
        /\ UNCHANGED <<job, actMu, slips>>
     \/ Slip /\ Concluded(t, "lookup_failed")
  /\ UNCHANGED <<world, picked, settled, events>>

(* DeleteMedia removes the version, and the file if there is one.          *)
deleteMedia(t) ==
  LET gone == Targets(t, actor[t].item) IN
  /\ actor[t].pc = "delete"
  /\ \/ /\ version' = [p \in Paths |-> IF p \in gone THEN "none" ELSE version[p]]
        /\ disk' = [p \in Paths |-> IF p \in gone THEN "gone" ELSE disk[p]]
        /\ Concluded(t, "reaped") /\ UNCHANGED slips
     \/ Slip /\ Concluded(t, "plex_delete_failed") /\ UNCHANGED <<version, disk>>
  /\ UNCHANGED <<mount, arrFile, playing, picked, settled, events>>

---------------------------------------------------------------------------
(* The backlog: a scan lists titles with an unavailable version, and the   *)
(* user applies it                                                         *)

runScan ==
  /\ ~picked /\ Stale(version) # {} /\ picked' = TRUE
  /\ UNCHANGED <<world, job, actor, actMu, settled, events, slips>>

ApplyScan ==
  /\ picked /\ actor["apply"].pc = "idle" /\ picked' = FALSE
  /\ Set("apply", [Off EXCEPT !.pc = "act", !.item = version])
  /\ UNCHANGED <<world, job, actMu, settled, events, slips>>

(* The process restarts: jobs are on disk after every change.              *)
Restart ==
  /\ Event /\ actor' = [t \in Thread2 |-> Off] /\ actMu' = "none" /\ picked' = FALSE
  /\ UNCHANGED <<world, job, settled, slips>>

NextReap ==
  \/ Upgrade \/ Regrab \/ (\E p \in Paths : Replace(p) \/ Dangle(p))
  \/ Mount \/ Play \/ PlexScan \/ Due \/ runDue \/ process \/ runScan \/ ApplyScan \/ Restart
  \/ \E t \in Thread2 : beginAct(t) \/ evaluateDisk(t) \/ evaluateArr(t) \/ fetchAgain(t)
                        \/ deleteMedia(t)

SpecReap == InitReap /\ [][NextReap]_reapvars

---------------------------------------------------------------------------
(* Reaping takes no file and no title: a version that is deleted has no    *)
(* file on disk, unless the Arr imported one at the very path after the    *)
(* last look, and the title keeps another version.                         *)
ReapStep ==
  \A t \in Thread2 :
    deleteMedia(t) /\ version' # version
      => /\ \E p \in Paths : version'[p] # "none"
         /\ (disk' # disk => ~settled)
ReapIsSafe == [][ReapStep]_reapvars
============================================================================
