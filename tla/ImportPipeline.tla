--------------------------- MODULE ImportPipeline ---------------------------
(***************************************************************************)
(* From an accepted torrent or NZB to the record the Arr sees as complete  *)
(* or failed: pkg/manager processor.go, usenet.go, downloader.go,          *)
(* active_queue.go, queue.go, and the part of pkg/usenet that stores a     *)
(* parsed NZB.                                                             *)
(*                                                                         *)
(* Queue records, source files, NZB headers and the main storage survive a *)
(* crash; jobs, tasks and processingEntries do not.  A task works on the   *)
(* copy of the record it was given and every queue.Update puts that whole  *)
(* copy, so a task can overwrite what another one wrote.  Each step below  *)
(* ends at such a write, which is where a crash or another task can get in *)
(* between.                                                                *)
(***************************************************************************)
EXTENDS Integers, FiniteSets

CONSTANTS
  Torrent, Nzb,   \* imports callers add; each id is used once
  Slots,          \* max_active_downloads
  Task,           \* goroutines one import may have at a time, for TLC only
  MaxRestarts,    \* bound on stops and crashes, for TLC only
  Faults          \* which failures the environment may produce

AllFaults == {"provider", "transient", "unlinked", "crash", "delete", "stalled"}

ImportAssumption ==
  /\ Torrent \cap Nzb = {}
  /\ Slots \in Nat \ {0} /\ MaxRestarts \in Nat
  /\ Faults \subseteq AllFaults

Entry == Torrent \cup Nzb

VARIABLES
  rec,      \* the queue bucket: each entry's record, or Absent
  lib,      \* main storage: "absent", "stored" or "complete"
  header,   \* NZB metadata: "none", "parsing", "completed" or "failed"
  staged,   \* NZBs whose <id>.queued file exists
  raw,      \* NZBs whose <id>.nzb file exists
  dead,     \* NZBs whose articles are really gone
  remote,   \* a torrent at its provider: "none", "busy", "ready" or "bad"
  added,    \* entries ever accepted, some long gone
  job,      \* each entry's place in the job queue
  payload,  \* what the job carries: "new", "sent", "resume" or "parsed"
  held,     \* job.Entry, the record copy the job works on
  parses,   \* job.ParseAttempts
  task,     \* each entry's tasks: where each is, and its record copy
  processing, \* processingEntries
  phase,    \* "run", "cancelled" (StopDownloads), "closed" or "down"
  snapshot, \* the records restoreActiveDownloadJobs still has to look at
  verified, \* history: entries an ffprobe pass gave a verdict on
  dirty,    \* MarkEntryDirty: entries the next sweep must probe
  restarts  \* stops and crashes so far

durable == <<rec, lib, header, staged, raw, dead, remote, added>>
volatile == <<job, payload, held, parses, task, processing, snapshot>>
vars == <<durable, volatile, phase, verified, dirty, restarts>>

Absent == [state |-> "absent"]
Record == [state : {"down", "error", "done"},
           status : {"queued", "downloading", "downloaded", "error"},
           busy : BOOLEAN, provider : BOOLEAN, magnet : BOOLEAN, progress : 0..1]
Idle == [at |-> "none"]
Places == {"check", "header", "act", "store", "flag", "link", "gates", "report", "close"}

TypeOK ==
  /\ rec \in [Entry -> Record \cup {Absent}]
  /\ lib \in [Entry -> {"absent", "stored", "complete"}]
  /\ header \in [Nzb -> {"none", "parsing", "completed", "failed"}]
  /\ staged \subseteq Nzb /\ raw \subseteq Nzb /\ dead \subseteq Nzb
  /\ remote \in [Torrent -> {"none", "busy", "ready", "bad"}]
  /\ added \subseteq Entry /\ processing \subseteq Entry /\ verified \subseteq Entry /\ dirty \subseteq Entry
  /\ job \in [Entry -> {"none", "pending", "timer", "start", "send", "parse", "save",
                        "unstage", "update", "process", "drop", "complete", "fill", "wait"}]
  /\ payload \in [Entry -> {"new", "sent", "resume", "parsed"}]
  /\ held \in [Entry -> Record \cup {Absent}]
  /\ parses \in [Entry -> 0..2]
  /\ task \in [Entry -> [Task -> {Idle} \cup [at : Places, copy : Record, owner : BOOLEAN]]]
  /\ phase \in {"run", "cancelled", "closed", "down"}
  /\ snapshot \in [Entry -> Record \cup {Absent}]
  /\ restarts \in 0..MaxRestarts

Init ==
  /\ rec = [e \in Entry |-> Absent]
  /\ lib = [e \in Entry |-> "absent"]
  /\ header = [n \in Nzb |-> "none"]
  /\ staged = {} /\ raw = {}
  /\ added \in SUBSET Entry
  /\ dead \in SUBSET Nzb
  /\ remote = [t \in Torrent |-> "none"]
  /\ job = [e \in Entry |-> "none"]
  /\ payload = [e \in Entry |-> "new"]
  /\ held = [e \in Entry |-> Absent]
  /\ parses = [e \in Entry |-> 0]
  /\ task = [e \in Entry |-> [i \in Task |-> Idle]]
  /\ processing = {} /\ verified = {} /\ dirty = {}
  /\ phase = "run" /\ restarts = 0
  /\ snapshot = [e \in Entry |-> Absent]

-----------------------------------------------------------------------------
(* Records.                                                                *)

Active(r) == r.state = "down"

\* MarkAsError and MarkAsCompleted on a copy.
MarkAsError(r) == [r EXCEPT !.state = "error", !.status = "error", !.busy = FALSE]
MarkAsCompleted(r) == [r EXCEPT !.state = "done", !.busy = FALSE, !.progress = 1]

\* queue.Update and queue.Add put the whole copy, whatever is there: a
\* record deleted meanwhile is back.
Put(e, r) == rec' = [rec EXCEPT ![e] = r]

\* newTorrentQueueEntry, and the entry AddNewNZB builds.
NewEntry(e, provider) ==
  [state |-> "down", status |-> "queued", busy |-> FALSE,
   provider |-> provider, magnet |-> e \in Nzb, progress |-> 0]

\* applyDebridTorrentToEntry: the provider, and its progress.
ApplyDebrid(r, at) == [r EXCEPT !.provider = TRUE, !.progress = IF at = "ready" THEN 1 ELSE 0]

Running == {e \in Entry : job[e] \notin {"none", "pending", "timer"}}

\* SubmitJob, and the two ends a running job has: its slot is free again,
\* or Retry has it.
Submit(e, what, r) ==
  /\ job' = [job EXCEPT ![e] = "pending"]
  /\ payload' = [payload EXCEPT ![e] = what]
  /\ held' = [held EXCEPT ![e] = r]

JobDone(e) == job' = [job EXCEPT ![e] = "none"]

JobAt(e, place) == job' = [job EXCEPT ![e] = place]

\* queue.Update(job.Entry).
PutHeld(e, r) == Put(e, r) /\ held' = [held EXCEPT ![e] = r]

\* startDownloadTask: refused once StopDownloads ran.  A task the tick
\* started owns its mark in processingEntries.
StartTask(e, place, copy, owner) ==
  IF phase # "run" THEN UNCHANGED task
  ELSE \E i \in Task :
         /\ task[e][i] = Idle
         /\ task' = [task EXCEPT ![e][i] = [at |-> place, copy |-> copy, owner |-> owner]]

Stopping == phase # "run"
JobCancelled == phase = "closed"
Fault(f) == f \in Faults

-----------------------------------------------------------------------------
(* Accepting imports.                                                      *)

\* What SendToDebrid may answer: the torrent as the provider holds it, a
\* full account, or an error.
SendToDebrid == {"busy", "ready"} \cup (IF Fault("provider") THEN {"full", "error"} ELSE {})

\* AddNewTorrent inside the submission gate: a record already there answers
\* the request; a full account queues the request itself; an error is the
\* caller's.
AddNewTorrent(t) ==
  /\ phase \in {"run", "cancelled"}
  /\ t \notin added /\ rec[t] = Absent
  /\ \E answer \in SendToDebrid \ {"error"} :
       IF answer = "full"
       THEN /\ Put(t, NewEntry(t, FALSE))
            /\ Submit(t, "new", NewEntry(t, FALSE))
            /\ UNCHANGED remote
       ELSE /\ LET r == ApplyDebrid(NewEntry(t, TRUE), answer)
               IN Put(t, r) /\ Submit(t, "sent", r)
            /\ remote' = [remote EXCEPT ![t] = answer]
  /\ added' = added \cup {t}
  /\ UNCHANGED <<lib, header, staged, raw, dead, parses, task, processing,
                 snapshot, phase, verified, dirty, restarts>>

\* AddNewNZB: stage the file, add the record, submit the job.
AddNewNZB(n) ==
  /\ phase \in {"run", "cancelled"}
  /\ n \notin added
  /\ staged' = staged \cup {n}
  /\ Put(n, NewEntry(n, FALSE))
  /\ Submit(n, "new", NewEntry(n, FALSE))
  /\ added' = added \cup {n}
  /\ UNCHANGED <<lib, header, raw, dead, remote, parses, task, processing,
                 snapshot, phase, verified, dirty, restarts>>

\* The provider finishes or gives up a torrent.  External.
RemoteMoves(t) ==
  /\ remote[t] = "busy"
  /\ \E r \in {"ready"} \cup (IF Fault("provider") THEN {"bad"} ELSE {}) :
       remote' = [remote EXCEPT ![t] = r]
  /\ UNCHANGED <<rec, lib, header, staged, raw, dead, added, volatile, phase,
                 verified, dirty, restarts>>

-----------------------------------------------------------------------------
(* Workers: processJob.                                                    *)

\* What a job step leaves alone unless it says otherwise.
JobFrame == UNCHANGED <<dead, added, snapshot, phase, verified, dirty, restarts>>

\* processJob on an error: recorded, unless the manager is stopping.
JobFails(e) ==
  /\ IF JobCancelled THEN UNCHANGED <<rec, held>> ELSE PutHeld(e, MarkAsError(held[e]))
  /\ JobDone(e)

\* A worker takes a pending job.  A record deleted meanwhile ends it.
TakeJob(e) ==
  /\ job[e] = "pending" /\ phase \in {"run", "cancelled"}
  /\ Cardinality(Running) < Slots
  /\ JobAt(e, IF rec[e] = Absent THEN "wait"
              ELSE CASE payload[e] = "resume" -> "start"
                     [] payload[e] = "parsed" -> "process"
                     [] payload[e] \in {"new", "sent"} /\ e \in Nzb -> "parse"
                     [] OTHER -> "send")
  /\ UNCHANGED <<rec, lib, header, staged, raw, remote, payload, held, parses, task, processing>>
  /\ JobFrame

\* ResumeExisting: the worker itself runs processQueuedTorrent, whatever
\* processingEntries holds.
ResumeJob(t) ==
  /\ job[t] = "start"
  /\ LET r == [held[t] EXCEPT !.status = "downloading", !.busy = FALSE]
     IN /\ PutHeld(t, r)
        /\ \E i \in Task :
             /\ task[t][i] = Idle
             /\ task' = [task EXCEPT ![t][i] = [at |-> "check", copy |-> r, owner |-> TRUE]]
  /\ processing' = processing \cup {t}
  /\ JobAt(t, "wait")
  /\ UNCHANGED <<lib, header, staged, raw, remote, payload, parses>>
  /\ JobFrame

\* processTorrentJob with a request: submit it unless the request handler
\* did, then processNewTorrent.
SendJob(t) ==
  /\ job[t] = "send"
  /\ \E answer \in IF payload[t] = "sent" THEN {remote[t]} ELSE SendToDebrid :
       \/ /\ answer = "full"
          /\ PutHeld(t, [held[t] EXCEPT !.status = "queued"])
          /\ JobAt(t, "timer")
          /\ UNCHANGED <<remote, task>>
       \/ /\ answer = "error"
          /\ JobFails(t)
          /\ UNCHANGED <<remote, task>>
       \/ /\ answer \in {"busy", "ready", "bad"}
          /\ remote' = [remote EXCEPT ![t] = answer]
          /\ LET r == ApplyDebrid([held[t] EXCEPT !.status = "downloading"], answer)
             IN /\ PutHeld(t, r)
                /\ IF answer = "ready" THEN StartTask(t, "act", r, FALSE) ELSE UNCHANGED task
          /\ JobAt(t, "wait")
  /\ UNCHANGED <<lib, header, staged, raw, payload, parses, processing>>
  /\ JobFrame

\* A job in Retry's timer comes back, unless the queue closed.
RetryFires(e) ==
  /\ job[e] = "timer"
  /\ IF JobCancelled THEN JobDone(e) ELSE JobAt(e, "pending")
  /\ UNCHANGED <<rec, lib, header, staged, raw, remote, payload, held, parses, task, processing>>
  /\ JobFrame

\* retryNZBParse: two more attempts, none once the manager stops.
RetryNZBParse(n) == ~JobCancelled /\ parses[n] + 1 < 3

\* processNZBJob up to ParseWithID's answer.
ParseJob(n) ==
  /\ job[n] = "parse"
  /\ \/ /\ n \in staged
        /\ n \notin dead
        /\ JobAt(n, "save")
        /\ UNCHANGED <<rec, held, parses>>
     \/ /\ n \in staged
        /\ n \in dead                               \* rejectDamagedNZB
        /\ PutHeld(n, MarkAsError(held[n]))
        /\ JobDone(n)
        /\ UNCHANGED parses
     \/ /\ n \in staged
        /\ Fault("transient") \/ JobCancelled
        /\ IF RetryNZBParse(n)
           THEN /\ parses' = [parses EXCEPT ![n] = @ + 1]
                /\ JobAt(n, "timer")
                /\ UNCHANGED <<rec, held>>
           ELSE JobFails(n) /\ UNCHANGED parses
     \/ /\ n \notin staged                          \* read staged NZB fails
        /\ JobFails(n)
        /\ UNCHANGED parses
  /\ UNCHANGED <<lib, header, staged, raw, remote, payload, task, processing>>
  /\ JobFrame

\* Mutant: the staged file is removed before the header is written.
SaveJobUnstages(n) ==
  /\ job[n] = "save"
  /\ IF n \notin raw
     THEN raw' = raw \cup {n} /\ staged' = staged \ {n} /\ UNCHANGED <<header, job>>
     ELSE header' = [header EXCEPT ![n] = "parsing"] /\ JobAt(n, "unstage") /\ UNCHANGED <<raw, staged>>
  /\ UNCHANGED <<rec, lib, remote, payload, held, parses, task, processing>>
  /\ JobFrame

\* The rest of ParseWithID: the .nzb file, then the header that points at it.
SaveJob(n) ==
  /\ job[n] = "save"
  /\ IF n \notin raw
     THEN raw' = raw \cup {n} /\ UNCHANGED <<header, job>>
     ELSE header' = [header EXCEPT ![n] = "parsing"] /\ JobAt(n, "unstage") /\ UNCHANGED raw
  /\ UNCHANGED <<rec, lib, staged, remote, payload, held, parses, task, processing>>
  /\ JobFrame

\* The record of an NZB that was parsed.
Parsed(r) == [r EXCEPT !.status = "downloading", !.magnet = FALSE, !.provider = TRUE]

\* RemoveStagedNZB, then the update that says the NZB was parsed.
UnstageJob(n) ==
  /\ \/ job[n] = "unstage" /\ staged' = staged \ {n} /\ JobAt(n, "update") /\ UNCHANGED <<rec, held>>
     \/ job[n] = "update" /\ PutHeld(n, Parsed(held[n])) /\ JobAt(n, "process") /\ UNCHANGED staged
  /\ UNCHANGED <<lib, header, raw, remote, payload, parses, task, processing>>
  /\ JobFrame

\* usenet.Process: the archives and the availability sample.  Any error,
\* a cancelled one too, marks the header failed and deletes the source;
\* processJob then records the failure unless the manager stops.
ProcessJob(n) ==
  /\ job[n] = "process"
  /\ \/ n \notin dead /\ JobAt(n, "drop") /\ UNCHANGED <<rec, held, header, raw>>
     \/ /\ n \in dead \/ Fault("transient") \/ JobCancelled
        /\ header' = [header EXCEPT ![n] = "failed"]
        /\ raw' = raw \ {n}
        /\ JobFails(n)
  /\ UNCHANGED <<lib, staged, remote, payload, parses, task, processing>>
  /\ JobFrame

\* usenet.markAsCompleted: the source goes first, then the header says
\* completed.
CompleteJob(n) ==
  /\ \/ job[n] = "drop" /\ raw' = raw \ {n} /\ JobAt(n, "complete") /\ UNCHANGED header
     \/ /\ job[n] = "complete"
        /\ header' = [header EXCEPT ![n] = "completed"]
        /\ JobAt(n, "fill")
        /\ UNCHANGED raw
  /\ UNCHANGED <<rec, lib, staged, remote, payload, held, parses, task, processing>>
  /\ JobFrame

\* processNZB: the files and the progress, then the import task.  The
\* worker goes on to wait even when the task was refused.
FillJob(n) ==
  /\ job[n] = "fill"
  /\ LET r == [held[n] EXCEPT !.progress = 1]
     IN PutHeld(n, r) /\ StartTask(n, "act", r, FALSE)
  /\ JobAt(n, "wait")
  /\ UNCHANGED <<lib, header, staged, raw, remote, payload, parses, processing>>
  /\ JobFrame

\* waitForDownloadCompletion.
WaitJob(e) ==
  /\ job[e] = "wait"
  /\ ~Active(rec[e]) \/ JobCancelled
  /\ JobDone(e)
  /\ UNCHANGED <<rec, lib, header, staged, raw, remote, payload, held, parses, task, processing>>
  /\ JobFrame

-----------------------------------------------------------------------------
(* The queue tick and the import task.                                     *)

TaskFrame == UNCHANGED <<header, staged, raw, dead, remote, added, job, payload,
                         held, parses, snapshot, phase, restarts>>

\* processQueuedEntries on one record.
Tick(e) ==
  /\ phase = "run"
  /\ Active(rec[e]) /\ rec[e].status # "queued" /\ ~rec[e].busy
  /\ e \notin processing
  /\ e \in Torrent => rec[e].provider
  /\ StartTask(e, IF e \in Torrent THEN "check" ELSE "header", rec[e], TRUE)
  /\ processing' = processing \cup {e}
  /\ UNCHANGED <<rec, lib, verified, dirty>>
  /\ TaskFrame

Copy(e, i) == task[e][i].copy
GoTo(e, i, place, copy) == task' = [task EXCEPT ![e][i].at = place, ![e][i].copy = copy]
TaskEnds(e, i) == task' = [task EXCEPT ![e][i] = Idle]

\* The task records its failure and ends.
FailTask(e, i) == Put(e, MarkAsError(Copy(e, i))) /\ TaskEnds(e, i)

\* processAction on a shutdown: the flag goes, the record stays active.
KeepForRestart(e, i) == Put(e, [Copy(e, i) EXCEPT !.busy = FALSE]) /\ TaskEnds(e, i)

\* processQueuedTorrent: ask the provider; a finished torrent goes on.
CheckTorrent(t, i) ==
  /\ task[t][i].at = "check"
  /\ \/ /\ remote[t] \in {"bad", "none"} \/ Fault("provider")
        /\ FailTask(t, i)
        /\ processing' = processing \ {t}
     \/ /\ remote[t] = "busy"
        /\ Put(t, Copy(t, i))
        /\ TaskEnds(t, i)
        /\ processing' = processing \ {t}
     \/ /\ remote[t] = "ready"
        /\ LET r == [Copy(t, i) EXCEPT !.progress = 1]
           IN Put(t, r) /\ GoTo(t, i, "act", r)
        /\ UNCHANGED processing
  /\ UNCHANGED <<lib, verified, dirty>>
  /\ TaskFrame

\* processQueuedNZB: by the header's status.  A completed one goes on in a
\* task of its own, so processingEntries lets go of it here.
CheckNZB(n, i) ==
  /\ task[n][i].at = "header"
  /\ \/ header[n] \in {"failed", "none"} /\ FailTask(n, i)
     \/ header[n] = "parsing" /\ TaskEnds(n, i) /\ UNCHANGED rec
     \/ /\ header[n] = "completed"
        /\ LET r == [Copy(n, i) EXCEPT !.progress = 1]
           IN /\ Put(n, r)
              /\ IF Stopping THEN TaskEnds(n, i)
                 ELSE task' = [task EXCEPT ![n][i] = [at |-> "act", copy |-> r, owner |-> FALSE]]
  /\ processing' = processing \ {n}
  /\ UNCHANGED <<lib, verified, dirty>>
  /\ TaskFrame

\* processAction's first update.
ActTask(e, i) ==
  /\ task[e][i].at = "act"
  /\ LET r == [Copy(e, i) EXCEPT !.status = "downloaded"]
     IN Put(e, r) /\ GoTo(e, i, "store", r)
  /\ UNCHANGED <<lib, processing, verified, dirty>>
  /\ TaskFrame

\* processQueuedTorrent runs processAction inline and clears its mark in
\* processingEntries when that returns.
EndOfTask(e, i) == processing' = IF task[e][i].owner THEN processing \ {e} ELSE processing

\* The merge and AddOrUpdate into the main storage.
StoreTask(e, i) ==
  /\ task[e][i].at = "store"
  /\ lib' = [lib EXCEPT ![e] = IF @ = "complete" THEN @ ELSE "stored"]
  /\ GoTo(e, i, "flag", Copy(e, i))
  /\ UNCHANGED <<rec, processing, verified, dirty>>
  /\ TaskFrame

\* download: refused on shutdown, else IsDownloading is set.
FlagTask(e, i) ==
  /\ task[e][i].at = "flag"
  /\ IF Stopping
     THEN KeepForRestart(e, i) /\ EndOfTask(e, i)
     ELSE /\ LET r == [Copy(e, i) EXCEPT !.busy = TRUE]
             IN Put(e, r) /\ GoTo(e, i, "link", r)
          /\ UNCHANGED processing
  /\ UNCHANGED <<lib, verified, dirty>>
  /\ TaskFrame

\* createSymlinksWhenMountFilesAppear and waitForSymlinkFilesReady give up at
\* their deadlines, the local downloads after their attempts; a shutdown
\* cancels each of them.
Waits == IF Stopping THEN {"cancelled"}
         ELSE {"ok"} \cup (IF Fault("unlinked") THEN {"failed"} ELSE {})

ProcessSymlink == Waits
ProcessDownload == Waits

\* process: the action's files, then completeEntry.
LinkTask(e, i) ==
  /\ task[e][i].at = "link"
  /\ \E answer \in ProcessSymlink \cup ProcessDownload :
       \/ answer = "ok" /\ GoTo(e, i, "gates", Copy(e, i)) /\ UNCHANGED <<rec, processing>>
       \/ answer = "cancelled" /\ KeepForRestart(e, i) /\ EndOfTask(e, i)
       \/ answer = "failed" /\ FailTask(e, i) /\ EndOfTask(e, i)
  /\ UNCHANGED <<lib, verified, dirty>>
  /\ TaskFrame

\* A check the network or a shutdown cuts short says nothing.
CutShort == Stopping \/ Fault("transient")

\* importAvailabilityGate, statImportGate and paddingImportGate look at an
\* NZB's articles: a segment found gone rejects, anything less admits.
AvailabilityGate(e) ==
  IF e \in dead THEN {"reject"} \cup (IF CutShort THEN {"admit"} ELSE {}) ELSE {"admit"}

StatGate(e) ==
  IF e \in dead THEN {"reject"} \cup (IF CutShort THEN {"admit"} ELSE {}) ELSE {"admit"}

\* What reads left in the overlay: none may have met the dead segment.
PaddingGate(e) == IF e \in dead THEN {"reject", "admit"} ELSE {"admit"}

\* ffprobeImportGate over verifyImportFile's passes: broken rejects; passes
\* that all ran out of time admit the file and mark the entry dirty, except
\* that a shutdown returns before anything is marked.
FFProbeGate(e) ==
  (IF e \in dead THEN {"reject"} ELSE {"verified"})
    \cup (IF Stopping THEN {"cancelled"} ELSE IF CutShort THEN {"inconclusive"} ELSE {})

Rejected(e, i) == FailTask(e, i) /\ EndOfTask(e, i) /\ UNCHANGED <<verified, dirty>>

\* Mutant: completeEntry reports the import without looking at the context.
GateIgnoresStop(e, i) ==
  /\ task[e][i].at = "gates"
  /\ "admit" \in AvailabilityGate(e) \cap StatGate(e) \cap PaddingGate(e)
  /\ \E probe \in FFProbeGate(e) \ {"reject"} :
       /\ verified' = IF probe = "verified" THEN verified \cup {e} ELSE verified
       /\ dirty' = IF probe = "inconclusive" THEN dirty \cup {e} ELSE dirty
       /\ GoTo(e, i, "report", Copy(e, i))
  /\ UNCHANGED <<rec, processing, lib>>
  /\ TaskFrame

\* The gates of completeEntry, then its test of the context: a rejected
\* import's files are removed and its record failed; one whose gates a
\* shutdown may have cut short stays for the next start.
GateTask(e, i) ==
  /\ task[e][i].at = "gates"
  /\ \/ "reject" \in AvailabilityGate(e) \cup StatGate(e) \cup PaddingGate(e) /\ Rejected(e, i)
     \/ /\ "admit" \in AvailabilityGate(e) \cap StatGate(e) \cap PaddingGate(e)
        /\ \E probe \in FFProbeGate(e) :
             \/ probe = "reject" /\ Rejected(e, i)
             \/ /\ probe # "reject"
                /\ verified' = IF probe = "verified" THEN verified \cup {e} ELSE verified
                /\ dirty' = IF probe = "inconclusive" THEN dirty \cup {e} ELSE dirty
                /\ IF Stopping THEN KeepForRestart(e, i) /\ EndOfTask(e, i)
                   ELSE GoTo(e, i, "report", Copy(e, i)) /\ UNCHANGED <<rec, processing>>
  /\ UNCHANGED lib
  /\ TaskFrame

\* markAsCompleted: the main storage first, then the record.
ReportTask(e, i) ==
  /\ \/ /\ task[e][i].at = "report"
        /\ lib' = [lib EXCEPT ![e] = "complete"]
        /\ GoTo(e, i, "close", Copy(e, i))
        /\ UNCHANGED <<rec, processing>>
     \/ /\ task[e][i].at = "close"
        /\ Put(e, MarkAsCompleted(Copy(e, i)))
        /\ TaskEnds(e, i) /\ EndOfTask(e, i)
        /\ UNCHANGED lib
  /\ UNCHANGED <<verified, dirty>>
  /\ TaskFrame

-----------------------------------------------------------------------------
(* Removal, shutdown, crash and restart.                                   *)

\* queue.Delete for a client: the record goes; its job and tasks do not.
DeleteRecord(e) ==
  /\ Fault("delete") /\ phase = "run"
  /\ rec[e] # Absent
  /\ Put(e, Absent)
  /\ UNCHANGED <<lib, header, staged, raw, dead, remote, added, volatile, phase,
                 verified, dirty, restarts>>

\* DeleteStalled on a record old enough: a queued one is kept only while its
\* job is in the slice or the restore is under way.
DeleteStalled(e) ==
  /\ Fault("stalled") /\ phase = "run"
  /\ rec[e] # Absent
  /\ rec[e].status = "queued" =>
       job[e] # "pending" /\ \A f \in Entry : snapshot[f] = Absent
  /\ rec[e].progress = 0
  /\ rec[e].status # "downloading" \/ rec[e].state = "error"
  /\ Put(e, Absent)
  /\ UNCHANGED <<lib, header, staged, raw, dead, remote, added, volatile, phase,
                 verified, dirty, restarts>>

\* StopDownloads, then jobQueue.Close.
Stop ==
  /\ \/ phase = "run" /\ restarts < MaxRestarts /\ phase' = "cancelled"
        /\ restarts' = restarts + 1
     \/ phase = "cancelled" /\ phase' = "closed" /\ UNCHANGED restarts
  /\ UNCHANGED <<durable, volatile, verified, dirty>>

NoTask == \A e \in Entry, i \in Task : task[e][i] = Idle

Forget ==
  /\ phase' = "down"
  /\ job' = [e \in Entry |-> "none"]
  /\ payload' = [e \in Entry |-> "new"]
  /\ held' = [e \in Entry |-> Absent]
  /\ parses' = [e \in Entry |-> 0]
  /\ task' = [e \in Entry |-> [i \in Task |-> Idle]]
  /\ processing' = {}
  /\ snapshot' = [e \in Entry |-> Absent]

\* Stop returns once workers and tasks have ended.
Halt ==
  /\ phase = "closed" /\ NoTask /\ Running = {}
  /\ Forget
  /\ UNCHANGED <<durable, verified, dirty, restarts>>

Crash ==
  /\ Fault("crash") /\ phase # "down" /\ restarts < MaxRestarts
  /\ restarts' = restarts + 1
  /\ Forget
  /\ UNCHANGED <<durable, verified, dirty>>

\* The next start: restoreActiveDownloadJobs lists the active records; its
\* walk over them runs beside the workers and the tick.
Start ==
  /\ phase = "down"
  /\ phase' = "run"
  /\ snapshot' = [e \in Entry |-> IF Active(rec[e]) THEN rec[e] ELSE Absent]
  /\ UNCHANGED <<durable, job, payload, held, parses, task, processing, verified, dirty, restarts>>

NzbNeedsReprocessing(e) == e \in Nzb /\ header[e] = "parsing"

\* Mutant: only flags are reset; the job of a queued record is not rebuilt.
RestoreFlagsOnly(e) ==
  /\ snapshot[e] # Absent /\ phase = "run"
  /\ IF snapshot[e].busy THEN Put(e, [snapshot[e] EXCEPT !.busy = FALSE]) ELSE UNCHANGED rec
  /\ snapshot' = [snapshot EXCEPT ![e] = Absent]
  /\ UNCHANGED <<lib, header, staged, raw, dead, remote, added, job, payload, held,
                 parses, task, processing, phase, verified, dirty, restarts>>

\* rebuildQueuedNZBJob's source: the file the header names, else the staged
\* file, which is handed on unparsed.
HeaderHasPath(n) == header[n] \in {"parsing", "failed"}

\* rebuildQueuedJob and the submission, on a record whose flag is reset.
RebuildTorrent(t, r) ==
  Put(t, r) /\ Submit(t, IF r.provider THEN "resume" ELSE "new", r)

RebuildNZB(n, r) ==
  \/ /\ HeaderHasPath(n) /\ n \in raw /\ n \notin dead
     /\ Put(n, Parsed(r)) /\ Submit(n, "parsed", Parsed(r))
  \/ /\ HeaderHasPath(n)
     /\ n \notin raw \/ n \in dead \/ Fault("transient")
     /\ Put(n, MarkAsError(r))
     /\ UNCHANGED <<job, payload, held>>
  \/ /\ ~HeaderHasPath(n)
     /\ IF r.magnet
        THEN LET q == [r EXCEPT !.status = "queued"] IN Put(n, q) /\ Submit(n, "new", q)
        ELSE Put(n, MarkAsError(r)) /\ UNCHANGED <<job, payload, held>>

\* restoreActiveDownloadJobs on one record of its list: the flag is reset; a
\* queued record, or an NZB whose processing was cut short, gets its job
\* back.  The copy is the one listed at the start.
Restore(e) ==
  /\ snapshot[e] # Absent /\ phase = "run"
  /\ LET r == [snapshot[e] EXCEPT !.busy = FALSE]
     IN IF r.status # "queued" /\ ~NzbNeedsReprocessing(e)
        THEN /\ IF snapshot[e].busy THEN Put(e, r) ELSE UNCHANGED rec
             /\ UNCHANGED <<job, payload, held>>
        ELSE IF e \in Torrent THEN RebuildTorrent(e, r) ELSE RebuildNZB(e, r)
  /\ snapshot' = [snapshot EXCEPT ![e] = Absent]
  /\ UNCHANGED <<lib, header, staged, raw, dead, remote, added, parses, task, processing,
                 phase, verified, dirty, restarts>>

Next ==
  \/ \E t \in Torrent : AddNewTorrent(t) \/ RemoteMoves(t) \/ ResumeJob(t) \/ SendJob(t)
  \/ \E n \in Nzb :
       \/ AddNewNZB(n) \/ ParseJob(n) \/ SaveJob(n) \/ UnstageJob(n)
       \/ ProcessJob(n) \/ CompleteJob(n) \/ FillJob(n)
  \/ \E e \in Entry :
       \/ TakeJob(e) \/ RetryFires(e) \/ WaitJob(e) \/ Tick(e) \/ Restore(e)
       \/ DeleteRecord(e) \/ DeleteStalled(e)
  \/ \E e \in Entry, i \in Task :
       \/ e \in Torrent /\ CheckTorrent(e, i)
       \/ e \in Nzb /\ CheckNZB(e, i)
       \/ ActTask(e, i) \/ StoreTask(e, i) \/ FlagTask(e, i) \/ LinkTask(e, i)
       \/ GateTask(e, i) \/ ReportTask(e, i)
  \/ Stop \/ Halt \/ Crash \/ Start

Spec == Init /\ [][Next]_vars

\* Goroutines that can run do run, the provider ends its downloads and its
\* account is not full for ever (processJob retries without a limit), the
\* scheduler keeps ticking and a stopped process is started again.
Fairness ==
  /\ \A t \in Torrent : WF_vars(RemoteMoves(t)) /\ WF_vars(ResumeJob(t)) /\ SF_vars(SendJob(t) /\ job'[t] # "timer")
  /\ \A n \in Nzb :
       /\ WF_vars(ParseJob(n)) /\ WF_vars(SaveJob(n)) /\ WF_vars(UnstageJob(n))
       /\ WF_vars(ProcessJob(n)) /\ WF_vars(CompleteJob(n)) /\ WF_vars(FillJob(n))
  /\ \A e \in Entry :
       /\ SF_vars(TakeJob(e)) /\ WF_vars(RetryFires(e)) /\ WF_vars(WaitJob(e))
       /\ SF_vars(Tick(e)) /\ WF_vars(Restore(e))
  /\ \A e \in Entry, i \in Task :
       WF_vars(\/ e \in Torrent /\ CheckTorrent(e, i)
               \/ e \in Nzb /\ CheckNZB(e, i)
               \/ ActTask(e, i) \/ StoreTask(e, i) \/ FlagTask(e, i) \/ LinkTask(e, i)
               \/ GateTask(e, i) \/ ReportTask(e, i))
  /\ WF_vars(phase # "run" /\ (Stop \/ Halt \/ Start))

FairSpec == Spec /\ Fairness

-----------------------------------------------------------------------------
(* Properties.                                                             *)

\* A queued NZB record can always be parsed, also by the process that finds
\* it after a crash: its staged file is there, or the .nzb its header names.
SourceIsKept ==
  \A n \in Nzb :
    Active(rec[n]) /\ rec[n].status = "queued" =>
      n \in staged \/ (header[n] = "parsing" /\ n \in raw)

\* An import the Arr is told is complete is in the main storage, and was
\* probed or is marked for the next sweep to probe: a shutdown that cuts the
\* gates short, with nothing marked, admits nothing.
ReportedIsChecked ==
  \A e \in Entry : rec[e].state = "done" => lib[e] # "absent" /\ e \in verified \cup dirty

\* One import, one task: IsDownloading and processingEntries are there to
\* keep the queue tick away from an entry that is being imported.
OneImporter ==
  \A e \in Entry : \A i, j \in Task :
    task[e][i] # Idle /\ task[e][j] # Idle => i = j

\* Every import ends: whatever fails or restarts, its record becomes
\* complete, failed or deleted.  (A tick may overlap a task that has not yet
\* set IsDownloading; should it do so for ever, two tasks could go on
\* overwriting each other's record.)
ImportSettles ==
  <>[]OneImporter => \A e \in Entry : Active(rec[e]) ~> ~Active(rec[e])
=============================================================================
