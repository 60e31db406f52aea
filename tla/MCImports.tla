----------------------------- MODULE MCImports ------------------------------
(***************************************************************************)
(* Imports, in two parts checked side by side: the queue that shares out   *)
(* import jobs among workers (JobQueue, extended here) and one torrent or  *)
(* NZB on its way through the import pipeline.  While one part runs the    *)
(* other rests in an initial state: an empty queue, or a pipeline both     *)
(* imports have left and nothing is added to.                              *)
(***************************************************************************)
EXTENDS JobQueue

CONSTANTS Torrent, Nzb, Slots, Task, MaxRestarts, Faults

VARIABLES
  part,
  rec, lib, header, staged, raw, dead, remote, added, job, payload, held, parses, task,
  processing, phase, snapshot, verified, dirty, restarts

Import == INSTANCE ImportPipeline

ASSUME ImportAssumption == Import!ImportAssumption

import == <<rec, lib, header, staged, raw, dead, remote, added, job, payload, held, parses,
            task, processing, phase, snapshot, verified, dirty, restarts>>
mcvars == <<part, vars, import>>

\* One import is to come; the other one was added, and its record removed,
\* before the behaviour starts.
OneToCome == Cardinality(Import!Entry \ added) = 1

MCInit ==
  /\ Init /\ Import!Init
  /\ \/ part = "jobs" /\ added = Import!Entry /\ dead = {}
     \/ part = "import" /\ OneToCome

MCNext == \/ part = "jobs" /\ Next /\ UNCHANGED <<part, import>>
          \/ part = "import" /\ Import!Next /\ UNCHANGED <<part, vars>>

MCSpec == MCInit /\ [][MCNext]_mcvars /\ Import!Fairness

\* A queued NZB record can always be parsed, also by the process that finds
\* it after a crash: its staged file is there, or the .nzb its header names
\* (usenet.go, saveNZBFile and RemoveStaged).
SourceIsKept == Import!SourceIsKept

\* An import the Arr is told is complete is in the main storage, and was
\* probed or is marked for the next sweep to probe (downloader.go, usenet.go).
ReportedIsChecked == Import!ReportedIsChecked

\* Every import ends: whatever fails or restarts, its record becomes complete,
\* failed or deleted (processor.go, active_queue.go).
ImportSettles == Import!ImportSettles
=============================================================================
