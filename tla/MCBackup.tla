------------------------------ MODULE MCBackup ------------------------------
(***************************************************************************)
(* The four parts of the backup service, checked side by side: a behaviour *)
(* is one of the repository, of the runs and their queue, of a database    *)
(* restore, or of the library's links; the other variables stay "off".     *)
(***************************************************************************)
EXTENDS Naturals, Sequences, FiniteSets

CONSTANTS Versions, MaxId,
          Recurring, Items, Check, MaxAttempts, MaxFires, MaxEnds,
          MaxStages, MaxCrashes,
          Paths, Entries, Limit, MaxWrites

VARIABLES
  part,
  data, blobs, snaps, cache, lock, next, run, mir, remote,
  claim, queue, running, todo, firing, kicks, chosen, deferred, timer, quiet, enabled, life, stop,
  fires, ends, owed,
  live, staged, pending, hold, aside, config, server, pc, who, prev, released, stages, crashes,
  fs, entries, manifest, snapshot, plan, rest, seen, restored, writes, lost

Repo == INSTANCE BackupRepo
Runs == INSTANCE BackupRuns
Db == INSTANCE DbRestore
Links == INSTANCE LinkPlans

repo == <<data, blobs, snaps, cache, lock, next, run, mir, remote>>
runs == <<claim, queue, running, todo, firing, kicks, chosen, deferred, timer, quiet, enabled, life,
          stop, fires, ends, owed>>
db == <<live, staged, pending, hold, aside, config, server, pc, who, prev, released, stages, crashes>>
links == <<fs, entries, manifest, snapshot, plan, rest, seen, restored, writes, lost>>
mcvars == <<part, repo, runs, db, links>>

RepoOff == /\ data = "off" /\ blobs = "off" /\ snaps = "off" /\ cache = "off" /\ lock = "off"
           /\ next = "off" /\ run = "off" /\ mir = "off" /\ remote = "off"
RunsOff == /\ claim = "off" /\ queue = "off" /\ running = "off" /\ todo = "off" /\ firing = "off"
           /\ kicks = "off" /\ chosen = "off" /\ deferred = "off" /\ timer = "off" /\ quiet = "off"
           /\ enabled = "off" /\ life = "off" /\ stop = "off" /\ fires = "off" /\ ends = "off" /\ owed = {}
DbOff == /\ live = "off" /\ staged = "off" /\ pending = "off" /\ hold = "off" /\ aside = "off" /\ config = "off"
         /\ server = "off" /\ pc = "off" /\ who = "off" /\ prev = "off" /\ released = "off"
         /\ stages = "off" /\ crashes = "off"
LinksOff == /\ fs = "off" /\ entries = "off" /\ manifest = "off" /\ snapshot = "off" /\ plan = "off"
            /\ rest = "off" /\ seen = "off" /\ restored = "off" /\ writes = "off" /\ lost = "off"

Init ==
  \/ part = "repo" /\ Repo!InitRepo /\ RunsOff /\ DbOff /\ LinksOff
  \/ part = "runs" /\ Runs!InitRuns /\ RepoOff /\ DbOff /\ LinksOff
  \/ part = "db" /\ Db!InitDb /\ RepoOff /\ RunsOff /\ LinksOff
  \/ part = "links" /\ Links!InitLinks /\ RepoOff /\ RunsOff /\ DbOff

Next ==
  \/ part = "repo" /\ Repo!NextRepo /\ UNCHANGED <<part, runs, db, links>>
  \/ part = "runs" /\ Runs!NextRuns /\ UNCHANGED <<part, repo, db, links>>
  \/ part = "db" /\ Db!NextDb /\ UNCHANGED <<part, repo, runs, links>>
  \/ part = "links" /\ Links!NextLinks /\ UNCHANGED <<part, repo, runs, db>>

\* The fairness of BackupRuns in its own behaviours.
resting == <<part, repo, db, links>>
Fairness ==
  /\ WF_mcvars(part = "runs" /\ Runs!Fire(Recurring) /\ UNCHANGED resting)
  /\ WF_mcvars(part = "runs" /\ Runs!KickClaim /\ UNCHANGED resting)
  /\ \A i \in Items : WF_mcvars(part = "runs" /\ Runs!Enqueue(i) /\ UNCHANGED resting)
  /\ WF_mcvars(part = "runs" /\ Runs!ReleaseOther /\ UNCHANGED resting)
  /\ WF_mcvars(part = "runs" /\ Runs!MarkRunning /\ UNCHANGED resting)
  /\ WF_mcvars(part = "runs" /\ Runs!RunEnds /\ UNCHANGED resting)
  /\ WF_mcvars(part = "runs" /\ Runs!KickTake /\ UNCHANGED resting)
  /\ WF_mcvars(part = "runs" /\ Runs!KickBusy /\ UNCHANGED resting)
  /\ WF_mcvars(part = "runs" /\ Runs!KickTimer /\ UNCHANGED resting)
  /\ WF_mcvars(part = "runs" /\ Runs!Exit /\ life = "stopping" /\ UNCHANGED resting)
  /\ WF_mcvars(part = "runs" /\ Runs!Start /\ UNCHANGED resting)
  /\ WF_mcvars(part = "runs" /\ Runs!QuietEnds /\ UNCHANGED resting)

Spec == Init /\ [][Next]_mcvars /\ Fairness

\* Every snapshot record on disk names only blobs on disk (repo.go, jobs.go,
\* repo_prune.go), and on the remote only blobs on the remote, whatever was
\* interrupted, pruned, deleted or half uploaded before.
SnapshotIsWhole == part = "repo" => Repo!SnapshotIsWhole

\* A restored database runs only under the post-restore hold, and the one
\* from before it is kept (dbrestore.go, ApplyPendingRestore).
RestoreIsSafe == part = "db" => Db!RestoreIsSafe

\* A link plan leaves alone what an Arr wrote since it was made
\* (linkcheck.go, ApplyLinkPlan and ApplyCleanup).
ArrFileStays == part = "links" => Links!ArrFileStays

\* A backup run that was due comes to an end, through busy service, quiet
\* hours and restarts (queue.go, kick and recoverQueue).
OwedIsPaid == \A i \in Items \ {Recurring} : []<>(i \notin owed)
=============================================================================
