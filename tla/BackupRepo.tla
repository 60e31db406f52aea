----------------------------- MODULE BackupRepo -----------------------------
(***************************************************************************)
(* The backup repository of pkg/backup: blobs named by their hash,        *)
(* snapshot records that name blobs, the file cache, and the operations    *)
(* that write them (a job's snapshot with its walk, a pre-action snapshot, *)
(* a delete, each followed by a prune), beside the rclone mirror, which    *)
(* takes neither the service claim nor the repository lock.  The process  *)
(* may end between any two steps.                                          *)
(*                                                                         *)
(* The data folder is two files: "db", stored through PutBlob, and "nzb", *)
(* stored by the walk through the file cache.  A blob is a file at a      *)
(* version; it stands for the tree blob and the file blobs of a component. *)
(* A snapshot's id is its creation time.                                   *)
(***************************************************************************)
EXTENDS Naturals, FiniteSets

CONSTANTS Versions,   \* versions a file of the data folder goes through
          MaxId       \* snapshots ever begun

VARIABLES data,    \* the data folder: the version of each file
          blobs,   \* blobs on disk
          snaps,   \* snapshot records on disk, by id
          cache,   \* the saved file cache: the version of "nzb", 0 for none
          lock,    \* the lock file: "free", "held", "stale" (its process is gone)
          next,    \* the clock the next snapshot id comes from
          run,     \* the operation that holds the service claim
          mir,     \* the mirror
          remote   \* what the rclone remote holds

repovars == <<data, blobs, snaps, cache, lock, next, run, mir, remote>>

Blob == {"db", "nzb"} \X Versions
Jobs == {"job", "pre", "delete"}

NoRun == [kind |-> "none", pc |-> "idle", id |-> 0, refs |-> {}, mem |-> 0,
          doomed |-> {}, sweep |-> {}]
NoMir == [pc |-> "idle", list |-> <<>>, live |-> {}]

InitRepo ==
  /\ data = [f \in {"db", "nzb"} |-> CHOOSE v \in Versions : \A w \in Versions : v <= w]
  /\ blobs = {} /\ snaps = <<>> /\ cache = 0 /\ lock = "free" /\ next = 1
  /\ run = NoRun /\ mir = NoMir
  /\ remote = [blobs |-> {}, snaps |-> <<>>]

Restrict(f, S) == [x \in S |-> f[x]]

(* The blobs the records in S of the snapshots f name. *)
Refs(f, S) == UNION {f[i].refs : i \in S}

-----------------------------------------------------------------------------
(* The service claim, then the repository lock: a lock whose process is    *)
(* gone is taken over.                                                     *)
Claim(kind) ==
  /\ run.kind = "none" /\ next <= MaxId
  /\ run' = [NoRun EXCEPT !.kind = kind, !.pc = "lock", !.id = next]
  /\ next' = next + 1
  /\ UNCHANGED <<data, blobs, snaps, cache, lock, mir, remote>>

TakeLock ==
  /\ run.pc = "lock" /\ lock # "held"
  /\ lock' = "held"
  /\ run' = [run EXCEPT !.pc = IF run.kind = "delete" THEN "delete" ELSE "db", !.mem = cache]
  /\ UNCHANGED <<data, blobs, snaps, cache, next, mir, remote>>

(* snapshot captures the components that are not walks first.  Before the  *)
(* walk it writes a partial record, so that an interrupted walk leaves the *)
(* cheap components restorable; pre-action snapshots have no walk.         *)
PutBlob(b) == blobs' = blobs \cup {b}

CaptureDb ==
  /\ run.pc = "db"
  /\ PutBlob(<<"db", data["db"]>>)
  /\ run' = [run EXCEPT !.refs = {<<"db", data["db"]>>},
                        !.pc = IF run.kind = "job" THEN "partial" ELSE "final"]
  /\ UNCHANGED <<data, snaps, cache, lock, next, mir, remote>>

Record(partial) == [kind |-> run.kind, partial |-> partial, refs |-> run.refs]

Stored(r) == [i \in DOMAIN snaps \cup {run.id} |-> IF i = run.id THEN r ELSE snaps[i]]

WritePartial ==
  /\ run.pc = "partial"
  /\ snaps' = Stored(Record(TRUE))
  /\ run' = [run EXCEPT !.pc = "walk"]
  /\ UNCHANGED <<data, blobs, cache, lock, next, mir, remote>>

(* storeFile leaves in the cache: a file the cache knows at this size and time is not read     *)
(* again when its blob is there; a file that is read is stored and goes    *)
(* into the cache, unless it changed while it was read.                    *)
storeFile(v) == IF run.mem = v /\ <<"nzb", v>> \in blobs THEN {v} ELSE {v, 0}

WalkTree ==
  /\ run.pc = "walk"
  /\ LET v == data["nzb"]
     IN \E mem \in storeFile(v) :
          /\ PutBlob(<<"nzb", v>>)
          /\ run' = [run EXCEPT !.refs = @ \cup {<<"nzb", v>>}, !.pc = "final", !.mem = mem]
  /\ UNCHANGED <<data, snaps, cache, lock, next, mir, remote>>

(* The final record replaces the partial one under the same id; the file   *)
(* cache is saved and the lock released on the way out.                    *)
WriteFinal ==
  /\ run.pc = "final"
  /\ snaps' = Stored(Record(FALSE))
  /\ cache' = run.mem /\ lock' = "free"
  /\ run' = [run EXCEPT !.pc = "plan"]
  /\ UNCHANGED <<data, blobs, next, mir, remote>>

(* A capture that fails or is cancelled returns: cache saved, lock free. *)
CaptureFails ==
  /\ run.pc \in {"db", "partial", "walk", "final"}
  /\ cache' = run.mem /\ lock' = "free" /\ run' = NoRun
  /\ UNCHANGED <<data, blobs, snaps, next, mir, remote>>

(* DeleteSnapshot removes the record under the lock, then prunes. *)
DeleteSnapshot ==
  /\ run.pc = "delete"
  /\ \E i \in DOMAIN snaps : snaps' = Restrict(snaps, DOMAIN snaps \ {i})
  /\ lock' = "free" /\ run' = [run EXCEPT !.pc = "plan"]
  /\ UNCHANGED <<data, blobs, cache, next, mir, remote>>

DeleteFindsNone ==
  /\ run.pc = "delete" /\ DOMAIN snaps = {}
  /\ lock' = "free" /\ run' = NoRun
  /\ UNCHANGED <<data, blobs, snaps, cache, next, mir, remote>>

-----------------------------------------------------------------------------
(* Retention.  A partial record is superseded by a later complete one of   *)
(* its job; the candidates are the complete records of the operation's     *)
(* kind, of which the newest is always kept; the counts, calendar buckets  *)
(* and ages decide which of the others are: any of them may go.            *)
Superseded == {i \in DOMAIN snaps : snaps[i].partial /\
                 \E j \in DOMAIN snaps : snaps[j].kind = "job" /\ ~snaps[j].partial /\ j > i}

Candidates == {i \in DOMAIN snaps : ~snaps[i].partial /\ snaps[i].kind = run.kind}

Cached == IF cache = 0 THEN {} ELSE {<<"nzb", cache>>}

(* The partial records left out. *)
LiveComplete(kept) == Refs(snaps, {i \in kept : ~snaps[i].partial}) \cup Cached

(* What a kept snapshot or the file cache names is live. *)
LiveBlobs(kept) == Refs(snaps, kept) \cup Cached

(* PrunePlan is computed without the lock. *)
PrunePlan ==
  /\ run.pc = "plan"
  /\ \E old \in SUBSET {i \in Candidates : \E j \in Candidates : j > i} :
       LET doomed == Superseded \cup old
           sweep  == blobs \ LiveBlobs(DOMAIN snaps \ doomed)
       IN run' = IF doomed = {} /\ sweep = {} THEN NoRun
                 ELSE [run EXCEPT !.pc = "prune", !.doomed = doomed, !.sweep = sweep]
  /\ UNCHANGED <<data, blobs, snaps, cache, lock, next, mir, remote>>

(* Prune takes the lock, works out the live blobs again, deletes the       *)
(* records first and then, one by one, the planned blobs still not live.   *)
PruneSnapshots ==
  /\ run.pc = "prune" /\ lock # "held"
  /\ lock' = "held"
  /\ snaps' = Restrict(snaps, DOMAIN snaps \ run.doomed)
  /\ run' = [run EXCEPT !.pc = "sweep", !.sweep = @ \ LiveBlobs(DOMAIN snaps \ run.doomed)]
  /\ UNCHANGED <<data, blobs, cache, next, mir, remote>>

PruneBlob(b) ==
  /\ run.pc = "sweep" /\ b \in run.sweep
  /\ blobs' = blobs \ {b}
  /\ run' = [run EXCEPT !.sweep = @ \ {b}]
  /\ UNCHANGED <<data, snaps, cache, lock, next, mir, remote>>

PruneEnds ==
  /\ run.pc = "sweep"
  /\ lock' = "free" /\ run' = NoRun
  /\ UNCHANGED <<data, blobs, snaps, cache, next, mir, remote>>

-----------------------------------------------------------------------------
(* The off-box copy.  It lists the complete snapshots and the blobs they   *)
(* name, and returns when a listed file is gone; a file of the list that   *)
(* is gone when rclone comes to it is passed over.  rclone may fail after  *)
(* any part of a list.                                                     *)
MirrorList ==
  /\ mir.pc = "idle"
  /\ LET S == {i \in DOMAIN snaps : ~snaps[i].partial}
     IN /\ S # {} /\ Refs(snaps, S) \subseteq blobs
        /\ mir' = [pc |-> "blobs", list |-> Restrict(snaps, S), live |-> Refs(snaps, S)]
  /\ UNCHANGED <<data, blobs, snaps, cache, lock, next, run, remote>>

After(done, pc) == IF done THEN [mir EXCEPT !.pc = pc] ELSE NoMir

Merge(f, g, S) == [i \in DOMAIN f \cup S |-> IF i \in DOMAIN f THEN f[i] ELSE g[i]]

MirrorBlobs ==
  /\ mir.pc = "blobs"
  /\ \E T \in SUBSET (mir.live \cap blobs) :
       /\ remote' = [remote EXCEPT !.blobs = @ \cup T]
       /\ mir' = After(T = mir.live \cap blobs, "snaps")
  /\ UNCHANGED <<data, blobs, snaps, cache, lock, next, run>>

MirrorSnapshots ==
  /\ mir.pc = "snaps"
  /\ \E T \in SUBSET (DOMAIN mir.list \cap DOMAIN snaps) :
       /\ remote' = [remote EXCEPT !.snaps = Merge(@, mir.list, T)]
       /\ mir' = After(T = DOMAIN mir.list \cap DOMAIN snaps, "delsnaps")
  /\ UNCHANGED <<data, blobs, snaps, cache, lock, next, run>>

(* Records that are not in the list are removed, then blobs. *)
MirrorDeleteSnapshots ==
  /\ mir.pc = "delsnaps"
  /\ \E T \in SUBSET (DOMAIN remote.snaps \ DOMAIN mir.list) :
       /\ remote' = [remote EXCEPT !.snaps = Restrict(@, DOMAIN @ \ T)]
       /\ mir' = After(T = DOMAIN remote.snaps \ DOMAIN mir.list, "delblobs")
  /\ UNCHANGED <<data, blobs, snaps, cache, lock, next, run>>

MirrorDeleteBlobs ==
  /\ mir.pc = "delblobs"
  /\ \E T \in SUBSET (remote.blobs \ mir.live) : remote' = [remote EXCEPT !.blobs = @ \ T]
  /\ mir' = NoMir
  /\ UNCHANGED <<data, blobs, snaps, cache, lock, next, run>>

-----------------------------------------------------------------------------
(* A file of the data folder changes. *)
Write(f) ==
  /\ data[f] + 1 \in Versions
  /\ data' = [data EXCEPT ![f] = @ + 1]
  /\ UNCHANGED <<blobs, snaps, cache, lock, next, run, mir, remote>>

(* The process ends and another one starts on the same folders. *)
Crash ==
  /\ run.kind # "none" \/ mir.pc # "idle"
  /\ run' = NoRun /\ mir' = NoMir
  /\ lock' = IF lock = "held" THEN "stale" ELSE lock
  /\ UNCHANGED <<data, blobs, snaps, cache, next, remote>>

NextRepo ==
  \/ \E kind \in Jobs : Claim(kind)
  \/ TakeLock \/ CaptureDb \/ WritePartial \/ WalkTree \/ WriteFinal \/ CaptureFails
  \/ DeleteSnapshot \/ DeleteFindsNone \/ PrunePlan \/ PruneSnapshots
  \/ \E b \in Blob : PruneBlob(b)
  \/ PruneEnds
  \/ MirrorList \/ MirrorBlobs \/ MirrorSnapshots \/ MirrorDeleteSnapshots \/ MirrorDeleteBlobs
  \/ \E f \in {"db", "nzb"} : Write(f)
  \/ Crash

SpecRepo == InitRepo /\ [][NextRepo]_repovars

-----------------------------------------------------------------------------
(* Every snapshot record on disk, partial ones included, names only blobs  *)
(* that are on disk, and every record on the remote only blobs that are on *)
(* the remote, whatever was interrupted, pruned, deleted or half uploaded  *)
(* before: snapshot writes a record after what it names, Prune deletes no  *)
(* blob a remaining record names, and the mirror uploads blobs first and   *)
(* deletes them last, while a prune may run beside it.                     *)
SnapshotIsWhole == /\ Refs(snaps, DOMAIN snaps) \subseteq blobs
                   /\ Refs(remote.snaps, DOMAIN remote.snaps) \subseteq remote.blobs
=============================================================================
