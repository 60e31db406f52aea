---------------------------- MODULE StorageProofs ---------------------------
(***************************************************************************)
(* What the program keeps on disk.  For every number of versions,          *)
(* snapshots, restores and crashes: what the backup service promises about *)
(* its snapshots, about a database restore and about the library's links.  *)
(* For every size of the mount's block buffer: what a read hands out; and  *)
(* for every number of sessions: what the ranges of a cache item read as.  *)
(***************************************************************************)
EXTENDS MCBackup, MCVfs, TLAPS

-----------------------------------------------------------------------------
(* The repository and its mirror.                                          *)

\* An operation that may still write the record of its id.
Writing == {"lock", "delete", "db", "partial", "walk", "final"}

RepoShapes ==
  /\ run = [kind |-> run.kind, pc |-> run.pc, id |-> run.id, refs |-> run.refs,
            mem |-> run.mem, doomed |-> run.doomed, sweep |-> run.sweep]
  /\ mir = [pc |-> mir.pc, list |-> mir.list, live |-> mir.live]
  /\ remote = [blobs |-> remote.blobs, snaps |-> remote.snaps]

\* Ids come from a clock, so a record that is complete, listed or mirrored is
\* never written again.
Ids ==
  /\ next \in Nat /\ run.id \in Nat /\ run.id < next
  /\ \A i \in DOMAIN snaps : i \in Nat /\ i < next
  /\ \A i \in DOMAIN mir.list : i \in Nat /\ i < next
  /\ \A i \in DOMAIN remote.snaps : i \in Nat /\ i < next
  /\ run.pc \in Writing => /\ run.id \notin DOMAIN mir.list
                           /\ run.id \notin DOMAIN remote.snaps
                           /\ run.id \in DOMAIN snaps => snaps[run.id].partial

\* The operation under way: what it is about to name is stored, and what it
\* is about to delete nobody names.
Local ==
  /\ \A i \in DOMAIN snaps : snaps[i].refs \subseteq blobs
  /\ run.pc \in {"partial", "walk", "final"} => run.refs \subseteq blobs
  /\ run.pc = "sweep" => \A i \in DOMAIN snaps : run.sweep \cap snaps[i].refs = {}

Agree(f, g) == \A i \in DOMAIN f : i \in DOMAIN g => f[i] = g[i]

\* The mirror: its list, the remote and the disk agree on the records they
\* share; a listed record that is still on disk has its blobs uploaded before
\* it is; and blobs are deleted only when every record left is a listed one.
Copies ==
  /\ Agree(mir.list, snaps)
  /\ Agree(remote.snaps, snaps)
  /\ Agree(remote.snaps, mir.list)
  /\ \A i \in DOMAIN mir.list : mir.list[i].refs \subseteq mir.live
  /\ \A i \in DOMAIN remote.snaps : remote.snaps[i].refs \subseteq remote.blobs
  /\ mir.pc = "snaps" => \A i \in DOMAIN mir.list : i \in DOMAIN snaps =>
                           mir.list[i].refs \subseteq remote.blobs
  /\ mir.pc = "delblobs" => DOMAIN remote.snaps \subseteq DOMAIN mir.list

RepoInv == RepoShapes /\ Ids /\ Local /\ Copies

LEMMA RepoInvImplies == RepoInv => Repo!SnapshotIsWhole
BY DEF RepoInv, Local, Copies, Repo!SnapshotIsWhole, Repo!Refs

LEMMA RepoInit == Repo!InitRepo => RepoInv
BY DEF Repo!InitRepo, RepoInv, RepoShapes, Ids, Local, Copies, Agree, Writing,
       Repo!NoRun, Repo!NoMir

USE DEF Writing, Agree

LEMMA RepoStep == RepoInv /\ [Repo!NextRepo]_Repo!repovars => RepoInv'
<1> SUFFICES ASSUME RepoInv, [Repo!NextRepo]_Repo!repovars PROVE RepoInv'
  OBVIOUS
<1> USE DEF RepoInv
<1>1. ASSUME NEW kind \in Repo!Jobs, Repo!Claim(kind) PROVE RepoInv'
  <2>1. run' = [kind |-> kind, pc |-> "lock", id |-> next, refs |-> {}, mem |-> 0,
                doomed |-> {}, sweep |-> {}]
    BY <1>1 DEF Repo!Claim, Repo!NoRun
  <2>2. next' = next + 1 /\ UNCHANGED <<blobs, snaps, mir, remote>>
    BY <1>1 DEF Repo!Claim
  <2> QED BY <2>1, <2>2 DEF RepoShapes, Ids, Local, Copies
<1>2. CASE Repo!TakeLock
  BY <1>2 DEF Repo!TakeLock, RepoShapes, Ids, Local, Copies
<1>3. CASE Repo!CaptureDb
  BY <1>3 DEF Repo!CaptureDb, Repo!PutBlob, RepoShapes, Ids, Local, Copies
<1>4. CASE Repo!WritePartial
  BY <1>4 DEF Repo!WritePartial, Repo!Stored, Repo!Record, RepoShapes, Ids, Local, Copies
<1>5. CASE Repo!WalkTree
  BY <1>5 DEF Repo!WalkTree, Repo!PutBlob, RepoShapes, Ids, Local, Copies
<1>6. CASE Repo!WriteFinal
  BY <1>6 DEF Repo!WriteFinal, Repo!Stored, Repo!Record, RepoShapes, Ids, Local, Copies
<1>7. CASE Repo!CaptureFails
  BY <1>7 DEF Repo!CaptureFails, Repo!NoRun, RepoShapes, Ids, Local, Copies
<1>8. CASE Repo!DeleteSnapshot
  BY <1>8 DEF Repo!DeleteSnapshot, Repo!Restrict, RepoShapes, Ids, Local, Copies
<1>9. CASE Repo!DeleteFindsNone
  BY <1>9 DEF Repo!DeleteFindsNone, Repo!NoRun, RepoShapes, Ids, Local, Copies
<1>10. CASE Repo!PrunePlan
  <2>1. UNCHANGED <<next, blobs, snaps, mir, remote>>
    BY <1>10 DEF Repo!PrunePlan
  <2>2. PICK doomed, sweep : \/ run' = Repo!NoRun
                            \/ run' = [run EXCEPT !.pc = "prune", !.doomed = doomed, !.sweep = sweep]
    BY <1>10, Zenon DEF Repo!PrunePlan
  <2>3. CASE run' = Repo!NoRun
    BY <2>1, <2>3 DEF Repo!NoRun, RepoShapes, Ids, Local, Copies
  <2>4. CASE run' = [run EXCEPT !.pc = "prune", !.doomed = doomed, !.sweep = sweep]
    BY <2>1, <2>4 DEF RepoShapes, Ids, Local, Copies
  <2> QED BY <2>2, <2>3, <2>4
<1>11. CASE Repo!PruneSnapshots
  BY <1>11 DEF Repo!PruneSnapshots, Repo!Restrict, Repo!LiveBlobs, Repo!Refs,
               RepoShapes, Ids, Local, Copies
<1>12. ASSUME NEW b \in Repo!Blob, Repo!PruneBlob(b) PROVE RepoInv'
  BY <1>12 DEF Repo!PruneBlob, RepoShapes, Ids, Local, Copies
<1>13. CASE Repo!PruneEnds
  BY <1>13 DEF Repo!PruneEnds, Repo!NoRun, RepoShapes, Ids, Local, Copies
<1>14. CASE Repo!MirrorList
  BY <1>14 DEF Repo!MirrorList, Repo!Restrict, Repo!Refs, RepoShapes, Ids, Local, Copies
<1>15. CASE Repo!MirrorBlobs
  <2>1. UNCHANGED <<next, blobs, snaps, run>> /\ mir.pc = "blobs"
    BY <1>15 DEF Repo!MirrorBlobs
  <2>2. PICK T \in SUBSET (mir.live \cap blobs) :
          /\ remote' = [remote EXCEPT !.blobs = @ \cup T]
          /\ mir' = Repo!After(T = mir.live \cap blobs, "snaps")
    BY <1>15 DEF Repo!MirrorBlobs
  <2>3. remote' = [blobs |-> remote.blobs \cup T, snaps |-> remote.snaps]
    BY <2>2 DEF RepoShapes
  <2>4. CASE T = mir.live \cap blobs
    <3>1. mir' = [pc |-> "snaps", list |-> mir.list, live |-> mir.live]
      BY <2>2, <2>4 DEF Repo!After, RepoShapes
    <3> QED BY <2>1, <2>3, <2>4, <3>1 DEF RepoShapes, Ids, Local, Copies
  <2>5. CASE T # mir.live \cap blobs
    <3>1. mir' = [pc |-> "idle", list |-> <<>>, live |-> {}]
      BY <2>2, <2>5 DEF Repo!After, Repo!NoMir
    <3> QED BY <2>1, <2>3, <3>1 DEF RepoShapes, Ids, Local, Copies
  <2> QED BY <2>4, <2>5
<1>16. CASE Repo!MirrorSnapshots
  <2>1. UNCHANGED <<next, blobs, snaps, run>> /\ mir.pc = "snaps"
    BY <1>16 DEF Repo!MirrorSnapshots
  <2>2. PICK T \in SUBSET (DOMAIN mir.list \cap DOMAIN snaps) :
          /\ remote' = [remote EXCEPT !.snaps = Repo!Merge(@, mir.list, T)]
          /\ mir' = Repo!After(T = DOMAIN mir.list \cap DOMAIN snaps, "delsnaps")
    BY <1>16 DEF Repo!MirrorSnapshots
  <2> DEFINE M == Repo!Merge(remote.snaps, mir.list, T)
  <2>3. remote' = [blobs |-> remote.blobs, snaps |-> M]
    BY <2>2 DEF RepoShapes
  <2>4. /\ DOMAIN M = DOMAIN remote.snaps \cup T
        /\ \A i \in DOMAIN M : M[i] = IF i \in DOMAIN remote.snaps THEN remote.snaps[i]
                                                                 ELSE mir.list[i]
    BY DEF Repo!Merge
  <2> HIDE DEF M
  <2>5. \/ mir' = [pc |-> "delsnaps", list |-> mir.list, live |-> mir.live]
        \/ mir' = [pc |-> "idle", list |-> <<>>, live |-> {}]
    BY <2>2 DEF Repo!After, Repo!NoMir, RepoShapes
  <2>6. RepoShapes' /\ Ids' /\ Local'
    BY <2>1, <2>3, <2>4, <2>5 DEF RepoShapes, Ids, Local, Copies
  <2>7. Copies'
    BY <2>1, <2>3, <2>4, <2>5 DEF RepoShapes, Copies
  <2> QED BY <2>6, <2>7
<1>17. CASE Repo!MirrorDeleteSnapshots
  <2>1. UNCHANGED <<next, blobs, snaps, run>> /\ mir.pc = "delsnaps"
    BY <1>17 DEF Repo!MirrorDeleteSnapshots
  <2>2. PICK T \in SUBSET (DOMAIN remote.snaps \ DOMAIN mir.list) :
          /\ remote' = [remote EXCEPT !.snaps = Repo!Restrict(@, DOMAIN @ \ T)]
          /\ mir' = Repo!After(T = DOMAIN remote.snaps \ DOMAIN mir.list, "delblobs")
    BY <1>17 DEF Repo!MirrorDeleteSnapshots
  <2> DEFINE M == Repo!Restrict(remote.snaps, DOMAIN remote.snaps \ T)
  <2>3. remote' = [blobs |-> remote.blobs, snaps |-> M]
    BY <2>2 DEF RepoShapes
  <2>4. DOMAIN M = DOMAIN remote.snaps \ T /\ \A i \in DOMAIN M : M[i] = remote.snaps[i]
    BY DEF Repo!Restrict
  <2> HIDE DEF M
  <2>5. CASE T = DOMAIN remote.snaps \ DOMAIN mir.list
    <3>1. mir' = [pc |-> "delblobs", list |-> mir.list, live |-> mir.live]
      BY <2>2, <2>5 DEF Repo!After, RepoShapes
    <3> QED BY <2>1, <2>3, <2>4, <2>5, <3>1 DEF RepoShapes, Ids, Local, Copies
  <2>6. CASE T # DOMAIN remote.snaps \ DOMAIN mir.list
    <3>1. mir' = [pc |-> "idle", list |-> <<>>, live |-> {}]
      BY <2>2, <2>6 DEF Repo!After, Repo!NoMir
    <3> QED BY <2>1, <2>3, <2>4, <3>1 DEF RepoShapes, Ids, Local, Copies
  <2> QED BY <2>5, <2>6
<1>18. CASE Repo!MirrorDeleteBlobs
  <2>1. UNCHANGED <<next, blobs, snaps, run>> /\ mir.pc = "delblobs"
    BY <1>18 DEF Repo!MirrorDeleteBlobs
  <2>2. PICK T \in SUBSET (remote.blobs \ mir.live) :
          remote' = [blobs |-> remote.blobs \ T, snaps |-> remote.snaps]
    BY <1>18 DEF Repo!MirrorDeleteBlobs, RepoShapes
  <2>3. mir' = [pc |-> "idle", list |-> <<>>, live |-> {}]
    BY <1>18 DEF Repo!MirrorDeleteBlobs, Repo!NoMir
  <2>4. \A i \in DOMAIN remote.snaps : remote.snaps[i].refs \subseteq mir.live
    BY <2>1 DEF Copies
  <2> QED BY <2>1, <2>2, <2>3, <2>4 DEF RepoShapes, Ids, Local, Copies
<1>19. ASSUME NEW f \in {"db", "nzb"}, Repo!Write(f) PROVE RepoInv'
  BY <1>19 DEF Repo!Write, RepoShapes, Ids, Local, Copies
<1>20. CASE Repo!Crash
  BY <1>20 DEF Repo!Crash, Repo!NoRun, Repo!NoMir, RepoShapes, Ids, Local, Copies
<1>21. CASE UNCHANGED Repo!repovars
  BY <1>21 DEF Repo!repovars, RepoShapes, Ids, Local, Copies
<1> QED
  BY <1>1, <1>2, <1>3, <1>4, <1>5, <1>6, <1>7, <1>8, <1>9, <1>10, <1>11, <1>12, <1>13,
     <1>14, <1>15, <1>16, <1>17, <1>18, <1>19, <1>20, <1>21 DEF Repo!NextRepo

\* A snapshot on disk or on the remote can be restored from what lies beside
\* it: no interruption of a run, a prune, a delete or an upload, in whatever
\* order they meet, takes a blob from under a record (repo.go, jobs.go,
\* repo_prune.go, offsite.go).
THEOREM SnapshotsAreWhole == Repo!SpecRepo => []SnapshotIsWhole
<1>1. RepoInv => SnapshotIsWhole BY RepoInvImplies DEF SnapshotIsWhole
<1>2. Repo!InitRepo => RepoInv BY RepoInit
<1>3. RepoInv /\ [Repo!NextRepo]_Repo!repovars => RepoInv' BY RepoStep
<1> QED BY <1>1, <1>2, <1>3, PTL DEF Repo!SpecRepo

-----------------------------------------------------------------------------
(* The restore of the database.                                            *)

Swapping == {"move", "swap", "unmark"}

DbShapes ==
  /\ live \in {"original", "restored", "none"} /\ prev \in {"original", "restored", "none"}
  /\ staged \in {"restored", "none"}
  /\ config \in {"own", "restored", "none"}
  /\ server \in {"up", "down"}
  /\ pc \in {"idle", "staging", "files", "apply"} \cup Swapping
  /\ pending \in BOOLEAN /\ hold \in BOOLEAN /\ released \in BOOLEAN

\* A restore that can still be applied.
Ready == pending /\ staged = "restored"

\* A restored database nobody has looked at is behind the hold, or a restore
\* has to be applied before anything opens it.
Covered == live = "restored" => hold \/ released

\* What each place of the restore knows.
DbPlaces ==
  /\ server = "up" => pc \in {"idle", "staging"} /\ Covered /\ live # "none"
  /\ pc = "staging" => ~pending /\ (who # "start" => server = "down")
  /\ pc = "files" => Covered /\ live # "none"
  /\ pc \in {"move", "swap"} => Ready /\ hold
  /\ pc = "move" => prev = live
  /\ pc = "swap" => live = "none"
  /\ pc = "unmark" => live = "restored" /\ hold

\* What a crash leaves: without a database, or with a restored one that is not
\* behind the hold, there is a restore to apply.
DbLeft ==
  /\ live = "none" => Ready
  /\ Covered \/ Ready

\* The database and the settings from before.
DbKept ==
  /\ live = "original" \/ "original" \in aside
  /\ config = "own" \/ "own" \in aside

DbInv == DbShapes /\ DbPlaces /\ DbLeft /\ DbKept

LEMMA DbInvImplies == DbInv => Db!RestoreIsSafe
BY DEF DbInv, DbShapes, DbPlaces, DbKept, Covered, Db!RestoreIsSafe

LEMMA DbInit == Db!InitDb => DbInv
BY DEF Db!InitDb, DbInv, DbShapes, DbPlaces, DbLeft, DbKept, Covered, Ready, Swapping

LEMMA DbStep == DbInv /\ [Db!NextDb]_Db!dbvars => DbInv'
<1> SUFFICES ASSUME DbInv, [Db!NextDb]_Db!dbvars PROVE DbInv'
  OBVIOUS
<1> USE DEF DbInv, DbShapes, DbPlaces, DbLeft, DbKept, Covered, Ready, Swapping
<1>1. CASE Db!Stage BY <1>1 DEF Db!Stage, Db!StageDB
<1>2. CASE Db!StageArchive BY <1>2 DEF Db!StageArchive, Db!StageDB
<1>3. CASE Db!RestoreFromArchive
  BY <1>3 DEF Db!RestoreFromArchive, Db!FilesDone, Db!MoveSettings
<1>4. CASE Db!StageFails BY <1>4 DEF Db!StageFails
<1>5. CASE Db!StageMarks BY <1>5 DEF Db!StageMarks
<1>6. CASE Db!RestoreFiles
  BY <1>6 DEF Db!RestoreFiles, Db!FilesDone, Db!MoveSettings
<1>7. CASE Db!Start BY <1>7 DEF Db!Start
<1>8. CASE Db!ApplyNothing BY <1>8 DEF Db!ApplyNothing, Db!Open
<1>9. CASE Db!ApplyBroken BY <1>9 DEF Db!ApplyBroken, Db!GiveUp
<1>10. CASE Db!WriteHold BY <1>10 DEF Db!WriteHold, Db!GiveUp
<1>11. CASE Db!MoveAside BY <1>11 DEF Db!MoveAside, Db!GiveUp
<1>12. CASE Db!Swap BY <1>12 DEF Db!Swap, Db!GiveUp
<1>13. CASE Db!Unmark BY <1>13 DEF Db!Unmark, Db!Open
<1>14. CASE Db!ReleaseHold BY <1>14 DEF Db!ReleaseHold
<1>15. CASE Db!Stop BY <1>15 DEF Db!Stop
<1>16. CASE Db!Crash BY <1>16 DEF Db!Crash
<1>17. CASE UNCHANGED Db!dbvars BY <1>17 DEF Db!dbvars
<1> QED
  BY <1>1, <1>2, <1>3, <1>4, <1>5, <1>6, <1>7, <1>8, <1>9, <1>10, <1>11, <1>12, <1>13,
     <1>14, <1>15, <1>16, <1>17 DEF Db!NextDb

\* However often the process ends between two steps of a restore, the server
\* opens a restored database only behind the hold or after a user released
\* it, never an empty one, and what was there before is kept (dbrestore.go,
\* ApplyPendingRestore).
THEOREM RestoresAreSafe == Db!SpecDb => []RestoreIsSafe
<1>1. DbInv => RestoreIsSafe BY DbInvImplies DEF RestoreIsSafe
<1>2. Db!InitDb => DbInv BY DbInit
<1>3. DbInv /\ [Db!NextDb]_Db!dbvars => DbInv' BY DbStep
<1> QED BY <1>1, <1>2, <1>3, PTL DEF Db!SpecDb

-----------------------------------------------------------------------------
(* The library's links.                                                    *)

LEMMA LinksStep == Links!ArrFileStays /\ [Links!NextLinks]_Links!linkvars => Links!ArrFileStays'
<1> SUFFICES ASSUME lost = {}, [Links!NextLinks]_Links!linkvars PROVE lost' = {}
  BY DEF Links!ArrFileStays
<1>1. ASSUME NEW p \in Paths, Links!ApplyCreate(p) PROVE lost' = {}
  BY <1>1 DEF Links!ApplyCreate, Links!Becomes, Links!Newer, Links!IsLink, Links!Nothing, Links!File
<1>2. ASSUME NEW p \in Paths, Links!ApplyRemove(p) PROVE lost' = {}
  BY <1>2 DEF Links!ApplyRemove, Links!Becomes, Links!Newer, Links!IsLink, Links!File
<1>3. ASSUME NEW p \in Paths,
             \/ Links!RetargetLooks(p) \/ Links!Retarget(p)
             \/ Links!ApplyNothing(p) \/ Links!ArrWrites(p)
      PROVE  lost' = {}
  BY <1>3 DEF Links!RetargetLooks, Links!Retarget, Links!ApplyNothing, Links!ArrWrites
<1>4. CASE \/ Links!BuildManifest \/ Links!Snapshot \/ Links!PlanRestore \/ Links!PlanCleanup
           \/ Links!AutoRecreate \/ Links!PlanEnds
  BY <1>4 DEF Links!BuildManifest, Links!Snapshot, Links!PlanRestore, Links!PlanCleanup,
              Links!AutoRecreate, Links!PlanEnds
<1>5. ASSUME NEW e \in Entries, Links!EntryChanges(e) PROVE lost' = {}
  BY <1>5 DEF Links!EntryChanges
<1>6. CASE UNCHANGED Links!linkvars
  BY <1>6 DEF Links!linkvars
<1> QED BY <1>1, <1>2, <1>3, <1>4, <1>5, <1>6 DEF Links!NextLinks

\* However long a plan lay about and whatever the Arr did meanwhile, applying
\* it removes nothing the Arr wrote since it was made, for any number of
\* paths (linkcheck.go, ApplyLinkPlan and ApplyCleanup).
THEOREM LinksStay == Links!SpecLinks => []ArrFileStays
<1>1. Links!InitLinks => Links!ArrFileStays BY DEF Links!InitLinks, Links!ArrFileStays
<1>2. Links!ArrFileStays /\ [Links!NextLinks]_Links!linkvars => Links!ArrFileStays' BY LinksStep
<1>3. Links!ArrFileStays => ArrFileStays BY DEF ArrFileStays
<1> QED BY <1>1, <1>2, <1>3, PTL DEF Links!SpecLinks

-----------------------------------------------------------------------------
(* The mount's block buffer, for any number of cells, block size, memory   *)
(* and disk budget.                                                        *)

\* A reader that only goes forward, if the pool reclaims what lies behind it.
Orderly == "pool" \in crew => "forward" \in crew

\* What may still be read.
Near(c) == "forward" \in crew => c >= head

Writers == {"writer", "second"}

BufShapes ==
  /\ DOMAIN file = Buffer!Cell /\ head \in Int /\ ranges \subseteq Buffer!Cell
  /\ DOMAIN op = Buffer!OpThread /\ \A t \in Buffer!OpThread : DOMAIN op[t] = {"at", "S", "got"}
  /\ \A b \in Buffer!Resident : DOMAIN blocks[b] = {"data", "dirty"} /\ DOMAIN blocks[b].data = Buffer!CellsOf(b)
  /\ DOMAIN state = Buffer!Block

\* A write is of one block.
Regions ==
  \A t \in Writers : op[t].at # "idle" =>
    /\ op[t].S # {} /\ op[t].S \subseteq Buffer!Cell
    /\ \A c, d \in op[t].S : Buffer!BlockOf(c) = Buffer!BlockOf(d)

Dirty == \A b \in Buffer!Resident : \A c \in blocks[b].dirty : c \in Buffer!CellsOf(b) /\ blocks[b].data[c] = "data"

\* What is present is in its block, and in the file too unless dirty there.
Held(c) == IF Buffer!BlockOf(c) \in Buffer!Resident
           THEN /\ blocks[Buffer!BlockOf(c)].data[c] = "data"
                /\ c \notin blocks[Buffer!BlockOf(c)].dirty => file[c] = "data"
           ELSE file[c] = "data"
Kept == \A c \in ranges : Near(c) => Held(c)

Through == \A t \in Writers : op[t].at = "note" => \A c \in op[t].S : Near(c) => file[c] = "data"

\* The fast path is open only to blocks that are on disk as a whole.
Fast == closed # "closed" =>
          \A b \in Buffer!Block : state[b] = "fast" => b \notin Buffer!Resident /\ Buffer!CellsOf(b) \subseteq ranges

Reading ==
  /\ op["reader"].at # "idle" => op["reader"].S \in Buffer!Run /\ \A c \in op["reader"].S : Near(c)
  /\ op["reader"].at = "fast" /\ closed # "closed" => \A c \in op["reader"].S : file[c] = "data"
  /\ op["reader"].got # "zeros"

\* The pool discards behind the reader, a caller while nobody reads or writes.
Discarding ==
  op["discarder"].at # "idle" =>
    \/ /\ op["discarder"].got = "pool" /\ "pool" \in crew
       /\ \A c \in op["discarder"].S : c \in Int /\ c < head
    \/ /\ op["discarder"].got # "pool" /\ \A t \in Buffer!OpThread \ {"discarder"} : op[t].at = "idle"
       /\ op["discarder"].at = "punch" => Buffer!FirstRun(op["discarder"].S) \cap ranges = {}

Sound == BufShapes /\ Regions /\ Dirty /\ Kept /\ Through /\ Fast /\ Reading /\ Discarding

BufInv == (cast = {} /\ troupe = {}) => crew # {} /\ (Orderly => Sound)

LEMMA RunFacts ==
  ASSUME NEW S \in Buffer!Run
  PROVE  /\ S # {} /\ S \subseteq Buffer!Cell
         /\ Buffer!Low(S) \in S /\ \A c \in S : Buffer!Low(S) <= c
         /\ Buffer!High(S) \in S /\ \A c \in S : c <= Buffer!High(S)
<1>1. PICK lo, hi \in Buffer!Cell : S = lo .. hi BY DEF Buffer!Run
<1>2. S # {} BY DEF Buffer!Run
<1>3. lo \in Int /\ hi \in Int /\ lo <= hi BY <1>1, <1>2 DEF Buffer!Cell
<1>4. S \subseteq Buffer!Cell BY <1>1, <1>3, BufferAssumption DEF Buffer!Cell
<1>5. lo \in S /\ \A d \in S : lo <= d BY <1>1, <1>3
<1>6. hi \in S /\ \A d \in S : d <= hi BY <1>1, <1>3
<1>7. Buffer!Low(S) \in S /\ \A d \in S : Buffer!Low(S) <= d BY <1>5 DEF Buffer!Low
<1>8. Buffer!High(S) \in S /\ \A d \in S : d <= Buffer!High(S) BY <1>6 DEF Buffer!High
<1> QED BY <1>2, <1>4, <1>7, <1>8

Fields == {"at", "S", "got"}

LEMMA NoOpIs ==
  ASSUME NEW g
  PROVE  LET o == [Buffer!NoOp EXCEPT !.got = g]
         IN  DOMAIN o = Fields /\ o.at = "idle" /\ o.S = {} /\ o.got = g
BY DEF Buffer!NoOp, Fields

\* One thread's operation is replaced.
LEMMA OpIs ==
  ASSUME BufShapes, NEW t \in Buffer!OpThread, NEW o, DOMAIN o = Fields, op' = [op EXCEPT ![t] = o]
  PROVE  /\ op'[t] = o /\ \A u \in Buffer!OpThread : u # t => op'[u] = op[u]
         /\ DOMAIN op' = Buffer!OpThread
         /\ \A u \in Buffer!OpThread : DOMAIN op'[u] = Fields
BY DEF BufShapes, Fields

LEMMA DoneIs ==
  ASSUME BufShapes, NEW t \in Buffer!OpThread, NEW g, Buffer!Done(t, g)
  PROVE  /\ op'[t].at = "idle" /\ op'[t].S = {} /\ op'[t].got = g
         /\ \A u \in Buffer!OpThread : u # t => op'[u] = op[u]
         /\ DOMAIN op' = Buffer!OpThread
         /\ \A u \in Buffer!OpThread : DOMAIN op'[u] = Fields
<1> DEFINE o == [Buffer!NoOp EXCEPT !.got = g]
<1>1. DOMAIN o = Fields /\ o.at = "idle" /\ o.S = {} /\ o.got = g BY NoOpIs
<1>2. op' = [op EXCEPT ![t] = o] BY DEF Buffer!Done
<1> HIDE DEF o
<1> QED BY <1>1, <1>2, OpIs

LEMMA AtIs ==
  ASSUME BufShapes, NEW t \in Buffer!OpThread, NEW place, Buffer!At(t, place)
  PROVE  /\ op'[t].at = place /\ op'[t].S = op[t].S /\ op'[t].got = op[t].got
         /\ \A u \in Buffer!OpThread : u # t => op'[u] = op[u]
         /\ DOMAIN op' = Buffer!OpThread
         /\ \A u \in Buffer!OpThread : DOMAIN op'[u] = Fields
BY DEF Buffer!At, BufShapes, Fields

\* The reader's position only moves on, if anybody minds.
Onward == head' \in Int /\ ("forward" \in crew => head' >= head) /\ crew' = crew

LEMMA NearBefore ==
  ASSUME BufShapes, Onward, NEW c \in Int, Near(c)'
  PROVE  Near(c)
BY DEF BufShapes, Onward, Near

LEMMA CellsAreInts == Buffer!Cell \subseteq Int
BY DEF Buffer!Cell

\* What is stored stays as it is.
LEMMA ContentKeeps ==
  ASSUME Sound, Onward, UNCHANGED <<file, blocks, ranges, state>>,
         closed = "closed" => closed' = "closed"
  PROVE  Dirty' /\ Kept' /\ Fast'
<1>1. Dirty' BY DEF Sound, Dirty, Buffer!Resident
<1>2. Kept'
  <2> SUFFICES ASSUME NEW c \in ranges', Near(c)' PROVE Held(c)' BY DEF Kept
  <2>1. Near(c) BY NearBefore, CellsAreInts DEF Sound, BufShapes
  <2> QED BY <2>1 DEF Sound, Kept, Held, Buffer!Resident
<1>3. Fast' BY DEF Sound, Fast, Buffer!Resident
<1> QED BY <1>1, <1>2, <1>3

LEMMA ContentShapes ==
  ASSUME Sound, Onward, UNCHANGED <<file, blocks, ranges, state>>,
         DOMAIN op' = Buffer!OpThread, \A u \in Buffer!OpThread : DOMAIN op'[u] = Fields
  PROVE  BufShapes'
BY DEF Sound, BufShapes, Onward, Fields, Buffer!Resident

LEMMA ThreadsAre ==
  /\ Writers \subseteq Buffer!OpThread /\ "reader" \in Buffer!OpThread
  /\ "discarder" \in Buffer!OpThread /\ "reader" \notin Writers /\ "discarder" \notin Writers
BY DEF Writers, Buffer!OpThread

\* A writer's place alone changes, or it is through.
LEMMA WriterMoves ==
  ASSUME Sound, Orderly, NEW t \in Writers, UNCHANGED <<crew, file, blocks, ranges, state, head, closed>>,
         op["discarder"].at = "idle" \/ op["discarder"].got = "pool",
         \A u \in Buffer!OpThread : u # t => op'[u] = op[u],
         DOMAIN op' = Buffer!OpThread, \A u \in Buffer!OpThread : DOMAIN op'[u] = Fields,
         op'[t].at # "idle" => /\ op'[t].S # {} /\ op'[t].S \subseteq Buffer!Cell
                               /\ \A c, d \in op'[t].S : Buffer!BlockOf(c) = Buffer!BlockOf(d),
         op'[t].at # "note"
  PROVE  Sound'
<1>1. Onward BY DEF Sound, BufShapes, Onward
<1>2. BufShapes' BY <1>1, ContentShapes
<1>3. Dirty' /\ Kept' /\ Fast' BY <1>1, ContentKeeps
<1>4. Regions' BY ThreadsAre DEF Sound, Regions
<1>5. Through' BY ThreadsAre DEF Sound, Through, Near
<1>6. Reading' BY ThreadsAre DEF Sound, Reading, Near
<1>7. Discarding' BY ThreadsAre DEF Sound, Discarding
<1> QED BY <1>2, <1>3, <1>4, <1>5, <1>6, <1>7 DEF Sound

\* A writer that is under way has the field but for the pool.
LEMMA WriterMeetsPool ==
  ASSUME Sound, NEW t \in Writers, op[t].at # "idle"
  PROVE  op["discarder"].at = "idle" \/ op["discarder"].got = "pool"
BY ThreadsAre DEF Sound, Discarding

LEMMA WriteKeeps ==
  ASSUME Sound, Orderly, NEW t \in Writers, NEW S \in Buffer!Run, Buffer!Write(t, S)
  PROVE  Sound'
<1>1. UNCHANGED <<crew, file, blocks, ranges, state, head, closed>>
  BY DEF Buffer!Write, Buffer!content
<1>2. t \in Buffer!OpThread BY ThreadsAre
<1>3. op["discarder"].at = "idle" \/ op["discarder"].got = "pool" BY DEF Buffer!Write
<1>4. CASE closed # "open"
  <2>1. Buffer!Done(t, "closed") BY <1>4 DEF Buffer!Write
  <2>2. /\ op'[t].at = "idle" /\ \A u \in Buffer!OpThread : u # t => op'[u] = op[u]
        /\ DOMAIN op' = Buffer!OpThread /\ \A u \in Buffer!OpThread : DOMAIN op'[u] = Fields
    BY <1>2, <2>1, DoneIs DEF Sound
  <2> QED BY <1>1, <1>3, <2>2, WriterMoves
<1>5. CASE closed = "open"
  <2> DEFINE o == [Buffer!NoOp EXCEPT !.at = "probe", !.S = S]
  <2>1. op' = [op EXCEPT ![t] = o] BY <1>5 DEF Buffer!Write
  <2>2. DOMAIN o = Fields /\ o.at = "probe" /\ o.S = S BY DEF Buffer!NoOp, Fields
  <2> HIDE DEF o
  <2>3. /\ op'[t] = o /\ \A u \in Buffer!OpThread : u # t => op'[u] = op[u]
        /\ DOMAIN op' = Buffer!OpThread /\ \A u \in Buffer!OpThread : DOMAIN op'[u] = Fields
    BY <1>2, <2>1, <2>2, OpIs DEF Sound
  <2>4. S # {} /\ S \subseteq Buffer!Cell BY RunFacts
  <2>5. \A c, d \in S : Buffer!BlockOf(c) = Buffer!BlockOf(d) BY DEF Buffer!Write
  <2> QED BY <1>1, <1>3, <2>2, <2>3, <2>4, <2>5, WriterMoves
<1> QED BY <1>4, <1>5

LEMMA ProbeRoomKeeps ==
  ASSUME Sound, Orderly, NEW t \in Writers, Buffer!ProbeRoom(t)
  PROVE  Sound'
<1>1. UNCHANGED <<crew, file, blocks, ranges, state, head, closed>> /\ op[t].at = "probe"
  BY DEF Buffer!ProbeRoom, Buffer!content
<1>2. t \in Buffer!OpThread BY ThreadsAre
<1>3. PICK place \in {"cached", "through"} : Buffer!At(t, place) BY DEF Buffer!ProbeRoom
<1>4. /\ op'[t].at = place /\ op'[t].S = op[t].S /\ \A u \in Buffer!OpThread : u # t => op'[u] = op[u]
      /\ DOMAIN op' = Buffer!OpThread /\ \A u \in Buffer!OpThread : DOMAIN op'[u] = Fields
  BY <1>2, <1>3, AtIs DEF Sound
<1>5. /\ op[t].S # {} /\ op[t].S \subseteq Buffer!Cell
      /\ \A c, d \in op[t].S : Buffer!BlockOf(c) = Buffer!BlockOf(d)
  BY <1>1 DEF Sound, Regions
<1>6. op["discarder"].at = "idle" \/ op["discarder"].got = "pool" BY <1>1, WriterMeetsPool
<1> QED BY <1>1, <1>3, <1>4, <1>5, <1>6, WriterMoves

\* The reader's operation alone changes.
LEMMA ReaderMoves ==
  ASSUME Sound, Orderly, UNCHANGED <<file, blocks, ranges, state, closed>>, Onward,
         op["discarder"].at = "idle" \/ op["discarder"].got = "pool",
         \A u \in Buffer!OpThread : u # "reader" => op'[u] = op[u],
         DOMAIN op' = Buffer!OpThread, \A u \in Buffer!OpThread : DOMAIN op'[u] = Fields,
         Reading'
  PROVE  Sound'
<1>1. BufShapes' BY ContentShapes
<1>2. Dirty' /\ Kept' /\ Fast' BY ContentKeeps
<1>3. Regions' BY ThreadsAre DEF Sound, Regions
<1>4. Through'
  <2> SUFFICES ASSUME NEW t \in Writers, op'[t].at = "note", NEW c \in op'[t].S, Near(c)'
               PROVE  file'[c] = "data"
    BY DEF Through
  <2>1. op'[t] = op[t] BY ThreadsAre
  <2>2. c \in Int BY <2>1, CellsAreInts DEF Sound, Regions
  <2>3. Near(c) BY <2>2, NearBefore DEF Sound
  <2> QED BY <2>1, <2>3 DEF Sound, Through
<1>5. Discarding'
  <2> SUFFICES ASSUME op'["discarder"].at # "idle"
               PROVE  /\ op'["discarder"].got = "pool" /\ "pool" \in crew'
                      /\ \A c \in op'["discarder"].S : c \in Int /\ c < head'
    BY DEF Discarding
  <2>1. op'["discarder"] = op["discarder"] BY ThreadsAre
  <2>2. /\ op["discarder"].got = "pool" /\ "pool" \in crew
        /\ \A c \in op["discarder"].S : c \in Int /\ c < head
    BY <2>1 DEF Sound, Discarding
  <2>3. head' >= head /\ head \in Int /\ head' \in Int BY <2>2 DEF Onward, Orderly, Sound, BufShapes
  <2> QED BY <2>1, <2>2, <2>3 DEF Onward
<1> QED BY <1>1, <1>2, <1>3, <1>4, <1>5 DEF Sound

LEMMA ReadKeeps ==
  ASSUME Sound, Orderly, NEW S \in Buffer!Run, Buffer!Read(S)
  PROVE  Sound'
<1>1. UNCHANGED <<file, blocks, ranges, state, closed, crew>> BY DEF Buffer!Read, Buffer!content
<1>2. op["discarder"].at = "idle" \/ op["discarder"].got = "pool" BY DEF Buffer!Read
<1>3. /\ S \subseteq Buffer!Cell /\ Buffer!Low(S) \in S /\ \A c \in S : Buffer!Low(S) <= c
  BY RunFacts
<1>4. head' = Buffer!Low(S) /\ ("forward" \in crew => Buffer!Low(S) >= head) BY DEF Buffer!Read
<1>5. Onward BY <1>1, <1>3, <1>4, CellsAreInts DEF Onward
<1>6. \A c \in S : Near(c)' BY <1>3, <1>4, CellsAreInts DEF Near
<1>7. CASE closed # "open"
  <2>1. Buffer!Done("reader", "closed") BY <1>7 DEF Buffer!Read
  <2>2. /\ op'["reader"].at = "idle" /\ op'["reader"].got = "closed"
        /\ \A u \in Buffer!OpThread : u # "reader" => op'[u] = op[u]
        /\ DOMAIN op' = Buffer!OpThread /\ \A u \in Buffer!OpThread : DOMAIN op'[u] = Fields
    BY <2>1, DoneIs, ThreadsAre DEF Sound
  <2>3. Reading' BY <2>2 DEF Reading
  <2> QED BY <1>1, <1>2, <1>5, <2>2, <2>3, ReaderMoves
<1>8. CASE closed = "open"
  <2> DEFINE fast == \A c \in S : state[Buffer!BlockOf(c)] = "fast"
             o == [at |-> IF fast THEN "fast" ELSE "slow", S |-> S, got |-> "none"]
  <2>1. op' = [op EXCEPT !["reader"] = o] BY <1>8 DEF Buffer!Read
  <2>2. DOMAIN o = Fields /\ o.S = S /\ o.got = "none" /\ (o.at = "fast" => fast) /\ o.at # "idle"
    BY DEF Fields
  <2>3. ASSUME fast, NEW c \in S PROVE file[c] = "data"
    <3>1. c \in Buffer!Cell /\ Near(c)
      BY <1>3, <1>5, <1>6, <2>3, NearBefore, CellsAreInts DEF Sound
    <3>2. Buffer!BlockOf(c) \in Buffer!Block /\ c \in Buffer!CellsOf(Buffer!BlockOf(c))
      BY <3>1 DEF Buffer!Block, Buffer!CellsOf
    <3>3. Buffer!BlockOf(c) \notin Buffer!Resident /\ c \in ranges
      BY <1>8, <2>3, <3>2 DEF Sound, Fast
    <3> QED BY <3>1, <3>3 DEF Sound, Kept, Held
  <2> HIDE DEF o, fast
  <2>4. /\ op'["reader"] = o /\ \A u \in Buffer!OpThread : u # "reader" => op'[u] = op[u]
        /\ DOMAIN op' = Buffer!OpThread /\ \A u \in Buffer!OpThread : DOMAIN op'[u] = Fields
    BY <2>1, <2>2, OpIs, ThreadsAre DEF Sound
  <2>5. Reading' BY <1>1, <1>6, <2>2, <2>3, <2>4 DEF Reading, Buffer!Run, Buffer!Cell
  <2> QED BY <1>1, <1>2, <1>5, <2>4, <2>5, ReaderMoves
<1> QED BY <1>7, <1>8

\* A read comes back, and the position moves past it.
LEMMA ReadEnds ==
  ASSUME Sound, Orderly, UNCHANGED <<file, blocks, ranges, state, closed, crew>>,
         op["reader"].at # "idle", NEW g, g # "zeros", Buffer!Done("reader", g),
         head' \in {head, Buffer!High(op["reader"].S) + 1}
  PROVE  Sound'
<1> DEFINE S == op["reader"].S
<1>1. S \in Buffer!Run /\ \A c \in S : Near(c) BY DEF Sound, Reading
<1>2. Buffer!High(S) \in S /\ S \subseteq Buffer!Cell BY <1>1, RunFacts
<1>3. Buffer!High(S) \in Int /\ ("forward" \in crew => Buffer!High(S) >= head)
  BY <1>1, <1>2, CellsAreInts DEF Near
<1>4. Onward BY <1>3 DEF Onward, Sound, BufShapes
<1>5. op["discarder"].at = "idle" \/ op["discarder"].got = "pool"
  BY ThreadsAre DEF Sound, Discarding
<1>6. /\ op'["reader"].at = "idle" /\ op'["reader"].got = g
      /\ \A u \in Buffer!OpThread : u # "reader" => op'[u] = op[u]
      /\ DOMAIN op' = Buffer!OpThread /\ \A u \in Buffer!OpThread : DOMAIN op'[u] = Fields
  BY DoneIs, ThreadsAre DEF Sound
<1>7. Reading' BY <1>6 DEF Reading
<1> QED BY <1>4, <1>5, <1>6, <1>7, ReaderMoves

LEMMA ReadFastKeeps ==
  ASSUME Sound, Orderly, Buffer!ReadFast
  PROVE  Sound'
<1> DEFINE S == op["reader"].S
           g == IF closed = "closed" THEN "error"
                ELSE IF \A c \in S : file[c] = "data" THEN "ok" ELSE "zeros"
<1>1. g # "zeros" BY DEF Buffer!ReadFast, Sound, Reading
<1>2. Buffer!Done("reader", g) BY DEF Buffer!ReadFast
<1>3. op["reader"].at = "fast" /\ head' = Buffer!High(S) + 1 BY DEF Buffer!ReadFast
<1>4. UNCHANGED <<file, blocks, ranges, state, closed, crew>> BY DEF Buffer!ReadFast, Buffer!content
<1> HIDE DEF g
<1> QED BY <1>1, <1>2, <1>3, <1>4, ReadEnds

LEMMA ReadSlowKeeps ==
  ASSUME Sound, Orderly, Buffer!ReadSlow
  PROVE  Sound'
<1> DEFINE S == op["reader"].S
           V(c) == IF Buffer!BlockOf(c) \in Buffer!Resident THEN blocks[Buffer!BlockOf(c)].data[c] ELSE file[c]
           g == IF ~(S \subseteq ranges) THEN "absent"
                ELSE IF \A c \in S : V(c) = "data" THEN "ok" ELSE "zeros"
<1>1. ASSUME S \subseteq ranges, NEW c \in S PROVE V(c) = "data"
  <2>1. Near(c) BY DEF Buffer!ReadSlow, Sound, Reading
  <2> QED BY <1>1, <2>1 DEF Sound, Kept, Held
<1>2. g # "zeros" BY <1>1
<1>3. Buffer!Done("reader", g) BY DEF Buffer!ReadSlow
<1>4. op["reader"].at = "slow" /\ head' \in {head, Buffer!High(S) + 1} BY DEF Buffer!ReadSlow
<1>5. UNCHANGED <<file, blocks, ranges, state, closed, crew>> BY DEF Buffer!ReadSlow, Buffer!content
<1> HIDE DEF g
<1> QED BY <1>2, <1>3, <1>4, <1>5, ReadEnds

\* The discarder's operation alone changes.
LEMMA DiscarderMoves ==
  ASSUME Sound, Orderly, UNCHANGED <<crew, file, blocks, ranges, state, head>>,
         closed = "closed" => closed' = "closed",
         \A u \in Buffer!OpThread : u # "discarder" => op'[u] = op[u],
         DOMAIN op' = Buffer!OpThread, \A u \in Buffer!OpThread : DOMAIN op'[u] = Fields,
         Discarding'
  PROVE  Sound'
<1>1. Onward BY DEF Sound, BufShapes, Onward
<1>2. BufShapes' BY <1>1, ContentShapes
<1>3. Dirty' /\ Kept' /\ Fast' BY <1>1, ContentKeeps
<1>4. Regions' BY ThreadsAre DEF Sound, Regions
<1>5. Through' BY ThreadsAre DEF Sound, Through, Near
<1>6. Reading' BY ThreadsAre DEF Sound, Reading, Near
<1> QED BY <1>2, <1>3, <1>4, <1>5, <1>6 DEF Sound

LEMMA DiscardKeeps ==
  ASSUME Sound, Orderly, NEW S, Buffer!Discard(S)
  PROVE  Sound'
<1> DEFINE o == [at |-> "drop", S |-> S, got |-> "caller"]
<1>1. UNCHANGED <<crew, file, blocks, ranges, state, head, closed>>
  BY DEF Buffer!Discard, Buffer!content
<1>2. op' = [op EXCEPT !["discarder"] = o] /\ \A t \in Buffer!OpThread : op[t].at = "idle"
  BY DEF Buffer!Discard
<1>3. DOMAIN o = Fields /\ o.at = "drop" /\ o.got = "caller" BY DEF Fields
<1> HIDE DEF o
<1>4. /\ op'["discarder"] = o /\ \A u \in Buffer!OpThread : u # "discarder" => op'[u] = op[u]
      /\ DOMAIN op' = Buffer!OpThread /\ \A u \in Buffer!OpThread : DOMAIN op'[u] = Fields
  BY <1>2, <1>3, OpIs, ThreadsAre DEF Sound
<1>5. Discarding' BY <1>2, <1>3, <1>4 DEF Discarding
<1> QED BY <1>1, <1>4, <1>5, DiscarderMoves

LEMMA ReclaimKeeps ==
  ASSUME Sound, Orderly, Buffer!Reclaim
  PROVE  Sound'
<1> DEFINE S == {c \in ranges : c < head - BackWindow}
           o == [at |-> "drop", S |-> S, got |-> "pool"]
<1>1. UNCHANGED <<crew, file, blocks, ranges, state, head, closed>> /\ "pool" \in crew
  BY DEF Buffer!Reclaim, Buffer!content
<1>2. op' = [op EXCEPT !["discarder"] = o] BY DEF Buffer!Reclaim
<1>3. DOMAIN o = Fields /\ o.at = "drop" /\ o.got = "pool" /\ o.S = S BY DEF Fields
<1>4. \A c \in S : c \in Int /\ c < head
  <2>1. ranges \subseteq Int /\ head \in Int BY CellsAreInts DEF Sound, BufShapes
  <2>2. BackWindow \in Nat BY BufferAssumption
  <2> QED BY <2>1, <2>2
<1> HIDE DEF o
<1>5. /\ op'["discarder"] = o /\ \A u \in Buffer!OpThread : u # "discarder" => op'[u] = op[u]
      /\ DOMAIN op' = Buffer!OpThread /\ \A u \in Buffer!OpThread : DOMAIN op'[u] = Fields
  BY <1>2, <1>3, OpIs, ThreadsAre DEF Sound
<1>6. Discarding' BY <1>1, <1>3, <1>4, <1>5 DEF Discarding
<1> QED BY <1>1, <1>5, <1>6, DiscarderMoves

\* A flush puts back only what was written.
LEMMA FlushedIs ==
  ASSUME Sound, NEW B
  PROVE  /\ DOMAIN Buffer!Flushed(B) = Buffer!Cell
         /\ \A c \in Buffer!Cell :
              /\ file[c] = "data" => Buffer!Flushed(B)[c] = "data"
              /\ /\ Buffer!BlockOf(c) \in Buffer!Resident \cap B
                 /\ c \in blocks[Buffer!BlockOf(c)].dirty
                 => Buffer!Flushed(B)[c] = "data"
BY DEF Buffer!Flushed, Sound, Dirty

\* The file gains and nobody moves.
LEMMA FileGains ==
  ASSUME Sound, UNCHANGED <<crew, head, op>>, ranges' \subseteq ranges,
         \A c \in Buffer!Cell : file[c] = "data" => file'[c] = "data",
         closed = "closed" => closed' = "closed"
  PROVE  Regions' /\ Through' /\ Reading' /\ Discarding'
<1>1. Regions' BY DEF Sound, Regions
<1>2. Through' BY DEF Sound, Through, Regions, Near
<1>3. Reading'
  <2>1. op["reader"].at # "idle" => op["reader"].S \subseteq Buffer!Cell
    BY RunFacts DEF Sound, Reading
  <2> QED BY <2>1 DEF Sound, Reading, Near
<1>4. Discarding' BY DEF Sound, Discarding
<1> QED BY <1>1, <1>2, <1>3, <1>4

LEMMA EvictKeeps ==
  ASSUME Sound, Orderly, NEW t \in Writers, Buffer!Evict(t)
  PROVE  Sound'
<1> DEFINE b == Buffer!Victim
<1>1. /\ file' = Buffer!Flushed({b}) /\ blocks' = Buffer!Without({b})
      /\ state' = Buffer!StateWith(Buffer!Resident \ {b}, ranges)
      /\ UNCHANGED <<crew, ranges, head, closed, op>>
  BY DEF Buffer!Evict
<1> HIDE DEF b
<1>2. DOMAIN file' = Buffer!Cell /\ \A c \in Buffer!Cell : file[c] = "data" => file'[c] = "data"
  BY <1>1, FlushedIs
<1>3. Regions' /\ Through' /\ Reading' /\ Discarding' BY <1>1, <1>2, FileGains
<1>4. /\ Buffer!Resident' = Buffer!Resident \ {b}
      /\ \A x \in Buffer!Resident \ {b} : blocks'[x] = blocks[x]
  BY <1>1 DEF Buffer!Without, Buffer!Resident
<1>5. DOMAIN state' = Buffer!Block BY <1>1 DEF Buffer!StateWith
<1>6. BufShapes' BY <1>1, <1>2, <1>4, <1>5 DEF Sound, BufShapes
<1>7. Dirty' BY <1>4 DEF Sound, Dirty
<1>8. Fast' BY <1>1, <1>4 DEF Fast, Buffer!StateWith
<1>9. Kept'
  <2> SUFFICES ASSUME NEW c \in ranges', Near(c)' PROVE Held(c)' BY DEF Kept
  <2>1. Near(c) /\ c \in ranges /\ c \in Buffer!Cell BY <1>1 DEF Near, Sound, BufShapes
  <2>2. Held(c) BY <2>1 DEF Sound, Kept
  <2>3. CASE Buffer!BlockOf(c) \in Buffer!Resident \ {b}
    BY <1>2, <1>4, <2>1, <2>2, <2>3 DEF Held
  <2>4. CASE Buffer!BlockOf(c) \notin Buffer!Resident
    BY <1>2, <1>4, <2>1, <2>2, <2>4 DEF Held
  <2>5. CASE Buffer!BlockOf(c) \in Buffer!Resident \cap {b}
    <3>1. file'[c] = "data"
      <4>1. CASE c \in blocks[Buffer!BlockOf(c)].dirty BY <1>1, <2>1, <2>5, <4>1, FlushedIs
      <4>2. CASE c \notin blocks[Buffer!BlockOf(c)].dirty BY <1>2, <2>1, <2>2, <2>5, <4>2 DEF Held
      <4> QED BY <4>1, <4>2
    <3> QED BY <1>4, <2>5, <3>1 DEF Held
  <2> QED BY <2>3, <2>4, <2>5
<1> QED BY <1>3, <1>6, <1>7, <1>8, <1>9 DEF Sound

LEMMA FlushKeeps ==
  ASSUME Sound, Orderly, Buffer!Flush
  PROVE  Sound'
<1>1. /\ file' = Buffer!Flushed(Buffer!Block)
      /\ blocks' = [b \in Buffer!Resident |-> [blocks[b] EXCEPT !.dirty = {}]]
      /\ UNCHANGED <<crew, ranges, head, closed, op, state>>
  BY DEF Buffer!Flush
<1>2. DOMAIN file' = Buffer!Cell /\ \A c \in Buffer!Cell : file[c] = "data" => file'[c] = "data"
  BY <1>1, FlushedIs
<1>3. Regions' /\ Through' /\ Reading' /\ Discarding' BY <1>1, <1>2, FileGains
<1>4. Buffer!Resident' = Buffer!Resident BY <1>1 DEF Buffer!Resident
<1>5. \A b \in Buffer!Resident : /\ DOMAIN blocks'[b] = {"data", "dirty"}
                                 /\ blocks'[b].data = blocks[b].data /\ blocks'[b].dirty = {}
  BY <1>1 DEF Sound, BufShapes
<1>6. BufShapes' BY <1>1, <1>2, <1>4, <1>5 DEF Sound, BufShapes
<1>7. Dirty' BY <1>4, <1>5 DEF Sound, Dirty
<1>8. Fast' BY <1>1, <1>4 DEF Sound, Fast
<1>9. Kept'
  <2> SUFFICES ASSUME NEW c \in ranges', Near(c)' PROVE Held(c)' BY DEF Kept
  <2>1. Near(c) /\ c \in ranges /\ c \in Buffer!Cell BY <1>1 DEF Near, Sound, BufShapes
  <2>2. Held(c) BY <2>1 DEF Sound, Kept
  <2>3. Buffer!BlockOf(c) \in Buffer!Block BY <2>1 DEF Buffer!Block
  <2>4. CASE Buffer!BlockOf(c) \notin Buffer!Resident
    BY <1>2, <1>4, <2>1, <2>2, <2>4 DEF Held
  <2>5. CASE Buffer!BlockOf(c) \in Buffer!Resident
    <3>1. file'[c] = "data"
      <4>1. CASE c \in blocks[Buffer!BlockOf(c)].dirty BY <1>1, <2>1, <2>3, <2>5, <4>1, FlushedIs
      <4>2. CASE c \notin blocks[Buffer!BlockOf(c)].dirty BY <1>2, <2>1, <2>2, <2>5, <4>2 DEF Held
      <4> QED BY <4>1, <4>2
    <3>2. blocks'[Buffer!BlockOf(c)].data[c] = "data" BY <1>5, <2>2, <2>5 DEF Held
    <3> QED BY <1>4, <2>5, <3>1, <3>2 DEF Held
  <2> QED BY <2>4, <2>5
<1> QED BY <1>3, <1>6, <1>7, <1>8, <1>9 DEF Sound

LEMMA CloseKeeps ==
  ASSUME Sound, Orderly, Buffer!BeginClose \/ Buffer!FinishClose
  PROVE  Sound'
<1>1. CASE Buffer!BeginClose
  <2>1. UNCHANGED <<crew, file, blocks, ranges, state, head, op>> /\ closed = "open"
    BY <1>1 DEF Buffer!BeginClose, Buffer!content
  <2>2. Discarding' BY <2>1 DEF Sound, Discarding
  <2>3. DOMAIN op' = Buffer!OpThread /\ \A u \in Buffer!OpThread : DOMAIN op'[u] = Fields
    BY <2>1 DEF Sound, BufShapes, Fields
  <2> QED BY <2>1, <2>2, <2>3, DiscarderMoves
<1>2. CASE Buffer!FinishClose
  <2>1. /\ file' = Buffer!Flushed(Buffer!Block) /\ blocks' = [b \in {} |-> 0] /\ ranges' = {}
        /\ closed' = "closed" /\ UNCHANGED <<crew, state, head, op>>
    BY <1>2 DEF Buffer!FinishClose
  <2>2. DOMAIN file' = Buffer!Cell /\ \A c \in Buffer!Cell : file[c] = "data" => file'[c] = "data"
    BY <2>1, FlushedIs
  <2>3. Regions' /\ Through' /\ Reading' /\ Discarding' BY <2>1, <2>2, FileGains
  <2>4. Buffer!Resident' = {} BY <2>1 DEF Buffer!Resident
  <2>5. BufShapes' BY <2>1, <2>2, <2>4 DEF Sound, BufShapes
  <2>6. Dirty' /\ Fast' /\ Kept' BY <2>1, <2>4 DEF Dirty, Fast, Kept
  <2> QED BY <2>3, <2>5, <2>6 DEF Sound
<1> QED BY <1>1, <1>2

\* What a writer under way is about: one block, and no caller's discard.
LEMMA RegionIs ==
  ASSUME Sound, NEW t \in Writers, op[t].at # "idle"
  PROVE  LET b == Buffer!BlockOf(CHOOSE c \in op[t].S : TRUE)
         IN  /\ op[t].S \subseteq Buffer!CellsOf(b) /\ op[t].S \subseteq Buffer!Cell
             /\ b \in Buffer!Block
<1>1. /\ op[t].S # {} /\ op[t].S \subseteq Buffer!Cell
      /\ \A c, d \in op[t].S : Buffer!BlockOf(c) = Buffer!BlockOf(d)
  BY DEF Sound, Regions
<1>2. (CHOOSE c \in op[t].S : TRUE) \in op[t].S BY <1>1
<1> QED BY <1>1, <1>2 DEF Buffer!CellsOf, Buffer!Block

\* The copy into a block that is, or becomes, resident.
LEMMA PutKeeps ==
  ASSUME Sound, Orderly, NEW t \in Writers, op[t].at # "idle", NEW S, S = op[t].S,
         NEW b, S \subseteq Buffer!CellsOf(b), b \in Buffer!Block, NEW blk,
         DOMAIN blk.data = Buffer!CellsOf(b),
         \A c \in blk.dirty : c \in Buffer!CellsOf(b) /\ blk.data[c] = "data",
         \A c \in ranges \cap Buffer!CellsOf(b) : Near(c) =>
           blk.data[c] = "data" /\ (c \notin blk.dirty => file[c] = "data"),
         Buffer!Resident' = Buffer!Resident \cup {b}, blocks'[b] = Buffer!Put(blk, S),
         \A x \in Buffer!Resident : x # b => blocks'[x] = blocks[x],
         ranges' = ranges \cup S, state' = [state EXCEPT ![b] = "slow"], Buffer!Done(t, "ok"),
         UNCHANGED <<crew, file, head, closed>>
  PROVE  Sound'
<1> DEFINE new == Buffer!Put(blk, S)
<1>1. /\ DOMAIN new = {"data", "dirty"} /\ DOMAIN new.data = Buffer!CellsOf(b)
      /\ new.dirty = blk.dirty \cup S
      /\ \A c \in Buffer!CellsOf(b) : new.data[c] = IF c \in S THEN "data" ELSE blk.data[c]
  BY DEF Buffer!Put
<1> HIDE DEF new
<1>2. blocks'[b] = new BY DEF new
<1>3. t \in Buffer!OpThread BY ThreadsAre
<1>4. /\ op'[t].at = "idle" /\ op'[t].got = "ok" /\ \A u \in Buffer!OpThread : u # t => op'[u] = op[u]
      /\ DOMAIN op' = Buffer!OpThread /\ \A u \in Buffer!OpThread : DOMAIN op'[u] = Fields
  BY <1>3, DoneIs DEF Sound
<1>5. S \subseteq Buffer!Cell BY DEF Buffer!CellsOf
<1>6. BufShapes' BY <1>1, <1>2, <1>4, <1>5 DEF Sound, BufShapes, Fields
<1>7. Regions' BY <1>4, ThreadsAre DEF Sound, Regions
<1>8. Dirty' BY <1>1, <1>2 DEF Sound, Dirty
<1>9. Through' BY <1>4, ThreadsAre DEF Sound, Through, Near
<1>10. Reading' BY <1>4, ThreadsAre DEF Sound, Reading, Near
<1>11. Discarding'
  <2>1. op["discarder"].at = "idle" \/ op["discarder"].got = "pool" BY WriterMeetsPool
  <2>2. op'["discarder"] = op["discarder"] BY <1>4, ThreadsAre
  <2> QED BY <2>1, <2>2 DEF Sound, Discarding
<1>12. Fast'
  <2> SUFFICES ASSUME closed' # "closed", NEW x \in Buffer!Block, state'[x] = "fast"
               PROVE  x \notin Buffer!Resident' /\ Buffer!CellsOf(x) \subseteq ranges'
    BY DEF Fast
  <2>1. x # b /\ state[x] = "fast" BY DEF Sound, BufShapes
  <2> QED BY <2>1 DEF Sound, Fast
<1>13. Kept'
  <2> SUFFICES ASSUME NEW c \in ranges', Near(c)' PROVE Held(c)' BY DEF Kept
  <2>1. Near(c) BY DEF Near
  <2>2. c \in Buffer!Cell BY <1>5 DEF Sound, BufShapes
  <2>3. CASE Buffer!BlockOf(c) = b
    <3>1. c \in Buffer!CellsOf(b) BY <2>2, <2>3 DEF Buffer!CellsOf
    <3>2. new.data[c] = "data" /\ (c \notin new.dirty => file[c] = "data")
      BY <1>1, <2>1, <3>1
    <3> QED BY <1>2, <2>3, <3>2 DEF Held
  <2>4. CASE Buffer!BlockOf(c) # b
    <3>1. c \in ranges BY <2>4 DEF Buffer!CellsOf
    <3>2. Held(c) BY <2>1, <3>1 DEF Sound, Kept
    <3> QED BY <2>4, <3>2 DEF Held
  <2> QED BY <2>3, <2>4
<1> QED BY <1>6, <1>7, <1>8, <1>9, <1>10, <1>11, <1>12, <1>13 DEF Sound

\* A resident block is what PutKeeps asks for.
LEMMA ResidentIs ==
  ASSUME Sound, NEW b \in Buffer!Resident
  PROVE  /\ DOMAIN blocks[b].data = Buffer!CellsOf(b)
         /\ \A c \in blocks[b].dirty : c \in Buffer!CellsOf(b) /\ blocks[b].data[c] = "data"
         /\ \A c \in ranges \cap Buffer!CellsOf(b) : Near(c) =>
              blocks[b].data[c] = "data" /\ (c \notin blocks[b].dirty => file[c] = "data")
<1>1. DOMAIN blocks[b].data = Buffer!CellsOf(b) BY DEF Sound, BufShapes
<1>2. \A c \in blocks[b].dirty : c \in Buffer!CellsOf(b) /\ blocks[b].data[c] = "data"
  BY DEF Sound, Dirty
<1>3. \A c \in Buffer!CellsOf(b) : Buffer!BlockOf(c) = b BY DEF Buffer!CellsOf
<1>4. \A c \in ranges : Near(c) => Held(c) BY DEF Sound, Kept
<1> QED BY <1>1, <1>2, <1>3, <1>4 DEF Held

LEMMA WriterClosed ==
  ASSUME Sound, Orderly, NEW t \in Writers, op[t].at # "idle", Buffer!Done(t, "closed"),
         UNCHANGED <<crew, file, blocks, ranges, state, head, closed>>
  PROVE  Sound'
<1>1. t \in Buffer!OpThread BY ThreadsAre
<1>2. /\ op'[t].at = "idle" /\ \A u \in Buffer!OpThread : u # t => op'[u] = op[u]
      /\ DOMAIN op' = Buffer!OpThread /\ \A u \in Buffer!OpThread : DOMAIN op'[u] = Fields
  BY <1>1, DoneIs DEF Sound
<1> QED BY <1>2, WriterMeetsPool, WriterMoves

LEMMA WriteCachedKeeps ==
  ASSUME Sound, Orderly, NEW t \in Writers, Buffer!WriteCached(t)
  PROVE  Sound'
<1> DEFINE S == op[t].S
           b == Buffer!BlockOf(CHOOSE c \in S : TRUE)
           loaded == [data |-> [c \in Buffer!CellsOf(b) |-> IF Buffer!CellsOf(b) \cap ranges # {} THEN file[c] ELSE "junk"],
                      dirty |-> {}]
           blk == IF b \in Buffer!Resident THEN blocks[b] ELSE loaded
<1>1. op[t].at = "cached" /\ UNCHANGED <<crew, head, closed>> BY DEF Buffer!WriteCached
<1>2. CASE closed # "open"
  <2>1. Buffer!Done(t, "closed") /\ UNCHANGED <<file, blocks, ranges, state>>
    BY <1>2 DEF Buffer!WriteCached, Buffer!content
  <2> QED BY <1>1, <2>1, WriterClosed
<1>3. CASE closed = "open"
  <2>1. /\ blocks' = [x \in Buffer!Resident \cup {b} |-> IF x = b THEN Buffer!Put(blk, S) ELSE blocks[x]]
        /\ ranges' = ranges \cup S /\ state' = [state EXCEPT ![b] = "slow"] /\ Buffer!Done(t, "ok")
        /\ UNCHANGED file
    BY <1>3 DEF Buffer!WriteCached, Buffer!Present
  <2>2. S \subseteq Buffer!CellsOf(b) /\ b \in Buffer!Block BY <1>1, RegionIs
  <2>3. /\ DOMAIN blk.data = Buffer!CellsOf(b)
        /\ \A c \in blk.dirty : c \in Buffer!CellsOf(b) /\ blk.data[c] = "data"
        /\ \A c \in ranges \cap Buffer!CellsOf(b) : Near(c) =>
             blk.data[c] = "data" /\ (c \notin blk.dirty => file[c] = "data")
    <3>1. CASE b \in Buffer!Resident
      <4>1. blk = blocks[b] BY <3>1
      <4> HIDE DEF blk, b
      <4> QED BY <3>1, <4>1, ResidentIs
    <3>2. CASE b \notin Buffer!Resident
      <4>1. blk = loaded BY <3>2
      <4>2. DOMAIN loaded.data = Buffer!CellsOf(b) /\ loaded.dirty = {} OBVIOUS
      <4>3. \A c \in ranges \cap Buffer!CellsOf(b) : loaded.data[c] = file[c] OBVIOUS
      <4> HIDE DEF blk, loaded, b
      <4>4. \A c \in Buffer!CellsOf(b) : Buffer!BlockOf(c) = b BY DEF Buffer!CellsOf
      <4>5. \A c \in ranges \cap Buffer!CellsOf(b) : Near(c) => file[c] = "data"
        BY <3>2, <4>4 DEF Sound, Kept, Held
      <4> QED BY <4>1, <4>2, <4>3, <4>5
    <3> QED BY <3>1, <3>2
  <2> HIDE DEF blk, b
  <2>4. /\ Buffer!Resident' = Buffer!Resident \cup {b} /\ blocks'[b] = Buffer!Put(blk, S)
        /\ \A x \in Buffer!Resident : x # b => blocks'[x] = blocks[x]
    BY <2>1 DEF Buffer!Resident
  <2>5. /\ ranges' = ranges \cup S /\ state' = [state EXCEPT ![b] = "slow"] /\ Buffer!Done(t, "ok")
        /\ UNCHANGED <<crew, file, head, closed>> /\ op[t].at # "idle"
    BY <1>1, <2>1
  <2>6. S = op[t].S OBVIOUS
  <2> HIDE DEF S, loaded
  <2> QED BY <2>2, <2>3, <2>4, <2>5, <2>6, PutKeeps
<1> QED BY <1>2, <1>3

LEMMA HeldGains ==
  ASSUME NEW c \in Buffer!Cell, Held(c), UNCHANGED blocks, file[c] = "data" => file'[c] = "data"
  PROVE  Held(c)'
BY DEF Held, Buffer!Resident

LEMMA WriteThroughKeeps ==
  ASSUME Sound, Orderly, NEW t \in Writers, Buffer!WriteThrough(t)
  PROVE  Sound'
<1> DEFINE S == op[t].S
<1>1. /\ op[t].at = "through" /\ Buffer!At(t, "note")
      /\ file' = [c \in Buffer!Cell |-> IF c \in S THEN "data" ELSE file[c]]
      /\ UNCHANGED <<crew, blocks, ranges, state, head, closed>>
  BY DEF Buffer!WriteThrough
<1>2. t \in Buffer!OpThread BY ThreadsAre
<1>3. /\ op'[t].at = "note" /\ op'[t].S = S /\ \A u \in Buffer!OpThread : u # t => op'[u] = op[u]
      /\ DOMAIN op' = Buffer!OpThread /\ \A u \in Buffer!OpThread : DOMAIN op'[u] = Fields
  BY <1>1, <1>2, AtIs DEF Sound
<1>4. DOMAIN file' = Buffer!Cell /\ \A c \in Buffer!Cell : file[c] = "data" => file'[c] = "data"
  BY <1>1
<1>5. S \subseteq Buffer!Cell BY <1>1 DEF Sound, Regions
<1>6. BufShapes' BY <1>1, <1>3, <1>4 DEF Sound, BufShapes, Fields, Buffer!Resident
<1>7. Regions' BY <1>1, <1>3, ThreadsAre DEF Sound, Regions
<1>8. Dirty' /\ Fast' BY <1>1 DEF Sound, Dirty, Fast, Buffer!Resident
<1>9. Kept'
  <2> SUFFICES ASSUME NEW c \in ranges', Near(c)' PROVE Held(c)' BY DEF Kept
  <2>1. Near(c) /\ c \in ranges /\ c \in Buffer!Cell BY <1>1 DEF Near, Sound, BufShapes
  <2>2. Held(c) BY <2>1 DEF Sound, Kept
  <2> QED BY <1>1, <1>4, <2>1, <2>2, HeldGains
<1>10. Through'
  <2> SUFFICES ASSUME NEW u \in Writers, op'[u].at = "note", NEW c \in op'[u].S, Near(c)'
               PROVE  file'[c] = "data"
    BY DEF Through
  <2>1. CASE u = t BY <1>1, <1>3, <1>5, <2>1
  <2>2. CASE u # t
    <3>1. op'[u] = op[u] BY <1>3, <2>2, ThreadsAre
    <3>2. c \in Buffer!Cell /\ Near(c) BY <1>1, <3>1 DEF Sound, Regions, Near
    <3> QED BY <1>4, <3>1, <3>2 DEF Sound, Through
  <2> QED BY <2>1, <2>2
<1>11. Reading'
  <2>1. op["reader"].at # "idle" => op["reader"].S \subseteq Buffer!Cell
    BY RunFacts DEF Sound, Reading
  <2>2. op'["reader"] = op["reader"] BY <1>3, ThreadsAre
  <2> QED BY <1>1, <1>4, <2>1, <2>2 DEF Sound, Reading, Near
<1>12. Discarding'
  <2>1. op["discarder"].at = "idle" \/ op["discarder"].got = "pool" BY <1>1, WriterMeetsPool
  <2>2. op'["discarder"] = op["discarder"] BY <1>3, ThreadsAre
  <2> QED BY <1>1, <2>1, <2>2 DEF Sound, Discarding
<1> QED BY <1>6, <1>7, <1>8, <1>9, <1>10, <1>11, <1>12 DEF Sound

LEMMA NoteKeeps ==
  ASSUME Sound, Orderly, NEW t \in Writers, Buffer!Note(t)
  PROVE  Sound'
<1> DEFINE S == op[t].S
           b == Buffer!BlockOf(CHOOSE c \in S : TRUE)
<1>1. op[t].at = "note" /\ UNCHANGED <<crew, head, closed>> BY DEF Buffer!Note
<1>2. CASE closed # "open"
  <2>1. Buffer!Done(t, "closed") /\ UNCHANGED <<file, blocks, ranges, state>>
    BY <1>2 DEF Buffer!Note, Buffer!content
  <2> QED BY <1>1, <2>1, WriterClosed
<1>3. CASE closed = "open"
  <2>1. /\ ranges' = ranges \cup S /\ Buffer!Done(t, "ok") /\ UNCHANGED <<crew, file, head, closed>>
        /\ op[t].at # "idle"
    BY <1>1, <1>3 DEF Buffer!Note, Buffer!Present
  <2>2. S \subseteq Buffer!CellsOf(b) /\ S \subseteq Buffer!Cell /\ b \in Buffer!Block
    BY <1>1, RegionIs
  <2>3. CASE b \in Buffer!Resident
    <3>1. blocks' = [blocks EXCEPT ![b] = Buffer!Put(@, S)] /\ state' = [state EXCEPT ![b] = "slow"]
      BY <1>3, <2>3 DEF Buffer!Note, Buffer!NotedInBlock
    <3> HIDE DEF b
    <3>2. /\ Buffer!Resident' = Buffer!Resident \cup {b} /\ blocks'[b] = Buffer!Put(blocks[b], S)
          /\ \A x \in Buffer!Resident : x # b => blocks'[x] = blocks[x]
      BY <2>3, <3>1 DEF Buffer!Resident
    <3>3. /\ DOMAIN blocks[b].data = Buffer!CellsOf(b)
          /\ \A c \in blocks[b].dirty : c \in Buffer!CellsOf(b) /\ blocks[b].data[c] = "data"
          /\ \A c \in ranges \cap Buffer!CellsOf(b) : Near(c) =>
               blocks[b].data[c] = "data" /\ (c \notin blocks[b].dirty => file[c] = "data")
      BY <2>3, ResidentIs
    <3>4. S = op[t].S OBVIOUS
    <3> HIDE DEF S
    <3> QED BY <2>1, <2>2, <3>1, <3>2, <3>3, <3>4, PutKeeps
  <2>4. CASE b \notin Buffer!Resident
    <3>1. state' = Buffer!StateWith(Buffer!Resident, ranges \cup S) /\ UNCHANGED blocks
      BY <1>3, <2>4 DEF Buffer!Note
    <3>2. t \in Buffer!OpThread BY ThreadsAre
    <3>3. /\ op'[t].at = "idle" /\ \A u \in Buffer!OpThread : u # t => op'[u] = op[u]
          /\ DOMAIN op' = Buffer!OpThread /\ \A u \in Buffer!OpThread : DOMAIN op'[u] = Fields
      BY <2>1, <3>2, DoneIs DEF Sound
    <3> HIDE DEF b
    <3>4. DOMAIN state' = Buffer!Block BY <3>1 DEF Buffer!StateWith
    <3>5. BufShapes' BY <2>1, <2>2, <3>1, <3>3, <3>4 DEF Sound, BufShapes, Fields, Buffer!Resident
    <3>6. Regions' BY <3>3, ThreadsAre DEF Sound, Regions
    <3>7. Dirty' BY <3>1 DEF Sound, Dirty, Buffer!Resident
    <3>8. Fast' BY <2>1, <3>1 DEF Fast, Buffer!StateWith, Buffer!Resident
    <3>9. Through' BY <2>1, <3>3, ThreadsAre DEF Sound, Through, Near
    <3>10. Reading' BY <2>1, <3>3, ThreadsAre DEF Sound, Reading, Near
    <3>11. Discarding'
      <4>1. op["discarder"].at = "idle" \/ op["discarder"].got = "pool" BY <2>1, WriterMeetsPool
      <4>2. op'["discarder"] = op["discarder"] BY <3>3, ThreadsAre
      <4> QED BY <2>1, <4>1, <4>2 DEF Sound, Discarding
    <3>12. Kept'
      <4> SUFFICES ASSUME NEW c \in ranges', Near(c)' PROVE Held(c)' BY DEF Kept
      <4>1. Near(c) BY <2>1 DEF Near
      <4>2. CASE c \in S
        <5>1. Buffer!BlockOf(c) = b BY <2>2, <4>2 DEF Buffer!CellsOf
        <5>2. file[c] = "data" BY <1>1, <4>1, <4>2 DEF Sound, Through
        <5> QED BY <2>1, <2>4, <3>1, <5>1, <5>2 DEF Held, Buffer!Resident
      <4>3. CASE c \notin S
        <5>1. c \in ranges /\ c \in Buffer!Cell BY <2>1, <4>3 DEF Sound, BufShapes
        <5>2. Held(c) BY <4>1, <5>1 DEF Sound, Kept
        <5> QED BY <2>1, <3>1, <5>1, <5>2, HeldGains
      <4> QED BY <4>2, <4>3
    <3> QED BY <3>5, <3>6, <3>7, <3>8, <3>9, <3>10, <3>11, <3>12 DEF Sound
  <2> QED BY <2>3, <2>4
<1> QED BY <1>2, <1>3

\* The list goes on behind the range that was just discarded, or is done.
LEMMA NextRunIs ==
  ASSUME BufShapes, Buffer!NextRun
  PROVE  /\ op'["discarder"].at \in {"idle", "drop"}
         /\ op'["discarder"].at # "idle" => /\ op'["discarder"].got = op["discarder"].got
                                            /\ op'["discarder"].S \subseteq op["discarder"].S
         /\ \A u \in Buffer!OpThread : u # "discarder" => op'[u] = op[u]
         /\ DOMAIN op' = Buffer!OpThread
         /\ \A u \in Buffer!OpThread : DOMAIN op'[u] = Fields
<1> DEFINE o == op["discarder"]
           more == o.S \ Buffer!FirstRun(o.S)
           p == [Buffer!NoOp EXCEPT !.got = "ok"]
           q == [o EXCEPT !.at = "drop", !.S = more]
<1>1. DOMAIN o = Fields BY ThreadsAre DEF BufShapes, Fields
<1>2. DOMAIN p = Fields /\ p.at = "idle" BY NoOpIs
<1>3. op' = [op EXCEPT !["discarder"] = IF more = {} THEN p ELSE q] BY DEF Buffer!NextRun
<1> HIDE DEF o
<1>4. DOMAIN q = Fields /\ q.at = "drop" /\ q.got = o.got /\ q.S = more BY <1>1 DEF Fields
<1>5. more \subseteq o.S OBVIOUS
<1> HIDE DEF p, q, more
<1>6. PICK r \in {p, q} : op' = [op EXCEPT !["discarder"] = r] BY <1>3
<1>7. /\ op'["discarder"] = r /\ \A u \in Buffer!OpThread : u # "discarder" => op'[u] = op[u]
      /\ DOMAIN op' = Buffer!OpThread /\ \A u \in Buffer!OpThread : DOMAIN op'[u] = Fields
  BY <1>2, <1>4, <1>6, OpIs, ThreadsAre
<1> QED BY <1>2, <1>4, <1>5, <1>7 DEF o

LEMMA FirstRunIs == \A S : Buffer!FirstRun(S) \subseteq S
BY DEF Buffer!FirstRun

LEMMA DropKeeps ==
  ASSUME Sound, Orderly, Buffer!Drop
  PROVE  Sound'
<1> DEFINE o == op["discarder"]
           S == Buffer!FirstRun(o.S)
           stay == ranges \ S
           gone == {b \in Buffer!Resident : \/ Buffer!CellsOf(b) \subseteq S
                                            \/ /\ Buffer!CellsOf(b) \cap S # {}
                                               /\ Buffer!CellsOf(b) \cap stay = {}}
<1>1. o.at = "drop" /\ UNCHANGED <<crew, head, closed>> BY DEF Buffer!Drop
<1>2. CASE closed # "open"
  <2>1. Buffer!Done("discarder", "closed") /\ UNCHANGED <<file, blocks, ranges, state>>
    BY <1>2 DEF Buffer!Drop, Buffer!content
  <2>2. /\ op'["discarder"].at = "idle" /\ \A u \in Buffer!OpThread : u # "discarder" => op'[u] = op[u]
        /\ DOMAIN op' = Buffer!OpThread /\ \A u \in Buffer!OpThread : DOMAIN op'[u] = Fields
    BY <2>1, DoneIs, ThreadsAre DEF Sound
  <2>3. Discarding' BY <2>2 DEF Discarding
  <2> QED BY <1>1, <2>1, <2>2, <2>3, DiscarderMoves
<1>3. CASE closed = "open"
  <2>1. /\ blocks' = [b \in Buffer!Resident \ gone |-> [blocks[b] EXCEPT !.dirty = @ \ S]]
        /\ ranges' = stay /\ state' = Buffer!StateWith(Buffer!Resident \ gone, stay)
        /\ UNCHANGED file /\ (Buffer!At("discarder", "punch") \/ Buffer!NextRun)
    BY <1>3 DEF Buffer!Drop, Buffer!Present
  <2>3. \A b \in Buffer!Resident : \A c \in Buffer!CellsOf(b) : c \in stay => b \notin gone OBVIOUS
  <2>4. stay \subseteq ranges /\ stay \cap S = {} OBVIOUS
  <2> HIDE DEF gone, stay
  <2>5. Buffer!Resident' = Buffer!Resident \ gone BY <2>1 DEF Buffer!Resident
  <2>6. \A b \in Buffer!Resident \ gone :
          /\ DOMAIN blocks'[b] = {"data", "dirty"} /\ blocks'[b].data = blocks[b].data
          /\ blocks'[b].dirty = blocks[b].dirty \ S
    BY <2>1 DEF Sound, BufShapes
  <2>7. /\ op'["discarder"].at # "idle" => /\ op'["discarder"].got = o.got
                                          /\ op'["discarder"].S \subseteq o.S
        /\ op'["discarder"].at = "punch" => op'["discarder"].S = o.S
        /\ \A u \in Buffer!OpThread : u # "discarder" => op'[u] = op[u]
        /\ DOMAIN op' = Buffer!OpThread /\ \A u \in Buffer!OpThread : DOMAIN op'[u] = Fields
    <3>1. CASE Buffer!At("discarder", "punch") BY <3>1, AtIs, ThreadsAre DEF Sound
    <3>2. CASE Buffer!NextRun
      <4>1. op'["discarder"].at # "punch" BY <3>2, NextRunIs DEF Sound
      <4> QED BY <3>2, <4>1, NextRunIs DEF Sound
    <3> QED BY <2>1, <3>1, <3>2
  <2>8. DOMAIN state' = Buffer!Block BY <2>1 DEF Buffer!StateWith
  <2>9. BufShapes' BY <1>1, <2>1, <2>4, <2>5, <2>6, <2>7, <2>8 DEF Sound, BufShapes, Fields
  <2>10. Regions' BY <2>7, ThreadsAre DEF Sound, Regions
  <2>11. Dirty' BY <2>5, <2>6 DEF Sound, Dirty
  <2>12. Fast' BY <1>1, <2>1, <2>5 DEF Fast, Buffer!StateWith
  <2>13. Through' BY <1>1, <2>1, <2>7, ThreadsAre DEF Sound, Through, Near
  <2>14. Reading' BY <1>1, <2>1, <2>7, ThreadsAre DEF Sound, Reading, Near
  <2>15. Discarding'
    <3>1. CASE o.got = "pool" BY <1>1, <2>7, <3>1 DEF Sound, Discarding
    <3>2. CASE o.got # "pool"
      <4>1. \A t \in Buffer!OpThread \ {"discarder"} : op'[t].at = "idle"
        BY <1>1, <2>7, <3>2 DEF Sound, Discarding
      <4>2. op'["discarder"].at = "punch" => Buffer!FirstRun(op'["discarder"].S) \cap ranges' = {}
        BY <2>1, <2>4, <2>7
      <4> QED BY <2>7, <3>2, <4>1, <4>2 DEF Discarding
    <3> QED BY <3>1, <3>2
  <2>16. Kept'
    <3> SUFFICES ASSUME NEW c \in ranges', Near(c)' PROVE Held(c)' BY DEF Kept
    <3>1. Near(c) /\ c \in stay BY <1>1, <2>1 DEF Near
    <3>2. c \in ranges /\ c \in Buffer!Cell /\ c \notin S BY <2>4, <3>1 DEF Sound, BufShapes
    <3>3. Held(c) BY <3>1, <3>2 DEF Sound, Kept
    <3>4. CASE Buffer!BlockOf(c) \in Buffer!Resident
      <4>1. c \in Buffer!CellsOf(Buffer!BlockOf(c)) BY <3>2 DEF Buffer!CellsOf
      <4>2. Buffer!BlockOf(c) \in Buffer!Resident \ gone BY <2>3, <3>1, <3>4, <4>1
      <4> QED BY <2>1, <2>5, <2>6, <3>2, <3>3, <4>2 DEF Held
    <3>5. CASE Buffer!BlockOf(c) \notin Buffer!Resident BY <2>1, <2>5, <3>3, <3>5 DEF Held
    <3> QED BY <3>4, <3>5
  <2> QED BY <2>9, <2>10, <2>11, <2>12, <2>13, <2>14, <2>15, <2>16 DEF Sound
<1> QED BY <1>2, <1>3

LEMMA PunchKeeps ==
  ASSUME Sound, Orderly, Buffer!Punch
  PROVE  Sound'
<1> DEFINE o == op["discarder"]
           S == Buffer!FirstRun(o.S)
<1>1. /\ o.at = "punch" /\ Buffer!NextRun
      /\ file' = [c \in Buffer!Cell |-> IF c \in S THEN "hole" ELSE file[c]]
      /\ UNCHANGED <<crew, blocks, ranges, state, head, closed>>
  BY DEF Buffer!Punch
<1>2. /\ op'["discarder"].at \in {"idle", "drop"}
      /\ op'["discarder"].at # "idle" => op'["discarder"].got = o.got /\ op'["discarder"].S \subseteq o.S
      /\ \A u \in Buffer!OpThread : u # "discarder" => op'[u] = op[u]
      /\ DOMAIN op' = Buffer!OpThread /\ \A u \in Buffer!OpThread : DOMAIN op'[u] = Fields
  BY <1>1, NextRunIs DEF Sound
\* The pool punches behind the reader only.
<1>3. ASSUME o.got = "pool", NEW c \in Buffer!Cell, Near(c) PROVE file'[c] = file[c]
  <2>1. "forward" \in crew /\ \A d \in o.S : d \in Int /\ d < head
    BY <1>1, <1>3 DEF Sound, Discarding, Orderly
  <2>2. c \in Int /\ head \in Int /\ c >= head BY <1>3, <2>1, CellsAreInts DEF Near, Sound, BufShapes
  <2>3. c \notin o.S BY <2>1, <2>2
  <2>4. c \notin S BY <2>3, FirstRunIs
  <2> QED BY <1>1, <2>4
<1>4. ASSUME o.got # "pool" PROVE /\ \A t \in Buffer!OpThread \ {"discarder"} : op[t].at = "idle"
                                  /\ S \cap ranges = {}
  BY <1>1, <1>4 DEF Sound, Discarding
<1>5. DOMAIN file' = Buffer!Cell BY <1>1
<1> HIDE DEF S
<1>6. BufShapes' BY <1>1, <1>2, <1>5 DEF Sound, BufShapes, Fields, Buffer!Resident
<1>7. Regions' BY <1>2, ThreadsAre DEF Sound, Regions
<1>8. Dirty' /\ Fast' BY <1>1 DEF Sound, Dirty, Fast, Buffer!Resident
<1>9. Discarding' BY <1>1, <1>2, <1>4 DEF Sound, Discarding
<1>10. Kept'
  <2> SUFFICES ASSUME NEW c \in ranges', Near(c)' PROVE Held(c)' BY DEF Kept
  <2>1. Near(c) /\ c \in ranges /\ c \in Buffer!Cell BY <1>1 DEF Near, Sound, BufShapes
  <2>2. Held(c) BY <2>1 DEF Sound, Kept
  <2>3. file'[c] = file[c] BY <1>1, <1>3, <1>4, <2>1
  <2> QED BY <1>1, <2>1, <2>2, <2>3, HeldGains
<1>11. Through'
  <2> SUFFICES ASSUME NEW t \in Writers, op'[t].at = "note", NEW c \in op'[t].S, Near(c)'
               PROVE  file'[c] = "data"
    BY DEF Through
  <2>1. op'[t] = op[t] /\ t \in Buffer!OpThread \ {"discarder"} BY <1>2, ThreadsAre
  <2>2. o.got = "pool" BY <1>4, <2>1
  <2>3. c \in Buffer!Cell /\ Near(c) BY <1>1, <2>1 DEF Sound, Regions, Near
  <2> QED BY <1>3, <2>1, <2>2, <2>3 DEF Sound, Through
<1>12. Reading'
  <2>1. op'["reader"] = op["reader"] BY <1>2, ThreadsAre
  <2>2. ASSUME op["reader"].at = "fast", closed # "closed", NEW c \in op["reader"].S
        PROVE  file'[c] = "data"
    <3>1. o.got = "pool" BY <1>4, <2>2, ThreadsAre
    <3>2. c \in Buffer!Cell /\ Near(c) BY <2>2, RunFacts DEF Sound, Reading
    <3> QED BY <1>3, <2>2, <3>1, <3>2 DEF Sound, Reading
  <2> QED BY <1>1, <2>1, <2>2 DEF Sound, Reading, Near
<1> QED BY <1>6, <1>7, <1>8, <1>9, <1>10, <1>11, <1>12 DEF Sound

LEMMA OthersKeeps ==
  ASSUME Sound, Orderly, UNCHANGED <<crew, file, blocks, ranges, state, head, closed, op>>
  PROVE  Sound'
<1>1. Discarding' BY DEF Sound, Discarding
<1>2. DOMAIN op' = Buffer!OpThread /\ \A u \in Buffer!OpThread : DOMAIN op'[u] = Fields
  BY DEF Sound, BufShapes, Fields
<1> QED BY <1>1, <1>2, DiscarderMoves

LEMMA SoundNext ==
  ASSUME Sound, Orderly, Buffer!NextBuffer
  PROVE  Sound'
<1>1. ASSUME NEW t \in Writers,
             \/ \E S \in Buffer!Run : Buffer!Write(t, S)
             \/ Buffer!ProbeRoom(t) \/ Buffer!Evict(t) \/ Buffer!WriteCached(t)
             \/ Buffer!WriteThrough(t) \/ Buffer!Note(t)
      PROVE  Sound'
  BY <1>1, WriteKeeps, ProbeRoomKeeps, EvictKeeps, WriteCachedKeeps, WriteThroughKeeps, NoteKeeps
<1>2. CASE Buffer!Others BY <1>2, OthersKeeps DEF Buffer!Others, Buffer!content
<1> QED BY <1>1, <1>2, ReadKeeps, DiscardKeeps, ReadFastKeeps, ReadSlowKeeps, ReclaimKeeps, DropKeeps,
           PunchKeeps, FlushKeeps, CloseKeeps DEF Buffer!NextBuffer, Writers

LEMMA SoundInit == ASSUME Buffer!InitBuffer PROVE Sound
<1>1. /\ file = [c \in Buffer!Cell |-> "hole"] /\ blocks = [b \in {} |-> 0] /\ ranges = {}
      /\ state = [b \in Buffer!Block |-> "slow"] /\ head = 0 /\ closed = "open"
      /\ op = [t \in Buffer!OpThread |-> Buffer!NoOp]
  BY DEF Buffer!InitBuffer
<1>2. /\ DOMAIN Buffer!NoOp = Fields /\ Buffer!NoOp.at = "idle" /\ Buffer!NoOp.got = "none"
  BY DEF Buffer!NoOp, Fields
<1>3. Buffer!Resident = {} BY <1>1 DEF Buffer!Resident
<1>4. BufShapes BY <1>1, <1>2, <1>3 DEF BufShapes, Fields
<1>5. \A t \in Buffer!OpThread : op[t].at = "idle" /\ op[t].got = "none" BY <1>1, <1>2
<1>6. Regions /\ Through /\ Reading /\ Discarding
  BY <1>5, ThreadsAre DEF Regions, Through, Reading, Discarding
<1>7. Dirty /\ Kept BY <1>1, <1>3 DEF Dirty, Kept
<1>8. Fast BY <1>1 DEF Fast
<1> QED BY <1>4, <1>6, <1>7, <1>8 DEF Sound

LEMMA BufInvInit == MountInit => BufInv
<1> SUFFICES ASSUME MountInit, cast = {}, troupe = {} PROVE crew # {} /\ Sound BY DEF BufInv
<1>1. Buffer!InitBuffer BY ScenesAssumption DEF MountInit, Cache!InitVfs, Loads!InitDl
<1> QED BY <1>1, SoundInit, ScenesAssumption DEF Buffer!InitBuffer

\* Who acts never changes.
LEMMA CrewStays == Buffer!NextBuffer => crew' = crew
BY DEF Buffer!NextBuffer, Buffer!Write, Buffer!ProbeRoom, Buffer!Evict, Buffer!WriteCached,
       Buffer!WriteThrough, Buffer!Note, Buffer!Read, Buffer!Discard, Buffer!ReadFast,
       Buffer!ReadSlow, Buffer!Reclaim, Buffer!Drop, Buffer!Punch, Buffer!Flush,
       Buffer!BeginClose, Buffer!FinishClose, Buffer!Others

LEMMA CastStays == Cache!NextVfs => cast' = cast
BY DEF Cache!NextVfs, Cache!Want, Cache!Serve, Cache!GetFile, Cache!Bind, Cache!Release,
       Cache!ReleaseFile, Cache!Lookup, Cache!GetItem, Cache!Create, Cache!NewItem,
       Cache!FlushBuffer, Cache!FlushMetadata, Cache!CloseItem, Cache!CloseFlush,
       Cache!CloseMeta, Cache!CloseBuffer, Cache!Fetch, Cache!WantWrite, Cache!WriteCachedRange,
       Cache!Claim, Cache!Sweep, Cache!Delete, Cache!Closing, Cache!Scan, Cache!RemoveData,
       Cache!RemoveMeta, Cache!Mend, Cache!ForgetRange, Cache!ForgetDiskRange, Cache!Replace,
       Cache!Crash

LEMMA TroupeStays == Loads!NextDl => troupe' = troupe
BY DEF Loads!NextDl, Loads!Begin, Loads!Ask, Loads!Retry, Loads!CancelRead, Loads!Return,
       Loads!Downloader, Loads!RunEnds, Loads!WaitForWork, Loads!StreamChunk, Loads!StreamFails,
       Loads!CloseRun, Loads!CountErrors, Loads!EndDownloader, Loads!Tick, Loads!IdleOut,
       Loads!KickerEnds, Loads!Cooldown, Loads!StopAll, Loads!Stopping, Loads!CloseAll,
       Loads!CloseEnds, Loads!Evicted

LEMMA BufInvNext == BufInv /\ [MountNext]_mountvars => BufInv'
<1> SUFFICES ASSUME BufInv, [MountNext]_mountvars, cast' = {}, troupe' = {}
             PROVE  crew' # {} /\ (Orderly' => Sound')
  BY DEF BufInv
<1>1. CASE InBuffer /\ Buffer!NextBuffer
  <2>1. crew' = crew BY <1>1, CrewStays
  <2>2. Orderly' = Orderly BY <2>1 DEF Orderly
  <2> QED BY <1>1, <2>1, <2>2, SoundNext DEF BufInv, InBuffer
<1>2. CASE InCache /\ Cache!NextVfs /\ UNCHANGED <<bvars, lvars>>
  <2>1. cast' = cast BY <1>2, CastStays
  <2> QED BY <1>2, <2>1 DEF BufInv, InCache
<1>3. CASE InLoads /\ Loads!NextDl /\ UNCHANGED <<bvars, cvars>>
  <2>1. cast = {} /\ crew = {} BY <1>3 DEF InLoads
  <2>2. troupe' = troupe BY <1>3, TroupeStays
  <2> QED BY <2>1, <2>2 DEF BufInv
<1>4. CASE UNCHANGED mountvars
  <2>1. UNCHANGED <<crew, file, blocks, ranges, state, head, closed, op, cast, troupe>>
    BY <1>4 DEF mountvars, bvars, cvars, lvars
  <2> QED BY <2>1, OthersKeeps DEF BufInv, Orderly
<1> QED BY <1>1, <1>2, <1>3, <1>4 DEF MountNext

\* For any number of cells, any block size and any budget of memory and disk:
\* ReadAt never hands out the zeros of a hole or what a reused block held,
\* beside writers, evictions, flushes, discards and a close, as long as a
\* reader the pool reclaims behind of only goes forward (buffer.go, ReadAt,
\* Discard and acquireBlockLocked; pool.go, reclaimDisk).
THEOREM ReadsAreTrue == MountSpec => [](Orderly => ReadIsTrue)
<1>1. BufInv => (Orderly => ReadIsTrue)
  BY DEF BufInv, ReadIsTrue, Buffer!ReadIsTrue, InBuffer, Sound, Reading
<1> QED BY <1>1, BufInvInit, BufInvNext, PTL DEF MountSpec
-----------------------------------------------------------------------------
(* The cache items of the mount.                                           *)

ItemFields == {"hash", "opens", "retired", "rs", "mem", "ino", "shut", "dirty"}
Loader == {"v1", "v2", "precache"}
Listing(q) == \E S : q \in Seq(S)

\* The name keeps its release; viewers, the pre-cache and a janitor, any of
\* which may find what a crash has left.
Unreplaced ==
  /\ "replace" \notin cast /\ "forget" \notin cast /\ ~(Cache!Janitor \subseteq cast)
  /\ Cache!Janitor \cap cast # {} => "still" \in cast

\* The name changes its release once the sidecar is written, under viewers.
Regrabbed ==
  cast \cap {"janitor", "evictfile", "crash", "precache", "forget"} = {} /\ "settled" \in cast

\* The items and the data files made so far.
Stock ==
  /\ Listing(items) /\ Listing(inodes)
  /\ \A i \in 1 .. Len(items) :
       /\ DOMAIN items[i] = ItemFields /\ items[i].opens \in Int
       /\ items[i].ino \in 1 .. Len(inodes)
       /\ DOMAIN items[i].mem \subseteq Cache!Range /\ items[i].rs \subseteq Cache!Range
  /\ \A n \in 1 .. Len(inodes) : DOMAIN inodes[n] = Cache!Range
  /\ path \in 0 .. Len(inodes) /\ slot \in 0 .. Len(items)
  /\ DOMAIN side = {"hash", "rs"} /\ side.rs \subseteq Cache!Range

Threads ==
  /\ DOMAIN th = Cache!VThread
  /\ \A t \in Cache!VThread : DOMAIN th[t] = {"at", "it", "hash", "rs"}
  /\ \A t \in Loader : th[t].at = "load" => th[t].rs \subseteq Cache!Range
  /\ th["forget"].at = "out"

\* What an item lists is its own release's, in RAM or in its file.
Own(i) ==
  /\ \A c \in DOMAIN items[i].mem : items[i].mem[c][1] = items[i].hash
  /\ \A c \in items[i].rs : c \in DOMAIN items[i].mem \/ inodes[items[i].ino][c][1] = items[i].hash

\* Items that share a data file are of one release.
Content ==
  /\ \A i \in 1 .. Len(items) : Own(i)
  /\ \A i, k \in 1 .. Len(items) : items[i].ino = items[k].ino => items[i].hash = items[k].hash

\* All but item i stay as they are.
Alters(i) ==
  /\ Listing(items') /\ Len(items') = Len(items)
  /\ \A k \in 1 .. Len(items) : k # i => items'[k] = items[k]

LEMMA Replacing ==
  ASSUME Listing(items), NEW i, NEW r, items' = [items EXCEPT ![i] = r]
  PROVE  Alters(i) /\ (i \in 1 .. Len(items) => items'[i] = r)
<1>1. PICK S : items \in Seq(S) BY DEF Listing
<1>2. items' \in Seq(S \cup {r}) /\ Len(items') = Len(items)
  <2>1. items \in Seq(S \cup {r}) BY <1>1
  <2>2. CASE i \in 1 .. Len(items) BY <2>1, <2>2
  <2>3. CASE i \notin 1 .. Len(items)
    <3>1. items' = items BY <1>1, <2>3
    <3> QED BY <2>1, <3>1
  <2> QED BY <2>2, <2>3
<1>3. \A k \in 1 .. Len(items) : k # i => items'[k] = items[k] BY <1>1
<1>4. i \in 1 .. Len(items) => items'[i] = r BY <1>1
<1> QED BY <1>2, <1>3, <1>4 DEF Alters, Listing

LEMMA Rewriting ==
  ASSUME Listing(inodes), NEW i, NEW r, inodes' = [inodes EXCEPT ![i] = r]
  PROVE  /\ Listing(inodes') /\ Len(inodes') = Len(inodes)
         /\ \A k \in 1 .. Len(inodes) : k # i => inodes'[k] = inodes[k]
         /\ i \in 1 .. Len(inodes) => inodes'[i] = r
<1>1. PICK S : inodes \in Seq(S) BY DEF Listing
<1>2. inodes' \in Seq(S \cup {r}) /\ Len(inodes') = Len(inodes)
  <2>1. inodes \in Seq(S \cup {r}) BY <1>1
  <2>2. CASE i \in 1 .. Len(inodes) BY <2>1, <2>2
  <2>3. CASE i \notin 1 .. Len(inodes)
    <3>1. inodes' = inodes BY <1>1, <2>3
    <3> QED BY <2>1, <3>1
  <2> QED BY <2>2, <2>3
<1>3. \A k \in 1 .. Len(inodes) : k # i => inodes'[k] = inodes[k] BY <1>1
<1>4. i \in 1 .. Len(inodes) => inodes'[i] = r BY <1>1
<1> QED BY <1>2, <1>3, <1>4 DEF Listing

LEMMA RangeStays == cast' = cast => Cache!Range' = Cache!Range
BY DEF Cache!Range

\* An item's books change, its bytes do not.
LEMMA BooksKeep ==
  ASSUME Stock, Content, cast' = cast, inodes' = inodes, path' \in {0, path}, slot' \in {0, slot},
         DOMAIN side' = {"hash", "rs"}, side'.rs \subseteq Cache!Range, NEW i, Alters(i),
         i \in 1 .. Len(items) =>
           /\ DOMAIN items'[i] = ItemFields /\ items'[i].opens \in Int
           /\ items'[i].hash = items[i].hash /\ items'[i].ino = items[i].ino
           /\ items'[i].rs = items[i].rs /\ items'[i].mem = items[i].mem
  PROVE  Stock' /\ Content'
<1>1. Cache!Range' = Cache!Range BY RangeStays
<1>2. \A k \in 1 .. Len(items) :
        /\ DOMAIN items'[k] = ItemFields /\ items'[k].opens \in Int
        /\ items'[k].hash = items[k].hash /\ items'[k].ino = items[k].ino
        /\ items'[k].rs = items[k].rs /\ items'[k].mem = items[k].mem
  BY DEF Alters, Stock
<1>3. Len(items') = Len(items) /\ Listing(items') BY DEF Alters
<1>4. Stock'
  <2>1. path' \in 0 .. Len(inodes) /\ slot' \in 0 .. Len(items)
    <3>1. Len(inodes) \in Nat /\ Len(items) \in Nat BY DEF Stock, Listing
    <3> QED BY <3>1 DEF Stock
  <2> QED BY <1>1, <1>2, <1>3, <2>1 DEF Stock
<1>5. Content' BY <1>2, <1>3 DEF Content, Own
<1> QED BY <1>4, <1>5

\* What an item has in RAM goes to its file.
LEMMA ItemFlushKeeps ==
  ASSUME Stock, Content, cast' = cast, NEW i \in 1 .. Len(items), inodes' = Cache!OnFile(i),
         path' = path, slot' = slot, side' = side, Alters(i),
         /\ DOMAIN items'[i] = ItemFields /\ items'[i].opens \in Int
         /\ items'[i].hash = items[i].hash /\ items'[i].ino = items[i].ino
         /\ items'[i].rs = items[i].rs /\ items'[i].mem = Cache!NoMem
  PROVE  Stock' /\ Content'
<1> DEFINE n == items[i].ino
           v == [c \in Cache!Range |-> Cache!Value(i, c)]
<1>1. Cache!Range' = Cache!Range BY RangeStays
<1>2. inodes' = [inodes EXCEPT ![n] = v] BY DEF Cache!OnFile
<1>3. n \in 1 .. Len(inodes) BY DEF Stock
<1>4. DOMAIN v = Cache!Range /\ \A c \in Cache!Range : v[c] = Cache!Value(i, c) OBVIOUS
<1>5. \A c \in Cache!Range : v[c] = IF c \in DOMAIN items[i].mem THEN items[i].mem[c] ELSE inodes[n][c]
  BY <1>4 DEF Cache!Value
<1> HIDE DEF v
<1>6. /\ Listing(inodes') /\ Len(inodes') = Len(inodes) /\ inodes'[n] = v
      /\ \A m \in 1 .. Len(inodes) : m # n => inodes'[m] = inodes[m]
  <2> HIDE DEF n
  <2>1. Listing(inodes) BY DEF Stock
  <2>2. /\ Listing(inodes') /\ Len(inodes') = Len(inodes)
        /\ \A k \in 1 .. Len(inodes) : k # n => inodes'[k] = inodes[k]
        /\ n \in 1 .. Len(inodes) => inodes'[n] = v
    BY <1>2, <2>1, Rewriting
  <2> QED BY <1>3, <2>2
<1>7. DOMAIN items'[i].mem = {} BY DEF Cache!NoMem
<1>8. Len(items') = Len(items) /\ Listing(items') /\ \A k \in 1 .. Len(items) : k # i => items'[k] = items[k]
  BY DEF Alters
<1>9. Stock'
  <2>1. ASSUME NEW k \in 1 .. Len(items)
        PROVE  /\ DOMAIN items'[k] = ItemFields /\ items'[k].opens \in Int
               /\ items'[k].ino \in 1 .. Len(inodes)
               /\ DOMAIN items'[k].mem \subseteq Cache!Range /\ items'[k].rs \subseteq Cache!Range
    BY <1>7, <1>8, <2>1 DEF Stock
  <2>2. \A m \in 1 .. Len(inodes) : DOMAIN inodes'[m] = Cache!Range BY <1>4, <1>6 DEF Stock
  <2> QED BY <1>1, <1>6, <1>8, <2>1, <2>2 DEF Stock
<1>10. ASSUME NEW k \in 1 .. Len(items) PROVE Own(k)'
  <2>1. items'[k].hash = items[k].hash /\ items'[k].ino = items[k].ino /\ items'[k].rs = items[k].rs
    BY <1>8
  <2>2. items[k].rs \subseteq Cache!Range BY DEF Stock
  <2>3. \A c \in DOMAIN items'[k].mem : items'[k].mem[c][1] = items'[k].hash
    BY <1>7, <1>8 DEF Content, Own
  <2>4. ASSUME NEW c \in items[k].rs
        PROVE  c \in DOMAIN items'[k].mem \/ inodes'[items[k].ino][c][1] = items[k].hash
    <3>1. CASE items[k].ino # n
      <4>1. k # i BY <3>1
      <4>2. inodes'[items[k].ino] = inodes[items[k].ino] BY <1>6, <3>1 DEF Stock
      <4> QED BY <1>8, <4>1, <4>2 DEF Content, Own
    <3>2. CASE items[k].ino = n
      <4>1. items[k].hash = items[i].hash BY <3>2 DEF Content
      <4>2. inodes'[n][c] = IF c \in DOMAIN items[i].mem THEN items[i].mem[c] ELSE inodes[n][c]
        BY <1>5, <1>6, <2>2, <2>4
      <4>3. CASE c \in DOMAIN items[i].mem BY <3>2, <4>1, <4>2, <4>3 DEF Content, Own
      <4>4. CASE c \notin DOMAIN items[i].mem /\ k = i BY <3>2, <4>2, <4>4, <2>4 DEF Content, Own
      <4>5. CASE c \notin DOMAIN items[i].mem /\ k # i
        BY <1>8, <3>2, <4>2, <4>5, <2>4 DEF Content, Own
      <4> QED BY <4>3, <4>4, <4>5
    <3> QED BY <3>1, <3>2
  <2> QED BY <2>1, <2>3, <2>4 DEF Own
<1>11. \A k \in 1 .. Len(items) : items'[k].hash = items[k].hash /\ items'[k].ino = items[k].ino BY <1>8
<1> QED BY <1>8, <1>9, <1>10, <1>11 DEF Content

\* A range is fetched into RAM.
LEMMA CachedKeeps ==
  ASSUME Stock, Content, cast' = cast, NEW i, NEW c \in Cache!Range, NEW value,
         i \in 1 .. Len(items) => value[1] = items[i].hash,
         Cache!Cached(i, c, value), UNCHANGED <<inodes, path, slot, side>>
  PROVE  /\ Stock' /\ Content' /\ Alters(i)
         /\ i \in 1 .. Len(items) =>
              /\ items'[i].hash = items[i].hash /\ items'[i].opens = items[i].opens
              /\ items'[i].retired = items[i].retired /\ items'[i].shut = items[i].shut
              /\ items'[i].ino = items[i].ino
<1> DEFINE m == items[i].mem
           more == [d \in DOMAIN m \cup {c} |-> IF d = c THEN value ELSE m[d]]
           mm == IF c \in items[i].rs THEN m ELSE more
           r == [items[i] EXCEPT !.mem = mm, !.rs = @ \cup {c}, !.dirty = TRUE]
<1>1. items' = [items EXCEPT ![i] = r] BY DEF Cache!Cached
<1>2. i \in 1 .. Len(items) =>
        /\ DOMAIN r = ItemFields /\ r.hash = items[i].hash /\ r.opens = items[i].opens
        /\ r.retired = items[i].retired /\ r.shut = items[i].shut /\ r.ino = items[i].ino
        /\ r.rs = items[i].rs \cup {c} /\ r.mem = mm
  BY DEF Stock, ItemFields
<1>3. i \in 1 .. Len(items) =>
        /\ DOMAIN mm \subseteq DOMAIN m \cup {c} /\ DOMAIN m \subseteq DOMAIN mm
        /\ c \in DOMAIN mm \/ c \in items[i].rs
        /\ \A d \in DOMAIN mm : mm[d][1] = items[i].hash
  <2> SUFFICES ASSUME i \in 1 .. Len(items)
               PROVE  /\ DOMAIN mm \subseteq DOMAIN m \cup {c} /\ DOMAIN m \subseteq DOMAIN mm
                      /\ c \in DOMAIN mm \/ c \in items[i].rs
                      /\ \A d \in DOMAIN mm : mm[d][1] = items[i].hash
    OBVIOUS
  <2>1. \A d \in DOMAIN m : m[d][1] = items[i].hash BY DEF Content, Own
  <2>2. CASE c \in items[i].rs BY <2>1, <2>2
  <2>3. CASE c \notin items[i].rs
    <3>1. mm = more BY <2>3
    <3>2. DOMAIN more = DOMAIN m \cup {c} OBVIOUS
    <3>3. \A d \in DOMAIN more : more[d] = IF d = c THEN value ELSE m[d] OBVIOUS
    <3> HIDE DEF more, mm, m
    <3> QED BY <2>1, <3>1, <3>2, <3>3
  <2> QED BY <2>2, <2>3
<1> HIDE DEF r, mm
<1>4. Alters(i) /\ (i \in 1 .. Len(items) => items'[i] = r)
  <2>1. Listing(items) BY DEF Stock
  <2> QED BY <1>1, <2>1, Replacing
<1>5. Cache!Range' = Cache!Range BY RangeStays
<1>6. \A k \in 1 .. Len(items) :
        /\ DOMAIN items'[k] = ItemFields /\ items'[k].opens \in Int
        /\ items'[k].hash = items[k].hash /\ items'[k].ino = items[k].ino
        /\ DOMAIN items'[k].mem \subseteq Cache!Range /\ items'[k].rs \subseteq Cache!Range
  <2> SUFFICES ASSUME NEW k \in 1 .. Len(items)
               PROVE  /\ DOMAIN items'[k] = ItemFields /\ items'[k].opens \in Int
                      /\ items'[k].hash = items[k].hash /\ items'[k].ino = items[k].ino
                      /\ DOMAIN items'[k].mem \subseteq Cache!Range /\ items'[k].rs \subseteq Cache!Range
    OBVIOUS
  <2>1. CASE k # i BY <1>4, <2>1 DEF Alters, Stock
  <2>2. CASE k = i BY <1>2, <1>3, <1>4, <2>2 DEF Stock
  <2> QED BY <2>1, <2>2
<1>7. Stock' BY <1>4, <1>5, <1>6 DEF Stock, Alters
<1>8. ASSUME NEW k \in 1 .. Len(items) PROVE Own(k)'
  <2>1. CASE k # i BY <1>4, <2>1 DEF Alters, Content, Own
  <2>2. CASE k = i
    <3>1. \A d \in DOMAIN items'[k].mem : items'[k].mem[d][1] = items'[k].hash
      BY <1>2, <1>3, <1>4, <2>2
    <3>2. \A d \in items'[k].rs : d \in DOMAIN items'[k].mem \/ inodes[items'[k].ino][d][1] = items'[k].hash
      BY <1>2, <1>3, <1>4, <2>2 DEF Content, Own
    <3> QED BY <3>1, <3>2 DEF Own
  <2> QED BY <2>1, <2>2
<1>9. Content' BY <1>4, <1>6, <1>8 DEF Alters, Content
<1> QED BY <1>2, <1>4, <1>7, <1>9

\* A new item lists what the data file has of its sidecar.
LEMMA NewItemKeeps ==
  ASSUME Stock, Content, Threads, NEW t \in Loader, Cache!NewItem(t),
         path = 0 => th[t].rs = {},
         path # 0 => /\ \A c \in Cache!Range : inodes[path][c] = Cache!Hole \/ inodes[path][c][1] = th[t].hash
                     /\ \A i \in 1 .. Len(items) : items[i].ino = path => items[i].hash = th[t].hash
  PROVE  /\ Stock' /\ Content' /\ Len(items') = Len(items) + 1 /\ slot' = Len(items) + 1 /\ path' # 0
         /\ \A k \in 1 .. Len(items) : items'[k] = items[k]
         /\ items'[slot'].hash = th[t].hash /\ items'[slot'].opens = 0 /\ items'[slot'].shut = "no"
         /\ items'[slot'].retired = FALSE /\ items'[slot'].ino = path'
         /\ items'[slot'].mem = Cache!NoMem
         /\ inodes' = inodes \/ (path = 0 /\ inodes' = Append(inodes, [c \in Cache!Range |-> Cache!Hole])
                                 /\ path' = Len(inodes) + 1)
<1> DEFINE ino == IF path = 0 THEN Len(inodes) + 1 ELSE path
           rs == Cache!OnDisk(th[t].rs)
           x == [hash |-> th[t].hash, opens |-> 0, retired |-> FALSE, rs |-> rs,
                 mem |-> Cache!NoMem, ino |-> ino, shut |-> "no", dirty |-> TRUE]
           empty == [c \in Cache!Range |-> Cache!Hole]
<1>1. /\ path' = ino /\ inodes' = IF path = 0 THEN Append(inodes, empty) ELSE inodes
      /\ items' = Append(items, x) /\ slot' = Len(items) + 1 /\ side' = side /\ cast' = cast
      /\ th[t].at = "load"
  BY DEF Cache!NewItem
<1>2. /\ DOMAIN x = ItemFields /\ x.hash = th[t].hash /\ x.opens = 0 /\ x.retired = FALSE /\ x.rs = rs
      /\ x.mem = Cache!NoMem /\ x.ino = ino /\ x.shut = "no"
  BY DEF ItemFields
<1>3. DOMAIN empty = Cache!Range OBVIOUS
<1> HIDE DEF x, empty
<1>4. /\ Listing(items') /\ Len(items') = Len(items) + 1 /\ Len(items) \in Nat
      /\ \A k \in 1 .. Len(items) : items'[k] = items[k]
      /\ items'[Len(items) + 1] = x
  <2>1. PICK S : items \in Seq(S) BY DEF Stock, Listing
  <2>2. items \in Seq(S \cup {x}) BY <2>1
  <2>3. items' \in Seq(S \cup {x}) BY <1>1, <2>2
  <2> QED BY <1>1, <2>2, <2>3 DEF Listing
<1>5. /\ Listing(inodes') /\ Len(inodes) \in Nat /\ Len(inodes') >= Len(inodes) /\ Len(inodes') \in Nat
      /\ ino \in 1 .. Len(inodes')
      /\ \A n \in 1 .. Len(inodes) : inodes'[n] = inodes[n]
      /\ \A n \in 1 .. Len(inodes') : DOMAIN inodes'[n] = Cache!Range
  <2>1. PICK S : inodes \in Seq(S) BY DEF Stock, Listing
  <2>2. inodes \in Seq(S \cup {empty}) BY <2>1
  <2>3. CASE path # 0
    <3>1. inodes' = inodes /\ ino = path BY <1>1, <2>3
    <3>2. path \in 1 .. Len(inodes) BY <2>1, <2>3 DEF Stock
    <3> QED BY <2>1, <3>1, <3>2 DEF Stock, Listing
  <2>4. CASE path = 0
    <3>1. inodes' = Append(inodes, empty) /\ ino = Len(inodes) + 1 BY <1>1, <2>4
    <3>2. /\ inodes' \in Seq(S \cup {empty}) /\ Len(inodes') = Len(inodes) + 1
          /\ \A n \in 1 .. Len(inodes) : inodes'[n] = inodes[n]
          /\ inodes'[Len(inodes) + 1] = empty /\ Len(inodes) \in Nat
      BY <2>2, <3>1
    <3>3. \A n \in 1 .. Len(inodes') : n \in 1 .. Len(inodes) \/ n = Len(inodes) + 1 BY <3>2
    <3> QED BY <1>3, <3>1, <3>2, <3>3 DEF Stock, Listing
  <2> QED BY <2>3, <2>4
<1>6. Cache!Range' = Cache!Range BY <1>1, RangeStays
<1>7. rs \subseteq Cache!Range
  <2>1. th[t].rs \subseteq Cache!Range BY <1>1 DEF Threads
  <2> QED BY <2>1 DEF Cache!OnDisk
<1>8. DOMAIN x.mem = {} BY <1>2 DEF Cache!NoMem
<1>9. \A k \in 1 .. Len(items') : k \in 1 .. Len(items) \/ k = Len(items) + 1 BY <1>4
<1> HIDE DEF ino, rs
<1>10. Stock'
  <2>1. ASSUME NEW k \in 1 .. Len(items')
        PROVE  /\ DOMAIN items'[k] = ItemFields /\ items'[k].opens \in Int
               /\ items'[k].ino \in 1 .. Len(inodes')
               /\ DOMAIN items'[k].mem \subseteq Cache!Range /\ items'[k].rs \subseteq Cache!Range
    <3>1. CASE k \in 1 .. Len(items)
      <4>1. items'[k] = items[k] /\ items[k].ino \in 1 .. Len(inodes) BY <1>4, <3>1 DEF Stock
      <4>2. items[k].ino \in 1 .. Len(inodes') BY <1>5, <4>1
      <4> QED BY <3>1, <4>1, <4>2 DEF Stock
    <3>2. CASE k = Len(items) + 1 BY <1>2, <1>4, <1>5, <1>7, <1>8, <3>2
    <3> QED BY <1>9, <3>1, <3>2
  <2>2. slot' \in 0 .. Len(items') /\ path' \in 0 .. Len(inodes') BY <1>1, <1>4, <1>5
  <2>3. DOMAIN side' = {"hash", "rs"} /\ side'.rs \subseteq Cache!Range BY <1>1 DEF Stock
  <2> QED BY <1>4, <1>5, <1>6, <2>1, <2>2, <2>3 DEF Stock
<1>11. ASSUME NEW k \in 1 .. Len(items') PROVE Own(k)'
  <2>1. CASE k \in 1 .. Len(items)
    <3>1. items'[k] = items[k] /\ inodes'[items[k].ino] = inodes[items[k].ino] BY <1>4, <1>5, <2>1 DEF Stock
    <3> QED BY <2>1, <3>1 DEF Content, Own
  <2>2. CASE k = Len(items) + 1
    <3>1. items'[k] = x BY <1>4, <2>2
    <3>2. ASSUME NEW c \in rs PROVE inodes'[ino][c][1] = th[t].hash
      <4>1. path # 0 BY <3>2 DEF rs, Cache!OnDisk
      <4>2. inodes' = inodes /\ ino = path /\ inodes[path][c] # Cache!Hole
        BY <1>1, <3>2, <4>1 DEF rs, ino, Cache!OnDisk
      <4> QED BY <1>7, <3>2, <4>1, <4>2
    <3> QED BY <1>2, <1>8, <3>1, <3>2 DEF Own
  <2> QED BY <1>9, <2>1, <2>2
<1>12. ASSUME NEW k \in 1 .. Len(items) PROVE items[k].ino = ino => items[k].hash = th[t].hash
  <2>1. items[k].ino \in 1 .. Len(inodes) BY DEF Stock
  <2>2. CASE path = 0
    <3>1. ino = Len(inodes) + 1 BY <2>2 DEF ino
    <3> QED BY <1>5, <2>1, <3>1
  <2>3. CASE path # 0 BY <2>3 DEF ino
  <2> QED BY <2>2, <2>3
<1>13. Content'
  <2>1. ASSUME NEW i \in 1 .. Len(items'), NEW k \in 1 .. Len(items'), items'[i].ino = items'[k].ino
        PROVE  items'[i].hash = items'[k].hash
    <3>1. CASE i \in 1 .. Len(items) /\ k \in 1 .. Len(items) BY <1>4, <2>1, <3>1 DEF Content
    <3>2. CASE i \in 1 .. Len(items) /\ k = Len(items) + 1 BY <1>2, <1>4, <1>12, <2>1, <3>2
    <3>3. CASE i = Len(items) + 1 /\ k \in 1 .. Len(items) BY <1>2, <1>4, <1>12, <2>1, <3>3
    <3> QED BY <1>9, <3>1, <3>2, <3>3
  <2> QED BY <1>11, <2>1 DEF Content
<1>14. path' # 0 BY <1>1, <1>5
<1>15. inodes' = inodes \/ (path = 0 /\ inodes' = Append(inodes, [c \in Cache!Range |-> Cache!Hole])
                                 /\ path' = Len(inodes) + 1)
  BY <1>1 DEF empty, ino
<1> QED BY <1>1, <1>2, <1>4, <1>10, <1>13, <1>14, <1>15

\* The threads of the janitors stay, and nobody begins to load.
ThreadsCalm ==
  /\ \A j \in Cache!Janitor : th'[j] = th[j]
  /\ \A t \in Loader : th'[t].at = "load" => th'[t] = th[t]

LEMMA LoadersAre ==
  /\ Loader \subseteq Cache!VThread /\ Cache!Viewer \subseteq Loader /\ "precache" \in Loader
  /\ Cache!Janitor \subseteq Cache!VThread /\ Loader \cap Cache!Janitor = {}
  /\ "forget" \in Cache!VThread /\ "forget" \notin Loader /\ "forget" \notin Cache!Janitor
BY DEF Loader, Cache!VThread, Cache!Viewer, Cache!Janitor

LEMMA GoCalm ==
  ASSUME Threads, cast' = cast, NEW t \in Loader, NEW at, at # "load",
         Cache!Go(t, at) \/ (\E i : Cache!GoWith(t, at, i)) \/ (at = "out" /\ th' = [th EXCEPT ![t] = Cache!Out])
  PROVE  Threads' /\ ThreadsCalm
<1>1. Cache!Range' = Cache!Range BY RangeStays
<1>2. /\ DOMAIN th' = Cache!VThread /\ \A u \in Cache!VThread : u # t => th'[u] = th[u]
      /\ DOMAIN th'[t] = {"at", "it", "hash", "rs"} /\ th'[t].at = at
  <2>1. CASE Cache!Go(t, at) BY <2>1, LoadersAre DEF Cache!Go, Threads
  <2>2. CASE \E i : Cache!GoWith(t, at, i) BY <2>2, LoadersAre DEF Cache!GoWith, Threads
  <2>3. CASE at = "out" /\ th' = [th EXCEPT ![t] = Cache!Out] BY <2>3, LoadersAre DEF Cache!Out, Threads
  <2> QED BY <2>1, <2>2, <2>3
<1> QED BY <1>1, <1>2, LoadersAre DEF Threads, ThreadsCalm

LEMMA RestCalm == ASSUME Threads, cast' = cast, th' = th PROVE Threads' /\ ThreadsCalm
<1>1. Cache!Range' = Cache!Range BY RangeStays
<1> QED BY <1>1 DEF Threads, ThreadsCalm

-----------------------------------------------------------------------------
(* The name keeps its release.                                             *)

\* An item that writes the sidecar no more.
Past(x) == x.retired \/ x.shut \in {"buffer", "closed"}

\* There is one release.
First ==
  /\ posted = 1 /\ side.hash \in {0, 1}
  /\ \A i \in 1 .. Len(items) : items[i].hash = 1
  /\ \A t \in Loader : th[t].at = "load" => th[t].hash = 1
  /\ \A n \in 1 .. Len(inodes) : \A c \in Cache!Range : inodes[n][c] = Cache!Hole \/ inodes[n][c][1] = 1

\* Whoever loads is alone, and finds a data file to what its sidecar lists.
Loading ==
  \A t \in Loader : th[t].at = "load" => making = t /\ slot = 0 /\ (path = 0 => th[t].rs = {})

\* A sidecar that lists ranges has its data file, or is about to be removed.
Listed == path = 0 => side.rs = {} \/ \E j \in Cache!Janitor : th[j].at = "meta"

\* An item that may still write the sidecar has its file at the path; it is
\* the map's, or a janitor is closing it.
Scribes ==
  \A i \in 1 .. Len(items) :
    Past(items[i]) \/ (path # 0 /\ (i = slot \/ \E j \in Cache!Janitor : th[j].at = "closing" /\ th[j].it = i))

\* Where a janitor is.
Sweeping ==
  \A j \in Cache!Janitor :
    /\ th[j].at # "out" => j \in cast
    /\ th[j].at \in {"data", "meta"} =>
         slot = 0 /\ making = "none" /\ \A i \in 1 .. Len(items) : Past(items[i])
    /\ th[j].at = "delete" =>
         slot = th[j].it /\ slot # 0 /\ items[slot].opens < 0 /\ making = "none"
    /\ j = "evictfile" => th[j].at # "scan" /\ (th[j].at = "closing" => slot = 0 /\ making = "none")

Lone == Stock /\ Threads /\ Content /\ First /\ Loading /\ Listed /\ Scribes /\ Sweeping

\* What most steps leave alone.
LEMMA CalmKeeps ==
  ASSUME Lone, Stock', Content', Threads', ThreadsCalm,
         cast' = cast, posted' = posted, slot' = slot, path' = path, making' = making,
         \A n \in 1 .. Len(inodes') : \A c \in Cache!Range : inodes'[n][c] = Cache!Hole \/ inodes'[n][c][1] = 1,
         side' = side \/ (path # 0 /\ side'.hash \in {0, 1}),
         Len(items') = Len(items),
         \A i \in 1 .. Len(items) :
           /\ items'[i].hash = items[i].hash
           /\ Past(items[i]) => Past(items'[i])
           /\ items[i].opens < 0 => items'[i].opens < 0
  PROVE  Lone'
<1>1. Cache!Range' = Cache!Range BY RangeStays
<1>2. First' BY <1>1 DEF Lone, First, ThreadsCalm
<1>3. Loading' BY DEF Lone, Loading, ThreadsCalm
<1>4. Listed' BY DEF Lone, Listed, ThreadsCalm
<1>5. Scribes' BY DEF Lone, Scribes, ThreadsCalm
<1>6. Sweeping'
  <2>1. Sweeping /\ slot \in 0 .. Len(items) BY DEF Lone, Stock
  <2> SUFFICES ASSUME NEW j \in Cache!Janitor
               PROVE  /\ th[j].at # "out" => j \in cast
                      /\ th[j].at \in {"data", "meta"} =>
                           slot = 0 /\ making = "none" /\ \A i \in 1 .. Len(items) : Past(items'[i])
                      /\ th[j].at = "delete" =>
                           slot = th[j].it /\ slot # 0 /\ items'[slot].opens < 0 /\ making = "none"
                      /\ j = "evictfile" => th[j].at # "scan" /\ (th[j].at = "closing" => slot = 0 /\ making = "none")
    BY DEF Sweeping, ThreadsCalm
  <2>2. slot # 0 => slot \in 1 .. Len(items)
    <3>1. Len(items) \in Nat BY DEF Lone, Stock, Listing
    <3> QED BY <2>1, <3>1
  <2>3. th[j].at \in {"data", "meta"} => \A i \in 1 .. Len(items) : Past(items'[i]) BY <2>1 DEF Sweeping
  <2>4. th[j].at = "delete" => items'[slot].opens < 0 BY <2>1, <2>2 DEF Sweeping
  <2> QED BY <2>1, <2>3, <2>4 DEF Sweeping
<1> QED BY <1>2, <1>3, <1>4, <1>5, <1>6 DEF Lone

\* A step that changes an item's books, but not which it is.
LEMMA BookedKeeps ==
  ASSUME Lone, Threads', ThreadsCalm, NEW i, NEW r, items' = [items EXCEPT ![i] = r],
         cast' = cast, posted' = posted, slot' = slot, path' = path, making' = making, inodes' = inodes,
         side' = side \/ (path # 0 /\ side'.hash \in {0, 1} /\ DOMAIN side' = {"hash", "rs"}
                          /\ side'.rs \subseteq Cache!Range),
         i \in 1 .. Len(items) =>
           /\ DOMAIN r = ItemFields /\ r.opens \in Int
           /\ r.hash = items[i].hash /\ r.ino = items[i].ino /\ r.rs = items[i].rs /\ r.mem = items[i].mem
           /\ Past(items[i]) => Past(r)
           /\ items[i].opens < 0 => r.opens < 0
  PROVE  Lone'
<1>1. Alters(i) /\ (i \in 1 .. Len(items) => items'[i] = r)
  <2>1. Listing(items) BY DEF Lone, Stock
  <2> QED BY <2>1, Replacing
<1>2. Stock /\ Content BY DEF Lone
<1>3. DOMAIN side' = {"hash", "rs"} /\ side'.rs \subseteq Cache!Range BY <1>2 DEF Stock
<1>4. Stock' /\ Content' BY <1>1, <1>2, <1>3, BooksKeep
<1>5. \A k \in 1 .. Len(items) :
           /\ items'[k].hash = items[k].hash
           /\ Past(items[k]) => Past(items'[k])
           /\ items[k].opens < 0 => items'[k].opens < 0
  <2> SUFFICES ASSUME NEW k \in 1 .. Len(items)
               PROVE  /\ items'[k].hash = items[k].hash
                      /\ Past(items[k]) => Past(items'[k])
                      /\ items[k].opens < 0 => items'[k].opens < 0
    OBVIOUS
  <2>1. CASE k = i BY <1>1, <2>1
  <2>2. CASE k # i BY <1>1, <2>2 DEF Alters
  <2> QED BY <2>1, <2>2
<1>6. \A n \in 1 .. Len(inodes') : \A c \in Cache!Range : inodes'[n][c] = Cache!Hole \/ inodes'[n][c][1] = 1
  BY DEF Lone, First
<1>7. Len(items') = Len(items) BY <1>1 DEF Alters
<1> QED BY <1>4, <1>5, <1>6, <1>7, CalmKeeps

\* The items stay as they are.
LEMMA AsideKeeps ==
  ASSUME Lone, Threads', ThreadsCalm, UNCHANGED <<cast, posted, items, slot, inodes, path, side, making>>
  PROVE  Lone'
<1>1. Cache!Range' = Cache!Range BY RangeStays
<1>2. Stock' /\ Content' BY <1>1 DEF Lone, Stock, Content, Own
<1>3. \A n \in 1 .. Len(inodes') : \A c \in Cache!Range : inodes'[n][c] = Cache!Hole \/ inodes'[n][c][1] = 1
  BY DEF Lone, First
<1> QED BY <1>2, <1>3, CalmKeeps

\* Retiring an item that is retired already changes nothing of it.
LEMMA ViewersKeep ==
  ASSUME Lone, NEW v \in Cache!Viewer, Cache!Want(v) \/ Cache!Serve(v) \/ Cache!Release(v) \/ Cache!ReleaseFile(v)
  PROVE  Lone'
<1>1. v \in Loader BY LoadersAre
<1>2. Threads /\ Stock BY DEF Lone
<1>3. CASE Cache!Want(v)
  <2>1. Threads' /\ ThreadsCalm BY <1>1, <1>2, <1>3, GoCalm DEF Cache!Want
  <2> QED BY <1>3, <2>1, AsideKeeps DEF Cache!Want, Cache!disk
<1>4. CASE Cache!ReleaseFile(v)
  <2>1. Threads' /\ ThreadsCalm BY <1>1, <1>2, <1>4, GoCalm DEF Cache!ReleaseFile
  <2> QED BY <1>4, <2>1, AsideKeeps DEF Cache!ReleaseFile, Cache!disk
<1>5. CASE Cache!Release(v)
  <2> DEFINE i == th[v].it
             last == items[i].opens = 1
             r == [items[i] EXCEPT !.opens = IF last /\ items[i].retired THEN Cache!Claimed ELSE @ - 1,
                                   !.shut = IF last /\ items[i].retired THEN "flush" ELSE @]
  <2>1. Threads' /\ ThreadsCalm BY <1>1, <1>2, <1>5, GoCalm DEF Cache!Release
  <2>2. items' = [items EXCEPT ![i] = r] BY <1>5 DEF Cache!Release
  <2>3. i \in 1 .. Len(items) =>
          /\ DOMAIN r = ItemFields /\ r.hash = items[i].hash /\ r.ino = items[i].ino
          /\ r.rs = items[i].rs /\ r.mem = items[i].mem /\ r.retired = items[i].retired
          /\ r.opens = IF last /\ items[i].retired THEN Cache!Claimed ELSE items[i].opens - 1
          /\ r.shut = IF last /\ items[i].retired THEN "flush" ELSE items[i].shut
    BY <1>2 DEF Stock, ItemFields
  <2> HIDE DEF r
  <2>4. i \in 1 .. Len(items) => r.opens \in Int /\ (items[i].opens < 0 => r.opens < 0)
    BY <1>2, <2>3 DEF Stock, Cache!Claimed
  <2>5. i \in 1 .. Len(items) => (Past(items[i]) => Past(r)) BY <2>3 DEF Past
  <2>6. UNCHANGED <<cast, posted, slot, path, making, inodes, side>> BY <1>5 DEF Cache!Release, Cache!disk
  <2> HIDE DEF i
  <2> QED BY <2>1, <2>2, <2>3, <2>4, <2>5, <2>6, BookedKeeps
<1>6. ASSUME NEW i, items' = [items EXCEPT ![i].opens = @ + 1, ![i].dirty = TRUE], items[i].opens >= 0,
             Threads', ThreadsCalm, UNCHANGED <<cast, posted, slot, path, making, inodes, side>>
      PROVE  Lone'
  <2> DEFINE r == [items[i] EXCEPT !.opens = @ + 1, !.dirty = TRUE]
  <2>1. items' = [items EXCEPT ![i] = r] BY <1>6
  <2>2. i \in 1 .. Len(items) =>
          /\ DOMAIN r = ItemFields /\ r.hash = items[i].hash /\ r.ino = items[i].ino
          /\ r.rs = items[i].rs /\ r.mem = items[i].mem /\ r.retired = items[i].retired
          /\ r.opens = items[i].opens + 1 /\ r.shut = items[i].shut
    BY <1>2 DEF Stock, ItemFields
  <2> HIDE DEF r
  <2>3. i \in 1 .. Len(items) => r.opens \in Int /\ (items[i].opens < 0 => r.opens < 0)
    BY <1>2, <1>6, <2>2 DEF Stock
  <2>4. i \in 1 .. Len(items) => (Past(items[i]) => Past(r)) BY <2>2 DEF Past
  <2> QED BY <1>6, <2>1, <2>2, <2>3, <2>4, BookedKeeps
<1>7. CASE Cache!Bind(v)
  <2>1. Threads' /\ ThreadsCalm BY <1>1, <1>2, <1>7, GoCalm DEF Cache!Bind
  <2>2. UNCHANGED <<cast, posted, slot, path, making, inodes, side>> BY <1>7 DEF Cache!Bind, Cache!disk
  <2>3. CASE UNCHANGED items BY <2>1, <2>2, <2>3, AsideKeeps
  <2>4. CASE ~UNCHANGED items
    <3> DEFINE i == IF files = 0 THEN th[v].it ELSE files
    <3>1. items' = [items EXCEPT ![i].opens = @ + 1, ![i].dirty = TRUE] /\ items[i].opens >= 0
      BY <1>7, <2>4 DEF Cache!Bind
    <3> HIDE DEF i
    <3> QED BY <1>6, <2>1, <2>2, <3>1
  <2> QED BY <2>3, <2>4
<1>8. CASE Cache!GetFile(v)
  <2> DEFINE i == files
             current == ~items[i].retired /\ items[i].hash = posted
  <2>1. Threads' /\ ThreadsCalm BY <1>1, <1>2, <1>8, GoCalm DEF Cache!GetFile
  <2>2. UNCHANGED <<cast, posted, path, making, inodes, side>> BY <1>8 DEF Cache!GetFile, Cache!disk
  <2>3. CASE UNCHANGED <<items, slot>> BY <2>1, <2>2, <2>3, AsideKeeps
  <2>4. CASE /\ items' = [items EXCEPT ![i].opens = @ + 1, ![i].dirty = TRUE] /\ UNCHANGED slot
             /\ items[i].opens >= 0
    BY <1>6, <2>1, <2>2, <2>4
  <2>5. CASE ~current /\ Cache!Retire(i)
    <3>1. i \in 1 .. Len(items) => items[i].retired BY <2>5 DEF Lone, First
    <3>2. slot' = slot
      <4>1. CASE slot # i BY <2>5, <4>1 DEF Cache!Retire
      <4>2. CASE slot = i /\ i \in 1 .. Len(items) BY <2>5, <3>1, <4>2 DEF Cache!Retire
      <4>3. CASE slot = i /\ i \notin 1 .. Len(items)
        <5>1. slot = 0
          <6>1. Len(items) \in Nat BY <1>2 DEF Stock, Listing
          <6> QED BY <1>2, <4>3, <6>1 DEF Stock
        <5> QED BY <2>5, <4>3, <5>1 DEF Cache!Retire
      <4> QED BY <4>1, <4>2, <4>3
    <3> DEFINE r == [items[i] EXCEPT !.retired = TRUE,
                       !.opens = IF @ = 0 /\ ~items[i].retired THEN Cache!Claimed ELSE @,
                       !.shut = IF items[i].opens = 0 /\ ~items[i].retired THEN "flush" ELSE @]
    <3>3. items' = [items EXCEPT ![i] = r] BY <2>5 DEF Cache!Retire, Cache!Retired
    <3>4. i \in 1 .. Len(items) =>
            /\ DOMAIN r = ItemFields /\ r.hash = items[i].hash /\ r.ino = items[i].ino
            /\ r.rs = items[i].rs /\ r.mem = items[i].mem /\ r.retired = TRUE
            /\ r.opens = items[i].opens
      BY <1>2, <3>1 DEF Stock, ItemFields
    <3> HIDE DEF r
    <3>5. i \in 1 .. Len(items) => r.opens \in Int /\ Past(r) BY <1>2, <3>4 DEF Stock, Past
    <3> HIDE DEF i
    <3> QED BY <2>1, <2>2, <3>2, <3>3, <3>4, <3>5, BookedKeeps
  <2> QED BY <1>8, <2>3, <2>4, <2>5 DEF Cache!GetFile
<1> QED BY <1>3, <1>4, <1>5, <1>7, <1>8 DEF Cache!Serve

LEMMA WriteDirtyKeeps ==
  ASSUME Lone, NEW i, items' = [items EXCEPT ![i].dirty = TRUE] \/ items' = [items EXCEPT ![i].dirty = FALSE],
         Threads', ThreadsCalm, UNCHANGED <<cast, posted, slot, path, making, inodes>>,
         side' = side \/ (path # 0 /\ side'.hash \in {0, 1} /\ DOMAIN side' = {"hash", "rs"}
                          /\ side'.rs \subseteq Cache!Range)
  PROVE  Lone'
<1>1. Stock BY DEF Lone
<1>2. PICK b \in BOOLEAN : items' = [items EXCEPT ![i].dirty = b] OBVIOUS
<1> DEFINE r == [items[i] EXCEPT !.dirty = b]
<1>3. items' = [items EXCEPT ![i] = r] BY <1>2
<1>4. i \in 1 .. Len(items) =>
        /\ DOMAIN r = ItemFields /\ r.hash = items[i].hash /\ r.ino = items[i].ino
        /\ r.rs = items[i].rs /\ r.mem = items[i].mem /\ r.retired = items[i].retired
        /\ r.opens = items[i].opens /\ r.shut = items[i].shut
  BY <1>1 DEF Stock, ItemFields
<1> HIDE DEF r
<1>5. i \in 1 .. Len(items) => r.opens \in Int BY <1>1, <1>4 DEF Stock
<1>6. i \in 1 .. Len(items) => (Past(items[i]) => Past(r)) BY <1>4 DEF Past
<1> QED BY <1>3, <1>4, <1>5, <1>6, BookedKeeps

\* The name's release never changes, so the item of the map is the name's.
LEMMA GetItemKeeps ==
  ASSUME Lone, NEW t \in Loader, Cache!GetItem(t)
  PROVE  Lone'
<1>1. Threads /\ Stock BY DEF Lone
<1>2. slot = 0 \/ items[slot].hash = posted
  <2>1. Len(items) \in Nat BY <1>1 DEF Stock, Listing
  <2> QED BY <1>1, <2>1 DEF Lone, Stock, First
<1>3. UNCHANGED <<cast, posted, path, making, inodes, side>> BY DEF Cache!GetItem, Cache!disk
<1>4. \/ Cache!Go(t, "create") /\ UNCHANGED <<items, slot>>
      \/ (\E i : Cache!GoWith(t, "bind", i)) /\ items' = [items EXCEPT ![slot].dirty = TRUE] /\ UNCHANGED slot
  BY <1>2 DEF Cache!GetItem
<1>5. Threads' /\ ThreadsCalm BY <1>1, <1>3, <1>4, GoCalm
<1>6. CASE UNCHANGED <<items, slot>> BY <1>3, <1>5, <1>6, AsideKeeps
<1>7. CASE items' = [items EXCEPT ![slot].dirty = TRUE] /\ UNCHANGED slot BY <1>3, <1>5, <1>7, WriteDirtyKeeps
<1> QED BY <1>4, <1>6, <1>7

\* What an item has in RAM goes to its file.
LEMMA LoneFlush ==
  ASSUME Lone, NEW i \in 1 .. Len(items), Threads', ThreadsCalm, NEW s,
         items' = [items EXCEPT ![i].mem = Cache!NoMem, ![i].shut = s], inodes' = Cache!OnFile(i),
         Past(items[i]) => items[i].retired \/ s \in {"buffer", "closed"},
         UNCHANGED <<cast, posted, slot, path, making, side>>
  PROVE  Lone'
<1>1. Stock /\ Content BY DEF Lone
<1> DEFINE r == [items[i] EXCEPT !.mem = Cache!NoMem, !.shut = s]
<1>2. items' = [items EXCEPT ![i] = r] OBVIOUS
<1>3. /\ DOMAIN r = ItemFields /\ r.hash = items[i].hash /\ r.ino = items[i].ino
      /\ r.rs = items[i].rs /\ r.mem = Cache!NoMem /\ r.retired = items[i].retired
      /\ r.opens = items[i].opens /\ r.shut = s
  BY <1>1 DEF Stock, ItemFields
<1> HIDE DEF r
<1>4. Alters(i) /\ items'[i] = r
  <2>1. Listing(items) BY <1>1 DEF Stock
  <2> QED BY <1>2, <2>1, Replacing
<1>5. r.opens \in Int BY <1>1, <1>3 DEF Stock
<1>6. Stock' /\ Content' BY <1>1, <1>3, <1>4, <1>5, ItemFlushKeeps
<1>7. \A k \in 1 .. Len(items) :
           /\ items'[k].hash = items[k].hash
           /\ Past(items[k]) => Past(items'[k])
           /\ items[k].opens < 0 => items'[k].opens < 0
  <2> SUFFICES ASSUME NEW k \in 1 .. Len(items)
               PROVE  /\ items'[k].hash = items[k].hash
                      /\ Past(items[k]) => Past(items'[k])
                      /\ items[k].opens < 0 => items'[k].opens < 0
    OBVIOUS
  <2>1. CASE k = i BY <1>3, <1>4, <2>1 DEF Past
  <2>2. CASE k # i BY <1>4, <2>2 DEF Alters
  <2> QED BY <2>1, <2>2
<1>8. \A n \in 1 .. Len(inodes') : \A c \in Cache!Range : inodes'[n][c] = Cache!Hole \/ inodes'[n][c][1] = 1
  <2> DEFINE m == items[i].ino
             w == [c \in Cache!Range |-> Cache!Value(i, c)]
  <2>1. inodes' = [inodes EXCEPT ![m] = w] BY DEF Cache!OnFile
  <2>2. m \in 1 .. Len(inodes) /\ Listing(inodes) BY <1>1 DEF Stock
  <2>3. ASSUME NEW c \in Cache!Range PROVE w[c] = Cache!Hole \/ w[c][1] = 1
    <3>1. w[c] = IF c \in DOMAIN items[i].mem THEN items[i].mem[c] ELSE inodes[m][c] BY DEF Cache!Value
    <3>2. c \in DOMAIN items[i].mem => items[i].mem[c][1] = 1
      BY DEF Lone, Content, Own, First
    <3>3. inodes[m][c] = Cache!Hole \/ inodes[m][c][1] = 1 BY <2>2 DEF Lone, First
    <3> HIDE DEF w, m
    <3> QED BY <3>1, <3>2, <3>3
  <2> HIDE DEF w, m
  <2>4. /\ Len(inodes') = Len(inodes) /\ inodes'[m] = w
        /\ \A k \in 1 .. Len(inodes) : k # m => inodes'[k] = inodes[k]
    BY <2>1, <2>2, Rewriting
  <2>5. \A n \in 1 .. Len(inodes) : \A c \in Cache!Range : inodes[n][c] = Cache!Hole \/ inodes[n][c][1] = 1
    BY DEF Lone, First
  <2> QED BY <2>3, <2>4, <2>5
<1>9. Len(items') = Len(items) BY <1>4 DEF Alters
<1> QED BY <1>6, <1>7, <1>8, <1>9, CalmKeeps

LEMMA FlushesKeep ==
  ASSUME Lone, NEW i \in 1 .. Len(items),
         Cache!FlushBuffer(i) \/ Cache!FlushMetadata(i) \/ Cache!CloseItem(i)
  PROVE  Lone'
<1>1. Stock /\ Threads BY DEF Lone
<1>2. th' = th /\ cast' = cast
  BY DEF Cache!FlushBuffer, Cache!FlushMetadata, Cache!CloseItem, Cache!CloseFlush, Cache!CloseMeta,
         Cache!CloseBuffer
<1>3. Threads' /\ ThreadsCalm BY <1>1, <1>2, RestCalm
<1>4. CASE Cache!FlushBuffer(i)
  <2>1. items' = [items EXCEPT ![i].mem = Cache!NoMem, ![i].shut = items[i].shut]
    <3>1. items' = [items EXCEPT ![i].mem = Cache!NoMem] BY <1>4 DEF Cache!FlushBuffer
    <3>2. DOMAIN items[i] = ItemFields BY <1>1 DEF Stock
    <3>3. [items[i] EXCEPT !.mem = Cache!NoMem] = [items[i] EXCEPT !.mem = Cache!NoMem, !.shut = items[i].shut]
      BY <3>2 DEF ItemFields
    <3> QED BY <3>1, <3>3
  <2>2. Past(items[i]) => items[i].retired \/ items[i].shut \in {"buffer", "closed"} BY DEF Past
  <2> QED BY <1>3, <1>4, <2>1, <2>2, LoneFlush DEF Cache!FlushBuffer
<1>5. CASE Cache!CloseFlush(i)
  <2>1. Past(items[i]) => items[i].retired BY <1>5 DEF Cache!CloseFlush, Past
  <2> QED BY <1>3, <1>5, <2>1, LoneFlush DEF Cache!CloseFlush
<1>6. CASE Cache!CloseBuffer(i) BY <1>3, <1>6, LoneFlush DEF Cache!CloseBuffer
<1>7. ~Past(items[i]) => path # 0 BY DEF Lone, Scribes
<1>8. items[i].rs \subseteq Cache!Range /\ items[i].hash = 1 BY <1>1 DEF Stock, Lone, First
<1> DEFINE s == [hash |-> items[i].hash, rs |-> items[i].rs]
<1>9. s.hash \in {0, 1} /\ DOMAIN s = {"hash", "rs"} /\ s.rs \subseteq Cache!Range BY <1>8
<1> HIDE DEF s
<1>10. CASE Cache!FlushMetadata(i)
  <2>1. ~Past(items[i]) BY <1>10 DEF Cache!FlushMetadata, Past
  <2>2. side' = s BY <1>10 DEF Cache!FlushMetadata, s
  <2> QED BY <1>3, <1>7, <1>9, <1>10, <2>1, <2>2, WriteDirtyKeeps DEF Cache!FlushMetadata
<1>11. CASE Cache!CloseMeta(i)
  <2>1. side' = side \/ (side' = s /\ ~Past(items[i])) BY <1>11 DEF Cache!CloseMeta, Past, s
  <2> DEFINE r == [items[i] EXCEPT !.shut = "buffer"]
  <2>2. items' = [items EXCEPT ![i] = r] BY <1>11 DEF Cache!CloseMeta
  <2>3. /\ DOMAIN r = ItemFields /\ r.hash = items[i].hash /\ r.ino = items[i].ino
        /\ r.rs = items[i].rs /\ r.mem = items[i].mem /\ r.opens = items[i].opens /\ r.shut = "buffer"
    BY <1>1 DEF Stock, ItemFields
  <2> HIDE DEF r
  <2>4. r.opens \in Int /\ Past(r) BY <1>1, <2>3 DEF Stock, Past
  <2>5. UNCHANGED <<cast, posted, slot, path, making, inodes>> BY <1>11 DEF Cache!CloseMeta
  <2> QED BY <1>3, <1>7, <1>9, <2>1, <2>2, <2>3, <2>4, <2>5, BookedKeeps
<1> QED BY <1>4, <1>5, <1>6, <1>10, <1>11 DEF Cache!CloseItem

\* Bytes of the one release come in.
LEMMA LoneCached ==
  ASSUME Lone, NEW i, NEW c \in Cache!Range, NEW value, value[1] = 1, Cache!Cached(i, c, value),
         Threads', ThreadsCalm, UNCHANGED <<cast, posted, slot, path, making, inodes, side>>
  PROVE  Lone'
<1>1. Stock /\ Content BY DEF Lone
<1>2. i \in 1 .. Len(items) => value[1] = items[i].hash BY DEF Lone, First
<1>3. /\ Stock' /\ Content' /\ Alters(i)
      /\ i \in 1 .. Len(items) =>
           /\ items'[i].hash = items[i].hash /\ items'[i].opens = items[i].opens
           /\ items'[i].retired = items[i].retired /\ items'[i].shut = items[i].shut
           /\ items'[i].ino = items[i].ino
  BY <1>1, <1>2, CachedKeeps
<1>4. \A k \in 1 .. Len(items) :
           /\ items'[k].hash = items[k].hash
           /\ Past(items[k]) => Past(items'[k])
           /\ items[k].opens < 0 => items'[k].opens < 0
  <2> SUFFICES ASSUME NEW k \in 1 .. Len(items)
               PROVE  /\ items'[k].hash = items[k].hash
                      /\ Past(items[k]) => Past(items'[k])
                      /\ items[k].opens < 0 => items'[k].opens < 0
    OBVIOUS
  <2>1. CASE k = i BY <1>3, <2>1 DEF Past
  <2>2. CASE k # i BY <1>3, <2>2 DEF Alters
  <2> QED BY <2>1, <2>2
<1>5. Len(items') = Len(items) BY <1>3 DEF Alters
<1>6. \A n \in 1 .. Len(inodes') : \A d \in Cache!Range : inodes'[n][d] = Cache!Hole \/ inodes'[n][d][1] = 1
  BY DEF Lone, First
<1> QED BY <1>3, <1>4, <1>5, <1>6, CalmKeeps

LEMMA FetchKeeps ==
  ASSUME Lone, NEW i \in 1 .. Len(items), NEW c \in Cache!Range, Cache!Fetch(i, c)
  PROVE  Lone'
<1>1. Threads' /\ ThreadsCalm BY RestCalm DEF Cache!Fetch, Lone
<1> DEFINE value == Cache!Source(items[i].hash, c)
<1>2. value[1] = 1 BY DEF Cache!Source, Lone, First
<1>3. Cache!Cached(i, c, value) BY DEF Cache!Fetch
<1> HIDE DEF value
<1> QED BY <1>1, <1>2, <1>3, LoneCached DEF Cache!Fetch, Cache!disk

LEMMA PrecacheKeeps ==
  ASSUME Lone, Cache!WantWrite \/ (\E c \in Cache!Range : Cache!WriteCachedRange(c))
  PROVE  Lone'
<1>1. Threads /\ "precache" \in Loader BY LoadersAre DEF Lone
<1>2. CASE Cache!WantWrite
  <2>1. Threads' /\ ThreadsCalm BY <1>1, <1>2, GoCalm DEF Cache!WantWrite
  <2> QED BY <1>2, <2>1, AsideKeeps DEF Cache!WantWrite, Cache!disk
<1>3. CASE \E c \in Cache!Range : Cache!WriteCachedRange(c)
  <2>1. PICK c \in Cache!Range : Cache!WriteCachedRange(c) BY <1>3
  <2>2. Threads' /\ ThreadsCalm BY <1>1, <2>1, GoCalm DEF Cache!WriteCachedRange
  <2>3. UNCHANGED <<cast, posted, slot, path, making, inodes, side>>
    BY <2>1 DEF Cache!WriteCachedRange, Cache!disk
  <2> DEFINE value == Cache!Source(posted, c)
             i == th["precache"].it
  <2>4. value[1] = 1 BY DEF Cache!Source, Lone, First
  <2>5. Cache!Cached(i, c, value) \/ UNCHANGED items BY <2>1 DEF Cache!WriteCachedRange
  <2> HIDE DEF value, i
  <2> QED BY <2>2, <2>3, <2>4, <2>5, LoneCached, AsideKeeps
<1> QED BY <1>2, <1>3

\* Whoever creates finds no janitor under way that could take the file away.
LEMMA CreateKeeps ==
  ASSUME Lone, Unreplaced, NEW t \in Loader, Cache!Create(t)
  PROVE  Lone'
<1>1. Threads /\ Stock /\ Content BY DEF Lone
<1>2. CASE slot # 0
  <2>1. Threads' /\ ThreadsCalm BY <1>1, <1>2, GoCalm DEF Cache!Create
  <2> QED BY <1>2, <2>1, AsideKeeps DEF Cache!Create
<1>3. CASE slot = 0
  <2>1. Cache!SidecarBelongsTo(posted) BY DEF Lone, First, Cache!SidecarBelongsTo
  <2> DEFINE r == [at |-> "load", it |-> 0, hash |-> posted, rs |-> side.rs]
  <2>2. /\ making = "none" /\ making' = t /\ th' = [th EXCEPT ![t] = r] /\ Cache!Quiet
        /\ UNCHANGED <<cast, posted, items, slot, inodes, path, side>>
    BY <1>3, <2>1 DEF Cache!Create
  <2>3. r.at = "load" /\ r.hash = posted /\ r.rs = side.rs /\ DOMAIN r = {"at", "it", "hash", "rs"} OBVIOUS
  <2> HIDE DEF r
  <2>4. /\ th'[t] = r /\ DOMAIN th' = Cache!VThread
        /\ \A u \in Cache!VThread : u # t => th'[u] = th[u]
    BY <1>1, <2>2, LoadersAre DEF Threads
  <2>5. \A j \in Cache!Janitor : th'[j] = th[j] BY <2>4, LoadersAre
  <2>6. \A j \in Cache!Janitor : j \in cast => "still" \in cast BY DEF Unreplaced
  <2>7. \A j \in Cache!Janitor : th[j].at \notin {"data", "meta", "delete"}
    <3>1. SUFFICES ASSUME NEW j \in Cache!Janitor, th[j].at \in {"data", "meta", "delete"} PROVE FALSE OBVIOUS
    <3>2. "still" \in cast BY <2>6, <3>1 DEF Lone, Sweeping
    <3> QED BY <1>3, <2>2, <3>1, <3>2 DEF Cache!Quiet, Lone, Sweeping
  <2>8. th["evictfile"].at # "closing"
    <3>1. SUFFICES ASSUME th["evictfile"].at = "closing" PROVE FALSE OBVIOUS
    <3>2. "evictfile" \in Cache!Janitor BY DEF Cache!Janitor
    <3>3. "still" \in cast BY <2>6, <3>1, <3>2 DEF Lone, Sweeping
    <3> QED BY <2>2, <3>1, <3>3 DEF Cache!Quiet
  <2>9. Cache!Range' = Cache!Range BY <2>2, RangeStays
  <2>10. Stock' /\ Content' BY <1>1, <2>2, <2>9 DEF Stock, Content, Own
  <2>11. \A u \in Loader : u # t => th'[u].at # "load"
    <3> SUFFICES ASSUME NEW u \in Loader, u # t, th'[u].at = "load" PROVE FALSE OBVIOUS
    <3>1. th'[u] = th[u] BY <2>4, LoadersAre
    <3> QED BY <2>2, <3>1 DEF Lone, Loading, Loader
  <2>12. Threads'
    <3>1. side.rs \subseteq Cache!Range BY <1>1 DEF Stock
    <3> QED BY <1>1, <2>3, <2>4, <2>9, <2>11, <3>1, LoadersAre DEF Threads
  <2>13. First' BY <2>2, <2>3, <2>4, <2>9, <2>11 DEF Lone, First
  <2>14. path = 0 => side.rs = {} BY <2>7 DEF Lone, Listed
  <2>15. Loading' BY <1>3, <2>2, <2>3, <2>4, <2>11, <2>14 DEF Loading
  <2>16. Listed' BY <2>2, <2>14 DEF Listed
  <2>17. Scribes' BY <2>2, <2>5 DEF Lone, Scribes
  <2>18. Sweeping' BY <2>2, <2>5, <2>7, <2>8 DEF Lone, Sweeping
  <2> QED BY <2>10, <2>12, <2>13, <2>15, <2>16, <2>17, <2>18 DEF Lone
<1> QED BY <1>2, <1>3

LEMMA NewItemLone ==
  ASSUME Lone, NEW t \in Loader, Cache!NewItem(t)
  PROVE  Lone'
<1>1. Threads /\ Stock /\ Content BY DEF Lone
<1>2. th[t].at = "load" /\ UNCHANGED <<cast, posted, side>> /\ making' = "none" BY DEF Cache!NewItem
<1>3. making = t /\ slot = 0 /\ (path = 0 => th[t].rs = {}) /\ th[t].hash = 1
  BY <1>2 DEF Lone, Loading, First
<1>4. path # 0 => /\ \A c \in Cache!Range : inodes[path][c] = Cache!Hole \/ inodes[path][c][1] = th[t].hash
                  /\ \A i \in 1 .. Len(items) : items[i].ino = path => items[i].hash = th[t].hash
  <2>1. path # 0 => path \in 1 .. Len(inodes)
    <3>1. Len(inodes) \in Nat BY <1>1 DEF Stock, Listing
    <3> QED BY <1>1, <3>1 DEF Stock
  <2> QED BY <1>3, <2>1 DEF Lone, First
<1>5. /\ Stock' /\ Content' /\ Len(items') = Len(items) + 1 /\ slot' = Len(items) + 1 /\ path' # 0
      /\ \A k \in 1 .. Len(items) : items'[k] = items[k]
      /\ items'[slot'].hash = th[t].hash
      /\ inodes' = inodes \/ (path = 0 /\ inodes' = Append(inodes, [c \in Cache!Range |-> Cache!Hole])
                              /\ path' = Len(inodes) + 1)
  BY <1>1, <1>3, <1>4, NewItemKeeps
<1>6. \A k \in 1 .. Len(items') : k \in 1 .. Len(items) \/ k = slot'
  <2>1. Len(items) \in Nat BY <1>1 DEF Stock, Listing
  <2> QED BY <1>5, <2>1
<1>7. Threads' /\ ThreadsCalm BY <1>1, <1>2, GoCalm DEF Cache!NewItem
<1>8. Cache!Range' = Cache!Range BY <1>2, RangeStays
<1>9. \A u \in Loader : th'[u].at # "load"
  <2> SUFFICES ASSUME NEW u \in Loader, th'[u].at = "load" PROVE FALSE OBVIOUS
  <2>1. th'[u] = th[u] BY <1>7 DEF ThreadsCalm
  <2>2. u = t BY <1>3, <2>1 DEF Lone, Loading
  <2>3. th'[t].at = "bind" BY <1>1, LoadersAre DEF Cache!NewItem, Cache!GoWith, Threads
  <2> QED BY <2>2, <2>3
<1>10. \A n \in 1 .. Len(inodes') : \A c \in Cache!Range : inodes'[n][c] = Cache!Hole \/ inodes'[n][c][1] = 1
  <2>1. \A n \in 1 .. Len(inodes) : \A c \in Cache!Range : inodes[n][c] = Cache!Hole \/ inodes[n][c][1] = 1
    BY DEF Lone, First
  <2>2. CASE inodes' = inodes BY <2>1, <2>2
  <2>3. CASE inodes' = Append(inodes, [c \in Cache!Range |-> Cache!Hole])
    <3> DEFINE empty == [c \in Cache!Range |-> Cache!Hole]
    <3>1. \A c \in Cache!Range : empty[c] = Cache!Hole OBVIOUS
    <3>2. inodes' = Append(inodes, empty) BY <2>3
    <3> HIDE DEF empty
    <3>3. PICK S : inodes \in Seq(S) BY <1>1 DEF Stock, Listing
    <3>4. inodes \in Seq(S \cup {empty}) BY <3>3
    <3>5. /\ Len(inodes') = Len(inodes) + 1 /\ Len(inodes) \in Nat
          /\ \A n \in 1 .. Len(inodes) : inodes'[n] = inodes[n]
          /\ inodes'[Len(inodes) + 1] = empty
      BY <3>2, <3>4
    <3>6. \A n \in 1 .. Len(inodes') : n \in 1 .. Len(inodes) \/ n = Len(inodes) + 1 BY <3>5
    <3> QED BY <2>1, <3>1, <3>5, <3>6
  <2> QED BY <1>5, <2>2, <2>3
<1>11. First' BY <1>2, <1>3, <1>5, <1>6, <1>8, <1>9, <1>10 DEF Lone, First
<1>12. Loading' /\ Listed' BY <1>5, <1>9 DEF Loading, Listed
<1>13. Scribes'
  <2>1. \A k \in 1 .. Len(items) : k # slot BY <1>3
  <2>2. \A j \in Cache!Janitor : th'[j] = th[j] BY <1>7 DEF ThreadsCalm
  <2> QED BY <1>5, <1>6, <2>1, <2>2 DEF Lone, Scribes
<1>14. Sweeping'
  <2>1. \A j \in Cache!Janitor : th'[j] = th[j] BY <1>7 DEF ThreadsCalm
  <2>2. making # "none" BY <1>3 DEF Loader
  <2> QED BY <1>2, <1>3, <2>1, <2>2 DEF Lone, Sweeping
<1> QED BY <1>5, <1>7, <1>11, <1>12, <1>13, <1>14 DEF Lone

-----------------------------------------------------------------------------
\* A janitor moves, alone.
LEMMA JanitorGoes ==
  ASSUME Lone, Unreplaced, cast' = cast, NEW j \in Cache!Janitor, j \in cast, NEW at,
         Cache!Go(j, at) \/ (\E i : Cache!GoWith(j, at, i))
  PROVE  /\ Threads' /\ th'[j].at = at /\ (Cache!Go(j, at) => th'[j].it = th[j].it)
         /\ \A i : Cache!GoWith(j, at, i) => th'[j].it = i
         /\ \A k \in Cache!Janitor : k # j => th[k].at = "out" /\ th'[k].at = "out"
         /\ \A t \in Loader : th'[t] = th[t]
         /\ "still" \in cast
<1>1. Threads BY DEF Lone
<1>2. Cache!Range' = Cache!Range BY RangeStays
<1>3. /\ DOMAIN th' = Cache!VThread /\ \A u \in Cache!VThread : u # j => th'[u] = th[u]
      /\ DOMAIN th'[j] = {"at", "it", "hash", "rs"} /\ th'[j].at = at
      /\ Cache!Go(j, at) => th'[j].it = th[j].it
      /\ \A i : Cache!GoWith(j, at, i) => th'[j].it = i
  BY <1>1, LoadersAre DEF Cache!Go, Cache!GoWith, Threads
<1>4. \A t \in Loader : th'[t] = th[t] BY <1>3, LoadersAre
<1>5. Threads' BY <1>1, <1>2, <1>3, <1>4, LoadersAre DEF Threads
<1>6. \A k \in Cache!Janitor : k # j => k \notin cast BY DEF Unreplaced, Cache!Janitor
<1>7. \A k \in Cache!Janitor : k # j => th[k].at = "out" /\ th'[k].at = "out"
  <2>1. \A k \in Cache!Janitor : k # j => th[k].at = "out" BY <1>6 DEF Lone, Sweeping
  <2> QED BY <1>3, <2>1, LoadersAre
<1>8. "still" \in cast BY DEF Unreplaced
<1> QED BY <1>3, <1>4, <1>5, <1>7, <1>8

\* Nobody has an item that still writes its sidecar.
LEMMA AllPast ==
  ASSUME Lone, slot = 0,
         \A j \in Cache!Janitor : th[j].at = "closing" => \A i \in 1 .. Len(items) : i = th[j].it => Past(items[i])
  PROVE  \A i \in 1 .. Len(items) : Past(items[i])
BY DEF Lone, Scribes

LEMMA ClaimKeeps ==
  ASSUME Lone, Unreplaced, NEW j \in Cache!Janitor, Cache!Claim(j)
  PROVE  Lone'
<1>1. /\ j \in cast /\ th[j].at = "out" /\ Cache!Idle
      /\ UNCHANGED <<cast, posted, slot, inodes, path, side, making>>
  BY DEF Cache!Claim, Cache!disk
<1>2. PICK at : /\ Cache!Go(j, at) \/ (\E i : Cache!GoWith(j, at, i))
                /\ \/ /\ at = "delete" /\ Cache!GoWith(j, at, slot) /\ slot # 0 /\ Cache!Claimable(slot)
                      /\ items' = [items EXCEPT ![slot].opens = Cache!Claimed]
                   \/ /\ UNCHANGED items /\ at \in {"scan", "data", "done"}
                      /\ at = "scan" => j = "janitor"
                      /\ at = "data" => slot = 0
  BY DEF Cache!Claim
<1>3. /\ Threads' /\ th'[j].at = at
      /\ \A i : Cache!GoWith(j, at, i) => th'[j].it = i
      /\ \A k \in Cache!Janitor : k # j => th[k].at = "out" /\ th'[k].at = "out"
      /\ \A t \in Loader : th'[t] = th[t]
      /\ "still" \in cast
  BY <1>1, <1>2, JanitorGoes
<1>4. making = "none" BY <1>1, <1>3 DEF Cache!Idle
<1>5. Stock /\ Content BY DEF Lone
<1>6. Cache!Range' = Cache!Range BY <1>1, RangeStays
<1>7. /\ Stock' /\ Content' /\ Len(items') = Len(items)
      /\ \A k \in 1 .. Len(items) : items'[k].hash = items[k].hash /\ (Past(items[k]) <=> Past(items'[k]))
      /\ at = "delete" => items'[slot].opens < 0
  <2>1. CASE UNCHANGED items /\ at # "delete" BY <1>1, <1>5, <1>6, <2>1 DEF Stock, Content, Own
  <2>2. CASE items' = [items EXCEPT ![slot].opens = Cache!Claimed] /\ slot # 0
    <3> DEFINE r == [items[slot] EXCEPT !.opens = Cache!Claimed]
    <3>1. items' = [items EXCEPT ![slot] = r] BY <2>2
    <3>2. slot \in 1 .. Len(items)
      <4>1. Len(items) \in Nat BY <1>5 DEF Stock, Listing
      <4> QED BY <1>5, <2>2, <4>1 DEF Stock
    <3>3. /\ DOMAIN r = ItemFields /\ r.hash = items[slot].hash /\ r.ino = items[slot].ino
          /\ r.rs = items[slot].rs /\ r.mem = items[slot].mem /\ r.retired = items[slot].retired
          /\ r.opens = -1 /\ r.shut = items[slot].shut
      BY <1>5, <3>2 DEF Stock, ItemFields, Cache!Claimed
    <3> HIDE DEF r
    <3>4. Alters(slot) /\ items'[slot] = r
      <4>1. Listing(items) BY <1>5 DEF Stock
      <4> QED BY <3>1, <3>2, <4>1, Replacing
    <3>5. r.opens \in Int /\ r.opens < 0 BY <3>3
    <3>6. DOMAIN side = {"hash", "rs"} /\ side.rs \subseteq Cache!Range BY <1>5 DEF Stock
    <3>7. Stock' /\ Content' BY <1>1, <1>5, <3>3, <3>4, <3>5, <3>6, BooksKeep
    <3>8. \A k \in 1 .. Len(items) : items'[k].hash = items[k].hash /\ (Past(items[k]) <=> Past(items'[k]))
      BY <3>3, <3>4 DEF Alters, Past
    <3> QED BY <3>4, <3>5, <3>7, <3>8 DEF Alters
  <2> QED BY <1>2, <2>1, <2>2
<1>8. First' BY <1>1, <1>3, <1>6, <1>7 DEF Lone, First
<1>9. Loading' BY <1>1, <1>3 DEF Lone, Loading
<1>10. Listed' BY <1>1, <1>3 DEF Lone, Listed
<1>11. Scribes' BY <1>1, <1>3, <1>7 DEF Lone, Scribes
<1>12. at = "data" => \A i \in 1 .. Len(items) : Past(items[i])
  BY <1>1, <1>2, <1>3, AllPast
<1>13. Sweeping'
  <2>1. /\ th'[j].at # "out" => j \in cast
        /\ th'[j].at \in {"data", "meta"} =>
             slot = 0 /\ making = "none" /\ \A i \in 1 .. Len(items') : Past(items'[i])
        /\ th'[j].at = "delete" => slot = th'[j].it /\ slot # 0 /\ items'[slot].opens < 0 /\ making = "none"
        /\ j = "evictfile" => th'[j].at # "scan" /\ (th'[j].at = "closing" => slot = 0 /\ making = "none")
    BY <1>1, <1>2, <1>3, <1>4, <1>7, <1>12
  <2> QED BY <1>1, <1>3, <2>1 DEF Sweeping
<1> QED BY <1>3, <1>7, <1>8, <1>9, <1>10, <1>11, <1>13 DEF Lone

LEMMA DeleteKeeps ==
  ASSUME Lone, Unreplaced, NEW j \in Cache!Janitor, Cache!Delete(j)
  PROVE  Lone'
<1>1. /\ th[j].at = "delete" /\ slot' = 0 /\ Cache!Go(j, "closing")
      /\ UNCHANGED <<cast, posted, inodes, path, side, making>>
  BY DEF Cache!Delete, Cache!disk
<1>2. j \in cast /\ slot = th[j].it /\ slot # 0 /\ making = "none" BY <1>1 DEF Lone, Sweeping
<1>3. /\ Threads' /\ th'[j].at = "closing" /\ th'[j].it = slot
      /\ \A k \in Cache!Janitor : k # j => th[k].at = "out" /\ th'[k].at = "out"
      /\ \A t \in Loader : th'[t] = th[t]
  BY <1>1, <1>2, JanitorGoes
<1>4. Stock /\ Content BY DEF Lone
<1>5. Cache!Range' = Cache!Range BY <1>1, RangeStays
<1> DEFINE r == [items[slot] EXCEPT !.shut = IF @ = "no" THEN "flush" ELSE @, !.retired = @ \/ j = "evictfile"]
<1>6. items' = [items EXCEPT ![slot] = r] BY <1>2 DEF Cache!Delete
<1>7. slot \in 1 .. Len(items)
  <2>1. Len(items) \in Nat BY <1>4 DEF Stock, Listing
  <2> QED BY <1>2, <1>4, <2>1 DEF Stock
<1>8. /\ DOMAIN r = ItemFields /\ r.hash = items[slot].hash /\ r.ino = items[slot].ino
      /\ r.rs = items[slot].rs /\ r.mem = items[slot].mem /\ r.retired = (items[slot].retired \/ j = "evictfile")
      /\ r.opens = items[slot].opens /\ r.shut = IF items[slot].shut = "no" THEN "flush" ELSE items[slot].shut
  BY <1>4, <1>7 DEF Stock, ItemFields
<1> HIDE DEF r
<1>9. Alters(slot) /\ items'[slot] = r
  <2>1. Listing(items) BY <1>4 DEF Stock
  <2> QED BY <1>6, <1>7, <2>1, Replacing
<1>10. r.opens \in Int BY <1>4, <1>7, <1>8 DEF Stock
<1>11. DOMAIN side = {"hash", "rs"} /\ side.rs \subseteq Cache!Range BY <1>4 DEF Stock
<1>12. Stock' /\ Content' BY <1>1, <1>4, <1>8, <1>9, <1>10, <1>11, BooksKeep
<1>13. Past(items[slot]) => Past(r) BY <1>8 DEF Past
<1>14. \A k \in 1 .. Len(items) : items'[k].hash = items[k].hash /\ (Past(items[k]) => Past(items'[k]))
  BY <1>8, <1>9, <1>13 DEF Alters
<1>15. Len(items') = Len(items) BY <1>9 DEF Alters
<1>16. First' BY <1>1, <1>3, <1>5, <1>14, <1>15 DEF Lone, First
<1>17. Loading' BY <1>1, <1>3 DEF Lone, Loading
<1>18. Listed' BY <1>1, <1>3 DEF Lone, Listed
<1>19. Scribes' BY <1>1, <1>3, <1>14, <1>15 DEF Lone, Scribes
<1>20. Sweeping' BY <1>1, <1>2, <1>3 DEF Sweeping
<1> QED BY <1>3, <1>12, <1>16, <1>17, <1>18, <1>19, <1>20 DEF Lone

\* A janitor goes on, and the disk loses what it removes.
LEMMA SweepsOn ==
  ASSUME Lone, Unreplaced, NEW j \in Cache!Janitor, NEW at, Cache!Go(j, at), at # "delete", at # "closing",
         th[j].at # "out", UNCHANGED <<cast, posted, items, slot, inodes, making>>,
         path' \in {0, path}, side' \in {Cache!NoSide, side},
         at = "scan" => j = "janitor",
         at \in {"data", "meta"} => slot = 0 /\ making = "none" /\ \A i \in 1 .. Len(items) : Past(items[i]),
         th[j].at = "closing" => \A i \in 1 .. Len(items) : i = th[j].it => Past(items[i]),
         path' # path => at = "meta" /\ making = "none",
         th[j].at = "meta" => side' = Cache!NoSide
  PROVE  Lone'
<1>1. j \in cast BY DEF Lone, Sweeping
<1>2. /\ Threads' /\ th'[j].at = at
      /\ \A k \in Cache!Janitor : k # j => th[k].at = "out" /\ th'[k].at = "out"
      /\ \A t \in Loader : th'[t] = th[t]
  BY <1>1, JanitorGoes
<1>3. Stock /\ Content BY DEF Lone
<1>4. Cache!Range' = Cache!Range BY RangeStays
<1>5. side'.hash \in {0, 1} /\ DOMAIN side' = {"hash", "rs"} /\ side'.rs \subseteq Cache!Range
      /\ (side' = side \/ side'.rs = {})
  BY <1>3 DEF Cache!NoSide, Stock, Lone, First
<1>6. Stock' /\ Content'
  <2>1. path' \in 0 .. Len(inodes)
    <3>1. Len(inodes) \in Nat BY <1>3 DEF Stock, Listing
    <3> QED BY <1>3, <3>1 DEF Stock
  <2> QED BY <1>3, <1>4, <1>5, <2>1 DEF Stock, Content, Own
<1>7. First' BY <1>2, <1>4, <1>5 DEF Lone, First
<1>8. Loading'
  <2> SUFFICES ASSUME NEW t \in Loader, th[t].at = "load"
               PROVE  making = t /\ slot = 0 /\ (path' = 0 => th[t].rs = {})
    BY <1>2 DEF Loading
  <2>1. making = t /\ slot = 0 /\ (path = 0 => th[t].rs = {}) BY DEF Lone, Loading
  <2>2. making # "none" BY <2>1 DEF Loader
  <2> QED BY <2>1, <2>2
<1>9. Listed'
  <2>1. CASE path' # path BY <1>2, <2>1 DEF Listed
  <2>2. CASE path' = path /\ th[j].at = "meta"
    <3>1. side'.rs = {} BY <2>2 DEF Cache!NoSide
    <3> QED BY <3>1 DEF Listed
  <2>3. CASE path' = path /\ th[j].at # "meta"
    <3>1. \A k \in Cache!Janitor : th[k].at # "meta" BY <1>2, <2>3
    <3>2. path = 0 => side.rs = {} BY <3>1 DEF Lone, Listed
    <3> QED BY <1>5, <2>3, <3>2 DEF Listed
  <2> QED BY <2>1, <2>2, <2>3
<1>10. Scribes'
  <2> SUFFICES ASSUME NEW i \in 1 .. Len(items), ~Past(items[i])
               PROVE  path' # 0 /\ (i = slot \/ \E k \in Cache!Janitor : th'[k].at = "closing" /\ th'[k].it = i)
    BY DEF Scribes
  <2>1. path # 0 /\ (i = slot \/ \E k \in Cache!Janitor : th[k].at = "closing" /\ th[k].it = i)
    BY DEF Lone, Scribes
  <2>2. path' = path OBVIOUS
  <2>3. i = slot BY <1>2, <2>1
  <2> QED BY <2>1, <2>2, <2>3
<1>11. Sweeping' BY <1>1, <1>2 DEF Sweeping
<1> QED BY <1>2, <1>6, <1>7, <1>8, <1>9, <1>10, <1>11 DEF Lone

LEMMA SweepKeeps ==
  ASSUME Lone, Unreplaced, NEW j \in Cache!Janitor, Cache!Sweep(j)
  PROVE  Lone'
<1>1. Threads /\ Stock BY DEF Lone
<1>2. th[j].at # "out"
  BY DEF Cache!Sweep, Cache!Delete, Cache!Closing, Cache!Scan, Cache!RemoveData, Cache!RemoveMeta
<1>3. "still" \in cast
  <2>1. j \in cast BY <1>2 DEF Lone, Sweeping
  <2> QED BY <2>1 DEF Unreplaced
<1>4. \A k \in Cache!Janitor : k # j => th[k].at = "out"
  <2>1. j \in cast BY <1>2 DEF Lone, Sweeping
  <2>2. \A k \in Cache!Janitor : k # j => k \notin cast BY <2>1 DEF Unreplaced, Cache!Janitor
  <2> QED BY <2>2 DEF Lone, Sweeping
<1>5. Cache!Idle => making = "none" BY <1>3 DEF Cache!Idle
<1>6. CASE Cache!Delete(j) BY <1>6, DeleteKeeps
<1>7. CASE Cache!Closing(j)
  <2> DEFINE at == IF j = "janitor" THEN "scan" ELSE "data"
  <2>1. /\ th[j].at = "closing" /\ Cache!Go(j, at) /\ UNCHANGED <<cast, posted, items, slot, inodes, path, side, making>>
        /\ making = "none"
    BY <1>5, <1>7 DEF Cache!Closing, Cache!disk
  <2>2. \A i \in 1 .. Len(items) : i = th[j].it => Past(items[i]) BY <1>7 DEF Cache!Closing, Cache!Live, Past
  <2>3. at = "data" => slot = 0 BY <2>1 DEF Lone, Sweeping, Cache!Janitor
  <2>4. at = "data" => \A i \in 1 .. Len(items) : Past(items[i]) BY <1>4, <2>2, <2>3, AllPast
  <2>5. at \in {"scan", "data"} /\ (at = "scan" => j = "janitor") OBVIOUS
  <2> HIDE DEF at
  <2> QED BY <1>2, <2>1, <2>2, <2>3, <2>4, <2>5, SweepsOn
<1>8. CASE Cache!Scan(j)
  <2>1. PICK at \in {"done", "data"} :
          /\ Cache!Go(j, at)
          /\ at = "data" => slot = 0
          /\ side' \in {Cache!NoSide, side}
    BY <1>8 DEF Cache!Scan
  <2>2. th[j].at = "scan" /\ UNCHANGED <<cast, posted, items, slot, inodes, path, making>> /\ making = "none"
    BY <1>5, <1>8 DEF Cache!Scan
  <2>3. at = "data" => \A i \in 1 .. Len(items) : Past(items[i]) BY <1>4, <2>1, <2>2, AllPast
  <2> QED BY <1>2, <2>1, <2>2, <2>3, SweepsOn
<1>9. CASE Cache!RemoveData(j)
  <2>1. /\ th[j].at = "data" /\ Cache!Go(j, "meta") /\ path' = 0
        /\ UNCHANGED <<cast, posted, items, slot, inodes, side, making>>
    BY <1>9 DEF Cache!RemoveData
  <2>2. slot = 0 /\ making = "none" /\ \A i \in 1 .. Len(items) : Past(items[i]) BY <2>1 DEF Lone, Sweeping
  <2> QED BY <1>2, <2>1, <2>2, SweepsOn
<1>10. CASE Cache!RemoveMeta(j)
  <2>1. /\ th[j].at = "meta" /\ Cache!Go(j, "done") /\ side' = Cache!NoSide
        /\ UNCHANGED <<cast, posted, items, slot, inodes, path, making>>
    BY <1>10 DEF Cache!RemoveMeta
  <2> QED BY <1>2, <2>1, SweepsOn
<1> QED BY <1>6, <1>7, <1>8, <1>9, <1>10 DEF Cache!Sweep

\* What a crash leaves is what the next item is made from.
LEMMA CrashKeeps ==
  ASSUME Lone, Unreplaced, Cache!Crash
  PROVE  Lone'
<1>1. Threads /\ Stock BY DEF Lone
<1> DEFINE kept == <<inodes[path]>>
<1>2. /\ items' = <<>> /\ slot' = 0 /\ making' = "none" /\ UNCHANGED <<cast, posted, side>> /\ Cache!Quiet
      /\ th' = [t \in Cache!VThread |-> IF th[t].at = "done" THEN th[t] ELSE Cache!Out]
      /\ inodes' = IF path = 0 THEN <<>> ELSE kept
      /\ path' = IF path = 0 THEN 0 ELSE 1
  BY DEF Cache!Crash
<1>3. Cache!Range' = Cache!Range BY <1>2, RangeStays
<1>4. Listing(items') /\ Len(items') = 0 BY <1>2 DEF Listing
<1>5. path # 0 => path \in 1 .. Len(inodes)
  <2>1. Len(inodes) \in Nat BY <1>1 DEF Stock, Listing
  <2> QED BY <1>1, <2>1 DEF Stock
<1>6. kept \in Seq({inodes[path]}) /\ Len(kept) = 1 /\ kept[1] = inodes[path] OBVIOUS
<1> HIDE DEF kept
<1>7. Listing(inodes') /\ path' \in 0 .. Len(inodes') /\ \A n \in 1 .. Len(inodes') : path # 0 /\ inodes'[n] = inodes[path]
  <2>1. CASE path = 0
    <3>1. inodes' \in Seq({}) /\ Len(inodes') = 0 /\ path' = 0 BY <1>2, <2>1
    <3> QED BY <3>1 DEF Listing
  <2>2. CASE path # 0
    <3>1. inodes' = kept /\ path' = 1 BY <1>2, <2>2
    <3>2. \A n \in 1 .. 1 : n = 1 OBVIOUS
    <3>3. Listing(inodes') BY <1>6, <3>1 DEF Listing
    <3>4. Len(inodes') = 1 /\ inodes'[1] = inodes[path] BY <1>6, <3>1
    <3>5. path' \in 0 .. Len(inodes') BY <3>1, <3>4
    <3>6. ASSUME NEW n \in 1 .. Len(inodes') PROVE inodes'[n] = inodes[path]
      <4>1. n = 1 BY <3>2, <3>4, <3>6
      <4> QED BY <3>4, <4>1
    <3> QED BY <2>2, <3>3, <3>5, <3>6
  <2> QED BY <2>1, <2>2
<1>8. Stock'
  <2>1. \A n \in 1 .. Len(inodes') : DOMAIN inodes'[n] = Cache!Range BY <1>1, <1>5, <1>7 DEF Stock
  <2> QED BY <1>1, <1>2, <1>3, <1>4, <1>7, <2>1 DEF Stock
<1>9. Content' BY <1>4 DEF Content
<1>10. \A t \in Cache!VThread : /\ DOMAIN th'[t] = {"at", "it", "hash", "rs"}
                                /\ th'[t].at \in {"out", "done"}
                                /\ th'[t].at = "done" => th[t].at = "done"
  <2> SUFFICES ASSUME NEW t \in Cache!VThread
               PROVE  /\ DOMAIN th'[t] = {"at", "it", "hash", "rs"} /\ th'[t].at \in {"out", "done"}
                      /\ th'[t].at = "done" => th[t].at = "done"
    OBVIOUS
  <2>1. th'[t] = IF th[t].at = "done" THEN th[t] ELSE Cache!Out BY <1>2
  <2>2. DOMAIN th[t] = {"at", "it", "hash", "rs"} BY <1>1 DEF Threads
  <2>3. Cache!Out.at = "out" /\ DOMAIN Cache!Out = {"at", "it", "hash", "rs"} BY DEF Cache!Out
  <2> QED BY <2>1, <2>2, <2>3
<1>11. Threads'
  <2>1. DOMAIN th' = Cache!VThread BY <1>2
  <2>2. th'["forget"].at = "out"
    <3>1. th["forget"].at = "out" BY <1>1 DEF Threads
    <3> QED BY <1>10, <3>1, LoadersAre
  <2> QED BY <1>10, <2>1, <2>2, LoadersAre DEF Threads
<1>12. First' BY <1>2, <1>3, <1>4, <1>5, <1>7, <1>10, LoadersAre DEF Lone, First
<1>13. Loading' BY <1>10, LoadersAre DEF Loading
<1>14. Listed'
  <2>1. \A j \in Cache!Janitor : th[j].at # "meta"
    <3> SUFFICES ASSUME NEW j \in Cache!Janitor, th[j].at = "meta" PROVE FALSE OBVIOUS
    <3>1. j \in cast BY DEF Lone, Sweeping
    <3>2. "still" \in cast BY <3>1 DEF Unreplaced
    <3> QED BY <1>2, <3>2 DEF Cache!Quiet
  <2> QED BY <1>2, <2>1 DEF Lone, Listed
<1>15. Scribes' BY <1>4 DEF Scribes
<1>16. Sweeping' BY <1>2, <1>4, <1>10, LoadersAre DEF Lone, Sweeping
<1> QED BY <1>8, <1>9, <1>11, <1>12, <1>13, <1>14, <1>15, <1>16 DEF Lone

LEMMA LoneNext ==
  ASSUME Lone, Unreplaced, Cache!NextVfs
  PROVE  Lone'
<1>1. DOMAIN items = 1 .. Len(items) BY DEF Lone, Stock, Listing
<1>2. CASE \E v \in Cache!Viewer : Cache!Want(v) \/ Cache!Serve(v) \/ Cache!Release(v) \/ Cache!ReleaseFile(v)
  BY <1>2, ViewersKeep
<1>3. CASE \E t \in Cache!Viewer \cup {"precache"} : Cache!Lookup(t)
  <2>1. PICK t \in Loader : Cache!Lookup(t) BY <1>3, LoadersAre
  <2> QED BY <2>1, GetItemKeeps, CreateKeeps, NewItemLone DEF Cache!Lookup
<1>4. CASE \E i \in DOMAIN items : \/ Cache!FlushBuffer(i) \/ Cache!FlushMetadata(i) \/ Cache!CloseItem(i)
                                   \/ (\E c \in Cache!Range : Cache!Fetch(i, c))
  BY <1>1, <1>4, FlushesKeep, FetchKeeps
<1>5. CASE Cache!WantWrite \/ (\E c \in Cache!Range : Cache!WriteCachedRange(c)) BY <1>5, PrecacheKeeps
<1>6. CASE \E j \in Cache!Janitor : Cache!Claim(j) \/ Cache!Sweep(j) BY <1>6, ClaimKeeps, SweepKeeps
<1>7. ~(Cache!Mend \/ Cache!ForgetRange \/ Cache!ForgetDiskRange \/ Cache!Replace)
  <2>1. th["forget"].at = "out" BY DEF Lone, Threads
  <2> QED BY <2>1 DEF Unreplaced, Cache!Mend, Cache!ForgetRange, Cache!ForgetDiskRange, Cache!ForgetDisk, Cache!Replace
<1>8. CASE Cache!Crash BY <1>8, CrashKeeps
<1> QED BY <1>2, <1>3, <1>4, <1>5, <1>6, <1>7, <1>8 DEF Cache!NextVfs

-----------------------------------------------------------------------------
(* The name is re-grabbed.                                                 *)

\* The release before is 1, the one after 2.
Releases == posted \in {1, 2} /\ \A i \in 1 .. Len(items) : items[i].hash \in {1, 2} /\ (posted = 1 => items[i].hash = 1)

\* Only viewers act.
Viewed == th["precache"].at = "out" /\ \A j \in Cache!Janitor : th[j].at = "out"

\* No two items have a data file in common.
Apart == \A i, k \in 1 .. Len(items) : items[i].ino = items[k].ino => i = k

\* A new item starts from nothing.
Afresh ==
  \A t \in Loader : th[t].at = "load" =>
    making = t /\ slot = 0 /\ path = 0 /\ th[t].rs = {} /\ th[t].hash = posted

\* What is on disk before the name's item is made is nothing, or of the
\* release before and says so.
Behind ==
  /\ Len(items) = 0 => path = 0 /\ side = Cache!NoSide
  /\ Len(items) # 0 /\ slot = 0 => posted = 2
  /\ Len(items) # 0 /\ posted = 2 /\ (slot = 0 \/ items[slot].hash = 1) =>
       side.hash = 1 /\ \A i \in 1 .. Len(items) : items[i].hash = 1

\* The item of the map is the only one that is not retired.
Current ==
  /\ slot # 0 => ~items[slot].retired /\ items[slot].shut = "no"
  /\ \A i \in 1 .. Len(items) : items[i].retired \/ i = slot

Renewed == Stock /\ Threads /\ Content /\ Releases /\ Viewed /\ Apart /\ Afresh /\ Behind /\ Current

LEMMA ViewerGoes ==
  ASSUME Threads, cast' = cast, NEW v \in Cache!Viewer, NEW at, at # "load",
         Cache!Go(v, at) \/ (\E i : Cache!GoWith(v, at, i)) \/ (at = "out" /\ th' = [th EXCEPT ![v] = Cache!Out])
  PROVE  Threads' /\ ThreadsCalm /\ th'["precache"] = th["precache"]
<1>1. v \in Loader /\ v # "precache" /\ "precache" \in Cache!VThread BY LoadersAre DEF Cache!Viewer
<1>2. Threads' /\ ThreadsCalm BY <1>1, GoCalm
<1>3. th'["precache"] = th["precache"] BY <1>1 DEF Threads, Cache!Go, Cache!GoWith
<1> QED BY <1>2, <1>3

\* What most steps leave alone.
LEMMA RenewedCalm ==
  ASSUME Renewed, Stock', Content', Threads', ThreadsCalm, th'["precache"] = th["precache"],
         cast' = cast, posted' = posted, slot' = slot, path' = path, making' = making,
         side' = side \/ (slot # 0 /\ side'.hash = items[slot].hash),
         Len(items') = Len(items),
         \A i \in 1 .. Len(items) :
           /\ items'[i].hash = items[i].hash /\ items'[i].ino = items[i].ino
           /\ items[i].retired => items'[i].retired
           /\ i = slot => items'[i].retired = items[i].retired /\ items'[i].shut = items[i].shut
  PROVE  Renewed'
<1>1. slot # 0 => slot \in 1 .. Len(items)
  <2>1. slot \in 0 .. Len(items) /\ Len(items) \in Nat BY DEF Renewed, Stock, Listing
  <2> QED BY <2>1
<1>2. Releases' BY DEF Renewed, Releases
<1>3. Viewed' BY DEF Renewed, Viewed, ThreadsCalm
<1>4. Apart' BY DEF Renewed, Apart
<1>5. Afresh' BY DEF Renewed, Afresh, ThreadsCalm
<1>6. Behind'
  <2>1. Len(items) = 0 => slot = 0 BY <1>1
  <2>2. slot # 0 => items'[slot].hash = items[slot].hash BY <1>1
  <2> QED BY <2>1, <2>2 DEF Renewed, Behind
<1>7. Current' BY <1>1 DEF Renewed, Current
<1> QED BY <1>2, <1>3, <1>4, <1>5, <1>6, <1>7 DEF Renewed

LEMMA RenewedAside ==
  ASSUME Renewed, Threads', ThreadsCalm, th'["precache"] = th["precache"],
         UNCHANGED <<cast, posted, items, slot, inodes, path, side, making>>
  PROVE  Renewed'
<1>1. Cache!Range' = Cache!Range BY RangeStays
<1>2. Stock' /\ Content' BY <1>1 DEF Renewed, Stock, Content, Own
<1> QED BY <1>2, RenewedCalm

\* A step that changes an item's books, but not which it is.
LEMMA RenewedBooked ==
  ASSUME Renewed, Threads', ThreadsCalm, th'["precache"] = th["precache"],
         NEW i, NEW r, items' = [items EXCEPT ![i] = r],
         cast' = cast, posted' = posted, slot' = slot, path' = path, making' = making, inodes' = inodes,
         side' = side \/ (slot # 0 /\ side'.hash = items[slot].hash /\ DOMAIN side' = {"hash", "rs"}
                          /\ side'.rs \subseteq Cache!Range),
         i \in 1 .. Len(items) =>
           /\ DOMAIN r = ItemFields /\ r.opens \in Int
           /\ r.hash = items[i].hash /\ r.ino = items[i].ino /\ r.rs = items[i].rs /\ r.mem = items[i].mem
           /\ items[i].retired => r.retired
           /\ i = slot => r.retired = items[i].retired /\ r.shut = items[i].shut
  PROVE  Renewed'
<1>1. Alters(i) /\ (i \in 1 .. Len(items) => items'[i] = r)
  <2>1. Listing(items) BY DEF Renewed, Stock
  <2> QED BY <2>1, Replacing
<1>2. Stock /\ Content BY DEF Renewed
<1>3. DOMAIN side' = {"hash", "rs"} /\ side'.rs \subseteq Cache!Range BY <1>2 DEF Stock
<1>4. Stock' /\ Content' BY <1>1, <1>2, <1>3, BooksKeep
<1>5. \A k \in 1 .. Len(items) :
           /\ items'[k].hash = items[k].hash /\ items'[k].ino = items[k].ino
           /\ items[k].retired => items'[k].retired
           /\ k = slot => items'[k].retired = items[k].retired /\ items'[k].shut = items[k].shut
  <2> SUFFICES ASSUME NEW k \in 1 .. Len(items)
               PROVE  /\ items'[k].hash = items[k].hash /\ items'[k].ino = items[k].ino
                      /\ items[k].retired => items'[k].retired
                      /\ k = slot => items'[k].retired = items[k].retired /\ items'[k].shut = items[k].shut
    OBVIOUS
  <2>1. CASE k = i BY <1>1, <2>1
  <2>2. CASE k # i BY <1>1, <2>2 DEF Alters
  <2> QED BY <2>1, <2>2
<1>6. Len(items') = Len(items) BY <1>1 DEF Alters
<1> QED BY <1>4, <1>5, <1>6, RenewedCalm

\* retireItem, of an item that is retired already or is the release before.
LEMMA RetireRenews ==
  ASSUME Renewed, Threads', ThreadsCalm, th'["precache"] = th["precache"], NEW i, i # 0, Cache!Retire(i),
         i \in 1 .. Len(items) => items[i].retired \/ items[i].hash # posted,
         UNCHANGED <<cast, posted, inodes, path, side, making>>
  PROVE  Renewed'
<1> DEFINE r == [items[i] EXCEPT !.retired = TRUE,
                   !.opens = IF @ = 0 /\ ~items[i].retired THEN Cache!Claimed ELSE @,
                   !.shut = IF items[i].opens = 0 /\ ~items[i].retired THEN "flush" ELSE @]
<1>1. Stock /\ Content BY DEF Renewed
<1>2. items' = [items EXCEPT ![i] = r] BY DEF Cache!Retire, Cache!Retired
<1>3. i \in 1 .. Len(items) =>
        /\ DOMAIN r = ItemFields /\ r.hash = items[i].hash /\ r.ino = items[i].ino
        /\ r.rs = items[i].rs /\ r.mem = items[i].mem /\ r.retired = TRUE
        /\ r.opens \in {Cache!Claimed, items[i].opens}
        /\ items[i].retired => r.shut = items[i].shut
  BY <1>1 DEF Stock, ItemFields
<1> HIDE DEF r
<1>4. i \in 1 .. Len(items) => r.opens \in Int BY <1>1, <1>3 DEF Stock, Cache!Claimed
<1>5. slot # 0 => slot \in 1 .. Len(items)
  <2>1. slot \in 0 .. Len(items) /\ Len(items) \in Nat BY <1>1 DEF Stock, Listing
  <2> QED BY <2>1
<1>6. CASE i \in 1 .. Len(items) => items[i].retired
  <2>1. i # slot BY <1>5, <1>6 DEF Renewed, Current
  <2>2. slot' = slot BY <2>1 DEF Cache!Retire
  <2> QED BY <1>2, <1>3, <1>4, <1>6, <2>1, <2>2, RenewedBooked
<1>7. CASE i \in 1 .. Len(items) /\ ~items[i].retired
  <2>1. i = slot BY <1>7 DEF Renewed, Current
  <2>2. slot' = 0 BY <1>7, <2>1 DEF Cache!Retire
  <2>3. items[i].hash = 1 /\ posted = 2 BY <1>7 DEF Renewed, Releases
  <2>4. Len(items) # 0 BY <1>7
  <2>5. side.hash = 1 /\ \A k \in 1 .. Len(items) : items[k].hash = 1
    BY <2>1, <2>3, <2>4 DEF Renewed, Behind
  <2>6. Alters(i) /\ items'[i] = r
    <3>1. Listing(items) BY <1>1 DEF Stock
    <3> QED BY <1>2, <1>7, <3>1, Replacing
  <2>7. DOMAIN side = {"hash", "rs"} /\ side.rs \subseteq Cache!Range BY <1>1 DEF Stock
  <2>8. Stock' /\ Content' BY <1>1, <1>3, <1>4, <2>2, <2>6, <2>7, BooksKeep
  <2>9. Len(items') = Len(items) /\ \A k \in 1 .. Len(items) : items'[k].hash = items[k].hash /\ items'[k].ino = items[k].ino
    BY <1>3, <1>7, <2>6 DEF Alters
  <2>10. \A k \in 1 .. Len(items) : items'[k].retired BY <1>3, <1>7, <2>1, <2>6 DEF Alters, Renewed, Current
  <2>11. \A t \in Loader : th'[t].at # "load" BY <1>7, <2>1 DEF Renewed, Afresh, ThreadsCalm
  <2>12. Releases' BY <2>9 DEF Renewed, Releases
  <2>13. Viewed' BY DEF Renewed, Viewed, ThreadsCalm
  <2>14. Apart' BY <2>9 DEF Renewed, Apart
  <2>15. Afresh' BY <2>11 DEF Afresh
  <2>16. Behind' BY <2>3, <2>4, <2>5, <2>9 DEF Behind
  <2>17. Current' BY <2>2, <2>9, <2>10 DEF Current
  <2> QED BY <2>8, <2>12, <2>13, <2>14, <2>15, <2>16, <2>17 DEF Renewed
<1> QED BY <1>6, <1>7

LEMMA ViewersRenew ==
  ASSUME Renewed, NEW v \in Cache!Viewer, Cache!Want(v) \/ Cache!Serve(v) \/ Cache!Release(v) \/ Cache!ReleaseFile(v)
  PROVE  Renewed'
<1>1. Threads /\ Stock BY DEF Renewed
<1>2. CASE Cache!Want(v)
  <2>1. Threads' /\ ThreadsCalm /\ th'["precache"] = th["precache"] BY <1>1, <1>2, ViewerGoes DEF Cache!Want
  <2> QED BY <1>2, <2>1, RenewedAside DEF Cache!Want, Cache!disk
<1>3. CASE Cache!ReleaseFile(v)
  <2>1. Threads' /\ ThreadsCalm /\ th'["precache"] = th["precache"] BY <1>1, <1>3, ViewerGoes DEF Cache!ReleaseFile
  <2> QED BY <1>3, <2>1, RenewedAside DEF Cache!ReleaseFile, Cache!disk
<1>4. CASE Cache!Release(v)
  <2> DEFINE i == th[v].it
             last == items[i].opens = 1
             r == [items[i] EXCEPT !.opens = IF last /\ items[i].retired THEN Cache!Claimed ELSE @ - 1,
                                   !.shut = IF last /\ items[i].retired THEN "flush" ELSE @]
  <2>1. Threads' /\ ThreadsCalm /\ th'["precache"] = th["precache"] BY <1>1, <1>4, ViewerGoes DEF Cache!Release
  <2>2. items' = [items EXCEPT ![i] = r] BY <1>4 DEF Cache!Release
  <2>3. i \in 1 .. Len(items) =>
          /\ DOMAIN r = ItemFields /\ r.hash = items[i].hash /\ r.ino = items[i].ino
          /\ r.rs = items[i].rs /\ r.mem = items[i].mem /\ r.retired = items[i].retired
          /\ r.opens = IF last /\ items[i].retired THEN Cache!Claimed ELSE items[i].opens - 1
          /\ r.shut = IF last /\ items[i].retired THEN "flush" ELSE items[i].shut
    BY <1>1 DEF Stock, ItemFields
  <2> HIDE DEF r
  <2>4. i \in 1 .. Len(items) => r.opens \in Int BY <1>1, <2>3 DEF Stock, Cache!Claimed
  <2>5. i \in 1 .. Len(items) => (i = slot => r.shut = items[i].shut)
    <3>1. i \in 1 .. Len(items) /\ i = slot => ~items[i].retired BY DEF Renewed, Current
    <3> QED BY <2>3, <3>1
  <2>6. UNCHANGED <<cast, posted, slot, path, making, inodes, side>> BY <1>4 DEF Cache!Release, Cache!disk
  <2> HIDE DEF i
  <2> QED BY <2>1, <2>2, <2>3, <2>4, <2>5, <2>6, RenewedBooked
<1>5. ASSUME NEW i, items' = [items EXCEPT ![i].opens = @ + 1, ![i].dirty = TRUE],
             Threads', ThreadsCalm, th'["precache"] = th["precache"],
             UNCHANGED <<cast, posted, slot, path, making, inodes, side>>
      PROVE  Renewed'
  <2> DEFINE r == [items[i] EXCEPT !.opens = @ + 1, !.dirty = TRUE]
  <2>1. items' = [items EXCEPT ![i] = r] BY <1>5
  <2>2. i \in 1 .. Len(items) =>
          /\ DOMAIN r = ItemFields /\ r.hash = items[i].hash /\ r.ino = items[i].ino
          /\ r.rs = items[i].rs /\ r.mem = items[i].mem /\ r.retired = items[i].retired
          /\ r.opens = items[i].opens + 1 /\ r.shut = items[i].shut
    BY <1>1 DEF Stock, ItemFields
  <2> HIDE DEF r
  <2>3. i \in 1 .. Len(items) => r.opens \in Int BY <1>1, <2>2 DEF Stock
  <2> QED BY <1>5, <2>1, <2>2, <2>3, RenewedBooked
<1>6. CASE Cache!Bind(v)
  <2>1. Threads' /\ ThreadsCalm /\ th'["precache"] = th["precache"] BY <1>1, <1>6, ViewerGoes DEF Cache!Bind
  <2>2. UNCHANGED <<cast, posted, slot, path, making, inodes, side>> BY <1>6 DEF Cache!Bind, Cache!disk
  <2>3. CASE UNCHANGED items BY <2>1, <2>2, <2>3, RenewedAside
  <2>4. CASE ~UNCHANGED items
    <3> DEFINE i == IF files = 0 THEN th[v].it ELSE files
    <3>1. items' = [items EXCEPT ![i].opens = @ + 1, ![i].dirty = TRUE] BY <1>6, <2>4 DEF Cache!Bind
    <3> HIDE DEF i
    <3> QED BY <1>5, <2>1, <2>2, <3>1
  <2> QED BY <2>3, <2>4
<1>7. CASE Cache!GetFile(v)
  <2> DEFINE current == ~items[files].retired /\ items[files].hash = posted
  <2>1. Threads' /\ ThreadsCalm /\ th'["precache"] = th["precache"] BY <1>1, <1>7, ViewerGoes DEF Cache!GetFile
  <2>2. UNCHANGED <<cast, posted, path, making, inodes, side>> BY <1>7 DEF Cache!GetFile, Cache!disk
  <2>3. CASE UNCHANGED <<items, slot>> BY <2>1, <2>2, <2>3, RenewedAside
  <2>4. CASE items' = [items EXCEPT ![files].opens = @ + 1, ![files].dirty = TRUE] /\ UNCHANGED slot
    BY <1>5, <2>1, <2>2, <2>4
  <2>5. CASE files # 0 /\ ~current /\ Cache!Retire(files) BY <2>1, <2>2, <2>5, RetireRenews
  <2> QED BY <1>7, <2>3, <2>4, <2>5 DEF Cache!GetFile
<1> QED BY <1>2, <1>3, <1>4, <1>6, <1>7 DEF Cache!Serve

LEMMA GetItemRenews ==
  ASSUME Renewed, NEW t \in Cache!Viewer, Cache!GetItem(t)
  PROVE  Renewed'
<1>1. Threads /\ Stock BY DEF Renewed
<1>2. UNCHANGED <<cast, posted, path, making, inodes, side>> BY DEF Cache!GetItem, Cache!disk
<1>3. \/ Cache!Go(t, "create") /\ UNCHANGED <<items, slot>>
      \/ (\E i : Cache!GoWith(t, "bind", i)) /\ items' = [items EXCEPT ![slot].dirty = TRUE] /\ UNCHANGED slot
      \/ slot # 0 /\ items[slot].hash # posted /\ Cache!Retire(slot) /\ Cache!Go(t, "create")
  BY DEF Cache!GetItem
<1>4. Threads' /\ ThreadsCalm /\ th'["precache"] = th["precache"] BY <1>1, <1>2, <1>3, ViewerGoes
<1>5. CASE UNCHANGED <<items, slot>> BY <1>2, <1>4, <1>5, RenewedAside
<1>6. CASE slot # 0 /\ items[slot].hash # posted /\ Cache!Retire(slot) BY <1>2, <1>4, <1>6, RetireRenews
<1>7. CASE items' = [items EXCEPT ![slot].dirty = TRUE] /\ UNCHANGED slot
  <2> DEFINE r == [items[slot] EXCEPT !.dirty = TRUE]
  <2>1. items' = [items EXCEPT ![slot] = r] BY <1>7
  <2>2. slot \in 1 .. Len(items) =>
          /\ DOMAIN r = ItemFields /\ r.hash = items[slot].hash /\ r.ino = items[slot].ino
          /\ r.rs = items[slot].rs /\ r.mem = items[slot].mem /\ r.retired = items[slot].retired
          /\ r.opens = items[slot].opens /\ r.shut = items[slot].shut
    BY <1>1 DEF Stock, ItemFields
  <2> HIDE DEF r
  <2>3. slot \in 1 .. Len(items) => r.opens \in Int BY <1>1, <2>2 DEF Stock
  <2> QED BY <1>2, <1>4, <1>7, <2>1, <2>2, <2>3, RenewedBooked
<1> QED BY <1>3, <1>5, <1>6, <1>7

\* The sidecar of the release before does not belong to the new item.
LEMMA CreateRenews ==
  ASSUME Renewed, NEW t \in Cache!Viewer, Cache!Create(t)
  PROVE  Renewed'
<1>1. Threads /\ Stock /\ Content BY DEF Renewed
<1>2. CASE slot # 0
  <2>1. Threads' /\ ThreadsCalm /\ th'["precache"] = th["precache"] BY <1>1, <1>2, ViewerGoes DEF Cache!Create
  <2> QED BY <1>2, <2>1, RenewedAside DEF Cache!Create
<1>3. CASE slot = 0
  <2> DEFINE b == Cache!SidecarBelongsTo(posted)
             x == IF b THEN side.rs ELSE {}
             r == [at |-> "load", it |-> 0, hash |-> posted, rs |-> x]
  <2>1. /\ making = "none" /\ making' = t /\ th' = [th EXCEPT ![t] = r] /\ path' = IF b THEN path ELSE 0
        /\ UNCHANGED <<cast, posted, items, slot, inodes, side>>
    BY <1>3 DEF Cache!Create
  <2>2. r.at = "load" /\ r.hash = posted /\ r.rs = x /\ DOMAIN r = {"at", "it", "hash", "rs"} OBVIOUS
  <2>3. x = {} /\ path' = 0
    <3>1. CASE Len(items) = 0
      <4>1. path = 0 /\ side = Cache!NoSide BY <3>1 DEF Renewed, Behind
      <4> QED BY <2>1, <4>1 DEF Cache!NoSide
    <3>2. CASE Len(items) # 0
      <4>1. posted = 2 /\ side.hash = 1 BY <1>3, <3>2 DEF Renewed, Behind
      <4>2. ~b BY <4>1 DEF Cache!SidecarBelongsTo
      <4> QED BY <2>1, <4>2
    <3> QED BY <3>1, <3>2
  <2> HIDE DEF r, x, b
  <2>4. t \in Loader /\ t \in Cache!VThread /\ t # "precache" BY LoadersAre DEF Cache!Viewer
  <2>5. /\ th'[t] = r /\ DOMAIN th' = Cache!VThread
        /\ \A u \in Cache!VThread : u # t => th'[u] = th[u]
    BY <1>1, <2>1, <2>4 DEF Threads
  <2>6. Cache!Range' = Cache!Range BY <2>1, RangeStays
  <2>7. Stock' /\ Content'
    <3>1. path' \in 0 .. Len(inodes)
      <4>1. Len(inodes) \in Nat BY <1>1 DEF Stock, Listing
      <4> QED BY <2>3, <4>1
    <3> QED BY <1>1, <2>1, <2>6, <3>1 DEF Stock, Content, Own
  <2>8. \A u \in Loader : u # t => th'[u].at # "load"
    <3> SUFFICES ASSUME NEW u \in Loader, u # t, th'[u].at = "load" PROVE FALSE OBVIOUS
    <3>1. th'[u] = th[u] BY <2>5, LoadersAre
    <3> QED BY <2>1, <3>1 DEF Renewed, Afresh, Loader
  <2>9. Threads' BY <1>1, <2>2, <2>3, <2>4, <2>5, <2>8, LoadersAre DEF Threads
  <2>10. Releases' /\ Apart' /\ Current' BY <2>1 DEF Renewed, Releases, Apart, Current
  <2>11. Viewed' BY <2>4, <2>5, LoadersAre DEF Renewed, Viewed
  <2>12. Afresh' BY <1>3, <2>1, <2>2, <2>3, <2>5, <2>8 DEF Afresh
  <2>13. Behind' BY <2>1, <2>3 DEF Renewed, Behind
  <2> QED BY <2>7, <2>9, <2>10, <2>11, <2>12, <2>13 DEF Renewed
<1> QED BY <1>2, <1>3

LEMMA NewItemRenews ==
  ASSUME Renewed, NEW t \in Cache!Viewer, Cache!NewItem(t)
  PROVE  Renewed'
<1>1. Threads /\ Stock /\ Content /\ t \in Loader BY LoadersAre DEF Renewed
<1>2. th[t].at = "load" /\ UNCHANGED <<cast, posted, side>> /\ making' = "none" BY DEF Cache!NewItem
<1>3. making = t /\ slot = 0 /\ path = 0 /\ th[t].rs = {} /\ th[t].hash = posted
  BY <1>1, <1>2 DEF Renewed, Afresh
<1>4. /\ Stock' /\ Content' /\ Len(items') = Len(items) + 1 /\ slot' = Len(items) + 1
      /\ \A k \in 1 .. Len(items) : items'[k] = items[k]
      /\ items'[slot'].hash = posted /\ items'[slot'].shut = "no" /\ items'[slot'].retired = FALSE
      /\ items'[slot'].ino = path'
  BY <1>1, <1>3, NewItemKeeps
<1>5. Len(items) \in Nat /\ Len(inodes) \in Nat BY <1>1 DEF Stock, Listing
<1>6. path' = Len(inodes) + 1 BY <1>3 DEF Cache!NewItem
<1>7. \A k \in 1 .. Len(items') : k \in 1 .. Len(items) \/ k = slot' BY <1>4, <1>5
<1>8. Threads' /\ ThreadsCalm /\ th'["precache"] = th["precache"] BY <1>1, <1>2, ViewerGoes DEF Cache!NewItem
<1>9. \A u \in Loader : th'[u].at # "load"
  <2> SUFFICES ASSUME NEW u \in Loader, th'[u].at = "load" PROVE FALSE OBVIOUS
  <2>1. th'[u] = th[u] BY <1>8 DEF ThreadsCalm
  <2>2. u = t BY <1>3, <2>1 DEF Renewed, Afresh
  <2>3. th'[t].at = "bind" BY <1>1, LoadersAre DEF Cache!NewItem, Cache!GoWith, Threads
  <2> QED BY <2>2, <2>3
<1>10. Releases'
  <2>1. posted \in {1, 2} BY DEF Renewed, Releases
  <2> QED BY <1>2, <1>4, <1>7, <2>1 DEF Renewed, Releases
<1>11. Viewed' BY <1>8 DEF Renewed, Viewed, ThreadsCalm
<1>12. Apart'
  <2>1. \A k \in 1 .. Len(items) : items'[k].ino # path'
    <3> SUFFICES ASSUME NEW k \in 1 .. Len(items), items'[k].ino = path' PROVE FALSE OBVIOUS
    <3>1. items'[k].ino \in 1 .. Len(inodes) BY <1>1, <1>4 DEF Stock
    <3> QED BY <1>5, <1>6, <3>1
  <2> QED BY <1>4, <1>7, <2>1 DEF Renewed, Apart
<1>13. Afresh' BY <1>9 DEF Afresh
<1>14. slot' # 0 /\ Len(items') # 0 BY <1>4, <1>5
<1>15. Behind'
  <2>1. posted = 2 => items'[slot'].hash # 1 BY <1>4
  <2> QED BY <1>2, <1>14, <2>1 DEF Behind
<1>16. Current'
  <2>1. \A k \in 1 .. Len(items) : items'[k].retired BY <1>3, <1>4 DEF Renewed, Current
  <2> QED BY <1>4, <1>7, <2>1 DEF Current
<1> QED BY <1>4, <1>8, <1>10, <1>11, <1>12, <1>13, <1>15, <1>16 DEF Renewed

\* Only the item of the map writes the sidecar.
LEMMA FlushesRenew ==
  ASSUME Renewed, NEW i \in 1 .. Len(items),
         Cache!FlushBuffer(i) \/ Cache!FlushMetadata(i) \/ Cache!CloseItem(i)
  PROVE  Renewed'
<1>1. Stock /\ Threads /\ Content BY DEF Renewed
<1>2. th' = th /\ UNCHANGED <<cast, posted, slot, path, making>>
  BY DEF Cache!FlushBuffer, Cache!FlushMetadata, Cache!CloseItem, Cache!CloseFlush, Cache!CloseMeta,
         Cache!CloseBuffer
<1>3. Threads' /\ ThreadsCalm /\ th'["precache"] = th["precache"] BY <1>1, <1>2, RestCalm
<1>4. i = slot => items[i].shut = "no" BY DEF Renewed, Current
<1>5. ~items[i].retired => i = slot BY DEF Renewed, Current
<1>6. i # 0 OBVIOUS
<1>7. ASSUME NEW s, items' = [items EXCEPT ![i].mem = Cache!NoMem, ![i].shut = s], inodes' = Cache!OnFile(i),
             side' = side, i = slot => s = items[i].shut
      PROVE  Renewed'
  <2> DEFINE r == [items[i] EXCEPT !.mem = Cache!NoMem, !.shut = s]
  <2>1. items' = [items EXCEPT ![i] = r] BY <1>7
  <2>2. /\ DOMAIN r = ItemFields /\ r.hash = items[i].hash /\ r.ino = items[i].ino
        /\ r.rs = items[i].rs /\ r.mem = Cache!NoMem /\ r.retired = items[i].retired
        /\ r.opens = items[i].opens /\ r.shut = s
    BY <1>1 DEF Stock, ItemFields
  <2> HIDE DEF r
  <2>3. Alters(i) /\ items'[i] = r
    <3>1. Listing(items) BY <1>1 DEF Stock
    <3> QED BY <2>1, <3>1, Replacing
  <2>4. r.opens \in Int BY <1>1, <2>2 DEF Stock
  <2>5. Stock' /\ Content' BY <1>1, <1>2, <1>7, <2>2, <2>3, <2>4, ItemFlushKeeps
  <2>6. \A k \in 1 .. Len(items) :
             /\ items'[k].hash = items[k].hash /\ items'[k].ino = items[k].ino
             /\ items[k].retired => items'[k].retired
             /\ k = slot => items'[k].retired = items[k].retired /\ items'[k].shut = items[k].shut
    BY <1>7, <2>2, <2>3 DEF Alters
  <2>7. Len(items') = Len(items) BY <2>3 DEF Alters
  <2> QED BY <1>2, <1>3, <1>7, <2>5, <2>6, <2>7, RenewedCalm
<1>8. CASE Cache!FlushBuffer(i)
  <2>1. items' = [items EXCEPT ![i].mem = Cache!NoMem, ![i].shut = items[i].shut]
    <3>1. items' = [items EXCEPT ![i].mem = Cache!NoMem] BY <1>8 DEF Cache!FlushBuffer
    <3>2. DOMAIN items[i] = ItemFields BY <1>1 DEF Stock
    <3>3. [items[i] EXCEPT !.mem = Cache!NoMem] = [items[i] EXCEPT !.mem = Cache!NoMem, !.shut = items[i].shut]
      BY <3>2 DEF ItemFields
    <3> QED BY <3>1, <3>3
  <2> QED BY <1>7, <1>8, <2>1 DEF Cache!FlushBuffer
<1>9. CASE Cache!CloseFlush(i)
  <2>1. i # slot BY <1>4, <1>9 DEF Cache!CloseFlush
  <2> QED BY <1>7, <1>9, <2>1 DEF Cache!CloseFlush
<1>10. CASE Cache!CloseBuffer(i)
  <2>1. i # slot BY <1>4, <1>10 DEF Cache!CloseBuffer
  <2> QED BY <1>7, <1>10, <2>1 DEF Cache!CloseBuffer
<1>11. CASE Cache!FlushMetadata(i)
  <2> DEFINE r == [items[i] EXCEPT !.dirty = FALSE]
             s == [hash |-> items[i].hash, rs |-> items[i].rs]
  <2>1. items' = [items EXCEPT ![i] = r] /\ side' = s /\ inodes' = inodes /\ i = slot
    BY <1>5, <1>11 DEF Cache!FlushMetadata
  <2>2. /\ DOMAIN r = ItemFields /\ r.hash = items[i].hash /\ r.ino = items[i].ino
        /\ r.rs = items[i].rs /\ r.mem = items[i].mem /\ r.retired = items[i].retired
        /\ r.opens = items[i].opens /\ r.shut = items[i].shut
    BY <1>1 DEF Stock, ItemFields
  <2>3. s.hash = items[slot].hash /\ DOMAIN s = {"hash", "rs"} /\ s.rs \subseteq Cache!Range
    BY <1>1, <2>1 DEF Stock
  <2> HIDE DEF r, s
  <2>4. r.opens \in Int BY <1>1, <2>2 DEF Stock
  <2> QED BY <1>2, <1>3, <1>6, <2>1, <2>2, <2>3, <2>4, RenewedBooked
<1>12. CASE Cache!CloseMeta(i)
  <2> DEFINE r == [items[i] EXCEPT !.shut = "buffer"]
  <2>1. i # slot BY <1>4, <1>12 DEF Cache!CloseMeta
  <2>2. items' = [items EXCEPT ![i] = r] /\ side' = side /\ inodes' = inodes
    BY <1>5, <1>12, <2>1 DEF Cache!CloseMeta
  <2>3. /\ DOMAIN r = ItemFields /\ r.hash = items[i].hash /\ r.ino = items[i].ino
        /\ r.rs = items[i].rs /\ r.mem = items[i].mem /\ r.retired = items[i].retired
        /\ r.opens = items[i].opens
    BY <1>1 DEF Stock, ItemFields
  <2> HIDE DEF r
  <2>4. r.opens \in Int BY <1>1, <2>3 DEF Stock
  <2> QED BY <1>2, <1>3, <2>1, <2>2, <2>3, <2>4, RenewedBooked
<1> QED BY <1>8, <1>9, <1>10, <1>11, <1>12 DEF Cache!CloseItem

LEMMA FetchRenews ==
  ASSUME Renewed, NEW i \in 1 .. Len(items), NEW c \in Cache!Range, Cache!Fetch(i, c)
  PROVE  Renewed'
<1>1. Stock /\ Threads /\ Content BY DEF Renewed
<1>2. UNCHANGED <<cast, posted, slot, path, making, inodes, side, th>> BY DEF Cache!Fetch, Cache!disk
<1>3. Threads' /\ ThreadsCalm /\ th'["precache"] = th["precache"] BY <1>1, <1>2, RestCalm
<1> DEFINE value == Cache!Source(items[i].hash, c)
<1>4. value[1] = items[i].hash BY DEF Cache!Source
<1>5. Cache!Cached(i, c, value) BY DEF Cache!Fetch
<1> HIDE DEF value
<1>6. /\ Stock' /\ Content' /\ Alters(i)
      /\ items'[i].hash = items[i].hash /\ items'[i].retired = items[i].retired
      /\ items'[i].shut = items[i].shut /\ items'[i].ino = items[i].ino
  BY <1>1, <1>2, <1>4, <1>5, CachedKeeps
<1>7. \A k \in 1 .. Len(items) :
           /\ items'[k].hash = items[k].hash /\ items'[k].ino = items[k].ino
           /\ items[k].retired => items'[k].retired
           /\ k = slot => items'[k].retired = items[k].retired /\ items'[k].shut = items[k].shut
  BY <1>6 DEF Alters
<1>8. Len(items') = Len(items) BY <1>6 DEF Alters
<1> QED BY <1>2, <1>3, <1>6, <1>7, <1>8, RenewedCalm

\* The sidecar is the item's when the release changes.
LEMMA ReplaceRenews ==
  ASSUME Renewed, Regrabbed, Cache!Replace
  PROVE  Renewed'
<1>1. /\ posted = 1 /\ posted' = 2 /\ making = "none"
      /\ \A i \in DOMAIN items : Cache!Live(i) => side.hash = items[i].hash
      /\ UNCHANGED <<cast, items, slot, inodes, path, side, making, th>>
  BY DEF Cache!Replace, Regrabbed, Cache!disk
<1>2. Stock /\ Threads /\ Content BY DEF Renewed
<1>3. Cache!Range' = Cache!Range BY <1>1, RangeStays
<1>4. Stock' /\ Threads' /\ Content' BY <1>1, <1>2, <1>3 DEF Stock, Threads, Content, Own
<1>5. \A i \in 1 .. Len(items) : items[i].hash = 1 BY <1>1 DEF Renewed, Releases
<1>6. Releases' BY <1>1, <1>5 DEF Releases
<1>7. Viewed' /\ Apart' /\ Current' BY <1>1 DEF Renewed, Viewed, Apart, Current
<1>8. Afresh' BY <1>1 DEF Renewed, Afresh, Loader
<1>9. Behind'
  <2>1. Len(items) # 0 => slot # 0 BY <1>1 DEF Renewed, Behind
  <2>2. slot # 0 => side.hash = 1
    <3>1. slot # 0 => slot \in 1 .. Len(items) /\ slot \in DOMAIN items
      <4>1. slot \in 0 .. Len(items) /\ Len(items) \in Nat /\ DOMAIN items = 1 .. Len(items)
        BY <1>2 DEF Stock, Listing
      <4> QED BY <4>1
    <3>2. slot # 0 => Cache!Live(slot) BY DEF Renewed, Current, Cache!Live
    <3> QED BY <1>1, <1>5, <3>1, <3>2
  <2> QED BY <1>1, <1>5, <2>1, <2>2 DEF Renewed, Behind
<1> QED BY <1>4, <1>6, <1>7, <1>8, <1>9 DEF Renewed

LEMMA RenewedNext ==
  ASSUME Renewed, Regrabbed, Cache!NextVfs
  PROVE  Renewed'
<1>1. DOMAIN items = 1 .. Len(items) BY DEF Renewed, Stock, Listing
<1>2. CASE \E v \in Cache!Viewer : Cache!Want(v) \/ Cache!Serve(v) \/ Cache!Release(v) \/ Cache!ReleaseFile(v)
  BY <1>2, ViewersRenew
<1>3. CASE \E t \in Cache!Viewer \cup {"precache"} : Cache!Lookup(t)
  <2>1. PICK t \in Cache!Viewer \cup {"precache"} : Cache!Lookup(t) BY <1>3
  <2>2. th[t].at # "out"
    BY <2>1 DEF Cache!Lookup, Cache!GetItem, Cache!Create, Cache!NewItem
  <2>3. t \in Cache!Viewer BY <2>2 DEF Renewed, Viewed
  <2> QED BY <2>1, <2>3, GetItemRenews, CreateRenews, NewItemRenews DEF Cache!Lookup
<1>4. CASE \E i \in DOMAIN items : \/ Cache!FlushBuffer(i) \/ Cache!FlushMetadata(i) \/ Cache!CloseItem(i)
                                   \/ (\E c \in Cache!Range : Cache!Fetch(i, c))
  BY <1>1, <1>4, FlushesRenew, FetchRenews
<1>5. ~(Cache!WantWrite \/ (\E c \in Cache!Range : Cache!WriteCachedRange(c)))
  BY DEF Regrabbed, Renewed, Viewed, Cache!WantWrite, Cache!WriteCachedRange
<1>6. ~(\E j \in Cache!Janitor : Cache!Claim(j) \/ Cache!Sweep(j))
  BY DEF Regrabbed, Renewed, Viewed, Cache!Janitor, Cache!Claim, Cache!Sweep, Cache!Delete, Cache!Closing,
         Cache!Scan, Cache!RemoveData, Cache!RemoveMeta
<1>7. ~(Cache!Mend \/ Cache!ForgetRange \/ Cache!ForgetDiskRange \/ Cache!Crash)
  <2>1. th["forget"].at = "out" BY DEF Renewed, Threads
  <2> QED BY <2>1 DEF Regrabbed, Cache!Mend, Cache!ForgetRange, Cache!ForgetDiskRange, Cache!ForgetDisk, Cache!Crash
<1> QED BY <1>2, <1>3, <1>4, <1>5, <1>6, <1>7, ReplaceRenews DEF Cache!NextVfs

-----------------------------------------------------------------------------
\* The item part's invariant, in its own behaviours.
VfsInv == crew = {} /\ troupe = {} => cast # {} /\ (Unreplaced => Lone) /\ (Regrabbed => Renewed)

LEMMA VfsStarts ==
  ASSUME Cache!InitVfs
  PROVE  (Unreplaced => Lone) /\ Renewed
<1>1. /\ posted = 1 /\ items = <<>> /\ slot = 0 /\ inodes = <<>> /\ path = 0 /\ side = Cache!NoSide
      /\ making = "none" /\ th = [t \in Cache!VThread |-> Cache!Out]
  BY DEF Cache!InitVfs
<1>2. Len(items) = 0 /\ Len(inodes) = 0 /\ Listing(items) /\ Listing(inodes)
  <2>1. items \in Seq({}) /\ inodes \in Seq({}) /\ Len(items) = 0 /\ Len(inodes) = 0 BY <1>1
  <2> QED BY <2>1 DEF Listing
<1>3. side.hash = 0 /\ side.rs = {} /\ DOMAIN side = {"hash", "rs"} BY <1>1 DEF Cache!NoSide
<1>4. \A t \in Cache!VThread : th[t].at = "out" /\ DOMAIN th[t] = {"at", "it", "hash", "rs"}
  BY <1>1 DEF Cache!Out
<1>5. Stock BY <1>1, <1>2, <1>3 DEF Stock
<1>6. Threads
  <2>1. DOMAIN th = Cache!VThread BY <1>1
  <2> QED BY <1>4, <2>1, LoadersAre DEF Threads
<1>7. Content BY <1>2 DEF Content
<1>8. First /\ Loading /\ Listed /\ Scribes BY <1>1, <1>2, <1>3, <1>4, LoadersAre DEF First, Loading, Listed, Scribes
<1>9. Sweeping BY <1>4, LoadersAre DEF Sweeping
<1>10. Releases /\ Apart /\ Behind BY <1>1, <1>2 DEF Releases, Apart, Behind
<1>11. Viewed /\ Afresh /\ Current BY <1>1, <1>2, <1>4, LoadersAre DEF Viewed, Afresh, Current
<1> QED BY <1>5, <1>6, <1>7, <1>8, <1>9, <1>10, <1>11 DEF Lone, Renewed

LEMMA VfsInvInit == MountInit => VfsInv
<1> SUFFICES ASSUME MountInit, crew = {}, troupe = {}
             PROVE  cast # {} /\ (Unreplaced => Lone) /\ (Regrabbed => Renewed)
  BY DEF VfsInv
<1>1. Cache!InitVfs
  BY ScenesAssumption DEF MountInit, Buffer!InitBuffer, Loads!InitDl
<1>2. cast # {} BY <1>1, ScenesAssumption DEF Cache!InitVfs
<1> QED BY <1>1, <1>2, VfsStarts

LEMMA VfsInvNext == VfsInv /\ [MountNext]_mountvars => VfsInv'
<1> SUFFICES ASSUME VfsInv, [MountNext]_mountvars, crew' = {}, troupe' = {}
             PROVE  cast' # {} /\ (Unreplaced' => Lone') /\ (Regrabbed' => Renewed')
  BY DEF VfsInv
<1>1. CASE InBuffer /\ Buffer!NextBuffer /\ UNCHANGED <<cvars, lvars>>
  <2>1. crew = {} /\ cast = {} /\ troupe = {} BY <1>1, CrewStays DEF InBuffer
  <2> QED BY <2>1 DEF VfsInv
<1>2. CASE InCache /\ Cache!NextVfs
  <2>1. cast' = cast BY <1>2, CastStays
  <2>2. Unreplaced' = Unreplaced /\ Regrabbed' = Regrabbed BY <2>1 DEF Unreplaced, Regrabbed, Cache!Janitor
  <2> QED BY <1>2, <2>1, <2>2, LoneNext, RenewedNext DEF VfsInv, InCache
<1>3. CASE InLoads /\ Loads!NextDl /\ UNCHANGED <<bvars, cvars>>
  <2>1. crew = {} /\ cast = {} /\ troupe = {} BY <1>3, TroupeStays DEF InLoads
  <2> QED BY <2>1 DEF VfsInv
<1>4. CASE UNCHANGED mountvars
  <2>1. UNCHANGED <<crew, troupe, cast, posted, items, slot, inodes, path, side, making, th>>
    BY <1>4 DEF mountvars, bvars, cvars, lvars
  <2>2. Unreplaced' = Unreplaced /\ Regrabbed' = Regrabbed BY <2>1 DEF Unreplaced, Regrabbed, Cache!Janitor
  <2>3. Lone => Lone'
    <3>1. Lone => Threads' /\ ThreadsCalm BY <2>1, RestCalm DEF Lone
    <3> QED BY <2>1, <3>1, AsideKeeps
  <2>4. Renewed => Renewed'
    <3>1. Renewed => Threads' /\ ThreadsCalm BY <2>1, RestCalm DEF Renewed
    <3> QED BY <2>1, <3>1, RenewedAside
  <2> QED BY <2>1, <2>2, <2>3, <2>4 DEF VfsInv
<1> QED BY <1>1, <1>2, <1>3, <1>4 DEF MountNext

\* For any number of sessions: a range a cache item lists reads as bytes of
\* its own release, never as another release's and never as a hole.  Viewers,
\* the pre-cache, one janitor and a crash anywhere keep it while the name
\* keeps its release; a re-grab under viewers keeps it once the sidecar is
\* written (cache.go, loadSidecar, newItem, cleanupItems and retireItem).
THEOREM CachedBytesAreOwn == MountSpec => [](Unreplaced \/ Regrabbed => BytesAreOwn)
<1>1. VfsInv => (Unreplaced \/ Regrabbed => BytesAreOwn)
  <2> SUFFICES ASSUME VfsInv, Unreplaced \/ Regrabbed, InCache PROVE Cache!BytesAreOwn
    BY DEF BytesAreOwn
  <2>1. Stock /\ Content BY DEF VfsInv, InCache, Lone, Renewed
  <2>2. DOMAIN items = 1 .. Len(items) BY <2>1 DEF Stock, Listing
  <2> QED BY <2>1, <2>2 DEF Cache!BytesAreOwn, Cache!Value, Content, Own
<1> QED BY <1>1, VfsInvInit, VfsInvNext, PTL DEF MountSpec
=============================================================================
