------------------------------ MODULE VfsCache ------------------------------
(***************************************************************************)
(* pkg/mount/dfs/vfs: the cache of one file name of the mount.  A cache    *)
(* item keeps its bytes in a buffer (RAM first, then the data file) and    *)
(* lists the ranges it has in a sidecar; viewers, the pre-cache writer,    *)
(* the janitor, EvictFile, PAR2's ForgetCachedRange, a re-grab that keeps  *)
(* the name, and crashes meet on them.                                     *)
(*                                                                         *)
(* A cell is a range of bytes.  A byte's value is <<release, kind>>; kind  *)
(* "pad" is zero-fill of a damaged cell 1, served until PAR2 mends it, and *)
(* Hole is what a sparse file reads back.                                  *)
(***************************************************************************)
EXTENDS Integers, Sequences, FiniteSets

CONSTANTS
  VfsScenes,  \* bound: who acts in one behaviour
  MaxOpens    \* bound: sessions of a lone viewer; of two viewers each has one

VARIABLES
  cast,     \* who acts; never changed.  "still": nobody creates an item
            \* between a janitor's scan and its removals, and no crash falls
            \* there.  "settled": a re-grab waits for the item's sidecar.
            \* "wide": the file has a second range.
            \* "alone": a range is forgotten while nothing is closed or removed
  posted,   \* release the name resolves to
  mended,   \* "no", "mended", "forgotten"
  items,    \* every CacheItem made, oldest first
  slot,     \* c.items[key]: index of the item, 0 if none
  files,    \* m.files[key]: item of the shared file entry, 0 if none
  inodes,   \* data files, also the unlinked ones items still have open
  path,     \* inode at the data path, 0 if none
  side,     \* the sidecar
  making,   \* who runs newItem in the createGroup
  th,       \* per thread: where it is
  left      \* crashes and sessions left

vfsvars == <<cast, posted, mended, items, slot, files, inodes, path, side, making, th, left>>

Range == IF "wide" \in cast THEN {1, 2} ELSE {1}
Hole == <<0, "hole">>
NoSide == [hash |-> 0, rs |-> {}]
Viewer == {"v1", "v2"}
Janitor == {"janitor", "evictfile"}
VThread == Viewer \cup Janitor \cup {"precache", "forget"}
Claimed == -1
Out == [at |-> "out", it |-> 0, hash |-> 0, rs |-> {}]
Live(i) == items[i].shut # "closed"

\* What the item's buffer reads at c.
Value(i, c) == IF c \in DOMAIN items[i].mem THEN items[i].mem[c] ELSE inodes[items[i].ino][c]

\* What the source of release r gives.
Source(r, c) == <<r, IF c = 1 /\ mended = "no" THEN "pad" ELSE "data">>

InitVfs ==
  /\ cast \in VfsScenes
  /\ posted = 1 /\ mended = "no" /\ items = <<>> /\ slot = 0 /\ files = 0
  /\ inodes = <<>> /\ path = 0 /\ side = NoSide /\ making = "none"
  /\ th = [t \in VThread |-> Out]
  /\ left = [x \in Viewer \cup {"crash"} |-> IF x = "v1" /\ "v2" \notin cast THEN MaxOpens ELSE 1]

disk == <<inodes, path, side>>
Go(t, at) == th' = [th EXCEPT ![t].at = at]
GoWith(t, at, i) == th' = [th EXCEPT ![t].at = at, ![t].it = i]

-----------------------------------------------------------------------------
(* The item's life: Open, Release, retireItem, Close.                      *)

\* retireItem: out of the map, no more sidecar, closed now if nobody has it.
Retired(i) ==
  [items EXCEPT ![i].retired = TRUE,
                ![i].opens = IF @ = 0 /\ ~items[i].retired THEN Claimed ELSE @,
                ![i].shut = IF items[i].opens = 0 /\ ~items[i].retired THEN "flush" ELSE @]
Retire(i) == items' = Retired(i) /\ slot' = IF slot = i /\ ~items[i].retired THEN 0 ELSE slot

\* Buffer.Flush: what is in RAM goes to the file the item has open.
OnFile(i) == [inodes EXCEPT ![items[i].ino] = [c \in Range |-> Value(i, c)]]
NoMem == [c \in {} |-> Hole]

\* The pool's LRU, or FlushAll before an unmount.
FlushBuffer(i) ==
  /\ Live(i) /\ items[i].mem # NoMem
  /\ inodes' = OnFile(i) /\ items' = [items EXCEPT ![i].mem = NoMem]
  /\ UNCHANGED <<cast, posted, mended, slot, files, path, side, making, th, left>>

\* flushMetadata of the meta writer.
FlushMetadata(i) ==
  /\ items[i].shut \in {"no", "flush"} /\ ~items[i].retired /\ items[i].dirty
  /\ side' = [hash |-> items[i].hash, rs |-> items[i].rs]
  /\ items' = [items EXCEPT ![i].dirty = FALSE]
  /\ UNCHANGED <<cast, posted, mended, slot, files, inodes, path, making, th, left>>

\* CacheItem.Close, its three writes in order.
CloseFlush(i) ==
  /\ items[i].shut = "flush"
  /\ inodes' = OnFile(i) /\ items' = [items EXCEPT ![i].mem = NoMem, ![i].shut = "meta"]
  /\ UNCHANGED <<cast, posted, mended, slot, files, path, side, making, th, left>>

CloseMeta(i) ==
  /\ items[i].shut = "meta"
  /\ side' = IF items[i].retired THEN side ELSE [hash |-> items[i].hash, rs |-> items[i].rs]
  /\ items' = [items EXCEPT ![i].shut = "buffer"]
  /\ UNCHANGED <<cast, posted, mended, slot, files, inodes, path, making, th, left>>

CloseBuffer(i) ==
  /\ items[i].shut = "buffer"
  /\ inodes' = OnFile(i) /\ items' = [items EXCEPT ![i].mem = NoMem, ![i].shut = "closed"]
  /\ UNCHANGED <<cast, posted, mended, slot, files, path, side, making, th, left>>

\* claimForClose: nobody has the item open.
Claimable(i) == items[i].opens = 0

-----------------------------------------------------------------------------
(* GetFile, GetItem and newItem.                                           *)

Want(v) ==
  /\ v \in cast \cap Viewer /\ th[v].at = "out" /\ left[v] > 0
  /\ Go(v, "file") /\ left' = [left EXCEPT ![v] = @ - 1]
  /\ UNCHANGED <<cast, posted, mended, items, slot, files, disk, making>>

\* A shared file entry is used if its item is still the name's.
GetFile(v) ==
  LET i == files
      current == ~items[i].retired /\ items[i].hash = posted
  IN  /\ th[v].at = "file"
      /\ IF i = 0 THEN Go(v, "item") /\ UNCHANGED <<items, slot, files>>
         ELSE IF current /\ items[i].opens >= 0
         THEN GoWith(v, "open", i) /\ items' = [items EXCEPT ![i].opens = @ + 1, ![i].dirty = TRUE] /\ UNCHANGED <<slot, files>>
         ELSE /\ IF current THEN UNCHANGED <<items, slot>> ELSE Retire(i)
              /\ files' = 0 /\ Go(v, "item")
      /\ UNCHANGED <<cast, posted, mended, disk, making, left>>

\* GetItem: the item of the map, if it was checked less than five seconds
\* ago or is the name's; else the createGroup.
GetItem(t) ==
  /\ th[t].at = "item"
  /\ \E recent \in BOOLEAN :
       IF slot = 0 \/ items[slot].opens < 0 THEN ~recent /\ Go(t, "create") /\ UNCHANGED <<items, slot>>
       ELSE IF recent \/ items[slot].hash = posted
       THEN GoWith(t, "bind", slot) /\ items' = [items EXCEPT ![slot].dirty = TRUE] /\ UNCHANGED slot
       ELSE Retire(slot) /\ Go(t, "create")
  /\ UNCHANGED <<cast, posted, mended, files, disk, making, left>>

Quiet ==
  "still" \in cast => /\ \A j \in Janitor : th[j].at \notin {"data", "meta"}
                     /\ th["evictfile"].at \notin {"delete", "closing"}

\* sidecarBelongsTo and loadSidecar.  (Mutant: any sidecar will do.)
BelongsAlways(hash) == TRUE
SidecarBelongsTo(hash) == side.hash \in {0, hash}

\* One at a time: somebody else's new item is taken, an item being torn down
\* is waited for, otherwise newItem starts with the sidecar.
Create(t) ==
  /\ th[t].at = "create" /\ making = "none" /\ Quiet
  /\ "alone" \in cast => th["forget"].at # "side"
  /\ slot # 0 => items[slot].opens >= 0
  /\ IF slot # 0
     THEN GoWith(t, "bind", slot) /\ UNCHANGED <<making, path>>
     ELSE /\ making' = t
          /\ th' = [th EXCEPT ![t] = [at |-> "load", it |-> 0, hash |-> posted,
                                      rs |-> IF SidecarBelongsTo(posted) THEN side.rs ELSE {}]]
          /\ path' = IF SidecarBelongsTo(posted) THEN path ELSE 0
  /\ UNCHANGED <<cast, posted, mended, items, slot, files, inodes, side, left>>

\* dropRangesNotOnDisk: what the data file has a hole for is not cached.  A
\* file that cannot be opened says nothing.
OnDisk(rs) == IF path = 0 THEN rs ELSE {c \in rs : inodes[path][c] # Hole}

\* The data file is opened, or made, and the item published.
NewItem(t) ==
  LET ino == IF path = 0 THEN Len(inodes) + 1 ELSE path
  IN  /\ th[t].at = "load"
      /\ path' = ino
      /\ inodes' = IF path = 0 THEN Append(inodes, [c \in Range |-> Hole]) ELSE inodes
      /\ items' = Append(items, [hash |-> th[t].hash, opens |-> 0, retired |-> FALSE, rs |-> OnDisk(th[t].rs),
                                 mem |-> NoMem, ino |-> ino, shut |-> "no", dirty |-> TRUE])
      /\ slot' = Len(items) + 1
      /\ making' = "none" /\ GoWith(t, "bind", Len(items) + 1)
      /\ UNCHANGED <<cast, posted, mended, files, side, left>>

\* LoadOrStore of the file entry and Open; a claimed item sends it round again.
Bind(v) ==
  LET i == IF files = 0 THEN th[v].it ELSE files
  IN  /\ v \in Viewer /\ th[v].at = "bind"
      /\ IF items[i].opens >= 0
         THEN /\ items' = [items EXCEPT ![i].opens = @ + 1, ![i].dirty = TRUE]
              /\ files' = i /\ GoWith(v, "open", i)
         ELSE files' = 0 /\ Go(v, "file") /\ UNCHANGED items
      /\ UNCHANGED <<cast, posted, mended, slot, disk, making, left>>

\* StreamingFile.Close and Release, then ReleaseFile.
Release(v) ==
  LET i == th[v].it
      last == items[i].opens = 1
  IN  /\ th[v].at = "open"
      /\ items' = [items EXCEPT ![i].opens = IF last /\ items[i].retired THEN Claimed ELSE @ - 1,
                                ![i].shut = IF last /\ items[i].retired THEN "flush" ELSE @]
      /\ Go(v, "leaving")
      /\ UNCHANGED <<cast, posted, mended, slot, files, disk, making, left>>

ReleaseFile(v) ==
  LET i == th[v].it
      shared == \E w \in Viewer \ {v} : th[w].at \in {"open", "leaving"} /\ th[w].it = i
  IN  /\ th[v].at = "leaving"
      /\ files' = IF files = i /\ ~shared THEN 0 ELSE files
      /\ th' = [th EXCEPT ![v] = Out]
      /\ UNCHANGED <<cast, posted, mended, items, slot, disk, making, left>>

\* WriteAtNoOverwrite of what an open handle made a downloader fetch.
Cached(i, c, value) ==
  items' = [items EXCEPT ![i].mem = IF c \in items[i].rs THEN @ ELSE [d \in DOMAIN @ \cup {c} |-> IF d = c THEN value ELSE @[d]],
                         ![i].rs = @ \cup {c}, ![i].dirty = TRUE]

Fetch(i, c) ==
  /\ items[i].opens > 0 /\ items[i].shut = "no" /\ c \notin items[i].rs
  /\ Cached(i, c, Source(items[i].hash, c))
  /\ UNCHANGED <<cast, posted, mended, slot, files, disk, making, th, left>>

\* WriteCachedRange: the pre-cache has bytes of the release the name has now,
\* and never opens the item it writes them to.
WantWrite ==
  /\ "precache" \in cast /\ th["precache"].at = "out"
  /\ Go("precache", "item")
  /\ UNCHANGED <<cast, posted, mended, items, slot, files, disk, making, left>>

WriteCachedRange(c) ==
  LET i == th["precache"].it
  IN  /\ th["precache"].at = "bind"
      /\ IF Live(i) THEN Cached(i, c, Source(posted, c)) ELSE UNCHANGED items
      /\ Go("precache", "done")
      /\ UNCHANGED <<cast, posted, mended, slot, files, disk, making, left>>

-----------------------------------------------------------------------------
(* The janitor (evict, PurgeCache) and EvictFile.                          *)

Idle ==
  /\ "still" \in cast => making = "none"
  /\ "alone" \in cast => th["forget"].at # "side"

\* cleanupItems claims an idle item; EvictFile refuses one it cannot claim.
Claim(j) ==
  /\ j \in cast \cap Janitor /\ th[j].at = "out" /\ Idle
  /\ IF slot # 0 /\ Claimable(slot)
     THEN items' = [items EXCEPT ![slot].opens = Claimed] /\ GoWith(j, "delete", slot)
     ELSE /\ UNCHANGED items
          /\ Go(j, IF j = "janitor" THEN "scan" ELSE IF slot = 0 THEN "data" ELSE "done")
  /\ UNCHANGED <<cast, posted, mended, slot, files, disk, making, left>>

\* items.Delete(key), whichever item is there by now, and Close.
Delete(j) ==
  /\ th[j].at = "delete" /\ slot' = 0
  /\ items' = [items EXCEPT ![th[j].it].shut = IF @ = "no" THEN "flush" ELSE @, ![th[j].it].retired = @ \/ j = "evictfile"]
  /\ Go(j, "closing")
  /\ UNCHANGED <<cast, posted, mended, files, disk, making, left>>

Closing(j) ==
  /\ th[j].at = "closing" /\ ~Live(th[j].it) /\ Idle
  /\ Go(j, IF j = "janitor" THEN "scan" ELSE "data")
  /\ UNCHANGED <<cast, posted, mended, items, slot, files, disk, making, left>>

\* scanDiskCandidates: a sidecar without data is removed at once, a file
\* whose item is in the map is no candidate; a candidate is kept while it is
\* not too old and the cache is under its limit.
Scan(j) ==
  /\ th[j].at = "scan" /\ Idle
  /\ IF slot # 0 \/ side = NoSide THEN Go(j, "done") /\ UNCHANGED side
     ELSE IF path = 0 THEN side' = NoSide /\ Go(j, "done")
     ELSE (\E kept \in BOOLEAN : Go(j, IF kept THEN "done" ELSE "data")) /\ UNCHANGED side
  /\ UNCHANGED <<cast, posted, mended, items, slot, files, inodes, path, making, left>>

\* evictCandidates and purgeCandidates: the data file, then the sidecar.
RemoveData(j) ==
  /\ th[j].at = "data" /\ path' = 0 /\ Go(j, "meta")
  /\ UNCHANGED <<cast, posted, mended, items, slot, files, inodes, side, making, left>>

RemoveMeta(j) ==
  /\ th[j].at = "meta" /\ side' = NoSide /\ Go(j, "done")
  /\ UNCHANGED <<cast, posted, mended, items, slot, files, inodes, path, making, left>>

-----------------------------------------------------------------------------
(* PAR2 mends cell 1 and has the mount forget what it cached of it.        *)

Mend ==
  /\ "forget" \in cast /\ mended = "no" /\ mended' = "mended" /\ Go("forget", "peek")
  /\ UNCHANGED <<cast, posted, items, slot, files, disk, making, left>>

\* PeekItem and ForgetRange, else forgetDiskRange, which reads the sidecar
ForgetRange ==
  /\ th["forget"].at = "peek"
  /\ "alone" \in cast => /\ making = "none"
                         /\ \A i \in DOMAIN items : items[i].shut \in {"no", "closed"}
                         /\ \A j \in Janitor : th[j].at \in {"out", "done"}
  /\ \E recent \in BOOLEAN :
       IF slot # 0 /\ items[slot].opens >= 0 /\ (recent \/ items[slot].hash = posted)
       THEN /\ ~recent
            /\ items' = [items EXCEPT ![slot].rs = @ \ {1}, ![slot].dirty = TRUE,
                                      ![slot].mem = [c \in DOMAIN @ \ {1} |-> @[c]]]
            /\ inodes' = [inodes EXCEPT ![items[slot].ino][1] = Hole]
            /\ Go("forget", "done") /\ mended' = "forgotten" /\ UNCHANGED slot
       ELSE /\ ~recent
            /\ IF slot # 0 /\ items[slot].opens >= 0 THEN Retire(slot) ELSE UNCHANGED <<items, slot>>
            /\ th' = [th EXCEPT !["forget"] = [Out EXCEPT !.at = "side", !.hash = side.hash, !.rs = side.rs]]
            /\ UNCHANGED <<inodes, mended>>
  /\ UNCHANGED <<cast, posted, files, path, side, making, left>>

\* and writes it back without the range.
ForgetDisk ==
  /\ th["forget"].at = "side"
  /\ side' = IF 1 \in th["forget"].rs THEN [hash |-> th["forget"].hash, rs |-> th["forget"].rs \ {1}] ELSE side

ForgetDiskRange ==
  /\ ForgetDisk
  /\ Go("forget", "done") /\ mended' = "forgotten"
  /\ UNCHANGED <<cast, posted, items, slot, files, inodes, path, making, left>>

-----------------------------------------------------------------------------
\* A re-grab replaces the release and keeps the name.
Replace ==
  /\ "replace" \in cast /\ posted = 1
  /\ "settled" \in cast => /\ making = "none"
                           /\ \A i \in DOMAIN items : Live(i) => side.hash = items[i].hash
  /\ posted' = 2
  /\ UNCHANGED <<cast, mended, items, slot, files, disk, making, th, left>>

\* The process ends anywhere: what was in RAM is gone.
Crash ==
  /\ "crash" \in cast /\ left["crash"] > 0 /\ Quiet
  /\ left' = [left EXCEPT !["crash"] = 0]
  /\ items' = <<>> /\ slot' = 0 /\ files' = 0 /\ making' = "none"
  /\ inodes' = IF path = 0 THEN <<>> ELSE <<inodes[path]>>
  /\ path' = IF path = 0 THEN 0 ELSE 1
  /\ th' = [t \in VThread |-> IF th[t].at = "done" THEN th[t] ELSE Out]
  /\ UNCHANGED <<cast, posted, mended, side>>

Serve(v) == GetFile(v) \/ Bind(v)
Lookup(t) == GetItem(t) \/ Create(t) \/ NewItem(t)
Sweep(j) == Delete(j) \/ Closing(j) \/ Scan(j) \/ RemoveData(j) \/ RemoveMeta(j)
CloseItem(i) == CloseFlush(i) \/ CloseMeta(i) \/ CloseBuffer(i)

NextVfs ==
  \/ \E v \in Viewer : Want(v) \/ Serve(v) \/ Release(v) \/ ReleaseFile(v)
  \/ \E t \in Viewer \cup {"precache"} : Lookup(t)
  \/ \E i \in DOMAIN items : FlushBuffer(i) \/ FlushMetadata(i) \/ CloseItem(i) \/ (\E c \in Range : Fetch(i, c))
  \/ WantWrite \/ (\E c \in Range : WriteCachedRange(c))
  \/ \E j \in Janitor : Claim(j) \/ Sweep(j)
  \/ Mend \/ ForgetRange \/ ForgetDiskRange \/ Replace \/ Crash

SpecVfs == InitVfs /\ [][NextVfs]_vfsvars

-----------------------------------------------------------------------------
(* Properties.                                                             *)

\* A range an item lists reads as bytes of that item's own release: never the
\* bytes of the release the name had before, and never a hole, whichever way
\* the data file and the sidecar came to be there.
BytesAreOwn == \A i \in DOMAIN items : Live(i) => \A c \in items[i].rs : Value(i, c)[1] = items[i].hash
=============================================================================
