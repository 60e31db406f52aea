---------------------------- MODULE ReleaseReader ---------------------------
(***************************************************************************)
(* The shared reader of one stored file (pkg/usenet/usenet.go: fsEntry,    *)
(* getOrCreateEntry, Stream, cleanupIdleFS, Delete) and the in-place       *)
(* reordering of its archive volumes (pkg/manager/volume_reorder.go,       *)
(* volume_order.go).  The record holds the file's volumes in stored order; *)
(* a reader is built from the record once, serves every stream of the      *)
(* file, and is torn down when nobody holds it.                            *)
(***************************************************************************)
EXTENDS Integers, Sequences, FiniteSets

CONSTANTS N,            \* volumes of the file
          Streams,      \* concurrent clients
          Direct,       \* the streams that come by WebDAV, not through the mount
          MaxReaders,   \* readers built
          MaxReorders, MaxDeletes

VARIABLES
  record,    \* the stored volume order, <<>> when the record is deleted
  facts,     \* what is true of the posting, fixed
  slot,      \* u.fs[key]: a reader, 0 for none
  readers,   \* the readers built so far: [refs, gone, layout, closed]
  st,        \* per stream: [pc, rd, layout]
  handle,    \* the streams whose mount handle is open
  cached,    \* the orders whose bytes the mount's cache holds
  hand,      \* per tearing-down actor: the reader it claimed, 0 for none
  re,        \* the reorder in progress: [pc, seen, new, backup, warned, undone]
  del,       \* Delete in progress
  blind,     \* an open that read an older record was in flight when it changed
  reorders, deletes
rvars == <<record, facts, slot, readers, st, handle, cached, hand, re, del, blind, reorders, deletes>>

Tomb == -1073741824   \* fsEntryTombstone, -2^30
Volumes == 1..N
Orders == {o \in [Volumes -> Volumes] : Cardinality({o[i] : i \in Volumes}) = N}
Names == {[i \in Volumes |-> i], [i \in Volumes |-> N + 1 - i],
          [i \in Volumes |-> IF i = 1 THEN 1 ELSE N + 2 - i]}   \* numbers in the posted names
Actors == {"janitor", "reorder", "delete"}
NoStream == [pc |-> "idle", rd |-> 0, layout |-> <<>>]
NoReorder == [pc |-> "idle", seen |-> <<>>, new |-> <<>>, backup |-> <<>>, warned |-> FALSE, undone |-> FALSE]

\* The facts of a posting: where the volumes' numbers come from and what they
\* say, which volumes start a Cluster early, whether the last volume is
\* shorter, whether the release has overlay records.
InitReader ==
  /\ record \in Orders
  /\ facts \in [source : {"header", "name", "first"}, name : Names, shows : {Volumes, Volumes \ {2}},
                short : BOOLEAN, overlay : BOOLEAN]
  /\ facts.source = "name" <=> facts.name # [i \in Volumes |-> i]
  /\ facts.source = "name" => ~facts.short
  /\ facts.overlay \/ facts.source = "first" => facts.source # "name" /\ facts.short /\ facts.shows = Volumes
  /\ slot = 0 /\ readers = <<>> /\ st = [s \in Streams |-> NoStream] /\ handle = {} /\ cached = {}
  /\ hand = [a \in Actors |-> 0] /\ re = NoReorder /\ del = "idle" /\ blind = FALSE /\ reorders = 0 /\ deletes = 0

(* ------------------------------- streams -------------------------------- *)

\* The mount opens and closes a file around its reads.
MountOpen(s) ==
  /\ s \notin Direct /\ s \notin handle
  /\ handle' = handle \cup {s}
  /\ UNCHANGED <<record, facts, slot, readers, st, cached, hand, re, del, blind, reorders, deletes>>

MountClose(s) ==
  /\ s \in handle /\ st[s].pc = "idle"
  /\ handle' = handle \ {s}
  /\ UNCHANGED <<record, facts, slot, readers, st, cached, hand, re, del, blind, reorders, deletes>>

MayRead(s) == st[s].pc = "idle" /\ (s \in Direct \/ s \in handle)
Alive(e) == readers[e].refs >= 0

\* acquire: a reference, unless the reader is claimed for teardown.
Acquire(e) == readers' = [readers EXCEPT ![e].refs = @ + 1]

\* getOrCreateEntry, a warm reader: refused when Delete marked it.
OpenWarm(s) ==
  /\ MayRead(s) /\ slot # 0 /\ ~readers[slot].gone /\ Alive(slot)
  /\ Acquire(slot)
  /\ st' = [st EXCEPT ![s] = [pc |-> "stream", rd |-> slot, layout |-> <<>>]]
  /\ UNCHANGED <<record, facts, slot, handle, cached, hand, re, del, blind, reorders, deletes>>

\* No warm reader: getFile reads the record a new one is built from.
OpenCold(s) ==
  /\ MayRead(s) /\ record # <<>>
  /\ IF slot = 0 THEN TRUE ELSE ~readers[slot].gone /\ ~Alive(slot)
  /\ st' = [st EXCEPT ![s] = [pc |-> "build", rd |-> 0, layout |-> record]]
  /\ UNCHANGED <<record, facts, slot, readers, handle, cached, hand, re, del, blind, reorders, deletes>>

\* LoadOrStore: the new reader is published, or one published meanwhile is
\* taken; a claimed one is waited for.
Publish(s) ==
  /\ st[s].pc = "build"
  /\ \/ /\ slot = 0 /\ Len(readers) < MaxReaders
        /\ readers' = Append(readers, [refs |-> 1, gone |-> FALSE, layout |-> st[s].layout, closed |-> FALSE])
        /\ slot' = Len(readers')
     \/ /\ slot # 0 /\ Alive(slot) /\ Acquire(slot) /\ UNCHANGED slot
  /\ st' = [st EXCEPT ![s] = [pc |-> "stream", rd |-> slot', layout |-> <<>>]]
  /\ UNCHANGED <<record, facts, handle, cached, hand, re, del, blind, reorders, deletes>>

\* The caller gives up while it waits, or has no reader to build any more.
OpenCancelled(s) ==
  /\ st[s].pc = "build"
  /\ st' = [st EXCEPT ![s] = NoStream]
  /\ UNCHANGED <<record, facts, slot, readers, handle, cached, hand, re, del, blind, reorders, deletes>>

\* Stream reads through the shared reader; the mount keeps the bytes it is
\* handed.
Read(s) ==
  /\ st[s].pc = "stream"
  /\ s \notin Direct
  /\ cached' = cached \cup {readers[st[s].rd].layout}
  /\ UNCHANGED <<record, facts, slot, readers, st, handle, hand, re, del, blind, reorders, deletes>>

\* releaseFS gives back the reference of the reader the key names now.
releaseFS(s) ==
  /\ st[s].pc = "stream"
  /\ readers' = IF slot = 0 THEN readers ELSE [readers EXCEPT ![slot].refs = @ - 1]
  /\ st' = [st EXCEPT ![s] = NoStream]
  /\ UNCHANGED <<record, facts, slot, handle, cached, hand, re, del, blind, reorders, deletes>>

(* ------------------------------- teardown ------------------------------- *)

\* claimForCleanup: an idle reader is fenced off from any later acquire.
ClaimBlindly(e) == TRUE
Claimable(e) == readers[e].refs = 0
Claim(a, gone) ==
  /\ readers' = [readers EXCEPT ![slot].refs = Tomb, ![slot].gone = @ \/ gone]
  /\ hand' = [hand EXCEPT ![a] = slot]

\* cleanupIdleFS and EvictCache claim a reader nobody holds.
IdleClaim ==
  /\ slot # 0 /\ hand["janitor"] = 0 /\ Claimable(slot) /\ Claim("janitor", FALSE)
  /\ UNCHANGED <<record, facts, slot, st, handle, cached, re, del, blind, reorders, deletes>>

\* The claimed reader leaves the map, and is closed after that.
Remove(a) ==
  /\ hand[a] # 0 /\ ~readers[hand[a]].closed
  /\ slot' = IF slot = hand[a] THEN 0 ELSE slot
  /\ readers' = [readers EXCEPT ![hand[a]].closed = TRUE]
  /\ UNCHANGED <<record, facts, st, handle, cached, hand, re, del, blind, reorders, deletes>>

Cleaned(a) ==
  /\ hand[a] # 0 /\ readers[hand[a]].closed
  /\ hand' = [hand EXCEPT ![a] = 0]
  /\ UNCHANGED <<record, facts, slot, readers, st, handle, cached, re, del, blind, reorders, deletes>>

(* -------------------------------- delete -------------------------------- *)

Building == \E s \in Streams : st[s].pc = "build"

\* Delete removes the record first.
DeleteRecord ==
  /\ del = "idle" /\ record # <<>> /\ deletes < MaxDeletes
  /\ record' = <<>> /\ del' = "retire" /\ deletes' = deletes + 1
  /\ blind' = (blind \/ Building)
  /\ UNCHANGED <<facts, slot, readers, st, handle, cached, hand, re, reorders>>

\* retireReaders: an open reader is marked gone, an idle one torn down too.
RetireReaders ==
  /\ del = "retire" /\ hand["delete"] = 0
  /\ del' = "deleted"
  /\ IF slot = 0 THEN UNCHANGED <<readers, hand>>
     ELSE IF Claimable(slot) THEN Claim("delete", TRUE)
     ELSE readers' = [readers EXCEPT ![slot].gone = TRUE] /\ UNCHANGED hand
  /\ UNCHANGED <<record, facts, slot, st, handle, cached, re, blind, reorders, deletes>>

\* The same release is added again (reviveNZB): gone readers nobody holds are
\* torn down.
Revive ==
  /\ del = "deleted" /\ hand["delete"] = 0
  /\ del' = "idle" /\ record' \in {[i \in Volumes |-> i]}
  /\ IF slot # 0 /\ readers[slot].gone /\ Claimable(slot) THEN Claim("delete", TRUE) ELSE UNCHANGED <<readers, hand>>
  /\ UNCHANGED <<facts, slot, st, handle, cached, re, blind, reorders, deletes>>

(* ---------------------------- volume reorder ---------------------------- *)

\* checkFileVolumeOrder: the number of each stored volume, by the source.
Numbers(o) == CASE facts.source = "header" -> o
                [] facts.source = "name" -> [i \in Volumes |-> facts.name[o[i]]]
                [] OTHER -> [i \in Volumes |-> IF o[i] = 1 THEN 1 ELSE 2]
Misordered(o) == \E i \in 1..N-1 : Numbers(o)[i + 1] < Numbers(o)[i]

\* volumeReorder: the stored volumes sorted by number; a source that only
\* knows the first volume gives no full order.
volumeReorder(o) ==
  IF facts.source = "first" THEN {}
  ELSE {n \in Orders : /\ \A i \in Volumes : \E j \in Volumes : n[i] = o[j]
                       /\ \A i, j \in Volumes : i < j => Numbers(n)[i] < Numbers(n)[j]}

\* applyVolumeOrder: volumes that trade places have the same layout.
applyVolumeOrder(o, n) == \A i \in Volumes : o[i] # n[i] => ~facts.short \/ (o[i] # N /\ n[i] # N)

\* confirmOrderByContent: from one volume before the first that moves to one
\* after the last, Cluster times increase, and every volume that moves shows
\* one.
confirmOrderByContent(o, n) ==
  LET moved == {i \in Volumes : o[i] # n[i]}
      window == {k \in Volumes : \E i, j \in moved : k + 1 >= i /\ k <= j + 1}
  IN /\ \A i \in moved : n[i] \in facts.shows
     /\ \A i, j \in window : i < j /\ n[i] \in facts.shows /\ n[j] \in facts.shows => n[i] < n[j]

\* reorderFileVolumes up to its first change: refused, or the new order.
ReorderStart ==
  /\ re.pc = "idle" /\ record # <<>> /\ ~facts.overlay /\ Misordered(record) /\ reorders < MaxReorders
  /\ \E n \in volumeReorder(record) :
       /\ n # record /\ applyVolumeOrder(record, n) /\ confirmOrderByContent(record, n)
       /\ re' = [pc |-> "drop", seen |-> record, new |-> n, backup |-> <<>>, warned |-> FALSE, undone |-> FALSE]
  /\ reorders' = reorders + 1
  /\ UNCHANGED <<record, facts, slot, readers, st, handle, cached, hand, del, blind, deletes>>

\* DropIdleReader: true when no reader is open or an idle one was claimed.
DropReader(next, busy) ==
  /\ hand["reorder"] = 0
  /\ \/ slot = 0 /\ re' = [re EXCEPT !.pc = next] /\ UNCHANGED <<readers, hand>>
     \/ slot # 0 /\ Claimable(slot) /\ Claim("reorder", FALSE) /\ re' = [re EXCEPT !.pc = next]
     \/ slot # 0 /\ ~Claimable(slot) /\ re' = busy /\ UNCHANGED <<readers, hand>>

\* EvictCachedFile: the mount's copy goes unless a handle is open.
EvictCached(next, busy) ==
  /\ hand["reorder"] = 0
  /\ IF handle = {} THEN cached' = {} /\ re' = next ELSE re' = busy /\ UNCHANGED cached

Drop ==
  /\ re.pc = "drop" /\ DropReader("evict", NoReorder)
  /\ UNCHANGED <<record, facts, slot, st, handle, cached, del, blind, reorders, deletes>>

Evict ==
  /\ re.pc = "evict" /\ EvictCached([re EXCEPT !.pc = "write"], NoReorder)
  /\ UNCHANGED <<record, facts, slot, readers, st, handle, hand, del, blind, reorders, deletes>>

\* ReorderFileSegments: only over the layout the order was worked out for.
Write ==
  /\ re.pc = "write"
  /\ IF record = re.seen
       THEN /\ record' = re.new /\ re' = [re EXCEPT !.pc = "verify", !.backup = record]
            /\ blind' = (blind \/ Building)
       ELSE re' = NoReorder /\ UNCHANGED <<record, blind>>
  /\ UNCHANGED <<facts, slot, readers, st, handle, cached, hand, del, reorders, deletes>>

\* verifyReordered reads the record back; a record it cannot check is put back
\* from the backup.
Verify ==
  /\ re.pc = "verify"
  /\ \/ record # <<>> /\ ~Misordered(record) /\ re' = [re EXCEPT !.pc = "drop2"] /\ UNCHANGED <<record, blind>>
     \/ IF record # <<>>
          THEN /\ record' = re.backup /\ re' = [re EXCEPT !.pc = "drop2", !.undone = TRUE]
               /\ blind' = (blind \/ Building)
          ELSE re' = NoReorder /\ UNCHANGED <<record, blind>>
  /\ UNCHANGED <<facts, slot, readers, st, handle, cached, hand, del, reorders, deletes>>

\* What a reader opened in between holds is dropped again, or warned about;
\* after an undone reorder a busy file is left without a word.
DropAgain ==
  /\ re.pc = "drop2" /\ DropReader("evict2", [re EXCEPT !.pc = "done", !.warned = ~re.undone])
  /\ UNCHANGED <<record, facts, slot, st, handle, cached, del, blind, reorders, deletes>>
EvictAgain ==
  /\ re.pc = "evict2" /\ EvictCached([re EXCEPT !.pc = "done"], [re EXCEPT !.pc = "done", !.warned = ~re.undone])
  /\ UNCHANGED <<record, facts, slot, readers, st, handle, hand, del, blind, reorders, deletes>>

\* reorderMisordered and autoReorderResults go on to the next file.
ReorderReturns ==
  /\ re.pc = "done" /\ re' = NoReorder
  /\ UNCHANGED <<record, facts, slot, readers, st, handle, cached, hand, del, blind, reorders, deletes>>

NextReader ==
  \/ \E s \in Streams : MountOpen(s) \/ MountClose(s) \/ OpenWarm(s) \/ OpenCold(s) \/ Publish(s)
                        \/ OpenCancelled(s) \/ Read(s) \/ releaseFS(s)
  \/ \E a \in Actors : Remove(a) \/ Cleaned(a)
  \/ IdleClaim \/ DeleteRecord \/ RetireReaders \/ Revive
  \/ ReorderStart \/ Drop \/ Evict \/ Write \/ Verify \/ DropAgain \/ EvictAgain \/ ReorderReturns

(* ------------------------------ properties ------------------------------ *)

\* A stream's reader stays open under it, and the references of the reader
\* the key names are exactly the streams on it (fsEntry, acquire and
\* claimForCleanup; releaseFS goes by key and not by reader).
StreamIsServed ==
  \A s \in Streams : st[s].pc = "stream" =>
    /\ slot = st[s].rd /\ ~readers[slot].closed
    /\ readers[slot].refs = Cardinality({t \in Streams : st[t].pc = "stream"})
=============================================================================
