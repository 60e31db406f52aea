------------------------------- MODULE MCVfs -------------------------------
(***************************************************************************)
(* The three parts of the mount's cache, checked side by side: a behaviour *)
(* is one of the block buffer, of a cache item's files, or of a cache      *)
(* item's downloaders; the variables of the other two stay at "off".       *)
(***************************************************************************)
EXTENDS Integers, Sequences, FiniteSets

CONSTANTS
  Cells, Per, MaxBlocks, Budget, DiskLimit, BackWindow, BufScenes,
  VfsScenes, MaxOpens,
  Chunks, Ahead, Window, MaxErr, Attempts, Slots, Reads, DlScenes

ASSUME BufferAssumption == Cells \in Nat /\ BackWindow \in Nat

\* Somebody acts in every behaviour, which tells the parts apart.
ASSUME ScenesAssumption == {} \notin BufScenes /\ {} \notin VfsScenes /\ {} \notin DlScenes

VARIABLES
  crew, file, blocks, lru, ranges, onDisk, state, head, mem, others, disk, closed, mu, op,
  cast, posted, mended, items, slot, files, inodes, path, side, making, th, left,
  troupe, have, rd, dl, sh, spent

Buffer == INSTANCE BlockBuffer
Cache == INSTANCE VfsCache
Loads == INSTANCE VfsDownload

bvars == <<crew, file, blocks, lru, ranges, onDisk, state, head, mem, others, disk, closed, mu, op>>
cvars == <<cast, posted, mended, items, slot, files, inodes, path, side, making, th, left>>
lvars == <<troupe, have, rd, dl, sh, spent>>
mountvars == <<bvars, cvars, lvars>>

BufferOff ==
  /\ crew = {} /\ file = "off" /\ blocks = "off" /\ lru = "off" /\ ranges = "off" /\ onDisk = "off" /\ state = "off"
  /\ head = "off" /\ mem = "off" /\ others = "off" /\ disk = "off" /\ closed = "off" /\ mu = "off" /\ op = "off"
CacheOff ==
  /\ cast = {} /\ posted = "off" /\ mended = "off" /\ items = "off" /\ slot = "off" /\ files = "off"
  /\ inodes = "off" /\ path = "off" /\ side = "off" /\ making = "off" /\ th = "off" /\ left = "off"
LoadsOff == troupe = {} /\ have = "off" /\ rd = "off" /\ dl = "off" /\ sh = "off" /\ spent = "off"

InBuffer == cast = {} /\ troupe = {}
InCache == crew = {} /\ troupe = {}
InLoads == crew = {} /\ cast = {}

MountInit ==
  \/ Buffer!InitBuffer /\ CacheOff /\ LoadsOff
  \/ Cache!InitVfs /\ BufferOff /\ LoadsOff
  \/ Loads!InitDl /\ BufferOff /\ CacheOff

MountNext ==
  \/ InBuffer /\ Buffer!NextBuffer /\ UNCHANGED <<cvars, lvars>>
  \/ InCache /\ Cache!NextVfs /\ UNCHANGED <<bvars, lvars>>
  \/ InLoads /\ Loads!NextDl /\ UNCHANGED <<bvars, cvars>>

\* The fairness of VfsDownload, in its own behaviours.
MountFairness ==
  /\ \A r \in {"r1", "r2"} : WF_mountvars(InLoads /\ Loads!Ask(r) /\ UNCHANGED <<bvars, cvars>>)
  /\ \A s \in 1 .. Slots : WF_mountvars(InLoads /\ Loads!Downloader(s) /\ UNCHANGED <<bvars, cvars>>)
  /\ WF_mountvars(InLoads /\ Loads!KickerEnds /\ UNCHANGED <<bvars, cvars>>)
  /\ WF_mountvars(InLoads /\ Loads!Stopping /\ UNCHANGED <<bvars, cvars>>)
  /\ WF_mountvars(InLoads /\ Loads!CloseEnds /\ UNCHANGED <<bvars, cvars>>)

MountSpec == MountInit /\ [][MountNext]_mountvars /\ MountFairness

\* ReadAt never hands out the zeros of a hole or what a reused block held
\* (buffer.go, the fast path beside the pool's backstop).
ReadIsTrue == InBuffer => Buffer!ReadIsTrue

\* A range a cache item lists reads as bytes of its own release, never as
\* another release's or as a hole (cache.go, loadSidecar and newItem).
BytesAreOwn == InCache => Cache!BytesAreOwn

\* A read comes back, whatever ends the downloaders it waits for, also when
\* the kicker was lost (downloaders.go).  The reads of a behaviour are few: it
\* is enough that in the end nobody is on the way.
ReadReturns ==
  <>[](InLoads => \A r \in {"r1", "r2"} : rd[r].at \notin {"ask", "wait"})
=============================================================================
