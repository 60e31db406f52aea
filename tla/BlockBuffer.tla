---------------------------- MODULE BlockBuffer ----------------------------
(***************************************************************************)
(* internal/buffer: a byte buffer kept partly in RAM blocks and partly in  *)
(* a sparse data file, with its pool's budgets.  A cell is a run of bytes  *)
(* written or dropped as one; Per of them make a block.  The content of a  *)
(* cell never changes: "data" is what was written, "hole" what a sparse    *)
(* file reads back as zeros, "junk" what a reused block still holds.       *)
(*                                                                         *)
(* b.mu is held over several steps only by a write that evicts; reads      *)
(* under the read lock, and everything else under the lock, are one step.  *)
(* What happens outside the lock (the fast read, the write-through, the    *)
(* punch) is a step of its own.                                            *)
(***************************************************************************)
EXTENDS Integers, FiniteSets, Sequences

CONSTANTS
  Cells,      \* bound: the buffer has cells 1 .. Cells
  Per,        \* cells in a block
  MaxBlocks,  \* Config.MemorySize, in blocks
  Budget,     \* PoolConfig.MemoryBudget, in blocks
  DiskLimit,  \* PoolConfig.DiskLimit, in cells
  BackWindow, \* PoolConfig.BackWindow, in cells
  BufScenes   \* bound: who acts in one behaviour

VARIABLES
  crew,     \* who acts; never changed.  "sized": the total size is known, so
            \* there is a fast path.  "forward": the reader never seeks back
  file,     \* content of the data file
  blocks,   \* resident blocks: their content and their dirty cells
  lru,      \* resident blocks, most recent first
  ranges,   \* cells present anywhere
  onDisk,   \* cells written to the file
  state,    \* per block: may a read go to the file without the lock
  head,     \* readHead
  mem,      \* pool: blocks resident in this buffer, as memInUse counts them
  others,   \* pool: blocks of other buffers
  disk,     \* pool: diskInUse of this buffer
  closed,   \* "open", "closing" or "closed"
  mu,       \* holder of b.mu over several steps
  op        \* per thread: what it does

content == <<file, blocks, lru, ranges, onDisk, state>>
counts == <<mem, others, disk>>
bufvars == <<crew, content, head, counts, closed, mu, op>>

Cell == 1 .. Cells
BlockOf(c) == (c - 1) \div Per
Block == {BlockOf(c) : c \in Cell}
CellsOf(b) == {c \in Cell : BlockOf(c) = b}
Run == {lo .. hi : lo, hi \in Cell} \ {{}}
Resident == DOMAIN blocks
OpThread == {"writer", "second", "reader", "discarder"}
Low(S) == CHOOSE c \in S : \A d \in S : c <= d
High(S) == CHOOSE c \in S : \A d \in S : d <= c
NoOp == [at |-> "idle", S |-> {}, got |-> "none"]
At(t, place) == op' = [op EXCEPT ![t].at = place]
Done(t, got) == op' = [op EXCEPT ![t] = [NoOp EXCEPT !.got = got]]

InitBuffer ==
  /\ crew \in BufScenes
  /\ file = [c \in Cell |-> "hole"] /\ blocks = [b \in {} |-> 0] /\ lru = <<>>
  /\ ranges = {} /\ onDisk = {} /\ state = [b \in Block |-> "slow"] /\ head = 0
  /\ mem = 0 /\ others = 0 /\ disk = 0 /\ closed = "open" /\ mu = "free"
  /\ op = [t \in OpThread |-> NoOp]

-----------------------------------------------------------------------------
(* The parts every operation is made of.                                   *)

WouldExceedMemory == mem + others + 1 > Budget

\* markStateForBlockLocked for every block, given what is resident and present.
StateWith(res, present) ==
  [b \in Block |-> IF b \notin res /\ CellsOf(b) \subseteq present /\ "sized" \in crew THEN "fast" ELSE "slow"]

Without(B) == [b \in Resident \ B |-> blocks[b]]

\* flushBlockLocked: only the dirty cells are written.
Flushed(B) ==
  [c \in Cell |-> IF BlockOf(c) \in Resident \cap B /\ c \in blocks[BlockOf(c)].dirty
                  THEN blocks[BlockOf(c)].data[c] ELSE file[c]]
DirtyOf(B) == UNION {blocks[b].dirty : b \in Resident \cap B}

\* rangesInsert and rangesRemove keep the pool's count of bytes on disk.
Present(new) ==
  /\ ranges' = new
  /\ disk' = disk + Cardinality(new \ ranges) - Cardinality(ranges \ new)

\* writeIntoBlockLocked.
Put(blk, S) == [data |-> [c \in DOMAIN blk.data |-> IF c \in S THEN "data" ELSE blk.data[c]], dirty |-> blk.dirty \cup S]
Front(b) == <<b>> \o SelectSeq(lru, LAMBDA x : x # b)

\* A write-through that finds its block resident by now writes there too.
\* (Mutant of it: the block keeps what it held.)
NotedBeside(b, S) == blocks
NotedInBlock(b, S) == [blocks EXCEPT ![b] = Put(@, S)]

-----------------------------------------------------------------------------
(* WriteAt, one block's region at a time.                                  *)

Write(t, S) ==
  /\ t \in crew \cap {"writer", "second"} /\ op[t].at = "idle" /\ op[t].got = "none"
  /\ \A c, d \in S : BlockOf(c) = BlockOf(d)
  /\ op["discarder"].at = "idle" \/ op["discarder"].got = "pool"
  /\ IF closed # "open" THEN Done(t, "closed")
     ELSE op' = [op EXCEPT ![t] = [NoOp EXCEPT !.at = "probe", !.S = S]]
  /\ UNCHANGED <<crew, content, head, counts, closed, mu>>

\* Under the read lock: is the block resident, or is there room for it.
ProbeRoom(t) ==
  LET b == BlockOf(CHOOSE c \in op[t].S : TRUE)
  IN  /\ op[t].at = "probe" /\ mu = "free"
      /\ At(t, IF b \in Resident \/ (Cardinality(Resident) < MaxBlocks /\ ~WouldExceedMemory) THEN "cached" ELSE "through")
      /\ UNCHANGED <<crew, content, head, counts, closed, mu>>

\* The clean block nearest the tail, else the tail.
Victim ==
  LET clean == {i \in DOMAIN lru : blocks[lru[i]].dirty = {}}
  IN  IF clean = {} THEN lru[Len(lru)] ELSE lru[CHOOSE i \in clean : \A j \in clean : j <= i]

\* acquireBlockLocked, its loop: make room, one block at a time.
Evict(t) ==
  LET b == Victim
      S == op[t].S
  IN  /\ op[t].at = "cached" /\ mu \in {"free", t} /\ closed = "open"
      /\ BlockOf(CHOOSE c \in S : TRUE) \notin Resident
      /\ Resident # {} /\ (Cardinality(Resident) >= MaxBlocks \/ WouldExceedMemory)
      /\ file' = Flushed({b}) /\ onDisk' = onDisk \cup DirtyOf({b})
      /\ blocks' = Without({b}) /\ lru' = SelectSeq(lru, LAMBDA x : x # b)
      /\ mem' = mem - 1 /\ state' = StateWith(Resident \ {b}, ranges)
      /\ mu' = t
      /\ UNCHANGED <<crew, ranges, head, others, disk, closed, op>>

\* The rest of acquireBlockLocked, and the copy into the block.  A block
\* with nothing present starts with whatever its memory held.
WriteCached(t) ==
  LET S == op[t].S
      b == BlockOf(CHOOSE c \in S : TRUE)
      loaded == [data |-> [c \in CellsOf(b) |-> IF CellsOf(b) \cap ranges # {} THEN file[c] ELSE "junk"], dirty |-> {}]
      blk == IF b \in Resident THEN blocks[b] ELSE loaded
  IN  /\ op[t].at = "cached" /\ mu \in {"free", t}
      /\ mu' = "free"
      /\ IF closed # "open"
         THEN Done(t, "closed") /\ UNCHANGED <<content, mem, disk>>
         ELSE /\ b \in Resident \/ Resident = {} \/ ~(Cardinality(Resident) >= MaxBlocks \/ WouldExceedMemory)
              /\ blocks' = [x \in Resident \cup {b} |-> IF x = b THEN Put(blk, S) ELSE blocks[x]]
              /\ lru' = Front(b)
              /\ mem' = IF b \in Resident THEN mem ELSE mem + 1
              /\ Present(ranges \cup S)
              /\ state' = [state EXCEPT ![b] = "slow"]
              /\ Done(t, "ok")
              /\ UNCHANGED <<file, onDisk>>
      /\ UNCHANGED <<crew, head, others, closed>>

\* Write-through: the file is written without the lock,
WriteThrough(t) ==
  /\ op[t].at = "through"
  /\ file' = [c \in Cell |-> IF c \in op[t].S THEN "data" ELSE file[c]]
  /\ At(t, "note")
  /\ UNCHANGED <<crew, blocks, lru, ranges, onDisk, state, head, counts, closed, mu>>

\* and what was written is noted under it.
Note(t) ==
  LET S == op[t].S
      b == BlockOf(CHOOSE c \in S : TRUE)
  IN  /\ op[t].at = "note" /\ mu = "free"
      /\ IF closed # "open" THEN Done(t, "closed") /\ UNCHANGED <<content, disk>>
         ELSE /\ onDisk' = onDisk \cup S
              /\ Present(ranges \cup S)
              /\ Done(t, "ok")
              /\ IF b \in Resident
                 THEN blocks' = NotedInBlock(b, S) /\ lru' = Front(b) /\ state' = [state EXCEPT ![b] = "slow"]
                 ELSE state' = StateWith(Resident, ranges \cup S) /\ UNCHANGED <<blocks, lru>>
              /\ UNCHANGED file
      /\ UNCHANGED <<crew, head, mem, others, closed, mu>>

-----------------------------------------------------------------------------
(* ReadAt.                                                                 *)

\* The caller publishes its position first, and keeps its own discards away.
Read(S) ==
  /\ "reader" \in crew /\ op["reader"].at = "idle" /\ (op["discarder"].at = "idle" \/ op["discarder"].got = "pool")
  /\ "forward" \in crew => Low(S) >= head
  /\ head' = Low(S)
  /\ IF closed # "open" THEN Done("reader", "closed")
     ELSE op' = [op EXCEPT !["reader"] = [at |-> IF \A c \in S : state[BlockOf(c)] = "fast" THEN "fast" ELSE "slow",
                                          S |-> S, got |-> "none"]]
  /\ UNCHANGED <<crew, content, counts, closed, mu>>

\* Every block is on disk as a whole: a bare read of the file.  The state
\* was loaded in the step before and is not looked at again.
ReadFast ==
  LET S == op["reader"].S
  IN  /\ op["reader"].at = "fast"
      /\ Done("reader", IF closed = "closed" THEN "error" ELSE IF \A c \in S : file[c] = "data" THEN "ok" ELSE "zeros")
      /\ head' = High(S) + 1
      /\ UNCHANGED <<crew, content, counts, closed, mu>>

ReadSlow ==
  LET S == op["reader"].S
      Value(c) == IF BlockOf(c) \in Resident THEN blocks[BlockOf(c)].data[c] ELSE file[c]
  IN  /\ op["reader"].at = "slow" /\ mu = "free"
      /\ Done("reader", IF ~(S \subseteq ranges) THEN "absent" ELSE IF \A c \in S : Value(c) = "data" THEN "ok" ELSE "zeros")
      /\ head' = IF S \subseteq ranges THEN High(S) + 1 ELSE head
      /\ UNCHANGED <<crew, content, counts, closed, mu>>

-----------------------------------------------------------------------------
(* Discard, by a caller or by the pool's reclaimDisk behind the read head. *)

\* A caller never discards what it is reading or writing.
Discard(S) ==
  /\ "discarder" \in crew /\ op["discarder"].at = "idle" /\ closed = "open"
  /\ \A t \in OpThread : op[t].at = "idle"
  /\ op' = [op EXCEPT !["discarder"] = [at |-> "drop", S |-> S, got |-> "caller"]]
  /\ UNCHANGED <<crew, content, head, counts, closed, mu>>

\* reclaimDisk and punchBehindWindow: the list of what is present behind the
\* window, made from the read head of this moment.
Reclaim ==
  LET S == {c \in ranges : c < head - BackWindow}
  IN  /\ "pool" \in crew /\ op["discarder"].at = "idle" /\ closed = "open"
      /\ disk > DiskLimit /\ S # {} /\ mu = "free"
      /\ op' = [op EXCEPT !["discarder"] = [at |-> "drop", S |-> S, got |-> "pool"]]
      /\ UNCHANGED <<crew, content, head, counts, closed, mu>>

\* The ranges of the list are discarded one after another.
FirstRun(S) == {c \in S : Low(S) .. c \subseteq S}
NextRun ==
  LET o == op["discarder"]
      rest == o.S \ FirstRun(o.S)
  IN  op' = [op EXCEPT !["discarder"] = IF rest = {} THEN [NoOp EXCEPT !.got = "ok"] ELSE [o EXCEPT !.at = "drop", !.S = rest]]

\* Under the lock: whole blocks go, edges lose their dirty cells, and a
\* block with nothing left goes too.
Drop ==
  LET S == FirstRun(op["discarder"].S)
      left == ranges \ S
      gone == {b \in Resident : CellsOf(b) \subseteq S \/ (CellsOf(b) \cap S # {} /\ CellsOf(b) \cap left = {})}
  IN  /\ op["discarder"].at = "drop" /\ mu = "free"
      /\ IF closed # "open" THEN Done("discarder", "closed") /\ UNCHANGED <<content, mem, disk>>
         ELSE /\ blocks' = [b \in Resident \ gone |-> [blocks[b] EXCEPT !.dirty = @ \ S]]
              /\ lru' = SelectSeq(lru, LAMBDA x : x \notin gone)
              /\ mem' = mem - Cardinality(gone)
              /\ Present(left)
              /\ onDisk' = onDisk \ S
              /\ state' = StateWith(Resident \ gone, left)
              /\ IF onDisk \cap S # {} THEN At("discarder", "punch") ELSE NextRun
              /\ UNCHANGED file
      /\ UNCHANGED <<crew, head, others, closed, mu>>

\* The hole is punched after the lock is given up.
Punch ==
  /\ op["discarder"].at = "punch"
  /\ file' = [c \in Cell |-> IF c \in FirstRun(op["discarder"].S) THEN "hole" ELSE file[c]]
  /\ NextRun
  /\ UNCHANGED <<crew, blocks, lru, ranges, onDisk, state, head, counts, closed, mu>>

-----------------------------------------------------------------------------
Flush ==
  /\ "flush" \in crew /\ closed = "open" /\ mu = "free" /\ DirtyOf(Block) # {}
  /\ file' = Flushed(Block) /\ onDisk' = onDisk \cup DirtyOf(Block)
  /\ blocks' = [b \in Resident |-> [blocks[b] EXCEPT !.dirty = {}]]
  /\ UNCHANGED <<crew, lru, ranges, state, head, counts, closed, mu, op>>

BeginClose ==
  /\ "close" \in crew /\ closed = "open"
  /\ closed' = "closing"
  /\ UNCHANGED <<crew, content, head, counts, mu, op>>

FinishClose ==
  /\ closed = "closing" /\ mu = "free"
  /\ file' = Flushed(Block)
  /\ blocks' = [b \in {} |-> 0] /\ lru' = <<>>
  /\ ranges' = {} /\ onDisk' = {} /\ mem' = mem - Cardinality(Resident) /\ disk' = disk - Cardinality(ranges)
  /\ closed' = "closed"
  /\ UNCHANGED <<crew, state, head, others, mu, op>>

\* Other buffers of the pool take and give back memory.
Others ==
  /\ "others" \in crew /\ others' \in {0, 1} /\ others' # others
  /\ UNCHANGED <<crew, content, head, mem, disk, closed, mu, op>>

NextBuffer ==
  \/ \E t \in {"writer", "second"} :
       (\E S \in Run : Write(t, S)) \/ ProbeRoom(t) \/ Evict(t) \/ WriteCached(t) \/ WriteThrough(t) \/ Note(t)
  \/ (\E S \in Run : Read(S) \/ Discard(S))
  \/ ReadFast \/ ReadSlow \/ Reclaim \/ Drop \/ Punch \/ Flush \/ BeginClose \/ FinishClose \/ Others

SpecBuffer == InitBuffer /\ [][NextBuffer]_bufvars

-----------------------------------------------------------------------------
(* Properties.                                                             *)

\* ReadAt returns what was written or says that something is absent: it never
\* hands out the zeros of a hole or what a reused block held.  The contract of
\* SetReadHead is kept by every caller here; still the pool's list may be older
\* than a seek back, so this holds of a reader that only goes forward.
ReadIsTrue == op["reader"].got # "zeros"
=============================================================================
