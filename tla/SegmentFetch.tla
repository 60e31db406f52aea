---------------------------- MODULE SegmentFetch ----------------------------
(***************************************************************************)
(* One segment of a usenet file under concurrent readers                   *)
(* (pkg/usenet/fs/reader: cache.go, fetcher.go, reader.go): the slot state *)
(* machine, fetch deduplication, the download and its error paths, the     *)
(* zero-fill padding and the PAR2 patch of a dead article, the evictor,    *)
(* and a repair that lands while all this goes on.                         *)
(*                                                                         *)
(* An actor is one read or one background fetch.  Its kind decides what    *)
(* it may see: a verification read must never take zero-fill for data, a   *)
(* burst never fabricates it.  The slot's bytes are abstracted to where    *)
(* they came from.  A Put, a Finalize or a Discard is split where another  *)
(* goroutine can step in between: bytes first, then state and accounting.  *)
(***************************************************************************)
EXTENDS Integers, FiniteSets

CONSTANTS
  Actor,
  MaxTries,    \* attempts of fetchWithRetry
  MaxStreak,   \* maxDownloadTimeoutStreak
  MaxTimeouts, \* bound on timed-out downloads, for TLC only
  World        \* what goes on around the segment: who the actors are, how
               \* often the evictor comes (a bound, for TLC only), and
               \* whether a repair of the article may land

\* "playback", "verify" and "reader" (the DFS cache copying out) read;
\* "burst" and "prefetch" only fetch; "absent" does nothing.
Kinds == {"playback", "verify", "reader", "burst", "prefetch", "absent"}

ASSUME ActorAssumption ==
  /\ IsFiniteSet(Actor)
  /\ World \subseteq [kind : [Actor -> Kinds], evict : Nat, repair : BOOLEAN]
ASSUME BoundAssumption ==
  MaxTries \in Nat \ {0} /\ MaxStreak \in Nat \ {0}
  /\ MaxTimeouts \in Nat

VARIABLES
  world,    \* the one this behaviour is about
  alive,    \* some provider has the article
  sweep,    \* the entry is under a sweep probe
  state,    \* states[segIdx]
  err,      \* errors[segIdx], "nil" for none
  bytes,    \* what the slot's byte range holds
  curDisk,  \* segments charged to the disk budget
  pins,     \* pinCounts[segIdx]
  padded, patched,  \* the fetcher's bits
  inFlight, \* the promise in sf.inFlight, or NoPromise
  streak,   \* consecutive timeouts of the segment
  timeouts, \* timed-out downloads so far
  pc, e, rec, cont, what, tries, phase,  \* locals of each actor
  got,      \* the bytes each read returned
  gone,     \* actors whose context is done
  ev, evictions,    \* the evictor
  repair    \* "none", "stored", "marked" or "done"

avars == <<pc, e, rec, cont, what, tries, phase>>
vars  == <<world, alive, sweep, state, err, bytes, curDisk, pins, padded, patched, inFlight,
           streak, timeouts, avars, got, gone, ev, evictions, repair>>

NoPromise == [by |-> {}, closed |-> FALSE, err |-> "nil"]
Error == {"nil", "430", "err", "ctx"}
Kind(a) == world.kind[a]
Reads(a) == Kind(a) \in {"playback", "verify", "reader"}

TypeOK ==
  /\ state \in {"empty", "ondisk", "fetching", "failed", "evicting"}
  /\ err \in Error
  /\ bytes \in {"hole", "real", "zeros", "patch"}
  /\ curDisk \in Int /\ pins \in 0..Cardinality(Actor)
  /\ {alive, sweep, padded, patched} \subseteq BOOLEAN
  /\ inFlight \in [by : SUBSET Actor, closed : BOOLEAN, err : Error]
  /\ streak \in 0..MaxStreak /\ timeouts \in 0..MaxTimeouts
  /\ e \in [Actor -> Error]
  /\ tries \in [Actor -> 1..MaxTries]
  /\ got \in [Actor -> {"none", "hole", "real", "zeros", "patch"}]
  /\ gone \subseteq Actor
  /\ ev \in {"idle", "candidate", "reserved", "punch", "free"}
  /\ world \in World /\ evictions \in 0..world.evict
  /\ repair \in {"none", "stored", "marked", "done"}

Init ==
  /\ world \in World
  /\ alive \in BOOLEAN /\ sweep \in BOOLEAN
  /\ state = "empty" /\ err = "nil" /\ bytes = "hole"
  /\ curDisk = 0 /\ pins = 0
  /\ padded = FALSE /\ patched = FALSE
  /\ inFlight = NoPromise
  /\ streak = 0 /\ timeouts = 0
  /\ pc = [a \in Actor |-> "idle"]
  /\ e = [a \in Actor |-> "nil"]
  /\ rec = [a \in Actor |-> "no"]
  /\ cont = [a \in Actor |-> "none"]
  /\ what = [a \in Actor |-> "none"]
  /\ tries = [a \in Actor |-> 1]
  /\ phase = [a \in Actor |-> "ensure"]
  /\ got = [a \in Actor |-> "none"]
  /\ gone = {}
  /\ ev = "idle" /\ evictions = 0
  /\ repair = "none"

-----------------------------------------------------------------------------
(* Steps of an actor's locals.                                             *)

goto(a, l) == pc' = [pc EXCEPT ![a] = l]
with(a, x) == e' = [e EXCEPT ![a] = x]

\* Everything an actor's step may leave alone, in groups.
slot  == <<state, err, bytes, curDisk, padded>>
env   == <<world, alive, sweep, patched, gone, ev, evictions, repair>>
count == <<streak, timeouts>>
local == <<rec, cont, what, tries, phase>>

\* The overlay holds a patch, and the fetcher knows it.
PatchBytes == repair # "none"
servable == patched /\ PatchBytes

\* padUnfit: a verification read may not use a slot that holds padding.
padUnfit(a) ==
  IF Kind(a) = "verify" /\ padded /\ state = "ondisk" THEN "430" ELSE "nil"

\* recoverFailedForPlayback applies.
recoverable(a) == Kind(a) = "playback" /\ ~sweep /\ err = "430"

-----------------------------------------------------------------------------
(* Reads and background fetches begin.                                     *)

\* readAtPlain pins first, then looks; a background fetch calls Fetch.
Begin(a) ==
  /\ pc[a] = "idle" /\ Kind(a) # "absent"
  /\ pins' = IF Reads(a) THEN pins + 1 ELSE pins
  /\ goto(a, IF Reads(a) THEN "ensure" ELSE "fetch")
  /\ UNCHANGED <<slot, env, count, local, inFlight, e, got>>

\* The read is over and unpins.
End(a, x) ==
  /\ with(a, x)
  /\ goto(a, "done")
  /\ pins' = IF Reads(a) THEN pins - 1 ELSE pins

\* EnsureSegments: cached, unless it is padding this read may not use.
Ensure(a) ==
  /\ pc[a] = "ensure"
  /\ IF state # "ondisk" THEN goto(a, "fetch") /\ UNCHANGED <<e, pins>>
     ELSE IF padUnfit(a) = "nil" THEN goto(a, "wait") /\ UNCHANGED <<e, pins>>
     ELSE End(a, "430")
  /\ UNCHANGED <<slot, env, count, local, inFlight, got>>

-----------------------------------------------------------------------------
(* Fetch: fast path and deduplication.                                     *)

\* The state loop of Fetch; an eviction in progress is waited out.
FetchCheck(a) ==
  /\ pc[a] = "fetch" /\ state # "evicting"
  /\ CASE state = "ondisk" -> with(a, padUnfit(a)) /\ goto(a, "ret") /\ UNCHANGED <<rec, cont>>
       [] state = "failed" /\ recoverable(a) ->
            /\ rec' = [rec EXCEPT ![a] = "fetch"]
            /\ cont' = [cont EXCEPT ![a] = "remark"]
            /\ goto(a, "reset") /\ UNCHANGED e
       [] state = "failed" /\ ~recoverable(a) -> goto(a, "refail") /\ UNCHANGED <<e, rec, cont>>
       [] OTHER -> goto(a, "register") /\ UNCHANGED <<e, rec, cont>>
  /\ UNCHANGED <<slot, env, count, what, tries, phase, inFlight, pins, got>>

\* Still Failed: its error, or another fetch when it has none.
Refail(a) ==
  /\ pc[a] = "refail"
  /\ CASE state # "failed" -> goto(a, "fetch") /\ UNCHANGED <<e, cont>>
       [] state = "failed" /\ err # "nil" -> with(a, err) /\ goto(a, "ret") /\ UNCHANGED cont
       [] state = "failed" /\ err = "nil" ->
            cont' = [cont EXCEPT ![a] = "fetch"] /\ goto(a, "reset") /\ UNCHANGED e
  /\ UNCHANGED <<slot, env, count, rec, what, tries, phase, inFlight, pins, got>>

\* Under inFlightMu: follow the promise that is there, or lead.
Register(a) ==
  /\ pc[a] = "register"
  /\ IF inFlight = NoPromise
     THEN /\ inFlight' = [NoPromise EXCEPT !.by = {a}]
          /\ rec' = [rec EXCEPT ![a] = "no"]
          /\ goto(a, "mark") /\ UNCHANGED e
     ELSE /\ IF inFlight.closed
             THEN with(a, inFlight.err) /\ goto(a, "followed")
             ELSE goto(a, "follow") /\ UNCHANGED e
          /\ UNCHANGED <<inFlight, rec>>
  /\ UNCHANGED <<slot, env, count, cont, what, tries, phase, pins, got>>

\* The leader's result: its pad may not be this read's, and neither is its
\* cancellation.
Followed(a) ==
  /\ pc[a] = "followed"
  /\ CASE e[a] = "nil" -> with(a, padUnfit(a)) /\ goto(a, "ret")
       [] e[a] = "ctx" /\ a \notin gone -> goto(a, "fetch") /\ UNCHANGED e
       [] OTHER -> goto(a, "ret") /\ UNCHANGED e
  /\ UNCHANGED <<slot, env, count, local, inFlight, pins, got>>

\* A cancelled actor leaves the places where Fetch waits.
FetchGone(a) ==
  /\ a \in gone
  /\ \/ pc[a] = "follow" /\ goto(a, "ret")
     \/ pc[a] = "fetch" /\ state = "evicting" /\ goto(a, "ret")
     \/ pc[a] = "evicted" /\ state = "evicting" /\ goto(a, "close")
     \/ pc[a] = "other" /\ state \notin {"ondisk", "failed"} /\ goto(a, "close")
  /\ with(a, "ctx")
  /\ UNCHANGED <<slot, env, count, local, inFlight, pins, got>>

-----------------------------------------------------------------------------
(* doFetch.                                                                *)

\* Mutant: the fetch goes on whether or not it took the slot.
MarkOrNot(a) ==
  /\ pc[a] = "mark"
  /\ state' = IF state = "empty" THEN "fetching" ELSE state
  /\ goto(a, "refill")
  /\ UNCHANGED <<err, bytes, curDisk, padded, env, count, local, inFlight, pins, got, e>>

\* MarkFetching.
Mark(a) ==
  /\ pc[a] = "mark"
  /\ IF state = "empty" THEN state' = "fetching" /\ goto(a, "refill")
     ELSE goto(a, "marked") /\ UNCHANGED state
  /\ UNCHANGED <<err, bytes, curDisk, padded, env, count, local, inFlight, pins, got, e>>

\* The state is read again.  A slot that became Empty since has no case of
\* its own: the fetch goes on without owning it.
Marked(a) ==
  /\ pc[a] = "marked"
  /\ CASE state = "empty" -> goto(a, "refill") /\ UNCHANGED <<e, rec, cont>>
       [] state = "ondisk" -> with(a, padUnfit(a)) /\ goto(a, "close") /\ UNCHANGED <<rec, cont>>
       [] state = "fetching" -> goto(a, "other") /\ UNCHANGED <<e, rec, cont>>
       [] state = "evicting" -> goto(a, "evicted") /\ UNCHANGED <<e, rec, cont>>
       [] state = "failed" /\ recoverable(a) ->
            /\ rec' = [rec EXCEPT ![a] = "do"]
            /\ cont' = [cont EXCEPT ![a] = "remark"]
            /\ goto(a, "reset") /\ UNCHANGED e
       [] state = "failed" /\ ~recoverable(a) ->
            with(a, err) /\ goto(a, "close") /\ UNCHANGED <<rec, cont>>
  /\ UNCHANGED <<slot, env, count, what, tries, phase, inFlight, pins, got>>

\* This fetch refills the slot: whatever it held is gone.
Refill(a) ==
  /\ pc[a] = "refill"
  /\ padded' = FALSE
  /\ goto(a, "own")
  /\ UNCHANGED <<state, err, bytes, curDisk, env, count, local, inFlight, pins, got, e>>

\* WaitForEvictionRelease, then doFetch from the start.
Evicted(a) ==
  /\ pc[a] = "evicted" /\ state # "evicting"
  /\ goto(a, "mark")
  /\ UNCHANGED <<slot, env, count, local, inFlight, pins, got, e>>

\* doFetch waits for a fetch that runs outside the promise.
Other(a) ==
  /\ pc[a] = "other" /\ state \in {"ondisk", "failed"}
  /\ with(a, IF state = "ondisk" THEN padUnfit(a) ELSE IF err = "nil" THEN "err" ELSE err)
  /\ goto(a, "close")
  /\ UNCHANGED <<slot, env, count, local, inFlight, pins, got>>

\* ResetFailed: the compare-and-swap, then the error is cleared.
Reset(a) ==
  /\ pc[a] = "reset"
  /\ IF state = "failed"
     THEN state' = "empty" /\ goto(a, "clear")
     ELSE goto(a, cont[a]) /\ UNCHANGED state
  /\ UNCHANGED <<err, bytes, curDisk, padded, env, count, local, inFlight, pins, got, e>>

Clear(a) ==
  /\ pc[a] = "clear"
  /\ err' = "nil"
  /\ goto(a, cont[a])
  /\ UNCHANGED <<state, bytes, curDisk, padded, env, count, local, inFlight, pins, got, e>>

\* recoverFailedForPlayback marks the slot Fetching again, or gives up.
Remark(a) ==
  /\ pc[a] = "remark"
  /\ IF state = "empty"
     THEN state' = "fetching" /\ goto(a, "own") /\ UNCHANGED e
     ELSE /\ IF rec[a] = "fetch" THEN goto(a, "refail") /\ UNCHANGED e
             ELSE with(a, err) /\ goto(a, "close")
          /\ UNCHANGED state
  /\ UNCHANGED <<err, bytes, curDisk, padded, env, count, local, inFlight, pins, got>>

\* The bytes of a Put or of a finished download are in the buffer.
write(a, b, w) ==
  /\ bytes' = b
  /\ what' = [what EXCEPT ![a] = w]
  /\ goto(a, "commit")

\* servePatch, before a provider is asked.
Own(a) ==
  /\ pc[a] = "own"
  /\ IF servable THEN write(a, "patch", "patch")
     ELSE /\ goto(a, IF rec[a] = "no" THEN "get" ELSE "missing")
          /\ UNCHANGED <<bytes, what>>
  /\ UNCHANGED <<state, err, curDisk, padded, env, count, rec, cont, tries, phase,
                 inFlight, pins, got, e>>

\* Mutant: a cancelled download leaves the slot Fetching.
keepFetching(a) == UNCHANGED <<state, err>> /\ with(a, "ctx") /\ goto(a, "close")

\* ReleaseFetching, and the context's error.
releaseFetching(a) ==
  /\ state' = IF state = "fetching" THEN "empty" ELSE state
  /\ UNCHANGED err
  /\ with(a, "ctx") /\ goto(a, "close")

\* The caller's context ends while it waits for a slot or downloads.
GetCancelled(a) ==
  /\ pc[a] = "get" /\ a \in gone
  /\ releaseFetching(a)
  /\ UNCHANGED <<bytes, curDisk, padded, env, count, local, inFlight, pins, got>>

\* The body arrives and is identified.
GetBody(a) ==
  /\ pc[a] = "get" /\ alive
  /\ write(a, "real", "real")
  /\ UNCHANGED <<state, err, curDisk, padded, env, count, rec, cont, tries, phase,
                 inFlight, pins, got, e>>

\* Every provider says no, or something else goes wrong.
GetError(a) ==
  /\ pc[a] = "get"
  /\ \/ ~alive /\ with(a, "430") /\ UNCHANGED timeouts
     \/ timeouts < MaxTimeouts /\ timeouts' = timeouts + 1 /\ with(a, "err")
  /\ goto(a, "judge")
  /\ UNCHANGED <<slot, env, streak, local, inFlight, pins, got>>

\* escalateTimeoutStreak turns this timeout into a not-found.
escalates(a) == streak + 1 >= MaxStreak /\ Kind(a) # "verify"

\* The download runs out of time: by its own deadline (the slot is released)
\* or by an idle connection (an error like any other).
GetTimeout(a) ==
  /\ pc[a] = "get" /\ a \notin gone
  /\ timeouts < MaxTimeouts /\ timeouts' = timeouts + 1
  /\ IF escalates(a)
     THEN streak' = 0 /\ with(a, "430") /\ goto(a, "judge") /\ UNCHANGED <<state, err>>
     ELSE /\ streak' = IF streak < MaxStreak THEN streak + 1 ELSE streak
          /\ \/ releaseFetching(a)
             \/ with(a, "err") /\ goto(a, "judge") /\ UNCHANGED <<state, err>>
  /\ UNCHANGED <<bytes, curDisk, padded, env, local, inFlight, pins, got>>

\* MarkFailed.
markFailed(x) == err' = x /\ state' = "failed"

\* A confirmed-missing article goes to the overlay, unless the read is a
\* verification or the entry is under a sweep; anything else is recorded.
Judge(a) ==
  /\ pc[a] = "judge"
  /\ IF e[a] = "430" /\ Kind(a) # "verify" /\ ~sweep
     THEN goto(a, "missing") /\ UNCHANGED <<state, err>>
     ELSE markFailed(e[a]) /\ goto(a, "close")
  /\ UNCHANGED <<bytes, curDisk, padded, env, count, local, inFlight, pins, got, e>>

\* handleConfirmedMissing: a patch, if there is one by now.
Missing(a) ==
  /\ pc[a] = "missing"
  /\ IF PatchBytes THEN write(a, "patch", "patch")
     ELSE goto(a, "decide") /\ UNCHANGED <<bytes, what>>
  /\ UNCHANGED <<state, err, curDisk, padded, env, count, rec, cont, tries, phase,
                 inFlight, pins, got, e>>

\* The policy pads: the bit first, then the zeros.
Pad(a) ==
  /\ pc[a] = "decide" /\ Kind(a) # "burst"
  /\ padded' = TRUE
  /\ write(a, "zeros", "pad")
  /\ UNCHANGED <<state, err, curDisk, env, count, rec, cont, tries, phase,
                 inFlight, pins, got, e>>

\* The policy declines, or a burst must not see fabricated bytes.
Decline(a) ==
  /\ pc[a] = "decide"
  /\ markFailed("430")
  /\ with(a, "430")
  /\ goto(a, IF rec[a] = "fetch" THEN "refail" ELSE "close")
  /\ UNCHANGED <<bytes, curDisk, padded, env, count, local, inFlight, pins, got>>

\* doFetch, or the recovery, returns with the slot filled.  doFetch asks
\* padUnfit after a recovery, but only playback recovers.
filled(a) ==
  /\ with(a, "nil")
  /\ goto(a, IF rec[a] = "fetch" THEN "ret" ELSE "close")

\* Put replaces the bytes of a slot that is on disk, Finalize adds its own.
charged(w) == IF w # "real" /\ state = "ondisk" THEN 0 ELSE 1

\* The state becomes OnDisk and waiters wake.  A pad is followed by a look
\* for a patch that landed meanwhile.
Commit(a) ==
  /\ pc[a] = "commit"
  /\ curDisk' = curDisk + charged(what[a])
  /\ state' = "ondisk"
  /\ padded' = IF what[a] = "patch" THEN FALSE ELSE padded
  /\ streak' = 0
  /\ IF what[a] = "pad" THEN goto(a, "lay") /\ UNCHANGED e ELSE filled(a)
  /\ UNCHANGED <<err, bytes, env, timeouts, local, inFlight, pins, got>>

\* Mutant: a pad is never followed by a look for a patch.
LayNothing(a) ==
  /\ pc[a] = "lay"
  /\ filled(a)
  /\ UNCHANGED <<slot, env, count, local, inFlight, pins, got>>

\* servePatch over the fresh pad.
Lay(a) ==
  /\ pc[a] = "lay"
  /\ IF servable THEN write(a, "patch", "patch") /\ UNCHANGED e
     ELSE filled(a) /\ UNCHANGED <<bytes, what>>
  /\ UNCHANGED <<state, err, curDisk, padded, env, count, rec, cont, tries, phase,
                 inFlight, pins, got>>

\* promise.err is set and done closed: every follower has the result.
Close(a) ==
  /\ pc[a] = "close"
  /\ inFlight' = [inFlight EXCEPT !.closed = TRUE, !.err = e[a]]
  /\ pc' = [b \in Actor |-> IF b = a THEN "unregister"
                            ELSE IF pc[b] = "follow" THEN "followed" ELSE pc[b]]
  /\ e' = [b \in Actor |-> IF pc[b] = "follow" THEN e[a] ELSE e[b]]
  /\ UNCHANGED <<slot, env, count, local, pins, got>>

Unregister(a) ==
  /\ pc[a] = "unregister"
  /\ inFlight' = NoPromise
  /\ goto(a, "ret")
  /\ UNCHANGED <<slot, env, count, local, pins, got, e>>

-----------------------------------------------------------------------------
(* Fetch returns: fetchWithRetry, or the self-heal of readFromCache.       *)

Return(a) ==
  /\ pc[a] = "ret"
  /\ CASE ~Reads(a) -> End(a, e[a]) /\ UNCHANGED <<tries, cont>>
       [] Reads(a) /\ e[a] = "nil" ->
            /\ goto(a, IF phase[a] = "heal" THEN "reread" ELSE "wait")
            /\ UNCHANGED <<e, pins, tries, cont>>
       [] Reads(a) /\ e[a] # "nil" ->
            IF phase[a] = "heal" \/ e[a] = "430" \/ a \in gone \/ tries[a] = MaxTries
            THEN End(a, e[a]) /\ UNCHANGED <<tries, cont>>
            ELSE /\ tries' = [tries EXCEPT ![a] = @ + 1]
                 /\ cont' = [cont EXCEPT ![a] = "fetch"]
                 /\ goto(a, "reset") /\ UNCHANGED <<e, pins>>
  /\ UNCHANGED <<slot, env, count, rec, what, phase, inFlight, got>>

\* WaitForSegment.
Wait(a) ==
  /\ pc[a] = "wait"
  /\ CASE state = "ondisk" -> goto(a, "read") /\ UNCHANGED <<e, pins>>
       [] state = "failed" -> End(a, IF err = "nil" THEN "err" ELSE err)
       [] OTHER -> a \in gone /\ End(a, "ctx")
  /\ UNCHANGED <<slot, env, count, local, inFlight, got>>

\* ReadRangeInto looks at the state ...
ReadCheck(a) ==
  /\ pc[a] \in {"read", "reread"} /\ state = "ondisk"
  /\ goto(a, IF pc[a] = "read" THEN "copy" ELSE "recopy")
  /\ UNCHANGED <<slot, env, count, local, inFlight, pins, got, e>>

\* ... and copies the bytes.  From the scratch file a punched hole comes
\* back as bytes like any other.
Read(a) ==
  /\ pc[a] \in {"copy", "recopy"}
  /\ got' = [got EXCEPT ![a] = bytes]
  /\ End(a, "nil")
  /\ UNCHANGED <<slot, env, count, local, inFlight>>

\* ReadRangeInto fails, by the state or by a hole: invalidateForRefetch and
\* one more Fetch, or the missing-segment error after it.
ReadMiss(a) ==
  /\ \/ pc[a] \in {"read", "reread"} /\ state # "ondisk"
     \/ pc[a] \in {"copy", "recopy"} /\ bytes = "hole"
  /\ IF pc[a] \in {"reread", "recopy"}
     THEN End(a, "err") /\ UNCHANGED <<slot, phase>>
     ELSE /\ IF state = "ondisk"
             THEN state' = "empty" /\ curDisk' = curDisk - 1 /\ err' = "nil"
             ELSE /\ state' = IF state = "failed" THEN "empty" ELSE state
                  /\ err' = IF state = "failed" THEN "nil" ELSE err
                  /\ UNCHANGED curDisk
          /\ phase' = [phase EXCEPT ![a] = "heal"]
          /\ goto(a, "fetch")
          /\ UNCHANGED <<bytes, padded, e, pins>>
  /\ UNCHANGED <<env, count, rec, cont, what, tries, inFlight, got>>

-----------------------------------------------------------------------------
(* The evictor: sweepWindow, drainOverBudget and Release all end in        *)
(* evictBatch.                                                             *)

others == <<world, alive, sweep, err, padded, patched, inFlight, count, avars, got, gone, pins,
            repair>>

EvictPick ==
  /\ ev = "idle" /\ evictions < world.evict
  /\ pins = 0 /\ state = "ondisk"
  /\ ev' = "candidate" /\ evictions' = evictions + 1
  /\ UNCHANGED <<others, state, bytes, curDisk>>

\* The compare-and-swap to Evicting.
EvictReserve ==
  /\ ev = "candidate"
  /\ IF state = "ondisk" THEN state' = "evicting" /\ ev' = "reserved"
     ELSE ev' = "idle" /\ UNCHANGED state
  /\ UNCHANGED <<others, bytes, curDisk, evictions>>

\* The pin is looked at again: back off, or give the bytes up.
EvictDecide ==
  /\ ev = "reserved"
  /\ IF pins > 0 THEN state' = "ondisk" /\ ev' = "idle" /\ UNCHANGED curDisk
     ELSE ev' = "punch" /\ curDisk' = curDisk - 1 /\ UNCHANGED state
  /\ UNCHANGED <<others, bytes, evictions>>

EvictPunch ==
  /\ ev = "punch"
  /\ ev' = "free" /\ bytes' = "hole"
  /\ UNCHANGED <<others, state, curDisk, evictions>>

EvictFree ==
  /\ ev = "free"
  /\ ev' = "idle" /\ state' = "empty"
  /\ UNCHANGED <<others, bytes, curDisk, evictions>>

EvictStep == EvictPick \/ EvictReserve \/ EvictDecide \/ EvictPunch \/ EvictFree

-----------------------------------------------------------------------------
(* The repair of a dead article.                                           *)

ovars == <<world, alive, sweep, bytes, padded, inFlight, count, avars, got, gone, pins, ev, evictions>>

\* The PAR2 patch is in the overlay.
RepairStore ==
  /\ world.repair /\ repair = "none" /\ ~alive
  /\ repair' = "stored"
  /\ UNCHANGED <<ovars, state, err, curDisk, patched>>

\* RefetchSegments: MarkPatched ...
RepairMark ==
  /\ repair = "stored"
  /\ repair' = "marked" /\ patched' = TRUE
  /\ UNCHANGED <<ovars, state, err, curDisk>>

\* ... and invalidateForRefetch.
RepairInvalidate ==
  /\ repair = "marked"
  /\ repair' = "done"
  /\ state' = IF state \in {"ondisk", "failed"} THEN "empty" ELSE state
  /\ err' = IF state \in {"ondisk", "failed"} THEN "nil" ELSE err
  /\ curDisk' = IF state = "ondisk" THEN curDisk - 1 ELSE curDisk
  /\ UNCHANGED <<ovars, patched>>

RepairStep == RepairStore \/ RepairMark \/ RepairInvalidate

\* A caller walks away.
Cancel(a) ==
  /\ a \notin gone /\ pc[a] \notin {"idle", "done"}
  /\ gone' = gone \cup {a}
  /\ UNCHANGED <<world, alive, sweep, slot, patched, ev, evictions, repair, count, avars,
                 inFlight, pins, got>>

Step(a) ==
  \/ Ensure(a) \/ FetchCheck(a) \/ Refail(a) \/ Register(a) \/ Followed(a)
  \/ FetchGone(a) \/ Mark(a) \/ Marked(a) \/ Refill(a) \/ Evicted(a) \/ Other(a) \/ Reset(a) \/ Clear(a) \/ Remark(a)
  \/ Own(a) \/ GetCancelled(a) \/ GetBody(a) \/ GetError(a) \/ GetTimeout(a)
  \/ Judge(a) \/ Missing(a) \/ Pad(a) \/ Decline(a) \/ Commit(a) \/ Lay(a)
  \/ Close(a) \/ Unregister(a) \/ Return(a) \/ Wait(a) \/ ReadCheck(a) \/ Read(a) \/ ReadMiss(a)

Next ==
  \/ \E a \in Actor : Begin(a) \/ Step(a) \/ Cancel(a)
  \/ EvictStep
  \/ RepairStep

Spec == Init /\ [][Next]_vars

-----------------------------------------------------------------------------
(* Properties.                                                             *)

\* More than two reads and fetches of the segment.
Crowded == Cardinality({a \in Actor : Kind(a) # "absent"}) > 2

\* No viewer: nobody recovers a failed slot.
Unviewed == \A a \in Actor : Kind(a) # "playback"

\* A verification read never succeeds on zero-fill: what playback padded must
\* not make a broken import or sweep candidate look healthy (fetcher.go,
\* ContextWithoutPadding and padUnfit).
PaddingNeverVerifies ==
  \A a \in Actor : Kind(a) = "verify" => got[a] # "zeros"

\* Zero-fill is never served for data: a slot on disk that holds zeros has
\* its padded bit, which a verification read goes by.  (A viewer's recovery
\* takes a slot from under a leader between MarkFetching and GetState, and a
\* patch laid over a pad may revive a slot the evictor has reserved.)
ZerosAreMarked ==
  (Crowded => Unviewed) /\ (world.evict = 0 \/ ~world.repair)
    => (state = "ondisk" /\ bytes = "zeros" => padded)

\* A finished repair is not undone by a pad that was under way: once
\* RefetchSegments is through, no slot at rest holds zero-fill.  (An evictor
\* that backs off may put the old zeros back.)
RepairIsServed ==
  (Crowded => Unviewed) /\ world.evict = 0
    => (repair = "done" /\ state = "ondisk" /\ bytes = "zeros"
          => \E a \in Actor : pc[a] \in {"lay", "commit"})

\* Of two reads of a segment none is stranded: while one is under way, one
\* can move without waiting for its caller to cancel, whatever became of the
\* leader it followed.  (A repair, the evictor, or the recovery of a third
\* reader between a leader's GetState and GetError may leave an empty slot
\* under a reader past its fetch, which then waits for the next fetch.)
Done(a) == pc[a] \in {"idle", "done"}
NoReadIsStranded ==
  ~world.repair /\ world.evict = 0 /\ ~Crowded /\ (\E a \in Actor : ~Done(a))
    => \E a \in Actor : ENABLED Step(a)
=============================================================================
