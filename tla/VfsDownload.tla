---------------------------- MODULE VfsDownload ----------------------------
(***************************************************************************)
(* pkg/mount/dfs/vfs/downloaders.go: the downloaders of one cache item.    *)
(* Reads wait for their range; downloaders fetch ahead of them, chunk by   *)
(* chunk; a kicker wakes waiters and notices idleness; the circuit breaker *)
(* fails reads at once after MaxErr errors; StopAll runs when the last     *)
(* handle is closed and Close when the item is torn down.                  *)
(*                                                                         *)
(* A cell is a chunk.  dls.mu is held over single steps.  What a stream    *)
(* gives is the environment's choice: bytes, a retriable error, a          *)
(* permanent one, or the word that the entry is gone.                      *)
(***************************************************************************)
EXTENDS Integers, FiniteSets

CONSTANTS
  Chunks,     \* bound: chunks of the file
  Ahead,      \* readAheadSize, in chunks
  Window,     \* downloaderMatchWindowLocked, in chunks
  MaxErr,     \* maxErrorCount
  Attempts,   \* downloadRetryAttempts
  Slots,      \* bound: downloader goroutines at a time
  Reads,      \* bound: reads of a lone reader; of two readers each makes one
  DlScenes    \* bound: who acts in one behaviour

VARIABLES
  troupe,   \* who acts, and what streams may do; never changed
  have,     \* item.info.Rs
  rd,       \* per reader: where it is, the chunk, priority, attempts made
  dl,       \* per downloader slot
  sh,       \* the shared fields of Downloaders
  spent     \* of the single events (evict, stop, close, cancel) those that happened

dlvars == <<troupe, have, rd, dl, sh, spent>>

Chunk == 1 .. Chunks
Reader == {"r1", "r2"}
Slot == 1 .. Slots
NoDl == [at |-> "free", start |-> 0, offset |-> 0, max |-> 0, stopped |-> FALSE, listed |-> FALSE, closed |-> FALSE, err |-> "none", n |-> 0]
NoRead == [at |-> "out", c |-> 1, prio |-> FALSE, tries |-> 0, todo |-> Reads]

InitDl ==
  /\ troupe \in DlScenes
  /\ have = {} /\ spent = {}
  /\ rd = [r \in Reader |-> IF "r2" \in troupe THEN [NoRead EXCEPT !.todo = 1] ELSE NoRead] /\ dl = [s \in Slot |-> NoDl]
  /\ sh = [errs |-> 0, last |-> "none", circuit |-> FALSE, stale |-> FALSE, idle |-> FALSE,
           stop |-> "no", closed |-> "no", kicker |-> "run", ctx |-> TRUE]

-----------------------------------------------------------------------------
(* What is missing, and who will fetch it.                                 *)

\* FindMissing of the read's range, a priority read without the read-ahead:
\* the first run of missing chunks, empty if there is none.
Missing(c, prio, held) ==
  LET want == {x \in Chunk : c <= x /\ x <= c + (IF prio THEN 0 ELSE Ahead)}
      gaps == want \ held
      first == CHOOSE x \in gaps : \A y \in gaps : x <= y
  IN  IF gaps = {} THEN {} ELSE {x \in gaps : first .. x \subseteq gaps}
Low(S) == CHOOSE x \in S : \A y \in S : x <= y
High(S) == CHOOSE x \in S : \A y \in S : y <= x

\* findDownloaderForPosLocked, over what removeClosed leaves.
Listed(D) == {s \in Slot : D[s].listed /\ ~D[s].closed}
Finder(D, p) == {s \in Listed(D) : D[s].start <= p /\ p < D[s].offset + Window}

\* setMaxOffset also kicks a downloader that waits for work.
Extended(D, s, end) == [D EXCEPT ![s].max = IF end > @ THEN end ELSE @, ![s].at = IF @ = "wait" THEN "run" ELSE @]

\* ensureDownloaderLocked: the downloaders after it, or "too many errors".
TooMany(c, prio) == Missing(c, prio, have) # {} /\ sh.errs >= MaxErr
Ensured(D, c, prio, held) ==
  LET M == Missing(c, prio, held)
      free == {s \in Slot : D[s].at = "free"}
      s == CHOOSE x \in free : \A y \in free : x <= y
  IN  IF M = {} THEN D
      ELSE IF Finder(D, Low(M)) # {} THEN Extended(D, CHOOSE x \in Finder(D, Low(M)) : TRUE, High(M) + 1)
      ELSE IF free = {} THEN D
      ELSE [D EXCEPT ![s] = [NoDl EXCEPT !.at = "run", !.start = Low(M), !.offset = Low(M), !.max = High(M) + 1, !.listed = TRUE]]

\* A downloader can be started if one must be: Slots is no limit of the code.
Room(D, c, prio, held) ==
  LET M == Missing(c, prio, held)
  IN  IF M = {} THEN TRUE ELSE Finder(D, Low(M)) # {} \/ \E s \in Slot : D[s].at = "free"

-----------------------------------------------------------------------------
(* Waiters.                                                                *)

Waiting(R) == {r \in Reader : R[r].at = "wait"}

\* kickWaiters: those whose range is there are told so, those that cannot be
\* served are given lastErr, and the first uncovered one gets a downloader.
\* A nil error tells a waiter that its range is there.
\* (Mutant: the error is not checked for.)
Answer(held, r) == IF rd[r].c \in held \/ sh.last = "none" THEN "ok" ELSE "err"
Failing == sh.circuit \/ sh.errs >= MaxErr

KickWaiters(D, held) ==
  LET W == Waiting(rd)
      told == {r \in W : rd[r].c \in held \/ Failing}
      rest == W \ told
      uncovered == {r \in rest : LET M == Missing(rd[r].c, rd[r].prio, held) IN M # {} /\ Finder(D, Low(M)) = {}}
      first == CHOOSE r \in uncovered : TRUE
  IN  /\ rd' = [r \in Reader |-> IF r \in told THEN [rd[r] EXCEPT !.at = Answer(held, r)]
                                 ELSE IF r \in rest /\ ~sh.ctx THEN [rd[r] EXCEPT !.at = "err"] ELSE rd[r]]
      /\ IF ~sh.ctx \/ Failing \/ uncovered = {} THEN dl' = D
         ELSE Room(D, rd[first].c, rd[first].prio, held) /\ dl' = Ensured(D, rd[first].c, rd[first].prio, held)

-----------------------------------------------------------------------------
(* Reads.                                                                  *)

Begin(r, c, prio) ==
  /\ r \in troupe \cap Reader /\ rd[r].at = "out" /\ rd[r].todo > 0
  /\ prio => "probe" \in troupe
  /\ rd' = [rd EXCEPT ![r] = [at |-> "ask", c |-> c, prio |-> prio, tries |-> 0, todo |-> @.todo - 1]]
  /\ UNCHANGED <<troupe, have, dl, sh, spent>>

\* ensureKickerRunningLocked: a kicker on its way out still counts as running.
Woken == [sh EXCEPT !.idle = FALSE, !.kicker = IF sh.idle /\ @ = "gone" THEN "run" ELSE @]

\* DownloadWithPriority up to the wait.
Ask(r) ==
  LET c == rd[r].c
      p == rd[r].prio
      Fail(e) == rd' = [rd EXCEPT ![r].at = e]
  IN  /\ rd[r].at = "ask"
      /\ \/ (sh.stale \/ sh.circuit) /\ Fail("err") /\ UNCHANGED <<dl, sh>>
         \/ ~sh.stale /\ ~sh.circuit /\ sh.closed # "no" /\ Fail("err") /\ UNCHANGED <<dl, sh>>
         \/ /\ ~sh.stale /\ ~sh.circuit /\ sh.closed = "no" /\ sh.stop = "no"   \* else it waits on stopCond
            /\ sh' = Woken
            /\ IF TooMany(c, p) THEN Fail("err") /\ UNCHANGED dl
               ELSE Room(dl, c, p, have) /\ dl' = Ensured(dl, c, p, have) /\ Fail(IF c \in have THEN "ok" ELSE "wait")
      /\ UNCHANGED <<troupe, have, spent>>

\* DownloadWithRetry: a retriable error is tried again, unless the circuit opened.
Retry(r) ==
  /\ rd[r].at = "err" /\ rd[r].tries < Attempts - 1 /\ ~sh.circuit /\ ~sh.stale /\ sh.closed = "no" /\ sh.last \in {"retry", "none"}
  /\ rd' = [rd EXCEPT ![r].at = "ask", ![r].tries = @ + 1]
  /\ UNCHANGED <<troupe, have, dl, sh, spent>>

\* The reader's context ends: it takes its waiter out.
CancelRead(r) ==
  /\ "cancel" \in troupe \ spent /\ rd[r].at = "wait"
  /\ rd' = [rd EXCEPT ![r].at = "gone"] /\ spent' = spent \cup {"cancel"}
  /\ UNCHANGED <<troupe, have, dl, sh>>

Return(r) ==
  /\ rd[r].at \in {"ok", "err", "gone"}
  /\ rd' = [rd EXCEPT ![r] = [NoRead EXCEPT !.todo = rd[r].todo]]
  /\ UNCHANGED <<troupe, have, dl, sh, spent>>

-----------------------------------------------------------------------------
(* A downloader: run, streamChunk, and the three steps after run.          *)

EndRun(s, err) == dl' = [dl EXCEPT ![s].at = "close", ![s].err = err]

\* Stopped, at the end of the file, or the idle timer of waitForWork.
RunEnds(s) ==
  /\ \/ dl[s].at = "run" /\ (dl[s].stopped \/ dl[s].offset > Chunks)
     \/ dl[s].at = "wait"
  /\ EndRun(s, "none")
  /\ UNCHANGED <<troupe, have, rd, sh, spent>>

WaitForWork(s) ==
  /\ dl[s].at = "run" /\ ~dl[s].stopped /\ dl[s].offset <= Chunks /\ dl[s].offset >= dl[s].max
  /\ dl' = [dl EXCEPT ![s].at = "wait"]
  /\ UNCHANGED <<troupe, have, rd, sh, spent>>

\* A chunk: already there, or streamed and written, its waiters kicked.
Fetches(s) == dl[s].at = "run" /\ ~dl[s].stopped /\ dl[s].offset <= Chunks /\ dl[s].offset < dl[s].max
StreamChunk(s) ==
  LET c == dl[s].offset
  IN  /\ Fetches(s)
      /\ have' = have \cup {c}
      /\ LET D == [dl EXCEPT ![s].offset = @ + 1, ![s].n = IF c \in have THEN @ ELSE 1]
         IN  IF c \in have THEN dl' = D /\ UNCHANGED rd ELSE KickWaiters(D, have')
      /\ UNCHANGED <<troupe, sh, spent>>

\* The stream fails for good: retries are over, or were no use.
StreamFails(s, err) ==
  /\ Fetches(s) /\ dl[s].offset \notin have /\ err \in troupe
  /\ EndRun(s, err)
  /\ UNCHANGED <<troupe, have, rd, sh, spent>>

CloseRun(s) ==
  /\ dl[s].at = "close"
  /\ dl' = [dl EXCEPT ![s].closed = TRUE, ![s].at = "count"]
  /\ UNCHANGED <<troupe, have, rd, sh, spent>>

\* countErrors, unless the downloader was cancelled.  Progress closes the
\* circuit, a permanent error opens it at once.
Counted(s) ==
  [sh EXCEPT !.errs = IF dl[s].err = "perm" THEN MaxErr ELSE @ + 1,
             !.last = dl[s].err,
             !.stale = @ \/ dl[s].err = "gone",
             !.circuit = @ \/ dl[s].err = "perm" \/ sh.errs + 1 >= MaxErr]
Quiet == [sh EXCEPT !.errs = 0, !.last = "none", !.circuit = FALSE]

CountErrors(s) ==
  /\ dl[s].at = "count"
  /\ sh' = IF dl[s].stopped \/ ~sh.ctx THEN sh
           ELSE IF dl[s].err # "none" THEN Counted(s)
           ELSE IF dl[s].n > 0 THEN Quiet ELSE sh
  /\ dl' = [dl EXCEPT ![s].at = "kick"]
  /\ UNCHANGED <<troupe, have, rd, spent>>

\* (Mutant: the goroutine ends without a last look at the waiters.)
LastKickNot(s) == dl[s].at = "kick" /\ dl' = [dl EXCEPT ![s] = NoDl] /\ UNCHANGED rd
LastKick(s) == dl[s].at = "kick" /\ KickWaiters([dl EXCEPT ![s] = NoDl], have)
EndDownloader(s) == LastKick(s) /\ UNCHANGED <<troupe, have, sh, spent>>

-----------------------------------------------------------------------------
(* The kicker, the cooldown, and the ends.                                 *)

Tick ==
  /\ sh.kicker = "run" /\ sh.ctx /\ sh.closed = "no" /\ Waiting(rd) # {}
  /\ KickWaiters(dl, have)
  /\ UNCHANGED <<troupe, have, sh, spent>>

Stopped(D) == [s \in Slot |-> IF D[s].listed /\ D[s].at # "free" THEN [D[s] EXCEPT !.stopped = TRUE, !.listed = FALSE] ELSE D[s]]

\* checkIdleTimeout: nobody waits and nobody asked for a while.
IdleOut ==
  /\ sh.kicker = "run" /\ sh.closed = "no" /\ sh.stop = "no" /\ Waiting(rd) = {} /\ "idle" \in troupe
  /\ sh' = [Quiet EXCEPT !.idle = TRUE, !.kicker = "leaving"]
  /\ dl' = Stopped(dl)
  /\ UNCHANGED <<troupe, have, rd, spent>>

\* The goroutine ends, by that or by its context.
KickerEnds ==
  /\ sh.kicker = "leaving" \/ (sh.kicker = "run" /\ (~sh.ctx \/ sh.closed # "no"))
  /\ sh' = [sh EXCEPT !.kicker = "gone"]
  /\ UNCHANGED <<troupe, have, rd, dl, spent>>

\* isCircuitOpen, asked two minutes later: the goroutine that opened the
\* circuit has long told the waiters.
Cooldown ==
  /\ sh.circuit /\ (\E r \in Reader : rd[r].at \in {"ask", "err"})
  /\ \A s \in Slot : dl[s].at \notin {"close", "count", "kick"}
  /\ sh' = Quiet
  /\ UNCHANGED <<troupe, have, rd, dl, spent>>

\* StopAll: waiters are failed, downloaders stopped, their context cancelled,
StopAll ==
  /\ "stop" \in troupe \ spent /\ sh.closed = "no" /\ sh.stop = "no"
  /\ sh' = [sh EXCEPT !.stop = "waiting", !.idle = TRUE, !.ctx = FALSE]
  /\ dl' = Stopped(dl)
  /\ rd' = [r \in Reader |-> IF rd[r].at = "wait" THEN [rd[r] EXCEPT !.at = "err"] ELSE rd[r]]
  /\ spent' = spent \cup {"stop"}
  /\ UNCHANGED <<troupe, have>>

\* waited for with the kicker, and then there is a fresh context.
Ended == \A s \in Slot : dl[s].at # "free" => ~dl[s].stopped
Stopping ==
  /\ sh.stop = "waiting" /\ Ended /\ sh.kicker = "gone"
  /\ sh' = IF sh.closed = "no" THEN [Quiet EXCEPT !.stop = "no", !.ctx = TRUE] ELSE [sh EXCEPT !.stop = "no"]
  /\ UNCHANGED <<troupe, have, rd, dl, spent>>

\* Close of the item.
CloseAll ==
  /\ "close" \in troupe \ spent /\ sh.closed = "no"
  /\ sh' = [sh EXCEPT !.closed = "closing", !.circuit = FALSE, !.ctx = FALSE]
  /\ dl' = Stopped(dl) /\ spent' = spent \cup {"close"}
  /\ UNCHANGED <<troupe, have, rd>>

CloseEnds ==
  /\ sh.closed = "closing" /\ Ended /\ sh.kicker = "gone"
  /\ sh' = [sh EXCEPT !.closed = "closed"]
  /\ rd' = [r \in Reader |-> IF rd[r].at = "wait" THEN [rd[r] EXCEPT !.at = "err"] ELSE rd[r]]
  /\ UNCHANGED <<troupe, have, dl, spent>>

\* The pool's disk backstop takes a chunk away again.
Evicted(c) ==
  /\ "evict" \in troupe \ spent /\ c \in have
  /\ have' = have \ {c} /\ spent' = spent \cup {"evict"}
  /\ UNCHANGED <<troupe, rd, dl, sh>>

Downloader(s) ==
  \/ RunEnds(s) \/ WaitForWork(s) \/ StreamChunk(s) \/ (\E e \in {"retry", "perm", "gone"} : StreamFails(s, e))
  \/ CloseRun(s) \/ CountErrors(s) \/ EndDownloader(s)

NextDl ==
  \/ \E r \in Reader : (\E c \in Chunk, p \in BOOLEAN : Begin(r, c, p)) \/ Ask(r) \/ Retry(r) \/ CancelRead(r) \/ Return(r)
  \/ \E s \in Slot : Downloader(s)
  \/ Tick \/ IdleOut \/ KickerEnds \/ Cooldown \/ StopAll \/ Stopping \/ CloseAll \/ CloseEnds
  \/ \E c \in Chunk : Evicted(c)

\* Every goroutine runs on and every stream ends, if only by the watchdog.
FairDl ==
  /\ \A r \in Reader : WF_dlvars(Ask(r))
  /\ \A s \in Slot : WF_dlvars(Downloader(s))
  /\ WF_dlvars(KickerEnds) /\ WF_dlvars(Stopping) /\ WF_dlvars(CloseEnds)

SpecDl == InitDl /\ [][NextDl]_dlvars /\ FairDl

-----------------------------------------------------------------------------
(* Properties.                                                             *)

\* A read always comes back, whatever ends the downloaders it waits for, and
\* also when the kicker was lost.
ReadReturns == \A r \in Reader : rd[r].at \in {"ask", "wait"} ~> rd[r].at \in {"ok", "err", "gone"}
=============================================================================
