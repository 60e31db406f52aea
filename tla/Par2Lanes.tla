------------------------------ MODULE Par2Lanes ------------------------------
(***************************************************************************)
(* PAR2 repair as decypharr schedules it (pkg/manager/par2_repair.go,      *)
(* par2_backoff.go), the registry that says who handles an entry           *)
(* (repair_handler_registry.go), the damage record the passes work from    *)
(* (pkg/usenet/overlay), and the other actors that meet there: the reader  *)
(* that finds dead segments, the playback router, the sweep and the manual *)
(* re-grab (repair_sweep.go, par2_cold_sweep.go).                          *)
(*                                                                         *)
(* Threads share four locks that are never held together: the registry's,  *)
(* runningMu, urgentMu, and the overlay's lock per entry.  What happens    *)
(* under one of them is one step, so every gap between two is a place      *)
(* where the others can act.  What a pass computes is in Par2Solve.        *)
(***************************************************************************)
EXTENDS Naturals, Sequences, FiniteSets, FiniteSetsExt

CONSTANTS
  Nzb,           \* entries
  Seg,           \* segments of an entry's one video file, 0 .. n
  Worker,        \* urgent workers (Par2UrgentConcurrency)
  Depth,         \* par2QueueDepth
  MaxRun,        \* Policy.MaxRunSegments
  MaxTotal,      \* Policy.MaxTotalSegments
  ViewerRun,     \* viewerMaxRunSegments
  MinSegments,   \* Par2RepairMinSegments, 0 when every damage is queued
  SuspectLimit,  \* par2SuspectAttemptLimit
  MaxReads,      \* bound: dead articles the reader runs into
  MaxAttempts,   \* bound: passes that fail
  MaxRegrabs,    \* bound: re-grabs and manual runs
  Casts          \* bound: which others act and what goes wrong in one
                 \* behaviour, sets of "batch", "now", "router", "sweep",
                 \* "manual", "sticky", "panic", "age", "off", "stop"

VARIABLES
  handler,   \* registry: the claim on an entry
  queue,     \* Par2Repair.queue, the batch channel
  queued,    \* Par2Repair.queued
  deferred,  \* Par2Repair.deferred, loop's pending
  todo,      \* what loop's tick took from pending
  urgent,    \* urgentSet and urgentHeap
  wake,      \* urgentWake holds a token
  running,   \* Par2Repair.running
  state,     \* storage: Par2RepairState
  status,    \* manifest: DeadSegments and their status
  verdict,   \* manifest: FileEntry.Verdict
  files,     \* patch files on disk
  rejected,  \* Store.rejected
  entry,     \* entries that still exist
  on,        \* Par2RepairEnabled
  stopping,  \* p.ctx is cancelled
  pc, nz,    \* per thread: where it is, the entry it is about
  pend,      \* per thread: the damage read at the start of the pass
  flag,      \* per thread: terminal or preempted, runJob's two booleans
  cast,      \* the member of Casts, never changed
  reads, failed, regrabs,
  owed       \* history: the damage recorded was asked for, and the last
             \* request was accepted

lanes == <<queue, queued, deferred, todo, urgent, wake, running>>
store == <<status, verdict, files, rejected>>
world == <<cast, entry, on, stopping>>
thread == <<pc, nz, pend, flag>>
bounds == <<reads, failed, regrabs>>
vars == <<handler, lanes, state, store, world, thread, bounds, owed>>

Now == {<<"now", n>> : n \in Nzb}
Loop == <<"loop">>
Router == <<"router">>   \* a playback failure
Sweeper == <<"sweep">>
Manual == <<"manual">>
Reader == <<"reader">>
Runner == Worker \cup Now \cup {Loop}
Thread == Runner \cup {Router, Sweeper, Manual, Reader}

lane(t) == IF t \in Worker THEN "urgent" ELSE "batch"

None == "none"

\* Goroutines are told apart.
ASSUME ThreadAssumption ==
  /\ Nzb # {}
  /\ Worker \cap (Now \cup {Loop, Router, Sweeper, Manual, Reader, <<None>>}) = {}

NoJob == [by |-> <<None>>, preempted |-> FALSE, merged |-> FALSE]
Fresh == [suspect |-> 0, terminal |-> FALSE, wait |-> FALSE]
Clean == [s \in Seg |-> "ok"]

goto(t, l) == pc' = [pc EXCEPT ![t] = l]
setHandler(n, h) == handler' = [handler EXCEPT ![n] = h]
-----------------------------------------------------------------------------
(* The registry.  A terminal mark is handlerNone with terminal set.        *)

isPar2Claim(h) == h \in {"queued", "running"}
live(n) == handler[n] \notin {None, "terminal"}

\* An existing PAR2 claim is kept; a terminal mark is taken over.
ClaimPar2Queued(n) == ~live(n) \/ isPar2Claim(handler[n])
claimed(n) == IF live(n) THEN handler[n] ELSE "queued"

EnsurePar2Running(n) ==
  setHandler(n, IF handler[n] = None \/ isPar2Claim(handler[n]) THEN "running"
                                                                ELSE handler[n])
ReleasePar2(n) == setHandler(n, IF isPar2Claim(handler[n]) THEN None ELSE handler[n])
MarkTerminalPar2(n) ==
  setHandler(n, IF handler[n] = "regrab" THEN "regrab" ELSE "terminal")

TryAcquire(n) == handler[n] = None
TryAcquireRegrab(n) == ~live(n)

\* Release: never over a terminal mark.
release(h) == IF h = "terminal" THEN h ELSE None

\* Set overrides a live claim.
Set(n, h) == setHandler(n, h)

\* A claim past its TTL is dropped by the next caller that looks.  A running
\* claim outlives the longest pass, so only an abandoned one ages.
reapIfStale(n) ==
  /\ "age" \in cast
  /\ \/ handler[n] \in {"queued", "regrab"}
     \/ handler[n] = "running" /\ running[n] = NoJob
  /\ setHandler(n, None)
  /\ UNCHANGED <<lanes, state, store, world, thread, bounds, owed>>
-----------------------------------------------------------------------------
(* The overlay: one file's dead segments and its verdict.                  *)

unpatched(st) == {s \in Seg : st[s] \in {"dead", "padded"}}
Pending(n) == unpatched(status[n])

longestRun(S) == Max({0} \cup {r \in 1 .. Cardinality(S) : \E i \in S : i .. (i + r - 1) \subseteq S})

\* WithinPadCaps: total, longest run, and no damage in the header region,
\* which is at least the first segment.  Bytes follow the count.
WithinPadCaps(S, run, total) ==
  /\ Cardinality(S) <= total
  /\ longestRun(S) <= run
  /\ 0 \notin S

recomputeVerdict(v, st) ==
  IF v = "failed" THEN v
  ELSE IF unpatched(st) # {} THEN "degraded" ELSE "clean"

\* decide under the entry's lock; the viewer may be padded past the caps.
Decide(n, s, viewer) ==
  LET st   == [status[n] EXCEPT ![s] = IF @ = "ok" THEN "dead" ELSE @]
      hurt == unpatched(st)
      caps == WithinPadCaps(hurt, MaxRun, MaxTotal)
      pad  == \/ caps /\ verdict[n] # "failed"
              \/ viewer /\ WithinPadCaps(hurt, ViewerRun, Cardinality(Seg))
  IN  /\ n \notin rejected
      /\ verdict[n] # "failed" \/ viewer
      /\ status' = [status EXCEPT ![n] = IF pad THEN [st EXCEPT ![s] = "padded"] ELSE st]
      /\ verdict' = [verdict EXCEPT ![n] =
                       IF caps /\ @ # "failed" THEN "degraded" ELSE "failed"]
      /\ UNCHANGED <<files, rejected>>

\* The patch file, then the manifest.
WritePatch(n, s) ==
  /\ files' = files \cup {<<n, s>>}
  /\ status' = [status EXCEPT ![n][s] = "patched"]
  /\ verdict' = [verdict EXCEPT ![n] = recomputeVerdict(@, status'[n])]
  /\ UNCHANGED rejected

UnfailRepaired(n) ==
  /\ verdict' = [verdict EXCEPT ![n] =
       IF @ = "failed" /\ n \notin rejected /\ status[n] # Clean /\ Pending(n) = {}
       THEN "clean" ELSE @]
  /\ UNCHANGED <<status, files, rejected>>

\* Mutant: the record is dropped without fencing the entry first.
DeleteUnfenced(n) ==
  /\ entry' = entry \ {n}
  /\ UNCHANGED <<status, verdict, files, rejected, cast, on, stopping>>

\* Usenet.Delete: the NZB record goes and the entry is rejected...
Delete(n) ==
  /\ entry' = entry \ {n}
  /\ rejected' = rejected \cup {n}
  /\ UNCHANGED <<status, verdict, files, cast, on, stopping>>

\* ...then its overlay is removed, under the overlay's lock.
DeleteEntry(n) ==
  /\ status' = [status EXCEPT ![n] = Clean]
  /\ verdict' = [verdict EXCEPT ![n] = "clean"]
  /\ files' = {f \in files : f[1] # n}
  /\ UNCHANGED rejected

\* ClearFileDamage: patches are kept, the rest of the record goes.
ClearFileDamage(n) ==
  /\ Pending(n) # {}
  /\ status' = [status EXCEPT ![n] = [s \in Seg |-> IF @[s] = "patched" THEN @[s] ELSE "ok"]]
  /\ verdict' = [verdict EXCEPT ![n] = "clean"]
  /\ UNCHANGED <<files, rejected>>
-----------------------------------------------------------------------------
Init ==
  /\ handler = [n \in Nzb |-> None]
  /\ queue = <<>> /\ queued = {} /\ deferred = {} /\ todo = {}
  /\ urgent = {} /\ wake = FALSE
  /\ running = [n \in Nzb |-> NoJob]
  /\ state = [n \in Nzb |-> Fresh]
  /\ status = [n \in Nzb |-> Clean] /\ verdict = [n \in Nzb |-> "clean"]
  /\ files = {} /\ rejected = {} /\ entry = Nzb
  /\ on = TRUE /\ stopping = FALSE
  /\ pc = [t \in Thread |-> "idle"]
  /\ nz = [t \in Thread |-> CHOOSE n \in Nzb : TRUE]
  /\ pend = [t \in Thread |-> {}] /\ flag = [t \in Thread |-> ""]
  /\ cast \in Casts
  /\ reads = 0 /\ failed = 0 /\ regrabs = 0
  /\ owed = [n \in Nzb |-> FALSE]

\* par2ShouldAutoEnqueue: not terminal, not inside the backoff.
par2ShouldAutoEnqueue(n) == ~state[n].terminal /\ ~state[n].wait

handledByUrgent(n) ==
  n \in urgent \/ (running[n] # NoJob /\ lane(running[n].by) = "urgent")
-----------------------------------------------------------------------------
(* enqueueUrgent: the gate and the merge, the claim, the preemption, the   *)
(* push; four locks, four steps of the calling thread t.                   *)

\* Where a thread goes on when enqueueUrgent returns.
returned(t) == IF t \in Now THEN "leave" ELSE "idle"

\* The gate, then mergeIntoRunningUrgent.
Merge(t) ==
  LET n == nz[t] IN
  /\ pc[t] = "merge"
  /\ IF ~par2ShouldAutoEnqueue(n)
     THEN /\ goto(t, returned(t))
          /\ owed' = [owed EXCEPT ![n] = FALSE]
          /\ UNCHANGED running
     ELSE IF running[n] # NoJob /\ lane(running[n].by) = "urgent"
     THEN /\ running' = [running EXCEPT ![n].merged = TRUE]
          /\ goto(t, returned(t))
          /\ owed' = [owed EXCEPT ![n] = TRUE]
     ELSE goto(t, "claimq") /\ UNCHANGED <<running, owed>>
  /\ UNCHANGED <<handler, queue, queued, deferred, todo, urgent, wake, state, store,
                 world, nz, pend, flag, bounds>>

Claim(t) ==
  LET n == nz[t] IN
  /\ pc[t] = "claimq"
  /\ IF ClaimPar2Queued(n)
     THEN setHandler(n, claimed(n)) /\ goto(t, "preempt") /\ UNCHANGED owed
     ELSE /\ goto(t, returned(t)) /\ UNCHANGED handler
          /\ owed' = [owed EXCEPT ![n] = FALSE]
  /\ UNCHANGED <<lanes, state, store, world, nz, pend, flag, bounds>>

\* A batch pass is told to give way: marked, and its context cancelled.
Preempt(t) ==
  LET n == nz[t] IN
  /\ pc[t] = "preempt"
  /\ running' = [running EXCEPT ![n].preempted =
                   @ \/ (running[n] # NoJob /\ lane(running[n].by) = "batch")]
  /\ goto(t, "push")
  /\ UNCHANGED <<handler, queue, queued, deferred, todo, urgent, wake, state, store,
                 world, nz, pend, flag, bounds, owed>>

\* One item per entry; the wake-up never blocks.  The heap orders by
\* proximity: here any item may be next.
Push(t) ==
  LET n == nz[t] IN
  /\ pc[t] = "push"
  /\ urgent' = urgent \cup {n}
  /\ wake' = (wake \/ n \notin urgent)
  /\ goto(t, returned(t))
  /\ owed' = [owed EXCEPT ![n] = TRUE]
  /\ UNCHANGED <<handler, queue, queued, deferred, todo, running, state, store, world,
                 nz, pend, flag, bounds>>

EnqueueUrgent(t) == Merge(t) \/ Claim(t) \/ Preempt(t) \/ Push(t)
-----------------------------------------------------------------------------
(* The two lanes.                                                          *)

\* popUrgent: a worker with an item to take, or a token to use up.
PopUrgent(w) ==
  /\ pc[w] = "idle"
  /\ \/ /\ \E n \in urgent :
             /\ urgent' = urgent \ {n}
             /\ nz' = [nz EXCEPT ![w] = n]
             /\ IF on
                THEN goto(w, "claim") /\ UNCHANGED <<handler, owed>>
                ELSE /\ ReleasePar2(n) /\ UNCHANGED pc
                     /\ owed' = [owed EXCEPT ![n] = FALSE]
        /\ UNCHANGED wake
     \/ /\ urgent = {} /\ ~stopping
        /\ goto(w, "asleep")
        /\ UNCHANGED <<urgent, wake, nz, handler, owed>>
     \/ /\ urgent = {} /\ stopping
        /\ goto(w, "gone")
        /\ UNCHANGED <<urgent, wake, nz, handler, owed>>
  /\ UNCHANGED <<queue, queued, deferred, todo, running, state, store, world,
                 pend, flag, bounds>>

Wake(w) ==
  /\ pc[w] = "asleep"
  /\ \/ wake /\ wake' = FALSE /\ goto(w, "idle")
     \/ stopping /\ goto(w, "gone") /\ UNCHANGED wake
  /\ UNCHANGED <<handler, queue, queued, deferred, todo, urgent, running, state, store,
                 world, nz, pend, flag, bounds, owed>>

\* Enqueue: the gate, the claim, the dedup, the channel.
Enqueue(n) ==
  /\ "batch" \in cast /\ ~stopping
  /\ par2ShouldAutoEnqueue(n) /\ ~handledByUrgent(n)
  /\ Pending(n) # {}
  /\ TryAcquire(n)
  /\ IF n \in queued
     THEN setHandler(n, "queued") /\ UNCHANGED <<queue, queued>>
     ELSE /\ Len(queue) < Depth
          /\ setHandler(n, "queued")
          /\ queue' = Append(queue, n) /\ queued' = queued \cup {n}
  /\ UNCHANGED <<deferred, todo, urgent, wake, running, state, store, world,
                 thread, bounds, owed>>

\* loop: the channel's next entry runs, waits for the repair window (which
\* may be open or closed), or is left to the urgent lane.
LoopTake ==
  /\ pc[Loop] = "idle" /\ todo = {} /\ queue # <<>>
  /\ LET n == Head(queue) IN
     /\ queue' = Tail(queue) /\ queued' = queued \ {n}
     /\ nz' = [nz EXCEPT ![Loop] = n]
     /\ IF handledByUrgent(n) THEN UNCHANGED <<pc, deferred>>
        ELSE \/ on /\ goto(Loop, "claim") /\ UNCHANGED deferred
             \/ deferred' = deferred \cup {n} /\ UNCHANGED pc
  /\ UNCHANGED <<handler, todo, urgent, wake, running, state, store, world, pend, flag,
                 bounds, owed>>

\* loop: the tick runs what was deferred, one after another.
LoopTick ==
  /\ pc[Loop] = "idle"
  /\ \/ /\ todo = {} /\ deferred # {} /\ on
        /\ todo' = deferred /\ deferred' = {}
        /\ UNCHANGED <<pc, nz>>
     \/ \E n \in todo :
        /\ todo' = todo \ {n}
        /\ nz' = [nz EXCEPT ![Loop] = n]
        /\ IF handledByUrgent(n) THEN UNCHANGED pc ELSE goto(Loop, "claim")
        /\ UNCHANGED deferred
  /\ UNCHANGED <<handler, queue, queued, urgent, wake, running, state, store, world, pend,
                 flag, bounds, owed>>

LoopStops ==
  /\ pc[Loop] = "idle" /\ stopping
  /\ goto(Loop, "gone")
  /\ UNCHANGED <<handler, lanes, state, store, world, nz, pend, flag, bounds, owed>>

\* RunNow: refuses while a pass is running or queued, then reserves the slot.
\* IsRunning, urgentSet and queued are read under three locks.
RunNow(n) ==
  LET t == <<"now", n>> IN
  /\ "now" \in cast /\ on /\ ~stopping /\ regrabs < MaxRegrabs
  /\ pc[t] = "idle"
  /\ running[n] = NoJob /\ n \notin urgent
  /\ goto(t, "reserve")
  /\ nz' = [nz EXCEPT ![t] = n]
  /\ regrabs' = regrabs + 1
  /\ UNCHANGED <<handler, lanes, state, store, world, pend, flag, reads, failed, owed>>

Reserve(n) ==
  LET t == <<"now", n>> IN
  /\ pc[t] = "reserve"
  /\ IF n \in queued \cup deferred
     THEN goto(t, "idle") /\ UNCHANGED queued
     ELSE queued' = queued \cup {n} /\ goto(t, "override")
  /\ UNCHANGED <<handler, queue, deferred, todo, urgent, wake, running, state, store,
                 world, nz, pend, flag, bounds, owed>>

\* The claim is taken whatever held it.
Override(n) ==
  LET t == <<"now", n>> IN
  /\ pc[t] = "override"
  /\ Set(n, "running")
  /\ goto(t, "claim")
  /\ UNCHANGED <<lanes, state, store, world, nz, pend, flag, bounds, owed>>

\* The goroutine's last act.
Leave(n) ==
  LET t == <<"now", n>> IN
  /\ pc[t] = "leave"
  /\ queued' = queued \ {n}
  /\ goto(t, "idle")
  /\ UNCHANGED <<handler, queue, deferred, todo, urgent, wake, running, state, store,
                 world, nz, pend, flag, bounds, owed>>
-----------------------------------------------------------------------------
(* runJob.                                                                 *)

\* Mutant: a busy entry is taken over at once.
ClaimRunTakes(t) ==
  LET n == nz[t] IN
  /\ pc[t] = "claim"
  /\ running' = [running EXCEPT ![n] = [NoJob EXCEPT !.by = t]]
  /\ goto(t, "start")
  /\ UNCHANGED <<handler, queue, queued, deferred, todo, urgent, wake, state, store,
                 world, nz, pend, flag, bounds, owed>>

\* claimRun: free, busy (an urgent request is queued again), or preempted,
\* which is waited out.
ClaimRun(t) ==
  LET n == nz[t] IN
  /\ pc[t] = "claim"
  /\ \/ /\ running[n] = NoJob
        /\ running' = [running EXCEPT ![n] = [NoJob EXCEPT !.by = t]]
        /\ goto(t, "start")
     \/ /\ running[n] # NoJob
        /\ ~running[n].preempted \/ stopping
        /\ goto(t, IF lane(t) = "urgent" /\ ~stopping THEN "merge" ELSE returned(t))
        /\ UNCHANGED running
  /\ UNCHANGED <<handler, queue, queued, deferred, todo, urgent, wake, state, store,
                 world, nz, pend, flag, bounds, owed>>

\* recordPar2Outcome: the attempt and the class go into storage; too many
\* suspects are terminal.
recorded(n, class) ==
  LET k == state[n].suspect + (IF class = "suspect" THEN 1 ELSE 0)
      term == class = "terminal" \/ (class = "suspect" /\ k >= SuspectLimit)
  IN  /\ state' = [state EXCEPT ![n] = [suspect |-> k, terminal |-> term, wait |-> ~term]]
      /\ owed' = [owed EXCEPT ![n] = FALSE]

\* The claim becomes running; the entry may be gone, the damage repaired by
\* now, the overlay unreadable; else the pass works from what it reads here.
StartPass(t) ==
  LET n == nz[t] IN
  /\ pc[t] = "start"
  /\ EnsurePar2Running(n)
  /\ IF n \notin entry
     THEN /\ recorded(n, "terminal")
          /\ flag' = [flag EXCEPT ![t] = "terminal"]
          /\ goto(t, "defer") /\ UNCHANGED <<pend, store>>
     ELSE IF Pending(n) = {}
     THEN UnfailRepaired(n) /\ goto(t, "defer") /\ UNCHANGED <<pend, flag, state, owed>>
     ELSE /\ pend' = [pend EXCEPT ![t] = Pending(n)]
          /\ goto(t, "repair") /\ UNCHANGED <<flag, state, store, owed>>
  /\ UNCHANGED <<lanes, world, nz, bounds>>

\* A patch is written under the overlay's lock; the entry may be deleted.
Patch(t) ==
  LET n == nz[t] IN
  /\ pc[t] = "repair"
  /\ \E s \in pend[t] :
       /\ n \notin rejected
       /\ WritePatch(n, s)
       /\ pend' = [pend EXCEPT ![t] = @ \ {s}]
  /\ UNCHANGED <<handler, lanes, state, world, pc, nz, flag, bounds, owed>>

\* runRepair fails: with the context (preempted, stopped, idle or timed out),
\* or with a class; a rejected entry's patch is refused.
PassFails(t) ==
  LET n == nz[t] IN
  /\ pc[t] = "repair" /\ pend[t] # {}
  /\ IF running[n].by = t /\ running[n].preempted
     THEN /\ flag' = [flag EXCEPT ![t] = "preempted"]
          /\ goto(t, "defer") /\ UNCHANGED <<state, owed, failed>>
     ELSE /\ stopping \/ n \in rejected \/ failed < MaxAttempts
          /\ failed' = IF failed < MaxAttempts THEN failed + 1 ELSE failed
          /\ \E class \in (IF stopping \/ n \in rejected THEN {"transient"}
                           ELSE {"transient", "suspect", "terminal"}) :
               /\ recorded(n, class)
               /\ flag' = [flag EXCEPT ![t] = IF state'[n].terminal THEN "terminal" ELSE ""]
               /\ goto(t, IF state'[n].terminal /\ lane(t) = "urgent" THEN "regrab" ELSE "defer")
  /\ UNCHANGED <<handler, lanes, store, world, nz, pend, reads, regrabs>>

\* The pass panics: the claim is released on the way out, and only then the
\* outcome is recorded as transient.
PassPanics(t) ==
  /\ \/ /\ "panic" \in cast /\ failed < MaxAttempts /\ failed' = failed + 1
        /\ pc[t] = "repair"
        /\ flag' = [flag EXCEPT ![t] = "panic"]
        /\ goto(t, "defer")
        /\ UNCHANGED <<state, owed>>
     \/ /\ pc[t] = "recover"
        /\ recorded(nz[t], "transient")
        /\ goto(t, "deregister")
        /\ UNCHANGED <<flag, failed>>
  /\ UNCHANGED <<handler, lanes, store, world, nz, pend, reads, regrabs>>

\* regrabOnTerminal: the urgent lane re-grabs at once, under its own claim;
\* the cooldown, the guard or a missing Arr may refuse.
RegrabOnTerminal(t) ==
  /\ \/ /\ pc[t] = "regrab"
        /\ \/ Delete(nz[t]) /\ goto(t, "purge")
           \/ UNCHANGED <<store, world>> /\ goto(t, "defer")
     \/ /\ pc[t] = "purge"
        /\ DeleteEntry(nz[t]) /\ goto(t, "defer") /\ UNCHANGED world
  /\ UNCHANGED <<handler, lanes, state, nz, pend, flag, bounds, owed>>

\* Every pending segment is patched.
PassSucceeds(t) ==
  LET n == nz[t] IN
  /\ pc[t] = "repair" /\ pend[t] = {}
  /\ state' = [state EXCEPT ![n] = Fresh]
  /\ UnfailRepaired(n)
  /\ goto(t, "defer")
  /\ UNCHANGED <<handler, lanes, world, nz, pend, flag, bounds, owed>>

\* The first deferred function: the claim.
ReleaseClaim(t) ==
  LET n == nz[t] IN
  /\ pc[t] = "defer"
  /\ CASE flag[t] = "terminal"  -> MarkTerminalPar2(n)
       [] flag[t] = "preempted" -> UNCHANGED handler
       [] OTHER                 -> ReleasePar2(n)
  /\ flag' = [flag EXCEPT ![t] = ""]
  /\ pend' = [pend EXCEPT ![t] = {}]
  /\ goto(t, IF flag[t] = "panic" THEN "recover" ELSE "deregister")
  /\ UNCHANGED <<lanes, state, store, world, nz, bounds, owed>>

\* Mutant: a pass that received requests ends without a second look.
FollowUpForgotten(t) ==
  LET n == nz[t] IN
  /\ pc[t] = "deregister"
  /\ running' = [running EXCEPT ![n] = IF @.by = t THEN NoJob ELSE @]
  /\ goto(t, returned(t))
  /\ UNCHANGED <<handler, queue, queued, deferred, todo, urgent, wake, state, store,
                 world, nz, pend, flag, bounds, owed>>

\* releaseRunNamed, then followUpMerged: requests merged into this pass and
\* damage still recorded ask for one more.
Deregister(t) ==
  LET n == nz[t] IN
  /\ pc[t] = "deregister"
  /\ running' = [running EXCEPT ![n] = IF @.by = t THEN NoJob ELSE @]
  /\ goto(t, IF running[n].merged /\ ~stopping /\ Pending(n) # {}
             THEN "merge" ELSE returned(t))
  /\ UNCHANGED <<handler, queue, queued, deferred, todo, urgent, wake, state, store,
                 world, nz, pend, flag, bounds, owed>>

RunJob(t) ==
  \/ ClaimRun(t) \/ StartPass(t) \/ Patch(t) \/ PassFails(t) \/ PassPanics(t)
  \/ RegrabOnTerminal(t) \/ PassSucceeds(t) \/ ReleaseClaim(t) \/ Deregister(t)
-----------------------------------------------------------------------------
(* The reader: handleConfirmedMissing and the repair it asks for.          *)

\* No patch for the segment at this moment.
FindDead(n, s) ==
  /\ pc[Reader] = "idle" /\ reads < MaxReads /\ reads' = reads + 1
  /\ status[n][s] # "patched"
  /\ nz' = [nz EXCEPT ![Reader] = n]
  /\ pend' = [pend EXCEPT ![Reader] = {s}]
  /\ goto(Reader, "decide")
  /\ UNCHANGED <<handler, lanes, state, store, world, flag, failed, regrabs, owed>>

\* AutoEnqueue: small damage waits, unless somebody is watching.
autoEnqueueAllowed(dead, watched) == on /\ (watched \/ dead >= MinSegments)

\* The decision is recorded; a pad asks for a repair.
DecidePad(viewer) ==
  LET n == nz[Reader] IN
  /\ pc[Reader] = "decide"
  /\ \E s \in pend[Reader] :
       \/ /\ Decide(n, s, viewer)
          /\ IF status'[n][s] = "padded" /\ autoEnqueueAllowed(Cardinality(unpatched(status'[n])), viewer)
             THEN goto(Reader, "merge") /\ UNCHANGED owed
             ELSE goto(Reader, "idle") /\ owed' = [owed EXCEPT ![n] = FALSE]
       \/ /\ n \in rejected \/ (verdict[n] = "failed" /\ ~viewer)
          /\ goto(Reader, "idle")
          /\ UNCHANGED <<store, owed>>
  /\ pend' = [pend EXCEPT ![Reader] = {}]
  /\ UNCHANGED <<handler, lanes, state, world, nz, flag, bounds>>
-----------------------------------------------------------------------------
(* The re-grabbers.                                                        *)

\* par2Usable, as far as the schedule goes: enabled and not terminal.
par2Usable(n) == on /\ ~state[n].terminal

\* handleAutoDamage for playback: PAR2 while it is usable, a re-grab when it
\* is not and the verdict is failed, nothing for a padded file.
Route(n) ==
  /\ "router" \in cast
  /\ pc[Router] = "idle" /\ n \in entry /\ ~stopping
  /\ verdict[n] # "clean"
  /\ UnfailRepaired(n)
  /\ nz' = [nz EXCEPT ![Router] = n]
  /\ \/ /\ verdict'[n] # "clean" /\ par2Usable(n)
        /\ reads < MaxReads /\ reads' = reads + 1
        /\ goto(Router, "merge")
        /\ UNCHANGED <<handler, flag, regrabs>>
     \/ /\ verdict'[n] = "failed" /\ ~par2Usable(n)
        /\ regrabs < MaxRegrabs /\ regrabs' = regrabs + 1
        /\ TryAcquireRegrab(n)
        /\ flag' = [flag EXCEPT ![Router] = IF handler[n] = "terminal" THEN "terminal" ELSE ""]
        /\ setHandler(n, "regrab")
        /\ goto(Router, "regrabbing")
        /\ UNCHANGED reads
  /\ UNCHANGED <<lanes, state, world, pend, failed, owed>>

\* The re-grab replaces the release, or the cooldown, the guard or the Arr
\* refuses.
Replace(t) ==
  /\ pc[t] = "regrabbing"
  /\ Delete(nz[t])
  /\ goto(t, "purge")
  /\ UNCHANGED <<handler, lanes, state, nz, pend, flag, bounds, owed>>

regrabEnds(t) ==
  \/ pc[t] = "regrabbing" /\ UNCHANGED <<store, world>>
  \/ pc[t] = "purge" /\ DeleteEntry(nz[t]) /\ UNCHANGED world

\* The claim is given back; a terminal mark that was taken over is restored.
RouteEnds ==
  LET n == nz[Router] IN
  /\ regrabEnds(Router)
  /\ setHandler(n, IF flag[Router] = "terminal" THEN "terminal" ELSE release(handler[n]))
  /\ flag' = [flag EXCEPT ![Router] = ""]
  /\ goto(Router, "idle")
  /\ UNCHANGED <<lanes, state, nz, pend, bounds, owed>>

\* routeAutoRepair: the sweep claims the entry it found damaged, over a live
\* claim only when storage says PAR2 gave up.
Sweep(n) ==
  /\ "sweep" \in cast
  /\ pc[Sweeper] = "idle" /\ n \in entry /\ ~stopping
  /\ Pending(n) # {} /\ regrabs < MaxRegrabs /\ regrabs' = regrabs + 1
  /\ \/ TryAcquire(n) /\ setHandler(n, "regrab")
     \/ ~TryAcquire(n) /\ state[n].terminal /\ Set(n, "regrab")
  /\ nz' = [nz EXCEPT ![Sweeper] = n]
  /\ goto(Sweeper, "regrabbing")
  /\ UNCHANGED <<lanes, state, store, world, pend, flag, reads, failed, owed>>

\* coldSweepRepair (and warmSweepRepair): one pass of the sweep's own before
\* the re-grab, through RunNow; a pass already in flight is waited for.
ColdSweep ==
  LET n == nz[Sweeper]  t == <<"now", n>> IN
  /\ pc[Sweeper] = "regrabbing" /\ flag[Sweeper] = ""
  /\ Pending(n) # {} /\ par2Usable(n)
  /\ pc' = [pc EXCEPT ![Sweeper] = "cold",
                      ![t] = IF @ = "idle" /\ running[n] = NoJob /\ n \notin urgent
                             THEN "reserve" ELSE @]
  /\ nz' = [nz EXCEPT ![t] = n]
  /\ flag' = [flag EXCEPT ![Sweeper] = "tried"]
  /\ UNCHANGED <<handler, lanes, state, store, world, pend, bounds, owed>>

\* runNowAndWait returns: a completed pass spares the release, a failed one
\* takes the claim back for the re-grab.
ColdSweepEnds ==
  LET n == nz[Sweeper] IN
  /\ pc[Sweeper] = "cold"
  /\ pc[<<"now", n>>] = "idle"
  /\ running[n] = NoJob /\ n \notin urgent \cup queued \cup deferred
  /\ \/ /\ goto(Sweeper, "idle")
        /\ flag' = [flag EXCEPT ![Sweeper] = ""]
        /\ setHandler(n, IF handler[n] = "regrab" THEN None ELSE handler[n])
     \/ /\ Pending(n) # {} \/ n \notin entry
        /\ goto(Sweeper, "regrabbing")
        /\ Set(n, "regrab")
        /\ UNCHANGED flag
  /\ UNCHANGED <<lanes, state, store, world, nz, pend, bounds, owed>>

\* healBrokenEntry, then releaseRegrabClaims: only a re-grab's own claim.
SweepEnds ==
  LET n == nz[Sweeper] IN
  /\ regrabEnds(Sweeper)
  /\ setHandler(n, IF handler[n] = "regrab" THEN None ELSE handler[n])
  /\ flag' = [flag EXCEPT ![Sweeper] = ""]
  /\ goto(Sweeper, "idle")
  /\ UNCHANGED <<lanes, state, nz, pend, bounds, owed>>

\* Delete & re-search by hand: the claim is overridden, the release replaced.
Research(n) ==
  /\ "manual" \in cast
  /\ pc[Manual] = "idle" /\ n \in entry /\ ~stopping
  /\ regrabs < MaxRegrabs /\ regrabs' = regrabs + 1
  /\ Set(n, "regrab")
  /\ nz' = [nz EXCEPT ![Manual] = n]
  /\ goto(Manual, "regrabbing")
  /\ UNCHANGED <<lanes, state, store, world, pend, flag, reads, failed, owed>>

ResearchEnds ==
  LET n == nz[Manual] IN
  /\ regrabEnds(Manual)
  /\ setHandler(n, release(handler[n]))
  /\ goto(Manual, "idle")
  /\ UNCHANGED <<lanes, state, nz, pend, flag, bounds, owed>>

\* The sticky-failed pass clears a recovered file's damage.
Recovered(n) ==
  /\ "sticky" \in cast
  /\ verdict[n] = "failed" /\ ~stopping
  /\ ClearFileDamage(n)
  /\ UNCHANGED <<handler, lanes, state, world, thread, bounds, owed>>
-----------------------------------------------------------------------------
(* The surroundings.                                                       *)

BackoffElapses(n) ==
  /\ state[n].wait
  /\ state' = [state EXCEPT ![n].wait = FALSE]
  /\ UNCHANGED <<handler, lanes, store, world, thread, bounds, owed>>

Disable ==
  /\ "off" \in cast /\ on /\ on' = FALSE
  /\ UNCHANGED <<handler, lanes, state, store, cast, entry, stopping, thread, bounds, owed>>

Stop ==
  /\ "stop" \in cast /\ ~stopping /\ stopping' = TRUE
  /\ UNCHANGED <<handler, lanes, state, store, cast, entry, on, thread, bounds, owed>>

Next ==
  \/ \E t \in Thread : EnqueueUrgent(t)
  \/ \E w \in Worker : PopUrgent(w) \/ Wake(w)
  \/ \E t \in Runner : RunJob(t)
  \/ LoopTake \/ LoopTick \/ LoopStops
  \/ \E n \in Nzb : Enqueue(n) \/ RunNow(n) \/ Reserve(n) \/ Override(n) \/ Leave(n)
  \/ \E n \in Nzb, s \in Seg : FindDead(n, s)
  \/ \E v \in BOOLEAN : DecidePad(v)
  \/ \E n \in Nzb : Route(n) \/ Sweep(n) \/ Research(n) \/ Recovered(n)
  \/ \E t \in {Router, Sweeper, Manual} : Replace(t)
  \/ ColdSweep \/ ColdSweepEnds \/ RouteEnds \/ SweepEnds \/ ResearchEnds
  \/ \E n \in Nzb : BackoffElapses(n) \/ reapIfStale(n)
  \/ Disable \/ Stop

Spec == Init /\ [][Next]_vars

\* Goroutines run; a pass ends, by its timeout if by nothing else.
Fairness ==
  /\ \A t \in Thread : WF_vars(EnqueueUrgent(t))
  /\ \A w \in Worker : WF_vars(PopUrgent(w)) /\ WF_vars(Wake(w))
  /\ \A t \in Runner : WF_vars(RunJob(t))
  /\ WF_vars(LoopStops)
  /\ \A n \in Nzb : WF_vars(Reserve(n) \/ Override(n) \/ Leave(n))
FairSpec == Spec /\ Fairness
-----------------------------------------------------------------------------
InPass(t) == pc[t] \in {"repair", "regrab", "purge"}

TypeOK ==
  /\ handler \in [Nzb -> {None, "queued", "running", "regrab", "terminal"}]
  /\ queue \in Seq(Nzb) /\ Len(queue) <= Depth
  /\ queued \subseteq Nzb /\ deferred \subseteq Nzb /\ todo \subseteq Nzb
  /\ urgent \subseteq Nzb
  /\ status \in [Nzb -> [Seg -> {"ok", "dead", "padded", "patched"}]]
  /\ verdict \in [Nzb -> {"clean", "degraded", "failed"}]

\* At most one pass works on an entry, whichever lane, however it was asked
\* for: a preempted batch pass is waited out, not joined (par2_repair.go
\* 296-299).
OnePass ==
  \A t, u \in Runner : t # u /\ InPass(t) /\ InPass(u) => nz[t] # nz[u]

\* The record of a deleted entry stays deleted, whatever was in flight on
\* it: no manifest, no patch file (usenet.go 2970-2980).
DeletedStaysDeleted ==
  \A n \in Nzb \ entry :
    \/ \E t \in Thread : pc[t] = "purge" /\ nz[t] = n
    \/ status[n] = Clean /\ \A s \in Seg : <<n, s>> \notin files

\* An accepted request is followed up until nothing is pending: whatever the
\* reader recorded behind a running pass, the damage is repaired, or the
\* last pass failed and said so, or PAR2 is off or shutting down.
DamageIsChased ==
  \A n \in Nzb : owed[n] ~> (~owed[n] \/ Pending(n) = {} \/ stopping \/ n \notin entry)
=============================================================================
