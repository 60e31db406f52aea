----------------------------- MODULE RepairPool -----------------------------
(***************************************************************************)
(* The shared worker pool of BatchStat (internal/nntp/repair_pool.go) and  *)
(* the eligibility rule of its workers (stat_routing.go): callers submit   *)
(* the chunks of one call to a bounded channel and wait for all of them;   *)
(* each worker is homed on a provider and takes chunks while that provider *)
(* answers fast enough, or as its single explorer.                         *)
(*                                                                         *)
(* The age of a provider's last sample is one bit: younger than its        *)
(* re-test wait or not.  What a chunk does to its IDs is module            *)
(* StatVerdict; here it only takes time and leaves latency samples.        *)
(***************************************************************************)
EXTENDS Integers, Sequences, FiniteSets, FiniteSetsExt

CONSTANTS
  Home,        \* c.statHomes
  Worker,
  HomeOf,      \* the provider each worker is homed on
  Metered,     \* homes with a hard bandwidth quota
  Latency,     \* per-STAT latencies a sample may leave behind
  Floor,       \* statLatencyFloor
  SlowFactor,  \* statSlowFactor
  LeaveFactor, \* statLeaveFactor
  Call,        \* BatchStat calls
  NChunks      \* chunks of each call

HomeAssumption ==
  /\ IsFiniteSet(Worker) /\ HomeOf \in [Worker -> Home] /\ Metered \subseteq Home
LatencyAssumption ==
  /\ IsFiniteSet(Latency) /\ Latency \subseteq Nat \ {0} /\ Floor \in Nat \ {0}
  /\ SlowFactor \in Nat \ {0} /\ LeaveFactor \in Nat /\ LeaveFactor >= SlowFactor
ChunkAssumption == NChunks \in Nat \ {0}

Chunk == Call \X (1..NChunks)

VARIABLES
  tasks,     \* p.tasks
  quit,      \* p.quit is closed
  closed,    \* c.closed
  worker,    \* each worker: "loop", "sleep", "select", "run" or "exited"
  role,      \* workers whose local `exploring` is set
  job,       \* the chunk each running worker holds, or the empty set
  lat,       \* stat.nsPerStat, 0 = never measured
  fresh,     \* stat.sampledAt is younger than the re-test wait
  exploring, \* stat.exploring
  elig,      \* stat.eligible
  blocked,   \* homes over their hard quota
  caller,    \* each call: "idle", "check", "send", "wait" or "returned"
  next,      \* index of the chunk a call submits next
  ctxDone,   \* calls whose context is done
  wg,        \* the call's WaitGroup
  fate       \* each chunk: "new", "queued", "running", "done", "refused"

pvars == <<worker, role, job, exploring, elig>>
svars == <<lat, fresh, blocked>>
cvars == <<caller, next, ctxDone>>
vars  == <<tasks, quit, closed, pvars, svars, cvars, wg, fate>>

TypeOK ==
  /\ tasks \in Seq(Chunk) /\ Len(tasks) <= Cardinality(Worker)
  /\ quit \in BOOLEAN /\ closed \in BOOLEAN
  /\ worker \in [Worker -> {"loop", "sleep", "select", "run", "exited"}]
  /\ role \subseteq Worker
  /\ job \in [Worker -> SUBSET Chunk]
  /\ lat \in [Home -> Latency \cup {0}]
  /\ fresh \in [Home -> BOOLEAN] /\ exploring \in [Home -> BOOLEAN]
  /\ elig \in [Home -> BOOLEAN] /\ blocked \subseteq Metered
  /\ caller \in [Call -> {"idle", "check", "send", "wait", "returned"}]
  /\ next \in [Call -> 1..(NChunks + 1)]
  /\ ctxDone \subseteq Call
  /\ wg \in [Call -> Nat]
  /\ fate \in [Chunk -> {"new", "queued", "running", "done", "refused"}]

Init ==
  /\ tasks = << >> /\ quit = FALSE /\ closed = FALSE
  /\ worker = [w \in Worker |-> "loop"]
  /\ role = {}
  /\ job = [w \in Worker |-> {}]
  /\ lat = [h \in Home |-> 0]
  /\ fresh = [h \in Home |-> FALSE]
  /\ exploring = [h \in Home |-> FALSE]
  /\ elig = [h \in Home |-> FALSE]
  /\ blocked \in SUBSET Metered
  /\ caller = [k \in Call |-> "idle"]
  /\ next = [k \in Call |-> 1]
  /\ ctxDone = {}
  /\ wg = [k \in Call |-> 0]
  /\ fate = [c \in Chunk |-> "new"]

-----------------------------------------------------------------------------
(* Eligibility.                                                            *)

\* Latencies of the measured homes that are not over their quota.
Measured == {lat[h] : h \in {x \in Home \ blocked : lat[x] > 0}}

\* statEligible: measured, not blocked, and within a factor of the fastest
\* measured home, with hysteresis for a home that is eligible already.
statEligible(h) ==
  /\ lat[h] > 0
  /\ h \notin blocked
  /\ LET best   == IF Measured = {} THEN 0 ELSE Min(Measured)
         ref    == Max({best, Floor})
         factor == IF elig[h] THEN LeaveFactor ELSE SlowFactor
     IN  lat[h] <= factor * ref

-----------------------------------------------------------------------------
(* Workers.                                                                *)

\* Eligible: the worker goes to the select.
Ready(w) ==
  /\ worker[w] = "loop"
  /\ statEligible(HomeOf[w])
  /\ elig' = [elig EXCEPT ![HomeOf[w]] = TRUE]
  /\ worker' = [worker EXCEPT ![w] = "select"]
  /\ UNCHANGED <<tasks, quit, closed, role, job, exploring, svars, cvars, wg, fate>>

\* Not eligible, and tryExplore wins the explorer role of the home.
Explore(w) ==
  /\ worker[w] = "loop"
  /\ ~statEligible(HomeOf[w]) /\ HomeOf[w] \notin blocked
  /\ ~fresh[HomeOf[w]] /\ ~exploring[HomeOf[w]]
  /\ exploring' = [exploring EXCEPT ![HomeOf[w]] = TRUE]
  /\ elig' = [elig EXCEPT ![HomeOf[w]] = FALSE]
  /\ role' = role \cup {w}
  /\ worker' = [worker EXCEPT ![w] = "select"]
  /\ UNCHANGED <<tasks, quit, closed, job, svars, cvars, wg, fate>>

\* Not eligible and blocked, or tryExplore fails: wait statIneligibleRecheck.
Sleep(w) ==
  /\ worker[w] = "loop"
  /\ ~statEligible(HomeOf[w])
  /\ HomeOf[w] \in blocked \/ fresh[HomeOf[w]] \/ exploring[HomeOf[w]]
  /\ elig' = [elig EXCEPT ![HomeOf[w]] = FALSE]
  /\ worker' = [worker EXCEPT ![w] = "sleep"]
  /\ UNCHANGED <<tasks, quit, closed, role, job, exploring, svars, cvars, wg, fate>>

Recheck(w) ==
  /\ worker[w] = "sleep"
  /\ worker' = [worker EXCEPT ![w] = "loop"]
  /\ UNCHANGED <<tasks, quit, closed, role, job, exploring, elig, svars, cvars, wg, fate>>

\* Either select sees quit; an explorer gives the role back.
Quit(w) ==
  /\ worker[w] \in {"sleep", "select"} /\ quit
  /\ worker' = [worker EXCEPT ![w] = "exited"]
  /\ role' = role \ {w}
  /\ exploring' = IF w \in role THEN [exploring EXCEPT ![HomeOf[w]] = FALSE]
                  ELSE exploring
  /\ UNCHANGED <<tasks, quit, closed, job, elig, svars, cvars, wg, fate>>

\* The select receives a chunk, also when quit is closed as well.
Take(w) ==
  /\ worker[w] = "select" /\ tasks # << >>
  /\ job' = [job EXCEPT ![w] = {Head(tasks)}]
  /\ fate' = [fate EXCEPT ![Head(tasks)] = "running"]
  /\ tasks' = Tail(tasks)
  /\ worker' = [worker EXCEPT ![w] = "run"]
  /\ UNCHANGED <<quit, closed, role, exploring, elig, svars, cvars, wg>>

\* The chunk asks a home, its own or one it falls through to: hits leave a
\* new average, misses only the time of the look.
Sample(w, h) ==
  /\ worker[w] = "run"
  /\ \A c \in job[w] : c[1] \notin ctxDone
  /\ fresh' = [fresh EXCEPT ![h] = TRUE]
  /\ \E v \in Latency \cup {lat[h]} : lat' = [lat EXCEPT ![h] = v]
  /\ UNCHANGED <<tasks, quit, closed, pvars, blocked, cvars, wg, fate>>

\* Mutant: a chunk whose context ended returns without calling done.
FinishSilently(w) ==
  /\ worker[w] = "run"
  /\ \E c \in job[w] :
       /\ fate' = [fate EXCEPT ![c] = "done"]
       /\ wg' = [wg EXCEPT ![c[1]] = IF c[1] \in ctxDone THEN @ ELSE @ - 1]
  /\ job' = [job EXCEPT ![w] = {}]
  /\ role' = role \ {w}
  /\ exploring' = IF w \in role THEN [exploring EXCEPT ![HomeOf[w]] = FALSE]
                  ELSE exploring
  /\ worker' = [worker EXCEPT ![w] = "loop"]
  /\ UNCHANGED <<tasks, quit, closed, elig, svars, cvars>>

\* run returns: done is called, with the results or the context's error, and
\* an explorer ends its turn (exploreDone).
Finish(w) ==
  /\ worker[w] = "run"
  /\ \E c \in job[w] :
       /\ fate' = [fate EXCEPT ![c] = "done"]
       /\ wg' = [wg EXCEPT ![c[1]] = @ - 1]
  /\ job' = [job EXCEPT ![w] = {}]
  /\ role' = role \ {w}
  /\ exploring' = IF w \in role THEN [exploring EXCEPT ![HomeOf[w]] = FALSE]
                  ELSE exploring
  /\ worker' = [worker EXCEPT ![w] = "loop"]
  /\ UNCHANGED <<tasks, quit, closed, elig, svars, cvars>>

-----------------------------------------------------------------------------
(* Callers.                                                                *)

\* batchStat, refused once the client is closed.
Start(k) ==
  /\ caller[k] = "idle" /\ ~closed
  /\ caller' = [caller EXCEPT ![k] = "check"]
  /\ wg' = [wg EXCEPT ![k] = @ + 1]
  /\ UNCHANGED <<tasks, quit, closed, pvars, svars, next, ctxDone, fate>>

\* Submit is over for the current chunk: the loop goes on or reaches Wait.
Advance(k) ==
  /\ next' = [next EXCEPT ![k] = @ + 1]
  /\ caller' = [caller EXCEPT ![k] = IF next[k] < NChunks THEN "check" ELSE "wait"]

\* wg.Add for the chunk that follows, if there is one.
AddNext(k) == IF next[k] < NChunks THEN 1 ELSE 0

\* Submit returned an error: the chunk is marked failed and wg.Done called.
Refuse(k) ==
  /\ fate' = [fate EXCEPT ![<<k, next[k]>>] = "refused"]
  /\ Advance(k)
  /\ wg' = [wg EXCEPT ![k] = @ - 1 + AddNext(k)]

\* Submit's first select.
SubmitCheck(k) ==
  /\ caller[k] = "check"
  /\ IF quit
     THEN Refuse(k)
     ELSE /\ caller' = [caller EXCEPT ![k] = "send"]
          /\ UNCHANGED <<next, wg, fate>>
  /\ UNCHANGED <<tasks, quit, closed, pvars, svars, ctxDone>>

\* Submit's second select: the channel has room.
SubmitSend(k) ==
  /\ caller[k] = "send"
  /\ Len(tasks) < Cardinality(Worker)
  /\ tasks' = Append(tasks, <<k, next[k]>>)
  /\ fate' = [fate EXCEPT ![<<k, next[k]>>] = "queued"]
  /\ wg' = [wg EXCEPT ![k] = @ + AddNext(k)]
  /\ Advance(k)
  /\ UNCHANGED <<quit, closed, pvars, svars, ctxDone>>

\* Submit's second select: the context or the pool ended.
SubmitRefused(k) ==
  /\ caller[k] = "send"
  /\ k \in ctxDone \/ quit
  /\ Refuse(k)
  /\ UNCHANGED <<tasks, quit, closed, pvars, svars, ctxDone>>

\* wg.Wait returns; the deferred cancel ends the context.
Return(k) ==
  /\ caller[k] = "wait" /\ wg[k] = 0
  /\ caller' = [caller EXCEPT ![k] = "returned"]
  /\ ctxDone' = ctxDone \cup {k}
  /\ UNCHANGED <<tasks, quit, closed, pvars, svars, next, wg, fate>>

-----------------------------------------------------------------------------
(* The environment.                                                        *)

\* The caller gives up, or a chunk found a missing article and bailed out.
Cancel(k) ==
  /\ caller[k] \in {"check", "send", "wait"} /\ k \notin ctxDone
  /\ ctxDone' = ctxDone \cup {k}
  /\ UNCHANGED <<tasks, quit, closed, pvars, svars, caller, next, wg, fate>>

\* A provider's last sample grows older than its re-test wait.
Age(h) ==
  /\ fresh[h]
  /\ fresh' = [fresh EXCEPT ![h] = FALSE]
  /\ UNCHANGED <<tasks, quit, closed, pvars, lat, blocked, cvars, wg, fate>>

\* A provider reaches its hard quota.
Exceed(h) ==
  /\ h \in Metered \ blocked
  /\ blocked' = blocked \cup {h}
  /\ UNCHANGED <<tasks, quit, closed, pvars, lat, fresh, cvars, wg, fate>>

\* A provider's quota period starts over.
NewPeriod(h) ==
  /\ h \in blocked
  /\ blocked' = blocked \ {h}
  /\ UNCHANGED <<tasks, quit, closed, pvars, lat, fresh, cvars, wg, fate>>

\* Close marks the client, then stops the pool.
CloseClient ==
  /\ ~closed
  /\ closed' = TRUE
  /\ UNCHANGED <<tasks, quit, pvars, svars, cvars, wg, fate>>

Stop ==
  /\ closed /\ ~quit
  /\ quit' = TRUE
  /\ UNCHANGED <<tasks, closed, pvars, svars, cvars, wg, fate>>

WorkerStep(w) ==
  \/ Ready(w) \/ Explore(w) \/ Sleep(w) \/ Recheck(w) \/ Quit(w) \/ Take(w)
  \/ Finish(w)

CallerStep(k) ==
  SubmitCheck(k) \/ SubmitSend(k) \/ SubmitRefused(k) \/ Return(k)

\* Everything but new quota periods and the end of the client.
Serve ==
  \/ \E w \in Worker : WorkerStep(w) \/ \E h \in Home : Sample(w, h)
  \/ \E k \in Call : Start(k) \/ CallerStep(k) \/ Cancel(k)
  \/ \E h \in Home : Age(h) \/ Exceed(h)

Renew == \E h \in Home : NewPeriod(h)

Next == Serve \/ Renew \/ CloseClient \/ Stop

Spec == Init /\ [][Next]_vars

\* Workers and callers are goroutines, a chunk's reads have deadlines, and
\* samples grow old; a select whose quit case is ready again and again takes
\* it.  Nothing is assumed of quotas, cancellations or Close.
Fairness ==
  /\ \A w \in Worker : WF_vars(WorkerStep(w)) /\ SF_vars(Quit(w))
  /\ \A k \in Call : WF_vars(CallerStep(k))
  /\ \A h \in Home : WF_vars(Age(h))

-----------------------------------------------------------------------------
(* Properties.                                                             *)

\* The explorer role of a home (statLatency.exploring) is held by exactly one
\* of its workers while it is set, and by none when it is not: a role lost on
\* the way out would leave the home unmeasured for good.
OneExplorer ==
  \A h \in Home :
    Cardinality({w \in role : HomeOf[w] = h}) = IF exploring[h] THEN 1 ELSE 0

\* The WaitGroup of a call counts the chunks whose done is still to come, so
\* batchStat returns only when no worker can write to allResults any more.
WaitGroupIsExact ==
  \A k \in Call :
    wg[k] = Cardinality({i \in 1..NChunks : fate[<<k, i>>] \in {"queued", "running"}})
            + (IF caller[k] \in {"check", "send"} THEN 1 ELSE 0)

\* Every call of BatchStat returns, or the client is closed under it, as long
\* as some home has no hard quota.
CallReturns == \A k \in Call : caller[k] = "check" ~> (caller[k] = "returned" \/ closed)
=============================================================================
