------------------------------ MODULE JobQueue ------------------------------
(***************************************************************************)
(* The active-download queue (pkg/manager/jobqueue.go): a slice of pending *)
(* jobs under a mutex, a condition variable the workers park on, retries   *)
(* that come back through a timer, deletion of a pending job and Close.    *)
(*                                                                         *)
(* A lock section is one step.  cond.Wait releases the lock and parks the  *)
(* worker in one step; a woken worker takes the lock again in a later one, *)
(* when another worker may have taken the job it was woken for.            *)
(***************************************************************************)
EXTENDS Integers, Sequences, FiniteSets, SequencesExt

CONSTANTS
  Job,         \* jobs callers submit
  Worker,      \* the maxWorkers goroutines
  MaxRetries   \* bound on the retries of one job, for TLC only

ASSUME JobQueueAssumption == IsFiniteSet(Worker) /\ MaxRetries \in Nat

VARIABLES
  jobs,      \* q.jobs
  closed,    \* q.closed
  cancelled, \* q.ctx is done
  worker,    \* each worker: "ready" to lock, "parked", "run" or "exited"
  running,   \* the job each worker runs, or the empty set
  timers,    \* jobs waiting in Retry's goroutine
  fate,      \* what became of each job: "new", "pending", "running",
             \* "retrying", "done", "deleted", "refused" or "dropped"
  retries,   \* retries each job has had
  closer     \* Close: "idle", "cancel", "broadcast", "wait" or "returned"

vars == <<jobs, closed, cancelled, worker, running, timers, fate, retries, closer>>

TypeOK ==
  /\ jobs \in Seq(Job)
  /\ closed \in BOOLEAN
  /\ cancelled \in BOOLEAN
  /\ worker \in [Worker -> {"ready", "parked", "run", "exited"}]
  /\ running \in [Worker -> SUBSET Job]
  /\ timers \subseteq Job
  /\ fate \in [Job -> {"new", "pending", "running", "retrying", "done",
                       "deleted", "refused", "dropped"}]
  /\ retries \in [Job -> 0..MaxRetries]
  /\ closer \in {"idle", "cancel", "broadcast", "wait", "returned"}

Init ==
  /\ jobs = << >>
  /\ closed = FALSE
  /\ cancelled = FALSE
  /\ worker = [w \in Worker |-> "ready"]
  /\ running = [w \in Worker |-> {}]
  /\ timers = {}
  /\ fate = [j \in Job |-> "new"]
  /\ retries = [j \in Job |-> 0]
  /\ closer = "idle"

Parked == {w \in Worker : worker[w] = "parked"}

\* cond.Signal wakes one parked worker, if there is one.
Signal ==
  IF Parked = {} THEN UNCHANGED worker
  ELSE \E w \in Parked : worker' = [worker EXCEPT ![w] = "ready"]

\* Mutant: appends without waking anyone.
SubmitSilently(j) ==
  /\ jobs' = Append(jobs, j)
  /\ fate' = [fate EXCEPT ![j] = "pending"]
  /\ UNCHANGED worker

\* Submit: refused once closed, else appended and one worker woken.
Submit(j) ==
  IF closed
  THEN fate' = [fate EXCEPT ![j] = "refused"] /\ UNCHANGED <<jobs, worker>>
  ELSE /\ jobs' = Append(jobs, j)
       /\ fate' = [fate EXCEPT ![j] = "pending"]
       /\ Signal

\* SubmitJob of a new import.
SubmitNew(j) ==
  /\ fate[j] = "new"
  /\ Submit(j)
  /\ UNCHANGED <<closed, cancelled, running, timers, retries, closer>>

-----------------------------------------------------------------------------
(* Workers.                                                                *)

\* pop waits: empty and not closed.
Park(w) ==
  /\ worker[w] = "ready"
  /\ jobs = << >> /\ ~closed
  /\ worker' = [worker EXCEPT ![w] = "parked"]
  /\ UNCHANGED <<jobs, closed, cancelled, running, timers, fate, retries, closer>>

\* pop returns the head.
Take(w) ==
  /\ worker[w] = "ready"
  /\ jobs # << >> /\ ~closed
  /\ running' = [running EXCEPT ![w] = {Head(jobs)}]
  /\ fate' = [fate EXCEPT ![Head(jobs)] = "running"]
  /\ jobs' = Tail(jobs)
  /\ worker' = [worker EXCEPT ![w] = "run"]
  /\ UNCHANGED <<closed, cancelled, timers, retries, closer>>

\* pop returns nil and the worker exits.
Exit(w) ==
  /\ worker[w] = "ready"
  /\ closed
  /\ worker' = [worker EXCEPT ![w] = "exited"]
  /\ UNCHANGED <<jobs, closed, cancelled, running, timers, fate, retries, closer>>

\* runJob returns, normally or out of a recovered panic.
Complete(w) ==
  /\ worker[w] = "run"
  /\ \E j \in running[w] : fate' = [fate EXCEPT ![j] = "done"]
  /\ running' = [running EXCEPT ![w] = {}]
  /\ worker' = [worker EXCEPT ![w] = "ready"]
  /\ UNCHANGED <<jobs, closed, cancelled, timers, retries, closer>>

\* Mutant: the retried job is queued at once and timed as well.
RetryTwice(w) ==
  /\ worker[w] = "run"
  /\ \E j \in running[w] :
       /\ retries[j] < MaxRetries
       /\ retries' = [retries EXCEPT ![j] = @ + 1]
       /\ timers' = timers \cup {j}
       /\ jobs' = Append(jobs, j)
       /\ fate' = [fate EXCEPT ![j] = "pending"]
  /\ running' = [running EXCEPT ![w] = {}]
  /\ worker' = [worker EXCEPT ![w] = "ready"]
  /\ UNCHANGED <<closed, cancelled, closer>>

\* processFunc hands its job to Retry and returns.
Retry(w) ==
  /\ worker[w] = "run"
  /\ \E j \in running[w] :
       /\ retries[j] < MaxRetries
       /\ retries' = [retries EXCEPT ![j] = @ + 1]
       /\ timers' = timers \cup {j}
       /\ fate' = [fate EXCEPT ![j] = "retrying"]
  /\ running' = [running EXCEPT ![w] = {}]
  /\ worker' = [worker EXCEPT ![w] = "ready"]
  /\ UNCHANGED <<jobs, closed, cancelled, closer>>

\* Retry's timer fires: select may still take it when the context is done.
TimerFires(j) ==
  /\ j \in timers
  /\ timers' = timers \ {j}
  /\ Submit(j)
  /\ UNCHANGED <<closed, cancelled, running, retries, closer>>

\* Retry's goroutine sees q.ctx.Done() first.
TimerCancelled(j) ==
  /\ j \in timers /\ cancelled
  /\ timers' = timers \ {j}
  /\ fate' = [fate EXCEPT ![j] = "dropped"]
  /\ UNCHANGED <<jobs, closed, cancelled, worker, running, retries, closer>>

\* DeleteJob of a job that is still pending.
DeleteJob(j) ==
  /\ \E i \in DOMAIN jobs :
       /\ jobs[i] = j
       /\ \A k \in 1..(i - 1) : jobs[k] # j
       /\ jobs' = RemoveAt(jobs, i)
  /\ fate' = [fate EXCEPT ![j] = "deleted"]
  /\ UNCHANGED <<closed, cancelled, worker, running, timers, retries, closer>>

-----------------------------------------------------------------------------
(* Close: closed under the lock, then cancel, then Broadcast, then Wait.   *)

CloseMark ==
  /\ closer = "idle"
  /\ closed' = TRUE
  /\ closer' = "cancel"
  /\ UNCHANGED <<jobs, cancelled, worker, running, timers, fate, retries>>

CloseCancel ==
  /\ closer = "cancel"
  /\ cancelled' = TRUE
  /\ closer' = "broadcast"
  /\ UNCHANGED <<jobs, closed, worker, running, timers, fate, retries>>

CloseBroadcast ==
  /\ closer = "broadcast"
  /\ worker' = [w \in Worker |-> IF w \in Parked THEN "ready" ELSE worker[w]]
  /\ closer' = "wait"
  /\ UNCHANGED <<jobs, closed, cancelled, running, timers, fate, retries>>

CloseReturns ==
  /\ closer = "wait"
  /\ \A w \in Worker : worker[w] = "exited"
  /\ closer' = "returned"
  /\ UNCHANGED <<jobs, closed, cancelled, worker, running, timers, fate, retries>>

-----------------------------------------------------------------------------
WorkerStep(w) == Park(w) \/ Take(w) \/ Exit(w) \/ Complete(w) \/ Retry(w)
Timer(j) == TimerFires(j) \/ TimerCancelled(j)
Closing == CloseCancel \/ CloseBroadcast \/ CloseReturns

Next ==
  \/ \E j \in Job : SubmitNew(j) \/ Timer(j) \/ DeleteJob(j)
  \/ \E w \in Worker : WorkerStep(w)
  \/ CloseMark \/ Closing

Spec == Init /\ [][Next]_vars

-----------------------------------------------------------------------------
(* Properties.                                                             *)

\* A job is in one place: no schedule of submits, retries and deletions lets
\* two workers run it, or one run it while it is still queued or timed.
OnePlacePerJob ==
  \A j \in Job :
    LET queued == {i \in DOMAIN jobs : jobs[i] = j}
        held   == {w \in Worker : j \in running[w]}
    IN  /\ Cardinality(queued) + Cardinality(held) <= 1
        /\ j \in timers => queued = {} /\ held = {}
        /\ fate[j] = "pending" <=> queued # {}
        /\ fate[j] = "running" <=> held # {}

\* No job waits for a busy worker while an idle one sleeps: as long as one
\* worker is parked, every pending job has an awake worker coming for it.
\* Submit's single Signal is enough although other workers race the one it
\* wakes.
NoSleepOverWork ==
  ~closed /\ Parked # {} =>
    Len(jobs) <= Cardinality({w \in Worker : worker[w] = "ready"})

\* The queue implements WorkQueue: whatever the workers, the timers and Close
\* do to each other, each job waits, runs and ends as the abstract queue says.
Running == UNION {running[w] : w \in Worker}
Over == {j \in Job : fate[j] \in {"done", "deleted", "refused", "dropped"}}
Queue == INSTANCE WorkQueue WITH Slots <- Cardinality(Worker), line <- jobs, away <- timers,
                                 run <- Running, over <- Over, open <- ~closed
ImplementsWorkQueue == Queue!Spec
=============================================================================
