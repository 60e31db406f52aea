------------------------------- MODULE MCNntp -------------------------------
(***************************************************************************)
(* The NNTP client's connections, in three parts checked side by side: the *)
(* connection pool of one provider (ConnPool, extended here), the workers  *)
(* that share out STAT calls, and the pipelined STATs on one connection.   *)
(* A behaviour is one of a single part; the pool rests in its initial      *)
(* state while another part runs, and the others stay "off".               *)
(***************************************************************************)
EXTENDS ConnPool, TLC

CONSTANTS Home, Worker, Metered, Latency, Floor, SlowFactor, LeaveFactor, Call, NChunks,
          N, MaxWindows, MaxFaults,
          hA, hB, w1, w2, w3   \* model values

VARIABLES
  part,
  tasks, quit, statClosed, worker, role, job, lat, fresh, exploring, elig, blocked, caller,
  next, ctxDone, wg, fate,
  at, window, truth, wire, buf, results, faults, accepted

\* Two homes, the first with two workers.
HomeOf == (w1 :> hA) @@ (w2 :> hA) @@ (w3 :> hB)

Stat == INSTANCE RepairPool WITH closed <- statClosed
Pipe == INSTANCE StatPipeline WITH pc <- at

ASSUME StatAssumption == Stat!HomeAssumption /\ Stat!LatencyAssumption /\ Stat!ChunkAssumption
ASSUME PipeAssumption == Pipe!PipelineAssumption

stat == <<tasks, quit, statClosed, worker, role, job, lat, fresh, exploring, elig, blocked,
          caller, next, ctxDone, wg, fate>>
pipe == <<at, window, truth, wire, buf, results, faults, accepted>>
mcvars == <<part, vars, stat, pipe>>

StatOff ==
  /\ tasks = "off" /\ quit = "off" /\ statClosed = "off" /\ worker = "off" /\ role = "off"
  /\ job = "off" /\ lat = "off" /\ fresh = "off" /\ exploring = "off" /\ elig = "off"
  /\ blocked = "off" /\ caller = "off" /\ next = "off" /\ ctxDone = "off" /\ wg = "off"
  /\ fate = "off"
PipeOff ==
  /\ at = "off" /\ window = "off" /\ truth = "off" /\ wire = "off" /\ buf = "off"
  /\ results = "off" /\ faults = "off" /\ accepted = "off"

MCInit ==
  /\ Init
  /\ \/ part = "pool" /\ StatOff /\ PipeOff
     \/ part = "stat" /\ Stat!Init /\ PipeOff
     \/ part = "pipe" /\ Pipe!Init /\ StatOff

MCNext ==
  \/ part = "pool" /\ Next /\ UNCHANGED <<part, stat, pipe>>
  \/ part = "stat" /\ Stat!Next /\ UNCHANGED <<part, vars, pipe>>
  \/ part = "pipe" /\ Pipe!Next /\ UNCHANGED <<part, vars, stat>>

\* The fairness of ConnPool and of RepairPool: goroutines are scheduled, their
\* reads and dials have deadlines, samples grow old.
MCSpec ==
  /\ MCInit /\ [][MCNext]_mcvars
  /\ \A c \in Caller : /\ WF_mcvars(part = "pool" /\ Step(c) /\ UNCHANGED <<part, stat, pipe>>)
                       /\ SF_mcvars(part = "pool" /\ AcquireSlot(c) /\ UNCHANGED <<part, stat, pipe>>)
  /\ \A w \in Worker : /\ WF_mcvars(part = "stat" /\ Stat!WorkerStep(w) /\ UNCHANGED <<part, vars, pipe>>)
                       /\ SF_mcvars(part = "stat" /\ Stat!Quit(w) /\ UNCHANGED <<part, vars, pipe>>)
  /\ \A k \in Call : WF_mcvars(part = "stat" /\ Stat!CallerStep(k) /\ UNCHANGED <<part, vars, pipe>>)
  /\ \A h \in Home : WF_mcvars(part = "stat" /\ Stat!Age(h) /\ UNCHANGED <<part, vars, pipe>>)

\* Every call of BatchStat returns, or the client is closed under it, as long
\* as some home has no hard quota (repair_pool.go, run and Submit).
CallReturns ==
  \A k \in Call : (part = "stat" /\ caller[k] = "check")
                   ~> (part = "stat" => caller[k] = "returned" \/ statClosed)

\* With one line left out or added on the connection, whenever it arrives, no
\* accepted window takes a present article for a missing one or the reverse
\* (conns.go, StatBatch).
AcceptedIsTrue == part = "pipe" => Pipe!AcceptedIsTrue
=============================================================================
