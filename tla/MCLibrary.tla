----------------------------- MODULE MCLibrary ------------------------------
(***************************************************************************)
(* The library beside its records, in three parts checked side by side:    *)
(* how stored entries go away (stale-NZB cleanup, webhooks, deletions),    *)
(* the pre-cache of a season, and the gate through which its bursts take   *)
(* turns.  A behaviour is one of a single part: the gate rests in its      *)
(* initial state and the variables of the other parts stay "off".          *)
(***************************************************************************)
EXTENDS BurstGate

CONSTANTS Twins, MaxTicks, MaxEvents,
          LastEpisode, Ahead, MaxBytes, Walkers, MaxTriggers, MaxRegrabs, MaxErrors, MaxAges

VARIABLES
  part,
  grab, row, item, nzb, dfs, shelf, libMap, hooks, st, ticks, reports,
  lib, store, pend, durable, triggered, walked, aged, walk, bytes, EvictWatched, precached,
  readiness, await, rewarm, evictq, thr, asked, triggers, ages, regrabs, errors

Records == INSTANCE StaleRecords WITH MaxAges <- MaxTicks
Warm    == INSTANCE Precache

ASSUME LibraryAssumption == GateAssumption /\ Warm!PrecacheAssumption

records == <<grab, row, item, nzb, dfs, shelf, libMap, hooks, st, ticks, reports>>
warm    == <<lib, store, pend, durable, triggered, walked, aged, walk, bytes, EvictWatched, precached,
             readiness, await, rewarm, evictq, thr, asked, triggers, ages, regrabs, errors>>
mcvars  == <<part, records, warm, bgvars>>

RecordsOff ==
  /\ grab = "off" /\ row = "off" /\ item = "off" /\ nzb = "off" /\ dfs = "off" /\ shelf = "off"
  /\ libMap = "off" /\ hooks = "off" /\ st = "off" /\ ticks = "off" /\ reports = "off"
WarmOff ==
  /\ lib = "off" /\ store = "off" /\ pend = "off" /\ durable = "off" /\ triggered = "off"
  /\ walked = "off" /\ aged = "off" /\ walk = "off" /\ bytes = "off" /\ EvictWatched = "off"
  /\ precached = "off" /\ readiness = "off" /\ await = "off" /\ rewarm = "off" /\ evictq = "off"
  /\ thr = "off" /\ asked = "off" /\ triggers = "off" /\ ages = "off" /\ regrabs = "off"
  /\ errors = "off"

Init ==
  \/ part = "records" /\ Records!InitRecords /\ WarmOff /\ InitGate
  \/ part = "warm" /\ Warm!InitPrecache /\ RecordsOff /\ InitGate
  \/ part = "gate" /\ InitGate /\ RecordsOff /\ WarmOff

Next ==
  \/ part = "records" /\ Records!NextRecords /\ UNCHANGED <<part, warm, bgvars>>
  \/ part = "warm" /\ Warm!NextPrecache /\ UNCHANGED <<part, records, bgvars>>
  \/ part = "gate" /\ NextGate /\ UNCHANGED <<part, records, warm>>

Spec == Init /\ [][Next]_mcvars

\* The cleanup of stale NZBs never takes the files or the record of the grab a
\* file of the Arr's library leads to, whatever happened since it read the
\* references (stale_nzb.go, CleanupStaleNZBs).
LinkedStays == [][part = "records" => Records!LinkedStep]_mcvars

\* A walk answers every trigger that found it running, or ends for a reason of
\* its own (precache.go, startForwardWalk and walkContinues).
WalkKeepsRequests == part = "warm" => Warm!WalkKeepsRequests
=============================================================================
