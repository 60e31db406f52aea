------------------------------ MODULE Precache ------------------------------
(***************************************************************************)
(* The pre-cache (pkg/manager/precache*.go): a viewer far enough into a    *)
(* file triggers a read-ahead of its rest, and then a walk forward over    *)
(* the season that caches the next episodes within a byte budget, notes    *)
(* how damaged each one is, and warms the replacement of a release that    *)
(* was re-grabbed meanwhile.  Episodes already watched give their budget   *)
(* back and their cache is evicted later.                                  *)
(*                                                                         *)
(* One series and season.  A key <<e, g>> is release g of episode e; every *)
(* file counts as one unit of the budget.  The turns that the bursts of    *)
(* several files take are BurstGate's; here a burst is one blocking call   *)
(* that leaves the file durable, or not.                                   *)
(***************************************************************************)
EXTENDS Integers, FiniteSets

CONSTANTS
  LastEpisode,  \* the season's last episode
  Ahead,        \* EpisodesAhead: how far beyond the playing episode to warm
  MaxBytes,     \* PrecacheMaxBytes in files
  Walkers,      \* threads a trigger starts
  MaxTriggers, MaxRegrabs, MaxErrors,  \* bounds
  MaxAges       \* bound on marks that age, on targets that expire and on rescans

VARIABLES
  lib,       \* the release Sonarr holds of each episode, 0 = none
  store,     \* keys with an entry
  pend,      \* keys with dead segments the overlay still waits to repair
  durable,   \* keys whose file is whole in the mount's cache
  triggered, \* keys marked by tryMarkTriggered
  walked,    \* keys marked by tryMarkWalked
  aged,      \* marks past precacheTriggeredTTL
  walk,      \* [on, target]: the season's forwardWalk
  bytes,     \* precachedBytes
  EvictWatched, \* PrecacheEvictAfterWatched, a setting
  precached, \* keys that hold a reservation until they are watched
  readiness, \* [key -> state of its readiness row]
  await,     \* [key -> state of its awaitReadiness goroutine]
  rewarm,    \* [episode -> the release whose replacement is to be warmed]
  evictq,    \* keys whose cache is to be evicted once they are let go
  thr,       \* the threads: Walkers, and the maintenance loop; "to" is the release a
             \* re-warm replaces, or 1 in a walk that ends for a reason of its own
  asked,     \* targets asked of the walk that is running
  triggers, ages, regrabs, errors

demand  == <<triggered, walked, aged, walk, asked>>
space   == <<EvictWatched, bytes, precached, evictq, durable>>
media   == <<lib, store, pend>>
notes   == <<readiness, await, rewarm>>
limits  == <<triggers, ages, regrabs, errors>>
prvars  == <<demand, space, media, notes, thr, limits>>

PrecacheAssumption ==
  LastEpisode \in Nat /\ Ahead \in Nat /\ MaxRegrabs \in Nat /\ "maint" \notin Walkers

Episodes == 1..LastEpisode
Releases == 1..(MaxRegrabs + 1)
Keys     == Episodes \X Releases
Maint    == "maint"
Threads  == Walkers \cup {Maint}
Resting  == [pc |-> "idle", ep |-> 0, key |-> <<0, 0>>, to |-> 0]
current(e) == <<e, lib[e]>>

(* A thread is between markInflight(key) and unmarkInflight(key).          *)
Inflight(k) == \/ \E t \in Threads :
                    thr[t].pc \in {"read", "mark", "reserve", "burst", "note", "account"}
                      /\ thr[t].key = k
               \/ await[k] # "off"

InitPrecache ==
  /\ \/ lib = [e \in Episodes |-> 1] /\ pend = {<<2, 1>>} /\ EvictWatched = TRUE
     \/ lib = [e \in Episodes |-> IF e = LastEpisode THEN 0 ELSE 1] /\ pend = {} /\ EvictWatched = FALSE
  /\ store = {k \in Keys : k[2] = lib[k[1]]}
  /\ durable = {} /\ triggered = {} /\ walked = {} /\ aged = {}
  /\ walk = [on |-> FALSE, target |-> 0]
  /\ bytes = 0 /\ precached = {} /\ evictq = {}
  /\ readiness = [k \in Keys |-> "none"]
  /\ await = [k \in Keys |-> "off"]
  /\ rewarm = [e \in Episodes |-> 0]
  /\ thr = [t \in Threads |-> Resting]
  /\ asked = {}
  /\ triggers = 0 /\ ages = 0 /\ regrabs = 0 /\ errors = 0

Go(t, pc)   == thr' = [thr EXCEPT ![t].pc = pc]
Rest(t)     == thr' = [thr EXCEPT ![t] = Resting]
Leave(t)    == thr' = [thr EXCEPT ![t].pc = "leave", ![t].to = 1]

---------------------------------------------------------------------------
(* Triggers                                                                *)

(* A successful mark prunes the marks that have aged; a refused one does   *)
(* not look at the ages at all.                                            *)
tryMark(marks, k) == (marks \ aged) \cup {k}

evictIfWatched(k, pos) ==
  IF EvictWatched /\ pos = "late" /\ k \in precached
  THEN /\ precached' = precached \ {k}
       /\ bytes' = IF bytes > 0 THEN bytes - 1 ELSE 0
       /\ evictq' = evictq \cup {k}
  ELSE UNCHANGED <<precached, bytes, evictq>>

Count == triggers < MaxTriggers /\ triggers' = triggers + 1

(* A read (Observe) or a Plex session (checkSessionProgress) within the    *)
(* trigger window; "late" is also past the 90 % that make a file watched.  *)
(* A file already triggered, by a walk say, still gets its own walk once.  *)
Observe(t, e, pos) ==
  LET k == current(e) IN
  /\ thr[t].pc = "idle" /\ t \in Walkers
  /\ t = CHOOSE u \in Walkers : thr[u].pc = "idle"
  /\ lib[e] # 0 /\ k \in store
  /\ evictIfWatched(k, pos)
  /\ \/ /\ k \notin triggered /\ Count
        /\ triggered' = tryMark(triggered, k)
        /\ walked' = IF k \in walked THEN walked \ aged ELSE tryMark(walked, k)
        /\ aged' = aged \cap (triggered' \cup walked')
        /\ thr' = [thr EXCEPT ![t] = [Resting EXCEPT !.pc = "read", !.ep = e, !.key = k]]
     \/ /\ k \in triggered /\ k \notin walked /\ Count
        /\ walked' = tryMark(walked, k) /\ triggered' = triggered \ aged
        /\ aged' = aged \cap (triggered' \cup walked')
        /\ thr' = [thr EXCEPT ![t] = [Resting EXCEPT !.pc = "start", !.ep = e]]
     \/ /\ k \in triggered /\ k \in walked
        /\ evictq' # evictq
        /\ UNCHANGED <<triggered, walked, aged, thr, triggers>>
  /\ UNCHANGED <<walk, asked, EvictWatched, durable, media, notes, ages, regrabs, errors>>

(* readAhead: the viewer leaves (the mark is dropped so that the file can  *)
(* trigger again), or the burst ends well or badly and the walk follows.   *)
readAhead(t) ==
  /\ thr[t].pc = "read"
  /\ \/ triggered' = triggered \ {thr[t].key} /\ Rest(t) /\ UNCHANGED durable
     \/ durable' = durable \cup {thr[t].key} /\ Go(t, "start") /\ UNCHANGED triggered
     \/ Go(t, "start") /\ UNCHANGED <<triggered, durable>>
  /\ UNCHANGED <<EvictWatched, walked, aged, walk, asked, bytes, precached, evictq, media, notes, limits>>

Age(k) ==
  /\ ages < MaxAges /\ k \in (triggered \cup walked) \ aged
  /\ aged' = aged \cup {k} /\ ages' = ages + 1
  /\ UNCHANGED <<triggered, walked, walk, asked, space, media, notes, thr,
                 triggers, regrabs, errors>>

---------------------------------------------------------------------------
(* The forward walk                                                        *)

walkTarget(e) == e + Ahead
covers(e)     == e <= walk.target

(* startForwardWalk: one walk per season; a second trigger widens it.      *)
startForwardWalk(t) ==
  LET target == walkTarget(thr[t].ep) IN
  /\ thr[t].pc = "start"
  /\ asked' = asked \cup {target}
  /\ IF walk.on
       THEN /\ walk' = [walk EXCEPT !.target = IF @ < target THEN target ELSE @]
            /\ Rest(t)
       ELSE walk' = [on |-> TRUE, target |-> target] /\ Go(t, "lookup")
  /\ UNCHANGED <<triggered, walked, aged, space, media, notes, limits>>

(* The walk's own end: the check and the removal share one lock.           *)
WalkStopsLater(t) == Go(t, "leave") /\ UNCHANGED <<walk, asked>>
WalkStops(t) == walk' = [on |-> FALSE, target |-> 0] /\ asked' = asked \ 1..(thr[t].ep)
                /\ Rest(t)

walkContinues(t, e) ==
  \/ /\ covers(e)
     /\ thr' = [thr EXCEPT ![t].pc = "file", ![t].ep = e]
     /\ asked' = asked \ 1..(e - 1) /\ UNCHANGED walk
  \/ ~covers(e) /\ WalkStops(t)

(* NextEpisode: an error or the season's end leaves the walk.              *)
lookup(t) ==
  /\ thr[t].pc = "lookup"
  /\ \/ thr[t].ep < LastEpisode /\ walkContinues(t, thr[t].ep + 1) /\ UNCHANGED errors
     \/ thr[t].ep = LastEpisode /\ Leave(t) /\ UNCHANGED <<walk, asked, errors>>
     \/ /\ errors < MaxErrors /\ errors' = errors + 1
        /\ Leave(t) /\ UNCHANGED <<walk, asked>>
  /\ UNCHANGED <<triggered, walked, aged, space, media, notes, triggers, ages, regrabs>>

(* precacheForwardWalk: an episode without a file is searched for, and     *)
(* that ends the walk; one with a file goes to precacheEpisodeFile.        *)
precacheForwardWalk(t) ==
  /\ thr[t].pc = "file" /\ t # Maint
  /\ \/ lib[thr[t].ep] = 0 /\ Leave(t)
     \/ /\ lib[thr[t].ep] # 0
        /\ IF current(thr[t].ep) \in store
             THEN thr' = [thr EXCEPT ![t].pc = "mark", ![t].key = current(thr[t].ep)]
             ELSE Go(t, "lookup")
  /\ UNCHANGED <<demand, space, media, notes, limits>>

(* The deferred removal of a walk that ended for a reason of its own.      *)
leaveWalk(t) ==
  /\ thr[t].pc = "leave" /\ walk' = [on |-> FALSE, target |-> 0] /\ Rest(t)
  /\ asked' = IF thr[t].to = 1 THEN {} ELSE asked
  /\ UNCHANGED <<triggered, walked, aged, space, media, notes, limits>>

---------------------------------------------------------------------------
(* precacheEpisodeFile, run by a walk and by the re-warm loop              *)

Skipped(t)  == Go(t, IF t = Maint THEN "rewarmed" ELSE "lookup")
Deferred(t) == IF t = Maint THEN Rest(t) ELSE Leave(t)
Bursted(t)  == Skipped(t)

markEpisode(t) ==
  LET k == thr[t].key IN
  /\ thr[t].pc = "mark"
  /\ triggered' = triggered \cup {k} /\ aged' = aged \ (IF k \in walked THEN {} ELSE {k})
  /\ IF k \in triggered THEN Skipped(t) ELSE Go(t, "reserve")
  /\ UNCHANGED <<walked, walk, asked, space, media, notes, limits>>

(* reserveBudget, and then the account's bandwidth headroom.               *)
reserveBudget(t) ==
  LET k == thr[t].key IN
  /\ thr[t].pc = "reserve"
  /\ \/ /\ bytes + 1 <= MaxBytes
        /\ bytes' = bytes + 1 /\ Go(t, "burst") /\ UNCHANGED <<triggered, errors>>
     \/ /\ bytes + 1 > MaxBytes
        /\ triggered' = triggered \ {k} /\ Deferred(t) /\ UNCHANGED <<bytes, errors>>
     \/ /\ bytes + 1 <= MaxBytes /\ errors < MaxErrors /\ errors' = errors + 1
        /\ triggered' = triggered \ {k} /\ Deferred(t) /\ UNCHANGED bytes
  /\ UNCHANGED <<EvictWatched, walked, aged, walk, asked, precached, evictq, durable, media, notes,
                 triggers, ages, regrabs>>

burstEpisode(t) ==
  /\ thr[t].pc = "burst"
  /\ \/ durable' = durable \cup {thr[t].key} /\ UNCHANGED errors
     \/ errors < MaxErrors /\ errors' = errors + 1 /\ UNCHANGED durable
  /\ Go(t, "note")
  /\ UNCHANGED <<EvictWatched, demand, bytes, precached, evictq, media, notes, triggers, ages, regrabs>>

(* recordReadiness: a damaged episode gets a goroutine that waits for its  *)
(* repair.                                                                 *)
recordReadiness(t) ==
  LET k == thr[t].key IN
  /\ thr[t].pc = "note" /\ Go(t, "account")
  /\ readiness' = [readiness EXCEPT ![k] = IF k \in pend THEN "pending" ELSE "clean"]
  /\ await' = [await EXCEPT ![k] = IF k \in pend THEN "ask" ELSE @]
  /\ UNCHANGED <<demand, space, media, rewarm, limits>>

account(t) ==
  LET k == thr[t].key IN
  /\ thr[t].pc = "account" /\ Bursted(t)
  /\ IF EvictWatched THEN precached' = precached \cup {k} /\ UNCHANGED bytes
                     ELSE bytes' = bytes - 1 /\ UNCHANGED precached
  /\ UNCHANGED <<EvictWatched, demand, evictq, durable, media, notes, limits>>

---------------------------------------------------------------------------
(* Damage found while warming: awaitReadiness                              *)

Row(k, s) == readiness' = [readiness EXCEPT ![k] = s]
NoAwait(k) == await' = [await EXCEPT ![k] = "off"]
addRewarm(k) == rewarm' = [rewarm EXCEPT ![k[1]] = k[2]]

(* HandlePrecacheDamage: a re-grab, or a repair that was asked for.        *)
handleDamage(k) ==
  /\ await[k] = "ask"
  /\ \E how \in {"poll", "regrabbed"} : await' = [await EXCEPT ![k] = how]
  /\ UNCHANGED <<demand, space, media, readiness, rewarm, thr, limits>>

awaitReadiness(k) ==
  /\ await[k] \in {"poll", "regrabbed"} /\ NoAwait(k)
  /\ \/ /\ k \notin store /\ Row(k, "none") /\ addRewarm(k) /\ UNCHANGED durable
     \/ /\ k \in store /\ k \notin pend /\ Row(k, "repaired")
        /\ IF await[k] = "regrabbed" THEN addRewarm(k) ELSE UNCHANGED rewarm
        /\ durable' = durable \cup {k}
     \/ /\ k \in store /\ k \in pend /\ Row(k, "pending")       \* the wait timed out
        /\ IF await[k] = "regrabbed" THEN addRewarm(k) ELSE UNCHANGED rewarm
        /\ UNCHANGED durable
  /\ UNCHANGED <<EvictWatched, demand, bytes, precached, evictq, media, thr, limits>>

(* A repair completes: OnPar2Repaired upgrades the rows that waited.       *)
OnPar2Repaired(k) ==
  /\ k \in pend /\ k \in store /\ pend' = pend \ {k}
  /\ Row(k, IF readiness[k] = "pending" THEN "repaired" ELSE readiness[k])
  /\ UNCHANGED <<demand, space, lib, store, await, rewarm, thr, limits>>

---------------------------------------------------------------------------
(* The maintenance tick: rewarmDue, then evictWatchedDue                   *)

(* The replacement is warmed once Sonarr's file is another release; until  *)
(* then, and while deferred, the target stays.                             *)
rewarmDue(e) ==
  /\ thr[Maint].pc = "idle" /\ rewarm[e] # 0
  /\ lib[e] # 0 /\ current(e) \in store /\ lib[e] # rewarm[e]
  /\ thr' = [thr EXCEPT ![Maint] = [Resting EXCEPT !.pc = "mark", !.ep = e, !.key = current(e),
                                                   !.to = rewarm[e]]]
  /\ UNCHANGED <<demand, space, media, notes, limits>>

rewarmed ==
  LET e == thr[Maint].ep IN
  /\ thr[Maint].pc = "rewarmed" /\ Rest(Maint)
  /\ rewarm' = [rewarm EXCEPT ![e] = 0]
  /\ Row(<<e, thr[Maint].to>>, "none")
  /\ UNCHANGED <<demand, space, media, await, limits>>

(* The 24 hours of a target or of a queued eviction pass.                  *)
expireRewarm(e) ==
  /\ rewarm[e] # 0 /\ thr[Maint].pc = "idle" /\ ages < MaxAges /\ ages' = ages + 1
  /\ rewarm' = [rewarm EXCEPT ![e] = 0]
  /\ UNCHANGED <<demand, space, media, readiness, await, thr, triggers, regrabs, errors>>

evictWatchedDue(k) ==
  /\ thr[Maint].pc = "idle" /\ k \in evictq /\ ~Inflight(k)
  /\ evictq' = evictq \ {k} /\ durable' = durable \ {k} /\ Row(k, "none")
  /\ UNCHANGED <<EvictWatched, demand, bytes, precached, media, await, rewarm, thr, limits>>

---------------------------------------------------------------------------
(* The user's calls, and Sonarr                                            *)

(* Summary drops the rows of entries that are gone.                        *)
Summary ==
  /\ \E k \in Keys : readiness[k] # "none" /\ k \notin store
  /\ readiness' = [k \in Keys |-> IF k \in store THEN readiness[k] ELSE "none"]
  /\ UNCHANGED <<demand, space, media, await, rewarm, thr, limits>>

(* Rescan gives every cached file of an entry a row.                       *)
populateFromCache ==
  /\ ages < MaxAges /\ ages' = ages + 1
  /\ \E k \in durable \cap store : readiness[k] = "none"
  /\ readiness' = [k \in Keys |-> IF readiness[k] # "none" \/ k \notin durable \cap store
                                 THEN readiness[k]
                                 ELSE IF k \in pend THEN "pending" ELSE "clean"]
  /\ UNCHANGED <<demand, space, media, await, rewarm, thr, triggers, regrabs, errors>>

PurgeIncomplete(k) ==
  /\ readiness[k] # "none" /\ k \notin durable /\ ~Inflight(k)
  /\ Row(k, "none")
  /\ UNCHANGED <<demand, space, media, await, rewarm, thr, limits>>

(* External: Sonarr imports a release of e, replacing the one it had.      *)
Import(e) ==
  /\ regrabs < MaxRegrabs /\ regrabs' = regrabs + 1
  /\ lib' = [lib EXCEPT ![e] = @ + 1]
  /\ store' = (store \ {current(e)}) \cup {<<e, lib[e] + 1>>}
  /\ UNCHANGED <<pend, demand, space, notes, thr, triggers, ages, errors>>

(* An entry is deleted, by the repair or by the user.                      *)
DeleteEntry(k) ==
  /\ regrabs < MaxRegrabs /\ regrabs' = regrabs + 1
  /\ k \in store /\ store' = store \ {k}
  /\ UNCHANGED <<lib, pend, demand, space, notes, thr, triggers, ages, errors>>

NextPrecache ==
  \/ \E t \in Threads :
       \/ \E e \in Episodes, pos \in {"mid", "late"} : Observe(t, e, pos)
       \/ readAhead(t) \/ startForwardWalk(t) \/ lookup(t) \/ precacheForwardWalk(t)
       \/ leaveWalk(t) \/ markEpisode(t) \/ reserveBudget(t) \/ burstEpisode(t)
       \/ recordReadiness(t) \/ account(t)
  \/ \E k \in Keys : Age(k) \/ handleDamage(k) \/ awaitReadiness(k) \/ OnPar2Repaired(k)
                     \/ evictWatchedDue(k) \/ PurgeIncomplete(k) \/ DeleteEntry(k)
  \/ \E e \in Episodes : rewarmDue(e) \/ expireRewarm(e) \/ Import(e)
  \/ rewarmed \/ Summary \/ populateFromCache

SpecPrecache == InitPrecache /\ [][NextPrecache]_prvars

---------------------------------------------------------------------------

(* A trigger that found a walk running never lands on one that has decided *)
(* that its window is over: what was asked of the running walk is within   *)
(* its window until it is reached or the walk leaves for another reason.   *)
WalkKeepsRequests == \A n \in asked : walk.on /\ n <= walk.target
============================================================================
