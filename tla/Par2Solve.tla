----------------------------- MODULE Par2Solve -----------------------------
(***************************************************************************)
(* One PAR2 repair pass over a release (pkg/manager/par2_repair.go,        *)
(* runRepair and what it calls), beside a viewer whose reads go through    *)
(* the reader's segment cache and the mount's range cache.  Par2Lanes      *)
(* models who runs a pass; this module models what a pass does: which      *)
(* recovery data it gathers, what it takes for damaged, when it gives up,  *)
(* what it writes and which stale copies it drops.                         *)
(*                                                                         *)
(* Articles, slices and recovery volumes are small sets.  Bytes are        *)
(* abstracted to whether they are the posted ones: "true", "zero" (a pad)  *)
(* or "wrong" (another article's).  A slice is true when every article it  *)
(* overlaps is, which is what its checksum in the index tells.             *)
(***************************************************************************)
EXTENDS Integers, Sequences, FiniteSets, SequencesExt, FiniteSetsExt

CONSTANTS
  File,         \* posted files, each described by the PAR2 index
  Seg,          \* the articles of the posted files
  FileOf,       \* the posted file of an article
  Slice,        \* the input slices of the recovery sets
  FileSlices,   \* the slices of a file, one that was never posted included
  SlicesOf,     \* the slices an article overlaps
  SetOf,        \* the recovery set that protects a file, in a release with several
  Vol,          \* recovery volumes, numbered from 1, smallest first
  Count,        \* recovery slices of a volume
  VolSet,       \* the recovery set a volume belongs to, likewise
  Cap,          \* MaxRepairSlicesFor: how many slices one solve may rebuild
  Large,        \* a repair of more slices than this takes the large-repair slot
  MaxRounds,    \* maxIntactRepairRounds
  MaxNotFound,  \* par2RecoveryMaxConsecutiveNotFound
  MaxMismatch,  \* maxIntactChecksumMismatches
  SuspectLimit, \* par2SuspectAttemptLimit
  MaxPasses,    \* bound on the passes of a behaviour
  MaxBad,       \* bound on the articles that are not good
  MaxReads,     \* bound on the viewer's reads
  Casts         \* the fault sets a behaviour may have

VARIABLES
  article,  \* what the providers hold: "good", "gone", "corrupt", "short", "wrong"
  volume,   \* a volume on the providers: "whole", "partial", "dead"
  cast,     \* the faults that happen in this behaviour
  recorded, \* articles the overlay has recorded dead
  patch,    \* the patch on disk of an article: "none", "true", "wrong"
  warm,     \* the reader's segment cache
  dfs,      \* the mount's range cache
  inflight, \* bytes a viewer's read has taken from the reader and not stored
  again,    \* articles whose second forget is still to come
  reads,    \* viewer reads so far
  slot,     \* holder of the large-repair slot: "free", "us", "other"
  passes,   \* passes started
  cut,      \* a pass was cancelled while it was healing
  job       \* the locals of the pass, and its verdict

world == <<article, volume, cast>>
caches == <<warm, dfs, inflight, again>>
vars == <<world, recorded, patch, caches, reads, slot, passes, cut, job>>

Fault(f) == f \in cast

\* Most releases have one recovery set; some have one per posted file.
Set(f) == IF Fault("sets") THEN SetOf[f] ELSE "one"
VolumeSet(v) == IF Fault("sets") THEN VolSet[v] ELSE "one"
Sets == {Set(f) : f \in File}

\* The files the index describes: the posted ones, and perhaps one that was
\* never posted.
Posted(f) == \E s \in Seg : FileOf[s] = f
Described == {f \in File : Posted(f) \/ Fault("extra")}

\* A posting with at most MaxBad damaged articles; playback recorded some
\* articles dead, wrongly perhaps, and padded what it served of them.
NoJob == [at |-> "idle", out |-> "none", why |-> "none", pending |-> {}, index |-> {}, vols |-> <<>>,
          got |-> 0, next |-> 1, avail |-> 0, transport |-> FALSE, set |-> "any",
          deferred |-> FALSE, matched |-> {}, skipped |-> {}, exact |-> {}, miss |-> {},
          reduced |-> FALSE, damaged |-> {}, bad |-> {}, todo |-> {}, dead |-> {}, round |-> 0,
          written |-> {}, healed |-> {}, need |-> 0, last |-> 0, added |-> 0, misses |-> 0,
          back |-> "none", srcs |-> {}, unchecked |-> FALSE]

Init ==
  /\ cast \in Casts
  /\ article \in [Seg -> {"good"} \cup (cast \cap {"gone", "corrupt", "short", "wrong"})]
  /\ Cardinality({s \in Seg : article[s] # "good"}) <= MaxBad
  /\ volume \in [Vol -> {"whole"} \cup (cast \cap {"partial", "dead"})]
  /\ recorded \in SUBSET Seg \ {{}}
  /\ patch = [s \in Seg |-> "none"]
  /\ warm = [s \in Seg |-> "none"]
  /\ dfs = [s \in Seg |-> IF s \in recorded THEN "zero" ELSE "none"]
  /\ inflight = [s \in Seg |-> "none"]
  /\ again = {} /\ reads = 0 /\ slot = "free" /\ passes = 0 /\ cut = FALSE
  /\ job = NoJob

----------------------------------------------------------------------------
(* The viewer                                                              *)

\* PatchBytes, reached when the article cannot be fetched; else the pad.
Served(s) == IF warm[s] # "none" THEN warm[s]
             ELSE IF article[s] \in {"good", "wrong"} THEN "true"
             ELSE IF patch[s] # "none" THEN patch[s] ELSE "zero"

\* A stream reads an article from the reader, which keeps it; it stores what
\* it got in the range cache later.  A pad is recorded dead.
ViewerReads(s) ==
  /\ Fault("viewer") /\ reads < MaxReads /\ dfs[s] = "none" /\ inflight[s] = "none"
  /\ inflight' = [inflight EXCEPT ![s] = Served(s)]
  /\ warm' = [warm EXCEPT ![s] = Served(s)]
  /\ recorded' = IF Served(s) = "zero" THEN recorded \cup {s} ELSE recorded
  /\ reads' = reads + 1
  /\ UNCHANGED <<world, patch, dfs, again, slot, passes, cut, job>>

ViewerStores(s) ==
  /\ inflight[s] # "none"
  /\ dfs' = [dfs EXCEPT ![s] = inflight[s]]
  /\ inflight' = [inflight EXCEPT ![s] = "none"]
  /\ UNCHANGED <<world, recorded, patch, warm, again, reads, slot, passes, cut, job>>

\* invalidateRepaired: refresh the reader, forget the ranges, and forget them
\* again later.
Invalidate(S) ==
  /\ warm' = [s \in Seg |-> IF s \in S THEN "none" ELSE warm[s]]
  /\ dfs' = [s \in Seg |-> IF s \in S THEN "none" ELSE dfs[s]]
  /\ again' = again \cup S
  /\ UNCHANGED inflight

\* The second forget, repairedRangeReforgetDelay later: long enough for a
\* store that was under way to have landed.
ForgetAgain(s) ==
  /\ s \in again /\ inflight[s] # "zero"
  /\ dfs' = [dfs EXCEPT ![s] = "none"]
  /\ again' = again \ {s}
  /\ UNCHANGED <<world, recorded, patch, warm, inflight, reads, slot, passes, cut, job>>

----------------------------------------------------------------------------
(* The pass: helpers                                                       *)

ArticlesOf(sl) == {s \in Seg : sl \in SlicesOf[s]}
Damages(S) == UNION {SlicesOf[s] : s \in S}
Sum(vs) == MapThenSumSet(LAMBDA v : Count[v], vs)
Available == Sum(ToSet(job.vols))
Budget == IF job.avail < Cap THEN job.avail ELSE Cap
InSet(f) == job.set = "any" \/ Set(f) = job.set
SetSlices == UNION {FileSlices[f] : f \in {g \in Described : InSet(g)}}

Step(place) == job' = [job EXCEPT !.at = place]

\* Every exit of runRepair: the large-repair slot is given back, what was
\* written is invalidated, and a success that left another set's damage for
\* the next pass is a transient failure.  par2OutcomeClass gives up
\* on a suspect failure at the last attempt.
par2OutcomeClass(out) == IF out = "suspect" /\ passes >= SuspectLimit THEN "worn out" ELSE out

Return(out, why) ==
  /\ job' = [job EXCEPT !.at = "done", !.why = why,
                        !.out = IF out = "ok" /\ job.deferred THEN "transient" ELSE par2OutcomeClass(out)]
  /\ slot' = IF slot = "us" THEN "free" ELSE slot
  /\ Invalidate(job.written)

\* Mutant: a shortfall is always final.
ShortfallFinal == "terminal"

\* par2FetchShortfall, par2RecoveryShortfall
Shortfall == IF job.transport THEN "transient" ELSE "terminal"

Quiet == UNCHANGED <<caches, slot>>
Frame == UNCHANGED <<world, recorded, patch, reads, passes, cut>>

----------------------------------------------------------------------------
(* The pass: gathering recovery data                                       *)

\* runJob takes the release's unpatched dead articles; runRepair loads the
\* record, moves PAR2 files found among the posted ones, and backfills.
Start ==
  /\ \/ job.at = "idle"
     \/ job.at = "done" /\ job.out \in {"transient", "suspect"}
  /\ passes < MaxPasses /\ recorded # {s \in recorded : patch[s] # "none"}
  /\ passes' = passes + 1
  /\ job' = [NoJob EXCEPT !.at = "load", !.pending = {s \in recorded : patch[s] = "none"}]
  /\ UNCHANGED <<world, recorded, patch, caches, reads, slot, cut>>

LoadRecord ==
  /\ job.at = "load" /\ Frame
  /\ \/ Step("stat") /\ Quiet
     \/ Fault("nodata") /\ Return("terminal", "no PAR2 data")
     \/ Fault("transport") /\ Return("transient", "backfill")

\* statRecoveryVolumes: a volume whose every article is gone is dropped, one
\* that lost some goes last.  The check itself may fail.
statRecoveryVolumes ==
  /\ job.at = "stat" /\ Frame /\ Quiet
  /\ LET all == SetToSortSeq(Vol, <)
         alive == SelectSeq(all, LAMBDA v : volume[v] = "whole")
         torn == SelectSeq(all, LAMBDA v : volume[v] = "partial")
     IN \/ job' = [job EXCEPT !.at = "index", !.vols = alive \o torn]
        \/ Fault("stat") /\ job' = [job EXCEPT !.at = "index", !.vols = all, !.unchecked = TRUE]

\* The index file of each recovery set; one that cannot be fetched is left out.
FetchIndex ==
  /\ job.at = "index" /\ Frame /\ Quiet
  /\ \E read \in SUBSET Sets :
       /\ read = Sets \/ Fault("transport") \/ Fault("noindex")
       /\ job' = [job EXCEPT !.at = "set", !.index = read,
                    !.transport = read # Sets /\ Fault("transport")]

\* choosePar2Set: with the indexes of several sets in hand, the set that
\* protects most of the damaged files; the others' damage waits.
Claims(p) == Cardinality({f \in File : Set(f) = p /\ \E s \in job.pending : FileOf[s] = f})

choosePar2Set ==
  /\ job.at = "set" /\ Frame
  /\ IF Cardinality(job.index) < 2
     THEN job' = [job EXCEPT !.at = "early", !.avail = Available] /\ Quiet
     ELSE \/ /\ Fault("untied") /\ Return(Shortfall, "untied")
          \/ \E p \in job.index :
               /\ \A q \in job.index : Claims(p) >= Claims(q)
               /\ LET vs == SelectSeq(job.vols, LAMBDA v : VolumeSet(v) = p)
                      mine == {s \in job.pending : Set(FileOf[s]) = p}
                  IN job' = [job EXCEPT !.at = "early", !.set = p, !.index = {p},
                               !.vols = IF vs = <<>> THEN job.vols ELSE vs,
                               !.avail = Sum(ToSet(IF vs = <<>> THEN job.vols ELSE vs)),
                               !.pending = mine, !.deferred = mine # job.pending]
               /\ Quiet

\* Mutant: the slices are not verified.
readUnverifiedRange(s) ==
  \A t \in UNION {ArticlesOf(sl) : sl \in SlicesOf[s]} : article[t] \in {"good", "wrong"}

\* readVerifiedRange: the slices an article overlaps, read from the
\* providers, all of them passing their checksum.
readVerifiedRange(s) ==
  \A t \in UNION {ArticlesOf(sl) : sl \in SlicesOf[s]} : article[t] = "good"

\* The bytes cut from those slices.
Extracted(s) == IF article[s] = "good" THEN "true" ELSE "wrong"

\* healBeforeRecoveryGate, healWithoutRecovery: before a capacity gate fails
\* the pass, the recorded articles that can be fetched and proven are patched.
Healable == IF job.index = {} THEN {} ELSE {s \in job.pending : readVerifiedRange(s)}

healBeforeRecoveryGate(out, why) ==
  \E H \in SUBSET Healable :
    /\ H = Healable \/ Fault("transport")
    /\ patch' = [s \in Seg |-> IF s \in H THEN Extracted(s) ELSE patch[s]]
    /\ slot' = IF slot = "us" THEN "free" ELSE slot
    /\ Invalidate(H)
    /\ job' = [job EXCEPT !.at = "done",
                 !.why = IF H = {} THEN why ELSE "healed",
                 !.out = IF H = job.pending THEN IF job.deferred THEN "transient" ELSE "ok"
                         ELSE IF H # {} THEN "transient" ELSE out]

\* The gates before anything is fetched: no recovery data, or, when the index
\* is readable and the geometry known (earlyDamagedSliceCheck), more damage
\* than recovery data or than one solve may rebuild.
EarlyGate ==
  /\ job.at = "early"
  /\ LET k == Cardinality(Damages(job.pending))
     IN IF job.avail = 0
        THEN healBeforeRecoveryGate(Shortfall, "no volumes")
        ELSE \/ /\ job.index # {} /\ (k > Cap \/ k > job.avail)
                /\ healBeforeRecoveryGate("terminal", "early")
             \/ /\ job.index = {} \/ k <= Budget \/ Fault("estimated")
                /\ Step(IF job.index # {} /\ k > Large THEN "wait" ELSE "fetch")
                /\ Quiet /\ UNCHANGED patch
  /\ UNCHANGED <<world, recorded, reads, passes, cut>>

\* waitForLargeRepair: large repairs run one at a time; a pass that has the
\* slot from its early check goes on.
waitForLargeRepair ==
  /\ job.at \in {"wait", "roundwait"} /\ Frame /\ UNCHANGED caches
  /\ slot \in {"free", "us"} /\ slot' = "us"
  /\ Step(IF job.at = "wait" THEN "fetch" ELSE "topup")

OtherLargeRepair ==
  /\ Fault("crowd")
  /\ \/ slot = "free" /\ slot' = "other"
     \/ slot = "other" /\ slot' = "free"
  /\ UNCHANGED <<world, recorded, patch, caches, reads, passes, cut, job>>

\* fetchMoreVolumes over computeRecoveryBatch: the volumes that should cover
\* the shortfall and one more, fetched one after the other.  A run of missing
\* ones ends the batch.  A partial volume yields what packets it has left.
Yield(v) == CASE volume[v] = "whole" -> {Count[v]}
              [] volume[v] = "partial" -> 0 .. Count[v] - 1
              [] OTHER -> {0}

computeRecoveryBatch(next, shortfall) ==
  LET covers(e) == e >= next /\ Sum({job.vols[i] : i \in next .. e}) >= shortfall
      ends == {e \in next .. Len(job.vols) : covers(e)}
  IN IF shortfall <= 0 THEN next - 1
     ELSE IF ends = {} THEN Len(job.vols)
     ELSE IF Min(ends) < Len(job.vols) THEN Min(ends) + 1 ELSE Min(ends)

FetchBatch(need, back) ==
  job' = [job EXCEPT !.at = "volume", !.need = need, !.back = back, !.added = 0, !.misses = 0,
                     !.last = computeRecoveryBatch(job.next, need - job.got)]

\* The first batch asks for one slice per dead article.
FetchVolumes ==
  /\ job.at = "fetch" /\ Frame /\ Quiet
  /\ FetchBatch(Cardinality(job.pending), "parse")

FetchVolume ==
  /\ job.at = "volume" /\ Frame /\ Quiet
  /\ IF job.next > job.last \/ job.got >= job.need \/ job.misses >= MaxNotFound
     THEN Step(job.back)
     ELSE LET v == job.vols[job.next]
          IN \/ /\ volume[v] # "dead"
                /\ \E y \in Yield(v) :
                     job' = [job EXCEPT !.next = @ + 1, !.got = @ + y, !.misses = 0, !.added = @ + 1,
                                        !.srcs = @ \cup {VolumeSet(v)}]
             \/ /\ volume[v] = "dead"
                /\ job' = [job EXCEPT !.next = @ + 1, !.misses = @ + 1]
             \/ /\ Fault("transport")
                /\ job' = [job EXCEPT !.next = @ + 1, !.misses = 0, !.transport = TRUE]

\* ParseIndexSet over what was fetched: packets of two sets do not parse
\* together, and without recovery slices the pass is over.
ParseIndexSet ==
  /\ job.at = "parse"
  /\ LET srcs == job.srcs \cup job.index
         mine == IF job.set = "any" THEN srcs ELSE srcs \cap {job.set}
     IN \/ srcs = {} /\ Return(Shortfall, "no PAR2 file") /\ UNCHANGED patch
        \/ srcs # {} /\ Cardinality(mine) # 1 /\ Return("terminal", "parse") /\ UNCHANGED patch
        \/ /\ Cardinality(mine) = 1
           /\ IF job.got = 0
              THEN healBeforeRecoveryGate(Shortfall, "no slices")
              ELSE /\ job' = [job EXCEPT !.at = "match", !.set = CHOOSE p \in mine : TRUE, !.index = mine]
                   /\ Quiet /\ UNCHANGED patch
  /\ UNCHANGED <<world, recorded, reads, passes, cut>>

----------------------------------------------------------------------------
(* The pass: what is damaged                                               *)

\* MatchFiles: the set's files found among the posted ones.  A file that must
\* be told apart by its first bytes is skipped when they cannot be fetched.
MatchFiles ==
  /\ job.at = "match" /\ Frame
  /\ LET mine == {f \in File : InSet(f) /\ Posted(f)}
     IN \E skipped \in SUBSET (IF Fault("transport") THEN mine ELSE {}) :
          IF mine \ skipped = {}
          THEN Return(IF skipped # {} THEN "transient" ELSE "terminal", "no match")
          ELSE /\ job' = [job EXCEPT !.at = "geometry", !.matched = mine \ skipped, !.skipped = skipped]
               /\ Quiet

\* resolveGeometry: article boundaries are known, measured, or estimated.
resolveGeometry ==
  /\ job.at = "geometry" /\ Frame /\ Quiet
  /\ \E E \in SUBSET job.matched :
       /\ E = job.matched \/ Fault("estimated")
       /\ job' = [job EXCEPT !.at = "sweep", !.exact = E]

MatchedSegs == {s \in Seg : FileOf[s] \in job.matched}
Gone == {s \in MatchedSegs : article[s] = "gone"}
Unreadable == {s \in Seg : article[s] \in {"gone", "corrupt"}}

\* statPostedFileDamage with the recorded articles as controls, and
\* settleStatMisses.  A host that has a control is left out of the sweep, and
\* the misses reported without it count only once their fetch fails too; too
\* many of them are left to the solve.
StatPosted ==
  /\ job.at = "sweep" /\ Frame /\ Quiet
  /\ LET present == {s \in job.pending : article[s] # "gone"}
     IN \/ /\ present = {}
           /\ job' = [job EXCEPT !.at = "map", !.miss = Gone, !.bad = Gone]
        \/ /\ present # {}
           /\ \E C \in SUBSET MatchedSegs :
                /\ Gone \subseteq C \/ Fault("transport") \/ Fault("stat")
                /\ job' = [job EXCEPT !.at = "map", !.reduced = TRUE,
                                      !.miss = C \cap Unreadable, !.bad = C \cap Unreadable]
        \/ Fault("stat") /\ Step("map")

\* Every recorded article must lie in a matched file.
MapDead ==
  /\ job.at = "map" /\ Frame
  /\ LET stray == {s \in job.pending : FileOf[s] \notin job.matched}
     IN \/ stray = {} /\ job' = [job EXCEPT !.at = "heal", !.todo = job.pending] /\ Quiet
        \/ \E s \in stray : Return(IF FileOf[s] \in job.skipped THEN "transient" ELSE "terminal", "stray")

\* healFetchableDeadSegments, one article: patched from its own bytes when
\* they are there and proven, left for the solve otherwise.
healFetchableDeadSegments(s) ==
  /\ job.at = "heal" /\ s \in job.todo
  /\ LET can == s \notin job.miss /\ FileOf[s] \in job.exact /\ readVerifiedRange(s)
     IN \/ /\ can
           /\ patch' = [patch EXCEPT ![s] = Extracted(s)]
           /\ job' = [job EXCEPT !.todo = @ \ {s}, !.healed = @ \cup {s}]
        \/ /\ ~can \/ Fault("transport")
           /\ job' = [job EXCEPT !.todo = @ \ {s}, !.dead = @ \cup {s}]
           /\ UNCHANGED patch
  /\ Quiet /\ UNCHANGED <<world, recorded, reads, passes, cut>>

\* Placeable: the boundaries of the article's file are measured.
Placeable(s) == FileOf[s] \in job.exact \/ Cardinality({t \in Seg : FileOf[t] = FileOf[s]}) = 1

\* The healed articles are invalidated; nothing left to solve ends the pass,
\* and so does having nowhere to place a patch (splitPlaceableDeadRefs).
Healed ==
  /\ job.at = "heal" /\ job.todo = {} /\ Frame
  /\ Invalidate(job.healed)
  /\ \/ /\ job.dead = {}
        /\ slot' = IF slot = "us" THEN "free" ELSE slot
        /\ job' = [job EXCEPT !.at = "done", !.why = "healed",
                              !.out = IF job.deferred THEN "transient" ELSE "ok"]
     \/ /\ job.dead # {} /\ \A s \in job.dead : ~Placeable(s)
        /\ slot' = IF slot = "us" THEN "free" ELSE slot
        /\ job' = [job EXCEPT !.at = "done", !.why = "unplaced",
                              !.out = IF \E s \in job.dead, t \in Gone : FileOf[s] = FileOf[t]
                                      THEN "terminal" ELSE "transient"]
     \/ /\ \E s \in job.dead : Placeable(s)
        /\ UNCHANGED slot
        /\ Step("fold")

\* foldStatSlices, uncoveredIntactFiles and foldUncoveredFiles: slices no
\* posted file can supply are damage too, if they fit.
Fold ==
  /\ job.at = "fold" /\ Frame
  /\ LET base == Damages(job.dead)
         swept == base \cup Damages(job.miss)
         D == IF job.reduced /\ Cardinality(swept) > Budget THEN base ELSE swept
         uncov == {f \in Described : InSet(f) /\ f \notin job.matched /\ ~(FileSlices[f] \subseteq D)}
         U == D \cup UNION {FileSlices[f] : f \in uncov}
     IN IF uncov # {} /\ Cardinality(U) > Budget
        THEN \E fit \in SUBSET uncov, f \in uncov :
               LET F == D \cup UNION {FileSlices[g] : g \in fit}
               IN /\ f \notin fit /\ (fit = {} \/ Cardinality(F) <= Budget)
                  /\ Cardinality(F \cup FileSlices[f]) > Budget
                  /\ Return(IF f \in job.skipped THEN "transient" ELSE "terminal", "uncovered")
        ELSE job' = [job EXCEPT !.at = "round", !.damaged = U] /\ Quiet

----------------------------------------------------------------------------
(* The pass: solving and writing                                           *)

\* The gates of a round.
Round ==
  /\ job.at = "round" /\ Frame
  /\ LET k == Cardinality(job.damaged)
     IN \/ k > Budget /\ Return("terminal", "more damage")
        \/ /\ k <= Budget /\ Quiet
           /\ Step(IF k > Large THEN "roundwait" ELSE "topup")

\* topUpParsedRecovery: batches until there are k slices or a batch adds none.
topUpParsedRecovery ==
  /\ job.at = "topup" /\ Frame
  /\ LET k == Cardinality(job.damaged)
     IN \/ job.got >= k /\ Step("solve") /\ Quiet
        \/ /\ job.got < k /\ job.next <= Len(job.vols) /\ (job.added > 0 \/ job.need # k)
           /\ FetchBatch(k, "topup") /\ Quiet
        \/ /\ job.got < k /\ (job.next > Len(job.vols) \/ (job.added = 0 /\ job.need = k))
           /\ Return(Shortfall, "shortfall")

\* An article as the solve reads it: from the range cache unless it was
\* recorded dead, verified, and read again from the providers on a mismatch.
FromCache(t) == dfs[t] = "true" /\ t \notin job.pending
Reads(t) == IF FromCache(t) THEN "good"
                ELSE IF FileOf[t] \notin job.exact /\ article[t] = "good" THEN "wrong" ELSE article[t]

Outcome(sl) ==
  LET what == {Reads(t) : t \in ArticlesOf(sl)}
  IN IF "gone" \in what THEN "gone" ELSE IF "corrupt" \in what THEN "corrupt"
     ELSE IF "short" \in what THEN "short" ELSE IF "wrong" \in what THEN "wrong" ELSE "good"

\* Why a round's slices could not be used.
DeadCauses(S) == {Outcome(sl) : sl \in S}

\* par2RoundCapError as classifyPar2Failure reads it.
RoundCapError(new, crc) ==
  IF crc THEN "suspect"
  ELSE IF DeadCauses(new) \cap {"gone", "corrupt"} # {} THEN "terminal"
  ELSE IF new # {} THEN "suspect" ELSE "transient"

\* RepairWith reads every intact slice and checks it; these fail it.
Unsound == {sl \in SetSlices \ job.damaged : Outcome(sl) # "good"}

\* One round of runRepair over RepairWith.  Unreadable slices become damage and the
\* round is repeated (par2RoundShouldStop); more than MaxMismatch failing
\* their checksum end it; a transport error ends it with what was seen so far.
Solve ==
  /\ job.at = "solve" /\ Frame
  /\ LET odd == Unsound
         crc == Cardinality({sl \in odd : Outcome(sl) = "wrong"}) > MaxMismatch
     IN \/ /\ odd = {}
           /\ job' = [job EXCEPT !.at = "write", !.todo = {s \in job.dead : Placeable(s)}] /\ Quiet
        \/ \E new \in SUBSET odd :
             /\ IF crc THEN Cardinality({sl \in new : Outcome(sl) = "wrong"}) = MaxMismatch
                       ELSE new = odd \/ Fault("transport")
             /\ odd # {} \/ Fault("transport")
             /\ IF new = {} \/ job.round >= MaxRounds - 1 \/ Cardinality(job.damaged \cup new) > Budget
                THEN Return(RoundCapError(new, crc), "round cap")
                ELSE /\ job' = [job EXCEPT !.at = "round", !.round = @ + 1, !.damaged = @ \cup new,
                                  !.bad = @ \cup {t \in Unreadable :
                                                    ~FromCache(t) /\ SlicesOf[t] \cap new # {}}]
                     /\ Quiet

\* The recorded articles get their patches one by one; a failed write ends
\* the pass with those written so far.
WritePatch(s) ==
  /\ job.at = "write" /\ s \in job.todo
  /\ \/ /\ patch' = [patch EXCEPT ![s] = "true"]
        /\ job' = [job EXCEPT !.todo = @ \ {s}, !.written = @ \cup {s}]
        /\ Quiet
     \/ /\ Fault("disk")
        /\ Return("transient", "write") /\ UNCHANGED patch
  /\ UNCHANGED <<world, recorded, reads, passes, cut>>

\* The recorded articles no patch could be placed for.
Unplaced == {s \in job.dead : ~Placeable(s)}

\* discoveredDeadRefs: articles the pass itself found bad are recorded and
\* patched when their slices were rebuilt.  What could not be placed is an
\* error of the pass.
WriteDiscovered ==
  /\ job.at = "write" /\ job.todo = {}
  /\ LET found == {t \in job.bad \ job.pending : Placeable(t) /\ SlicesOf[t] \subseteq job.damaged}
     IN \E D \in SUBSET found :
          /\ D = found \/ Fault("disk")
          /\ recorded' = recorded \cup D
          /\ patch' = [s \in Seg |-> IF s \in D THEN "true" ELSE patch[s]]
          /\ slot' = IF slot = "us" THEN "free" ELSE slot
          /\ Invalidate(job.written \cup D)
          /\ job' = [job EXCEPT !.at = "done", !.why = "solved",
                       !.out = IF Unplaced # {} \/ job.deferred THEN "transient" ELSE "ok"]
  /\ UNCHANGED <<world, reads, passes, cut>>

\* The context ends: a deadline, the idle watchdog or a stop.  The deferred
\* calls of runRepair run.
CutShort ==
  /\ Fault("cancel") /\ job.at \notin {"idle", "done"}
  /\ Return("transient", "cancelled")
  /\ cut' = (cut \/ (job.at = "heal" /\ job.healed # {}))
  /\ UNCHANGED <<world, recorded, patch, reads, passes>>

----------------------------------------------------------------------------
Next ==
  \/ Start \/ LoadRecord \/ statRecoveryVolumes \/ FetchIndex \/ choosePar2Set \/ EarlyGate
  \/ waitForLargeRepair \/ OtherLargeRepair \/ FetchVolumes \/ FetchVolume \/ ParseIndexSet
  \/ MatchFiles \/ resolveGeometry \/ StatPosted \/ MapDead \/ Healed \/ Fold \/ Round
  \/ topUpParsedRecovery \/ Solve \/ WriteDiscovered \/ CutShort
  \/ \E s \in Seg : \/ ViewerReads(s) \/ ViewerStores(s) \/ ForgetAgain(s)
                    \/ healFetchableDeadSegments(s) \/ WritePatch(s)

Spec == Init /\ [][Next]_vars

----------------------------------------------------------------------------
(* Properties                                                              *)

\* A patch holds the posted bytes, whatever the providers served meanwhile:
\* readVerifiedRange and RepairWith check every slice they cut or sum.
PatchIsTrue == \A s \in Seg : patch[s] # "wrong"

\* What could be lost for good: the recorded and the really damaged slices of
\* the set against its whole volumes.
Whole(p) == Sum({v \in Vol : volume[v] = "whole" /\ VolumeSet(v) = p})
Loss(p) == LET F == {f \in Described : Set(f) = p}
               bad == {s \in Seg : FileOf[s] \in F /\ (s \in recorded \/ article[s] # "good")}
           IN Cardinality(Damages(bad) \cup UNION {FileSlices[f] : f \in {g \in F : ~Posted(g)}})
Coverable == /\ \A p \in Sets : Loss(p) <= Whole(p) /\ Loss(p) <= Cap
             /\ cast \cap {"nodata", "noindex", "untied"} = {}

\* A pass gives a release up only when the damage, recorded and real, is more
\* than its whole volumes or one solve can cover, never for an article that
\* was slow or a connection that broke.  Two cases are left out, where the code
\* does give up early (README, observations): volumes whose STAT failed, and a
\* file MatchFiles skipped for a transport error, whose slices are then counted
\* as damage; and one is meant: a patch that has no place because the article boundaries cannot be measured.
GivenUpIsLost ==
  /\ job.at = "done" /\ job.out = "terminal" /\ job.why # "unplaced"
  /\ ~job.unchecked /\ job.skipped = {}
  => ~Coverable
============================================================================
