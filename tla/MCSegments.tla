----------------------------- MODULE MCSegments -----------------------------
(***************************************************************************)
(* The segments of a release, in two parts checked side by side: one       *)
(* segment under concurrent readers, fetches, the evictor and a repair     *)
(* (SegmentFetch, extended here), and one PAR2 pass over a damaged         *)
(* release, beside a viewer.  SegmentFetch rests in one of its initial     *)
(* states while the pass runs, which stays "off" otherwise.                *)
(***************************************************************************)
EXTENDS SegmentFetch, Sequences, TLC

CONSTANTS File, Seg, FileOf, Slice, FileSlices, SlicesOf, SetOf, Vol, Count, VolSet,
          Cap, Large, MaxRounds, MaxNotFound, MaxMismatch, SuspectLimit, MaxPasses, MaxBad,
          MaxReads, Casts,
          r1, r2, r3   \* model values

\* No article is empty: every one overlaps a slice.
ASSUME SlicesAssumption == \A s \in Seg : SlicesOf[s] # {}

VARIABLES
  part,
  article, volume, cast, recorded, patch, warm, dfs, inflight, again, reads, large, passes,
  cut, job

world3(k1, k2, k3, n, b) ==
  [kind |-> (r1 :> k1) @@ (r2 :> k2) @@ (r3 :> k3), evict |-> n, repair |-> b]

\* Read-aheads around a probe while a repair lands; a viewer with a pre-cache
\* burst, a read-ahead or a probe; a repair with a viewer and a probe; the
\* evictor with readers that copy out or with a viewer.
MCWorlds ==
  {world3("verify", "prefetch", "prefetch", 0, TRUE),
   world3("playback", "burst", "prefetch", 0, FALSE),
   world3("playback", "burst", "absent", 0, FALSE),
   world3("playback", "verify", "absent", 0, FALSE),
   world3("playback", "verify", "absent", 1, FALSE),
   world3("playback", "verify", "absent", 0, TRUE),
   world3("reader", "prefetch", "absent", 2, FALSE),
   world3("reader", "reader", "absent", 1, FALSE),
   world3("playback", "prefetch", "absent", 2, FALSE)}

\* A probe and two read-aheads beside the evictor.
EvictedWorlds == {world3("verify", "prefetch", "prefetch", 1, FALSE)}

\* A release of two posted files of two articles and one, and one that was
\* never posted, with slices across article boundaries and three recovery
\* volumes; the files are in one recovery set or in two.
MCFile == {"a", "b", "nfo"}
MCSeg == 1 .. 3
MCFileOf == <<"a", "a", "b">>
MCSlice == 1 .. 5
MCFileSlices == [f \in MCFile |-> CASE f = "a" -> {1, 2, 3} [] f = "b" -> {4} [] OTHER -> {5}]
MCSlicesOf == <<{1, 2}, {2, 3}, {4}>>
MCSetOf == [f \in MCFile |-> IF f = "b" THEN "t" ELSE "s"]
MCVol == 1 .. 3
MCCount == <<1, 1, 2>>
MCVolSet == <<"s", "t", "s">>

Pass == INSTANCE Par2Solve WITH slot <- large

pass == <<article, volume, cast, recorded, patch, warm, dfs, inflight, again, reads, large,
          passes, cut, job>>
mcvars == <<part, vars, pass>>

PassOff ==
  /\ article = "off" /\ volume = "off" /\ cast = "off" /\ recorded = "off" /\ patch = "off"
  /\ warm = "off" /\ dfs = "off" /\ inflight = "off" /\ again = "off" /\ reads = "off"
  /\ large = "off" /\ passes = "off" /\ cut = "off" /\ job = "off"

MCInit ==
  /\ Init
  /\ \/ part = "fetch" /\ PassOff
     \/ /\ part = "pass" /\ Pass!Init
        /\ world = CHOOSE w \in World : TRUE
        /\ alive /\ sweep

MCNext == \/ part = "fetch" /\ Next /\ UNCHANGED <<part, pass>>
          \/ part = "pass" /\ Pass!Next /\ UNCHANGED <<part, vars>>

MCSpec == MCInit /\ [][MCNext]_mcvars

\* A patch holds the posted bytes, whatever the providers served meanwhile
\* (par2_repair.go, readVerifiedRange).
PatchIsTrue == part = "pass" => Pass!PatchIsTrue

\* A release is given up for good only when the recovery data that is left
\* cannot rebuild it (par2_repair.go, runRepair).
GivenUpIsLost == part = "pass" => Pass!GivenUpIsLost
=============================================================================
