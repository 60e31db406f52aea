--------------------------- MODULE LibraryProofs ----------------------------
(***************************************************************************)
(* For any season and any number of walkers, triggers, re-grabs and errors:*)
(* a walk of the pre-cache answers what is asked of it (Precache).  For    *)
(* any number of ticks and of deletions the Arr reports: the cleanup of    *)
(* stale records leaves alone what the library leads to (StaleRecords).  For*)
(* every number of bursts of the two classes: the turn of the burst gate is*)
(* neither lost nor shared and no waiter is forgotten, read-aheads go first,*)
(* and a read-ahead is abandoned only for a viewer who left (BurstGate).   *)
(***************************************************************************)
EXTENDS MCLibrary, FiniteSetTheorems, SequenceTheorems, TLAPS

-----------------------------------------------------------------------------
(* The walk over a season.                                                 *)

Walking == {"lookup", "file", "leave", "mark", "reserve", "burst", "note", "account"}
Alone   == {"idle", "read", "start", "rewarmed"}   \* outside the walk
ThreadRec == [pc : Walking \cup Alone, ep : 0..LastEpisode, key : Nat \X Nat, to : Nat]

\* What a thread may be: one that is doing something is at an episode, only a
\* walk reads ahead, starts, looks up or leaves, and one that leaves does so
\* for a reason of its own.
Fits(t, r) ==
  /\ r \in ThreadRec
  /\ r.pc # "idle" => r.ep > 0
  /\ t = Warm!Maint => r.pc \notin {"read", "start", "lookup", "file", "leave"}
  /\ r.pc = "leave" => r.to = 1

\* The inductive invariant.  What was asked stays within the window only
\* because one thread at a time is inside the walk and the season's walk is
\* marked as running until that thread is out.
WalkInv ==
  /\ lib \in [Warm!Episodes -> Nat] /\ rewarm \in [Warm!Episodes -> Nat]
  /\ walk \in [on : BOOLEAN, target : Nat] /\ asked \subseteq Nat \ {0}
  /\ thr \in [Warm!Threads -> ThreadRec] /\ \A t \in Warm!Threads : Fits(t, thr[t])
  /\ \A t \in Walkers : thr[t].pc \in Walking =>
       walk.on /\ \A u \in Walkers : thr[u].pc \in Walking => u = t
  /\ Warm!WalkKeepsRequests

LEMMA WalkInit == Warm!InitPrecache => WalkInv
<1> SUFFICES ASSUME Warm!InitPrecache PROVE WalkInv OBVIOUS
<1>1. lib \in [Warm!Episodes -> Nat] /\ rewarm \in [Warm!Episodes -> Nat]
  BY DEF Warm!InitPrecache
<1>2. walk \in [on : BOOLEAN, target : Nat] /\ asked = {}
  BY DEF Warm!InitPrecache
<1>3. Warm!Resting \in ThreadRec /\ Warm!Resting.pc = "idle"
  BY LibraryAssumption DEF Warm!Resting, ThreadRec, Alone, Warm!PrecacheAssumption
<1>4. thr \in [Warm!Threads -> ThreadRec] /\ \A t \in Warm!Threads : thr[t] = Warm!Resting
  BY <1>3 DEF Warm!InitPrecache
<1>5. \A t \in Warm!Threads : Fits(t, thr[t]) BY <1>3, <1>4 DEF Fits
<1>6. \A t \in Walkers : thr[t].pc \notin Walking
  BY <1>3, <1>4 DEF Warm!Threads, Walking
<1> QED BY <1>1, <1>2, <1>4, <1>5, <1>6 DEF WalkInv, Warm!WalkKeepsRequests

\* A step of one thread that leaves the season's walk alone and does not enter
\* it from outside.
LEMMA ThreadMoves ==
  ASSUME WalkInv, NEW t \in Warm!Threads, NEW r, Fits(t, r),
         thr' = [thr EXCEPT ![t] = r],
         t \in Walkers /\ r.pc \in Walking => thr[t].pc \in Walking,
         lib' \in [Warm!Episodes -> Nat], rewarm' \in [Warm!Episodes -> Nat],
         walk' = walk, asked' \subseteq asked
  PROVE  WalkInv'
<1>1. r \in ThreadRec BY DEF Fits
<1>2. thr' \in [Warm!Threads -> ThreadRec] BY <1>1 DEF WalkInv
<1>3. thr'[t] = r /\ \A u \in Warm!Threads \ {t} : thr'[u] = thr[u] BY DEF WalkInv
<1>4. \A u \in Warm!Threads : Fits(u, thr'[u]) BY <1>3 DEF WalkInv
<1>5. \A u \in Walkers : thr'[u].pc \in Walking => thr[u].pc \in Walking
  BY <1>3 DEF Warm!Threads
<1>6. \A u \in Walkers : thr'[u].pc \in Walking =>
        walk'.on /\ \A v \in Walkers : thr'[v].pc \in Walking => v = u
  BY <1>5 DEF WalkInv
<1>7. Warm!WalkKeepsRequests' BY DEF WalkInv, Warm!WalkKeepsRequests
<1>8. walk' \in [on : BOOLEAN, target : Nat] /\ asked' \subseteq Nat \ {0} BY DEF WalkInv
<1> QED BY <1>2, <1>4, <1>6, <1>7, <1>8 DEF WalkInv

\* The walk ends with the thread that is in it.
LEMMA WalkEnds ==
  ASSUME WalkInv, NEW t \in Walkers, thr[t].pc \in Walking,
         thr' = [thr EXCEPT ![t] = Warm!Resting], walk' = [on |-> FALSE, target |-> 0],
         asked' = {}, UNCHANGED <<lib, rewarm>>
  PROVE  WalkInv'
<1>1. t \in Warm!Threads BY DEF Warm!Threads
<1>2. Warm!Resting \in ThreadRec /\ Warm!Resting.pc = "idle"
  BY LibraryAssumption DEF Warm!Resting, ThreadRec, Alone, Warm!PrecacheAssumption
<1>3. thr' \in [Warm!Threads -> ThreadRec] BY <1>1, <1>2 DEF WalkInv
<1>4. thr'[t] = Warm!Resting /\ \A u \in Warm!Threads \ {t} : thr'[u] = thr[u]
  BY <1>1 DEF WalkInv
<1>5. \A u \in Warm!Threads : Fits(u, thr'[u]) BY <1>2, <1>4 DEF WalkInv, Fits
<1>6. \A u \in Walkers : thr'[u].pc \notin Walking
  BY <1>2, <1>4 DEF Warm!Threads, WalkInv, Walking
<1>7. Warm!WalkKeepsRequests' BY DEF Warm!WalkKeepsRequests
<1>8. walk' \in [on : BOOLEAN, target : Nat] /\ asked' \subseteq Nat \ {0} OBVIOUS
<1> QED BY <1>3, <1>5, <1>6, <1>7, <1>8 DEF WalkInv

\* Nothing of the walk is touched.
LEMMA WalkRests ==
  ASSUME WalkInv, UNCHANGED <<thr, walk, asked>>,
         lib' \in [Warm!Episodes -> Nat], rewarm' \in [Warm!Episodes -> Nat]
  PROVE  WalkInv'
BY DEF WalkInv, Fits, Warm!WalkKeepsRequests

LEMMA WalkTypes ==
  ASSUME WalkInv, NEW t \in Warm!Threads
  PROVE  /\ thr[t] \in ThreadRec /\ Fits(t, thr[t])
         /\ Warm!Maint \in Warm!Threads /\ Walkers \subseteq Warm!Threads
         /\ t # Warm!Maint => t \in Walkers
         /\ Warm!Maint \notin Walkers
BY LibraryAssumption DEF WalkInv, Warm!Threads, Warm!PrecacheAssumption, Warm!Maint

LEMMA WalkRestingFits ==
  ASSUME NEW t PROVE Fits(t, Warm!Resting)
BY LibraryAssumption DEF Fits, Warm!Resting, ThreadRec, Alone, Warm!PrecacheAssumption

\* A thread that only goes on to another place.
LEMMA PcMoves ==
  ASSUME WalkInv, NEW t \in Warm!Threads, NEW pc \in Walking \cup Alone, thr[t].pc # "idle",
         t = Warm!Maint => pc \notin {"read", "start", "lookup", "file", "leave"},
         pc # "leave"
  PROVE  /\ Fits(t, [thr[t] EXCEPT !.pc = pc]) /\ [thr[t] EXCEPT !.pc = pc].pc = pc
BY WalkTypes DEF Fits, ThreadRec

LEMMA WalkLookup ==
  ASSUME WalkInv, NEW t \in Warm!Threads, Warm!lookup(t) PROVE WalkInv'
<1>1. thr[t].pc = "lookup" /\ t \in Walkers /\ thr[t].pc \in Walking
  BY WalkTypes DEF Warm!lookup, Fits, Walking
<1>2. thr[t] \in ThreadRec /\ thr[t].ep \in Nat /\ thr[t].ep > 0
  BY <1>1, WalkTypes DEF Fits, ThreadRec
<1>3. UNCHANGED <<lib, rewarm>> /\ lib' \in [Warm!Episodes -> Nat] /\ rewarm' \in [Warm!Episodes -> Nat]
  BY DEF Warm!lookup, Warm!media, Warm!notes, WalkInv
<1>4. CASE Warm!Leave(t) /\ UNCHANGED <<walk, asked>>
  <2>1. Fits(t, [thr[t] EXCEPT !.pc = "leave", !.to = 1])
    BY <1>1, <1>2, WalkTypes DEF Fits, ThreadRec, Walking, Alone
  <2>2. thr' = [thr EXCEPT ![t] = [thr[t] EXCEPT !.pc = "leave", !.to = 1]]
    BY <1>4 DEF Warm!Leave, WalkInv
  <2> HIDE DEF WalkInv
  <2> QED BY <1>1, <1>3, <1>4, <2>1, <2>2, ThreadMoves
<1>5. CASE thr[t].ep < LastEpisode /\ Warm!walkContinues(t, thr[t].ep + 1)
  <2> DEFINE e == thr[t].ep + 1
             r == [thr[t] EXCEPT !.pc = "file", !.ep = e]
  <2>1. e \in 0..LastEpisode /\ e > 0 /\ e - 1 = thr[t].ep
    BY <1>2, <1>5, LibraryAssumption DEF Warm!PrecacheAssumption
  <2>2. CASE thr' = [thr EXCEPT ![t].pc = "file", ![t].ep = e] /\ asked' = asked \ 1..(e - 1) /\ walk' = walk
    <3>1. Fits(t, r)
      BY <1>1, <1>2, <2>1, WalkTypes DEF Fits, ThreadRec, Walking, Alone
    <3>2. thr' = [thr EXCEPT ![t] = r] BY <2>2 DEF WalkInv
    <3>3. asked' \subseteq asked BY <2>2
    <3> HIDE DEF r
    <3> QED BY <1>1, <1>3, <2>2, <3>1, <3>2, <3>3, ThreadMoves
  <2>3. CASE ~Warm!covers(e) /\ Warm!WalkStops(t)
    <3>1. \A n \in asked : n \in Nat /\ n > 0 /\ n <= walk.target /\ walk.target < e
      BY <2>1, <2>3 DEF WalkInv, Warm!covers, Warm!WalkKeepsRequests
    <3>2. asked \subseteq 1..thr[t].ep
      BY <1>2, <2>1, <3>1 DEF WalkInv
    <3>3. asked' = {} BY <2>3, <3>2 DEF Warm!WalkStops
    <3> QED BY <1>1, <1>3, <2>3, <3>3, WalkEnds DEF Warm!WalkStops, Warm!Rest
  <2> QED BY <1>5, <2>2, <2>3 DEF Warm!walkContinues
<1> QED BY <1>4, <1>5 DEF Warm!lookup

LEMMA WalkStarts ==
  ASSUME WalkInv, NEW t \in Warm!Threads, Warm!startForwardWalk(t) PROVE WalkInv'
<1> DEFINE target == Warm!walkTarget(thr[t].ep)
<1>1. thr[t].pc = "start" /\ t \in Walkers /\ thr[t].pc \notin Walking
  BY WalkTypes DEF Warm!startForwardWalk, Fits, Walking
<1>2. thr[t] \in ThreadRec /\ thr[t].ep \in Nat /\ thr[t].ep > 0
  BY <1>1, WalkTypes DEF Fits, ThreadRec
<1>3. target \in Nat \ {0}
  BY <1>2, LibraryAssumption DEF Warm!walkTarget, Warm!PrecacheAssumption
<1>4. UNCHANGED <<lib, rewarm>> /\ asked' = asked \cup {target}
  BY DEF Warm!startForwardWalk, Warm!media, Warm!notes
<1>5. asked' \subseteq Nat \ {0} BY <1>3, <1>4 DEF WalkInv
<1> HIDE DEF target
<1>6. walk \in [on : BOOLEAN, target : Nat] /\ walk.target \in Nat BY DEF WalkInv
<1>7. CASE walk.on
  <2>1. walk' = [walk EXCEPT !.target = IF @ < target THEN target ELSE @]
        /\ thr' = [thr EXCEPT ![t] = Warm!Resting]
    BY <1>7 DEF Warm!startForwardWalk, Warm!Rest, target
  <2>2. walk' \in [on : BOOLEAN, target : Nat] /\ walk'.on = walk.on
        /\ walk.target <= walk'.target /\ target <= walk'.target
    BY <1>3, <1>6, <2>1
  <2>3. Warm!WalkKeepsRequests'
    BY <1>3, <1>4, <1>6, <1>7, <2>2 DEF WalkInv, Warm!WalkKeepsRequests
  <2>4. thr' \in [Warm!Threads -> ThreadRec] /\ \A u \in Warm!Threads : Fits(u, thr'[u])
    BY <2>1, WalkRestingFits DEF WalkInv, Fits
  <2>5. \A u \in Walkers : thr'[u].pc \in Walking => thr[u].pc \in Walking
    BY <2>1, WalkTypes DEF WalkInv, Warm!Resting, Walking
  <2>6. \A u \in Walkers : thr'[u].pc \in Walking =>
          walk'.on /\ \A v \in Walkers : thr'[v].pc \in Walking => v = u
    BY <1>7, <2>2, <2>5 DEF WalkInv
  <2> QED BY <1>4, <1>5, <2>2, <2>3, <2>4, <2>6 DEF WalkInv
<1>8. CASE ~walk.on
  <2>1. walk' = [on |-> TRUE, target |-> target] /\ thr' = [thr EXCEPT ![t].pc = "lookup"]
    BY <1>8 DEF Warm!startForwardWalk, Warm!Go, target
  <2>2. asked = {} /\ \A u \in Walkers : thr[u].pc \notin Walking
    BY <1>8 DEF WalkInv, Warm!WalkKeepsRequests
  <2>3. walk' \in [on : BOOLEAN, target : Nat] /\ Warm!WalkKeepsRequests'
    BY <1>3, <1>4, <2>1, <2>2 DEF Warm!WalkKeepsRequests
  <2> DEFINE r == [thr[t] EXCEPT !.pc = "lookup"]
  <2>4. Fits(t, r) /\ r.pc = "lookup"
    BY <1>1, <1>2, WalkTypes DEF Fits, ThreadRec, Walking, Alone
  <2>5. thr' = [thr EXCEPT ![t] = r] BY <2>1 DEF WalkInv
  <2> HIDE DEF r
  <2>6. thr' \in [Warm!Threads -> ThreadRec] /\ \A u \in Warm!Threads : Fits(u, thr'[u])
    BY <2>4, <2>5 DEF WalkInv, Fits
  <2>7. \A u \in Walkers : thr'[u].pc \in Walking => u = t
    BY <2>2, <2>5, WalkTypes DEF WalkInv
  <2>8. walk'.on = TRUE BY <2>1
  <2> QED BY <1>4, <1>5, <2>3, <2>6, <2>7, <2>8 DEF WalkInv
<1> QED BY <1>7, <1>8

LEMMA WalkOthers ==
  ASSUME WalkInv, NEW t \in Warm!Threads,
         \/ Warm!precacheForwardWalk(t) \/ Warm!leaveWalk(t) \/ Warm!readAhead(t)
  PROVE  WalkInv'
<1>1. UNCHANGED <<lib, rewarm>> /\ lib' \in [Warm!Episodes -> Nat] /\ rewarm' \in [Warm!Episodes -> Nat]
  BY DEF Warm!precacheForwardWalk, Warm!leaveWalk, Warm!readAhead, Warm!media, Warm!notes, WalkInv
<1>2. thr[t] \in ThreadRec /\ Fits(t, thr[t]) BY WalkTypes
<1>3. CASE Warm!leaveWalk(t)
  <2>1. t \in Walkers /\ thr[t].pc \in Walking /\ thr[t].to = 1
    BY <1>2, <1>3, WalkTypes DEF Warm!leaveWalk, Fits, Walking
  <2> QED BY <1>1, <1>3, <2>1, WalkEnds DEF Warm!leaveWalk, Warm!Rest
<1>4. CASE Warm!readAhead(t)
  <2>1. UNCHANGED <<walk, asked>> /\ asked' \subseteq asked BY <1>4 DEF Warm!readAhead
  <2>2. CASE Warm!Rest(t)
    BY <1>1, <2>1, <2>2, WalkRestingFits, ThreadMoves DEF Warm!Rest, Warm!Resting, Walking
  <2>3. CASE Warm!Go(t, "start")
    <3> DEFINE r == [thr[t] EXCEPT !.pc = "start"]
    <3>1. t # Warm!Maint /\ thr[t].pc # "idle" BY <1>2, <1>4 DEF Warm!readAhead, Fits
    <3>2. Fits(t, r) /\ r.pc = "start" BY <3>1, PcMoves DEF Alone
    <3>3. thr' = [thr EXCEPT ![t] = r] BY <2>3 DEF Warm!Go, WalkInv
    <3>4. r.pc \notin Walking BY <3>2 DEF Walking
    <3> HIDE DEF r
    <3> QED BY <1>1, <2>1, <3>2, <3>3, <3>4, ThreadMoves
  <2> QED BY <1>4, <2>2, <2>3 DEF Warm!readAhead
<1>5. CASE Warm!precacheForwardWalk(t)
  <2>1. UNCHANGED <<walk, asked>> /\ asked' \subseteq asked BY <1>5 DEF Warm!precacheForwardWalk, Warm!demand
  <2>2. thr[t].pc = "file" /\ t # Warm!Maint /\ thr[t].pc \in Walking /\ thr[t].ep > 0
    BY <1>2, <1>5 DEF Warm!precacheForwardWalk, Walking, Fits
  <2>3. PICK r : Fits(t, r) /\ thr' = [thr EXCEPT ![t] = r]
    <3>1. CASE Warm!Leave(t)
      <4>1. Fits(t, [thr[t] EXCEPT !.pc = "leave", !.to = 1])
        BY <1>2, <2>2 DEF Fits, ThreadRec, Walking, Alone
      <4> QED BY <3>1, <4>1 DEF Warm!Leave, WalkInv
    <3>2. CASE Warm!Go(t, "lookup")
      <4>1. Fits(t, [thr[t] EXCEPT !.pc = "lookup"])
        BY <2>2, PcMoves DEF Walking
      <4> QED BY <3>2, <4>1 DEF Warm!Go, WalkInv
    <3>3. CASE thr' = [thr EXCEPT ![t].pc = "mark", ![t].key = Warm!current(thr[t].ep)]
      <4>1. Warm!current(thr[t].ep) \in Nat \X Nat
        BY <1>2, <2>2, LibraryAssumption
           DEF WalkInv, ThreadRec, Warm!current, Warm!Episodes, Warm!PrecacheAssumption
      <4>2. Fits(t, [thr[t] EXCEPT !.pc = "mark", !.key = Warm!current(thr[t].ep)])
        BY <1>2, <2>2, <4>1 DEF Fits, ThreadRec, Walking, Alone
      <4> QED BY <3>3, <4>2 DEF WalkInv
    <3> QED BY <1>5, <3>1, <3>2, <3>3 DEF Warm!precacheForwardWalk
  <2> QED BY <1>1, <2>1, <2>2, <2>3, ThreadMoves
<1> QED BY <1>3, <1>4, <1>5
InFile == {"mark", "reserve", "burst", "note", "account"}   \* inside precacheEpisodeFile

LEMMA WalkFile ==
  ASSUME WalkInv, NEW t \in Warm!Threads,
         \/ Warm!markEpisode(t) \/ Warm!reserveBudget(t) \/ Warm!burstEpisode(t)
         \/ Warm!recordReadiness(t) \/ Warm!account(t)
  PROVE  WalkInv'
<1>1. UNCHANGED <<lib, rewarm, walk, asked>>
  BY DEF Warm!markEpisode, Warm!reserveBudget, Warm!burstEpisode, Warm!recordReadiness,
         Warm!account, Warm!media, Warm!notes, Warm!demand
<1>2. lib' \in [Warm!Episodes -> Nat] /\ rewarm' \in [Warm!Episodes -> Nat] /\ asked' \subseteq asked
  BY <1>1 DEF WalkInv
<1>3. thr[t].pc \in InFile /\ thr[t].pc \in Walking /\ thr[t].pc # "idle"
  BY DEF Warm!markEpisode, Warm!reserveBudget, Warm!burstEpisode, Warm!recordReadiness,
         Warm!account, Walking, InFile
<1>4. \/ \E pc \in InFile : Warm!Go(t, pc)
      \/ Warm!Skipped(t) \/ Warm!Deferred(t)
  BY DEF Warm!markEpisode, Warm!reserveBudget, Warm!burstEpisode, Warm!recordReadiness,
         Warm!account, Warm!Bursted, InFile
<1>5. ASSUME NEW pc \in InFile \cup {"lookup", "rewarmed"}, Warm!Go(t, pc),
             t = Warm!Maint => pc # "lookup"
      PROVE  WalkInv'
  <2> DEFINE r == [thr[t] EXCEPT !.pc = pc]
  <2>1. pc \in Walking \cup Alone /\ pc \notin {"read", "start", "file", "leave"}
    BY DEF InFile, Walking, Alone
  <2>2. Fits(t, r) BY <1>3, <1>5, <2>1, PcMoves
  <2>3. thr' = [thr EXCEPT ![t] = r] BY <1>5 DEF Warm!Go, WalkInv
  <2> HIDE DEF r
  <2> QED BY <1>1, <1>2, <1>3, <2>2, <2>3, ThreadMoves
<1>6. CASE Warm!Skipped(t)
  BY <1>5, <1>6 DEF Warm!Skipped
<1>7. CASE Warm!Deferred(t) /\ t = Warm!Maint
  BY <1>1, <1>2, <1>3, <1>7, WalkRestingFits, ThreadMoves DEF Warm!Deferred, Warm!Rest
<1>8. CASE Warm!Deferred(t) /\ t # Warm!Maint
  <2>1. Fits(t, [thr[t] EXCEPT !.pc = "leave", !.to = 1])
    BY <1>3, <1>8, WalkTypes DEF Fits, ThreadRec, Walking, Alone
  <2>2. thr' = [thr EXCEPT ![t] = [thr[t] EXCEPT !.pc = "leave", !.to = 1]]
    BY <1>8 DEF Warm!Deferred, Warm!Leave, WalkInv
  <2> QED BY <1>1, <1>2, <1>3, <2>1, <2>2, ThreadMoves
<1> QED BY <1>4, <1>5, <1>6, <1>7, <1>8 DEF InFile

LEMMA WalkObserve ==
  ASSUME WalkInv, NEW t \in Warm!Threads, NEW e \in Warm!Episodes, NEW pos, Warm!Observe(t, e, pos)
  PROVE  WalkInv'
<1>1. UNCHANGED <<lib, rewarm, walk, asked>> /\ t \in Walkers
  BY DEF Warm!Observe, Warm!media, Warm!notes
<1>2. lib' \in [Warm!Episodes -> Nat] /\ rewarm' \in [Warm!Episodes -> Nat] /\ asked' \subseteq asked
  BY <1>1 DEF WalkInv
<1>3. e \in 0..LastEpisode /\ e > 0 /\ Warm!current(e) \in Nat \X Nat
  BY LibraryAssumption DEF Warm!Episodes, Warm!PrecacheAssumption, Warm!current, WalkInv
<1> DEFINE reads  == [Warm!Resting EXCEPT !.pc = "read", !.ep = e, !.key = Warm!current(e)]
           starts == [Warm!Resting EXCEPT !.pc = "start", !.ep = e]
<1>4. t # Warm!Maint BY <1>1, WalkTypes
<1>5. Fits(t, reads) /\ reads.pc \notin Walking /\ Fits(t, starts) /\ starts.pc \notin Walking
  BY <1>3, <1>4 DEF Fits, ThreadRec, Walking, Alone, Warm!Resting
<1>6. \/ thr' = thr \/ thr' = [thr EXCEPT ![t] = reads] \/ thr' = [thr EXCEPT ![t] = starts]
  BY DEF Warm!Observe
<1> HIDE DEF reads, starts
<1>7. CASE thr' = thr BY <1>1, <1>2, <1>7, WalkRests
<1>8. CASE thr' = [thr EXCEPT ![t] = reads] BY <1>1, <1>2, <1>5, <1>8, ThreadMoves
<1>9. CASE thr' = [thr EXCEPT ![t] = starts] BY <1>1, <1>2, <1>5, <1>9, ThreadMoves
<1> QED BY <1>6, <1>7, <1>8, <1>9

LEMMA WalkRewarm ==
  ASSUME WalkInv, (\E e \in Warm!Episodes : Warm!rewarmDue(e)) \/ Warm!rewarmed
  PROVE  WalkInv'
<1>1. UNCHANGED <<lib, walk, asked>> /\ lib' \in [Warm!Episodes -> Nat] /\ asked' \subseteq asked
  BY DEF Warm!rewarmDue, Warm!rewarmed, Warm!media, Warm!demand, WalkInv
<1>2. rewarm' \in [Warm!Episodes -> Nat]
  <2>1. CASE Warm!rewarmed
    <3>1. PICK e : rewarm' = [rewarm EXCEPT ![e] = 0] BY <2>1 DEF Warm!rewarmed
    <3> QED BY <3>1 DEF WalkInv
  <2>2. ASSUME NEW e \in Warm!Episodes, Warm!rewarmDue(e) PROVE rewarm' = rewarm
    BY <2>2 DEF Warm!rewarmDue, Warm!notes
  <2> QED BY <2>1, <2>2 DEF WalkInv
<1>3. Warm!Maint \in Warm!Threads /\ Warm!Maint \notin Walkers
  BY LibraryAssumption DEF Warm!Threads, Warm!PrecacheAssumption, Warm!Maint
<1>4. CASE Warm!rewarmed
  BY <1>1, <1>2, <1>3, <1>4, WalkRestingFits, ThreadMoves DEF Warm!rewarmed, Warm!Rest
<1>5. ASSUME NEW e \in Warm!Episodes, Warm!rewarmDue(e) PROVE WalkInv'
  <2> DEFINE r == [Warm!Resting EXCEPT !.pc = "mark", !.ep = e, !.key = Warm!current(e), !.to = rewarm[e]]
  <2>1. e \in 0..LastEpisode /\ e > 0 /\ Warm!current(e) \in Nat \X Nat /\ rewarm[e] \in Nat
    BY LibraryAssumption DEF Warm!Episodes, Warm!PrecacheAssumption, Warm!current, WalkInv
  <2>2. Fits(Warm!Maint, r)
    BY <2>1 DEF Fits, ThreadRec, Walking, Alone, Warm!Resting
  <2>3. thr' = [thr EXCEPT ![Warm!Maint] = r] BY <1>5 DEF Warm!rewarmDue
  <2> HIDE DEF r
  <2> QED BY <1>1, <1>2, <1>3, <2>2, <2>3, ThreadMoves
<1> QED BY <1>4, <1>5

LEMMA WalkBystanders ==
  ASSUME WalkInv,
         \/ \E k \in Warm!Keys :
              \/ Warm!Age(k) \/ Warm!handleDamage(k) \/ Warm!awaitReadiness(k)
              \/ Warm!OnPar2Repaired(k) \/ Warm!evictWatchedDue(k) \/ Warm!PurgeIncomplete(k)
              \/ Warm!DeleteEntry(k)
         \/ \E e \in Warm!Episodes : Warm!expireRewarm(e) \/ Warm!Import(e)
         \/ Warm!Summary \/ Warm!populateFromCache
  PROVE  WalkInv'
<1>1. UNCHANGED <<thr, walk, asked>>
  BY DEF Warm!Age, Warm!handleDamage, Warm!awaitReadiness, Warm!OnPar2Repaired,
         Warm!evictWatchedDue, Warm!PurgeIncomplete, Warm!DeleteEntry, Warm!expireRewarm,
         Warm!Import, Warm!Summary, Warm!populateFromCache, Warm!demand
<1>2. lib' \in [Warm!Episodes -> Nat]
  BY DEF Warm!Age, Warm!handleDamage, Warm!awaitReadiness, Warm!OnPar2Repaired,
         Warm!evictWatchedDue, Warm!PurgeIncomplete, Warm!DeleteEntry, Warm!expireRewarm,
         Warm!Import, Warm!Summary, Warm!populateFromCache, Warm!media, WalkInv
<1>3. \A k \in Warm!Keys : k[1] \in Warm!Episodes /\ k[2] \in Nat
  BY LibraryAssumption DEF Warm!Keys, Warm!Releases, Warm!PrecacheAssumption
<1>4. rewarm' \in [Warm!Episodes -> Nat]
  BY <1>3 DEF Warm!Age, Warm!handleDamage, Warm!awaitReadiness, Warm!OnPar2Repaired,
         Warm!evictWatchedDue, Warm!PurgeIncomplete, Warm!DeleteEntry, Warm!expireRewarm,
         Warm!Import, Warm!Summary, Warm!populateFromCache, Warm!notes, Warm!addRewarm, WalkInv
<1> QED BY <1>1, <1>2, <1>4, WalkRests

LEMMA WalkStep == WalkInv /\ [Warm!NextPrecache]_(Warm!prvars) => WalkInv'
<1> SUFFICES ASSUME WalkInv, [Warm!NextPrecache]_(Warm!prvars) PROVE WalkInv' OBVIOUS
<1>1. CASE UNCHANGED Warm!prvars
  <2>1. UNCHANGED <<thr, walk, asked, lib, rewarm>>
    BY <1>1 DEF Warm!prvars, Warm!demand, Warm!media, Warm!notes
  <2> QED BY <2>1, WalkRests DEF WalkInv
<1>2. CASE Warm!NextPrecache
  BY <1>2, WalkLookup, WalkStarts, WalkOthers, WalkFile, WalkObserve, WalkRewarm, WalkBystanders
     DEF Warm!NextPrecache
<1> QED BY <1>1, <1>2

\* A trigger that finds a walk running is answered by it, or the walk leaves for
\* a reason of its own, however many triggers, re-grabs and deletions meet it
\* (precache.go, startForwardWalk and walkContinues).
THEOREM RequestsAreKept == Warm!SpecPrecache => []WalkKeepsRequests
<1>1. WalkInv => WalkKeepsRequests BY DEF WalkInv, WalkKeepsRequests
<1> QED BY <1>1, WalkInit, WalkStep, PTL DEF Warm!SpecPrecache

-----------------------------------------------------------------------------
(* The cleanup of stale records.                                           *)

Path(y)       == <<grab[y[1]].folder, y[2]>>
LeadsTo(y, h) == Records!Resolves(grab[y[1]].folder, y[2]) = h
\* Past every age rule of staleNZBSkipReason.
Settled(h)    == row[h].age = 2 /\ row[h].upd = 2 /\ ~row[h].dl
Deleting      == {"entry", "record", "dir"}

Flag == BOOLEAN   \* expanded only where a flag is set
RowRec == [st : {"none", "queued", "stored", "gone"}, dl : Flag, age : 0..2, upd : 0..2]
Slots == [by : Records!Grabs \cup {"none"}, del : Flag]
RecordShapes ==
  /\ grab \in [Records!Grabs -> [kind : {"nzb", "torrent"}, folder : Records!Folders,
                                 files : SUBSET Records!Files, legacy : BOOLEAN]]
  /\ row \in [Records!Grabs -> RowRec]
  /\ item \in [Records!Folders -> [Records!Files -> Slots]]
  /\ shelf \subseteq Records!Grabs \X Records!Files
  /\ st = [t \in Records!ThreadIds |-> st[t]]

\* The cleanup's own thread.
CleanupRec ==
    [pc : {"idle", "listing", "next", "known", "orphans"} \cup Deleting,
     h : Records!Grabs \cup {"none"}, n : Records!Folders, todo : SUBSET Records!Grabs,
     lib : SUBSET (Records!Grabs \X Records!Files),
     refs : SUBSET (Records!Folders \X Records!Files \X Records!Grabs),
     files : SUBSET Records!Grabs, file : {"none"}, guarded : {FALSE}, back : {"idle", "next"},
     mine : {"none"}]
CleanupShape == st["cleanup"] \in CleanupRec

\* The two grabs: the older one is never stored again, is older while both are
\* there, and is shadowed in what both have from the moment the newer is stored.
Order ==
  /\ row["old"].st \in {"stored", "gone"}
  /\ row["old"].st = "stored" /\ row["new"].st \in {"queued", "stored"}
       => row["new"].age <= row["old"].age
  /\ row["new"].st = "stored" => \A f \in grab["new"].files : item[grab["new"].folder][f].by # "old"

\* What the cleanup knows covers every settled grab that a library path leads
\* to: first through the listing, then through the references.
Informed ==
  LET c == st["cleanup"] IN
  /\ c.pc = "listing" =>
       \A y \in shelf, h \in Records!Grabs : Settled(h) /\ LeadsTo(y, h) => \E x \in c.lib : Path(x) = Path(y)
  /\ c.pc \in {"next"} \cup Deleting =>
       \A y \in shelf, h \in Records!Grabs : Settled(h) /\ LeadsTo(y, h) => \E x \in c.refs : x[3] = h

\* A grab is taken only settled and unreferenced.
Aimed ==
  LET c == st["cleanup"] IN
  /\ c.pc \in Deleting => c.back = "next"
  /\ c.pc \in {"entry", "record"} =>
       /\ c.h \in Records!Grabs /\ row[c.h].st \in {"stored", "gone"} /\ Settled(c.h)
       /\ \A x \in c.refs : x[3] # c.h

RecordsInv == RecordShapes /\ CleanupShape /\ Order /\ Informed /\ Aimed

LEMMA RecordsInit == Records!InitRecords => RecordsInv
<1> SUFFICES ASSUME Records!InitRecords PROVE RecordsInv OBVIOUS
<1>1. PICK left \in BOOLEAN :
        /\ row = [h \in Records!Grabs |-> IF h = "new"
                    THEN [st |-> "none", dl |-> FALSE, age |-> 0, upd |-> 0]
                    ELSE [st |-> IF left THEN "gone" ELSE "stored", dl |-> FALSE, age |-> 1, upd |-> 1]]
        /\ item = [n \in Records!Folders |-> [f \in Records!Files |->
                    IF ~left /\ n = "n" /\ f \in grab["old"].files THEN [by |-> "old", del |-> FALSE]
                    ELSE Records!NoSlot]]
        /\ shelf \in IF left THEN {{}} ELSE {{}, {"old"} \X grab["old"].files}
  BY DEF Records!InitRecords
<1>2. grab \in [Records!Grabs -> [kind : {"nzb", "torrent"}, folder : Records!Folders,
                                  files : SUBSET Records!Files, legacy : BOOLEAN]]
  BY DEF Records!InitRecords, Records!Files
<1>3. grab["old"].files \subseteq Records!Files BY <1>2 DEF Records!Grabs
<1>4. row \in [Records!Grabs -> RowRec]
  BY <1>1 DEF RowRec, Flag
<1>5. item \in [Records!Folders -> [Records!Files -> Slots]]
  BY <1>1 DEF Slots, Flag, Records!NoSlot, Records!Grabs
<1>6. shelf \subseteq Records!Grabs \X Records!Files
  BY <1>1, <1>3 DEF Records!Grabs
<1>7. st = [t \in Records!ThreadIds |-> Records!Idle] BY DEF Records!InitRecords
<1>8. st["cleanup"] = Records!Idle /\ st["cleanup"].pc = "idle"
  BY <1>7 DEF Records!ThreadIds, Records!Idle
<1>9. RecordShapes BY <1>2, <1>4, <1>5, <1>6, <1>7 DEF RecordShapes
<1>10. CleanupShape BY <1>8 DEF CleanupShape, CleanupRec, Records!Idle, Deleting, Records!Folders
<1>11. Order BY <1>1 DEF Order, Records!Grabs
<1> QED BY <1>8, <1>9, <1>10, <1>11 DEF RecordsInv, Informed, Aimed, Deleting
LEMMA Leads ==
  ASSUME NEW y, NEW h \in Records!Grabs, NEW slot, slot = item[grab[y[1]].folder][y[2]]
  PROVE  LeadsTo(y, h) <=> /\ y[2] \in Records!Files /\ slot # Records!NoSlot /\ ~slot.del
                           /\ slot.by = h /\ row[h].st = "stored"
BY DEF LeadsTo, Records!Resolves, Records!Live, Records!Stored, Records!Grabs

LEMMA LeadsNext ==
  ASSUME NEW y, NEW h \in Records!Grabs, NEW slot, slot = item'[grab'[y[1]].folder][y[2]]
  PROVE  LeadsTo(y, h)' <=> /\ y[2] \in Records!Files /\ slot # Records!NoSlot /\ ~slot.del
                            /\ slot.by = h /\ row'[h].st = "stored"
BY DEF LeadsTo, Records!Resolves, Records!Live, Records!Stored, Records!Grabs

LEMMA OthersMove ==
  ASSUME RecordShapes, NEW r, st' = [st EXCEPT !["api"] = r]
  PROVE  st' = [t \in Records!ThreadIds |-> st'[t]] /\ st'["cleanup"] = st["cleanup"]
BY DEF RecordShapes, Records!ThreadIds

LEMMA CleanupMoves ==
  ASSUME RecordShapes, NEW r, st' = [st EXCEPT !["cleanup"] = r]
  PROVE  st' = [t \in Records!ThreadIds |-> st'[t]] /\ st'["cleanup"] = r
BY DEF RecordShapes, Records!ThreadIds

\* A step that leaves the cleanup where it is, has no settled grab led to that
\* was not, and changes nothing of one being taken.
LEMMA NothingNewLeads ==
  ASSUME RecordsInv, RecordShapes', Order', grab' = grab, st'["cleanup"] = st["cleanup"],
         \A y \in shelf', h \in Records!Grabs :
           Settled(h)' /\ LeadsTo(y, h)' => y \in shelf /\ Settled(h) /\ LeadsTo(y, h),
         \A h \in Records!Grabs :
           row[h].st \in {"stored", "gone"} /\ Settled(h)
             => row'[h].st \in {"stored", "gone"} /\ Settled(h)'
  PROVE  RecordsInv'
<1>1. CleanupShape' BY DEF RecordsInv, CleanupShape
<1>2. Informed'
  <2> USE DEF RecordsInv
  <2>1. ASSUME NEW x, NEW y, Path(x) = Path(y) PROVE Path(x)' = Path(y)' BY <2>1 DEF Path
  <2>2. ASSUME st'["cleanup"].pc = "listing", NEW y \in shelf', NEW h \in Records!Grabs,
               Settled(h)', LeadsTo(y, h)'
        PROVE  \E x \in st'["cleanup"].lib : Path(x)' = Path(y)'
    <3>1. PICK x \in st["cleanup"].lib : Path(x) = Path(y) BY <2>2 DEF Informed
    <3> QED BY <2>1, <3>1
  <2>3. ASSUME st'["cleanup"].pc \in {"next"} \cup Deleting, NEW y \in shelf',
               NEW h \in Records!Grabs, Settled(h)', LeadsTo(y, h)'
        PROVE  \E x \in st'["cleanup"].refs : x[3] = h
    BY <2>3 DEF Informed
  <2> QED BY <2>2, <2>3 DEF Informed
<1>3. Aimed' BY DEF RecordsInv, Aimed
<1> QED BY <1>1, <1>2, <1>3 DEF RecordsInv

\* Only threads and what the cleanup does not look at change.
LEMMA RecordsRest ==
  ASSUME RecordsInv, UNCHANGED <<grab, row, item, shelf>>,
         st' = [t \in Records!ThreadIds |-> st'[t]], st'["cleanup"] = st["cleanup"]
  PROVE  RecordsInv'
<1>1. RecordShapes' BY DEF RecordsInv, RecordShapes
<1>2. Order' BY DEF RecordsInv, Order
<1>3. \A y \in shelf', h \in Records!Grabs :
        Settled(h)' /\ LeadsTo(y, h)' => y \in shelf /\ Settled(h) /\ LeadsTo(y, h)
  BY DEF Settled, LeadsTo, Records!Resolves, Records!Live, Records!Stored
<1>4. \A h \in Records!Grabs :
        row[h].st \in {"stored", "gone"} /\ Settled(h)
          => row'[h].st \in {"stored", "gone"} /\ Settled(h)'
  BY DEF Settled
<1> QED BY <1>1, <1>2, <1>3, <1>4, NothingNewLeads

LEMMA RowStored ==
  ASSUME NEW x \in RowRec, NEW r, r = [x EXCEPT !.st = "stored", !.upd = 0]
  PROVE  r \in RowRec /\ r.st = "stored" /\ r.upd = 0 /\ r.age = x.age
<1> DEFINE y == [x EXCEPT !.st = "stored"]
<1>1. y \in RowRec BY DEF RowRec
<1>2. r = [y EXCEPT !.upd = 0] OBVIOUS
<1>3. r.st = "stored" /\ r.upd = 0 /\ r.age = x.age BY DEF RowRec
<1> HIDE DEF y
<1>4. [y EXCEPT !.upd = 0] \in RowRec BY <1>1 DEF RowRec
<1> QED BY <1>2, <1>3, <1>4

LEMMA RowDelivered ==
  ASSUME NEW x \in RowRec, NEW r, r = [x EXCEPT !.dl = FALSE, !.upd = 0]
  PROVE  r \in RowRec /\ r.st = x.st /\ r.upd = 0 /\ r.age = x.age
<1> DEFINE y == [x EXCEPT !.dl = FALSE]
<1>1. FALSE \in Flag BY Zenon DEF Flag
<1>2. y \in RowRec BY <1>1 DEF RowRec
<1>3. r = [y EXCEPT !.upd = 0] OBVIOUS
<1>4. r.st = x.st /\ r.upd = 0 /\ r.age = x.age BY DEF RowRec
<1> HIDE DEF y
<1>5. [y EXCEPT !.upd = 0] \in RowRec BY <1>2 DEF RowRec
<1> QED BY <1>3, <1>4, <1>5

LEMMA RecordsQueue ==
  ASSUME RecordsInv, NEW h \in Records!Grabs, Records!Queue(h) PROVE RecordsInv'
<1> DEFINE r == [st |-> "queued", dl |-> TRUE, age |-> 0, upd |-> 0]
<1>1. row' = [row EXCEPT ![h] = r] /\ UNCHANGED <<grab, item, shelf, st>> /\ row[h].st = "none"
  BY DEF Records!Queue
<1>2. h = "new" BY <1>1 DEF RecordsInv, Order, Records!Grabs
<1>3. r \in RowRec BY DEF RowRec, Flag
<1>4. RecordShapes' BY <1>1, <1>3 DEF RecordsInv, RecordShapes
<1>5. row'[h] = r /\ \A k \in Records!Grabs \ {h} : row'[k] = row[k] BY <1>1 DEF RecordsInv, RecordShapes
<1>6. Order' BY <1>1, <1>2, <1>5 DEF RecordsInv, Order, RecordShapes, RowRec, Records!Grabs
<1>7. ASSUME NEW y \in shelf', NEW k \in Records!Grabs, Settled(k)', LeadsTo(y, k)'
      PROVE  y \in shelf /\ Settled(k) /\ LeadsTo(y, k)
  <2>1. k # h BY <1>5, <1>7 DEF Settled
  <2> QED BY <1>1, <1>5, <1>7, <2>1, Leads, LeadsNext DEF Settled
<1>8. \A k \in Records!Grabs :
        row[k].st \in {"stored", "gone"} /\ Settled(k)
          => row'[k].st \in {"stored", "gone"} /\ Settled(k)'
  BY <1>1, <1>5 DEF Settled
<1> QED BY <1>1, <1>4, <1>6, <1>7, <1>8, NothingNewLeads
LEMMA RecordsAdd ==
  ASSUME RecordsInv, NEW h \in Records!Grabs, Records!AddOrUpdate(h) PROVE RecordsInv'
<1> DEFINE n == grab[h].folder
           r == [row[h] EXCEPT !.st = "stored", !.upd = 0]
           slot(f) == IF f \in grab[h].files /\ (item[n][f] = Records!NoSlot \/ Records!Later(h, item[n][f].by))
                      THEN [by |-> h, del |-> FALSE] ELSE item[n][f]
<1>1. row[h].st = "queued" /\ UNCHANGED <<grab, shelf, st>> BY DEF Records!AddOrUpdate
<1>2. h = "new" BY <1>1 DEF RecordsInv, Order, Records!Grabs
<1>3. row' = [row EXCEPT ![h] = r] BY DEF Records!AddOrUpdate, RecordsInv, RecordShapes
<1>4. item' = [item EXCEPT ![n] = [f \in Records!Files |-> slot(f)]]
  BY DEF Records!AddOrUpdate, Records!updateEntryItem, RecordsInv, RecordShapes
<1>5. n \in Records!Folders /\ grab[h].files \subseteq Records!Files
  BY DEF RecordsInv, RecordShapes
<1>6. \A f \in Records!Files : item[n][f] \in Slots BY <1>5 DEF RecordsInv, RecordShapes
<1>7. \A f \in Records!Files : slot(f) \in Slots
  <2>1. [by |-> h, del |-> FALSE] \in Slots BY DEF Slots, Flag
  <2> QED BY <1>6, <2>1
<1>8. item' \in [Records!Folders -> [Records!Files -> Slots]]
  BY <1>4, <1>7 DEF RecordsInv, RecordShapes
<1>9. row[h] \in RowRec
  BY DEF RecordsInv, RecordShapes
<1>10. /\ r \in RowRec
       /\ r.st = "stored" /\ r.upd = 0 /\ r.age = row[h].age
  BY <1>9, RowStored
<1> HIDE DEF r
<1>11. RecordShapes' BY <1>1, <1>3, <1>8, <1>10 DEF RecordsInv, RecordShapes
<1>12. row'[h] = r /\ \A k \in Records!Grabs \ {h} : row'[k] = row[k]
  BY <1>3 DEF RecordsInv, RecordShapes
<1>13. \A f \in Records!Files : item'[n][f] = slot(f)
  BY <1>4, <1>5 DEF RecordsInv, RecordShapes
<1>14. \A m \in Records!Folders \ {n} : item'[m] = item[m]
  BY <1>4 DEF RecordsInv, RecordShapes
<1>15. \A f \in grab[h].files : slot(f).by # "old"
  BY <1>2, <1>5, <1>6 DEF Slots, Records!Later, Records!Grabs, Records!NoSlot
<1>16. Order'
  BY <1>1, <1>2, <1>5, <1>10, <1>12, <1>13, <1>15 DEF RecordsInv, Order, Records!Grabs
<1>17. ASSUME NEW y \in shelf', NEW k \in Records!Grabs, Settled(k)', LeadsTo(y, k)'
       PROVE  y \in shelf /\ Settled(k) /\ LeadsTo(y, k)
  <2>1. k # h BY <1>10, <1>12, <1>17 DEF Settled
  <2>2. y \in shelf /\ y[2] \in Records!Files /\ grab[y[1]].folder \in Records!Folders
    BY <1>1 DEF RecordsInv, RecordShapes
  <2>3. item'[grab'[y[1]].folder][y[2]].by = k BY <1>17, LeadsNext
  <2>4. item'[grab[y[1]].folder][y[2]] = item[grab[y[1]].folder][y[2]]
    BY <1>1, <1>13, <1>14, <2>1, <2>2, <2>3
  <2> QED BY <1>1, <1>12, <1>17, <2>1, <2>2, <2>4, Leads, LeadsNext DEF Settled
<1>18. \A k \in Records!Grabs :
         row[k].st \in {"stored", "gone"} /\ Settled(k)
           => row'[k].st \in {"stored", "gone"} /\ Settled(k)'
  BY <1>1, <1>12 DEF Settled
<1> HIDE DEF slot
<1> QED BY <1>1, <1>11, <1>16, <1>17, <1>18, NothingNewLeads

LEMMA RecordsDeliver ==
  ASSUME RecordsInv, NEW h \in Records!Grabs, Records!Deliver(h) PROVE RecordsInv'
<1> DEFINE r == [row[h] EXCEPT !.dl = FALSE, !.upd = 0]
<1>1. row[h].dl /\ row[h].st = "stored" /\ UNCHANGED <<grab, shelf, st, item>>
  BY DEF Records!Deliver, Records!Stored
<1>2. row' = [row EXCEPT ![h] = r] BY DEF Records!Deliver, RecordsInv, RecordShapes
<1>3. row[h] \in RowRec
  BY DEF RecordsInv, RecordShapes
<1>4. /\ r \in RowRec
      /\ r.st = "stored" /\ r.upd = 0 /\ r.age = row[h].age
  BY <1>1, <1>3, RowDelivered
<1> HIDE DEF r
<1>5. RecordShapes' BY <1>1, <1>2, <1>4 DEF RecordsInv, RecordShapes
<1>6. row'[h] = r /\ \A k \in Records!Grabs \ {h} : row'[k] = row[k]
  BY <1>2 DEF RecordsInv, RecordShapes
<1>7. Order' BY <1>1, <1>4, <1>6 DEF RecordsInv, Order, Records!Grabs
<1>8. ASSUME NEW y \in shelf', NEW k \in Records!Grabs, Settled(k)', LeadsTo(y, k)'
      PROVE  y \in shelf /\ Settled(k) /\ LeadsTo(y, k)
  <2>1. k # h BY <1>4, <1>6, <1>8 DEF Settled
  <2> QED BY <1>1, <1>6, <1>8, <2>1, Leads, LeadsNext DEF Settled
<1>9. \A k \in Records!Grabs :
        row[k].st \in {"stored", "gone"} /\ Settled(k)
          => row'[k].st \in {"stored", "gone"} /\ Settled(k)'
  BY <1>1, <1>6 DEF Settled
<1> QED BY <1>1, <1>5, <1>7, <1>8, <1>9, NothingNewLeads

\* The Arr imports what it was handed within the day: what it links then leads
\* to no settled grab, neither to itself nor, through a shared folder, to the
\* other one.
LEMMA RecordsImport ==
  ASSUME RecordsInv, NEW h \in Records!Grabs, Records!ArrImport(h) PROVE RecordsInv'
<1>1. row[h].st = "stored" /\ row[h].age < 2 /\ UNCHANGED <<grab, row, item, st>>
  BY DEF Records!ArrImport, Records!Stored
<1>2. shelf' \subseteq shelf \cup ({h} \X grab[h].files) BY DEF Records!ArrImport
<1>3. grab[h].files \subseteq Records!Files BY DEF RecordsInv, RecordShapes
<1>4. shelf' \subseteq Records!Grabs \X Records!Files
  BY <1>2, <1>3 DEF RecordsInv, RecordShapes
<1>5. RecordShapes' BY <1>1, <1>4 DEF RecordsInv, RecordShapes
<1>6. Order' BY <1>1 DEF RecordsInv, Order
<1>7. ASSUME NEW y \in shelf', NEW k \in Records!Grabs, Settled(k)', LeadsTo(y, k)'
      PROVE  y \in shelf /\ Settled(k) /\ LeadsTo(y, k)
  <2>1. Settled(k) BY <1>1, <1>7 DEF Settled
  <2>2. LeadsTo(y, k)
    BY <1>1, <1>7 DEF LeadsTo, Records!Resolves, Records!Live, Records!Stored
  <2>3. item[grab[y[1]].folder][y[2]].by = k /\ row[k].st = "stored" BY <2>2, Leads
  <2>4. ASSUME y \notin shelf PROVE FALSE
    <3>1. y[1] = h /\ y[2] \in grab[h].files BY <1>2, <2>4
    <3>2. k # h BY <1>1, <2>1 DEF Settled
    <3>3. CASE h = "new"
      <4>1. k = "old" BY <3>2, <3>3 DEF Records!Grabs
      <4> QED BY <1>1, <2>3, <3>1, <3>3, <4>1 DEF RecordsInv, Order
    <3>4. CASE h = "old"
      <4>1. k = "new" BY <3>2, <3>4 DEF Records!Grabs
      <4>2. row["new"].age <= row["old"].age
        BY <1>1, <2>3, <3>4, <4>1 DEF RecordsInv, Order
      <4>3. row["old"].age \in 0..2 BY DEF RecordsInv, RecordShapes, RowRec, Records!Grabs
      <4> QED BY <1>1, <2>1, <3>4, <4>1, <4>2, <4>3 DEF Settled
    <3> QED BY <3>3, <3>4 DEF Records!Grabs
  <2> QED BY <2>1, <2>2, <2>4
<1>8. \A k \in Records!Grabs :
        row[k].st \in {"stored", "gone"} /\ Settled(k)
          => row'[k].st \in {"stored", "gone"} /\ Settled(k)'
  BY <1>1 DEF Settled
<1> QED BY <1>1, <1>5, <1>6, <1>7, <1>8, NothingNewLeads

LEMMA RecordsArrDelete ==
  ASSUME RecordsInv, Records!ArrDelete PROVE RecordsInv'
<1>1. UNCHANGED <<grab, row, item, st>> /\ shelf' \subseteq shelf BY DEF Records!ArrDelete
<1>2. RecordShapes' BY <1>1 DEF RecordsInv, RecordShapes
<1>3. Order' BY <1>1 DEF RecordsInv, Order
<1>4. \A y \in shelf', k \in Records!Grabs :
        Settled(k)' /\ LeadsTo(y, k)' => y \in shelf /\ Settled(k) /\ LeadsTo(y, k)
  BY <1>1 DEF Settled, LeadsTo, Records!Resolves, Records!Live, Records!Stored
<1>5. \A k \in Records!Grabs :
        row[k].st \in {"stored", "gone"} /\ Settled(k)
          => row'[k].st \in {"stored", "gone"} /\ Settled(k)'
  BY <1>1 DEF Settled
<1> QED BY <1>1, <1>2, <1>3, <1>4, <1>5, NothingNewLeads

LEMMA RecordsAge ==
  ASSUME RecordsInv, Records!Age PROVE RecordsInv'
<1> DEFINE up(x) == IF x < 2 THEN x + 1 ELSE 2
           r(h) == IF row[h].st \in {"none", "gone"} THEN row[h]
                   ELSE [row[h] EXCEPT !.age = up(@), !.upd = up(@)]
<1>1. UNCHANGED <<grab, item, shelf, st>> /\ st["cleanup"].pc = "idle"
  BY DEF Records!Age, Records!ThreadIds
<1>2. row' = [h \in Records!Grabs |-> r(h)] BY DEF Records!Age
<1>3. \A h \in Records!Grabs :
        /\ r(h) \in RowRec
        /\ r(h).st = row[h].st
        /\ row[h].st \notin {"none", "gone"} => r(h).age = up(row[h].age)
  <2> TAKE h \in Records!Grabs
  <2>1. row[h] \in RowRec
    BY DEF RecordsInv, RecordShapes
  <2>2. up(row[h].age) \in 0..2 /\ up(row[h].upd) \in 0..2 BY <2>1 DEF RowRec
  <2> HIDE DEF up
  <2> QED BY <2>1, <2>2 DEF RowRec
<1> HIDE DEF r
<1>4. RecordShapes' BY <1>1, <1>2, <1>3 DEF RecordsInv, RecordShapes
<1>5. row["old"].age \in 0..2 /\ row["new"].age \in 0..2
  BY DEF RecordsInv, RecordShapes, RowRec, Records!Grabs
<1>6. row["new"].age <= row["old"].age => up(row["new"].age) <= up(row["old"].age) BY <1>5
<1>7. Order' BY <1>1, <1>2, <1>3, <1>6 DEF RecordsInv, Order, Records!Grabs
<1>8. CleanupShape' BY <1>1 DEF RecordsInv, CleanupShape
<1> QED BY <1>1, <1>4, <1>7, <1>8 DEF RecordsInv, Informed, Aimed, Deleting
LEMMA RecordsApi ==
  ASSUME RecordsInv,
         \/ \E hook \in hooks : Records!ReceiveWebhook(hook)
         \/ \E h \in Records!Grabs : Records!RemoveEntry(h)
         \/ Records!finishUsenetTeardown
         \/ Records!DeleteEntry("api") \/ Records!removeStaleNZBCacheDir("api")
  PROVE  RecordsInv'
<1>1. UNCHANGED <<grab, row, item, shelf>>
  BY DEF Records!ReceiveWebhook, Records!RemoveEntry, Records!finishUsenetTeardown,
         Records!DeleteEntry, Records!removeStaleNZBCacheDir
<1>2. PICK r : st' = [st EXCEPT !["api"] = r]
  <2>1. CASE \E hook \in hooks : Records!ReceiveWebhook(hook)
    BY <2>1 DEF Records!ReceiveWebhook
  <2>2. CASE (\E h \in Records!Grabs : Records!RemoveEntry(h)) \/ Records!finishUsenetTeardown
    BY <2>2 DEF Records!RemoveEntry, Records!finishUsenetTeardown
  <2>3. CASE Records!DeleteEntry("api") \/ Records!removeStaleNZBCacheDir("api")
    <3>1. CASE Records!Return("api") BY <3>1 DEF Records!Return
    <3>2. CASE Records!Go("api", "record") BY <3>2 DEF Records!Go, RecordsInv, RecordShapes
    <3> QED BY <2>3, <3>1, <3>2 DEF Records!DeleteEntry, Records!removeStaleNZBCacheDir
  <2> QED BY <2>1, <2>2, <2>3
<1>3. st' = [t \in Records!ThreadIds |-> st'[t]] /\ st'["cleanup"] = st["cleanup"]
  BY <1>2, OthersMove DEF RecordsInv
<1> QED BY <1>1, <1>3, RecordsRest

LEMMA SlotMarked ==
  ASSUME NEW x \in Slots
  PROVE  /\ [x EXCEPT !.del = TRUE] \in Slots /\ [x EXCEPT !.del = TRUE].by = x.by
         /\ [x EXCEPT !.del = TRUE].del = TRUE
<1>1. TRUE \in Flag BY Zenon DEF Flag
<1> QED BY <1>1 DEF Slots

LEMMA RecordsRemoveFile ==
  ASSUME RecordsInv, Records!RemoveTorrentFile PROVE RecordsInv'
<1> DEFINE n == grab[st["api"].mine].folder
           f == st["api"].file
<1>1. UNCHANGED <<grab, row, shelf>> BY DEF Records!RemoveTorrentFile
<1>2. PICK r : st' = [st EXCEPT !["api"] = r] BY DEF Records!RemoveTorrentFile
<1>3. st' = [t \in Records!ThreadIds |-> st'[t]] /\ st'["cleanup"] = st["cleanup"]
  BY <1>2, OthersMove DEF RecordsInv
<1>4. item' = item \/ item' = [item EXCEPT ![n][f].del = TRUE] BY DEF Records!RemoveTorrentFile
<1> HIDE DEF n, f
<1>5. CASE item' = item BY <1>1, <1>3, <1>5, RecordsRest
<1>6. CASE item' = [item EXCEPT ![n][f].del = TRUE]
  <2>2. \A m \in Records!Folders, g \in Records!Files :
          /\ item'[m][g] = IF m = n /\ g = f THEN [item[m][g] EXCEPT !.del = TRUE] ELSE item[m][g]
    BY <1>6 DEF RecordsInv, RecordShapes
  <2>3. \A m \in Records!Folders, g \in Records!Files :
          item'[m][g] \in Slots /\ item'[m][g].by = item[m][g].by
            /\ (m = n /\ g = f => item'[m][g].del = TRUE)
    <3> TAKE m \in Records!Folders, g \in Records!Files
    <3>1. item[m][g] \in Slots BY DEF RecordsInv, RecordShapes
    <3> QED BY <2>2, <3>1, SlotMarked
  <2>4. item' \in [Records!Folders -> [Records!Files -> Slots]]
    BY <1>6, <2>3 DEF RecordsInv, RecordShapes
  <2>5. RecordShapes' BY <1>1, <1>3, <2>4 DEF RecordsInv, RecordShapes
  <2>6. Order'
    <3>1. grab["new"].folder \in Records!Folders /\ grab["new"].files \subseteq Records!Files
      BY DEF RecordsInv, RecordShapes, Records!Grabs
    <3> QED BY <1>1, <2>3, <3>1 DEF RecordsInv, Order
  <2>7. ASSUME NEW y \in shelf', NEW k \in Records!Grabs, Settled(k)', LeadsTo(y, k)'
        PROVE  y \in shelf /\ Settled(k) /\ LeadsTo(y, k)
    <3>1. y \in shelf /\ y[2] \in Records!Files /\ grab[y[1]].folder \in Records!Folders
      BY <1>1 DEF RecordsInv, RecordShapes
    <3>2. ~item'[grab'[y[1]].folder][y[2]].del BY <2>7, LeadsNext
    <3>3. item'[grab[y[1]].folder][y[2]] = item[grab[y[1]].folder][y[2]]
      BY <1>1, <2>2, <2>3, <3>1, <3>2
    <3> QED BY <1>1, <2>7, <3>1, <3>3, Leads, LeadsNext DEF Settled
  <2>8. \A k \in Records!Grabs :
          row[k].st \in {"stored", "gone"} /\ Settled(k)
            => row'[k].st \in {"stored", "gone"} /\ Settled(k)'
    BY <1>1 DEF Settled
  <2> QED BY <1>1, <1>3, <2>5, <2>6, <2>7, <2>8, NothingNewLeads
<1> QED BY <1>4, <1>5, <1>6

\* A record goes: fewer paths lead to something.
LEMMA RecordGoes ==
  ASSUME RecordsInv, NEW h, UNCHANGED <<grab, shelf>>,
         row' = [row EXCEPT ![h].st = "gone"],
         item' = item \/ item' = Records!removeFromEntryItem(h),
         st' = [t \in Records!ThreadIds |-> st'[t]]
  PROVE  /\ RecordShapes' /\ Order'
         /\ \A y \in shelf', k \in Records!Grabs :
              Settled(k)' /\ LeadsTo(y, k)' => y \in shelf /\ Settled(k) /\ LeadsTo(y, k)
         /\ \A k \in Records!Grabs :
              row[k].st \in {"stored", "gone"} /\ Settled(k)
                => row'[k].st \in {"stored", "gone"} /\ Settled(k)'
<1> DEFINE n == grab[h].folder
           slot(f) == IF f \in grab[h].files /\ item[n][f].by = h THEN Records!NoSlot ELSE item[n][f]
<1>1. \A k \in Records!Grabs : row[k] \in RowRec BY DEF RecordsInv, RecordShapes
<1>2. \A k \in Records!Grabs : row'[k] = IF k = h THEN [row[k] EXCEPT !.st = "gone"] ELSE row[k]
  BY DEF RecordsInv, RecordShapes
<1>3. /\ row' \in [Records!Grabs -> RowRec]
      /\ \A k \in Records!Grabs :
           /\ row'[k].st \in {row[k].st, "gone"} /\ row'[k].age = row[k].age
           /\ row'[k].upd = row[k].upd /\ row'[k].dl = row[k].dl
  BY <1>1, <1>2 DEF RecordsInv, RecordShapes, RowRec
<1>4. item' = item \/ item' = [item EXCEPT ![n] = [f \in Records!Files |-> slot(f)]]
  BY DEF Records!removeFromEntryItem
<1>5. Records!NoSlot \in Slots /\ Records!NoSlot.by = "none" BY DEF Records!NoSlot, Slots, Flag
<1>6. \A m \in Records!Folders : m = n => \A f \in Records!Files : slot(f) \in {item[m][f], Records!NoSlot}
  OBVIOUS
<1>7. \A m \in Records!Folders, f \in Records!Files : item'[m][f] \in {item[m][f], Records!NoSlot}
  <2>1. CASE item' = [item EXCEPT ![n] = [f \in Records!Files |-> slot(f)]]
    <3>1. \A m \in Records!Folders :
            item'[m] = IF m = n THEN [f \in Records!Files |-> slot(f)] ELSE item[m]
      BY <2>1 DEF RecordsInv, RecordShapes
    <3> HIDE DEF slot
    <3> QED BY <1>6, <3>1
  <2> QED BY <1>4, <2>1
<1>8. item' \in [Records!Folders -> [Records!Files -> Slots]]
  <2>1. \A m \in Records!Folders, f \in Records!Files : item[m][f] \in Slots
    BY DEF RecordsInv, RecordShapes
  <2>2. CASE item' = [item EXCEPT ![n] = [f \in Records!Files |-> slot(f)]]
    <3>1. n \in Records!Folders => [f \in Records!Files |-> slot(f)] \in [Records!Files -> Slots]
      BY <1>5, <2>1
    <3> HIDE DEF slot
    <3> QED BY <2>2, <3>1 DEF RecordsInv, RecordShapes
  <2> QED BY <1>4, <2>2 DEF RecordsInv, RecordShapes
<1> HIDE DEF slot
<1>9. RecordShapes' BY <1>3, <1>8 DEF RecordsInv, RecordShapes
<1>10. Order'
  <2>1. grab["new"].folder \in Records!Folders /\ grab["new"].files \subseteq Records!Files
    BY DEF RecordsInv, RecordShapes, Records!Grabs
  <2> QED BY <1>3, <1>5, <1>7, <2>1 DEF RecordsInv, Order, Records!Grabs
<1>11. \A k \in Records!Grabs : Settled(k)' <=> Settled(k) BY <1>3 DEF Settled
<1>12. ASSUME NEW y \in shelf', NEW k \in Records!Grabs, Settled(k)', LeadsTo(y, k)'
       PROVE  y \in shelf /\ Settled(k) /\ LeadsTo(y, k)
  <2>1. y \in shelf /\ y[2] \in Records!Files /\ grab[y[1]].folder \in Records!Folders
    BY DEF RecordsInv, RecordShapes
  <2>2. item'[grab[y[1]].folder][y[2]] # Records!NoSlot /\ row'[k].st = "stored"
    BY <1>12, LeadsNext
  <2>3. item'[grab[y[1]].folder][y[2]] = item[grab[y[1]].folder][y[2]] /\ row[k].st = "stored"
    BY <1>3, <1>7, <2>1, <2>2
  <2> QED BY <1>11, <1>12, <2>1, <2>3, Leads, LeadsNext
<1>13. \A k \in Records!Grabs :
         row[k].st \in {"stored", "gone"} /\ Settled(k)
           => row'[k].st \in {"stored", "gone"} /\ Settled(k)'
  BY <1>3, <1>11
<1> QED BY <1>9, <1>10, <1>12, <1>13
\* The cleanup goes on with the references it has.
LEMMA CleanupGoesOn ==
  ASSUME RecordsInv, RecordShapes', CleanupShape', Order', Aimed', grab' = grab,
         st["cleanup"].pc \in {"next"} \cup Deleting, st'["cleanup"].pc \in {"next"} \cup Deleting,
         st'["cleanup"].refs = st["cleanup"].refs,
         \A y \in shelf', h \in Records!Grabs :
           Settled(h)' /\ LeadsTo(y, h)' => y \in shelf /\ Settled(h) /\ LeadsTo(y, h)
  PROVE  RecordsInv'
<1>1. st'["cleanup"].pc # "listing" BY DEF Deleting
<1>2. Informed' BY <1>1 DEF RecordsInv, Informed
<1> QED BY <1>2 DEF RecordsInv

\* Only the cleanup's thread moves.
LEMMA CleanupAlone ==
  ASSUME RecordsInv, UNCHANGED <<grab, row, item, shelf>>, NEW r, st' = [st EXCEPT !["cleanup"] = r]
  PROVE  /\ RecordShapes' /\ Order' /\ st'["cleanup"] = r
         /\ \A h \in Records!Grabs : Settled(h)' <=> Settled(h)
         /\ \A y \in shelf', h \in Records!Grabs : LeadsTo(y, h)' <=> LeadsTo(y, h)
<1>1. st' = [t \in Records!ThreadIds |-> st'[t]] /\ st'["cleanup"] = r
  BY CleanupMoves DEF RecordsInv
<1>2. RecordShapes' BY <1>1 DEF RecordsInv, RecordShapes
<1>3. Order' BY DEF RecordsInv, Order
<1>4. \A h \in Records!Grabs : Settled(h)' <=> Settled(h) BY DEF Settled
<1>5. \A y \in shelf', h \in Records!Grabs : LeadsTo(y, h)' <=> LeadsTo(y, h)
  BY DEF LeadsTo, Records!Resolves, Records!Live, Records!Stored
<1> QED BY <1>1, <1>2, <1>3, <1>4, <1>5

LEMMA IdleCleanup == Records!Idle \in CleanupRec /\ Records!Idle.pc = "idle"
BY DEF CleanupRec, Records!Idle, Deleting, Records!Folders

LEMMA CleanupStarts ==
  ASSUME RecordsInv, Records!StartCleanup PROVE RecordsInv'
<1> DEFINE r == [Records!Idle EXCEPT !.pc = "listing", !.todo = Records!Grabs, !.lib = shelf]
<1>1. UNCHANGED <<grab, row, item, shelf>> /\ st' = [st EXCEPT !["cleanup"] = r]
  BY DEF Records!StartCleanup
<1>2. shelf \subseteq Records!Grabs \X Records!Files BY DEF RecordsInv, RecordShapes
<1>3. r \in CleanupRec /\ r.pc = "listing" /\ r.lib = shelf
  BY <1>2 DEF CleanupRec, Records!Idle, Records!Folders
<1> HIDE DEF r
<1>4. RecordShapes' /\ Order' /\ st'["cleanup"] = r BY <1>1, CleanupAlone
<1>5. CleanupShape' BY <1>3, <1>4 DEF CleanupShape
<1>6. Informed' /\ Aimed' BY <1>1, <1>3, <1>4 DEF Informed, Aimed, Deleting
<1> QED BY <1>4, <1>5, <1>6 DEF RecordsInv

LEMMA CleanupReads ==
  ASSUME RecordsInv, NEW ok \in BOOLEAN, Records!ReadReferences(ok) PROVE RecordsInv'
<1> DEFINE c == st["cleanup"]
           refs == Records!RefsWhateverFailed(c.lib, TRUE)
           r == [c EXCEPT !.pc = "next", !.refs = refs, !.lib = {}]
<1>1. UNCHANGED <<grab, row, item, shelf>> /\ c.pc = "listing" /\ c \in CleanupRec
  BY DEF Records!ReadReferences, RecordsInv, CleanupShape
<1>2. \/ st' = [st EXCEPT !["cleanup"] = Records!Idle]
      \/ st' = [st EXCEPT !["cleanup"] = r]
  BY DEF Records!ReadReferences, Records!buildArrReferencedSet, RecordsInv, RecordShapes, Records!ThreadIds
<1>3. CASE st' = [st EXCEPT !["cleanup"] = Records!Idle]
  <2>1. RecordShapes' /\ Order' /\ st'["cleanup"] = Records!Idle BY <1>1, <1>3, CleanupAlone
  <2>2. CleanupShape' BY <2>1, IdleCleanup DEF CleanupShape
  <2>3. Informed' /\ Aimed' BY <2>1, IdleCleanup DEF Informed, Aimed, Deleting
  <2> QED BY <2>1, <2>2, <2>3 DEF RecordsInv
<1>4. CASE st' = [st EXCEPT !["cleanup"] = r]
  <2>1. refs \subseteq Records!Folders \X Records!Files \X Records!Grabs
    BY DEF Records!RefsWhateverFailed
  <2>2. r \in CleanupRec /\ r.pc = "next" /\ r.refs = refs
    <3> HIDE DEF refs
    <3> QED BY <1>1, <2>1 DEF CleanupRec
  <2>3. ASSUME NEW y \in shelf, NEW h \in Records!Grabs, Settled(h), LeadsTo(y, h)
        PROVE  \E x \in refs : x[3] = h
    <3>1. PICK x \in c.lib : Path(x) = Path(y) BY <1>1, <2>3 DEF RecordsInv, Informed
    <3>2. /\ y[2] \in Records!Files /\ grab[y[1]].folder \in Records!Folders
          /\ item[grab[y[1]].folder][y[2]].by = h
      BY <2>3, Leads DEF RecordsInv, RecordShapes
    <3>3. <<grab[y[1]].folder, y[2], h>> \in refs
      BY <3>1, <3>2 DEF Records!RefsWhateverFailed, Path
    <3> QED BY <3>3
  <2> HIDE DEF r, refs
  <2>4. /\ RecordShapes' /\ Order' /\ st'["cleanup"] = r
        /\ \A h \in Records!Grabs : Settled(h)' <=> Settled(h)
        /\ \A y \in shelf', h \in Records!Grabs : LeadsTo(y, h)' <=> LeadsTo(y, h)
    BY <1>1, <1>4, CleanupAlone
  <2>5. CleanupShape' BY <2>2, <2>4 DEF CleanupShape
  <2>6. Informed' BY <1>1, <2>2, <2>3, <2>4 DEF Informed
  <2>7. Aimed' BY <2>2, <2>4 DEF Aimed, Deleting
  <2> QED BY <2>4, <2>5, <2>6, <2>7 DEF RecordsInv
<1> QED BY <1>2, <1>3, <1>4

\* The end of the pass: the orphans.
LEMMA CleanupOrphans ==
  ASSUME RecordsInv,
         \/ Records!collectOrphanNZBCandidates \/ Records!buildStaleNZBKnownKeys
         \/ Records!deleteOrphanNZBFiles
  PROVE  RecordsInv'
<1> DEFINE c == st["cleanup"]
<1>1. UNCHANGED <<grab, row, item, shelf>> /\ c \in CleanupRec
  BY DEF Records!collectOrphanNZBCandidates, Records!buildStaleNZBKnownKeys,
         Records!deleteOrphanNZBFiles, RecordsInv, CleanupShape
<1>2. PICK r \in CleanupRec : r.pc \in {"idle", "known", "orphans"} /\ st' = [st EXCEPT !["cleanup"] = r]
  <2>1. CASE Records!collectOrphanNZBCandidates
    <3> DEFINE k == {h \in Records!Grabs : nzb[h] = 2}
               r == [c EXCEPT !.pc = "known", !.refs = {}, !.files = k]
    <3>1. k \subseteq Records!Grabs OBVIOUS
    <3>2. st' = [st EXCEPT !["cleanup"] = r]
      BY <2>1 DEF Records!collectOrphanNZBCandidates, RecordsInv, RecordShapes, Records!ThreadIds
    <3> HIDE DEF k
    <3>3. r \in CleanupRec /\ r.pc = "known" BY <1>1, <3>1 DEF CleanupRec
    <3> QED BY <3>2, <3>3
  <2>2. CASE Records!buildStaleNZBKnownKeys
    <3> DEFINE k == {h \in c.files : ~Records!has(h)}
               r == [c EXCEPT !.pc = "orphans", !.files = k]
    <3>1. k \subseteq Records!Grabs BY <1>1 DEF CleanupRec
    <3>2. st' = [st EXCEPT !["cleanup"] = r]
      BY <2>2 DEF Records!buildStaleNZBKnownKeys, RecordsInv, RecordShapes, Records!ThreadIds
    <3> HIDE DEF k
    <3>3. r \in CleanupRec /\ r.pc = "orphans" BY <1>1, <3>1 DEF CleanupRec
    <3> QED BY <3>2, <3>3
  <2>3. CASE Records!deleteOrphanNZBFiles
    BY <2>3, IdleCleanup DEF Records!deleteOrphanNZBFiles
  <2> QED BY <2>1, <2>2, <2>3
<1>3. RecordShapes' /\ Order' /\ st'["cleanup"] = r BY <1>1, <1>2, CleanupAlone
<1>4. CleanupShape' BY <1>2, <1>3 DEF CleanupShape
<1>5. Informed' /\ Aimed' BY <1>2, <1>3 DEF Informed, Aimed, Deleting
<1> QED BY <1>3, <1>4, <1>5 DEF RecordsInv
\* A grab that a path leads to and that is past the age rules is referenced, so
\* the one the cleanup takes is not.
LEMMA CleanupTakes ==
  ASSUME RecordsInv, NEW h \in Records!Grabs, Records!CleanEntry(h)
  PROVE  /\ RecordsInv'
         /\ st'["cleanup"].pc = "entry" => ~Records!Linked(h)
         /\ st'["cleanup"].pc = "entry" => \A k \in Records!Grabs : nzb'[k] # nzb[k] => k = h
<1> DEFINE c == [st["cleanup"] EXCEPT !.todo = @ \ {h}]
           r == [c EXCEPT !.pc = "entry", !.h = h, !.n = grab[h].folder, !.back = "next"]
           stale == /\ Records!Stored(h) /\ (\A x \in c.refs : x[3] # h)
                    /\ ~Records!staleNZBSkipReason(h, c.refs)
<1>1. UNCHANGED <<grab, row, item, shelf>> /\ st["cleanup"].pc = "next" /\ st["cleanup"] \in CleanupRec
  BY DEF Records!CleanEntry, RecordsInv, CleanupShape
<1>2. \/ st' = [st EXCEPT !["cleanup"] = c]
      \/ /\ stale /\ st' = [st EXCEPT !["cleanup"] = r]
         /\ nzb' = [nzb EXCEPT ![h] = Records!None]
  BY DEF Records!CleanEntry, Records!deleteStaleNZBEntry
<1>3. c \in CleanupRec /\ c.pc = "next" /\ c.refs = st["cleanup"].refs
  <2>1. st["cleanup"].todo \ {h} \subseteq Records!Grabs BY <1>1 DEF CleanupRec
  <2> QED BY <1>1, <2>1 DEF CleanupRec
<1>4. CASE st' = [st EXCEPT !["cleanup"] = c]
  <2> HIDE DEF c
  <2>1. /\ RecordShapes' /\ Order' /\ st'["cleanup"] = c
        /\ \A k \in Records!Grabs : Settled(k)' <=> Settled(k)
        /\ \A y \in shelf', k \in Records!Grabs : LeadsTo(y, k)' <=> LeadsTo(y, k)
    BY <1>1, <1>4, CleanupAlone
  <2>2. CleanupShape' /\ Aimed' BY <1>3, <2>1 DEF CleanupShape, Aimed, Deleting
  <2> QED BY <1>1, <1>3, <2>1, <2>2, CleanupGoesOn
<1>5. CASE /\ stale /\ st' = [st EXCEPT !["cleanup"] = r] /\ nzb' = [nzb EXCEPT ![h] = Records!None]
  <2>1. grab[h].folder \in Records!Folders BY DEF RecordsInv, RecordShapes
  <2>2. row[h].age \in 0..2 /\ row[h].upd \in 0..2 BY DEF RecordsInv, RecordShapes, RowRec
  <2>3. row[h].st = "stored" /\ Settled(h) /\ \A x \in st["cleanup"].refs : x[3] # h
    BY <1>3, <1>5, <2>2 DEF Records!Stored, Records!staleNZBSkipReason, Settled
  <2> HIDE DEF c, stale
  <2>4. /\ r \in CleanupRec /\ r.pc = "entry" /\ r.refs = st["cleanup"].refs /\ r.h = h /\ r.back = "next"
    BY <1>3, <2>1 DEF CleanupRec, Deleting
  <2> HIDE DEF r
  <2>5. /\ RecordShapes' /\ Order' /\ st'["cleanup"] = r
        /\ \A k \in Records!Grabs : Settled(k)' <=> Settled(k)
        /\ \A y \in shelf', k \in Records!Grabs : LeadsTo(y, k)' <=> LeadsTo(y, k)
    BY <1>1, <1>5, CleanupAlone
  <2>6. CleanupShape' BY <2>4, <2>5 DEF CleanupShape
  <2>7. Aimed' BY <1>1, <2>3, <2>4, <2>5 DEF Aimed
  <2>8. RecordsInv' BY <1>1, <2>4, <2>5, <2>6, <2>7, CleanupGoesOn DEF Deleting
  <2>9. ~Records!Linked(h)
    <3>1. \A y \in shelf : ~LeadsTo(y, h) BY <1>1, <2>3 DEF RecordsInv, Informed
    <3> QED BY <3>1 DEF Records!Linked, LeadsTo
  <2>10. \A k \in Records!Grabs : nzb'[k] # nzb[k] => k = h BY <1>5
  <2> QED BY <2>8, <2>9, <2>10
<1> QED BY <1>2, <1>4, <1>5

\* DeleteEntry run by the cleanup, and the directory it leaves.
LEMMA CleanupDeletes ==
  ASSUME RecordsInv, Records!DeleteEntry("cleanup") \/ Records!removeStaleNZBCacheDir("cleanup")
  PROVE  RecordsInv' /\ st["cleanup"].pc # "next" /\ st["cleanup"].pc # "record"
<1> DEFINE c == st["cleanup"]
           back == [c EXCEPT !.pc = c.back, !.h = "none", !.n = "n", !.back = "idle"]
           on == [c EXCEPT !.pc = "record"]
<1>1. UNCHANGED <<grab, row, item, shelf>> /\ c.pc \in {"entry", "dir"} /\ c \in CleanupRec
  BY DEF Records!DeleteEntry, Records!removeStaleNZBCacheDir, RecordsInv, CleanupShape
<1>2. c.back = "next" BY <1>1 DEF RecordsInv, Aimed, Deleting
<1>3. \/ st' = [st EXCEPT !["cleanup"] = back]
      \/ c.pc = "entry" /\ st' = [st EXCEPT !["cleanup"] = on]
  <2>1. CASE Records!Return("cleanup")
    BY <1>2, <2>1 DEF Records!Return
  <2>2. CASE c.pc = "entry" /\ Records!Go("cleanup", "record")
    BY <2>2 DEF Records!Go, RecordsInv, RecordShapes
  <2> QED BY <2>1, <2>2 DEF Records!DeleteEntry, Records!removeStaleNZBCacheDir
<1>4. PICK r \in CleanupRec :
        /\ st' = [st EXCEPT !["cleanup"] = r] /\ r.refs = c.refs
        /\ r.pc = "next" \/ (c.pc = "entry" /\ r.pc = "record" /\ r.h = c.h /\ r.back = "next")
  <2>1. back \in CleanupRec /\ back.refs = c.refs /\ back.pc = "next"
    BY <1>1, <1>2 DEF CleanupRec, Records!Folders
  <2>2. on \in CleanupRec /\ on.refs = c.refs /\ on.pc = "record" /\ on.h = c.h /\ on.back = "next"
    BY <1>1, <1>2 DEF CleanupRec, Deleting
  <2> HIDE DEF back, on
  <2> QED BY <1>3, <2>1, <2>2
<1>5. /\ RecordShapes' /\ Order' /\ st'["cleanup"] = r
      /\ \A k \in Records!Grabs : Settled(k)' <=> Settled(k)
      /\ \A y \in shelf', k \in Records!Grabs : LeadsTo(y, k)' <=> LeadsTo(y, k)
  BY <1>1, <1>4, CleanupAlone
<1>6. CleanupShape' BY <1>5 DEF CleanupShape
<1>7. Aimed' BY <1>1, <1>4, <1>5 DEF RecordsInv, Aimed, Deleting
<1>8. RecordsInv' BY <1>1, <1>4, <1>5, <1>6, <1>7, CleanupGoesOn DEF Deleting
<1> QED BY <1>1, <1>8
LEMMA RecordsDelete ==
  ASSUME RecordsInv, NEW t \in Records!ThreadIds, Records!Delete(t)
  PROVE  /\ RecordsInv'
         /\ t = "api" => st'["cleanup"] = st["cleanup"]
         /\ t = "cleanup" =>
              /\ st["cleanup"].pc = "record"
              /\ \A k \in Records!Grabs : Records!Stored(k) /\ row'[k].st = "gone" => ~Records!Linked(k)
<1> DEFINE h == st[t].h
           c == st[t]
           dir == [c EXCEPT !.pc = "dir"]
           back == IF c.back = "idle" THEN Records!Idle
                   ELSE [c EXCEPT !.pc = c.back, !.h = "none", !.n = "n", !.back = "idle"]
<1>1. UNCHANGED <<grab, shelf>> /\ row' = [row EXCEPT ![h].st = "gone"] /\ c.pc = "record"
      /\ (item' = item \/ item' = Records!removeFromEntryItem(h))
  BY DEF Records!Delete
<1>2. st' = [st EXCEPT ![t] = dir] \/ st' = [st EXCEPT ![t] = back]
  BY DEF Records!Delete, Records!Go, Records!Return, RecordsInv, RecordShapes
<1>3. PICK r : (r = dir \/ r = back) /\ st' = [st EXCEPT ![t] = r] BY <1>2
<1> HIDE DEF dir, back
<1>4. st' = [u \in Records!ThreadIds |-> st'[u]] BY <1>3 DEF RecordsInv, RecordShapes
<1> HIDE DEF h
<1>5. /\ RecordShapes' /\ Order'
      /\ \A y \in shelf', k \in Records!Grabs :
           Settled(k)' /\ LeadsTo(y, k)' => y \in shelf /\ Settled(k) /\ LeadsTo(y, k)
      /\ \A k \in Records!Grabs :
           row[k].st \in {"stored", "gone"} /\ Settled(k)
             => row'[k].st \in {"stored", "gone"} /\ Settled(k)'
  BY <1>1, <1>4, RecordGoes
<1>6. CASE t = "api"
  <2>1. st'["cleanup"] = st["cleanup"] BY <1>3, <1>6, OthersMove DEF RecordsInv
  <2>2. RecordsInv' BY <1>1, <1>5, <2>1, NothingNewLeads
  <2> QED BY <1>6, <2>1, <2>2
<1>7. CASE t = "cleanup"
  <2>1. c \in CleanupRec /\ c.back = "next"
    BY <1>1, <1>7 DEF RecordsInv, CleanupShape, Aimed, Deleting
  <2>2. r \in CleanupRec /\ r.refs = c.refs /\ (r.pc = "next" \/ (r.pc = "dir" /\ r.back = "next"))
    <3>1. dir \in CleanupRec /\ dir.refs = c.refs /\ dir.pc = "dir" /\ dir.back = "next"
      BY <2>1 DEF CleanupRec, Deleting, dir
    <3>2. back \in CleanupRec /\ back.refs = c.refs /\ back.pc = "next"
      BY <2>1 DEF CleanupRec, Records!Folders, back
    <3> QED BY <1>3, <3>1, <3>2
  <2>3. st'["cleanup"] = r BY <1>3, <1>7, CleanupMoves DEF RecordsInv
  <2>4. CleanupShape' /\ Aimed' BY <2>2, <2>3 DEF CleanupShape, Aimed, Deleting
  <2>5. RecordsInv' BY <1>1, <1>5, <1>7, <2>2, <2>3, <2>4, CleanupGoesOn DEF Deleting
  <2>6. ASSUME NEW k \in Records!Grabs, Records!Stored(k), row'[k].st = "gone"
        PROVE  ~Records!Linked(k)
    <3>1. k = h BY <1>1, <2>6 DEF RecordsInv, RecordShapes, Records!Stored
    <3>2. Settled(k) /\ \A x \in c.refs : x[3] # k
      BY <1>1, <1>7, <3>1 DEF RecordsInv, Aimed, h
    <3>3. \A y \in shelf : ~LeadsTo(y, k)
      BY <1>1, <1>7, <3>2 DEF RecordsInv, Informed, Deleting
    <3> QED BY <3>3 DEF Records!Linked, LeadsTo
  <2> QED BY <1>1, <1>7, <2>5, <2>6
<1> QED BY <1>6, <1>7 DEF Records!ThreadIds

LEMMA RecordsStep == RecordsInv /\ [Records!NextRecords]_(Records!srvars) => RecordsInv'
<1> SUFFICES ASSUME RecordsInv, [Records!NextRecords]_(Records!srvars) PROVE RecordsInv' OBVIOUS
<1>1. CASE UNCHANGED Records!srvars
  <2>1. UNCHANGED <<grab, row, item, shelf, st>> BY <1>1 DEF Records!srvars
  <2> QED BY <2>1, RecordsRest DEF RecordsInv, RecordShapes
<1>2. CASE Records!NextRecords
  <2>1. \A t \in Records!ThreadIds : t = "cleanup" \/ t = "api" BY DEF Records!ThreadIds
  <2> QED BY <1>2, <2>1, RecordsQueue, RecordsAdd, RecordsDeliver, RecordsImport, RecordsArrDelete,
             RecordsAge, RecordsApi, RecordsRemoveFile, RecordsDelete, CleanupStarts, CleanupReads,
             CleanupOrphans, CleanupTakes, CleanupDeletes
          DEF Records!NextRecords
<1> QED BY <1>1, <1>2

\* Where the cleanup does not move, nothing is taken by it.
LEMMA LinkedElsewhere ==
  ASSUME RecordsInv,
         \/ st'["cleanup"] = st["cleanup"]
         \/ st["cleanup"].pc \notin {"next", "record"}
         \/ st["cleanup"].pc = "next" /\ st'["cleanup"].pc # "entry"
  PROVE  Records!LinkedStep
BY DEF Records!LinkedStep

LEMMA LinkedAlways ==
  RecordsInv /\ [Records!NextRecords]_(Records!srvars) => Records!LinkedStep
<1> SUFFICES ASSUME RecordsInv, [Records!NextRecords]_(Records!srvars) PROVE Records!LinkedStep
  OBVIOUS
<1>1. CASE \/ UNCHANGED Records!srvars
           \/ \E h \in Records!Grabs : Records!Queue(h) \/ Records!AddOrUpdate(h)
                                       \/ Records!Deliver(h) \/ Records!ArrImport(h)
           \/ Records!ArrDelete \/ Records!Age
  <2>1. st' = st
    BY <1>1 DEF Records!srvars, Records!Queue, Records!AddOrUpdate, Records!Deliver,
                Records!ArrImport, Records!ArrDelete, Records!Age
  <2> QED BY <2>1, LinkedElsewhere
<1>2. ASSUME NEW h \in Records!Grabs, Records!CleanEntry(h) PROVE Records!LinkedStep
  <2>1. st["cleanup"].pc = "next" BY <1>2 DEF Records!CleanEntry
  <2> QED BY <1>2, <2>1, CleanupTakes DEF Records!LinkedStep
<1>3. CASE \/ \E hook \in hooks : Records!ReceiveWebhook(hook)
           \/ \E h \in Records!Grabs : Records!RemoveEntry(h)
           \/ Records!finishUsenetTeardown \/ Records!RemoveTorrentFile
           \/ Records!DeleteEntry("api") \/ Records!removeStaleNZBCacheDir("api")
  <2>1. PICK r : st' = [st EXCEPT !["api"] = r]
    <3>1. CASE \E hook \in hooks : Records!ReceiveWebhook(hook)
      BY <3>1 DEF Records!ReceiveWebhook
    <3>2. CASE \/ \E h \in Records!Grabs : Records!RemoveEntry(h)
               \/ Records!finishUsenetTeardown \/ Records!RemoveTorrentFile
      BY <3>2 DEF Records!RemoveEntry, Records!finishUsenetTeardown, Records!RemoveTorrentFile
    <3>3. CASE Records!DeleteEntry("api") \/ Records!removeStaleNZBCacheDir("api")
      <4>1. CASE Records!Return("api") BY <4>1 DEF Records!Return
      <4>2. CASE Records!Go("api", "record") BY <4>2 DEF Records!Go, RecordsInv, RecordShapes
      <4> QED BY <3>3, <4>1, <4>2 DEF Records!DeleteEntry, Records!removeStaleNZBCacheDir
    <3> QED BY <1>3, <3>1, <3>2, <3>3
  <2>2. st'["cleanup"] = st["cleanup"] BY <2>1, OthersMove DEF RecordsInv
  <2> QED BY <2>2, LinkedElsewhere
<1>4. CASE Records!DeleteEntry("cleanup") \/ Records!removeStaleNZBCacheDir("cleanup")
  BY <1>4, CleanupDeletes, LinkedElsewhere
<1>5. ASSUME NEW t \in Records!ThreadIds, Records!Delete(t) PROVE Records!LinkedStep
  <2>1. CASE t = "api" BY <1>5, <2>1, RecordsDelete, LinkedElsewhere
  <2>2. CASE t = "cleanup" BY <1>5, <2>2, RecordsDelete DEF Records!LinkedStep
  <2> QED BY <2>1, <2>2 DEF Records!ThreadIds
<1>6. CASE \/ Records!StartCleanup \/ \E ok \in BOOLEAN : Records!ReadReferences(ok)
           \/ Records!buildStaleNZBKnownKeys \/ Records!deleteOrphanNZBFiles
  <2>1. st["cleanup"].pc \notin {"next", "record"}
    BY <1>6 DEF Records!StartCleanup, Records!ReadReferences, Records!buildStaleNZBKnownKeys,
                Records!deleteOrphanNZBFiles
  <2> QED BY <2>1, LinkedElsewhere
<1>7. CASE Records!collectOrphanNZBCandidates
  <2>1. st["cleanup"].pc = "next" /\ st["cleanup"] \in CleanupRec
    BY <1>7 DEF Records!collectOrphanNZBCandidates, RecordsInv, CleanupShape
  <2>2. st'["cleanup"].pc = "known"
    BY <1>7, <2>1 DEF Records!collectOrphanNZBCandidates, RecordsInv, RecordShapes, Records!ThreadIds, CleanupRec
  <2> QED BY <2>1, <2>2, LinkedElsewhere
<1> QED
  <2>1. \A t \in Records!ThreadIds : t = "cleanup" \/ t = "api" BY DEF Records!ThreadIds
  <2> QED BY <1>1, <1>2, <1>3, <1>4, <1>5, <1>6, <1>7, <2>1 DEF Records!NextRecords

\* The cleanup takes neither the files nor the record of a grab that a file of
\* the library leads to, whatever was imported, shadowed or deleted since it
\* listed the library (stale_nzb.go, CleanupStaleNZBs).
THEOREM LinkedAreKept == Records!SpecRecords => LinkedStays
<1>1. RecordsInv /\ [Records!NextRecords]_(Records!srvars)
        => [part = "records" => Records!LinkedStep]_mcvars
  BY LinkedAlways
<1> QED BY <1>1, RecordsInit, RecordsStep, PTL DEF Records!SpecRecords, LinkedStays

-----------------------------------------------------------------------------
(* The burst gate.                                                         *)

Apart   == {"chunk", "keep", "acquire", "left", "done"}   \* neither waiting nor holding
Parked  == {"waiting", "withdraw"}
Holding == {"holding", "fetch", "give"}

Shapes ==
  /\ busy \in BOOLEAN /\ handed \subseteq Bursts
  /\ waiting \in [Classes -> Seq(Bursts)]
  /\ burst \in [Bursts -> [pc : Apart \cup Parked \cup Holding, chunk : Nat, absent : BOOLEAN,
                           res : {"none", "complete", "cancelled", "left", "failed"}]]

\* Each parked burst is in the queue of its class, once, or has been handed the
\* turn.  Without this withdraw could not tell which of the two it meets.
Queues ==
  /\ \A c \in Classes : \A i \in DOMAIN waiting[c] :
       /\ class(waiting[c][i]) = c
       /\ burst[waiting[c][i]].pc \in Parked
       /\ waiting[c][i] \notin handed
  /\ \A c \in Classes : \A i, k \in DOMAIN waiting[c] : waiting[c][i] = waiting[c][k] => i = k
  /\ \A b \in handed : burst[b].pc \in Parked
  /\ \A b \in Bursts : burst[b].pc \in Parked =>
       b \in handed \/ \E i \in DOMAIN waiting[class(b)] : waiting[class(b)][i] = b

\* One burst owns the turn while the gate is busy, nobody and nothing waits
\* otherwise.
Owner ==
  /\ \A b, d \in Bursts : Owns(b) /\ Owns(d) => b = d
  /\ busy <=> \E b \in Bursts : Owns(b)
  /\ ~busy => \A c \in Classes : waiting[c] = <<>>

IInv == Shapes /\ Queues /\ Owner

-----------------------------------------------------------------------------
(* The gate.                                                               *)

LEMMA InitIInv ==
  ASSUME GateAssumption, InitGate
  PROVE  IInv
<1>1. waiting \in [Classes -> Seq(Bursts)] /\ \A c \in Classes : waiting[c] = <<>> /\ DOMAIN waiting[c] = {}
  BY DEF InitGate
<1>2. \A b \in Bursts : burst[b].pc = "chunk" BY DEF InitGate
<1>3. Shapes BY <1>1 DEF InitGate, Shapes, Apart
<1>4. Queues BY <1>1, <1>2 DEF InitGate, Queues, Parked
<1>5. Owner BY <1>1, <1>2 DEF InitGate, Owner, Owns
<1> QED BY <1>3, <1>4, <1>5 DEF IInv

\* Steps that leave the gate alone and keep every burst apart, parked or
\* holding.
LEMMA SameKind ==
  ASSUME IInv, Shapes', UNCHANGED gate,
         \A d \in Bursts : /\ burst'[d].pc \in Parked <=> burst[d].pc \in Parked
                           /\ burst'[d].pc \in Holding <=> burst[d].pc \in Holding
  PROVE  IInv'
<1> USE DEF IInv, gate
<1>1. \A d \in Bursts : Owns(d)' <=> Owns(d) BY DEF Owns, Holding
<1>2. Owner' BY <1>1 DEF Owner
<1>3. \A c \in Classes : \A i \in DOMAIN waiting[c] : waiting[c][i] \in Bursts BY DEF Shapes
<1>4. Queues' BY <1>3 DEF Queues, Shapes
<1> QED BY <1>2, <1>4

\* The owner passes the turn on, to the oldest waiter or to nobody.
LEMMA PassOnKeeps ==
  ASSUME IInv, Shapes', NEW b \in Bursts, Owns(b), passOn(handed \ {b}),
         burst'[b].pc \in Apart, \A d \in Bursts : d # b => burst'[d] = burst[d],
         \A c \in Classes : \A i \in DOMAIN waiting[c] : waiting[c][i] # b
  PROVE  IInv'
<1> USE DEF IInv
<1> DEFINE c == FirstClass
<1>1. c \in Classes BY DEF FirstClass, Classes
<1>2. \A d \in Bursts : d # b => ~Owns(d) BY DEF Owner
<1>3. \A e \in Classes : \A i \in DOMAIN waiting[e] : waiting[e][i] \in Bursts BY DEF Shapes
<1>4. CASE waiting[c] = <<>>
  <2>1. busy' = FALSE /\ handed' = handed \ {b} /\ waiting' = waiting
    BY <1>4 DEF passOn
  <2>2. \A e \in Classes : waiting[e] = <<>> BY <1>4 DEF FirstClass, Classes
  <2>3. \A d \in Bursts : ~Owns(d)' BY <1>2, <2>1 DEF Owns, Apart
  <2>4. Owner' BY <2>1, <2>2, <2>3 DEF Owner
  <2>5. Queues' BY <1>3, <2>1 DEF Queues, Shapes, Apart, Parked
  <2> QED BY <2>4, <2>5
<1>5. CASE waiting[c] # <<>>
  <2> DEFINE h == Head(waiting[c])
             t == Tail(waiting[c])
  <2>1. /\ handed' = (handed \ {b}) \cup {h} /\ busy' = busy
        /\ waiting' = [waiting EXCEPT ![c] = t]
    BY <1>5 DEF passOn
  <2>2. /\ h = waiting[c][1] /\ 1 \in DOMAIN waiting[c] /\ h \in Bursts
        /\ Len(waiting[c]) \in Nat /\ DOMAIN waiting[c] = 1..Len(waiting[c])
        /\ t \in Seq(Bursts) /\ DOMAIN t = 1..(Len(waiting[c]) - 1)
        /\ \A i \in DOMAIN t : i + 1 \in DOMAIN waiting[c] /\ t[i] = waiting[c][i + 1]
    <3>1. waiting[c] \in Seq(Bursts) BY <1>1 DEF Shapes
    <3>2. /\ Head(waiting[c]) = waiting[c][1] /\ Head(waiting[c]) \in Bursts
          /\ Tail(waiting[c]) \in Seq(Bursts) /\ Len(Tail(waiting[c])) = Len(waiting[c]) - 1
          /\ \A i \in 1..Len(Tail(waiting[c])) : Tail(waiting[c])[i] = waiting[c][i + 1]
          /\ Len(waiting[c]) \in Nat /\ Len(waiting[c]) > 0
      BY <1>5, <3>1, HeadTailProperties, LenProperties
    <3>3. DOMAIN waiting[c] = 1..Len(waiting[c]) /\ DOMAIN t = 1..Len(t)
      BY <3>1, <3>2, LenProperties
    <3> HIDE DEF c, t
    <3> QED BY <3>2, <3>3 DEF t
  <2> HIDE DEF h, t, c
  <2>3. h # b /\ burst[h].pc \in Parked /\ class(h) = c BY <1>1, <2>2 DEF Queues
  <2>4. \A e \in Classes : waiting'[e] = IF e = c THEN t ELSE waiting[e]
    BY <1>1, <2>1 DEF Shapes
  <2>5. \A d \in Bursts : Owns(d)' <=> d = h
    BY <1>2, <2>1, <2>3 DEF Owns, Apart
  <2>6. busy BY DEF Owner
  <2>7. Owner' BY <2>1, <2>2, <2>5, <2>6 DEF Owner
  <2>8. ASSUME NEW e \in Classes, NEW i \in DOMAIN waiting'[e]
        PROVE  /\ class(waiting'[e][i]) = e
               /\ burst'[waiting'[e][i]].pc \in Parked
               /\ waiting'[e][i] \notin handed'
    <3>1. CASE e = c
      <4>1. i + 1 \in DOMAIN waiting[c] /\ waiting'[e][i] = waiting[c][i + 1] /\ i + 1 # 1
        <5>1. waiting'[e] = t /\ i \in DOMAIN t BY <2>4, <2>8, <3>1
        <5>2. i \in 1..(Len(waiting[c]) - 1) BY <2>2, <5>1
        <5>3. i + 1 # 1 BY <2>2, <5>2
        <5> QED BY <2>2, <5>1, <5>3
      <4>2. waiting[c][i + 1] # h BY <1>1, <2>2, <4>1 DEF Queues
      <4> QED BY <1>1, <1>3, <2>1, <3>1, <4>1, <4>2 DEF Queues
    <3>2. CASE e # c
      <4>1. i \in DOMAIN waiting[e] /\ waiting'[e][i] = waiting[e][i] BY <2>4, <2>8, <3>2
      <4>2. waiting[e][i] # h BY <2>3, <3>2, <4>1 DEF Queues
      <4> QED BY <1>3, <2>1, <4>1, <4>2 DEF Queues
    <3> QED BY <3>1, <3>2
  <2>9. ASSUME NEW e \in Classes, NEW i \in DOMAIN waiting'[e], NEW k \in DOMAIN waiting'[e],
               waiting'[e][i] = waiting'[e][k]
        PROVE  i = k
    <3>1. CASE e = c
      <4>1. /\ i + 1 \in DOMAIN waiting[c] /\ waiting'[e][i] = waiting[c][i + 1]
            /\ k + 1 \in DOMAIN waiting[c] /\ waiting'[e][k] = waiting[c][k + 1]
        BY <2>2, <2>4, <2>9, <3>1
      <4>2. i + 1 = k + 1
        <5>1. \A x, y \in DOMAIN waiting[c] : waiting[c][x] = waiting[c][y] => x = y
          BY <1>1 DEF Queues
        <5>2. waiting[c][i + 1] = waiting[c][k + 1] BY <2>9, <4>1
        <5> QED BY <4>1, <5>1, <5>2
      <4>3. i \in 1..(Len(waiting[c]) - 1) /\ k \in 1..(Len(waiting[c]) - 1)
        <5>1. waiting'[e] = t /\ i \in DOMAIN t /\ k \in DOMAIN t BY <2>4, <2>9, <3>1
        <5> QED BY <2>2, <5>1
      <4> QED BY <2>2, <4>2, <4>3
    <3>2. CASE e # c BY <2>4, <2>9, <3>2 DEF Queues
    <3> QED BY <3>1, <3>2
  <2>10. \A d \in handed' : burst'[d].pc \in Parked BY <2>1, <2>2, <2>3 DEF Queues, Shapes
  <2>11. ASSUME NEW d \in Bursts, burst'[d].pc \in Parked
         PROVE  d \in handed' \/ \E i \in DOMAIN waiting'[class(d)] : waiting'[class(d)][i] = d
    <3>1. d # b /\ burst[d].pc \in Parked BY <2>11 DEF Apart, Parked
    <3>2. CASE d \in handed BY <2>1, <3>1, <3>2
    <3>3. CASE d = h BY <2>1, <3>3
    <3>4. CASE d # h /\ d \notin handed
      <4>1. class(d) \in Classes BY DEF class, Classes
      <4>2. PICK i \in DOMAIN waiting[class(d)] : waiting[class(d)][i] = d
        BY <3>1, <3>4 DEF Queues
      <4>3. CASE class(d) = c
        <5>1. i \in 1..Len(waiting[c]) /\ i # 1 BY <2>2, <3>4, <4>2, <4>3
        <5>2. i - 1 \in DOMAIN t /\ t[i - 1] = d
          <6>1. i - 1 \in 1..(Len(waiting[c]) - 1) /\ (i - 1) + 1 = i BY <2>2, <5>1
          <6> QED BY <2>2, <4>2, <4>3, <6>1
        <5> QED BY <2>4, <4>1, <4>3, <5>2
      <4>4. CASE class(d) # c BY <2>4, <4>1, <4>2, <4>4
      <4> QED BY <4>3, <4>4
    <3> QED BY <3>2, <3>3, <3>4
  <2>12. Queues' BY <2>8, <2>9, <2>10, <2>11 DEF Queues
  <2> QED BY <2>7, <2>12
<1> QED BY <1>4, <1>5

\* What is left of a queue when one waiter leaves it.
LEMMA RemoveAtProperties ==
  ASSUME NEW S, NEW s \in Seq(S), NEW i \in 1..Len(s)
  PROVE  /\ RemoveAt(s, i) \in Seq(S)
         /\ Len(RemoveAt(s, i)) = Len(s) - 1
         /\ \A k \in 1..(Len(s) - 1) : RemoveAt(s, i)[k] = s[IF k < i THEN k ELSE k + 1]
<1> DEFINE a == SubSeq(s, 1, i - 1)
           b == SubSeq(s, i + 1, Len(s))
<1>1. Len(s) \in Nat /\ \A k \in 1..Len(s) : s[k] \in S
  BY ElementOfSeq, LenProperties
<1>2. a \in Seq(S) /\ Len(a) = i - 1 /\ \A k \in 1..(i - 1) : a[k] = s[k]
  <2>1. \A k \in 1..(i - 1) : s[k] \in S BY <1>1
  <2> QED BY <1>1, <2>1, SubSeqProperties
<1>3. b \in Seq(S) /\ Len(b) = Len(s) - i /\ \A k \in 1..(Len(s) - i) : b[k] = s[i + k]
  <2>1. \A k \in (i + 1)..Len(s) : s[k] \in S BY <1>1
  <2> QED BY <1>1, <2>1, SubSeqProperties
<1> HIDE DEF a, b
<1>4. /\ a \o b \in Seq(S) /\ Len(a \o b) = (i - 1) + (Len(s) - i)
      /\ \A k \in 1..((i - 1) + (Len(s) - i)) :
           (a \o b)[k] = IF k <= i - 1 THEN a[k] ELSE b[k - (i - 1)]
  <2>1. /\ a \o b \in Seq(S) /\ Len(a \o b) = Len(a) + Len(b)
        /\ \A k \in 1..(Len(a) + Len(b)) :
             (a \o b)[k] = IF k <= Len(a) THEN a[k] ELSE b[k - Len(a)]
    <3>1. a \in Seq(S) /\ b \in Seq(S) BY <1>2, <1>3
    <3> QED BY <3>1, ConcatProperties
  <2>2. Len(a) = i - 1 /\ Len(b) = Len(s) - i BY <1>2, <1>3
  <2> QED BY <2>1, <2>2
<1>5. RemoveAt(s, i) = a \o b BY DEF RemoveAt, a, b
<1>6. ASSUME NEW k \in 1..(Len(s) - 1)
      PROVE  RemoveAt(s, i)[k] = s[IF k < i THEN k ELSE k + 1]
  <2>1. CASE k < i BY <1>1, <1>2, <1>4, <1>5, <2>1
  <2>2. CASE ~(k < i)
    <3>1. k - (i - 1) \in 1..(Len(s) - i) /\ i + (k - (i - 1)) = k + 1 BY <1>1, <2>2
    <3>2. b[k - (i - 1)] = s[k + 1] BY <1>3, <3>1
    <3>3. k \in 1..((i - 1) + (Len(s) - i)) /\ ~(k <= i - 1) BY <1>1, <2>2
    <3> QED BY <1>4, <1>5, <2>2, <3>2, <3>3
  <2> QED BY <2>1, <2>2
<1> QED BY <1>1, <1>4, <1>5, <1>6

\* A waiter gives up while it is still queued.
LEMMA LeaveKeeps ==
  ASSUME IInv, Shapes', NEW b \in Bursts, NEW i \in DOMAIN waiting[class(b)],
         waiting[class(b)][i] = b,
         waiting' = [waiting EXCEPT ![class(b)] = RemoveAt(waiting[class(b)], i)],
         UNCHANGED <<busy, handed>>,
         burst'[b].pc \in Apart, \A d \in Bursts : d # b => burst'[d] = burst[d]
  PROVE  IInv'
<1> USE DEF IInv
<1> DEFINE c == class(b)
           q == waiting[c]
           r == RemoveAt(q, i)
           n == Len(q) - 1
           old(k) == IF k < i THEN k ELSE k + 1
<1>1. c \in Classes BY DEF class, Classes
<1>2. q \in Seq(Bursts) /\ Len(q) \in Nat /\ DOMAIN q = 1..Len(q)
  BY <1>1, LenProperties DEF Shapes
<1>3. i \in 1..Len(q) BY <1>2
<1>4. r \in Seq(Bursts) /\ Len(r) = n /\ \A k \in 1..n : r[k] = q[old(k)]
  BY <1>2, <1>3, RemoveAtProperties
<1>5. DOMAIN r = 1..n BY <1>4, LenProperties
<1>6. \A k \in 1..n : old(k) \in DOMAIN q /\ old(k) # i BY <1>2, <1>3
<1>7. \A k, m \in 1..n : old(k) = old(m) => k = m BY <1>2, <1>3
<1>8. \A k \in DOMAIN q : k # i => \E m \in 1..n : old(m) = k
  <2> TAKE k \in DOMAIN q
  <2> HAVE k # i
  <2>1. CASE k < i BY <1>2, <1>3, <2>1
  <2>2. CASE k > i
    <3>1. k - 1 \in 1..n /\ old(k - 1) = k BY <1>2, <1>3, <2>2
    <3> QED BY <3>1
  <2> QED BY <1>2, <1>3, <2>1, <2>2
<1> HIDE DEF r, n, old, q, c
<1>9. \A e \in Classes : waiting'[e] = IF e = c THEN r ELSE waiting[e]
  BY <1>1 DEF Shapes, c, q, r
<1>10. /\ \A e \in Classes : \A k \in DOMAIN waiting[e] : waiting[e][k] \in Bursts
       /\ q[i] = b /\ burst[b].pc \in Parked /\ b \notin handed /\ waiting[c] = q
  BY <1>1 DEF Shapes, Queues, q, c
<1>11. \A d \in Bursts : Owns(d)' <=> Owns(d)
  BY <1>10 DEF Owns, Apart, Parked
<1>12. Owner'
  <2>1. busy BY <1>1, <1>2, <1>3, <1>10 DEF Owner, Shapes
  <2> QED BY <1>11, <2>1 DEF Owner
<1>13. ASSUME NEW e \in Classes, NEW k \in DOMAIN waiting'[e]
       PROVE  /\ class(waiting'[e][k]) = e
              /\ burst'[waiting'[e][k]].pc \in Parked
              /\ waiting'[e][k] \notin handed'
  <2>1. PICK m \in DOMAIN waiting[e] : waiting'[e][k] = waiting[e][m] /\ waiting[e][m] # b
    <3>1. CASE e = c
      <4>1. k \in 1..n /\ waiting'[e][k] = q[old(k)] BY <1>4, <1>5, <1>9, <1>13, <3>1
      <4>2. old(k) \in DOMAIN q /\ old(k) # i BY <1>6, <4>1
      <4>3. q[old(k)] # b BY <1>1, <1>2, <1>3, <1>10, <4>2 DEF Queues
      <4> QED BY <1>10, <3>1, <4>1, <4>2, <4>3
    <3>2. CASE e # c BY <1>9, <1>13, <3>2 DEF Queues, c
    <3> QED BY <3>1, <3>2
  <2> QED BY <1>10, <2>1 DEF Queues
<1>14. ASSUME NEW e \in Classes, NEW k \in DOMAIN waiting'[e], NEW m \in DOMAIN waiting'[e],
              waiting'[e][k] = waiting'[e][m]
       PROVE  k = m
  <2>1. CASE e = c
    <3>1. /\ k \in 1..n /\ waiting'[e][k] = q[old(k)]
          /\ m \in 1..n /\ waiting'[e][m] = q[old(m)]
      BY <1>4, <1>5, <1>9, <1>14, <2>1
    <3>2. old(k) = old(m)
      <4>1. \A x, y \in DOMAIN q : q[x] = q[y] => x = y BY <1>1, <1>10 DEF Queues
      <4>2. old(k) \in DOMAIN q /\ old(m) \in DOMAIN q BY <1>6, <3>1
      <4>3. q[old(k)] = q[old(m)] BY <1>14, <3>1
      <4> QED BY <4>1, <4>2, <4>3
    <3> QED BY <1>7, <3>1, <3>2
  <2>2. CASE e # c BY <1>9, <1>14, <2>2 DEF Queues
  <2> QED BY <2>1, <2>2
<1>15. ASSUME NEW d \in Bursts, burst'[d].pc \in Parked
       PROVE  d \in handed' \/ \E k \in DOMAIN waiting'[class(d)] : waiting'[class(d)][k] = d
  <2>1. d # b /\ burst[d].pc \in Parked /\ class(d) \in Classes
    BY <1>15 DEF Apart, Parked, class, Classes
  <2>2. CASE d \in handed BY <2>2
  <2>3. CASE d \notin handed
    <3>1. PICK k \in DOMAIN waiting[class(d)] : waiting[class(d)][k] = d
      BY <2>1, <2>3 DEF Queues
    <3>2. CASE class(d) = c
      <4>1. k \in DOMAIN q /\ k # i /\ q[k] = d BY <1>10, <2>1, <3>1, <3>2
      <4>2. PICK m \in 1..n : old(m) = k BY <1>8, <4>1
      <4> QED BY <1>4, <1>5, <1>9, <2>1, <3>2, <4>1, <4>2
    <3>3. CASE class(d) # c BY <1>9, <2>1, <3>1, <3>3
    <3> QED BY <3>2, <3>3
  <2> QED BY <2>2, <2>3
<1>16. \A d \in handed' : burst'[d].pc \in Parked
  <2> TAKE d \in handed'
  <2>1. d \in handed /\ d \in Bursts /\ d # b BY <1>10 DEF Shapes
  <2>2. burst[d].pc \in Parked BY <2>1 DEF Queues
  <2> QED BY <2>1, <2>2
<1>17. Queues' BY <1>13, <1>14, <1>15, <1>16 DEF Queues
<1> QED BY <1>12, <1>17
\* A burst asks for the turn: it queues up behind its class or takes a free gate.
LEMMA AcquireKeeps ==
  ASSUME IInv, Shapes', NEW b \in Bursts, acquire(b)
  PROVE  IInv'
<1> USE DEF IInv
<1>1. /\ handed' = handed /\ burst[b].pc = "acquire"
      /\ \A d \in Bursts : d # b => burst'[d] = burst[d]
  BY DEF acquire, Go, Shapes
<1>2. /\ b \notin handed
      /\ \A e \in Classes : \A i \in DOMAIN waiting[e] : waiting[e][i] # b
  BY <1>1 DEF Queues, Parked
<1>3. \A e \in Classes : \A i \in DOMAIN waiting[e] : waiting[e][i] \in Bursts BY DEF Shapes
<1>4. CASE ~busy
  <2>1. busy' = TRUE /\ waiting' = waiting /\ burst'[b].pc = "holding"
    BY <1>4 DEF acquire, Go, Shapes
  <2>2. \A d \in Bursts : ~Owns(d) BY <1>4 DEF Owner
  <2>3. \A d \in Bursts : Owns(d)' <=> d = b BY <1>1, <1>2, <2>1, <2>2 DEF Owns
  <2>4. Owner' BY <2>1, <2>3 DEF Owner
  <2>5. \A d \in Bursts : burst'[d].pc \in Parked <=> burst[d].pc \in Parked
    BY <1>1, <2>1 DEF Parked
  <2>6. Queues' BY <1>1, <1>3, <2>1, <2>5 DEF Queues, Shapes
  <2> QED BY <2>4, <2>6
<1>5. CASE busy
  <2> DEFINE c == class(b)
             q == waiting[c]
             r == Append(q, b)
  <2>1. c \in Classes BY DEF class, Classes
  <2>2. busy' = busy /\ burst'[b].pc = "waiting" BY <1>5 DEF acquire, Go, Shapes
  <2>3. q \in Seq(Bursts) /\ Len(q) \in Nat /\ DOMAIN q = 1..Len(q)
    BY <2>1, LenProperties DEF Shapes
  <2>4. /\ Len(r) = Len(q) + 1 /\ r[Len(q) + 1] = b
        /\ \A i \in 1..Len(q) : r[i] = q[i]
        /\ r \in Seq(Bursts)
    BY <2>3, AppendProperties
  <2>5. DOMAIN r = 1..(Len(q) + 1) BY <2>4, LenProperties
  <2>6. \A e \in Classes : waiting'[e] = IF e = c THEN r ELSE waiting[e]
    BY <1>5, <2>1 DEF acquire, Shapes
  <2> DEFINE n == Len(q)
  <2>7. n \in Nat /\ DOMAIN q = 1..n /\ DOMAIN r = 1..(n + 1) /\ r[n + 1] = b /\ waiting[c] = q
        /\ \A i \in 1..n : r[i] = q[i]
    BY <2>3, <2>4, <2>5
  <2> HIDE DEF n, r, q, c
  <2>8. \A d \in Bursts : Owns(d)' <=> Owns(d) BY <1>1, <2>2 DEF Owns
  <2>9. Owner' BY <1>5, <2>2, <2>8 DEF Owner
  <2>10. ASSUME NEW i \in DOMAIN r
         PROVE  \/ i \in DOMAIN q /\ r[i] = q[i]
                \/ i = n + 1 /\ r[i] = b
    <3>1. i \in 1..n \/ i = n + 1 BY <2>7, <2>10
    <3> QED BY <2>7, <3>1
  <2>11. ASSUME NEW e \in Classes, NEW i \in DOMAIN waiting'[e]
         PROVE  /\ class(waiting'[e][i]) = e
                /\ burst'[waiting'[e][i]].pc \in Parked
                /\ waiting'[e][i] \notin handed'
    <3>1. CASE i \in DOMAIN waiting[e] /\ waiting'[e][i] = waiting[e][i]
      BY <1>1, <1>2, <1>3, <3>1 DEF Queues
    <3>2. CASE waiting'[e][i] = b /\ e = c
      BY <1>1, <1>2, <2>2, <3>2 DEF Parked, c
    <3> QED BY <2>6, <2>7, <2>10, <2>11, <3>1, <3>2
  <2>12. ASSUME NEW e \in Classes, NEW i \in DOMAIN waiting'[e], NEW k \in DOMAIN waiting'[e],
                waiting'[e][i] = waiting'[e][k]
         PROVE  i = k
    <3>1. CASE e = c
      <4>1. i \in DOMAIN r /\ k \in DOMAIN r /\ r[i] = r[k] BY <2>6, <2>12, <3>1
      <4>2. \A x, y \in DOMAIN q : q[x] = q[y] => x = y BY <2>1, <2>7 DEF Queues
      <4>3. \A x \in DOMAIN q : q[x] # b BY <1>2, <2>1, <2>7
      <4> QED BY <2>10, <4>1, <4>2, <4>3
    <3>2. CASE e # c BY <2>6, <2>12, <3>2 DEF Queues
    <3> QED BY <3>1, <3>2
  <2>13. \A d \in handed' : burst'[d].pc \in Parked
    <3> TAKE d \in handed'
    <3>1. d \in handed /\ d \in Bursts /\ d # b BY <1>1, <1>2 DEF Shapes
    <3>2. burst[d].pc \in Parked BY <3>1 DEF Queues
    <3> QED BY <1>1, <3>1, <3>2
  <2>14. ASSUME NEW d \in Bursts, burst'[d].pc \in Parked
         PROVE  d \in handed' \/ \E i \in DOMAIN waiting'[class(d)] : waiting'[class(d)][i] = d
    <3>1. class(d) \in Classes BY DEF class, Classes
    <3>2. CASE d = b
      <4>1. n + 1 \in DOMAIN r /\ r[n + 1] = d BY <2>7, <3>2
      <4>2. class(d) = c BY <3>2 DEF c
      <4> QED BY <2>6, <3>1, <4>1, <4>2
    <3>3. CASE d # b
      <4>1. d \in handed \/ \E i \in DOMAIN waiting[class(d)] : waiting[class(d)][i] = d
        BY <1>1, <2>14, <3>3 DEF Queues
      <4>2. \A i \in DOMAIN q : i \in DOMAIN r /\ r[i] = q[i] BY <2>7
      <4> QED BY <1>1, <2>6, <2>7, <3>1, <4>1, <4>2
    <3> QED BY <3>2, <3>3
  <2>15. Queues' BY <2>11, <2>12, <2>13, <2>14 DEF Queues
  <2> QED BY <2>9, <2>15
<1> QED BY <1>4, <1>5

\* A waiter takes the turn it was handed.
LEMMA TurnComesKeeps ==
  ASSUME IInv, Shapes', NEW b \in Bursts, turnComes(b)
  PROVE  IInv'
<1> USE DEF IInv
<1>1. /\ b \in handed /\ handed' = handed \ {b} /\ busy' = busy /\ waiting' = waiting
      /\ burst'[b].pc = "holding" /\ \A d \in Bursts : d # b => burst'[d] = burst[d]
  BY DEF turnComes, Go, Shapes
<1>2. \A d \in Bursts : Owns(d)' <=> Owns(d) BY <1>1 DEF Owns
<1>3. Owner' BY <1>1, <1>2 DEF Owner
<1>4. \A e \in Classes : \A i \in DOMAIN waiting[e] :
        waiting[e][i] \in Bursts /\ waiting[e][i] # b
  BY <1>1 DEF Shapes, Queues
<1>5. Queues' BY <1>1, <1>4 DEF Queues, Shapes, Parked
<1> QED BY <1>3, <1>5

-----------------------------------------------------------------------------
(* Every step.                                                             *)

LEMMA PassOnShapes ==
  ASSUME Shapes, NEW b \in Bursts, NEW rest \in SUBSET Bursts, passOn(rest)
  PROVE  /\ busy' \in BOOLEAN /\ handed' \subseteq Bursts
         /\ waiting' \in [Classes -> Seq(Bursts)]
<1> DEFINE c == FirstClass
<1>1. c \in Classes /\ waiting[c] \in Seq(Bursts) BY DEF FirstClass, Classes, Shapes
<1> HIDE DEF c
<1>2. CASE waiting[c] = <<>> BY <1>2 DEF passOn, Shapes, c
<1>3. CASE waiting[c] # <<>>
  <2>1. Head(waiting[c]) \in Bursts /\ Tail(waiting[c]) \in Seq(Bursts)
    BY <1>1, <1>3, HeadTailProperties
  <2>2. /\ handed' = rest \cup {Head(waiting[c])} /\ busy' = busy
        /\ waiting' = [waiting EXCEPT ![c] = Tail(waiting[c])]
    BY <1>3 DEF passOn, c
  <2> QED BY <1>1, <2>1, <2>2 DEF Shapes
<1> QED BY <1>2, <1>3

Results == {"none", "complete", "cancelled", "left", "failed"}
PCs     == Apart \cup Parked \cup Holding

\* What a step of one burst may do to the bursts' own state.
LEMMA BurstMoves ==
  ASSUME Shapes, NEW b \in Bursts, burstChunks(b)
  PROVE  /\ burst' \in [Bursts -> [pc : PCs, chunk : Nat, absent : BOOLEAN, res : Results]]
         /\ \A d \in Bursts : d # b => burst'[d] = burst[d]
<1> DEFINE R == [pc : PCs, chunk : Nat, absent : BOOLEAN, res : Results]
<1>1. burst \in [Bursts -> R] BY DEF Shapes, PCs, Results
<1>2. \A x \in PCs : Go(b, x) =>
        burst' \in [Bursts -> R] /\ \A d \in Bursts : d # b => burst'[d] = burst[d]
  BY <1>1 DEF Go
<1>3. \A x \in Results : End(b, x) =>
        burst' \in [Bursts -> R] /\ \A d \in Bursts : d # b => burst'[d] = burst[d]
  BY <1>1 DEF End, PCs, Apart
<1>4. ASSUME NEW seen, NEW ok \in PCs, NEW gone \in PCs, stillWatched(b, seen, ok, gone)
      PROVE  burst' \in [Bursts -> R] /\ \A d \in Bursts : d # b => burst'[d] = burst[d]
  BY <1>1, <1>2, <1>4 DEF stillWatched
<1>5. /\ {"chunk", "keep", "acquire", "left", "done"} \subseteq PCs
      /\ {"waiting", "withdraw", "holding", "fetch", "give"} \subseteq PCs
      /\ {"complete", "cancelled", "left", "failed"} \subseteq Results
  BY DEF PCs, Results, Apart, Parked, Holding
<1>6. CASE nextChunk(b)
  <2>1. CASE burst' = [burst EXCEPT ![b].chunk = @ + 1] BY <1>1, <2>1
  <2> QED BY <1>2, <1>3, <1>5, <1>6, <2>1 DEF nextChunk
<1>7. CASE keep(b) BY <1>4, <1>5, <1>7 DEF keep
<1>8. CASE leaveBurst(b) BY <1>3, <1>5, <1>8 DEF leaveBurst
<1>9. CASE acquire(b) BY <1>2, <1>5, <1>9 DEF acquire
<1>10. CASE turnComes(b) BY <1>2, <1>5, <1>10 DEF turnComes
<1>11. CASE giveUp(b) BY <1>2, <1>5, <1>11 DEF giveUp
<1>12. CASE withdraw(b) BY <1>3, <1>5, <1>12 DEF withdraw
<1>13. CASE keepHolding(b) BY <1>2, <1>4, <1>5, <1>13 DEF keepHolding
<1>14. CASE giveBack(b) BY <1>3, <1>5, <1>14 DEF giveBack
<1>15. CASE fetchChunk(b)
  <2>1. CASE burst' = [burst EXCEPT ![b].pc = "chunk", ![b].chunk = @ + 1] BY <1>1, <1>5, <2>1
  <2> QED BY <1>3, <1>5, <1>15, <2>1 DEF fetchChunk
<1> QED BY <1>6, <1>7, <1>8, <1>9, <1>10, <1>11, <1>12, <1>13, <1>14, <1>15 DEF burstChunks
LEMMA StepShapes ==
  ASSUME IInv, NEW b \in Bursts, burstChunks(b)
  PROVE  Shapes'
<1> USE DEF IInv
<1>1. /\ busy' \in BOOLEAN /\ handed' \subseteq Bursts
      /\ waiting' \in [Classes -> Seq(Bursts)]
  <2>1. CASE acquire(b)
    <3>1. class(b) \in Classes /\ waiting[class(b)] \in Seq(Bursts)
      BY DEF class, Classes, Shapes
    <3>2. Append(waiting[class(b)], b) \in Seq(Bursts) BY <3>1, AppendProperties
    <3> QED BY <2>1, <3>1, <3>2 DEF acquire, Shapes
  <2>2. CASE turnComes(b) BY <2>2 DEF turnComes, Shapes
  <2>3. CASE withdraw(b)
    <3> DEFINE q == waiting[class(b)]
    <3>1. class(b) \in Classes /\ q \in Seq(Bursts) BY DEF class, Classes, Shapes
    <3>2. CASE passOn(handed \ {b}) BY <3>2, PassOnShapes DEF Shapes
    <3>3. CASE \E i \in DOMAIN q : /\ waiting' = [waiting EXCEPT ![class(b)] = RemoveAt(q, i)]
                                   /\ UNCHANGED <<busy, handed>>
      <4>1. PICK i \in DOMAIN q : /\ waiting' = [waiting EXCEPT ![class(b)] = RemoveAt(q, i)]
                                  /\ UNCHANGED <<busy, handed>>
        BY <3>3
      <4>2. i \in 1..Len(q) BY <3>1, LenProperties
      <4>3. RemoveAt(q, i) \in Seq(Bursts) BY <3>1, <4>2, RemoveAtProperties
      <4> QED BY <3>1, <4>1, <4>3 DEF Shapes
    <3> QED BY <2>3, <3>2, <3>3 DEF withdraw
  <2>4. CASE giveBack(b) \/ fetchChunk(b)
    <3>1. passOn(handed) BY <2>4 DEF giveBack, fetchChunk, release
    <3> QED BY <3>1, PassOnShapes DEF Shapes
  <2>5. CASE UNCHANGED gate BY <2>5 DEF gate, Shapes
  <2> QED BY <2>1, <2>2, <2>3, <2>4, <2>5
        DEF burstChunks, nextChunk, keep, leaveBurst, giveUp, keepHolding
<1> QED BY <1>1, BurstMoves DEF Shapes, PCs, Results

LEMMA StepIInv ==
  ASSUME GateAssumption, IInv, [NextGate]_bgvars
  PROVE  IInv'
<1> USE DEF IInv
<1>1. CASE UNCHANGED <<busy, waiting, handed, burst>>
  BY <1>1 DEF Shapes, Queues, Owner, Owns
<1>2. ASSUME NEW b \in Bursts, burstChunks(b)
      PROVE  IInv'
  <2>1. Shapes' BY <1>2, StepShapes
  <2>2. \A d \in Bursts : d # b => burst'[d] = burst[d] BY <1>2, BurstMoves
  <2>3. ASSUME UNCHANGED gate,
               burst'[b].pc \in Parked <=> burst[b].pc \in Parked,
               burst'[b].pc \in Holding <=> burst[b].pc \in Holding
        PROVE  IInv'
    <3>1. \A d \in Bursts : /\ burst'[d].pc \in Parked <=> burst[d].pc \in Parked
                            /\ burst'[d].pc \in Holding <=> burst[d].pc \in Holding
      BY <2>2, <2>3
    <3> QED BY <2>1, <2>3, <3>1, SameKind
  <2>4. ASSUME burst[b].pc \in Holding, release, burst'[b].pc \in Apart
        PROVE  IInv'
    <3>1. b \notin handed /\ Owns(b) BY <2>4 DEF Queues, Parked, Holding, Owns
    <3>2. handed \ {b} = handed BY <3>1
    <3>3. \A c \in Classes : \A i \in DOMAIN waiting[c] : waiting[c][i] # b
      BY <2>4 DEF Queues, Parked, Holding
    <3> QED BY <2>1, <2>2, <2>4, <3>1, <3>2, <3>3, PassOnKeeps DEF release
  <2>5. CASE acquire(b) BY <2>1, <2>5, AcquireKeeps
  <2>6. CASE turnComes(b) BY <2>1, <2>6, TurnComesKeeps
  <2>7. CASE withdraw(b)
    <3> DEFINE q == waiting[class(b)]
    <3>1. burst[b].pc = "withdraw" /\ burst'[b].pc \in Apart
      BY <2>7 DEF withdraw, End, Shapes, Apart
    <3>2. CASE \E i \in DOMAIN q : /\ q[i] = b /\ UNCHANGED <<busy, handed>>
                                   /\ waiting' = [waiting EXCEPT ![class(b)] = RemoveAt(q, i)]
      BY <2>1, <2>2, <3>1, <3>2, LeaveKeeps
    <3>3. CASE (\A i \in DOMAIN q : q[i] # b) /\ passOn(handed \ {b})
      <4>1. b \in handed BY <3>1, <3>3 DEF Queues, Parked
      <4>2. Owns(b) BY <4>1 DEF Owns
      <4>3. \A c \in Classes : \A i \in DOMAIN waiting[c] : waiting[c][i] # b
        BY <3>3 DEF Queues
      <4> QED BY <2>1, <2>2, <3>1, <3>3, <4>2, <4>3, PassOnKeeps
    <3> QED BY <2>7, <3>2, <3>3 DEF withdraw
  <2>8. CASE giveBack(b)
    <3>1. burst[b].pc \in Holding /\ burst'[b].pc \in Apart
      BY <2>8 DEF giveBack, End, Shapes, Apart, Holding
    <3> QED BY <2>4, <2>8, <3>1 DEF giveBack
  <2>9. CASE fetchChunk(b)
    <3>1. burst[b].pc \in Holding /\ burst'[b].pc \in Apart
      BY <2>9 DEF fetchChunk, End, Shapes, Apart, Holding
    <3> QED BY <2>4, <2>9, <3>1 DEF fetchChunk
  <2>10. CASE nextChunk(b)
    <3>1. burst[b].pc \in Apart /\ burst'[b].pc \in Apart
      BY <2>10 DEF nextChunk, Go, End, Shapes, Apart
    <3> QED BY <2>3, <2>10, <3>1 DEF nextChunk, Apart, Parked, Holding
  <2>11. CASE keep(b)
    <3>1. burst[b].pc \in Apart /\ burst'[b].pc \in Apart
      BY <2>11 DEF keep, stillWatched, Go, Shapes, Apart
    <3> QED BY <2>3, <2>11, <3>1 DEF keep, Apart, Parked, Holding
  <2>12. CASE leaveBurst(b)
    <3>1. burst[b].pc \in Apart /\ burst'[b].pc \in Apart
      BY <2>12 DEF leaveBurst, End, Shapes, Apart
    <3> QED BY <2>3, <2>12, <3>1 DEF leaveBurst, Apart, Parked, Holding
  <2>13. CASE giveUp(b)
    <3>1. burst[b].pc \in Parked /\ burst'[b].pc \in Parked
      BY <2>13 DEF giveUp, Go, Shapes, Parked
    <3> QED BY <2>3, <2>13, <3>1 DEF giveUp, Parked, Holding
  <2>14. CASE keepHolding(b)
    <3>1. burst[b].pc \in Holding /\ burst'[b].pc \in Holding
      BY <2>14 DEF keepHolding, stillWatched, Go, Shapes, Holding
    <3> QED BY <2>3, <2>14, <3>1 DEF keepHolding, Parked, Holding
  <2> QED BY <1>2, <2>5, <2>6, <2>7, <2>8, <2>9, <2>10, <2>11, <2>12, <2>13, <2>14
          DEF burstChunks
<1> QED BY <1>1, <1>2 DEF NextGate, Viewer, StopBursts, gate, bgvars

\* The gate's inductive invariant, for every set of bursts: a parked burst is
\* queued once or handed the turn, and a busy gate has one owner.
THEOREM Invariant == ASSUME GateAssumption PROVE SpecGate => []IInv
<1>1. InitGate => IInv BY InitIInv
<1>2. IInv /\ [NextGate]_bgvars => IInv' BY StepIInv
<1> QED BY <1>1, <1>2, PTL DEF SpecGate

\* The turn is never lost and never shared, and a free gate has no waiter: a
\* release that finds a waiter, a waiter whose context ends while the turn is on
\* its way, and a burst that fails all pass it on (burstGate.acquire, release).
THEOREM TurnOwned == ASSUME GateAssumption PROVE SpecGate => []TurnIsOwned
<1>1. IInv => TurnIsOwned
  <2> SUFFICES ASSUME IInv PROVE TurnIsOwned OBVIOUS
  <2> DEFINE owners == {b \in Bursts : Owns(b)}
  <2>1. CASE busy
    <3>1. PICK b \in Bursts : Owns(b) BY <2>1 DEF IInv, Owner
    <3>2. owners = {b} BY <3>1 DEF IInv, Owner
    <3>3. Cardinality(owners) = 1 BY <3>2, FS_Singleton
    <3> QED BY <2>1, <3>3 DEF TurnIsOwned
  <2>2. CASE ~busy
    <3>1. owners = {} BY <2>2 DEF IInv, Owner
    <3>2. Cardinality(owners) = 0 BY <3>1, FS_EmptySet
    <3> QED BY <2>2, <3>2 DEF TurnIsOwned, IInv, Owner
  <2> QED BY <2>1, <2>2
<1> QED BY <1>1, Invariant, PTL

\* The chunk of a next episode never gets the turn while a read-ahead of a file
\* being played waits for it (release's order).
THEOREM ReadAheadsFirst == ASSUME GateAssumption PROVE SpecGate => PlayingFirst
<1> DEFINE Fair == \A b \in AheadBursts :
             (burst[b].pc = "waiting" /\ b \notin handed /\ b \in handed')
               => waiting["playing"] = <<>>
<1>1. ASSUME GateAssumption, IInv, [NextGate]_bgvars PROVE [Fair]_bgvars
  <2>1. ASSUME NEW rest, passOn(rest), rest \subseteq handed, NEW b \in AheadBursts,
               b \notin handed, b \in handed'
        PROVE  waiting["playing"] = <<>>
    <3> DEFINE c == FirstClass
    <3>1. waiting[c] # <<>> /\ b = Head(waiting[c]) BY <2>1 DEF passOn
    <3>2. c \in Classes /\ waiting[c] \in Seq(Bursts) BY <1>1 DEF FirstClass, Classes, IInv, Shapes
    <3>3. b = waiting[c][1] /\ 1 \in DOMAIN waiting[c]
      BY <3>1, <3>2, HeadTailProperties, LenProperties
    <3>4. class(b) = c BY <1>1, <3>2, <3>3 DEF IInv, Queues
    <3>5. class(b) = "ahead" BY <1>1, <2>1 DEF GateAssumption, class
    <3> QED BY <3>4, <3>5 DEF FirstClass
  <2>2. ASSUME NEW d \in Bursts, burstChunks(d) PROVE Fair
    <3>1. CASE withdraw(d)
      <4>1. CASE passOn(handed \ {d}) BY <2>1, <4>1
      <4>2. CASE handed' = handed BY <4>2
      <4> QED BY <3>1, <4>1, <4>2 DEF withdraw
    <3>2. CASE giveBack(d) \/ fetchChunk(d) BY <2>1, <3>2 DEF giveBack, fetchChunk, release
    <3>3. CASE handed' \subseteq handed BY <3>3
    <3> QED BY <2>2, <3>1, <3>2, <3>3
          DEF burstChunks, nextChunk, keep, leaveBurst, giveUp, keepHolding, acquire, turnComes, gate
  <2> QED BY <1>1, <2>2 DEF NextGate, Viewer, StopBursts, gate, bgvars
<1> QED BY <1>1, Invariant, PTL DEF SpecGate, PlayingFirst

-----------------------------------------------------------------------------
(* The viewer.                                                             *)

\* Every word against a viewer goes back to a time when the viewer was away.
Evidence ==
  /\ watching \subseteq Playing
  /\ answer \in [age : {"none", "fresh", "stale"}, listed : SUBSET Playing]
  /\ Playing \ watching \subseteq everLeft
  /\ answer.age = "fresh" => Playing \ answer.listed \subseteq everLeft
  /\ \A b \in Playing : burst[b].pc \in {"left", "give"} => b \in everLeft
  /\ LeftOnEvidence

LEMMA StepEvidence ==
  ASSUME IInv, Evidence, [NextGate]_bgvars
  PROVE  Evidence'
<1> USE DEF IInv
<1>1. \A b \in Playing : b \in Bursts BY DEF Bursts
<1>2. CASE UNCHANGED bgvars BY <1>2 DEF bgvars, Evidence, LeftOnEvidence
<1>3. CASE StopBursts BY <1>3 DEF StopBursts, plex, Evidence, LeftOnEvidence
<1>4. ASSUME NEW d \in Bursts, Viewer(d) PROVE Evidence'
  BY <1>4 DEF Viewer, Evidence, LeftOnEvidence
<1>5. ASSUME NEW d \in Bursts, burstChunks(d) PROVE Evidence'
  <2>1. \A b \in Bursts : b # d => burst'[b] = burst[b] BY <1>5, BurstMoves
  <2>2. everLeft' = everLeft /\ watching' = watching
    BY <1>5 DEF burstChunks, nextChunk, keep, leaveBurst, acquire, turnComes, giveUp, withdraw,
                keepHolding, giveBack, fetchChunk, plex
  <2>3. /\ answer' \in [age : {"none", "fresh", "stale"}, listed : SUBSET Playing]
        /\ answer'.age = "fresh" => Playing \ answer'.listed \subseteq everLeft
    <3>1. CASE keep(d) BY <3>1 DEF keep, refresh, Evidence
    <3>2. CASE answer' = answer BY <3>2 DEF Evidence
    <3> QED BY <1>5, <3>1, <3>2
          DEF burstChunks, nextChunk, leaveBurst, acquire, turnComes, giveUp, withdraw,
              keepHolding, giveBack, fetchChunk, plex
  <2>4. ASSUME d \in Playing PROVE
          /\ burst'[d].pc \in {"left", "give"} => d \in everLeft
          /\ burst'[d].res = "left" => d \in everLeft
    <3>1. /\ burst[d].pc \in {"left", "give"} => d \in everLeft
          /\ burst[d].res = "left" => d \in everLeft
      BY <2>4 DEF Evidence, LeftOnEvidence
    <3>2. \A x : Go(d, x) => burst'[d].pc = x /\ burst'[d].res = burst[d].res
      BY DEF Go, Shapes
    <3>3. \A x : End(d, x) => burst'[d].pc = "done" /\ burst'[d].res = x
      BY DEF End, Shapes
    <3>4. ASSUME NEW a, NEW ok, NEW gone, stillWatched(d, watchState(d, a), ok, gone),
                 a.age = "fresh" => Playing \ a.listed \subseteq everLeft,
                 ok \notin {"left", "give"}
          PROVE  /\ burst'[d].pc \in {"left", "give"} => d \in everLeft
                 /\ burst'[d].res = "left" => d \in everLeft
      <4>1. burst'[d].res = burst[d].res BY <3>2, <3>4 DEF stillWatched, Shapes
      <4>2. watchState(d, a) = "absent" => d \in everLeft BY <2>4, <3>4 DEF watchState
      <4>3. watchState(d, a) # "absent" => burst'[d].pc = ok BY <3>4 DEF stillWatched, Shapes
      <4> QED BY <3>1, <3>4, <4>1, <4>2, <4>3
    <3>5. CASE keep(d) BY <2>3, <3>4, <3>5 DEF keep
    <3>6. CASE keepHolding(d)
      <4>1. answer.age = "fresh" => Playing \ answer.listed \subseteq everLeft BY DEF Evidence
      <4> QED BY <2>4, <3>4, <3>6, <4>1 DEF keepHolding
    <3>7. CASE leaveBurst(d) \/ giveBack(d)
      BY <3>1, <3>3, <3>7 DEF leaveBurst, giveBack
    <3>8. CASE nextChunk(d)
      <4>1. CASE burst' = [burst EXCEPT ![d].chunk = @ + 1] BY <3>1, <4>1 DEF Shapes
      <4> QED BY <3>1, <3>2, <3>3, <3>8, <4>1 DEF nextChunk
    <3>9. CASE acquire(d) \/ turnComes(d) \/ giveUp(d) \/ withdraw(d)
      BY <3>1, <3>2, <3>3, <3>9 DEF acquire, turnComes, giveUp, withdraw
    <3>10. CASE fetchChunk(d)
      <4>1. CASE burst' = [burst EXCEPT ![d].pc = "chunk", ![d].chunk = @ + 1]
        BY <3>1, <4>1 DEF Shapes
      <4> QED BY <3>1, <3>3, <3>10, <4>1 DEF fetchChunk
    <3> QED BY <1>5, <3>5, <3>6, <3>7, <3>8, <3>9, <3>10 DEF burstChunks
  <2> QED BY <1>1, <2>1, <2>2, <2>3, <2>4 DEF Evidence, LeftOnEvidence
<1> QED BY <1>2, <1>3, <1>4, <1>5 DEF NextGate

\* A read-ahead is abandoned only for a viewer who has been away: failures and
\* old answers of Plex never stop one (viewerWatch.left, watchState).
THEOREM AbandonedOnEvidence == ASSUME GateAssumption PROVE SpecGate => []LeftOnEvidence
<1>1. InitGate => Evidence BY DEF InitGate, Evidence, LeftOnEvidence, Bursts
<1>2. IInv /\ Evidence /\ [NextGate]_bgvars => Evidence' BY StepEvidence
<1>3. Evidence => LeftOnEvidence BY DEF Evidence
<1> QED BY <1>1, <1>2, <1>3, Invariant, PTL DEF SpecGate
=============================================================================
