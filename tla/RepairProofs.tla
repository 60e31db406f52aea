--------------------------- MODULE RepairProofs -----------------------------
(***************************************************************************)
(* Damage and its repair, in three parts.  One segment, for any number of  *)
(* reads and fetches without a viewer, of attempts and of timeouts: what a *)
(* slot on disk holds of zero-fill is marked as padding, and a finished    *)
(* repair is not undone by a pad that was under way.  A PAR2 pass, for any *)
(* release: its patches hold what was posted.  The guard on re-grabs, for  *)
(* any number of releases and restarts: it bounds all automatic callers    *)
(* together.                                                               *)
(***************************************************************************)
EXTENDS MCSegments, MCRepairSweep, FiniteSetTheorems, TLAPS

-----------------------------------------------------------------------------
(* One segment: the inductive invariant.                                   *)

\* The evictor and a repair do not meet.
Apart == world.evict = 0 \/ ~world.repair

\* Where the leader of the promise is, and where it fills the slot.
Leading == {"mark", "marked", "evicted", "other", "refill", "own", "get", "judge", "missing",
            "decide", "commit", "lay", "close", "unregister"}
Asking == {"refill", "own", "get", "judge", "missing", "decide"}
Filling(a) == pc[a] \in Asking \/ (pc[a] = "commit" /\ what[a] # "patch")

Shapes ==
  /\ DOMAIN pc = Actor /\ DOMAIN rec = Actor /\ DOMAIN cont = Actor /\ DOMAIN what = Actor
  /\ DOMAIN e = Actor /\ DOMAIN inFlight = {"by", "closed", "err"}
  /\ state \in {"empty", "ondisk", "fetching", "failed", "evicting"}

\* Nobody recovers a failed slot, so whoever fills the slot leads.
Leads ==
  \A a \in Actor :
    /\ rec[a] = "no" /\ cont[a] \in {"none", "fetch"} /\ pc[a] # "remark"
    /\ pc[a] \in Leading => inFlight.by = {a}

\* A slot that is being filled is not on disk, nor the evictor's.
Owned == \A a \in Actor : Filling(a) => state \in {"empty", "fetching"}

\* What is about to be committed is what was written.
Written ==
  \A a \in Actor :
    /\ pc[a] = "commit" => \/ what[a] = "pad" /\ bytes = "zeros" /\ padded
                           \/ what[a] = "real" /\ bytes = "real"
                           \/ what[a] = "patch" /\ bytes = "patch" /\ world.evict = 0
    /\ pc[a] = "lay" => padded

\* The evictor holds the slot exactly while it is Evicting.
Evictor ==
  /\ state = "evicting" <=> ev \in {"reserved", "punch", "free"}
  /\ world.evict = 0 => ev = "idle" /\ evictions = 0
  /\ evictions \in Nat

\* Without a repair there is no patch; a repair that is through is known.
Repair ==
  /\ ~world.repair => repair = "none"
  /\ repair \in {"marked", "done"} => patched

\* Zeros that are, or may be put back, on disk are marked.
Zeros == state \in {"ondisk", "evicting"} /\ bytes = "zeros" => padded

\* Zeros that reach the disk after the repair are looked at again.
Looked ==
  world.evict = 0 /\ repair = "done" /\ state = "ondisk" /\ bytes = "zeros"
    => \E a \in Actor : pc[a] = "lay"

Safe == Shapes /\ Leads /\ Owned /\ Written /\ Evictor /\ Repair /\ Zeros /\ Looked

\* The inductive invariant.
SegInv == world \in World /\ (Unviewed /\ Apart => Safe)

LEMMA SegInvImplies == SegInv => (Unviewed => ZerosAreMarked /\ RepairIsServed)
BY DEF SegInv, Safe, Apart, Zeros, Looked, ZerosAreMarked, RepairIsServed

LEMMA SegInvInit == Init => SegInv
<1> SUFFICES ASSUME Init PROVE world \in World /\ Safe BY DEF SegInv
<1>1. Shapes BY DEF Init, Shapes, NoPromise
<1>2. Leads /\ Owned /\ Written BY DEF Init, Leads, Owned, Written, Filling, Leading, Asking
<1>3. Evictor /\ Zeros /\ Looked BY DEF Init, Evictor, Zeros, Looked
<1>4. Repair BY DEF Init, Repair
<1>5. world \in World BY DEF Init
<1> QED BY <1>1, <1>2, <1>3, <1>4, <1>5 DEF Safe

-----------------------------------------------------------------------------
(* Steps of an actor.                                                      *)

\* What no step of an actor changes.
Around == UNCHANGED <<world, patched, ev, evictions, repair>>

\* A slot in states an actor may leave it in without filling it.
Left(a, l) ==
  \/ state' = state
  \/ state # "evicting" /\ state' \in {"empty", "fetching"}
  \/ pc[a] \in Asking /\ l \notin Asking /\ state' = "failed"

\* There is one leader.
LEMMA OneLeader ==
  ASSUME Leads, NEW a \in Actor, NEW b \in Actor, pc[a] \in Leading, pc[b] \in Leading
  PROVE  a = b
BY DEF Leads

\* An actor that is filling leads.
LEMMA FillingLeads ==
  ASSUME NEW a, Filling(a) \/ pc[a] \in {"commit", "lay"}
  PROVE  pc[a] \in Leading
BY DEF Filling, Leading, Asking

\* An actor goes on without touching the bytes.
LEMMA Move ==
  ASSUME Safe, Around, NEW a \in Actor, NEW l, pc' = [pc EXCEPT ![a] = l],
         UNCHANGED <<bytes, what, rec, inFlight, padded>>, DOMAIN e' = Actor,
         DOMAIN cont' = Actor, \A b \in Actor : cont'[b] \in {"none", "fetch"},
         Left(a, l),
         l \notin {"remark", "commit", "lay"},
         l \in Leading => pc[a] \in Leading,
         l \in Asking => pc[a] \in Asking \/ state' \in {"empty", "fetching"},
         pc[a] = "lay" => repair # "done" \/ state' # "ondisk"
  PROVE  Safe'
<1>1. /\ DOMAIN pc = Actor /\ pc'[a] = l /\ \A b \in Actor : b # a => pc'[b] = pc[b]
      /\ DOMAIN pc' = Actor
  BY DEF Safe, Shapes
<1>2. state' \in {"empty", "ondisk", "fetching", "failed", "evicting"}
  BY DEF Safe, Shapes, Left
<1>3. Shapes' BY <1>1, <1>2 DEF Safe, Shapes
<1>4. Leads' BY <1>1 DEF Safe, Leads
<1>5. ASSUME NEW b \in Actor, Filling(b)' PROVE state' \in {"empty", "fetching"}
  <2>1. CASE b = a
    <3>1. (pc[a] \in Asking /\ l \in Asking) \/ state' \in {"empty", "fetching"}
      BY <1>1, <1>5, <2>1 DEF Filling
    <3>2. pc[a] \in Asking => state \in {"empty", "fetching"} BY DEF Safe, Owned, Filling
    <3> QED BY <3>1, <3>2 DEF Left
  <2>2. CASE b # a
    <3>1. Filling(b) BY <1>1, <1>5, <2>2 DEF Filling
    <3>2. state \in {"empty", "fetching"} BY <3>1 DEF Safe, Owned
    <3>3. pc[a] \notin Asking
      <4>1. pc[b] \in Leading BY <3>1, FillingLeads
      <4>2. pc[a] \notin Leading BY <2>2, <4>1, OneLeader DEF Safe
      <4> QED BY <4>2 DEF Leading, Asking
    <3> QED BY <3>2, <3>3 DEF Left
  <2> QED BY <2>1, <2>2
<1>6. Owned' BY <1>5 DEF Owned
<1>7. Written' BY <1>1 DEF Safe, Written, Around
<1>8. state = "evicting" <=> state' = "evicting"
  <2>1. pc[a] \in Asking => state # "evicting" BY DEF Safe, Owned, Filling
  <2> QED BY <2>1 DEF Left
<1>9. Evictor' BY <1>8 DEF Safe, Evictor, Around
<1>10. Repair' BY DEF Safe, Repair, Around
<1>11. state' \in {"ondisk", "evicting"} => state' = state BY DEF Left
<1>12. Zeros' BY <1>11 DEF Safe, Zeros
<1>13. Looked'
  <2> SUFFICES ASSUME world.evict = 0, repair = "done", state' = "ondisk", bytes = "zeros"
               PROVE  \E b \in Actor : pc'[b] = "lay"
    BY DEF Looked, Around
  <2>1. PICK b \in Actor : pc[b] = "lay" BY <1>11 DEF Safe, Looked
  <2> QED BY <1>1, <2>1
<1> QED BY <1>3, <1>4, <1>6, <1>7, <1>9, <1>10, <1>12, <1>13 DEF Safe

\* The leader writes what it will commit.
LEMMA Write ==
  ASSUME Safe, Around, NEW a \in Actor, NEW b, NEW w,
         write(a, b, w), UNCHANGED <<state, rec, cont, inFlight>>, DOMAIN e' = Actor,
         \/ pc[a] \in Asking /\ w = "pad" /\ b = "zeros" /\ padded'
         \/ pc[a] \in Asking /\ w = "real" /\ b = "real" /\ padded' = padded
         \/ /\ pc[a] \in Asking \cup {"lay"} /\ w = "patch" /\ b = "patch" /\ padded' = padded
            /\ world.evict = 0
  PROVE  Safe'
<1>1. /\ DOMAIN pc' = Actor /\ pc'[a] = "commit" /\ \A c \in Actor : c # a => pc'[c] = pc[c]
      /\ DOMAIN what' = Actor /\ what'[a] = w /\ \A c \in Actor : c # a => what'[c] = what[c]
      /\ bytes' = b
  BY DEF Safe, Shapes, write, goto
<1>2. pc[a] \in Leading BY DEF Asking, Leading
<1>3. \A c \in Actor : c # a => pc'[c] \notin Leading BY <1>1, <1>2, OneLeader DEF Safe
<1>4. Shapes' BY <1>1 DEF Safe, Shapes
<1>5. Leads' BY <1>1, <1>2, <1>3 DEF Safe, Leads
<1>6. pc[a] \in Asking => state \in {"empty", "fetching"} BY DEF Safe, Owned, Filling
<1>7. Owned'
  <2> SUFFICES ASSUME NEW c \in Actor, Filling(c)' PROVE state' \in {"empty", "fetching"}
    BY DEF Owned
  <2>1. pc'[c] \in Leading BY DEF Filling, Leading, Asking
  <2>2. c = a BY <1>3, <2>1
  <2>3. w # "patch" BY <1>1, <2>2 DEF Filling, Asking
  <2> QED BY <1>6, <2>3
<1>8. Written'
  <2> SUFFICES ASSUME NEW c \in Actor, pc'[c] \in {"commit", "lay"}
               PROVE  c = a
    BY <1>1 DEF Written, Around
  <2> QED BY <1>3 DEF Leading
<1>9. Evictor' BY DEF Safe, Evictor, Around
<1>10. Repair' BY DEF Safe, Repair, Around
<1>11. Zeros' BY <1>1, <1>6 DEF Zeros
<1>12. Looked' BY <1>1, <1>6 DEF Looked
<1> QED BY <1>4, <1>5, <1>7, <1>8, <1>9, <1>10, <1>11, <1>12 DEF Safe

-----------------------------------------------------------------------------
(* Each action.                                                            *)

LEMMA ReadKeeps ==
  ASSUME Safe, NEW a \in Actor,
         \/ Begin(a) \/ Ensure(a) \/ Followed(a) \/ Evicted(a) \/ Other(a) \/ Clear(a)
         \/ Wait(a) \/ ReadCheck(a) \/ Read(a)
  PROVE  Safe'
<1>1. /\ Around /\ UNCHANGED <<bytes, what, rec, inFlight, padded, state, cont>>
      /\ DOMAIN e' = Actor
  BY DEF Safe, Shapes, Begin, Ensure, Followed, Evicted, Other, Clear, Wait, ReadCheck, Read,
         End, with, slot, env, local, Around
<1>2. \A b \in Actor : cont'[b] \in {"none", "fetch"} BY <1>1 DEF Safe, Leads
<1>3. DOMAIN cont' = Actor BY <1>1 DEF Safe, Shapes
<1>4. cont[a] \in {"none", "fetch"} BY DEF Safe, Leads
<1>5. PICK l : pc' = [pc EXCEPT ![a] = l] /\ l \notin {"remark", "commit", "lay"} \cup Asking
                 /\ (l \in Leading => pc[a] \in Leading) /\ pc[a] # "lay"
  BY <1>4 DEF Begin, Ensure, Followed, Evicted, Other, Clear, Wait, ReadCheck, Read, End, goto,
              Leading, Asking
<1>6. Left(a, l) BY <1>1 DEF Left
<1> QED BY <1>1, <1>2, <1>3, <1>5, <1>6, Move

LEMMA FetchKeeps ==
  ASSUME Safe, Unviewed, NEW a \in Actor,
         \/ FetchCheck(a) \/ Refail(a) \/ FetchGone(a) \/ Marked(a) \/ Return(a)
  PROVE  Safe'
<1>0. ~recoverable(a) BY DEF Unviewed, recoverable
<1>1. /\ Around /\ UNCHANGED <<bytes, what, inFlight, padded, state>>
      /\ DOMAIN e' = Actor
  BY DEF Safe, Shapes, FetchCheck, Refail, FetchGone, Marked, Return,
         End, with, slot, env, local, Around
<1>2. state \in {"empty", "ondisk", "fetching", "failed", "evicting"} BY DEF Safe, Shapes
<1>3. rec' = rec /\ (cont' = cont \/ cont' = [cont EXCEPT ![a] = "fetch"])
  BY <1>0, <1>2 DEF FetchCheck, Refail, FetchGone, Marked, Return, local
<1>4. DOMAIN cont' = Actor /\ \A b \in Actor : cont'[b] \in {"none", "fetch"}
  BY <1>3 DEF Safe, Shapes, Leads
<1>5. PICK l : pc' = [pc EXCEPT ![a] = l] /\ l \notin {"remark", "commit", "lay"}
                 /\ (l \in Leading => pc[a] \in Leading) /\ pc[a] # "lay"
                 /\ (l \in Asking => state \in {"empty", "fetching"})
  BY <1>0, <1>2 DEF FetchCheck, Refail, FetchGone, Marked, Return, End, goto, Leading, Asking
<1>6. Left(a, l) BY <1>1 DEF Left
<1> QED BY <1>1, <1>3, <1>4, <1>5, <1>6, Move

LEMMA RegisterKeeps == ASSUME Safe, NEW a \in Actor, Register(a) PROVE Safe'
<1>1. CASE inFlight # NoPromise
  <2>1. /\ Around /\ UNCHANGED <<bytes, what, rec, inFlight, padded, state, cont>>
        /\ DOMAIN e' = Actor
    BY <1>1 DEF Safe, Shapes, Register, with, slot, env, Around
  <2>2. DOMAIN cont' = Actor /\ \A b \in Actor : cont'[b] \in {"none", "fetch"}
    BY <2>1 DEF Safe, Shapes, Leads
  <2>3. PICK l \in {"follow", "followed"} : pc' = [pc EXCEPT ![a] = l] /\ pc[a] # "lay"
    BY <1>1 DEF Register, goto
  <2>4. Left(a, l) BY <2>1 DEF Left
  <2> QED BY <2>1, <2>2, <2>3, <2>4, Move DEF Leading, Asking
<1>2. CASE inFlight = NoPromise
  <2>1. /\ Around /\ UNCHANGED <<bytes, what, padded, state, cont, e>>
        /\ pc' = [pc EXCEPT ![a] = "mark"] /\ rec' = [rec EXCEPT ![a] = "no"]
        /\ inFlight' = [NoPromise EXCEPT !.by = {a}]
    BY <1>2 DEF Register, goto, slot, env, Around
  <2>2. /\ DOMAIN pc' = Actor /\ pc'[a] = "mark" /\ \A b \in Actor : b # a => pc'[b] = pc[b]
        /\ DOMAIN rec' = Actor /\ \A b \in Actor : rec'[b] = "no"
    BY <2>1 DEF Safe, Shapes, Leads
  <2>3. inFlight'.by = {a} /\ DOMAIN inFlight' = {"by", "closed", "err"} BY <2>1 DEF NoPromise
  <2>4. \A b \in Actor : pc[b] \notin Leading BY <1>2 DEF Safe, Leads, NoPromise
  <2>5. Shapes' BY <2>1, <2>2, <2>3 DEF Safe, Shapes
  <2>6. Leads' BY <2>1, <2>2, <2>3, <2>4 DEF Safe, Leads
  <2>7. Owned' /\ Written' BY <2>2, <2>4 DEF Owned, Written, Filling, Asking, Leading
  <2>8. Evictor' /\ Zeros' BY <2>1 DEF Safe, Evictor, Zeros, Around
  <2>9. Repair' BY <2>1 DEF Safe, Repair, Around
  <2>10. Looked' BY <2>1, <2>4 DEF Safe, Looked, Around, Leading
  <2> QED BY <2>5, <2>6, <2>7, <2>8, <2>9, <2>10 DEF Safe
<1> QED BY <1>1, <1>2

LEMMA SlotKeeps ==
  ASSUME Safe, NEW a \in Actor,
         \/ Mark(a) \/ Reset(a) \/ GetCancelled(a) \/ GetError(a) \/ GetTimeout(a) \/ Judge(a)
         \/ Decline(a)
  PROVE  Safe'
<1>1. /\ Around /\ UNCHANGED <<bytes, what, rec, inFlight, padded, cont>>
      /\ DOMAIN e' = Actor
  BY DEF Safe, Shapes, Mark, Reset, GetCancelled, GetError, GetTimeout, Judge, Decline,
         releaseFetching, with, slot, env, local, Around
<1>2. DOMAIN cont' = Actor /\ \A b \in Actor : cont'[b] \in {"none", "fetch"}
  BY <1>1 DEF Safe, Shapes, Leads
<1>3. rec[a] = "no" /\ cont[a] \in {"none", "fetch"} BY DEF Safe, Leads
<1>4. PICK l : /\ pc' = [pc EXCEPT ![a] = l] /\ l \notin {"remark", "commit", "lay"}
               /\ (l \in Leading => pc[a] \in Leading) /\ pc[a] # "lay" /\ Left(a, l)
               /\ (l \in Asking => pc[a] \in Asking \/ state' \in {"empty", "fetching"})
  <2>1. CASE Mark(a) BY <2>1 DEF Mark, goto, Leading, Asking, Left
  <2>2. CASE Reset(a) BY <1>3, <2>2 DEF Reset, goto, Leading, Asking, Left
  <2>3. CASE GetCancelled(a) BY <2>3 DEF GetCancelled, releaseFetching, goto, Leading, Asking, Left
  <2>4. CASE GetError(a) BY <2>4 DEF GetError, goto, Leading, Asking, Left, slot
  <2>5. CASE GetTimeout(a)
    <3>1. pc[a] = "get" /\ \/ state' = state /\ pc' = [pc EXCEPT ![a] = "judge"]
                           \/ releaseFetching(a)
      BY <2>5 DEF GetTimeout, goto
    <3>2. CASE releaseFetching(a)
      BY <3>1, <3>2 DEF releaseFetching, goto, Leading, Asking, Left
    <3> QED BY <3>1, <3>2 DEF Leading, Asking, Left
  <2>6. CASE Judge(a) BY <2>6 DEF Judge, markFailed, goto, Leading, Asking, Left
  <2>7. CASE Decline(a) BY <1>3, <2>7 DEF Decline, markFailed, goto, Leading, Asking, Left
  <2> QED BY <2>1, <2>2, <2>3, <2>4, <2>5, <2>6, <2>7
<1> QED BY <1>1, <1>2, <1>4, Move

LEMMA ReadMissKeeps == ASSUME Safe, NEW a \in Actor, ReadMiss(a) PROVE Safe'
<1>1. /\ Around /\ UNCHANGED <<bytes, what, rec, inFlight, padded, cont>> /\ DOMAIN e' = Actor
  BY DEF Safe, Shapes, ReadMiss, End, with, slot, env, Around
<1>2. DOMAIN cont' = Actor /\ \A b \in Actor : cont'[b] \in {"none", "fetch"}
  BY <1>1 DEF Safe, Shapes, Leads
<1>3. state' = state \/ (state # "evicting" /\ state' = "empty")
  BY DEF ReadMiss, slot
<1>4. PICK l \in {"done", "fetch"} : pc' = [pc EXCEPT ![a] = l] /\ pc[a] # "lay"
  BY DEF ReadMiss, End, goto
<1>5. Left(a, l) BY <1>3 DEF Left
<1> QED BY <1>1, <1>2, <1>4, <1>5, Move DEF Leading, Asking

LEMMA RefillKeeps == ASSUME Safe, NEW a \in Actor, Refill(a) PROVE Safe'
<1>1. /\ Around /\ UNCHANGED <<bytes, what, rec, inFlight, state, cont, e>> /\ pc[a] = "refill"
      /\ pc' = [pc EXCEPT ![a] = "own"]
  BY DEF Refill, goto, env, local, Around
<1>2. /\ DOMAIN pc' = Actor /\ pc'[a] = "own" /\ \A b \in Actor : b # a => pc'[b] = pc[b]
  BY <1>1 DEF Safe, Shapes
<1>3. \A b \in Actor : b # a => pc'[b] \notin Leading
  BY <1>1, <1>2, OneLeader DEF Safe, Leading
<1>4. state \in {"empty", "fetching"} BY <1>1 DEF Safe, Owned, Filling, Asking
<1>5. Shapes' BY <1>1, <1>2 DEF Safe, Shapes
<1>6. Leads' BY <1>1, <1>2 DEF Safe, Leads, Leading
<1>7. Owned' BY <1>1, <1>4 DEF Owned
<1>8. Written' BY <1>2, <1>3 DEF Written, Leading
<1>9. Evictor' /\ Zeros' /\ Looked' BY <1>1, <1>4 DEF Safe, Evictor, Zeros, Looked, Around
<1>10. Repair' BY <1>1 DEF Safe, Repair, Around
<1> QED BY <1>5, <1>6, <1>7, <1>8, <1>9, <1>10 DEF Safe

LEMMA FillKeeps ==
  ASSUME Safe, Apart, NEW a \in Actor, Own(a) \/ GetBody(a) \/ Missing(a) \/ Pad(a) \/ Lay(a)
  PROVE  Safe'
<1>1. /\ Around /\ UNCHANGED <<state, rec, cont, inFlight>> /\ DOMAIN e' = Actor
  BY DEF Safe, Shapes, Own, GetBody, Missing, Pad, Lay, filled, with, env, Around
<1>2. PatchBytes => world.evict = 0 BY DEF Safe, Repair, Apart, PatchBytes
<1>3. rec[a] = "no" BY DEF Safe, Leads
<1> DEFINE Patches == write(a, "patch", "patch") /\ PatchBytes /\ (Own(a) \/ Missing(a) \/ Lay(a))
           Passes ==
             /\ UNCHANGED <<bytes, what, padded>>
             /\ \/ pc[a] = "own" /\ pc' = [pc EXCEPT ![a] = "get"]
                \/ pc[a] = "missing" /\ pc' = [pc EXCEPT ![a] = "decide"]
                \/ pc[a] = "lay" /\ ~servable /\ pc' = [pc EXCEPT ![a] = "close"]
<1>4. CASE Patches
  <2>1. pc[a] \in Asking \cup {"lay"} /\ padded' = padded
    BY <1>4 DEF Own, Missing, Lay, Asking
  <2> QED BY <1>1, <1>2, <1>4, <2>1, Write
<1>5. CASE GetBody(a)
  <2>1. pc[a] \in Asking /\ padded' = padded /\ write(a, "real", "real")
    BY <1>5 DEF GetBody, Asking
  <2> QED BY <1>1, <2>1, Write
<1>6. CASE Pad(a)
  <2>1. pc[a] \in Asking /\ padded' /\ write(a, "zeros", "pad") BY <1>6 DEF Pad, Asking
  <2> QED BY <1>1, <2>1, Write
<1>7. CASE Passes
  <2>1. DOMAIN cont' = Actor /\ \A b \in Actor : cont'[b] \in {"none", "fetch"}
    BY <1>1 DEF Safe, Shapes, Leads
  <2>2. pc[a] = "lay" => repair # "done"
    BY <1>7 DEF Safe, Repair, servable, PatchBytes
  <2>3. PICK l \in {"get", "decide", "close"} :
          /\ pc' = [pc EXCEPT ![a] = l] /\ pc[a] \in Leading
          /\ (l \in Asking => pc[a] \in Asking)
    BY <1>7 DEF Leading, Asking
  <2>4. Left(a, l) BY <1>1 DEF Left
  <2> QED BY <1>1, <1>7, <2>1, <2>2, <2>3, <2>4, Move
<1>8. Own(a) => Patches \/ Passes
  BY <1>3 DEF Own, goto, servable
<1>9. Missing(a) => Patches \/ Passes
  BY DEF Missing, goto
<1>10. Lay(a) => Patches \/ Passes
  BY <1>3 DEF Lay, filled, goto, servable
<1> QED BY <1>4, <1>5, <1>6, <1>7, <1>8, <1>9, <1>10

LEMMA CommitKeeps == ASSUME Safe, NEW a \in Actor, Commit(a) PROVE Safe'
<1>1. /\ Around /\ UNCHANGED <<bytes, what, rec, inFlight, cont>> /\ DOMAIN e' = Actor
      /\ pc[a] = "commit" /\ state' = "ondisk"
      /\ padded' = IF what[a] = "patch" THEN FALSE ELSE padded
  BY DEF Safe, Shapes, Commit, filled, with, env, local, Around
<1>2. rec[a] = "no" BY DEF Safe, Leads
<1>3. pc' = [pc EXCEPT ![a] = IF what[a] = "pad" THEN "lay" ELSE "close"]
  BY <1>2 DEF Commit, filled, goto
<1>4. /\ DOMAIN pc' = Actor /\ \A b \in Actor : b # a => pc'[b] = pc[b]
      /\ pc'[a] = IF what[a] = "pad" THEN "lay" ELSE "close"
  BY <1>3 DEF Safe, Shapes
<1>5. \A b \in Actor : b # a => pc'[b] \notin Leading
  BY <1>1, <1>4, OneLeader DEF Safe, Leading
<1>6. \/ what[a] = "pad" /\ bytes = "zeros" /\ padded
      \/ what[a] = "real" /\ bytes = "real"
      \/ what[a] = "patch" /\ bytes = "patch" /\ world.evict = 0
  BY <1>1 DEF Safe, Written
<1>7. state # "evicting"
  <2>1. CASE what[a] = "patch" BY <1>6, <2>1 DEF Safe, Evictor
  <2>2. CASE what[a] # "patch" BY <1>1, <2>2 DEF Safe, Owned, Filling
  <2> QED BY <2>1, <2>2
<1>8. Shapes' BY <1>1, <1>4 DEF Safe, Shapes
<1>9. Leads' BY <1>1, <1>4 DEF Safe, Leads, Leading
<1>10. Owned' /\ Written'
  BY <1>1, <1>4, <1>5, <1>6 DEF Owned, Written, Filling, Asking, Leading
<1>11. Evictor' BY <1>1, <1>7 DEF Safe, Evictor, Around
<1>12. Repair' BY <1>1 DEF Safe, Repair, Around
<1>13. Zeros' BY <1>1, <1>6 DEF Zeros
<1>14. Looked' BY <1>1, <1>4, <1>6 DEF Looked
<1> QED BY <1>8, <1>9, <1>10, <1>11, <1>12, <1>13, <1>14 DEF Safe

\* The promise is closed and its followers wake, or it is dropped.
LEMMA PromiseKeeps ==
  ASSUME Safe, NEW a \in Actor, Close(a) \/ Unregister(a)
  PROVE  Safe'
<1>1. /\ Around /\ UNCHANGED <<bytes, what, rec, cont, state, padded>>
      /\ DOMAIN e' = Actor /\ pc[a] \in Leading \ {"lay"} /\ DOMAIN pc' = Actor
  BY DEF Safe, Shapes, Close, Unregister, goto, slot, env, local, Around, Leading
<1>2. \A b \in Actor : b # a => pc[b] \notin Leading BY <1>1, OneLeader DEF Safe
<1>3. \A b \in Actor : b # a => pc'[b] = pc[b] \/ pc'[b] = "followed"
  BY DEF Close, Unregister, goto, Safe, Shapes
<1>4. \A b \in Actor : b # a => pc'[b] \notin Leading \cup {"remark"}
  BY <1>2, <1>3 DEF Leading, Safe, Leads
<1>5. /\ DOMAIN inFlight' = {"by", "closed", "err"}
      /\ (pc'[a] = "unregister" /\ inFlight'.by = inFlight.by) \/ pc'[a] = "ret"
  <2>1. CASE Close(a) BY <2>1 DEF Close, Safe, Shapes
  <2>2. CASE Unregister(a) BY <2>2 DEF Unregister, goto, Safe, Shapes, NoPromise
  <2> QED BY <2>1, <2>2
<1>6. inFlight.by = {a} BY <1>1 DEF Safe, Leads
<1>7. Shapes' BY <1>1, <1>5 DEF Safe, Shapes
<1>8. Leads' BY <1>1, <1>4, <1>5, <1>6 DEF Safe, Leads, Leading
<1>9. Owned' /\ Written' BY <1>4, <1>5 DEF Owned, Written, Filling, Asking, Leading
<1>10. Evictor' /\ Zeros' BY <1>1 DEF Safe, Evictor, Zeros, Around
<1>11. Repair' BY <1>1 DEF Safe, Repair, Around
<1>12. Looked' BY <1>1, <1>2 DEF Safe, Looked, Around, Leading
<1> QED BY <1>7, <1>8, <1>9, <1>10, <1>11, <1>12 DEF Safe

-----------------------------------------------------------------------------
(* The evictor, the repair, and a caller who walks away.                   *)

LEMMA EvictKeeps == ASSUME Safe, Apart, EvictStep PROVE Safe'
<1>1. UNCHANGED <<world, patched, repair, padded, inFlight, pc, what, rec, cont, e>>
  BY DEF EvictStep, EvictPick, EvictReserve, EvictDecide, EvictPunch, EvictFree, others, avars
<1>2. world.evict # 0
  BY DEF EvictStep, EvictPick, EvictReserve, EvictDecide, EvictPunch, EvictFree, Safe, Evictor
<1>3. state \in {"ondisk", "evicting"} \/ (state' = state /\ bytes' = bytes)
  BY DEF EvictStep, EvictPick, EvictReserve, EvictDecide, EvictPunch, EvictFree, Safe, Evictor
<1>4. Leads' BY <1>1 DEF Safe, Leads
<1>5. Shapes' /\ Evictor'
  BY <1>1, <1>2 DEF EvictStep, EvictPick, EvictReserve, EvictDecide, EvictPunch, EvictFree, Safe,
                    Shapes, Evictor
<1>6. \A a \in Actor : Filling(a)' <=> Filling(a) BY <1>1 DEF Filling
<1>7. Owned' BY <1>3, <1>6 DEF Safe, Owned
<1>8. Written'
  <2>1. ASSUME NEW a \in Actor, pc[a] = "commit" PROVE bytes' = bytes
    <3>1. what[a] # "patch" BY <1>2, <2>1 DEF Safe, Written
    <3>2. Filling(a) BY <2>1, <3>1 DEF Filling
    <3> QED BY <1>3, <3>2 DEF Safe, Owned
  <2> QED BY <1>1, <2>1 DEF Safe, Written
<1>9. Repair' BY <1>1 DEF Safe, Repair
<1>10. Zeros'
  <2>1. (bytes' = bytes \/ bytes' = "hole")
        /\ (state' \in {"ondisk", "evicting"} => state \in {"ondisk", "evicting"})
    BY DEF EvictStep, EvictPick, EvictReserve, EvictDecide, EvictPunch, EvictFree, Safe, Evictor
  <2> QED BY <1>1, <2>1 DEF Safe, Zeros
<1>11. Looked' BY <1>1, <1>2 DEF Looked
<1> QED BY <1>4, <1>5, <1>7, <1>8, <1>9, <1>10, <1>11 DEF Safe

LEMMA RepairKeeps == ASSUME Safe, RepairStep PROVE Safe'
<1>1. UNCHANGED <<world, bytes, padded, inFlight, pc, what, rec, cont, e, ev, evictions>>
  BY DEF RepairStep, RepairStore, RepairMark, RepairInvalidate, ovars, avars
<1>2. state' = state \/ (state \in {"ondisk", "failed"} /\ state' = "empty")
  BY DEF RepairStep, RepairStore, RepairMark, RepairInvalidate
<1>3. repair' = "done" => state' # "ondisk"
  BY DEF RepairStep, RepairStore, RepairMark, RepairInvalidate
<1>4. Repair'
  BY <1>1 DEF RepairStep, RepairStore, RepairMark, RepairInvalidate, Safe, Repair
<1>5. \A a \in Actor : Filling(a)' <=> Filling(a) BY <1>1 DEF Filling
<1>6. Shapes' BY <1>1, <1>2 DEF Safe, Shapes
<1>7. Leads' BY <1>1 DEF Safe, Leads
<1>8. Owned' BY <1>2, <1>5 DEF Safe, Owned
<1>9. Written' BY <1>1 DEF Safe, Written
<1>10. Evictor' BY <1>1, <1>2 DEF Safe, Evictor
<1>11. Zeros' BY <1>1, <1>2 DEF Safe, Zeros
<1>12. Looked' BY <1>3 DEF Looked
<1> QED BY <1>4, <1>6, <1>7, <1>8, <1>9, <1>10, <1>11, <1>12 DEF Safe

\* Nothing Safe speaks of changes.
LEMMA StutterKeeps ==
  ASSUME Safe, UNCHANGED <<world, state, bytes, padded, patched, inFlight, pc, what, rec, cont, e,
                           ev, evictions, repair>>
  PROVE  Safe'
<1>1. Shapes' /\ Leads' /\ Evictor' /\ Zeros' BY DEF Safe, Shapes, Leads, Evictor, Zeros
<1>2. Owned' /\ Written' BY DEF Safe, Owned, Written, Filling
<1>3. Repair' /\ Looked' BY DEF Safe, Repair, Looked
<1> QED BY <1>1, <1>2, <1>3 DEF Safe

LEMMA SegInvNext == SegInv /\ [Next]_vars => SegInv'
<1> SUFFICES ASSUME SegInv, [Next]_vars PROVE SegInv' OBVIOUS
<1>1. world' = world
  <2>1. ASSUME NEW a \in Actor, Begin(a) \/ Step(a) \/ Cancel(a) PROVE world' = world
    <3>1. CASE Begin(a) BY <3>1 DEF Begin, env
    <3>2. CASE Step(a)
      BY <3>2 DEF Step, Ensure, FetchCheck, Refail, Register, Followed, FetchGone, Mark, Marked,
           Refill, Evicted, Other, Reset, Clear, Remark, Own, GetCancelled, GetBody, GetError,
           GetTimeout, Judge, Missing, Pad, Decline, Commit, Lay, Close, Unregister, Return, Wait,
           ReadCheck, Read, ReadMiss, env
    <3>3. CASE Cancel(a) BY <3>3 DEF Cancel
    <3> QED BY <2>1, <3>1, <3>2, <3>3
  <2>2. CASE EvictStep
    BY <2>2 DEF EvictStep, EvictPick, EvictReserve, EvictDecide, EvictPunch, EvictFree, others
  <2>3. CASE RepairStep
    BY <2>3 DEF RepairStep, RepairStore, RepairMark, RepairInvalidate, ovars
  <2>4. CASE UNCHANGED vars BY <2>4 DEF vars
  <2> QED BY <2>1, <2>2, <2>3, <2>4 DEF Next
<1> SUFFICES ASSUME Unviewed, Apart PROVE Safe'
  BY <1>1 DEF SegInv, Unviewed, Apart, Kind
<1>2. Safe BY DEF SegInv
<1>3. ASSUME NEW a \in Actor, Begin(a) \/ Step(a) \/ Cancel(a) PROVE Safe'
  <2>1. CASE Cancel(a) BY <1>2, <2>1, StutterKeeps DEF Cancel, slot, avars
  <2>2. CASE Remark(a) BY <1>2, <2>2 DEF Remark, Safe, Leads
  <2> QED BY <1>2, <1>3, <2>1, <2>2, ReadKeeps, FetchKeeps, RegisterKeeps, SlotKeeps, ReadMissKeeps,
             RefillKeeps, FillKeeps, CommitKeeps, PromiseKeeps DEF Step
<1>4. CASE UNCHANGED vars BY <1>2, <1>4, StutterKeeps DEF vars, avars
<1> QED BY <1>2, <1>3, <1>4, EvictKeeps, RepairKeeps DEF Next

-----------------------------------------------------------------------------
(* The theorems.                                                           *)

LEMMA SegInvariant == Spec => []SegInv
BY SegInvInit, SegInvNext, PTL DEF Spec

\* For any number of reads and fetches none of which is a viewer's, and while
\* the evictor and a repair do not meet: a slot on disk that holds zero-fill
\* has its padded bit (fetcher.go, doFetch and handleConfirmedMissing).
THEOREM PaddingIsMarked == Spec => [](Unviewed => ZerosAreMarked)
<1>1. SegInv => (Unviewed => ZerosAreMarked) BY SegInvImplies
<1> QED BY <1>1, SegInvariant, PTL

\* For any number of reads and fetches none of which is a viewer's, without
\* the evictor: once RefetchSegments is through, zero-fill is on disk only
\* while its writer is still to look for the patch (fetcher.go, servePatch).
THEOREM RepairReachesReaders == Spec => [](Unviewed => RepairIsServed)
<1>1. SegInv => (Unviewed => RepairIsServed) BY SegInvImplies
<1> QED BY <1>1, SegInvariant, PTL

-----------------------------------------------------------------------------
(* The patches of a PAR2 pass, for any release, index and recovery data.   *)

PatchInv == part = "pass" => DOMAIN patch = Seg /\ \A s \in Seg : patch[s] \in {"none", "true"}

\* What readVerifiedRange lets through is cut from the article as posted: an
\* article is among those that its own slices are read from.
LEMMA VerifiedIsTrue ==
  ASSUME NEW s \in Seg, Pass!readVerifiedRange(s)
  PROVE  Pass!Extracted(s) = "true"
<1>1. PICK sl \in SlicesOf[s] : TRUE BY SlicesAssumption
<1>2. s \in Pass!ArticlesOf(sl) BY <1>1 DEF Pass!ArticlesOf
<1>3. s \in UNION {Pass!ArticlesOf(x) : x \in SlicesOf[s]} BY <1>1, <1>2
<1> QED BY <1>3 DEF Pass!readVerifiedRange, Pass!Extracted

\* Patches are written one set of articles at a time.
LEMMA TruePatches ==
  ASSUME PatchInv, part = "pass", part' = part, NEW S,
         patch' = [s \in Seg |-> IF s \in S THEN "true" ELSE patch[s]]
  PROVE  PatchInv'
BY DEF PatchInv

LEMMA HealKeeps ==
  ASSUME PatchInv, part = "pass", part' = part, NEW out, NEW why,
         Pass!healBeforeRecoveryGate(out, why)
  PROVE  PatchInv'
<1>1. PICK H \in SUBSET Pass!Healable :
        patch' = [s \in Seg |-> IF s \in H THEN Pass!Extracted(s) ELSE patch[s]]
  BY DEF Pass!healBeforeRecoveryGate
<1>2. \A s \in Seg : s \in H => Pass!Extracted(s) = "true"
  BY VerifiedIsTrue DEF Pass!Healable
<1>3. patch' = [s \in Seg |-> IF s \in H THEN "true" ELSE patch[s]] BY <1>1, <1>2
<1> QED BY <1>3, TruePatches

LEMMA PatchInvNext == PatchInv /\ [MCNext]_mcvars => PatchInv'
<1> SUFFICES ASSUME PatchInv, [MCNext]_mcvars PROVE PatchInv' OBVIOUS
<1>1. ASSUME part' = part, patch' = patch PROVE PatchInv' BY <1>1 DEF PatchInv
<1>2. CASE UNCHANGED mcvars BY <1>1, <1>2 DEF mcvars, pass
<1>3. CASE part = "fetch" /\ UNCHANGED <<part, pass>> BY <1>1, <1>3 DEF pass
<1>4. CASE part = "pass" /\ Pass!Next /\ part' = part
  <2>1. CASE \/ Pass!Start \/ Pass!LoadRecord \/ Pass!statRecoveryVolumes \/ Pass!FetchIndex
             \/ Pass!choosePar2Set \/ Pass!waitForLargeRepair \/ Pass!OtherLargeRepair
             \/ Pass!FetchVolumes \/ Pass!FetchVolume \/ Pass!MatchFiles \/ Pass!resolveGeometry
             \/ Pass!StatPosted \/ Pass!MapDead \/ Pass!Healed \/ Pass!Fold \/ Pass!Round
             \/ Pass!topUpParsedRecovery \/ Pass!Solve \/ Pass!CutShort
    BY <1>1, <1>4, <2>1 DEF Pass!Start, Pass!LoadRecord, Pass!statRecoveryVolumes, Pass!FetchIndex,
         Pass!choosePar2Set, Pass!waitForLargeRepair, Pass!OtherLargeRepair, Pass!FetchVolumes,
         Pass!FetchVolume, Pass!MatchFiles, Pass!resolveGeometry, Pass!StatPosted, Pass!MapDead,
         Pass!Healed, Pass!Fold, Pass!Round, Pass!topUpParsedRecovery, Pass!Solve, Pass!CutShort,
         Pass!Frame
  <2>2. CASE Pass!EarlyGate BY <1>1, <1>4, <2>2, HealKeeps DEF Pass!EarlyGate
  <2>3. CASE Pass!ParseIndexSet BY <1>1, <1>4, <2>3, HealKeeps DEF Pass!ParseIndexSet
  <2>4. CASE Pass!WriteDiscovered
    <3>1. PICK D : patch' = [s \in Seg |-> IF s \in D THEN "true" ELSE patch[s]]
      BY <2>4 DEF Pass!WriteDiscovered
    <3> QED BY <1>4, <3>1, TruePatches
  <2>5. ASSUME NEW s \in Seg, Pass!ViewerReads(s) \/ Pass!ViewerStores(s) \/ Pass!ForgetAgain(s)
        PROVE  PatchInv'
    BY <1>1, <1>4, <2>5 DEF Pass!ViewerReads, Pass!ViewerStores, Pass!ForgetAgain
  <2>6. ASSUME NEW s \in Seg, patch' = [patch EXCEPT ![s] = "true"] PROVE PatchInv'
    BY <1>4, <2>6 DEF PatchInv
  <2>7. ASSUME NEW s \in Seg, Pass!healFetchableDeadSegments(s) PROVE PatchInv'
    BY <1>1, <1>4, <2>6, <2>7, VerifiedIsTrue DEF Pass!healFetchableDeadSegments
  <2>8. ASSUME NEW s \in Seg, Pass!WritePatch(s) PROVE PatchInv'
    BY <1>1, <1>4, <2>6, <2>8 DEF Pass!WritePatch
  <2> QED BY <1>4, <2>1, <2>2, <2>3, <2>4, <2>5, <2>7, <2>8 DEF Pass!Next
<1> QED BY <1>2, <1>3, <1>4 DEF MCNext

\* For any release, any index and recovery volumes, any number of passes and
\* whatever the providers serve meanwhile: a patch on disk holds the bytes
\* that were posted (par2_repair.go, readVerifiedRange and runRepair).
THEOREM PatchesAreTrue == MCSpec => []PatchIsTrue
<1>1. MCInit => PatchInv BY DEF MCInit, PatchInv, Pass!Init
<1>2. PatchInv => PatchIsTrue BY DEF PatchInv, PatchIsTrue, Pass!PatchIsTrue
<1> QED BY <1>1, <1>2, PatchInvNext, PTL DEF MCSpec

-----------------------------------------------------------------------------
(* The guard on automatic re-grabs, for any releases, titles and restarts. *)

film == guard["film"]
Marks == {"strikes", "recent", "shut", "kept"}

\* Every title struck in the window has cost a strike, and whoever is let
\* through uncounted was struck in it.
GuardInv ==
  /\ DOMAIN guard = Sweep!Identity /\ \A i \in Sweep!Identity : DOMAIN guard[i] = Marks
  /\ film.strikes \in 0 .. MaxAttempts
  /\ film.recent \subseteq struck
  /\ IsFiniteSet(struck) /\ Cardinality(struck) <= film.strikes

LEMMA FilmIsKnown == "film" \in Sweep!Identity
BY DEF Sweep!Identity

\* The film's record is left alone but for what another field says.
LEMMA FilmKeeps ==
  ASSUME GuardInv, struck' = struck,
         DOMAIN guard' = Sweep!Identity, \A i \in Sweep!Identity : DOMAIN guard'[i] = Marks,
         film'.strikes = film.strikes, film'.recent \subseteq film.recent
  PROVE  GuardInv'
BY DEF GuardInv

\* The window is over, or a user asked.
LEMMA FilmClears ==
  ASSUME GuardInv, MaxAttempts \in Nat, struck' = {},
         DOMAIN guard' = Sweep!Identity, \A i \in Sweep!Identity : DOMAIN guard'[i] = Marks,
         film'.strikes = 0, film'.recent = {}
  PROVE  GuardInv'
<1>1. IsFiniteSet({}) /\ Cardinality({}) = 0 BY FS_EmptySet
<1> QED BY <1>1 DEF GuardInv

\* checkAndRecord on an identity's record, whoever calls it.
LEMMA CheckedRecord ==
  ASSUME GuardInv, MaxAttempts \in Nat, NEW i \in Sweep!Identity, NEW t
  PROVE  LET c == Sweep!CheckAndRecord(i, t)
             g == guard[i]
         IN  /\ DOMAIN c.next = Marks
             /\ c.verdict # "allowed" => c.next.strikes = g.strikes /\ c.next.recent = g.recent
             /\ c.verdict = "allowed" =>
                  \/ t \in g.recent /\ c.next.strikes = g.strikes /\ c.next.recent = g.recent
                  \/ /\ ~(g.strikes >= MaxAttempts)
                     /\ c.next.strikes = g.strikes + 1 /\ c.next.recent = g.recent \cup {t}
<1> DEFINE g == guard[i]
<1>1. DOMAIN g = Marks BY DEF GuardInv
<1> HIDE DEF g
<1> DEFINE a == [g EXCEPT !.shut = TRUE]
           b == [g EXCEPT !.strikes = @ + 1, !.recent = @ \cup {t}]
<1>2. DOMAIN a = Marks /\ a.strikes = g.strikes /\ a.recent = g.recent BY <1>1 DEF Marks
<1>3. DOMAIN b = Marks /\ b.strikes = g.strikes + 1 /\ b.recent = g.recent \cup {t} BY <1>1 DEF Marks
<1>4. Sweep!CheckAndRecord(i, t) =
        IF g.shut THEN [verdict |-> "shut", next |-> g]
        ELSE IF t \in g.recent THEN [verdict |-> "allowed", next |-> g]
        ELSE IF g.strikes >= MaxAttempts THEN [verdict |-> "trips", next |-> a]
        ELSE [verdict |-> "allowed", next |-> b]
  BY DEF Sweep!CheckAndRecord, g
<1> HIDE DEF a, b
<1> SUFFICES LET c == Sweep!CheckAndRecord(i, t)
             IN  /\ DOMAIN c.next = Marks
                 /\ c.verdict # "allowed" => c.next.strikes = g.strikes /\ c.next.recent = g.recent
                 /\ c.verdict = "allowed" =>
                      \/ t \in g.recent /\ c.next.strikes = g.strikes /\ c.next.recent = g.recent
                      \/ /\ ~(g.strikes >= MaxAttempts)
                         /\ c.next.strikes = g.strikes + 1 /\ c.next.recent = g.recent \cup {t}
  BY DEF g
<1> QED BY <1>1, <1>2, <1>3, <1>4

\* A title is let through and struck.
LEMMA StrikeKeeps ==
  ASSUME GuardInv, MaxAttempts \in Nat, NEW t, struck' = struck \cup {t},
         DOMAIN guard' = Sweep!Identity, \A i \in Sweep!Identity : DOMAIN guard'[i] = Marks,
         \/ t \in film.recent /\ film'.strikes = film.strikes /\ film'.recent = film.recent
         \/ /\ ~(film.strikes >= MaxAttempts)
            /\ film'.strikes = film.strikes + 1 /\ film'.recent = film.recent \cup {t}
  PROVE  GuardInv'
<1>1. CASE t \in film.recent /\ film'.strikes = film.strikes /\ film'.recent = film.recent
  <2>1. struck' = struck BY <1>1 DEF GuardInv
  <2> QED BY <1>1, <2>1, FilmKeeps
<1>2. CASE /\ ~(film.strikes >= MaxAttempts)
           /\ film'.strikes = film.strikes + 1 /\ film'.recent = film.recent \cup {t}
  <2>1. IsFiniteSet(struck) /\ Cardinality(struck) \in Nat BY FS_CardinalityType DEF GuardInv
  <2>2. IsFiniteSet(struck') /\ Cardinality(struck') <= Cardinality(struck) + 1
    BY <2>1, FS_AddElement
  <2>3. Cardinality(struck') \in Nat BY <2>2, FS_CardinalityType
  <2>4. film'.strikes \in 0 .. MaxAttempts BY <1>2 DEF GuardInv
  <2>5. Cardinality(struck') <= film'.strikes BY <1>2, <2>1, <2>2, <2>3 DEF GuardInv
  <2> QED BY <1>2, <2>2, <2>4, <2>5 DEF GuardInv
<1> QED BY <1>1, <1>2

\* One identity's record is replaced.
LEMMA Recorded ==
  ASSUME GuardInv, NEW i, NEW r, guard' = [guard EXCEPT ![i] = r],
         i \in Sweep!Identity => DOMAIN r = Marks
  PROVE  /\ DOMAIN guard' = Sweep!Identity /\ \A j \in Sweep!Identity : DOMAIN guard'[j] = Marks
         /\ i = "film" => film' = r
         /\ i # "film" => film' = film
BY FilmIsKnown DEF GuardInv, film

LEMMA PassesKeeps ==
  ASSUME GuardInv, MaxAttempts \in Nat, NEW span, Sweep!Passes(span)
  PROVE  GuardInv'
<1> DEFINE past == span \in {"day", "week"}
           next(i) == [guard[i] EXCEPT !.recent = {}, !.strikes = IF past THEN 0 ELSE @,
                                       !.shut = IF span = "week" THEN FALSE ELSE @]
<1>1. /\ guard' = [i \in Sweep!Identity |-> next(i)]
      /\ struck' = IF past THEN {} ELSE struck
  BY DEF Sweep!Passes
<1>2. \A i \in Sweep!Identity : /\ DOMAIN next(i) = Marks /\ next(i).recent = {}
                               /\ next(i).strikes = IF past THEN 0 ELSE guard[i].strikes
  BY DEF GuardInv, Marks
<1> HIDE DEF next
<1>3. /\ DOMAIN guard' = Sweep!Identity /\ \A i \in Sweep!Identity : DOMAIN guard'[i] = Marks
      /\ film' = next("film")
  BY <1>1, <1>2, FilmIsKnown DEF film
<1>4. film'.recent = {} /\ film'.strikes = IF past THEN 0 ELSE film.strikes
  BY <1>2, <1>3, FilmIsKnown DEF film
<1>5. CASE past BY <1>1, <1>3, <1>4, <1>5, FilmClears
<1>6. CASE ~past BY <1>1, <1>3, <1>4, <1>6, FilmKeeps
<1> QED BY <1>5, <1>6

LEMMA StartKeeps ==
  ASSUME GuardInv, Sweep!Start
  PROVE  GuardInv'
<1> DEFINE next(i) == [guard[i] EXCEPT !.recent = {}]
<1>1. guard' = [i \in Sweep!Identity |-> next(i)] /\ struck' = struck
  BY DEF Sweep!Start, Sweep!Attach
<1>2. \A i \in Sweep!Identity : /\ DOMAIN next(i) = Marks /\ next(i).recent = {}
                               /\ next(i).strikes = guard[i].strikes
  BY DEF GuardInv, Marks
<1> HIDE DEF next
<1>3. /\ DOMAIN guard' = Sweep!Identity /\ \A i \in Sweep!Identity : DOMAIN guard'[i] = Marks
      /\ film' = next("film")
  BY <1>1, <1>2, FilmIsKnown DEF film
<1>4. film'.recent \subseteq film.recent /\ film'.strikes = film.strikes
  BY <1>2, <1>3, FilmIsKnown DEF film
<1> QED BY <1>1, <1>3, <1>4, FilmKeeps

\* The router and the import gates count against the film.
LEMMA FilmChecked ==
  ASSUME GuardInv, MaxAttempts \in Nat, NEW t,
         guard' = [guard EXCEPT !["film"] = Sweep!CheckAndRecord("film", t).next],
         struck' = IF Sweep!CheckAndRecord("film", t).verdict = "allowed" THEN struck \cup {t} ELSE struck
  PROVE  GuardInv'
<1> DEFINE c == Sweep!CheckAndRecord("film", t)
<1>1. /\ DOMAIN c.next = Marks
      /\ c.verdict # "allowed" => c.next.strikes = film.strikes /\ c.next.recent = film.recent
      /\ c.verdict = "allowed" =>
           \/ t \in film.recent /\ c.next.strikes = film.strikes /\ c.next.recent = film.recent
           \/ /\ ~(film.strikes >= MaxAttempts)
              /\ c.next.strikes = film.strikes + 1 /\ c.next.recent = film.recent \cup {t}
  BY CheckedRecord, FilmIsKnown DEF film
<1> HIDE DEF c
<1>2. guard' = [guard EXCEPT !["film"] = c.next] BY DEF c
<1>3. struck' = IF c.verdict = "allowed" THEN struck \cup {t} ELSE struck BY DEF c
<1>4. /\ DOMAIN guard' = Sweep!Identity /\ \A j \in Sweep!Identity : DOMAIN guard'[j] = Marks
      /\ film' = c.next
  BY <1>1, <1>2, Recorded
<1>5. CASE c.verdict = "allowed" BY <1>1, <1>3, <1>4, <1>5, StrikeKeeps
<1>6. CASE c.verdict # "allowed" BY <1>1, <1>3, <1>4, <1>6, FilmKeeps
<1> QED BY <1>5, <1>6

LEMMA GateGuardKeeps ==
  ASSUME GuardInv, MaxAttempts \in Nat, Sweep!GateGuard
  PROVE  GuardInv'
BY FilmChecked DEF Sweep!GateGuard

LEMMA AttachedKeeps ==
  ASSUME GuardInv, MaxAttempts \in Nat, NEW T, Sweep!Attached(T)
  PROVE  GuardInv'
<1>1. CASE UNCHANGED <<guard, struck>> BY <1>1 DEF GuardInv, film
<1>2. CASE guard' = [guard EXCEPT !["film"] = Sweep!Fresh] /\ struck' = {}
  <2>1. DOMAIN Sweep!Fresh = Marks /\ Sweep!Fresh.strikes = 0 /\ Sweep!Fresh.recent = {}
    BY DEF Sweep!Fresh, Marks
  <2>2. /\ DOMAIN guard' = Sweep!Identity /\ \A j \in Sweep!Identity : DOMAIN guard'[j] = Marks
        /\ film' = Sweep!Fresh
    BY <1>2, <2>1, Recorded
  <2> QED BY <1>2, <2>1, <2>2, FilmClears
<1>3. CASE LET t == th[T].title
               check == Sweep!CheckAndRecord("film", t)
           IN  /\ guard' = [guard EXCEPT !["film"] = check.next]
               /\ struck' = IF check.verdict = "allowed" THEN struck \cup {t} ELSE struck
  BY <1>3, FilmChecked
<1> QED BY <1>1, <1>2, <1>3 DEF Sweep!Attached

\* The sweep counts against the film, or against the title when the Arr's
\* row is not known; only the film's own count bounds what was struck.
LEMMA HealGuardedKeeps ==
  ASSUME GuardInv, MaxAttempts \in Nat, NEW T, Sweep!HealGuarded(T)
  PROVE  GuardInv'
<1> DEFINE h == th[T].h
           t == th[T].title
           i == Sweep!IdentityOf(t, h.bad.row)
           c == Sweep!CheckAndRecord(i, t)
           k == [c.next EXCEPT !.kept[PostOf[h.bad.rel]] = h.bad.rel]
<1>1. CASE UNCHANGED <<guard, struck>> BY <1>1 DEF GuardInv, film
<1>2. CASE /\ c.verdict # "allowed"
           /\ guard' = [guard EXCEPT ![i] = c.next] /\ struck' = struck
  <2>1. CASE i = "film" BY <1>2, <2>1, FilmChecked
  <2>2. CASE i # "film"
    <3>1. i \in Sweep!Identity => DOMAIN c.next = Marks BY CheckedRecord
    <3> HIDE DEF c, i
    <3> QED BY <1>2, <2>2, <3>1, Recorded, FilmKeeps
  <2> QED BY <2>1, <2>2
<1>3. CASE /\ c.verdict = "allowed"
           /\ guard' = [guard EXCEPT ![i] = k] \/ guard' = [guard EXCEPT ![i] = c.next]
           /\ struck' = IF i = "film" THEN struck \cup {t} ELSE struck
  <2>1. CASE i = "film"
    <3>1. i \in Sweep!Identity BY <2>1, FilmIsKnown
    <3>2. /\ DOMAIN c.next = Marks
          /\ \/ t \in film.recent /\ c.next.strikes = film.strikes /\ c.next.recent = film.recent
             \/ /\ ~(film.strikes >= MaxAttempts)
                /\ c.next.strikes = film.strikes + 1 /\ c.next.recent = film.recent \cup {t}
      BY <1>3, <2>1, <3>1, CheckedRecord DEF film
    <3>3. DOMAIN k = Marks /\ k.strikes = c.next.strikes /\ k.recent = c.next.recent
      BY <3>2 DEF Marks
    <3>4. PICK r \in {k, c.next} : guard' = [guard EXCEPT ![i] = r] BY <1>3
    <3>5. /\ DOMAIN r = Marks
          /\ \/ t \in film.recent /\ r.strikes = film.strikes /\ r.recent = film.recent
             \/ /\ ~(film.strikes >= MaxAttempts)
                /\ r.strikes = film.strikes + 1 /\ r.recent = film.recent \cup {t}
      BY <3>2, <3>3, <3>4
    <3> HIDE DEF c, k, i, t
    <3>6. /\ DOMAIN guard' = Sweep!Identity /\ \A j \in Sweep!Identity : DOMAIN guard'[j] = Marks
          /\ film' = r
      BY <2>1, <3>4, <3>5, Recorded
    <3> QED BY <1>3, <2>1, <3>5, <3>6, StrikeKeeps
  <2>2. CASE i # "film"
    <3>1. i \in Sweep!Identity => DOMAIN c.next = Marks BY CheckedRecord
    <3>2. i \in Sweep!Identity => DOMAIN k = Marks BY <3>1 DEF Marks
    <3>3. PICK r \in {k, c.next} : guard' = [guard EXCEPT ![i] = r] BY <1>3
    <3> HIDE DEF c, k, i
    <3>4. i \in Sweep!Identity => DOMAIN r = Marks BY <3>1, <3>2
    <3>5. /\ DOMAIN guard' = Sweep!Identity /\ \A j \in Sweep!Identity : DOMAIN guard'[j] = Marks
          /\ film' = film
      BY <2>2, <3>3, <3>4, Recorded
    <3> QED BY <1>3, <2>2, <3>5, FilmKeeps
  <2> QED BY <2>1, <2>2
<1> QED BY <1>1, <1>2, <1>3 DEF Sweep!HealGuarded

\* Nothing else touches the guard.
LEMMA GuardUntouched ==
  ASSUME UNCHANGED <<guard, struck>>, GuardInv
  PROVE  GuardInv'
BY DEF GuardInv, film

LEMMA ProbeKeeps ==
  ASSUME GuardInv, MaxAttempts \in Nat, NEW T, Sweep!Probe(T) \/ Sweep!Heal(T)
  PROVE  GuardInv'
<1>1. CASE \/ Sweep!Begin(T) \/ Sweep!Judge(T) \/ Sweep!Record(T) \/ Sweep!ReleaseClaims(T)
           \/ Sweep!Cool(T) \/ Sweep!Mend(T) \/ Sweep!FindGrab(T) \/ Sweep!DeleteFiles(T)
           \/ Sweep!Research(T) \/ Sweep!FinishRepair(T)
  BY <1>1, GuardUntouched DEF Sweep!Begin, Sweep!Judge, Sweep!Record, Sweep!ReleaseClaims, Sweep!Cool,
       Sweep!Mend, Sweep!FindGrab, Sweep!DeleteFiles, Sweep!Research, Sweep!FinishRepair, Sweep!memory
<1> QED BY <1>1, AttachedKeeps, HealGuardedKeeps DEF Sweep!Probe, Sweep!Heal

LEMMA GuardInvNext ==
  ASSUME MaxAttempts \in Nat, GuardInv, [Sweep!Next]_Sweep!vars
  PROVE  GuardInv'
<1>1. CASE Sweep!RunSteps
  <2>1. CASE \/ Sweep!Select \/ Sweep!References \/ Sweep!Sift \/ Sweep!NextEntry \/ Sweep!EntryDone
             \/ Sweep!Resolve \/ Sweep!HealBatch \/ Sweep!ClearFile \/ Sweep!FinalPass
             \/ Sweep!FinalizeRun
    BY <2>1, GuardUntouched DEF Sweep!Select, Sweep!References, Sweep!Sift, Sweep!NextEntry,
         Sweep!EntryDone, Sweep!Resolve, Sweep!HealBatch, Sweep!ClearFile, Sweep!FinalPass,
         Sweep!FinalizeRun, Sweep!memory
  <2> QED BY <1>1, <2>1, ProbeKeeps DEF Sweep!RunSteps
<1>2. CASE Sweep!RecheckSteps
  <2>1. CASE Sweep!Look \/ Sweep!FinishRecheck
    BY <2>1, GuardUntouched DEF Sweep!Look, Sweep!FinishRecheck, Sweep!memory
  <2> QED BY <1>2, <2>1, ProbeKeeps DEF Sweep!RecheckSteps
<1>3. CASE Sweep!RouterSteps
  <2>1. CASE Sweep!ReleaseRouter BY <2>1, GuardUntouched DEF Sweep!ReleaseRouter
  <2> QED BY <1>3, <2>1, ProbeKeeps DEF Sweep!RouterSteps, Sweep!Probe
<1>4. CASE Sweep!GateSteps
  <2>1. CASE Sweep!GateFails \/ Sweep!GateDone
    BY <2>1, GuardUntouched DEF Sweep!GateFails, Sweep!GateDone, Sweep!memory
  <2> QED BY <1>4, <2>1, GateGuardKeeps DEF Sweep!GateSteps
<1>5. ASSUME NEW k, Sweep!StartSweep(k) \/ Sweep!StartBatch(k) \/ Sweep!ClearStates(k) PROVE GuardInv'
  BY <1>5, GuardUntouched DEF Sweep!StartSweep, Sweep!StartBatch, Sweep!ClearStates, Sweep!memory
<1>6. CASE \/ Sweep!ReplaceUnverified \/ Sweep!StartClearSuperseded \/ Sweep!StopRun
           \/ Sweep!StopSchedule \/ Sweep!GateRejects \/ Sweep!Import \/ Sweep!Stop \/ Sweep!Exit
  BY <1>6, GuardUntouched DEF Sweep!ReplaceUnverified, Sweep!StartClearSuperseded, Sweep!StopRun,
       Sweep!StopSchedule, Sweep!GateRejects, Sweep!Import, Sweep!Stop, Sweep!Exit, Sweep!memory
<1>7. ASSUME NEW t, \/ Sweep!StartRecheck(t) \/ Sweep!HandleAutoDamage(t) \/ Sweep!ManualResearch(t)
                    \/ Sweep!MarkReplaceable(t)
      PROVE  GuardInv'
  BY <1>7, GuardUntouched DEF Sweep!StartRecheck, Sweep!HandleAutoDamage, Sweep!ManualResearch,
       Sweep!MarkReplaceable, Sweep!memory
<1>8. ASSUME NEW r, \/ Sweep!Grab(r) \/ Sweep!Stream(r) \/ Sweep!StopStream(r) \/ Sweep!Par2Pass(r)
                    \/ Sweep!AwaitIdleDelete(r)
      PROVE  GuardInv'
  BY <1>8, GuardUntouched DEF Sweep!Grab, Sweep!Stream, Sweep!StopStream, Sweep!Par2Pass,
       Sweep!AwaitIdleDelete, Sweep!memory
<1>9. CASE UNCHANGED Sweep!vars BY <1>9, GuardUntouched DEF Sweep!vars, Sweep!memory
<1> QED
  BY <1>1, <1>2, <1>3, <1>4, <1>5, <1>6, <1>7, <1>8, <1>9, PassesKeeps, StartKeeps DEF Sweep!Next

LEMMA GuardInvInit == ASSUME MaxAttempts \in Nat, Sweep!Init PROVE GuardInv
<1>1. guard = [i \in Sweep!Identity |-> Sweep!Fresh] /\ struck = {} BY DEF Sweep!Init
<1>2. DOMAIN Sweep!Fresh = Marks /\ Sweep!Fresh.strikes = 0 /\ Sweep!Fresh.recent = {}
  BY DEF Sweep!Fresh, Marks
<1>3. IsFiniteSet({}) /\ Cardinality({}) = 0 BY FS_EmptySet
<1> QED BY <1>1, <1>2, <1>3, FilmIsKnown DEF GuardInv, film

\* For any releases, postings and titles, any number of attempts and of
\* restarts: the sweep, the playback router and the import gates together
\* re-grab one film at most MaxAttempts times under different titles in a
\* window (regrab_guard.go, checkAndRecord and attach).
THEOREM RegrabsAreBounded == SweepSpec => []GuardBounds
<1> MaxAttempts \in Nat BY SweepAssumption DEF Sweep!SweepAssumption
<1>1. Sweep!Init => GuardInv BY GuardInvInit
<1>2. GuardInv /\ [Sweep!Next]_Sweep!vars => GuardInv' BY GuardInvNext
<1>3. GuardInv => GuardBounds
  <2> SUFFICES ASSUME GuardInv PROVE GuardBounds OBVIOUS
  <2>1. Cardinality(struck) \in Nat BY FS_CardinalityType DEF GuardInv
  <2>2. film.strikes \in 0 .. MaxAttempts /\ Cardinality(struck) <= film.strikes BY DEF GuardInv
  <2>3. Cardinality(struck) <= MaxAttempts BY <2>1, <2>2
  <2>4. Sweep!Cardinality(struck) = Cardinality(struck) BY DEF Sweep!Cardinality, Cardinality
  <2> QED BY <2>3, <2>4 DEF GuardBounds, Sweep!GuardBounds
<1> QED BY <1>1, <1>2, <1>3, PTL DEF SweepSpec, Sweep!Spec
=============================================================================
