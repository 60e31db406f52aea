---------------------------- MODULE MediaProofs -----------------------------
(***************************************************************************)
(* For every set of entries, segments and urgent workers: one PAR2 pass at *)
(* a time on an entry, and nothing left of a deleted one (Par2Lanes).  For *)
(* every file and any number of failures: a file is condemned only for what*)
(* is wrong with it (ProbeVerdict).  For any number of streams, readers,   *)
(* reorders and deletes: a stream is served (ReleaseReader).  And reaping  *)
(* takes no file and no title, whatever else goes on (PlexReap).           *)
(***************************************************************************)
EXTENDS MCMedia, FiniteSetTheorems, SequenceTheorems, TLAPS

-----------------------------------------------------------------------------
(* The PAR2 lanes.                                                         *)

Job == [by : Runner \cup {<<None>>}, preempted : BOOLEAN, merged : BOOLEAN]

Shapes ==
  /\ DOMAIN pc = Thread /\ nz \in [Thread -> Nzb]
  /\ running \in [Nzb -> Job]
  /\ DOMAIN status = Nzb
  /\ queue \in Seq(Nzb)
  /\ deferred \subseteq Nzb /\ todo \subseteq Nzb /\ urgent \subseteq Nzb

\* Between claimRun and releaseRun.
Working == {"start", "repair", "regrab", "purge", "defer", "recover", "deregister"}

\* A thread inside runJob is the one registered for its entry, and the thread
\* of a manual run is about its own entry until it leaves.
Owners ==
  /\ \A t \in Runner : pc[t] \in Working => running[nz[t]].by = t
  /\ \A n \in Nzb : pc[<<"now", n>>] # "idle" => nz[<<"now", n>>] = n

\* An entry is fenced before it is gone.
Fenced == \A n \in Nzb : n \notin entry => n \in rejected

IInv == Shapes /\ Owners /\ Fenced /\ DeletedStaysDeleted

-----------------------------------------------------------------------------
LEMMA Threads ==
  /\ Runner \subseteq Thread
  /\ Loop \in Runner /\ \A n \in Nzb : <<"now", n>> \in Runner
  /\ \A w \in Worker : w \in Runner
  /\ Router \in Thread /\ Sweeper \in Thread /\ Manual \in Thread /\ Reader \in Thread
  /\ Router \notin Runner /\ Sweeper \notin Runner /\ Manual \notin Runner /\ Reader \notin Runner
  /\ \A n \in Nzb, w \in Worker : w # <<"now", n>>
  /\ \A n \in Nzb : Loop # <<"now", n>>
  /\ \A n \in Nzb : \A m \in Nzb : <<"now", n>> = <<"now", m>> => n = m
  /\ <<None>> \notin Runner
<1>1. Runner \subseteq Thread BY DEF Thread
<1>2. Loop \in Runner /\ (\A n \in Nzb : <<"now", n>> \in Runner) /\ (\A w \in Worker : w \in Runner)
  BY DEF Runner, Now
<1>3. Router \in Thread /\ Sweeper \in Thread /\ Manual \in Thread /\ Reader \in Thread
  BY DEF Thread
<1>4. /\ Router \notin Worker /\ Sweeper \notin Worker /\ Manual \notin Worker
      /\ Reader \notin Worker /\ <<None>> \notin Worker /\ \A n \in Nzb, w \in Worker : w # <<"now", n>>
  BY ThreadAssumption DEF Now
<1>5. /\ Router \notin Now /\ Sweeper \notin Now /\ Manual \notin Now /\ Reader \notin Now
      /\ <<None>> \notin Now /\ \A n \in Nzb : Loop # <<"now", n>>
  BY DEF Now, Router, Sweeper, Manual, Reader, None, Loop
<1>6. Router # Loop /\ Sweeper # Loop /\ Manual # Loop /\ Reader # Loop /\ <<None>> # Loop
  BY DEF Router, Sweeper, Manual, Reader, None, Loop
<1>7. \A n \in Nzb : \A m \in Nzb : <<"now", n>> = <<"now", m>> => n = m
  OBVIOUS
<1> QED BY <1>1, <1>2, <1>3, <1>4, <1>5, <1>6, <1>7 DEF Runner

\* A thread moves on, and nobody else.
LEMMA MoveKeepsOwners ==
  ASSUME Shapes, Owners, NEW t \in Thread, NEW l, goto(t, l),
         UNCHANGED <<nz, running>>,
         pc[t] # "idle",
         t \in Runner /\ l \in Working => pc[t] \in Working
  PROVE  Owners'
BY Threads DEF Shapes, Owners, goto

\* A step that leaves the overlay, the entries and those who purge alone.
LEMMA SameRecord ==
  ASSUME Fenced, DeletedStaysDeleted, UNCHANGED <<status, files, rejected, entry>>,
         \A t \in Thread : pc[t] = "purge" => pc'[t] = "purge" /\ nz'[t] = nz[t]
  PROVE  Fenced' /\ DeletedStaysDeleted'
BY DEF Fenced, DeletedStaysDeleted, Clean

\* A step that writes the overlay of an entry that is not fenced.
LEMMA RecordOfLive ==
  ASSUME Shapes, Fenced, DeletedStaysDeleted, UNCHANGED <<rejected, entry>>,
         NEW n \in Nzb, n \notin rejected, DOMAIN status' = Nzb,
         \A m \in Nzb : m # n => /\ status'[m] = status[m]
                                 /\ \A s \in Seg : <<m, s>> \in files' => <<m, s>> \in files,
         \A t \in Thread : pc[t] = "purge" => pc'[t] = "purge" /\ nz'[t] = nz[t]
  PROVE  Fenced' /\ DeletedStaysDeleted'
BY DEF Fenced, DeletedStaysDeleted, Clean

\* The overlay of an entry is removed, by the thread that said it would.
LEMMA RecordPurged ==
  ASSUME Shapes, Fenced, DeletedStaysDeleted, NEW p \in Thread, DeleteEntry(nz[p]),
         UNCHANGED <<entry, nz>>,
         \A t \in Thread : t # p /\ pc[t] = "purge" => pc'[t] = "purge"
  PROVE  Fenced' /\ DeletedStaysDeleted' /\ DOMAIN status' = Nzb
<1> DEFINE n == nz[p]
<1>1. n \in Nzb BY DEF Shapes
<1>2. /\ rejected' = rejected /\ DOMAIN status' = Nzb
      /\ \A m \in Nzb : status'[m] = IF m = n THEN Clean ELSE status[m]
      /\ \A m \in Nzb, s \in Seg : <<m, s>> \in files' <=> <<m, s>> \in files /\ m # n
  BY DEF DeleteEntry, Shapes
<1> HIDE DEF n
<1>3. Fenced' BY <1>2 DEF Fenced
<1>4. ASSUME NEW m \in Nzb, m \notin entry, m # n
      PROVE  \/ \E t \in Thread : pc'[t] = "purge" /\ nz'[t] = m
             \/ status'[m] = Clean /\ \A s \in Seg : <<m, s>> \notin files'
  <2>1. CASE status[m] = Clean /\ \A s \in Seg : <<m, s>> \notin files
    BY <1>2, <1>4, <2>1
  <2>2. CASE \E t \in Thread : pc[t] = "purge" /\ nz[t] = m
    BY <1>4, <2>2 DEF n
  <2> QED BY <1>4, <2>1, <2>2 DEF DeletedStaysDeleted
<1>5. DeletedStaysDeleted' BY <1>2, <1>4 DEF DeletedStaysDeleted, Clean
<1> QED BY <1>2, <1>3, <1>5

\* The entry goes, fenced, and the thread goes on to purge it.
LEMMA RecordDeleted ==
  ASSUME Shapes, Fenced, DeletedStaysDeleted, NEW p \in Thread, Delete(nz[p]),
         goto(p, "purge"), UNCHANGED nz
  PROVE  Fenced' /\ DeletedStaysDeleted'
<1>1. pc'[p] = "purge" /\ \A t \in Thread : t # p => pc'[t] = pc[t]
  BY DEF goto, Shapes
<1> QED BY <1>1 DEF Delete, Fenced, DeletedStaysDeleted, Shapes, Clean

\* Most steps move one thread on and leave the rest to the registry.
LEMMA Move ==
  ASSUME IInv, NEW t \in Thread, NEW l, goto(t, l),
         UNCHANGED <<nz, running, queue, deferred, todo, status, files, rejected, entry>>,
         urgent' \subseteq Nzb,
         pc[t] # "idle", pc[t] # "purge",
         t \in Runner /\ l \in Working => pc[t] \in Working
  PROVE  IInv'
<1>1. Shapes' BY DEF IInv, Shapes, goto
<1>2. Owners' BY MoveKeepsOwners DEF IInv
<1>3. \A u \in Thread : pc[u] = "purge" => pc'[u] = "purge" /\ nz'[u] = nz[u]
  BY DEF IInv, Shapes, goto
<1>4. Fenced' /\ DeletedStaysDeleted' BY <1>3, SameRecord DEF IInv
<1> QED BY <1>1, <1>2, <1>4 DEF IInv

\* What touches neither threads nor lanes nor the overlay.
LEMMA Stay ==
  ASSUME IInv, UNCHANGED <<pc, nz, running, deferred, todo, urgent>>, queue' \in Seq(Nzb),
         UNCHANGED <<status, files, rejected, entry>>
  PROVE  IInv'
BY SameRecord DEF IInv, Shapes, Owners

LEMMA EnqueueUrgentStep ==
  ASSUME IInv, NEW t \in Thread, EnqueueUrgent(t)
  PROVE  IInv'
<1> DEFINE n == nz[t]
<1>1. n \in Nzb /\ returned(t) \notin Working
  BY DEF IInv, Shapes, returned, Working
<1>2. CASE Merge(t)
  <2>1. pc[t] = "merge" BY <1>2 DEF Merge
  <2>2. CASE UNCHANGED running
    <3>1. PICK l \in {returned(t), "claimq"} : goto(t, l)
      BY <1>2, <2>2 DEF Merge
    <3>2. l \notin Working BY <1>1, <3>1 DEF Working
    <3>3. /\ UNCHANGED <<nz, running, queue, deferred, todo, status, files, rejected, entry>>
          /\ urgent' \subseteq Nzb
      BY <1>2, <2>2 DEF Merge, store, world, IInv, Shapes
    <3> QED BY <2>1, <3>1, <3>2, <3>3, Move
  <2>3. CASE running' = [running EXCEPT ![n].merged = TRUE] /\ goto(t, returned(t))
    <3>1. /\ running' \in [Nzb -> Job]
          /\ \A m \in Nzb : running'[m].by = running[m].by
      BY <1>1, <2>3 DEF IInv, Shapes, Job
    <3>2. pc' = [pc EXCEPT ![t] = returned(t)] BY <2>3 DEF goto
    <3>3. UNCHANGED <<nz, queue, deferred, todo, urgent, status, files, rejected, entry>>
      BY <1>2 DEF Merge, store, world
    <3>4. Shapes' BY <1>1, <3>1, <3>2, <3>3 DEF IInv, Shapes
    <3>5. Owners'
      BY <1>1, <2>1, <3>1, <3>2, <3>3, Threads DEF IInv, Shapes, Owners
    <3>6. Fenced' /\ DeletedStaysDeleted'
      BY <2>1, <3>2, <3>3, SameRecord DEF IInv, Shapes
    <3> QED BY <3>4, <3>5, <3>6 DEF IInv
  <2> QED BY <1>2, <2>2, <2>3 DEF Merge
<1>3. CASE Claim(t)
  <2>1. PICK l \in {returned(t), "preempt"} : goto(t, l)
    BY <1>3 DEF Claim
  <2>2. l \notin Working BY <1>1, <2>1 DEF Working
  <2>3. /\ UNCHANGED <<nz, running, queue, deferred, todo, status, files, rejected, entry>>
        /\ urgent' \subseteq Nzb /\ pc[t] = "claimq"
    BY <1>3 DEF Claim, lanes, store, world, IInv, Shapes
  <2> QED BY <2>1, <2>2, <2>3, Move
<1>4. CASE Preempt(t)
  <2>1. /\ running' \in [Nzb -> Job]
        /\ \A m \in Nzb : running'[m].by = running[m].by
    <3>1. PICK b \in BOOLEAN : running' = [running EXCEPT ![n].preempted = b]
      BY <1>1, <1>4 DEF Preempt, IInv, Shapes, Job
    <3> QED BY <1>1, <3>1 DEF IInv, Shapes, Job
  <2>2. pc[t] = "preempt" /\ pc' = [pc EXCEPT ![t] = "push"] BY <1>4 DEF Preempt, goto
  <2>3. UNCHANGED <<nz, queue, deferred, todo, urgent, status, files, rejected, entry>>
    BY <1>4 DEF Preempt, store, world
  <2>4. Shapes' BY <2>1, <2>2, <2>3 DEF IInv, Shapes
  <2>5. Owners'
    BY <2>1, <2>2, <2>3, Threads DEF IInv, Shapes, Owners, Working
  <2>6. Fenced' /\ DeletedStaysDeleted'
    BY <2>2, <2>3, SameRecord DEF IInv, Shapes
  <2> QED BY <2>4, <2>5, <2>6 DEF IInv
<1>5. CASE Push(t)
  <2>1. urgent' \subseteq Nzb BY <1>1, <1>5 DEF Push, IInv, Shapes
  <2> QED BY <1>1, <1>5, <2>1, Move DEF Push, store, world
<1> QED BY <1>2, <1>3, <1>4, <1>5 DEF EnqueueUrgent

\* An idle thread turns to an entry.
LEMMA Take ==
  ASSUME IInv, NEW t \in Thread, NEW n \in Nzb, nz' = [nz EXCEPT ![t] = n],
         pc[t] = "idle", NEW l, l \notin Working,
         DOMAIN pc' = Thread, pc'[t] = l, \A u \in Thread : u # t => pc'[u] = pc[u],
         \A m \in Nzb : t = <<"now", m>> => n = m,
         UNCHANGED <<running, status, files, rejected, entry>>,
         queue' \in Seq(Nzb), deferred' \subseteq Nzb, todo' \subseteq Nzb, urgent' \subseteq Nzb
  PROVE  IInv'
<1>1. Shapes' BY DEF IInv, Shapes
<1>2. \A u \in Thread : pc[u] = "purge" => pc'[u] = "purge" /\ nz'[u] = nz[u]
  BY DEF IInv, Shapes
<1>3. Owners'
  <2>1. \A u \in Thread : nz'[u] = IF u = t THEN n ELSE nz[u] BY DEF IInv, Shapes
  <2>2. ASSUME NEW u \in Runner, pc'[u] \in Working PROVE running'[nz'[u]].by = u
    BY <2>1, <2>2, Threads DEF IInv, Owners
  <2>3. ASSUME NEW m \in Nzb, pc'[<<"now", m>>] # "idle" PROVE nz'[<<"now", m>>] = m
    BY <2>1, <2>3, Threads DEF IInv, Owners
  <2> QED BY <2>2, <2>3 DEF Owners
<1>4. Fenced' /\ DeletedStaysDeleted' BY <1>2, SameRecord DEF IInv
<1> QED BY <1>1, <1>3, <1>4 DEF IInv

LEMMA PopUrgentStep ==
  ASSUME IInv, NEW w \in Worker, PopUrgent(w)
  PROVE  IInv'
<1>1. w \in Thread /\ pc[w] = "idle" /\ DOMAIN pc = Thread
  BY Threads DEF PopUrgent, IInv, Shapes
<1>2. UNCHANGED <<running, queue, deferred, todo, status, files, rejected, entry>>
  BY DEF PopUrgent, store, world
<1>3. ASSUME NEW n \in urgent, urgent' = urgent \ {n}, nz' = [nz EXCEPT ![w] = n],
             goto(w, "claim") \/ UNCHANGED pc
      PROVE  IInv'
  <2>1. n \in Nzb /\ urgent' \subseteq Nzb BY <1>3 DEF IInv, Shapes
  <2>2. /\ DOMAIN pc' = Thread /\ pc'[w] \notin Working
        /\ \A u \in Thread : u # w => pc'[u] = pc[u]
    BY <1>1, <1>3 DEF goto, Working
  <2>3. \A m \in Nzb : w # <<"now", m>> BY Threads
  <2>4. queue' \in Seq(Nzb) /\ deferred' \subseteq Nzb /\ todo' \subseteq Nzb
    BY <1>2 DEF IInv, Shapes
  <2> QED BY <1>1, <1>2, <1>3, <2>1, <2>2, <2>3, <2>4, Take
<1>4. ASSUME NEW l \in {"asleep", "gone"}, goto(w, l), UNCHANGED <<urgent, nz>> PROVE IInv'
  <2>1. Shapes' BY <1>1, <1>2, <1>4 DEF IInv, Shapes, goto
  <2>2. \A u \in Thread : pc'[u] = IF u = w THEN l ELSE pc[u] BY <1>1, <1>4 DEF goto
  <2>3. Owners'
    <3>1. l \notin Working BY <1>4 DEF Working
    <3>2. \A m \in Nzb : <<"now", m>> \in Thread /\ w # <<"now", m>> BY Threads
    <3> QED BY <1>2, <1>4, <2>2, <3>1, <3>2, Threads DEF IInv, Owners
  <2>4. \A u \in Thread : pc[u] = "purge" => pc'[u] = "purge" /\ nz'[u] = nz[u]
    BY <1>1, <1>4, <2>2
  <2>5. Fenced' /\ DeletedStaysDeleted' BY <1>2, <2>4, SameRecord DEF IInv
  <2> QED BY <2>1, <2>3, <2>5 DEF IInv
<1> QED BY <1>3, <1>4 DEF PopUrgent

LEMMA LoopStep ==
  ASSUME IInv, LoopTake \/ LoopTick \/ LoopStops
  PROVE  IInv'
<1>1. Loop \in Thread /\ pc[Loop] = "idle" /\ DOMAIN pc = Thread /\ \A m \in Nzb : Loop # <<"now", m>>
  BY Threads DEF LoopTake, LoopTick, LoopStops, IInv, Shapes
<1>2. UNCHANGED <<running, urgent, status, files, rejected, entry>>
  BY DEF LoopTake, LoopTick, LoopStops, lanes, store, world
<1>3. ASSUME NEW n \in Nzb, nz' = [nz EXCEPT ![Loop] = n], goto(Loop, "claim") \/ UNCHANGED pc,
             queue' \in Seq(Nzb), deferred' \subseteq Nzb, todo' \subseteq Nzb
      PROVE  IInv'
  <2>1. /\ DOMAIN pc' = Thread /\ pc'[Loop] \notin Working
        /\ \A u \in Thread : u # Loop => pc'[u] = pc[u]
    BY <1>1, <1>3 DEF goto, Working
  <2>2. urgent' \subseteq Nzb BY <1>2 DEF IInv, Shapes
  <2> QED BY <1>1, <1>2, <1>3, <2>1, <2>2, Take
<1>4. CASE LoopTake
  <2> DEFINE n == Head(queue)
  <2>1. n \in Nzb /\ queue' \in Seq(Nzb)
    BY <1>4, HeadTailProperties DEF LoopTake, IInv, Shapes
  <2>2. nz' = [nz EXCEPT ![Loop] = n] /\ (goto(Loop, "claim") \/ UNCHANGED pc)
    BY <1>4 DEF LoopTake
  <2>3. deferred' \subseteq Nzb /\ todo' \subseteq Nzb
    BY <1>4, <2>1 DEF LoopTake, IInv, Shapes
  <2> QED BY <1>3, <2>1, <2>2, <2>3
<1>5. CASE LoopTick
  <2>1. queue' \in Seq(Nzb) BY <1>5 DEF LoopTick, IInv, Shapes
  <2>2. deferred' \subseteq Nzb /\ todo' \subseteq Nzb BY <1>5 DEF LoopTick, IInv, Shapes
  <2>3. CASE UNCHANGED <<pc, nz>>
    BY <1>2, <2>1, <2>2, <2>3, SameRecord DEF IInv, Shapes, Owners
  <2>4. ASSUME NEW n \in todo, nz' = [nz EXCEPT ![Loop] = n], goto(Loop, "claim") \/ UNCHANGED pc
        PROVE  IInv'
    <3>1. n \in Nzb BY <2>4 DEF IInv, Shapes
    <3> QED BY <1>3, <2>1, <2>2, <2>4, <3>1
  <2> QED BY <1>5, <2>3, <2>4 DEF LoopTick
<1>6. CASE LoopStops
  <2>1. UNCHANGED <<nz, queue, deferred, todo>> BY <1>6 DEF LoopStops, lanes
  <2>2. \A u \in Thread : pc'[u] = IF u = Loop THEN "gone" ELSE pc[u]
    BY <1>1, <1>6 DEF LoopStops, goto
  <2>3. Shapes' BY <1>1, <1>2, <1>6, <2>1 DEF LoopStops, IInv, Shapes, goto
  <2>4. Owners'
    <3>1. \A m \in Nzb : <<"now", m>> \in Thread BY Threads
    <3> QED BY <1>1, <1>2, <2>1, <2>2, <3>1, Threads DEF IInv, Owners, Working
  <2>5. Fenced' /\ DeletedStaysDeleted' BY <1>1, <1>2, <2>1, <2>2, SameRecord DEF IInv
  <2> QED BY <2>3, <2>4, <2>5 DEF IInv
<1> QED BY <1>4, <1>5, <1>6

LEMMA BatchStep ==
  ASSUME IInv, NEW n \in Nzb,
         Enqueue(n) \/ RunNow(n) \/ Reserve(n) \/ Override(n) \/ Leave(n)
  PROVE  IInv'
<1> DEFINE t == <<"now", n>>
<1>1. t \in Thread /\ DOMAIN pc = Thread /\ \A m \in Nzb : t = <<"now", m>> => n = m
  BY Threads DEF IInv, Shapes
<1>2. UNCHANGED <<running, deferred, todo, urgent, status, files, rejected, entry>>
  BY DEF Enqueue, RunNow, Reserve, Override, Leave, lanes, store, world
<1>3. CASE Enqueue(n)
  <2>1. queue' \in Seq(Nzb) BY <1>3, AppendProperties DEF Enqueue, IInv, Shapes
  <2> QED BY <1>2, <1>3, <2>1, Stay DEF Enqueue, thread
<1>4. CASE RunNow(n)
  <2>1. /\ pc[t] = "idle" /\ nz' = [nz EXCEPT ![t] = n] /\ UNCHANGED queue
        /\ pc' = [pc EXCEPT ![t] = "reserve"]
    BY <1>4 DEF RunNow, lanes, goto
  <2> HIDE DEF t
  <2>2. /\ DOMAIN pc' = Thread /\ pc'[t] = "reserve"
        /\ \A u \in Thread : u # t => pc'[u] = pc[u]
    BY <1>1, <2>1
  <2>3. "reserve" \notin Working BY DEF Working
  <2>4. queue' \in Seq(Nzb) /\ deferred' \subseteq Nzb /\ todo' \subseteq Nzb /\ urgent' \subseteq Nzb
    BY <1>2, <2>1 DEF IInv, Shapes
  <2> QED BY <1>1, <1>2, <2>1, <2>2, <2>3, <2>4, Take
<1>5. CASE Reserve(n) \/ Override(n) \/ Leave(n)
  <2>1. UNCHANGED <<nz, queue>> /\ pc[t] \in {"reserve", "override", "leave"}
    BY <1>5 DEF Reserve, Override, Leave, lanes
  <2>2. PICK l \in {"idle", "override", "claim"} : goto(t, l)
    BY <1>5 DEF Reserve, Override, Leave
  <2> HIDE DEF t
  <2>3. l \notin Working BY <2>2 DEF Working
  <2>4. urgent' \subseteq Nzb BY <1>2 DEF IInv, Shapes
  <2> QED BY <1>1, <1>2, <2>1, <2>2, <2>3, <2>4, Move
<1> QED BY <1>3, <1>4, <1>5

\* The registry of running passes: taken when free, given back by its owner.
LEMMA ClaimRunStep ==
  ASSUME IInv, NEW t \in Runner, ClaimRun(t)
  PROVE  IInv'
<1> DEFINE n == nz[t]
<1>1. t \in Thread /\ n \in Nzb /\ pc[t] = "claim" /\ DOMAIN pc = Thread
  BY Threads DEF ClaimRun, IInv, Shapes
<1>2. UNCHANGED <<nz, queue, deferred, todo, urgent, status, files, rejected, entry>>
  BY DEF ClaimRun, store, world
<1>3. CASE /\ running[n] = NoJob /\ goto(t, "start")
           /\ running' = [running EXCEPT ![n] = [NoJob EXCEPT !.by = t]]
  <2>1. \A j \in Job : [j EXCEPT !.by = t] \in Job /\ [j EXCEPT !.by = t].by = t
    BY DEF Job
  <2>2. NoJob \in Job
    BY DEF Job, NoJob
  <2>3. /\ running' \in [Nzb -> Job]
        /\ \A m \in Nzb : running'[m].by = IF m = n THEN t ELSE running[m].by
    BY <1>1, <1>3, <2>1, <2>2 DEF IInv, Shapes
  <2>4. \A u \in Thread : pc'[u] = IF u = t THEN "start" ELSE pc[u]
    BY <1>1, <1>3 DEF goto
  <2>5. Shapes' BY <1>1, <1>2, <1>3, <2>3 DEF IInv, Shapes, goto
  <2>6. running[n].by = <<None>> BY <1>3 DEF NoJob
  <2>7. Owners'
    <3>1. \A u \in Runner : u \in Thread /\ nz[u] \in Nzb /\ u # <<None>>
      BY Threads DEF IInv, Shapes
    <3>2. ASSUME NEW u \in Runner, pc'[u] \in Working PROVE running'[nz'[u]].by = u
      <4>1. CASE u = t BY <1>1, <1>2, <2>3, <4>1
      <4>2. CASE u # t
        <5>1. running[nz[u]].by = u BY <2>4, <3>1, <3>2, <4>2 DEF IInv, Owners
        <5>2. nz[u] # n BY <2>6, <3>1, <5>1
        <5> QED BY <1>2, <2>3, <3>1, <5>1, <5>2
      <4> QED BY <4>1, <4>2
    <3>3. ASSUME NEW m \in Nzb, pc'[<<"now", m>>] # "idle" PROVE nz'[<<"now", m>>] = m
      BY <1>1, <1>2, <2>4, <3>3, Threads DEF IInv, Owners
    <3> QED BY <3>2, <3>3 DEF Owners
  <2>8. Fenced' /\ DeletedStaysDeleted' BY <1>1, <1>2, <2>4, SameRecord DEF IInv
  <2> QED BY <2>5, <2>7, <2>8 DEF IInv
<1>4. ASSUME UNCHANGED running, NEW l, goto(t, l), l = "merge" \/ l = returned(t)
      PROVE  IInv'
  <2>1. l \notin Working BY <1>4 DEF returned, Working
  <2>2. urgent' \subseteq Nzb BY <1>2 DEF IInv, Shapes
  <2> QED BY <1>1, <1>2, <1>4, <2>1, <2>2, Move
<1> QED BY <1>3, <1>4 DEF ClaimRun

LEMMA DeregisterStep ==
  ASSUME IInv, NEW t \in Runner, Deregister(t)
  PROVE  IInv'
<1> DEFINE n == nz[t]
<1>1. t \in Thread /\ n \in Nzb /\ pc[t] = "deregister" /\ DOMAIN pc = Thread
  BY Threads DEF Deregister, IInv, Shapes
<1>2. UNCHANGED <<nz, queue, deferred, todo, urgent, status, files, rejected, entry>>
  BY DEF Deregister, store, world
<1>3. PICK l : goto(t, l) /\ l \notin Working
  BY DEF Deregister, returned, Working
<1>4. NoJob \in Job BY DEF NoJob, Job
<1>5. /\ running' \in [Nzb -> Job]
      /\ \A m \in Nzb : running[m].by # t => running'[m].by = running[m].by
  BY <1>1, <1>4 DEF Deregister, IInv, Shapes
<1>6. \A u \in Thread : pc'[u] = IF u = t THEN l ELSE pc[u]
  BY <1>1, <1>3 DEF goto
<1>7. Shapes' BY <1>1, <1>2, <1>3, <1>5 DEF IInv, Shapes, goto
<1>8. Owners'
  <2>1. \A u \in Runner : u \in Thread /\ nz[u] \in Nzb
    BY Threads DEF IInv, Shapes
  <2>2. ASSUME NEW u \in Runner, pc'[u] \in Working PROVE running'[nz'[u]].by = u
    BY <1>2, <1>3, <1>5, <1>6, <2>1, <2>2 DEF IInv, Owners
  <2>3. ASSUME NEW m \in Nzb, pc'[<<"now", m>>] # "idle" PROVE nz'[<<"now", m>>] = m
    BY <1>1, <1>2, <1>6, <2>3, Threads DEF IInv, Owners
  <2> QED BY <2>2, <2>3 DEF Owners
<1>9. Fenced' /\ DeletedStaysDeleted' BY <1>1, <1>2, <1>6, SameRecord DEF IInv
<1> QED BY <1>7, <1>8, <1>9 DEF IInv

LEMMA PassStep ==
  ASSUME IInv, NEW t \in Runner,
         \/ StartPass(t) \/ Patch(t) \/ PassFails(t) \/ PassPanics(t) \/ RegrabOnTerminal(t)
         \/ PassSucceeds(t) \/ ReleaseClaim(t)
  PROVE  IInv'
<1> DEFINE n == nz[t]
<1>1. t \in Thread /\ n \in Nzb /\ DOMAIN pc = Thread
  BY Threads DEF IInv, Shapes
<1>2. UNCHANGED <<nz, running, queue, deferred, todo, urgent>>
  BY DEF StartPass, Patch, PassFails, PassPanics, RegrabOnTerminal, PassSucceeds, ReleaseClaim, lanes
<1>3. urgent' \subseteq Nzb BY <1>2 DEF IInv, Shapes
<1>4. ASSUME UNCHANGED <<status, files, rejected, entry>>, NEW l, goto(t, l),
             pc[t] \in Working, pc[t] # "purge"
      PROVE  IInv'
  BY <1>1, <1>2, <1>3, <1>4, Move DEF Working
<1>5. CASE StartPass(t)
  <2>1. PICK l : goto(t, l) BY <1>5 DEF StartPass
  <2>2. UNCHANGED <<status, files, rejected, entry>> /\ pc[t] = "start"
    BY <1>5 DEF StartPass, UnfailRepaired, store, world
  <2> QED BY <1>4, <2>1, <2>2 DEF Working
<1>6. CASE Patch(t)
  <2>1. PICK s \in pend[t] : n \notin rejected /\ WritePatch(n, s)
    BY <1>6 DEF Patch
  <2>2. /\ UNCHANGED <<pc, rejected, entry>> /\ DOMAIN status' = Nzb
        /\ \A m \in Nzb : m # n => status'[m] = status[m]
        /\ files' = files \cup {<<n, s>>}
    BY <1>1, <1>6, <2>1 DEF Patch, WritePatch, world, IInv, Shapes
  <2>3. \A m \in Nzb : m # n => \A x \in Seg : <<m, x>> \in files' => <<m, x>> \in files
    BY <2>2
  <2>4. Shapes' /\ Owners' BY <1>2, <2>2 DEF IInv, Shapes, Owners
  <2>5. Fenced' /\ DeletedStaysDeleted'
    <3> HIDE DEF n
    <3> QED BY <1>1, <1>2, <2>1, <2>2, <2>3, RecordOfLive DEF IInv
  <2> QED BY <2>4, <2>5 DEF IInv
<1>7. CASE PassFails(t)
  <2>1. PICK l : goto(t, l) BY <1>7 DEF PassFails
  <2>2. UNCHANGED <<status, files, rejected, entry>> /\ pc[t] = "repair"
    BY <1>7 DEF PassFails, store, world
  <2> QED BY <1>4, <2>1, <2>2 DEF Working
<1>8. CASE PassPanics(t)
  <2>1. PICK l : goto(t, l) BY <1>8 DEF PassPanics
  <2>2. UNCHANGED <<status, files, rejected, entry>> /\ pc[t] \in {"repair", "recover"}
    BY <1>8 DEF PassPanics, store, world
  <2> QED BY <1>4, <2>1, <2>2 DEF Working
<1>9. CASE RegrabOnTerminal(t)
  <2>1. CASE pc[t] = "regrab" /\ Delete(n) /\ goto(t, "purge")
    <3>1. Shapes' BY <1>1, <1>2, <2>1 DEF Delete, IInv, Shapes, goto
    <3>2. Owners' BY <1>1, <1>2, <2>1, MoveKeepsOwners DEF IInv, Working
    <3>3. Fenced' /\ DeletedStaysDeleted' BY <1>1, <1>2, <2>1, RecordDeleted DEF IInv
    <3> QED BY <3>1, <3>2, <3>3 DEF IInv
  <2>2. CASE pc[t] = "regrab" /\ UNCHANGED <<store, world>> /\ goto(t, "defer")
    BY <1>4, <2>2 DEF store, world, Working
  <2>3. CASE pc[t] = "purge" /\ DeleteEntry(n) /\ goto(t, "defer") /\ UNCHANGED world
    <3>1. Fenced' /\ DeletedStaysDeleted' /\ DOMAIN status' = Nzb
      <4>1. \A u \in Thread : u # t /\ pc[u] = "purge" => pc'[u] = "purge"
        BY <1>1, <2>3 DEF goto
      <4> QED BY <1>1, <1>2, <2>3, <4>1, RecordPurged DEF IInv, world
    <3>2. Shapes' BY <1>1, <1>2, <2>3, <3>1 DEF IInv, Shapes, goto
    <3>3. Owners' BY <1>1, <1>2, <2>3, MoveKeepsOwners DEF IInv, Working
    <3> QED BY <3>1, <3>2, <3>3 DEF IInv
  <2> QED BY <1>9, <2>1, <2>2, <2>3 DEF RegrabOnTerminal
<1>10. CASE PassSucceeds(t)
  <2>1. UNCHANGED <<status, files, rejected, entry>> /\ pc[t] = "repair" /\ goto(t, "defer")
    BY <1>10 DEF PassSucceeds, UnfailRepaired, world
  <2> QED BY <1>4, <2>1 DEF Working
<1>11. CASE ReleaseClaim(t)
  <2>1. PICK l : goto(t, l) BY <1>11 DEF ReleaseClaim
  <2>2. UNCHANGED <<status, files, rejected, entry>> /\ pc[t] = "defer"
    BY <1>11 DEF ReleaseClaim, store, world
  <2> QED BY <1>4, <2>1, <2>2 DEF Working
<1> QED BY <1>5, <1>6, <1>7, <1>8, <1>9, <1>10, <1>11

LEMMA ReaderStep ==
  ASSUME IInv, \/ \E n \in Nzb, s \in Seg : FindDead(n, s)
               \/ \E v \in BOOLEAN : DecidePad(v)
  PROVE  IInv'
<1>1. Reader \in Thread /\ Reader \notin Runner /\ DOMAIN pc = Thread /\ nz[Reader] \in Nzb
  BY Threads DEF IInv, Shapes
<1>2. ASSUME NEW n \in Nzb, NEW s \in Seg, FindDead(n, s) PROVE IInv'
  <2>1. /\ pc[Reader] = "idle" /\ pc' = [pc EXCEPT ![Reader] = "decide"]
        /\ nz' = [nz EXCEPT ![Reader] = n]
        /\ UNCHANGED <<running, queue, deferred, todo, urgent, status, files, rejected, entry>>
    BY <1>2 DEF FindDead, goto, lanes, store, world
  <2>2. /\ DOMAIN pc' = Thread /\ pc'[Reader] = "decide"
        /\ \A u \in Thread : u # Reader => pc'[u] = pc[u]
    BY <1>1, <2>1
  <2>3. queue' \in Seq(Nzb) /\ deferred' \subseteq Nzb /\ todo' \subseteq Nzb /\ urgent' \subseteq Nzb
    BY <2>1 DEF IInv, Shapes
  <2>4. "decide" \notin Working /\ \A m \in Nzb : Reader # <<"now", m>>
    BY <1>1, Threads DEF Working
  <2> QED BY <1>1, <2>1, <2>2, <2>3, <2>4, Take
<1>3. ASSUME NEW v \in BOOLEAN, DecidePad(v) PROVE IInv'
  <2> DEFINE n == nz[Reader]
  <2>1. pc[Reader] = "decide" /\ UNCHANGED <<nz, running, queue, deferred, todo, urgent, entry>>
    BY <1>3 DEF DecidePad, lanes, world
  <2>2. PICK l \in {"merge", "idle"} : goto(Reader, l)
    BY <1>3 DEF DecidePad
  <2>3. CASE UNCHANGED store
    BY <1>1, <2>1, <2>2, <2>3, Move DEF store, IInv, Shapes
  <2>4. ASSUME NEW s \in pend[Reader], Decide(n, s, v) PROVE IInv'
    <3>1. /\ n \notin rejected /\ UNCHANGED <<files, rejected>> /\ DOMAIN status' = Nzb
          /\ \A m \in Nzb : m # n => status'[m] = status[m]
      BY <2>4 DEF Decide, IInv, Shapes
    <3>2. Shapes' BY <1>1, <2>1, <2>2, <3>1 DEF IInv, Shapes, goto
    <3>3. Owners' BY <1>1, <2>1, <2>2, MoveKeepsOwners DEF IInv
    <3>4. \A u \in Thread : pc[u] = "purge" => pc'[u] = "purge" /\ nz'[u] = nz[u]
      BY <1>1, <2>1, <2>2 DEF goto
    <3>5. Fenced' /\ DeletedStaysDeleted'
      <4> HIDE DEF n
      <4>1. n \in Nzb BY <1>1 DEF n
      <4> QED BY <2>1, <3>1, <3>4, <4>1, RecordOfLive DEF IInv
    <3> QED BY <3>2, <3>3, <3>5 DEF IInv
  <2> QED BY <1>3, <2>3, <2>4 DEF DecidePad
<1> QED BY <1>2, <1>3

\* Router, sweep and manual re-grab are no runners: they never own a pass.
LEMMA RegrabBegins ==
  ASSUME IInv, NEW n \in Nzb, Route(n) \/ Sweep(n) \/ Research(n)
  PROVE  IInv'
<1>1. PICK t \in {Router, Sweeper, Manual}, l \in {"merge", "regrabbing"} :
        pc[t] = "idle" /\ pc' = [pc EXCEPT ![t] = l] /\ nz' = [nz EXCEPT ![t] = n]
  BY DEF Route, Sweep, Research, goto
<1>2. UNCHANGED <<running, queue, deferred, todo, urgent, status, files, rejected, entry>>
  BY DEF Route, Sweep, Research, UnfailRepaired, lanes, store, world
<1>3. t \in Thread /\ t \notin Runner /\ DOMAIN pc = Thread
  BY <1>1, Threads DEF IInv, Shapes
<1>4. /\ DOMAIN pc' = Thread /\ pc'[t] = l
      /\ \A u \in Thread : u # t => pc'[u] = pc[u]
  BY <1>1, <1>3
<1>5. queue' \in Seq(Nzb) /\ deferred' \subseteq Nzb /\ todo' \subseteq Nzb /\ urgent' \subseteq Nzb
  BY <1>2 DEF IInv, Shapes
<1>6. l \notin Working /\ \A m \in Nzb : t # <<"now", m>>
  BY <1>1, <1>3, Threads DEF Working
<1> QED BY <1>1, <1>2, <1>3, <1>4, <1>5, <1>6, Take

LEMMA RegrabEnds ==
  ASSUME IInv, \/ \E t \in {Router, Sweeper, Manual} : Replace(t)
               \/ RouteEnds \/ SweepEnds \/ ResearchEnds \/ ColdSweepEnds
  PROVE  IInv'
<1>1. \A t \in {Router, Sweeper, Manual} : t \in Thread /\ t \notin Runner /\ nz[t] \in Nzb
  BY Threads DEF IInv, Shapes
<1>2. DOMAIN pc = Thread BY DEF IInv, Shapes
<1>3. UNCHANGED <<nz, running, queue, deferred, todo, urgent>>
  BY DEF Replace, RouteEnds, SweepEnds, ResearchEnds, ColdSweepEnds, lanes
<1>4. ASSUME NEW t \in {Router, Sweeper, Manual}, Replace(t) PROVE IInv'
  <2>1. pc[t] = "regrabbing" /\ Delete(nz[t]) /\ goto(t, "purge")
    BY <1>4 DEF Replace
  <2>2. Shapes' BY <1>1, <1>2, <1>3, <2>1 DEF IInv, Shapes, goto, Delete
  <2>3. Owners' BY <1>1, <1>3, <2>1, MoveKeepsOwners DEF IInv
  <2>4. Fenced' /\ DeletedStaysDeleted' BY <1>1, <1>3, <2>1, RecordDeleted DEF IInv
  <2> QED BY <2>2, <2>3, <2>4 DEF IInv
<1>5. ASSUME NEW t \in {Router, Sweeper, Manual}, regrabEnds(t), goto(t, "idle") PROVE IInv'
  <2>1. CASE pc[t] = "regrabbing" /\ UNCHANGED <<store, world>>
    BY <1>1, <1>3, <1>5, <2>1, Move DEF store, world, IInv, Shapes
  <2>2. CASE pc[t] = "purge" /\ DeleteEntry(nz[t]) /\ UNCHANGED world
    <3>1. Fenced' /\ DeletedStaysDeleted' /\ DOMAIN status' = Nzb
      <4>1. \A u \in Thread : u # t /\ pc[u] = "purge" => pc'[u] = "purge"
        BY <1>1, <1>2, <1>5 DEF goto
      <4> QED BY <1>1, <1>3, <2>2, <4>1, RecordPurged DEF IInv, world
    <3>2. Shapes' BY <1>1, <1>2, <1>3, <1>5, <3>1 DEF IInv, Shapes, goto
    <3>3. Owners' BY <1>1, <1>3, <1>5, <2>2, MoveKeepsOwners DEF IInv
    <3> QED BY <3>1, <3>2, <3>3 DEF IInv
  <2> QED BY <1>5, <2>1, <2>2 DEF regrabEnds
<1>6. CASE ColdSweepEnds
  <2>1. PICK l \in {"idle", "regrabbing"} : goto(Sweeper, l)
    BY <1>6 DEF ColdSweepEnds
  <2>2. pc[Sweeper] = "cold" /\ UNCHANGED <<status, files, rejected, entry>>
    BY <1>6 DEF ColdSweepEnds, store, world
  <2> QED BY <1>1, <1>3, <2>1, <2>2, Move DEF IInv, Shapes
<1> QED BY <1>4, <1>5, <1>6 DEF RouteEnds, SweepEnds, ResearchEnds

\* The sweep's own pass: it starts the thread of a manual run, when idle.
LEMMA ColdSweepStep ==
  ASSUME IInv, ColdSweep
  PROVE  IInv'
<1> DEFINE n == nz[Sweeper]
           t == <<"now", n>>
<1>1. n \in Nzb /\ DOMAIN pc = Thread /\ Sweeper \in Thread /\ Sweeper \notin Runner
  BY Threads DEF IInv, Shapes
<1>2. /\ pc[Sweeper] = "regrabbing" /\ nz' = [nz EXCEPT ![t] = n]
      /\ UNCHANGED <<running, queue, deferred, todo, urgent, status, files, rejected, entry>>
  BY DEF ColdSweep, lanes, store, world
<1>3. t \in Runner /\ t \in Thread BY <1>1, Threads
<1>4. DOMAIN pc' = Thread /\ pc'[Sweeper] = "cold"
  BY <1>1, <1>3 DEF ColdSweep
<1>5. \A u \in Thread : u # Sweeper /\ u # t => pc'[u] = pc[u]
  BY <1>1, <1>3 DEF ColdSweep
<1>6. pc'[t] = pc[t] \/ (pc[t] = "idle" /\ pc'[t] = "reserve")
  BY <1>1, <1>3 DEF ColdSweep
<1>7. pc[t] # "idle" => nz[t] = n
  BY <1>1 DEF IInv, Owners
<1>8. \A m \in Nzb : <<"now", m>> = t => m = n
  BY <1>1, Threads
<1> HIDE DEF t
<1>9. \A u \in Thread : nz'[u] = IF u = t THEN n ELSE nz[u]
  BY <1>2, <1>3 DEF IInv, Shapes
<1> HIDE DEF n
<1>10. Shapes' BY <1>1, <1>2, <1>3, <1>4 DEF IInv, Shapes
<1>11. Owners'
  <2>1. ASSUME NEW u \in Runner, pc'[u] \in Working PROVE running'[nz'[u]].by = u
    <3>1. u \in Thread /\ u # Sweeper BY <1>1, Threads
    <3>2. pc[u] \in Working /\ pc[u] # "idle" BY <1>5, <1>6, <2>1, <3>1 DEF Working
    <3>3. nz'[u] = nz[u] BY <1>7, <1>9, <3>1, <3>2
    <3> QED BY <1>2, <3>2, <3>3 DEF IInv, Owners
  <2>2. ASSUME NEW m \in Nzb, pc'[<<"now", m>>] # "idle" PROVE nz'[<<"now", m>>] = m
    <3>1. <<"now", m>> \in Thread /\ <<"now", m>> # Sweeper BY <1>1, Threads
    <3>2. CASE <<"now", m>> = t BY <1>8, <1>9, <3>1, <3>2
    <3>3. CASE <<"now", m>> # t BY <1>5, <1>9, <2>2, <3>1, <3>3 DEF IInv, Owners
    <3> QED BY <3>2, <3>3
  <2> QED BY <2>1, <2>2 DEF Owners
<1>12. \A u \in Thread : pc[u] = "purge" => pc'[u] = "purge" /\ nz'[u] = nz[u]
  BY <1>2, <1>5, <1>6, <1>7, <1>9
<1>13. Fenced' /\ DeletedStaysDeleted' BY <1>2, <1>12, SameRecord DEF IInv
<1> QED BY <1>10, <1>11, <1>13 DEF IInv

\* The sticky pass clears damage, and there is none in a purged record.
LEMMA RecoveredStep ==
  ASSUME IInv, NEW n \in Nzb, Recovered(n)
  PROVE  IInv'
<1>1. /\ Pending(n) # {} /\ UNCHANGED <<files, rejected>>
      /\ status' = [status EXCEPT ![n] = [s \in Seg |-> IF @[s] = "patched" THEN @[s] ELSE "ok"]]
  BY DEF Recovered, ClearFileDamage
<1>2. UNCHANGED <<pc, nz, running, queue, deferred, todo, urgent, entry>>
  BY DEF Recovered, lanes, world, thread
<1>3. DOMAIN status' = Nzb /\ \A m \in Nzb : m # n => status'[m] = status[m]
  BY <1>1 DEF IInv, Shapes
<1>4. status[n] # Clean
  BY <1>1 DEF Pending, unpatched, Clean
<1>5. Shapes' /\ Owners' /\ Fenced'
  BY <1>1, <1>2, <1>3 DEF IInv, Shapes, Owners, Fenced
<1>6. DeletedStaysDeleted'
  BY <1>1, <1>2, <1>3, <1>4 DEF IInv, DeletedStaysDeleted, Clean
<1> QED BY <1>5, <1>6 DEF IInv
-----------------------------------------------------------------------------
LEMMA InitIInv == Init => IInv
<1> SUFFICES ASSUME Init PROVE IInv OBVIOUS
<1>1. NoJob \in Job BY DEF NoJob, Job
<1>2. (CHOOSE n \in Nzb : TRUE) \in Nzb BY ThreadAssumption
<1>3. Shapes BY <1>1, <1>2, EmptySeq DEF Init, Shapes
<1>4. Owners BY Threads DEF Init, Owners, Working
<1>5. Fenced /\ DeletedStaysDeleted BY DEF Init, Fenced, DeletedStaysDeleted
<1> QED BY <1>3, <1>4, <1>5 DEF IInv

LEMMA NextIInv == IInv /\ [Next]_vars => IInv'
<1> SUFFICES ASSUME IInv, [Next]_vars PROVE IInv'
  OBVIOUS
<1>1. CASE \E t \in Thread : EnqueueUrgent(t) BY <1>1, EnqueueUrgentStep
<1>2. CASE \E w \in Worker : PopUrgent(w) BY <1>2, PopUrgentStep
<1>3. ASSUME NEW w \in Worker, Wake(w) PROVE IInv'
  <2>1. PICK l \in {"idle", "gone"} : goto(w, l) BY <1>3 DEF Wake
  <2>2. /\ pc[w] = "asleep" /\ UNCHANGED <<nz, running, queue, deferred, todo, urgent>>
        /\ UNCHANGED <<status, files, rejected, entry>>
    BY <1>3 DEF Wake, store, world
  <2> QED BY <2>1, <2>2, Move, Threads DEF IInv, Shapes, Working
<1>4. ASSUME NEW t \in Runner, RunJob(t) PROVE IInv'
  BY <1>4, ClaimRunStep, PassStep, DeregisterStep DEF RunJob
<1>5. CASE LoopTake \/ LoopTick \/ LoopStops BY <1>5, LoopStep
<1>6. CASE \E n \in Nzb : Enqueue(n) \/ RunNow(n) \/ Reserve(n) \/ Override(n) \/ Leave(n)
  BY <1>6, BatchStep
<1>7. CASE \/ \E n \in Nzb, s \in Seg : FindDead(n, s)
           \/ \E v \in BOOLEAN : DecidePad(v)
  BY <1>7, ReaderStep
<1>8. CASE \E n \in Nzb : Route(n) \/ Sweep(n) \/ Research(n) BY <1>8, RegrabBegins
<1>9. CASE \E n \in Nzb : Recovered(n) BY <1>9, RecoveredStep
<1>10. CASE \/ \E t \in {Router, Sweeper, Manual} : Replace(t)
            \/ RouteEnds \/ SweepEnds \/ ResearchEnds \/ ColdSweepEnds
  BY <1>10, RegrabEnds
<1>11. CASE ColdSweep BY <1>11, ColdSweepStep
<1>12. CASE \/ \E n \in Nzb : BackoffElapses(n) \/ reapIfStale(n)
            \/ Disable \/ Stop \/ UNCHANGED vars
  <2>1. UNCHANGED <<pc, nz, running, queue, deferred, todo, urgent, status, files, rejected, entry>>
    BY <1>12 DEF BackoffElapses, reapIfStale, Disable, Stop, vars, lanes, store, world, thread
  <2> QED BY <2>1, Stay DEF IInv, Shapes
<1> QED BY <1>1, <1>2, <1>3, <1>4, <1>5, <1>6, <1>7, <1>8, <1>9, <1>10, <1>11, <1>12 DEF Next

\* The inductive invariant: who is registered for an entry, and what is left
\* of a deleted one (par2_repair.go, runJob; usenet.go, Delete).
THEOREM Invariant == Spec => []IInv
<1>1. Init => IInv BY InitIInv
<1>2. IInv /\ [Next]_vars => IInv' BY NextIInv
<1> QED BY <1>1, <1>2, PTL DEF Spec

\* Two passes never work on one entry, for any number of urgent workers,
\* beside the batch lane and manual runs, however requests merge, preempt
\* each other and come back (par2_repair.go, claimRun).
THEOREM OnePassAtATime == Spec => []OnePass
<1>1. IInv => OnePass
  BY Threads DEF IInv, Owners, OnePass, InPass, Working
<1> QED BY <1>1, Invariant, PTL

\* Nothing that was in flight on a deleted entry, a patch being written or a
\* dead segment being decided on, brings its record back (usenet.go, Delete).
THEOREM DeletedForGood == Spec => []DeletedStaysDeleted
<1>1. IInv => DeletedStaysDeleted BY DEF IInv
<1> QED BY <1>1, Invariant, PTL
-----------------------------------------------------------------------------
(* The Plex reaper.                                                        *)

ActorFields == {"pc", "copy", "item"}
Inside == {"disk1", "arr1", "fetch", "disk2", "arr2", "delete"}   \* under actMu

\* What a thread inside act goes by: nobody else deletes, so a version of the
\* item it fetched again is still listed; and once the disk was looked at, the
\* item has a live version, no target at "new", and no file came to a target
\* while the disk is settled.
ThreadOk(t) ==
  LET item == actor[t].item IN
  /\ DOMAIN actor[t] = ActorFields
  /\ actor[t].pc \in Inside => actMu = t
  /\ actor[t].pc \in {"disk2", "arr2", "delete"} =>
       \A p \in Reap!Paths : item[p] # "none" => version[p] # "none"
  /\ actor[t].pc \in {"arr2", "delete"} =>
       /\ \E p \in Reap!Paths : item[p] = "live"
       /\ "new" \notin Reap!Targets(t, item)
       /\ settled => ("old" \in Reap!Targets(t, item) => disk["old"] = "gone")

\* The inductive invariant.  A file comes to "new" only where Plex lists no
\* version, and leaves it only together with one.
ReapInv ==
  /\ DOMAIN actor = Reap!Thread2 /\ DOMAIN disk = Reap!Paths /\ DOMAIN version = Reap!Paths
  /\ version["new"] # "none" => disk["new"] # "gone"
  /\ \A t \in Reap!Thread2 : ThreadOk(t)

LEMMA ReapInvInit == Reap!InitReap => ReapInv
<1> SUFFICES ASSUME Reap!InitReap PROVE ReapInv OBVIOUS
<1>1. DOMAIN Reap!Off = ActorFields /\ Reap!Off.pc = "idle" BY DEF Reap!Off, ActorFields
<1>2. /\ actor = [t \in Reap!Thread2 |-> Reap!Off] /\ DOMAIN disk = Reap!Paths
      /\ DOMAIN version = Reap!Paths /\ version["new"] = "none"
  BY DEF Reap!InitReap, Reap!Paths
<1> QED BY <1>1, <1>2 DEF ReapInv, ThreadOk, Inside

\* The world moves, and no thread does.
LEMMA WorldMoves ==
  ASSUME ReapInv, UNCHANGED <<actor, actMu>>,
         DOMAIN disk' = Reap!Paths, DOMAIN version' = Reap!Paths,
         version'["new"] # "none" => disk'["new"] # "gone",
         \A p \in Reap!Paths : version[p] # "none" => version'[p] # "none",
         settled' => settled /\ (disk["old"] = "gone" => disk'["old"] = "gone")
  PROVE  ReapInv'
<1>1. ASSUME NEW t \in Reap!Thread2 PROVE ThreadOk(t)'
  <2>1. ThreadOk(t) /\ Reap!Targets(t, actor[t].item)' = Reap!Targets(t, actor[t].item)
    BY DEF ReapInv, Reap!Targets, Reap!Stale
  <2>2. actor[t].pc \in {"disk2", "arr2", "delete"} =>
          \A p \in Reap!Paths : actor[t].item[p] # "none" => version'[p] # "none"
    BY <2>1 DEF ThreadOk
  <2>3. actor[t].pc \in {"arr2", "delete"} =>
          /\ \E p \in Reap!Paths : actor[t].item[p] = "live"
          /\ "new" \notin Reap!Targets(t, actor[t].item)
          /\ settled' => ("old" \in Reap!Targets(t, actor[t].item) => disk'["old"] = "gone")
    BY <2>1 DEF ThreadOk
  <2> QED BY <2>1, <2>2, <2>3 DEF ThreadOk
<1> QED BY <1>1 DEF ReapInv

\* A thread moves.  The others are outside act if it is inside, and what they
\* go by is not touched otherwise.
LEMMA ThreadMoves ==
  ASSUME ReapInv, NEW t \in Reap!Thread2, NEW r, Reap!Set(t, r), ThreadOk(t)',
         DOMAIN disk' = Reap!Paths, DOMAIN version' = Reap!Paths,
         version'["new"] # "none" => disk'["new"] # "gone",
         actMu \in {t, "none"}
           \/ /\ actMu' = actMu /\ disk' = disk /\ settled' = settled
              /\ \A p \in Reap!Paths : version[p] # "none" => version'[p] # "none"
  PROVE  ReapInv'
<1>1. DOMAIN actor' = Reap!Thread2 /\ \A u \in Reap!Thread2 : u # t => actor'[u] = actor[u]
  BY DEF Reap!Set, ReapInv
<1>2. ASSUME NEW u \in Reap!Thread2, u # t PROVE ThreadOk(u)'
  <2>1. ThreadOk(u) /\ actor'[u] = actor[u] BY <1>1, <1>2 DEF ReapInv
  <2>2. CASE actor[u].pc \notin Inside BY <2>1, <2>2 DEF ThreadOk, Inside
  <2>3. CASE actor[u].pc \in Inside
    <3>1. actMu = u BY <2>1, <2>3 DEF ThreadOk
    <3>2. u # "none" BY DEF Reap!Thread2
    <3>3. /\ actMu' = actMu /\ disk' = disk /\ settled' = settled
          /\ \A p \in Reap!Paths : version[p] # "none" => version'[p] # "none"
      BY <1>2, <3>1, <3>2
    <3>4. Reap!Targets(u, actor[u].item)' = Reap!Targets(u, actor[u].item)
      BY <2>1 DEF Reap!Targets, Reap!Stale
    <3>5. actor[u].pc \in {"disk2", "arr2", "delete"} =>
            \A p \in Reap!Paths : actor[u].item[p] # "none" => version'[p] # "none"
      BY <2>1, <3>3 DEF ThreadOk
    <3>6. actor[u].pc \in {"arr2", "delete"} =>
            /\ \E p \in Reap!Paths : actor[u].item[p] = "live"
            /\ "new" \notin Reap!Targets(u, actor[u].item)
            /\ settled' => ("old" \in Reap!Targets(u, actor[u].item) => disk'["old"] = "gone")
      BY <2>1, <3>3 DEF ThreadOk
    <3> QED BY <2>1, <3>1, <3>3, <3>4, <3>5, <3>6 DEF ThreadOk
  <2> QED BY <2>2, <2>3
<1> QED BY <1>1, <1>2 DEF ReapInv

LEMMA OffOk ==
  ASSUME ReapInv, NEW t \in Reap!Thread2, NEW r, Reap!Set(t, r), DOMAIN r = ActorFields,
         r.pc \notin Inside
  PROVE  ThreadOk(t)'
<1>1. actor'[t] = r BY DEF Reap!Set, ReapInv
<1> QED BY <1>1 DEF ThreadOk, Inside

\* Plex's scan marks, lists what can be read, and forgets nothing.
LEMMA ScanKeeps ==
  ASSUME ReapInv, version' = Reap!Scanned, disk' = disk
  PROVE  /\ DOMAIN version' = Reap!Paths
         /\ \A p \in Reap!Paths : version[p] # "none" => version'[p] # "none"
         /\ version'["new"] # "none" => disk'["new"] # "gone"
<1>1. \A p \in Reap!Paths : version'[p] = IF Reap!Readable(p) THEN "live"
                              ELSE IF version[p] = "none" THEN "none" ELSE "marked"
  BY DEF Reap!Scanned
<1>2. "new" \in Reap!Paths BY DEF Reap!Paths
<1>3. DOMAIN version' = Reap!Paths BY DEF Reap!Scanned
<1> QED BY <1>1, <1>2, <1>3 DEF ReapInv, Reap!Readable

LEMMA WorldKeeps ==
  ASSUME ReapInv,
         \/ Reap!Upgrade \/ Reap!Regrab \/ (\E p \in Reap!Paths : Reap!Replace(p) \/ Reap!Dangle(p))
         \/ Reap!Mount \/ Reap!Play \/ Reap!PlexScan \/ Reap!Due \/ Reap!runScan
  PROVE  ReapInv'
<1>1. UNCHANGED <<actor, actMu>>
  BY DEF Reap!Upgrade, Reap!Regrab, Reap!Replace, Reap!Dangle, Reap!Mount, Reap!Play,
         Reap!PlexScan, Reap!Due, Reap!runScan
<1>2. CASE Reap!PlexScan
  <2>1. version' = Reap!Scanned /\ disk' = disk /\ settled' = settled BY <1>2 DEF Reap!PlexScan
  <2>2. DOMAIN disk' = Reap!Paths BY <2>1 DEF ReapInv
  <2> QED BY <1>1, <2>1, <2>2, ScanKeeps, WorldMoves
<1>3. CASE \/ Reap!Upgrade \/ Reap!Regrab \/ (\E p \in Reap!Paths : Reap!Dangle(p))
           \/ Reap!Mount \/ Reap!Play \/ Reap!Due \/ Reap!runScan
  <2>1. version' = version /\ settled' = settled
    BY <1>3 DEF Reap!Upgrade, Reap!Regrab, Reap!Dangle, Reap!Mount, Reap!Play, Reap!Due,
                Reap!runScan, Reap!world
  <2>2. /\ DOMAIN disk' = Reap!Paths /\ (disk["old"] = "gone" => disk'["old"] = "gone")
        /\ (disk["new"] # "gone" => disk'["new"] # "gone")
    BY <1>3 DEF Reap!Upgrade, Reap!Regrab, Reap!Dangle, Reap!Mount, Reap!Play, Reap!Due,
                Reap!runScan, Reap!world, ReapInv, Reap!Paths
  <2> QED BY <1>1, <2>1, <2>2, WorldMoves DEF ReapInv
<1>4. ASSUME NEW p \in Reap!Paths, Reap!Replace(p) PROVE ReapInv'
  <2>1. version' = version /\ disk' = [disk EXCEPT ![p] = "there"] BY <1>4 DEF Reap!Replace
  <2>2. settled' => settled /\ p # "old" BY <1>4 DEF Reap!Replace
  <2>3. /\ DOMAIN disk' = Reap!Paths /\ (p # "old" => disk'["old"] = disk["old"])
        /\ (disk["new"] # "gone" => disk'["new"] # "gone")
    BY <2>1 DEF ReapInv, Reap!Paths
  <2>4. settled' => settled /\ (disk["old"] = "gone" => disk'["old"] = "gone") BY <2>2, <2>3
  <2> QED BY <1>1, <2>1, <2>3, <2>4, WorldMoves DEF ReapInv
<1> QED BY <1>2, <1>3, <1>4

LEMMA OffFields == DOMAIN Reap!Off = ActorFields /\ Reap!Off.pc = "idle"
BY DEF Reap!Off, ActorFields

\* act comes to an end, whatever the verdict: the thread leaves it.
LEMMA ConcludedKeeps ==
  ASSUME ReapInv, NEW t \in Reap!Thread2, NEW v, Reap!Concluded(t, v), actMu = t,
         DOMAIN disk' = Reap!Paths, DOMAIN version' = Reap!Paths,
         version'["new"] # "none" => disk'["new"] # "gone"
  PROVE  ReapInv'
<1>1. Reap!Set(t, Reap!Off) BY DEF Reap!Concluded
<1>2. ThreadOk(t)' BY <1>1, OffFields, OffOk DEF Inside
<1> QED BY <1>1, <1>2, ThreadMoves

\* A thread outside act takes a step: nothing of the world is lost by it.
LEMMA OutsideKeeps ==
  ASSUME ReapInv, Reap!runDue \/ Reap!process \/ Reap!ApplyScan
  PROVE  ReapInv'
<1>1. ASSUME NEW t \in Reap!Thread2, NEW r, Reap!Set(t, r), DOMAIN r = ActorFields,
             r.pc \notin Inside, disk' = disk, actMu' = actMu, settled' = settled,
             version' = version \/ version' = Reap!Scanned
      PROVE  ReapInv'
  <2>1. ThreadOk(t)' BY <1>1, OffOk
  <2>2. DOMAIN disk' = Reap!Paths /\ DOMAIN version = Reap!Paths
        /\ (version["new"] # "none" => disk'["new"] # "gone")
    BY <1>1 DEF ReapInv
  <2>3. /\ DOMAIN version' = Reap!Paths
        /\ \A p \in Reap!Paths : version[p] # "none" => version'[p] # "none"
        /\ version'["new"] # "none" => disk'["new"] # "gone"
    BY <1>1, <2>2, ScanKeeps
  <2> QED BY <1>1, <2>1, <2>2, <2>3, ThreadMoves
<1>2. "loop" \in Reap!Thread2 /\ "apply" \in Reap!Thread2 BY DEF Reap!Thread2
<1>3. CASE Reap!runDue
  <2> DEFINE r == [Reap!Off EXCEPT !.pc = "process",
                                   !.copy = [job EXCEPT !.tries = Reap!Tried(job)]]
  <2>1. DOMAIN r = ActorFields /\ r.pc = "process" BY DEF Reap!Off, ActorFields
  <2>2. /\ Reap!Set("loop", r) /\ disk' = disk /\ actMu' = actMu /\ settled' = settled
        /\ version' = version
    BY <1>3 DEF Reap!runDue, Reap!world
  <2> HIDE DEF r
  <2> QED BY <1>1, <1>2, <2>1, <2>2 DEF Inside
<1>4. CASE Reap!process
  <2> DEFINE r == [actor["loop"] EXCEPT !.pc = "act", !.item = version]
  <2>1. DOMAIN actor["loop"] = ActorFields BY <1>2 DEF ReapInv, ThreadOk
  <2>2. DOMAIN r = ActorFields /\ r.pc = "act" BY <2>1 DEF ActorFields
  <2>3. disk' = disk /\ actMu' = actMu /\ settled' = settled BY <1>4 DEF Reap!process
  <2>4. /\ Reap!Set("loop", r) \/ Reap!Set("loop", Reap!Off)
        /\ version' = version \/ version' = Reap!Scanned
    BY <1>4 DEF Reap!process
  <2> HIDE DEF r
  <2> QED BY <1>1, <1>2, <2>2, <2>3, <2>4, OffFields DEF Inside
<1>5. CASE Reap!ApplyScan
  <2> DEFINE r == [Reap!Off EXCEPT !.pc = "act", !.item = version]
  <2>1. DOMAIN r = ActorFields /\ r.pc = "act" BY DEF Reap!Off, ActorFields
  <2>2. /\ Reap!Set("apply", r) /\ disk' = disk /\ actMu' = actMu /\ settled' = settled
        /\ version' = version
    BY <1>5 DEF Reap!ApplyScan, Reap!world
  <2> HIDE DEF r
  <2> QED BY <1>1, <1>2, <2>1, <2>2 DEF Inside
<1> QED BY <1>3, <1>4, <1>5

\* A thread goes from one point of act to the next.
LEMMA AtFacts ==
  ASSUME ReapInv, NEW t \in Reap!Thread2, NEW to, Reap!At(t, to)
  PROVE  /\ DOMAIN actor'[t] = ActorFields /\ actor'[t].pc = to
         /\ actor'[t].item = actor[t].item
<1>1. DOMAIN actor[t] = ActorFields /\ t \in DOMAIN actor BY DEF ReapInv, ThreadOk
<1> QED BY <1>1 DEF Reap!At, Reap!Set, ActorFields

LEMMA BeginKeeps ==
  ASSUME ReapInv, NEW t \in Reap!Thread2, Reap!beginAct(t)
  PROVE  ReapInv'
<1>1. /\ actMu = "none" /\ actMu' = t /\ Reap!At(t, "disk1") /\ disk' = disk /\ version' = version
  BY DEF Reap!beginAct, Reap!world
<1>2. ThreadOk(t)' BY <1>1, AtFacts DEF ThreadOk
<1>3. Reap!Set(t, [actor[t] EXCEPT !.pc = "disk1"]) BY <1>1 DEF Reap!At
<1> QED BY <1>1, <1>2, <1>3, ThreadMoves DEF ReapInv

\* The look at the disk: it passes only if another version is live and no
\* target has a file, so "new", which has one while Plex lists it, is none.
LEMMA DiskKeeps ==
  ASSUME ReapInv, NEW t \in Reap!Thread2, Reap!evaluateDisk(t)
  PROVE  ReapInv'
<1> DEFINE item == actor[t].item
           v    == Reap!DiskVerdict(t, item)
           next == IF actor[t].pc = "disk1" THEN "arr1" ELSE "arr2"
<1>1. disk' = disk /\ version' = version /\ actor[t].pc \in {"disk1", "disk2"}
  BY DEF Reap!evaluateDisk, Reap!world
<1>2. ThreadOk(t) /\ actMu = t BY <1>1 DEF ReapInv, ThreadOk, Inside
<1>3. CASE v # "pass"
  <2>1. Reap!Concluded(t, v) BY <1>3 DEF Reap!evaluateDisk
  <2> QED BY <1>1, <1>2, <2>1, ConcludedKeeps DEF ReapInv
<1>4. CASE v = "pass"
  <2>1. Reap!At(t, next) /\ actMu' = actMu BY <1>4 DEF Reap!evaluateDisk
  <2>2. /\ Reap!Live(item) # {} /\ \A p \in Reap!Targets(t, item) : disk[p] = "gone"
    BY <1>4 DEF Reap!DiskVerdict
  <2>3. \E p \in Reap!Paths : item[p] = "live" BY <2>2 DEF Reap!Live
  <2>4. \A p \in Reap!Targets(t, item) : p \in Reap!Paths /\ item[p] = "marked"
    BY DEF Reap!Targets, Reap!Stale
  <2>5. actor[t].pc = "disk2" => "new" \notin Reap!Targets(t, item)
    BY <1>2, <2>2, <2>4 DEF ReapInv, ThreadOk
  <2>6. /\ DOMAIN actor'[t] = ActorFields /\ actor'[t].pc = next /\ actor'[t].item = item
    BY <2>1, AtFacts
  <2>7. Reap!Targets(t, actor[t].item)' = Reap!Targets(t, item)
    BY <2>6 DEF Reap!Targets, Reap!Stale
  <2>8. next \in {"disk2", "arr2", "delete"} => actor[t].pc = "disk2" BY <1>1
  <2>9. \A p \in Reap!Paths : actor[t].pc = "disk2" => (item[p] # "none" => version[p] # "none")
    BY <1>2 DEF ThreadOk
  <2> HIDE DEF item, v, next
  <2>10. ThreadOk(t)'
    BY <1>1, <1>2, <2>1, <2>2, <2>3, <2>5, <2>6, <2>7, <2>8, <2>9 DEF ThreadOk
  <2>11. Reap!Set(t, [actor[t] EXCEPT !.pc = next]) BY <2>1 DEF Reap!At
  <2> QED BY <1>1, <1>2, <2>10, <2>11, ThreadMoves DEF ReapInv
<1> QED BY <1>3, <1>4

LEMMA ArrKeeps ==
  ASSUME ReapInv, NEW t \in Reap!Thread2, Reap!evaluateArr(t)
  PROVE  ReapInv'
<1> DEFINE next == IF actor[t].pc = "arr1" THEN "fetch" ELSE "delete"
<1>1. /\ disk' = disk /\ version' = version /\ settled' = settled
      /\ actor[t].pc \in {"arr1", "arr2"}
  BY DEF Reap!evaluateArr, Reap!world
<1>2. ThreadOk(t) /\ actMu = t BY <1>1 DEF ReapInv, ThreadOk, Inside
<1>3. (Reap!At(t, next) /\ actMu' = actMu) \/ (\E v : Reap!Concluded(t, v))
  BY DEF Reap!evaluateArr
<1>4. CASE \E v : Reap!Concluded(t, v)
  BY <1>1, <1>2, <1>4, ConcludedKeeps DEF ReapInv
<1>5. CASE Reap!At(t, next) /\ actMu' = actMu
  <2>1. /\ DOMAIN actor'[t] = ActorFields /\ actor'[t].pc = next
        /\ actor'[t].item = actor[t].item
    BY <1>5, AtFacts
  <2>2. Reap!Targets(t, actor[t].item)' = Reap!Targets(t, actor[t].item)
    BY <2>1 DEF Reap!Targets, Reap!Stale
  <2>3. next \in {"disk2", "arr2", "delete"} => actor[t].pc = "arr2" BY <1>1
  <2>4. actor[t].pc = "arr2" =>
          /\ \A p \in Reap!Paths : actor[t].item[p] # "none" => version[p] # "none"
          /\ \E p \in Reap!Paths : actor[t].item[p] = "live"
          /\ "new" \notin Reap!Targets(t, actor[t].item)
          /\ settled => ("old" \in Reap!Targets(t, actor[t].item) => disk["old"] = "gone")
    BY <1>2 DEF ThreadOk
  <2> HIDE DEF next
  <2>5. ThreadOk(t)' BY <1>1, <1>2, <1>5, <2>1, <2>2, <2>3, <2>4 DEF ThreadOk
  <2>6. Reap!Set(t, [actor[t] EXCEPT !.pc = next]) BY <1>5 DEF Reap!At
  <2> QED BY <1>1, <1>2, <2>5, <2>6, ThreadMoves DEF ReapInv
<1> QED BY <1>3, <1>4, <1>5

LEMMA FetchKeeps ==
  ASSUME ReapInv, NEW t \in Reap!Thread2, Reap!fetchAgain(t)
  PROVE  ReapInv'
<1> DEFINE r == [actor[t] EXCEPT !.pc = "disk2", !.item = version]
<1>1. disk' = disk /\ version' = version /\ actor[t].pc = "fetch"
  BY DEF Reap!fetchAgain, Reap!world
<1>2. ThreadOk(t) /\ actMu = t BY <1>1 DEF ReapInv, ThreadOk, Inside
<1>3. CASE \E v : Reap!Concluded(t, v)
  BY <1>1, <1>2, <1>3, ConcludedKeeps DEF ReapInv
<1>4. CASE Reap!Set(t, r) /\ actMu' = actMu
  <2>1. DOMAIN r = ActorFields /\ r.pc = "disk2" /\ r.item = version
    BY <1>2 DEF ThreadOk, ActorFields
  <2> HIDE DEF r
  <2>2. actor'[t] = r BY <1>4 DEF Reap!Set, ReapInv
  <2>3. ThreadOk(t)' BY <1>1, <1>2, <1>4, <2>1, <2>2 DEF ThreadOk
  <2> QED BY <1>1, <1>2, <1>4, <2>3, ThreadMoves DEF ReapInv
<1> QED BY <1>3, <1>4 DEF Reap!fetchAgain

LEMMA DeleteMediaKeeps ==
  ASSUME ReapInv, NEW t \in Reap!Thread2, Reap!deleteMedia(t)
  PROVE  ReapInv'
<1>1. actor[t].pc = "delete" /\ \E v : Reap!Concluded(t, v) BY DEF Reap!deleteMedia
<1>2. ThreadOk(t) /\ actMu = t BY <1>1 DEF ReapInv, ThreadOk, Inside
<1> DEFINE dead == Reap!Targets(t, actor[t].item)
<1>3. \/ /\ version' = [p \in Reap!Paths |-> IF p \in dead THEN "none" ELSE version[p]]
         /\ disk' = [p \in Reap!Paths |-> IF p \in dead THEN "gone" ELSE disk[p]]
      \/ version' = version /\ disk' = disk
  BY DEF Reap!deleteMedia
<1> HIDE DEF dead
<1>4. /\ DOMAIN disk' = Reap!Paths /\ DOMAIN version' = Reap!Paths
      /\ version'["new"] # "none" => disk'["new"] # "gone"
  BY <1>3 DEF ReapInv, Reap!Paths
<1> QED BY <1>1, <1>2, <1>4, ConcludedKeeps

LEMMA RestartKeeps == ASSUME ReapInv, Reap!Restart PROVE ReapInv'
<1>1. /\ actor' = [t \in Reap!Thread2 |-> Reap!Off] /\ disk' = disk /\ version' = version
  BY DEF Reap!Restart, Reap!world
<1> QED BY <1>1, OffFields DEF ReapInv, ThreadOk, Inside

LEMMA ReapInvNext == ASSUME ReapInv, Reap!NextReap PROVE ReapInv'
BY WorldKeeps, OutsideKeeps, RestartKeeps, BeginKeeps, DiskKeeps, ArrKeeps, FetchKeeps,
   DeleteMediaKeeps DEF Reap!NextReap

\* The library's links are a function of the path throughout.
Links == disk \in [Reap!Paths -> {"gone", "dangling", "there"}]

LEMMA LinksKept == /\ Reap!InitReap => Links
                   /\ Links /\ Reap!NextReap => Links'
<1>1. Reap!InitReap => Links BY DEF Reap!InitReap, Links
<1>2. ASSUME Links, Reap!NextReap PROVE Links'
  <2>1. \/ disk' = disk
        \/ disk' = [disk EXCEPT !["old"] = "gone", !["new"] = "there"]
        \/ disk' = [disk EXCEPT !["old"] = "gone"]
        \/ \E p \in Reap!Paths : disk' = [disk EXCEPT ![p] = "there"]
        \/ \E p \in Reap!Paths : disk' = [disk EXCEPT ![p] = "dangling"]
        \/ \E S : disk' = [p \in Reap!Paths |-> IF p \in S THEN "gone" ELSE disk[p]]
    BY <1>2 DEF Reap!NextReap, Reap!Upgrade, Reap!Regrab, Reap!Replace, Reap!Dangle, Reap!Mount,
                Reap!Play, Reap!PlexScan, Reap!Due, Reap!runDue, Reap!process, Reap!runScan,
                Reap!ApplyScan, Reap!Restart, Reap!beginAct, Reap!evaluateDisk, Reap!evaluateArr,
                Reap!fetchAgain, Reap!deleteMedia, Reap!world
  <2> QED BY <1>2, <2>1 DEF Links
<1> QED BY <1>1, <1>2

\* The deletion: what it removes is marked in the item, and the version the
\* item has live is still listed and stays.
LEMMA DeletesSafely == ASSUME ReapInv, Links PROVE Reap!ReapStep
<1> SUFFICES ASSUME NEW t \in Reap!Thread2, Reap!deleteMedia(t), version' # version
             PROVE  /\ \E p \in Reap!Paths : version'[p] # "none"
                    /\ disk' # disk => ~settled
  BY DEF Reap!ReapStep
<1> DEFINE item == actor[t].item
           dead == Reap!Targets(t, item)
<1>1. /\ version' = [p \in Reap!Paths |-> IF p \in dead THEN "none" ELSE version[p]]
      /\ disk' = [p \in Reap!Paths |-> IF p \in dead THEN "gone" ELSE disk[p]]
  BY DEF Reap!deleteMedia
<1>2. /\ ThreadOk(t) /\ actor[t].pc = "delete" BY DEF ReapInv, Reap!deleteMedia
<1>3. /\ \A p \in Reap!Paths : item[p] # "none" => version[p] # "none"
      /\ \E p \in Reap!Paths : item[p] = "live"
      /\ "new" \notin dead /\ (settled => ("old" \in dead => disk["old"] = "gone"))
  BY <1>2 DEF ThreadOk
<1>4. \A p \in dead : item[p] = "marked" BY DEF Reap!Targets, Reap!Stale
<1>5. DOMAIN disk = Reap!Paths /\ Reap!Paths = {"old", "new"} BY DEF ReapInv, Reap!Paths
<1> HIDE DEF item, dead
<1>6. PICK p \in Reap!Paths : item[p] = "live" BY <1>3
<1>7. version'[p] # "none" BY <1>1, <1>3, <1>4, <1>6
<1>8. ASSUME settled PROVE disk' = disk
  <2>1. \A q \in Reap!Paths : disk'[q] = disk[q] BY <1>1, <1>3, <1>5, <1>8
  <2> QED BY <1>1, <1>5, <2>1 DEF Links
<1> QED BY <1>6, <1>7, <1>8

\* Both hold whenever the behaviour is the reaper's.
LEMMA ReapInvAlways == MCSpec => [](part = "reap" => ReapInv /\ Links)
<1> DEFINE I == part = "reap" => ReapInv /\ Links
<1>1. MCInit => I BY ReapInvInit, LinksKept DEF MCInit
<1>2. I /\ [MCNext]_mcvars => I'
  <2> SUFFICES ASSUME I, [MCNext]_mcvars, part' = "reap" PROVE (ReapInv /\ Links)'
    OBVIOUS
  <2>1. CASE UNCHANGED mcvars
    <3>1. part = "reap" /\ ReapInv /\ Links BY <2>1 DEF mcvars
    <3>2. UNCHANGED <<disk, version, actor, actMu, settled>> BY <2>1 DEF mcvars, reap
    <3> QED BY <3>1, <3>2 DEF ReapInv, ThreadOk, Links, Reap!Targets, Reap!Stale
  <2>2. CASE MCNext
    <3>1. part = "reap" /\ Reap!NextReap BY <2>2 DEF MCNext
    <3> QED BY <3>1, ReapInvNext, LinksKept
  <2> QED BY <2>1, <2>2
<1> QED BY <1>1, <1>2, PTL DEF MCSpec

\* Reaping takes no file and no title, whatever the Arr, the mount and Plex do
\* between its looks and the deletion: the version it deletes had no file at
\* the last look, and another version of the title stays
\* (plex_reap.go, act; plex_reap_eval.go, evaluateReap).
THEOREM ReapTakesNothing == MCSpec => ReapIsSafe
<1>1. (part = "reap" => ReapInv /\ Links) => [part = "reap" => Reap!ReapStep]_mcvars
  BY DeletesSafely
<1> QED BY <1>1, ReapInvAlways, PTL DEF ReapIsSafe
-----------------------------------------------------------------------------
(* The verdict on a media file.                                            *)

Running == {"meta", "tail", "windows", "detect", "detectlead", "head", "spread", "spreadlead"}
ShapeFields == {"box", "run", "cut", "head", "rest", "place", "dead", "geom", "order"}

\* What the check goes by: a signal of a dead article is of this file's, and a
\* cause never says what only the layout's own checks say.
Clues ==
  /\ DOMAIN file = {"shape", "big", "index"} /\ DOMAIN Probe!Shape = ShapeFields
  /\ DOMAIN told = {"class", "why", "cov"}
  /\ known => Probe!Shape.dead
  /\ trip => Probe!Shape.dead
  /\ faults \in Nat
  /\ cause.reason \notin Probe!Replaceable

\* A check is asked again only after a failure that the file or a failed read
\* explains, so a second failure that is not the file's own is a second read's.
Trying ==
  /\ probing \in Running \cup {"confirm"} =>
       tries \in {1, 2} /\ (tries = 2 => Probe!Bad \/ faults >= 1)
  /\ probing = "tail" => Probe!Shape.run = "short"
  /\ probing = "confirm" =>
       /\ res.ok \/ Probe!Bad \/ spent \/ faults >= tries
       /\ res.why = "unreadable" => Probe!Bad

\* What was told; ReplaceUnverified goes by the two last words.
Judged ==
  /\ Probe!CondemnedIsBad
  /\ told.class = "unverified" =>
       /\ told.why = "import_tail_truncated" => Probe!Shape.geom = "tail"
       /\ told.why = "import_volume_order" => ~Probe!Shape.order

\* The inductive invariant of the verdict.
ProbeInv == Clues /\ Trying /\ Judged

LEMMA ProbeInvInit == Probe!InitProbe => ProbeInv
<1> SUFFICES ASSUME Probe!InitProbe PROVE ProbeInv OBVIOUS
<1>1. file \in Probe!Files BY DEF Probe!InitProbe
<1>2. DOMAIN file = {"shape", "big", "index"} /\ Probe!Shape \in Probe!Shapes
  BY <1>1 DEF Probe!Files, Probe!FewFlaws, Probe!Shape
<1>3. DOMAIN Probe!Shape = ShapeFields BY <1>2 DEF Probe!Shapes, ShapeFields
<1>4. DOMAIN told = {"class", "why", "cov"} /\ told.class = "none"
  BY DEF Probe!InitProbe, Probe!NoVerdict
<1>5. trip = FALSE /\ faults = 0 BY DEF Probe!InitProbe
<1>6. known => Probe!Shape.dead BY DEF Probe!InitProbe, Probe!Shape
<1>7. cause.reason \notin Probe!Replaceable
  BY DEF Probe!InitProbe, Probe!NoCause, Probe!Replaceable
<1>8. probing \in {"gate", "begin"} BY DEF Probe!InitProbe
<1>9. Clues BY <1>2, <1>3, <1>4, <1>5, <1>6, <1>7 DEF Clues
<1>10. Trying BY <1>8 DEF Trying, Running
<1>11. Judged BY <1>4 DEF Judged, Probe!CondemnedIsBad
<1> QED BY <1>9, <1>10, <1>11 DEF ProbeInv

\* What one process leaves behind.
LEMMA ProcFacts ==
  ASSUME Clues, NEW phase, NEW end, Probe!Proc(phase, end)
  PROVE  /\ faults' \in Nat /\ faults' >= faults /\ (end = "fault" => faults' = faults + 1)
         /\ end = "dead" => Probe!Shape.dead
         /\ known' => Probe!Shape.dead
         /\ trip' => Probe!Shape.dead
<1>1. end = "dead" => Probe!Shape.dead
  <2> SUFFICES ASSUME end = "dead" PROVE Probe!Shape.dead OBVIOUS
  <2>1. "dead" \in Probe!Ends(phase) BY DEF Probe!Proc
  <2> QED BY <2>1 DEF Probe!Ends
<1>2. faults' \in Nat /\ faults' >= faults /\ (end = "fault" => faults' = faults + 1)
  BY DEF Clues, Probe!Proc
<1>3. (known' => known \/ end = "dead") /\ (trip' => trip \/ end = "dead") BY DEF Probe!Proc
<1> QED BY <1>1, <1>2, <1>3 DEF Clues

\* The check goes on, with the next process or another question.
LEMMA GoesOn ==
  ASSUME ProbeInv, file' = file, told' = told, faults' \in Nat, faults' >= faults,
         known' => Probe!Shape.dead, trip' => Probe!Shape.dead,
         cause'.reason \notin Probe!Replaceable,
         probing' \in Running, tries' \in {1, 2}, tries' = 2 => Probe!Bad \/ faults' >= 1,
         probing' = "tail" => Probe!Shape.run = "short"
  PROVE  ProbeInv'
<1>1. Probe!Shape' = Probe!Shape /\ (Probe!Bad' <=> Probe!Bad) BY DEF Probe!Shape, Probe!Bad
<1>2. Clues' BY <1>1 DEF ProbeInv, Clues, Probe!Replaceable
<1>3. Trying' BY <1>1 DEF Trying, Running
<1>4. Probe!CondemnedIsBad' BY <1>1 DEF ProbeInv, Clues, Judged, Probe!CondemnedIsBad
<1>5. Judged' BY <1>1, <1>4 DEF ProbeInv, Judged
<1> QED BY <1>2, <1>3, <1>5 DEF ProbeInv

\* check returns; a failure is the file's own, or a failed read's.
LEMMA Returns ==
  ASSUME ProbeInv, file' = file, told' = told, faults' \in Nat, faults' >= faults,
         known' => Probe!Shape.dead, trip' => Probe!Shape.dead,
         cause'.reason \notin Probe!Replaceable,
         probing \in Running, probing' = "confirm", tries' = tries,
         res'.ok \/ Probe!Bad \/ spent' \/ faults' >= tries,
         res'.why = "unreadable" => Probe!Bad
  PROVE  ProbeInv'
<1>1. Probe!Shape' = Probe!Shape /\ (Probe!Bad' <=> Probe!Bad) BY DEF Probe!Shape, Probe!Bad
<1>2. Clues' BY <1>1 DEF ProbeInv, Clues, Probe!Replaceable
<1>3. tries \in {1, 2} /\ (tries = 2 => Probe!Bad \/ faults >= 1) /\ faults \in Nat
  BY DEF ProbeInv, Trying, Clues
<1>4. tries = 2 => Probe!Bad \/ faults' >= 1 BY <1>3
<1>5. Trying' BY <1>1, <1>3, <1>4 DEF Trying, Running
<1>6. Probe!CondemnedIsBad' BY <1>1 DEF ProbeInv, Clues, Judged, Probe!CondemnedIsBad
<1>7. Judged' BY <1>1, <1>6 DEF ProbeInv, Judged
<1> QED BY <1>2, <1>5, <1>7 DEF ProbeInv

\* The caller tells its verdict.
LEMMA Tells ==
  ASSUME ProbeInv, file' = file, faults' = faults, known' = known, trip' = trip,
         cause'.reason \notin Probe!Replaceable,
         NEW class, NEW why, NEW cov, Probe!Tell(class, why, cov),
         class \in {"broken", "unverified", "verified", "skipped", "dirty"},
         class = "broken" => Probe!Bad \/ faults >= 2,
         class = "unverified" => /\ why = "import_tail_truncated" => Probe!Shape.geom = "tail"
                                 /\ why = "import_volume_order" => ~Probe!Shape.order
  PROVE  ProbeInv'
<1>1. Probe!Shape' = Probe!Shape /\ (Probe!Bad' <=> Probe!Bad) BY DEF Probe!Shape, Probe!Bad
<1>2. /\ DOMAIN told' = {"class", "why", "cov"} /\ told'.class = class /\ told'.why = why
      /\ probing' = "done"
  BY DEF Probe!Tell
<1>3. Clues' BY <1>1, <1>2 DEF ProbeInv, Clues, Probe!Replaceable
<1>4. Trying' BY <1>2 DEF Trying, Running
<1>5. Probe!CondemnedIsBad' BY <1>1, <1>2 DEF Probe!CondemnedIsBad
<1>6. Judged' BY <1>1, <1>2, <1>5 DEF Judged
<1> QED BY <1>3, <1>4, <1>6 DEF ProbeInv

\* A cause that was noted is none of the layout's.
LEMMA NotedFacts ==
  ASSUME NEW x, x \notin Probe!Replaceable
  PROVE  Probe!noteUnverified(x).reason \notin Probe!Replaceable
BY DEF Probe!noteUnverified

LEMMA TimeoutFacts == Probe!timeoutCause \notin Probe!Replaceable
BY DEF Probe!timeoutCause, Probe!Replaceable

LEMMA Reasons ==
  /\ "read_budget_spent" \notin Probe!Replaceable /\ "check_cancelled" \notin Probe!Replaceable
  /\ "decoded_with_errors" \notin Probe!Replaceable /\ "no_seek_index" \notin Probe!Replaceable
  /\ "" \notin Probe!Replaceable
BY DEF Probe!Replaceable

\* runDecodeProbe fails a file only for what it printed in the first interval.
LEMMA DecodedFacts ==
  ASSUME Clues, NEW phase, NEW end, NEW out, NEW over
  PROVE  /\ Probe!Decoded(phase, end, out, over).note.reason \notin Probe!Replaceable
         /\ \/ Probe!Decoded(phase, end, out, over).ok
            \/ end # "late" /\ ~over /\ out = "first"
<1>1. cause.reason \notin Probe!Replaceable BY DEF Clues
<1>2. CASE end = "late"
  <2>1. Probe!Decoded(phase, end, out, over).ok
        /\ Probe!Decoded(phase, end, out, over).note = Probe!noteUnverified(Probe!timeoutCause)
    BY <1>2 DEF Probe!Decoded
  <2> QED BY <2>1, NotedFacts, TimeoutFacts
<1>3. CASE end # "late" /\ over
  <2>1. Probe!Decoded(phase, end, out, over).ok
        /\ Probe!Decoded(phase, end, out, over).note = Probe!noteUnverified("read_budget_spent")
    BY <1>3 DEF Probe!Decoded
  <2> QED BY <2>1, NotedFacts, Reasons
<1>4. CASE end # "late" /\ ~over /\ out = "first"
  BY <1>1, <1>4 DEF Probe!Decoded
<1>5. CASE end # "late" /\ ~over /\ out \in {"", "seek_warnings"}
  BY <1>1, <1>5, Reasons DEF Probe!Decoded
<1>6. CASE end # "late" /\ ~over /\ out \notin {"first", "", "seek_warnings"}
  BY <1>6, Reasons DEF Probe!Decoded
<1> QED BY <1>2, <1>3, <1>4, <1>5, <1>6

LEMMA FailureIsFilesOrReads ==
  ASSUME ProbeInv, probing \in Running, NEW phase, NEW end, NEW out, NEW over,
         Probe!Proc(phase, end), out \in Probe!Seen(phase, end), end = "spent" => over
  PROVE  Probe!Decoded(phase, end, out, over).ok \/ Probe!Bad \/ faults' >= tries
<1> SUFFICES ASSUME ~Probe!Decoded(phase, end, out, over).ok PROVE Probe!Bad \/ faults' >= tries
  OBVIOUS
<1>1. end # "late" /\ end # "spent" /\ out = "first" BY DecodedFacts DEF ProbeInv
<1>2. end \in {"ran", "fault", "dead"}
  <2>1. end \in Probe!Ends(phase) BY DEF Probe!Proc
  <2>2. Probe!Ends(phase) \subseteq {"ran", "late", "fault", "spent", "dead"} BY DEF Probe!Ends
  <2> QED BY <1>1, <2>1, <2>2
<1>3. CASE end = "ran"
  <2>1. Probe!Printed(phase) = "first" BY <1>1, <1>3 DEF Probe!Seen
  <2>2. Probe!Shape.head = "broken" BY <2>1 DEF Probe!Printed
  <2> QED BY <2>2 DEF Probe!Bad
<1>4. CASE end = "dead" BY <1>4, ProcFacts DEF ProbeInv, Probe!Bad
<1>5. CASE end = "fault" BY <1>5, ProcFacts DEF ProbeInv, Clues, Trying
<1> QED BY <1>2, <1>3, <1>4, <1>5

LEMMA ResultFields ==
  ASSUME NEW ok, NEW why, NEW concl, NEW cov
  PROVE  Probe!Result(ok, why, concl, cov).ok = ok /\ Probe!Result(ok, why, concl, cov).why = why
BY DEF Probe!Result

\* One process: the check goes on, or returns.
LEMMA ProcGoesOn ==
  ASSUME ProbeInv, probing \in Running, NEW phase, NEW end, Probe!Proc(phase, end),
         file' = file, tries' = tries, cause'.reason \notin Probe!Replaceable,
         probing' \in Running, told' = told, probing' = "tail" => Probe!Shape.run = "short"
  PROVE  ProbeInv'
<1>1. /\ faults' \in Nat /\ faults' >= faults
      /\ (known' => Probe!Shape.dead) /\ (trip' => Probe!Shape.dead)
  BY ProcFacts DEF ProbeInv
<1>2. /\ tries \in {1, 2} /\ (tries = 2 => Probe!Bad \/ faults >= 1) /\ faults \in Nat
  BY DEF ProbeInv, Trying, Clues
<1>3. tries = 2 => Probe!Bad \/ faults' >= 1 BY <1>1, <1>2
<1> QED BY <1>1, <1>2, <1>3, GoesOn

LEMMA ProcReturns ==
  ASSUME ProbeInv, probing \in Running, NEW phase, NEW end, Probe!Proc(phase, end),
         file' = file, tries' = tries, cause'.reason \notin Probe!Replaceable,
         NEW r, Probe!Return(r), r.ok \/ Probe!Bad \/ spent' \/ faults' >= tries,
         r.why = "unreadable" => Probe!Bad
  PROVE  ProbeInv'
<1>1. /\ faults' \in Nat /\ faults' >= faults
      /\ (known' => Probe!Shape.dead) /\ (trip' => Probe!Shape.dead)
  BY ProcFacts DEF ProbeInv
<1>2. res' = r /\ probing' = "confirm" /\ told' = told BY DEF Probe!Return
<1>3. res'.ok \/ Probe!Bad \/ spent' \/ faults' >= tries BY <1>2
<1>4. res'.why = "unreadable" => Probe!Bad BY <1>2
<1> QED BY <1>1, <1>2, <1>3, <1>4, Returns

\* A process after which the check passes for now, or fails for a reason.
LEMMA PassReturns ==
  ASSUME ProbeInv, probing \in Running, NEW phase, NEW end, Probe!Proc(phase, end),
         file' = file, tries' = tries, cause'.reason \notin Probe!Replaceable,
         NEW cov, Probe!Return(Probe!Result(TRUE, "", FALSE, cov))
  PROVE  ProbeInv'
<1> DEFINE r == Probe!Result(TRUE, "", FALSE, cov)
<1>1. r.ok /\ r.why = "" BY DEF Probe!Result
<1>2. Probe!Return(r) OBVIOUS
<1> HIDE DEF r
<1> QED BY <1>1, <1>2, ProcReturns

LEMMA FailReturns ==
  ASSUME ProbeInv, probing \in Running, NEW phase, NEW end, Probe!Proc(phase, end),
         file' = file, tries' = tries, cause'.reason \notin Probe!Replaceable,
         NEW why, NEW cov, Probe!Return(Probe!Result(FALSE, why, TRUE, cov)),
         Probe!Bad \/ spent' \/ faults' >= tries,
         why = "unreadable" => Probe!Bad
  PROVE  ProbeInv'
<1> DEFINE r == Probe!Result(FALSE, why, TRUE, cov)
<1>1. r.why = why BY DEF Probe!Result
<1>2. Probe!Return(r) OBVIOUS
<1> HIDE DEF r
<1> QED BY <1>1, <1>2, ProcReturns

LEMMA MetaKeeps == ASSUME ProbeInv, Probe!Meta PROVE ProbeInv'
<1>1. probing \in Running /\ file' = file /\ tries' = tries BY DEF Probe!Meta, Running, Probe!keep
<1>2. cause.reason \notin Probe!Replaceable BY DEF ProbeInv, Clues
<1>3. PICK end \in Probe!Ends("meta") : Probe!MetaEnds(end) BY DEF Probe!Meta
<1>4. Probe!Proc("meta", end) BY <1>3 DEF Probe!MetaEnds
<1>5. CASE end = "late"
  <2>1. /\ cause' = Probe!noteUnverified(Probe!timeoutCause)
        /\ Probe!Return(Probe!Result(TRUE, "", FALSE, ""))
    BY <1>3, <1>5 DEF Probe!MetaEnds
  <2>2. cause'.reason \notin Probe!Replaceable BY <2>1, NotedFacts, TimeoutFacts
  <2> QED BY <1>1, <1>4, <2>1, <2>2, PassReturns
<1>6. CASE end # "late" /\ spent'
  <2>1. /\ cause' = Probe!noteUnverified("read_budget_spent")
        /\ Probe!Return(Probe!Result(TRUE, "", FALSE, ""))
    BY <1>3, <1>6 DEF Probe!MetaEnds
  <2>2. cause'.reason \notin Probe!Replaceable BY <2>1, NotedFacts, Reasons
  <2> QED BY <1>1, <1>4, <2>1, <2>2, PassReturns
<1>7. CASE end # "late" /\ ~spent'
  <2>1. cause'.reason \notin Probe!Replaceable BY <1>2, <1>3, <1>7 DEF Probe!MetaEnds
  <2>2. CASE end \in {"fault", "dead"}
    <3>1. Probe!Return(Probe!Result(FALSE, "read_failed", TRUE, ""))
      BY <1>3, <1>7, <2>2 DEF Probe!MetaEnds
    <3>2. Probe!Bad \/ faults' >= tries
      BY <1>1, <1>4, <2>2, ProcFacts DEF ProbeInv, Clues, Trying, Probe!Bad
    <3>3. \A why : why # "unreadable" /\ Probe!Return(Probe!Result(FALSE, why, TRUE, ""))
                     => ProbeInv'
      BY <1>1, <1>4, <2>1, <3>2, FailReturns
    <3> QED BY <3>1, <3>3
  <2>3. CASE end \notin {"fault", "dead"}
    <3>1. \/ /\ Probe!Shape.box = "garbage"
             /\ Probe!Return(Probe!Result(FALSE, "unreadable", TRUE, ""))
          \/ /\ Probe!Shape.box = "audio"
             /\ Probe!Return(Probe!Result(FALSE, "no_video_stream", TRUE, ""))
          \/ /\ Probe!Shape.run \in {"absurd", "long"}
             /\ Probe!Return(Probe!Result(FALSE, "runtime", TRUE, ""))
          \/ Probe!Shape.run = "short" /\ probing' = "tail" /\ told' = told
          \/ probing' = "windows" /\ told' = told
          \/ Probe!Return(Probe!Result(TRUE, "", FALSE, ""))
      BY <1>3, <1>7, <2>3 DEF Probe!MetaEnds
    <3>2. \A why : Probe!Bad /\ Probe!Return(Probe!Result(FALSE, why, TRUE, "")) => ProbeInv'
      BY <1>1, <1>4, <2>1, FailReturns
    <3>3. Probe!Shape.box \in {"garbage", "audio"} \/ Probe!Shape.run \in {"absurd", "long"}
            => Probe!Bad
      BY DEF Probe!Bad
    <3>4. Probe!Return(Probe!Result(TRUE, "", FALSE, "")) => ProbeInv'
      BY <1>1, <1>4, <2>1, PassReturns
    <3>5. probing' \in Running /\ told' = told /\ (probing' = "tail" => Probe!Shape.run = "short")
            => ProbeInv'
      BY <1>1, <1>4, <2>1, ProcGoesOn
    <3> QED BY <3>1, <3>2, <3>3, <3>4, <3>5 DEF Running
  <2> QED BY <2>2, <2>3
<1> QED BY <1>5, <1>6, <1>7

LEMMA TailKeeps == ASSUME ProbeInv, Probe!Tail PROVE ProbeInv'
<1>1. probing = "tail" /\ file' = file /\ tries' = tries /\ cause' = cause
  BY DEF Probe!Tail, Probe!keep
<1>2. /\ cause'.reason \notin Probe!Replaceable /\ Probe!Shape.run = "short" /\ probing \in Running
  BY <1>1 DEF ProbeInv, Clues, Trying, Running
<1>3. PICK end \in Probe!Ends("tail") : Probe!TailEnds(end) BY DEF Probe!Tail
<1>4. Probe!Proc("tail", end) BY <1>3 DEF Probe!TailEnds
<1>5. end \in {"ran", "late", "fault", "spent", "dead"} /\ (end = "spent" => file.big)
  BY <1>3 DEF Probe!Ends, Probe!Exceedable
<1>6. end = "spent" => spent' BY <1>3, <1>5 DEF Probe!TailEnds
<1>7. end \in {"fault", "dead"} => Probe!Bad \/ faults' >= tries
  BY <1>2, <1>4, ProcFacts DEF ProbeInv, Clues, Trying, Probe!Bad
<1>8. end # "late" /\ (end = "ran" => Probe!Shape.cut) => Probe!Bad \/ spent' \/ faults' >= tries
  BY <1>2, <1>5, <1>6, <1>7 DEF Probe!Bad
<1>9. CASE end = "late" \/ (end = "ran" /\ ~Probe!Shape.cut)
  <2>1. \/ probing' = "windows" /\ told' = told
        \/ Probe!Return(Probe!Result(TRUE, "", FALSE, ""))
    BY <1>3, <1>9 DEF Probe!TailEnds
  <2>2. CASE Probe!Return(Probe!Result(TRUE, "", FALSE, ""))
    BY <1>1, <1>2, <1>4, <2>2, PassReturns
  <2>3. CASE probing' = "windows" /\ told' = told
    BY <1>1, <1>2, <1>4, <2>3, ProcGoesOn DEF Running
  <2> QED BY <2>1, <2>2, <2>3
<1>10. CASE end # "late" /\ (end = "ran" => Probe!Shape.cut)
  <2>1. Probe!Return(Probe!Result(FALSE, "runtime_tail", TRUE, "")) BY <1>3, <1>10 DEF Probe!TailEnds
  <2>2. \A why : why # "unreadable" /\ Probe!Return(Probe!Result(FALSE, why, TRUE, ""))
                   => ProbeInv'
    BY <1>1, <1>2, <1>4, <1>8, <1>10, FailReturns
  <2> QED BY <2>1, <2>2
<1> QED BY <1>9, <1>10

LEMMA WindowsKeeps == ASSUME ProbeInv, Probe!DecodeWindows PROVE ProbeInv'
<1>1. /\ probing = "windows" /\ file' = file /\ tries' = tries /\ faults' = faults
      /\ known' = known /\ trip' = trip
  BY DEF Probe!DecodeWindows, Probe!keep
<1>2. /\ cause.reason \notin Probe!Replaceable /\ faults \in Nat /\ probing \in Running
      /\ tries \in {1, 2} /\ (tries = 2 => Probe!Bad \/ faults >= 1)
  BY <1>1 DEF ProbeInv, Clues, Trying, Running
<1>3. (known' => Probe!Shape.dead) /\ (trip' => Probe!Shape.dead) BY <1>1 DEF ProbeInv, Clues
<1>4. CASE spent
  <2>1. /\ cause' = Probe!noteUnverified("read_budget_spent")
        /\ res' = Probe!Result(TRUE, "", FALSE, "") /\ probing' = "confirm" /\ told' = told
    BY <1>4 DEF Probe!DecodeWindows, Probe!Return
  <2>2. cause'.reason \notin Probe!Replaceable BY <2>1, NotedFacts, Reasons
  <2>3. res'.ok BY <2>1 DEF Probe!Result
  <2>4. res'.why # "unreadable" BY <2>1 DEF Probe!Result
  <2>5. probing' = "confirm" /\ told' = told BY <2>1
  <2>6. faults' \in Nat /\ faults' >= faults BY <1>1, <1>2
  <2> QED BY <1>1, <1>2, <1>3, <2>2, <2>3, <2>4, <2>5, <2>6, Returns
<1>5. CASE ~spent
  <2>1. probing' \in {"spread", "head", "detect"} /\ cause' = cause /\ told' = told
    BY <1>5 DEF Probe!DecodeWindows
  <2>2. probing' \in Running /\ probing' # "tail" BY <2>1 DEF Running
  <2> QED BY <1>1, <1>2, <1>3, <2>1, <2>2, GoesOn
<1> QED BY <1>4, <1>5

\* A decoding process returns what runDecodeProbe made of it.
LEMMA DecodedReturns ==
  ASSUME ProbeInv, probing \in Running, NEW phase, NEW end, NEW out, NEW over,
         Probe!Proc(phase, end), out \in Probe!Seen(phase, end), end = "spent" => over,
         file' = file, tries' = tries, cause'.reason \notin Probe!Replaceable,
         NEW concl, NEW cov,
         LET ok == Probe!Decoded(phase, end, out, over).ok
         IN Probe!Return(Probe!Result(ok, IF ok THEN "" ELSE "decode_error", concl, cov))
  PROVE  ProbeInv'
<1> DEFINE ok == Probe!Decoded(phase, end, out, over).ok
           r  == Probe!Result(ok, IF ok THEN "" ELSE "decode_error", concl, cov)
<1>1. ok \/ Probe!Bad \/ faults' >= tries BY FailureIsFilesOrReads
<1>2. Probe!Return(r) OBVIOUS
<1> HIDE DEF ok
<1>3. r.ok = ok /\ r.why = (IF ok THEN "" ELSE "decode_error") BY DEF Probe!Result
<1>4. r.why # "unreadable" BY <1>3
<1>5. r.ok \/ Probe!Bad \/ spent' \/ faults' >= tries BY <1>1, <1>3
<1> HIDE DEF r
<1> QED BY <1>2, <1>4, <1>5, ProcReturns

LEMMA DetectKeeps == ASSUME ProbeInv, Probe!Detect PROVE ProbeInv'
<1>1. probing \in Running /\ file' = file /\ tries' = tries
  BY DEF Probe!Detect, Running, Probe!keep
<1>2. PICK end, out : out \in Probe!Seen("detect", end) /\ Probe!DetectEnds(end, out)
  BY DEF Probe!Detect
<1> DEFINE d == Probe!Decoded("detect", end, out, end = "spent")
<1>3. Probe!Proc("detect", end) BY <1>2 DEF Probe!DetectEnds
<1>4. d.note.reason \notin Probe!Replaceable BY DecodedFacts DEF ProbeInv
<1>5. d.ok \/ Probe!Bad \/ faults' >= tries BY <1>1, <1>2, <1>3, FailureIsFilesOrReads
<1>6. \/ probing' = "head" /\ cause' = d.note /\ told' = told
      \/ ~d.ok /\ cause' = d.note /\ Probe!Return(Probe!Result(FALSE, "decode_error", TRUE, ""))
      \/ probing' = "detectlead" /\ cause' = d.note /\ told' = told
      \/ cause' = d.note /\ Probe!Return(Probe!Result(TRUE, "", FALSE, ""))
      \/ /\ cause' = Probe!noteUnverified(Probe!timeoutCause)
         /\ Probe!Return(Probe!Result(TRUE, "", FALSE, ""))
      \/ probing' = "spread" /\ cause' = d.note /\ told' = told
  BY <1>2 DEF Probe!DetectEnds
<1> HIDE DEF d
<1>7. cause'.reason \notin Probe!Replaceable BY <1>4, <1>6, NotedFacts, TimeoutFacts
<1>8. Probe!Return(Probe!Result(TRUE, "", FALSE, "")) => ProbeInv'
  BY <1>1, <1>3, <1>7, PassReturns
<1>9. \A why : why # "unreadable" /\ ~d.ok /\ Probe!Return(Probe!Result(FALSE, why, TRUE, ""))
                => ProbeInv'
  BY <1>1, <1>3, <1>5, <1>7, FailReturns
<1>10. probing' \in Running \ {"tail"} /\ told' = told => ProbeInv'
  BY <1>1, <1>3, <1>7, ProcGoesOn
<1> QED BY <1>6, <1>8, <1>9, <1>10 DEF Running

LEMMA DetectLeadKeeps == ASSUME ProbeInv, Probe!DetectLead PROVE ProbeInv'
<1>1. probing \in Running /\ file' = file /\ tries' = tries
  BY DEF Probe!DetectLead, Running, Probe!keep
<1>2. PICK end, out : out \in Probe!Seen("detectlead", end) /\ Probe!DetectLeadEnds(end, out)
  BY DEF Probe!DetectLead
<1> DEFINE d == Probe!Decoded("detectlead", end, out, end = "spent")
<1>3. Probe!Proc("detectlead", end) BY <1>2 DEF Probe!DetectLeadEnds
<1>4. cause.reason \notin Probe!Replaceable BY DEF ProbeInv, Clues
<1>5. d.ok \/ Probe!Bad \/ faults' >= tries BY <1>1, <1>2, <1>3, FailureIsFilesOrReads
<1>6. \/ probing' = "spread" /\ cause' = Probe!noteUnverified("") /\ told' = told
      \/ ~d.ok /\ cause' = cause /\ Probe!Return(Probe!Result(FALSE, "decode_error", TRUE, ""))
      \/ cause' = cause /\ Probe!Return(Probe!Result(TRUE, "", FALSE, ""))
  BY <1>2 DEF Probe!DetectLeadEnds
<1> HIDE DEF d
<1>7. cause'.reason \notin Probe!Replaceable BY <1>4, <1>6, NotedFacts, Reasons
<1>8. Probe!Return(Probe!Result(TRUE, "", FALSE, "")) => ProbeInv'
  BY <1>1, <1>3, <1>7, PassReturns
<1>9. \A why : why # "unreadable" /\ ~d.ok /\ Probe!Return(Probe!Result(FALSE, why, TRUE, ""))
                => ProbeInv'
  BY <1>1, <1>3, <1>5, <1>7, FailReturns
<1>10. probing' \in Running \ {"tail"} /\ told' = told => ProbeInv'
  BY <1>1, <1>3, <1>7, ProcGoesOn
<1> QED BY <1>6, <1>8, <1>9, <1>10 DEF Running

LEMMA HeadKeeps == ASSUME ProbeInv, Probe!Head PROVE ProbeInv'
<1>1. probing \in Running /\ file' = file /\ tries' = tries
  BY DEF Probe!Head, Running, Probe!keep
<1>2. PICK end, out : out \in Probe!Seen("head", end) /\ Probe!HeadEnds(end, out)
  BY DEF Probe!Head
<1> DEFINE over == end = "spent"
           d == Probe!Decoded("head", end, out, over)
<1>3. Probe!Proc("head", end) BY <1>2 DEF Probe!HeadEnds
<1>4. d.note.reason \notin Probe!Replaceable BY DecodedFacts DEF ProbeInv
<1>5. CASE over \/ (d.ok /\ ~d.concl)
  <2>1. /\ cause' = IF d.through THEN d.note
                    ELSE Probe!noteUnverified(IF gone' THEN "check_cancelled" ELSE "no_seek_index")
        /\ Probe!Return(Probe!Result(TRUE, "", FALSE, "partial"))
    BY <1>2, <1>5 DEF Probe!HeadEnds
  <2> HIDE DEF d
  <2>2. cause'.reason \notin Probe!Replaceable BY <1>4, <2>1, NotedFacts, Reasons
  <2> QED BY <1>1, <1>3, <2>1, <2>2, PassReturns
<1>6. CASE ~(over \/ (d.ok /\ ~d.concl))
  <2>1. /\ cause' = d.note
        /\ Probe!Return(Probe!Result(d.ok, IF d.ok THEN "" ELSE "decode_error", d.concl, "partial"))
    BY <1>2, <1>6 DEF Probe!HeadEnds
  <2>2. cause'.reason \notin Probe!Replaceable BY <1>4, <2>1
  <2> QED BY <1>1, <1>2, <1>3, <2>1, <2>2, DecodedReturns
<1> QED BY <1>5, <1>6

LEMMA SpreadKeeps == ASSUME ProbeInv, Probe!Spread \/ Probe!SpreadLead PROVE ProbeInv'
<1>1. probing \in Running /\ file' = file /\ tries' = tries
  BY DEF Probe!Spread, Probe!SpreadLead, Running, Probe!keep
<1>2. ASSUME NEW phase, NEW end, NEW out, Probe!Proc(phase, end), out \in Probe!Seen(phase, end),
             cause' = Probe!Decoded(phase, end, out, spent \/ end = "spent").note
      PROVE  /\ LET d == Probe!Decoded(phase, end, out, spent \/ end = "spent") IN
                Probe!Return(Probe!Result(d.ok, IF d.ok THEN "" ELSE "decode_error", d.concl, "full"))
                  => ProbeInv'
             /\ probing' = "spreadlead" /\ told' = told => ProbeInv'
  <2> DEFINE over == spent \/ end = "spent"
             d == Probe!Decoded(phase, end, out, over)
  <2>1. d.note.reason \notin Probe!Replaceable BY DecodedFacts DEF ProbeInv
  <2>2. cause'.reason \notin Probe!Replaceable BY <1>2, <2>1
  <2>3. end = "spent" => over OBVIOUS
  <2>4. probing' = "spreadlead" /\ told' = told => ProbeInv'
    BY <1>1, <1>2, <2>2, ProcGoesOn DEF Running
  <2>5. Probe!Return(Probe!Result(d.ok, IF d.ok THEN "" ELSE "decode_error", d.concl, "full"))
          => ProbeInv'
    <3> HIDE DEF over
    <3> QED BY <1>1, <1>2, <2>2, <2>3, DecodedReturns
  <2> QED BY <2>4, <2>5
<1>3. CASE Probe!Spread
  <2>1. PICK end, out : out \in Probe!Seen("spread", end) /\ Probe!SpreadEnds(end, out)
    BY <1>3 DEF Probe!Spread
  <2> QED BY <1>2, <2>1 DEF Probe!SpreadEnds
<1>4. CASE Probe!SpreadLead
  <2>1. PICK end, out : out \in Probe!Seen("spreadlead", end) /\ Probe!SpreadLeadEnds(end, out)
    BY <1>4 DEF Probe!SpreadLead
  <2> QED BY <1>2, <2>1 DEF Probe!SpreadLeadEnds
<1> QED BY <1>3, <1>4

\* The sweep's own checks: a verdict, or the next question.
LEMMA AsksNext ==
  ASSUME ProbeInv, file' = file, told' = told, faults' = faults, known' = known, trip' = trip,
         cause'.reason \notin Probe!Replaceable, probing' \in {"geometry", "order", "begin"}
  PROVE  ProbeInv'
<1>1. Probe!Shape' = Probe!Shape /\ (Probe!Bad' <=> Probe!Bad) BY DEF Probe!Shape, Probe!Bad
<1>2. Clues' BY <1>1 DEF ProbeInv, Clues, Probe!Replaceable
<1>3. Trying' BY DEF Trying, Running
<1>4. Probe!CondemnedIsBad' BY <1>1 DEF ProbeInv, Judged, Probe!CondemnedIsBad
<1>5. Judged' BY <1>1, <1>4 DEF ProbeInv, Judged
<1> QED BY <1>2, <1>3, <1>5 DEF ProbeInv

LEMMA SweepChecksKeep ==
  ASSUME ProbeInv, Probe!Gate \/ Probe!Geometry \/ Probe!VolumeOrder
  PROVE  ProbeInv'
<1>1. /\ file' = file /\ faults' = faults /\ known' = known /\ trip' = trip /\ cause' = cause
  BY DEF Probe!Gate, Probe!Geometry, Probe!VolumeOrder
<1>2. cause'.reason \notin Probe!Replaceable BY <1>1 DEF ProbeInv, Clues
<1>3. \/ known /\ Probe!Tell("broken", "sweep_dead_segment", "")
      \/ \E g \in {"spliced", "missing"} : Probe!Shape.geom = g /\ Probe!Tell("broken", g, "")
      \/ Probe!Shape.geom = "tail" /\ Probe!Tell("unverified", "import_tail_truncated", "")
      \/ ~Probe!Shape.order /\ Probe!Tell("unverified", "import_volume_order", "")
      \/ probing' \in {"geometry", "order", "begin"} /\ told' = told
  <2>1. CASE Probe!Gate BY <2>1 DEF Probe!Gate
  <2>2. CASE Probe!VolumeOrder BY <2>2 DEF Probe!VolumeOrder
  <2>3. CASE Probe!Geometry BY <2>3 DEF Probe!Geometry
  <2> QED BY <2>1, <2>2, <2>3
<1>4. CASE known /\ Probe!Tell("broken", "sweep_dead_segment", "")
  <2>1. Probe!Bad BY <1>4 DEF ProbeInv, Clues, Probe!Bad
  <2> QED BY <1>1, <1>2, <1>4, <2>1, Tells
<1>5. ASSUME NEW g \in {"spliced", "missing"}, Probe!Shape.geom = g, Probe!Tell("broken", g, "")
      PROVE  ProbeInv'
  <2>1. Probe!Bad BY <1>5 DEF Probe!Bad
  <2> QED BY <1>1, <1>2, <1>5, <2>1, Tells
<1>6. CASE Probe!Shape.geom = "tail" /\ Probe!Tell("unverified", "import_tail_truncated", "")
  BY <1>1, <1>2, <1>6, Tells
<1>7. CASE ~Probe!Shape.order /\ Probe!Tell("unverified", "import_volume_order", "")
  BY <1>1, <1>2, <1>7, Tells
<1>8. CASE probing' \in {"geometry", "order", "begin"} /\ told' = told
  BY <1>1, <1>2, <1>8, AsksNext
<1> QED BY <1>3, <1>4, <1>5, <1>6, <1>7, <1>8

LEMMA BeginKeepsProbe == ASSUME ProbeInv, Probe!Begin PROVE ProbeInv'
<1>1. /\ probing' = "meta" /\ tries' = 1 /\ trip' = FALSE /\ file' = file /\ faults' = faults
      /\ known' = known /\ cause' = cause /\ told' = told
  BY DEF Probe!Begin
<1>2. known' => Probe!Shape.dead BY <1>1 DEF ProbeInv, Clues
<1>3. /\ faults' \in Nat /\ faults' >= faults /\ cause'.reason \notin Probe!Replaceable
  BY <1>1 DEF ProbeInv, Clues
<1>4. ~trip' BY <1>1
<1>5. probing' \in Running /\ probing' # "tail" BY <1>1 DEF Running
<1> QED BY <1>1, <1>2, <1>3, <1>4, <1>5, GoesOn

LEMMA RetryKeeps == ASSUME ProbeInv, Probe!Retry PROVE ProbeInv'
<1>1. /\ probing = "confirm" /\ Probe!Settled(tries) = "retry" /\ tries' = 2 /\ probing' = "meta"
      /\ file' = file /\ faults' = faults /\ known' = known /\ trip' = trip /\ cause' = cause
      /\ told' = told
  BY DEF Probe!Retry
<1>2. tries = 1 /\ ~res.ok /\ ~spent BY <1>1 DEF Probe!Settled, ProbeInv, Trying
<1>3. Probe!Bad \/ faults >= 1 BY <1>1, <1>2 DEF ProbeInv, Trying
<1>4. (known' => Probe!Shape.dead) /\ (trip' => Probe!Shape.dead) BY <1>1 DEF ProbeInv, Clues
<1>5. /\ faults' \in Nat /\ faults' >= faults /\ cause'.reason \notin Probe!Replaceable
  BY <1>1 DEF ProbeInv, Clues
<1>6. probing' \in Running /\ probing' # "tail" BY <1>1 DEF Running
<1> QED BY <1>1, <1>3, <1>4, <1>5, <1>6, GoesOn

\* The caller's word on an answer: broken only for what is bad.
LEMMA AnswerKeeps ==
  ASSUME ProbeInv, file' = file, faults' = faults, known' = known, trip' = trip,
         cause'.reason \notin Probe!Replaceable,
         NEW ok, NEW why, NEW concl, NEW cov, Probe!Answer(ok, why, concl, cov),
         ok \/ Probe!Bad \/ faults >= 2
  PROVE  ProbeInv'
<1>1. known => Probe!Bad BY DEF ProbeInv, Clues, Probe!Bad
<1>2. ASSUME NEW c, NEW w, NEW v, Probe!Tell(c, w, v),
             c \in {"broken", "unverified", "verified", "skipped", "dirty"},
             c = "broken" => ~ok \/ known,
             c = "unverified" => /\ w # "import_tail_truncated"
                                 /\ w = "import_volume_order" => ~Probe!Shape.order
      PROVE  ProbeInv'
  <2>1. c = "broken" => Probe!Bad \/ faults >= 2 BY <1>1, <1>2
  <2>2. c = "unverified" => /\ w = "import_tail_truncated" => Probe!Shape.geom = "tail"
                            /\ w = "import_volume_order" => ~Probe!Shape.order
    BY <1>2
  <2> QED BY <1>2, <2>1, <2>2, Tells
<1>3. CASE Probe!SweepTells(ok, why, concl, cov)
  <2>1. \/ ~ok /\ Probe!Tell("broken", why, cov)
        \/ known /\ Probe!Tell("broken", "sweep_dead_segment_ffprobe_override", cov)
        \/ Probe!Tell("verified", "", cov)
        \/ Probe!Tell("skipped", "", cov)
        \/ ~Probe!Shape.order /\ Probe!Tell("unverified", "import_volume_order", cov)
        \/ Probe!Tell("unverified", IF cause'.reason = "" THEN "decode_inconclusive"
                                                        ELSE cause'.reason, cov)
    BY <1>3 DEF Probe!SweepTells
  <2> DEFINE w == IF cause'.reason = "" THEN "decode_inconclusive" ELSE cause'.reason
  <2>2. w \notin {"import_tail_truncated", "import_volume_order"} BY DEF Probe!Replaceable
  <2> HIDE DEF w
  <2>3. Probe!Tell("unverified", w, cov) => ProbeInv' BY <1>2, <2>2
  <2>4. ~ok /\ Probe!Tell("broken", why, cov) => ProbeInv' BY <1>2
  <2>5. known /\ Probe!Tell("broken", "sweep_dead_segment_ffprobe_override", cov) => ProbeInv'
    BY <1>2
  <2>6. Probe!Tell("verified", "", cov) \/ Probe!Tell("skipped", "", cov) => ProbeInv' BY <1>2
  <2>7. ~Probe!Shape.order /\ Probe!Tell("unverified", "import_volume_order", cov) => ProbeInv'
    BY <1>2
  <2> QED BY <2>1, <2>3, <2>4, <2>5, <2>6, <2>7 DEF w
<1>4. CASE Probe!ImportTells(ok, why, concl)
  <2>1. \/ ~ok /\ Probe!Tell("broken", why, "")
        \/ Probe!Tell("verified", "", "")
        \/ Probe!Tell("dirty", "", "")
        \/ probing' = "begin" /\ told' = told
    BY <1>4 DEF Probe!ImportTells
  <2>2. ~ok /\ Probe!Tell("broken", why, "") => ProbeInv' BY <1>2
  <2>3. Probe!Tell("verified", "", "") \/ Probe!Tell("dirty", "", "") => ProbeInv' BY <1>2
  <2>4. probing' = "begin" /\ told' = told => ProbeInv' BY AsksNext
  <2> QED BY <2>1, <2>2, <2>3, <2>4
<1> QED BY <1>3, <1>4 DEF Probe!Answer

LEMMA CancelledKeeps == ASSUME ProbeInv, Probe!RetryCancelled PROVE ProbeInv'
<1>1. /\ file' = file /\ faults' = faults /\ known' = known /\ trip' = trip
      /\ cause' = Probe!noteUnverified("check_cancelled") /\ Probe!Answer(TRUE, "", FALSE, "")
  BY DEF Probe!RetryCancelled
<1>2. cause'.reason \notin Probe!Replaceable BY <1>1, NotedFacts, Reasons
<1> QED BY <1>1, <1>2, AnswerKeeps

LEMMA ConfirmKeeps == ASSUME ProbeInv, Probe!Confirm PROVE ProbeInv'
<1>1. /\ file' = file /\ faults' = faults /\ known' = known /\ trip' = trip /\ probing = "confirm"
      /\ Probe!Settled(tries) # "retry"
  BY DEF Probe!Confirm
<1>2. cause.reason \notin Probe!Replaceable /\ tries \in {1, 2} BY <1>1 DEF ProbeInv, Clues, Trying
<1>3. trip => Probe!Bad BY DEF ProbeInv, Clues, Probe!Bad
<1>4. \/ Probe!Bad \/ spent \/ res.ok \/ faults >= tries BY <1>1 DEF ProbeInv, Trying
<1>5. res.why = "unreadable" => Probe!Bad BY <1>1 DEF ProbeInv, Trying
<1>6. CASE Probe!Settled(tries) = "dead"
  <2>1. cause' = cause /\ Probe!Answer(FALSE, "dead_segment", TRUE, res.cov)
    BY <1>6 DEF Probe!Confirm
  <2>2. trip BY <1>6 DEF Probe!Settled
  <2> QED BY <1>1, <1>2, <1>3, <2>1, <2>2, AnswerKeeps
<1>7. CASE Probe!Settled(tries) = "ok"
  <2>1. cause' = cause /\ Probe!Answer(TRUE, "", res.concl, res.cov) BY <1>7 DEF Probe!Confirm
  <2> QED BY <1>1, <1>2, <2>1, AnswerKeeps
<1>8. CASE Probe!Settled(tries) = "spent"
  <2>1. /\ cause' = Probe!noteUnverified("read_budget_spent") /\ Probe!Answer(TRUE, "", FALSE, "")
    BY <1>8 DEF Probe!Confirm
  <2>2. cause'.reason \notin Probe!Replaceable BY <2>1, NotedFacts, Reasons
  <2> QED BY <1>1, <2>1, <2>2, AnswerKeeps
<1>9. CASE Probe!Settled(tries) \notin {"dead", "ok", "spent"}
  <2>1. cause' = cause /\ Probe!Answer(FALSE, res.why, res.concl, res.cov)
    BY <1>9 DEF Probe!Confirm
  <2>2. /\ ~res.ok /\ ~spent /\ (tries = 1 => res.why = "unreadable")
    BY <1>1, <1>2, <1>9 DEF Probe!Settled
  <2>3. Probe!Bad \/ faults >= 2 BY <1>2, <1>4, <1>5, <2>2
  <2> QED BY <1>1, <1>2, <2>1, <2>3, AnswerKeeps
<1> QED BY <1>6, <1>7, <1>8, <1>9

LEMMA ReplaceKeeps == ASSUME ProbeInv, Probe!ReplaceUnverified PROVE ProbeInv'
<1>1. /\ told.class = "unverified" /\ told.why \in Probe!Replaceable /\ probing = "done"
      /\ cause' = Probe!NoCause /\ faults' = faults /\ known' = known /\ trip' = trip
  BY DEF Probe!ReplaceUnverified
<1>2. cause'.reason \notin Probe!Replaceable BY <1>1, Reasons DEF Probe!NoCause
<1>3. CASE file' = [file EXCEPT !.shape.order = TRUE] /\ probing' = "gate" /\ told' = Probe!NoVerdict
  <2> DEFINE s == [Probe!Shape EXCEPT !.order = TRUE]
  <2>1. DOMAIN file' = {"shape", "big", "index"} /\ file'.shape = s
    BY <1>3 DEF ProbeInv, Clues, Probe!Shape
  <2>2. DOMAIN s = ShapeFields /\ s.dead = Probe!Shape.dead
    BY DEF ProbeInv, Clues, ShapeFields
  <2> HIDE DEF s
  <2>3. Probe!Shape' = s BY <2>1 DEF Probe!Shape
  <2>4. DOMAIN told' = {"class", "why", "cov"} /\ told'.class = "none" BY <1>3 DEF Probe!NoVerdict
  <2>5. (known' => s.dead) /\ (trip' => s.dead) BY <1>1, <2>2 DEF ProbeInv, Clues
  <2>6. Clues' BY <1>1, <1>2, <2>1, <2>2, <2>3, <2>4, <2>5 DEF ProbeInv, Clues, Probe!Replaceable
  <2>7. Trying' BY <1>3 DEF Trying, Running
  <2>8. Judged' BY <2>4 DEF Judged, Probe!CondemnedIsBad
  <2> QED BY <2>6, <2>7, <2>8 DEF ProbeInv
<1>4. CASE file' = file /\ probing' = probing /\ told' = [told EXCEPT !.class = "replaced"]
  <2>1. Probe!Shape' = Probe!Shape BY <1>4 DEF Probe!Shape
  <2>2. DOMAIN told' = {"class", "why", "cov"} /\ told'.class = "replaced"
    BY <1>4 DEF ProbeInv, Clues
  <2>3. Probe!Shape.geom = "tail" \/ ~Probe!Shape.order
    BY <1>1 DEF ProbeInv, Judged, Probe!Replaceable
  <2>4. (known' => Probe!Shape'.dead) /\ (trip' => Probe!Shape'.dead)
    BY <1>1, <2>1 DEF ProbeInv, Clues
  <2>5. Clues' BY <1>1, <1>2, <1>4, <2>1, <2>2, <2>4 DEF ProbeInv, Clues, Probe!Replaceable
  <2>6. Trying' BY <1>1, <1>4 DEF Trying, Running
  <2>7. Judged' BY <2>1, <2>2, <2>3 DEF Judged, Probe!CondemnedIsBad
  <2> QED BY <2>5, <2>6, <2>7 DEF ProbeInv
<1> QED BY <1>3, <1>4 DEF Probe!ReplaceUnverified

LEMMA ProbeInvNext == ASSUME ProbeInv, Probe!NextProbe PROVE ProbeInv'
BY SweepChecksKeep, BeginKeepsProbe, MetaKeeps, TailKeeps, WindowsKeeps, DetectKeeps,
   DetectLeadKeeps, HeadKeeps, SpreadKeeps, ConfirmKeeps, RetryKeeps, CancelledKeeps, ReplaceKeeps
   DEF Probe!NextProbe

\* A file told broken is bad, or two reads failed while it was judged, and only
\* a truncated or misordered one is replaced on the user's word, for files with
\* any flaws, any budget and any number of failed reads (ffprobe.go, check and
\* checkConfirmed; repair_sweep.go, probeFile; downloader.go, verifyImportFile).
THEOREM CondemnedForCause == MCSpec => []CondemnedIsBad
<1> DEFINE I == part = "probe" => ProbeInv
<1>1. MCInit => I BY ProbeInvInit DEF MCInit
<1>2. I /\ [MCNext]_mcvars => I'
  <2> SUFFICES ASSUME I, [MCNext]_mcvars, part' = "probe" PROVE ProbeInv' OBVIOUS
  <2>1. CASE UNCHANGED mcvars
    <3>1. part = "probe" /\ ProbeInv BY <2>1 DEF mcvars
    <3>2. UNCHANGED <<file, probing, told, cause, res, tries, trip, known, faults, spent>>
      BY <2>1 DEF mcvars, probe
    <3>3. Probe!Shape' = Probe!Shape /\ (Probe!Bad' <=> Probe!Bad)
      BY <3>2 DEF Probe!Shape, Probe!Bad
    <3>4. Clues' BY <3>1, <3>2, <3>3 DEF ProbeInv, Clues, Probe!Replaceable
    <3>5. Trying' BY <3>1, <3>2, <3>3 DEF ProbeInv, Trying
    <3>6. Judged' BY <3>1, <3>2, <3>3 DEF ProbeInv, Judged, Probe!CondemnedIsBad
    <3> QED BY <3>4, <3>5, <3>6 DEF ProbeInv
  <2>2. CASE MCNext
    <3>1. part = "probe" /\ Probe!NextProbe BY <2>2 DEF MCNext
    <3> QED BY <3>1, ProbeInvNext
  <2> QED BY <2>1, <2>2
<1>3. I => CondemnedIsBad BY DEF CondemnedIsBad, ProbeInv, Judged
<1> QED BY <1>1, <1>2, <1>3, PTL DEF MCSpec
-----------------------------------------------------------------------------
(* The readers of a release.                                               *)

Streaming == {s \in Streams : st[s].pc = "stream"}
ReaderFields == {"refs", "gone", "layout", "closed"}
Sequenced(q) == \E S : q \in Seq(S)

\* The shelf of readers, and who may name one of them.
Shelf ==
  /\ Sequenced(readers) /\ DOMAIN st = Streams /\ DOMAIN hand = Readers!Actors
  /\ \A e \in 1..Len(readers) : DOMAIN readers[e] = ReaderFields
  /\ slot \in 0..Len(readers) /\ \A a \in Readers!Actors : hand[a] \in 0..Len(readers)

\* The inductive invariant: the reader the key names is open and counts the
\* streams exactly, or it is fenced off and there are none; all streams are
\* on it; and whoever tears a reader down has fenced it off.
ReaderInv ==
  /\ Shelf
  /\ slot = 0 => Streaming = {}
  /\ slot # 0 =>
       /\ ~readers[slot].closed
       /\ \/ readers[slot].refs = Cardinality(Streaming)
          \/ readers[slot].refs = Readers!Tomb /\ Streaming = {}
  /\ \A s \in Streaming : st[s].rd = slot
  /\ \A a \in Readers!Actors : hand[a] # 0 => readers[hand[a]].refs = Readers!Tomb

LEMMA Fence == Readers!Tomb \in Int /\ Readers!Tomb < 0 /\ Readers!Tomb' = Readers!Tomb
BY SMT DEF Readers!Tomb

LEMMA SameCardinality == \A S : Readers!Cardinality(S) = Cardinality(S)
BY DEF Readers!Cardinality, Cardinality

\* The streams are finitely many, and counted by one more or one less.
LEMMA Counting ==
  /\ IsFiniteSet(Streaming) /\ Cardinality(Streaming) \in Nat
  /\ Cardinality(Streaming) = 0 <=> Streaming = {}
  /\ \A s : s \notin Streaming => Cardinality(Streaming \cup {s}) = Cardinality(Streaming) + 1
  /\ \A s \in Streaming : Cardinality(Streaming \ {s}) = Cardinality(Streaming) - 1
<1>1. IsFiniteSet(Streaming) BY StreamsAssumption, FS_Subset DEF Streaming
<1> HIDE DEF Streaming
<1>2. Cardinality(Streaming) \in Nat BY <1>1, FS_CardinalityType
<1>3. Cardinality(Streaming) = 0 <=> Streaming = {} BY <1>1, FS_EmptySet
<1>4. \A s : s \notin Streaming => Cardinality(Streaming \cup {s}) = Cardinality(Streaming) + 1
  BY <1>1, FS_AddElement
<1>5. \A s \in Streaming : Cardinality(Streaming \ {s}) = Cardinality(Streaming) - 1
  BY <1>1, FS_RemoveElement
<1> QED BY <1>1, <1>2, <1>3, <1>4, <1>5

LEMMA AppendFacts ==
  ASSUME NEW q, Sequenced(q), NEW x
  PROVE  /\ Sequenced(Append(q, x)) /\ Len(q) \in Nat /\ Len(Append(q, x)) = Len(q) + 1
         /\ \A i \in 1..Len(q) : Append(q, x)[i] = q[i]
         /\ Append(q, x)[Len(q) + 1] = x
<1>1. PICK S : q \in Seq(S) BY DEF Sequenced
<1>2. q \in Seq(S \cup {x}) BY <1>1, SeqMonotonic
<1>3. Append(q, x) \in Seq(S \cup {x}) BY <1>2
<1> QED BY <1>2, <1>3 DEF Sequenced

LEMMA LenIsNat == ASSUME NEW q, Sequenced(q) PROVE Len(q) \in Nat
BY DEF Sequenced

LEMMA ReaderInvInit == Readers!InitReader => ReaderInv
<1> SUFFICES ASSUME Readers!InitReader PROVE ReaderInv OBVIOUS
<1>1. /\ slot = 0 /\ readers = <<>> /\ st = [s \in Streams |-> Readers!NoStream]
      /\ hand = [a \in Readers!Actors |-> 0]
  BY DEF Readers!InitReader
<1>2. Readers!NoStream.pc = "idle" BY DEF Readers!NoStream
<1>3. Streaming = {} BY <1>1, <1>2 DEF Streaming
<1>4. Sequenced(readers) /\ Len(readers) = 0
  <2>1. <<>> \in Seq({}) OBVIOUS
  <2> QED BY <1>1, <2>1 DEF Sequenced
<1>5. Shelf BY <1>1, <1>4 DEF Shelf
<1> QED BY <1>1, <1>3, <1>5 DEF ReaderInv

\* No reader is touched, and no stream comes or goes.
LEMMA StillKeeps ==
  ASSUME ReaderInv, UNCHANGED <<slot, readers, hand>>, DOMAIN st' = Streams,
         \A s \in Streams : /\ st'[s].pc = "stream" <=> st[s].pc = "stream"
                            /\ st[s].pc = "stream" => st'[s].rd = st[s].rd
  PROVE  ReaderInv'
<1>1. Streaming' = Streaming BY DEF Streaming
<1>2. Shelf' BY DEF ReaderInv, Shelf
<1>3. \A s \in Streaming : st'[s].rd = slot BY DEF ReaderInv, Streaming
<1> QED BY <1>1, <1>2, <1>3, Fence DEF ReaderInv

\* The reader e becomes r, and the streams and hands stay.
LEMMA ShelfKeeps ==
  ASSUME Shelf, NEW e \in 1..Len(readers), NEW r, readers' = [readers EXCEPT ![e] = r],
         DOMAIN r = ReaderFields, DOMAIN st' = Streams, DOMAIN hand' = Readers!Actors,
         slot' \in 0..Len(readers),
         \A a \in Readers!Actors : hand'[a] \in 0..Len(readers)
  PROVE  /\ Shelf' /\ readers'[e] = r /\ Len(readers') = Len(readers)
         /\ \A i \in 1..Len(readers) : i # e => readers'[i] = readers[i]
<1>1. /\ Sequenced(readers') /\ Len(readers') = Len(readers) /\ readers'[e] = r
      /\ \A i \in 1..Len(readers) : i # e => readers'[i] = readers[i]
  <2>1. PICK S : readers \in Seq(S) BY DEF Shelf, Sequenced
  <2>2. readers \in Seq(S \cup {r}) BY <2>1, SeqMonotonic
  <2>3. readers' \in Seq(S \cup {r}) /\ Len(readers') = Len(readers) BY <2>2, ExceptSeq
  <2> QED BY <2>2, <2>3 DEF Sequenced
<1>2. \A i \in 1..Len(readers') : DOMAIN readers'[i] = ReaderFields BY <1>1 DEF Shelf
<1> QED BY <1>1, <1>2 DEF Shelf

\* A stream takes a reference of the reader the key names.
LEMMA AcquireKeeps ==
  ASSUME ReaderInv, NEW s \in Streams, st[s].pc # "stream", slot # 0, Readers!Alive(slot),
         Readers!Acquire(slot), slot' = slot, hand' = hand,
         st' = [st EXCEPT ![s] = [pc |-> "stream", rd |-> slot, layout |-> <<>>]]
  PROVE  ReaderInv'
<1> DEFINE r == [readers[slot] EXCEPT !.refs = @ + 1]
<1>1. slot \in 1..Len(readers) BY LenIsNat DEF ReaderInv, Shelf
<1>2. DOMAIN readers[slot] = ReaderFields BY <1>1 DEF ReaderInv, Shelf
<1>3. DOMAIN r = ReaderFields /\ r.refs = readers[slot].refs + 1 /\ r.closed = readers[slot].closed
  BY <1>2 DEF ReaderFields
<1>4. readers' = [readers EXCEPT ![slot] = r] BY DEF Readers!Acquire
<1> HIDE DEF r
<1>5. /\ DOMAIN st' = Streams /\ st'[s].pc = "stream" /\ st'[s].rd = slot
      /\ \A t \in Streams : t # s => st'[t] = st[t]
  BY DEF ReaderInv, Shelf
<1>6. /\ Shelf' /\ readers'[slot] = r
      /\ \A i \in 1..Len(readers) : i # slot => readers'[i] = readers[i]
  BY <1>1, <1>3, <1>4, <1>5, ShelfKeeps DEF ReaderInv, Shelf
<1>7. Streaming' = Streaming \cup {s} /\ s \notin Streaming BY <1>5 DEF Streaming
<1>8. readers[slot].refs = Cardinality(Streaming)
  BY Counting, Fence DEF ReaderInv, Readers!Alive
<1>9. r.refs = Cardinality(Streaming') BY <1>3, <1>7, <1>8, Counting
<1>10. \A t \in Streaming' : st'[t].rd = slot BY <1>5, <1>7 DEF ReaderInv, Streaming
<1>11. ASSUME NEW a \in Readers!Actors, hand[a] # 0
       PROVE  hand[a] \in 1..Len(readers) /\ hand[a] # slot
  <2>1. hand[a] \in 1..Len(readers) BY <1>11, LenIsNat DEF ReaderInv, Shelf
  <2>2. readers[hand[a]].refs < 0 BY <1>11, Fence DEF ReaderInv
  <2>3. ~(readers[slot].refs < 0) BY <1>8, Counting
  <2> QED BY <2>1, <2>2, <2>3
<1>12. \A a \in Readers!Actors : hand'[a] # 0 => readers'[hand'[a]].refs = Readers!Tomb
  BY <1>6, <1>11 DEF ReaderInv
<1>13. ~readers'[slot].closed BY <1>3, <1>6 DEF ReaderInv
<1> QED BY <1>6, <1>9, <1>10, <1>12, <1>13, Fence DEF ReaderInv

\* A stream publishes a new reader, which counts it and nobody else.
LEMMA PublishKeeps ==
  ASSUME ReaderInv, NEW s \in Streams, NEW l, slot = 0, hand' = hand, slot' = Len(readers'),
         readers' = Append(readers, [refs |-> 1, gone |-> FALSE, layout |-> l, closed |-> FALSE]),
         st' = [st EXCEPT ![s] = [pc |-> "stream", rd |-> slot', layout |-> <<>>]]
  PROVE  ReaderInv'
<1> DEFINE r == [refs |-> 1, gone |-> FALSE, layout |-> l, closed |-> FALSE]
<1>1. DOMAIN r = ReaderFields /\ r.refs = 1 BY DEF ReaderFields
<1>2. ~r.closed OBVIOUS
<1>3. readers' = Append(readers, r) OBVIOUS
<1> HIDE DEF r
<1>4. /\ Sequenced(readers') /\ Len(readers) \in Nat /\ Len(readers') = Len(readers) + 1
      /\ \A i \in 1..Len(readers) : readers'[i] = readers[i]
      /\ readers'[Len(readers) + 1] = r
  BY <1>3, AppendFacts DEF ReaderInv, Shelf
<1>5. slot' = Len(readers) + 1 BY <1>4
<1>6. /\ DOMAIN st' = Streams /\ st'[s].pc = "stream" /\ st'[s].rd = slot'
      /\ \A t \in Streams : t # s => st'[t] = st[t]
  BY DEF ReaderInv, Shelf
<1>7. \A i \in 1..Len(readers') : DOMAIN readers'[i] = ReaderFields
  BY <1>1, <1>4 DEF ReaderInv, Shelf
<1>8. \A a \in Readers!Actors : hand'[a] \in 0..Len(readers) BY DEF ReaderInv, Shelf
<1>9. Shelf' BY <1>4, <1>5, <1>6, <1>7, <1>8 DEF ReaderInv, Shelf
<1>10. Streaming = {} /\ Streaming' = {s} BY <1>6 DEF ReaderInv, Streaming
<1>11. Cardinality(Streaming') = 1 BY <1>10, FS_Singleton
<1>12. \A a \in Readers!Actors : hand'[a] # 0 => readers'[hand'[a]].refs = Readers!Tomb
  BY <1>4, <1>8 DEF ReaderInv
<1>13. slot' # 0 /\ readers'[slot'] = r BY <1>4, <1>5
<1> QED BY <1>1, <1>2, <1>6, <1>9, <1>10, <1>11, <1>12, <1>13, Fence DEF ReaderInv

\* A stream gives its reference back: it is one of the counted ones.
LEMMA ReleaseKeeps == ASSUME ReaderInv, NEW s \in Streams, Readers!releaseFS(s) PROVE ReaderInv'
<1> DEFINE r == [readers[slot] EXCEPT !.refs = @ - 1]
<1>1. /\ st[s].pc = "stream" /\ slot' = slot /\ hand' = hand
      /\ st' = [st EXCEPT ![s] = Readers!NoStream]
  BY DEF Readers!releaseFS
<1>2. s \in Streaming BY <1>1 DEF Streaming
<1>3. slot \in 1..Len(readers) BY <1>2, LenIsNat DEF ReaderInv, Shelf
<1>4. DOMAIN readers[slot] = ReaderFields BY <1>3 DEF ReaderInv, Shelf
<1>5. DOMAIN r = ReaderFields /\ r.refs = readers[slot].refs - 1 /\ r.closed = readers[slot].closed
  BY <1>4 DEF ReaderFields
<1>6. readers' = [readers EXCEPT ![slot] = r] BY <1>3 DEF Readers!releaseFS
<1> HIDE DEF r
<1>7. Readers!NoStream.pc = "idle" BY DEF Readers!NoStream
<1>8. /\ DOMAIN st' = Streams /\ st'[s].pc = "idle" /\ \A t \in Streams : t # s => st'[t] = st[t]
  BY <1>1, <1>7 DEF ReaderInv, Shelf
<1>9. /\ Shelf' /\ readers'[slot] = r
      /\ \A i \in 1..Len(readers) : i # slot => readers'[i] = readers[i]
  BY <1>1, <1>3, <1>5, <1>6, <1>8, ShelfKeeps DEF ReaderInv, Shelf
<1>10. Streaming' = Streaming \ {s} BY <1>8 DEF Streaming
<1>11. readers[slot].refs = Cardinality(Streaming) BY <1>2, <1>3 DEF ReaderInv
<1>12. r.refs = Cardinality(Streaming') BY <1>2, <1>5, <1>10, <1>11, Counting
<1>13. \A t \in Streaming' : st'[t].rd = slot BY <1>8, <1>10 DEF ReaderInv, Streaming
<1>14. ASSUME NEW a \in Readers!Actors, hand[a] # 0
       PROVE  hand[a] \in 1..Len(readers) /\ hand[a] # slot
  <2>1. hand[a] \in 1..Len(readers) BY <1>14, LenIsNat DEF ReaderInv, Shelf
  <2>2. readers[hand[a]].refs < 0 BY <1>14, Fence DEF ReaderInv
  <2>3. ~(readers[slot].refs < 0) BY <1>11, Counting
  <2> QED BY <2>1, <2>2, <2>3
<1>15. \A a \in Readers!Actors : hand'[a] # 0 => readers'[hand'[a]].refs = Readers!Tomb
  BY <1>1, <1>9, <1>14 DEF ReaderInv
<1>16. ~readers'[slot].closed /\ slot # 0 BY <1>3, <1>5, <1>9 DEF ReaderInv
<1> QED BY <1>1, <1>9, <1>12, <1>13, <1>15, <1>16, Fence DEF ReaderInv

\* The reader the key names is marked, and may be fenced off if nobody is on it.
LEMMA MarkKeeps ==
  ASSUME ReaderInv, slot # 0, NEW r, readers' = [readers EXCEPT ![slot] = r],
         DOMAIN r = ReaderFields, r.closed = readers[slot].closed,
         \/ r.refs = readers[slot].refs /\ hand' = hand
         \/ /\ readers[slot].refs = 0 /\ r.refs = Readers!Tomb
            /\ \E a \in Readers!Actors : hand' = [hand EXCEPT ![a] = slot],
         slot' = slot, st' = st
  PROVE  ReaderInv'
<1>1. slot \in 1..Len(readers) /\ Len(readers) \in Nat BY LenIsNat DEF ReaderInv, Shelf
<1>2. /\ DOMAIN hand' = Readers!Actors
      /\ \A a \in Readers!Actors : hand'[a] = hand[a] \/ (hand'[a] = slot /\ r.refs = Readers!Tomb)
  BY DEF ReaderInv, Shelf
<1>3. \A a \in Readers!Actors : hand'[a] \in 0..Len(readers) BY <1>1, <1>2 DEF ReaderInv, Shelf
<1>4. /\ Shelf' /\ readers'[slot] = r
      /\ \A i \in 1..Len(readers) : i # slot => readers'[i] = readers[i]
  BY <1>1, <1>2, <1>3, ShelfKeeps DEF ReaderInv, Shelf
<1>5. Streaming' = Streaming BY DEF Streaming
<1>6. \/ r.refs = Cardinality(Streaming)
      \/ r.refs = Readers!Tomb /\ Streaming = {}
  <2>1. CASE r.refs = readers[slot].refs BY <2>1 DEF ReaderInv
  <2>2. CASE readers[slot].refs = 0 /\ r.refs = Readers!Tomb
    BY <2>2, Counting, Fence DEF ReaderInv
  <2> QED BY <2>1, <2>2
<1>7. ~readers'[slot].closed BY <1>4 DEF ReaderInv
<1>8. ASSUME NEW a \in Readers!Actors, hand'[a] # 0 PROVE readers'[hand'[a]].refs = Readers!Tomb
  <2>1. CASE r.refs = Readers!Tomb
    BY <1>2, <1>3, <1>4, <1>8, <2>1 DEF ReaderInv
  <2>2. CASE r.refs # Readers!Tomb
    <3>1. hand'[a] = hand[a] BY <1>2, <2>2
    <3>2. readers[hand[a]].refs = Readers!Tomb BY <1>8, <3>1 DEF ReaderInv
    <3>3. r.refs = readers[slot].refs BY <2>2
    <3> QED BY <1>3, <1>4, <1>8, <3>1, <3>2, <3>3
  <2> QED BY <2>1, <2>2
<1>9. \A t \in Streaming' : st'[t].rd = slot BY <1>5 DEF ReaderInv
<1> QED BY <1>4, <1>5, <1>6, <1>7, <1>8, <1>9, Fence DEF ReaderInv

LEMMA ClaimKeeps ==
  ASSUME ReaderInv, slot # 0, NEW a \in Readers!Actors, NEW g, Readers!Claimable(slot),
         Readers!Claim(a, g), slot' = slot, st' = st
  PROVE  ReaderInv'
<1> DEFINE r == [readers[slot] EXCEPT !.refs = Readers!Tomb, !.gone = @ \/ g]
<1>1. slot \in 1..Len(readers) BY LenIsNat DEF ReaderInv, Shelf
<1>2. DOMAIN readers[slot] = ReaderFields BY <1>1 DEF ReaderInv, Shelf
<1>3. DOMAIN r = ReaderFields /\ r.refs = Readers!Tomb /\ r.closed = readers[slot].closed
  BY <1>2 DEF ReaderFields
<1>4. readers' = [readers EXCEPT ![slot] = r] BY DEF Readers!Claim
<1>5. hand' = [hand EXCEPT ![a] = slot] /\ readers[slot].refs = 0
  BY DEF Readers!Claim, Readers!Claimable
<1> HIDE DEF r
<1> QED BY <1>3, <1>4, <1>5, MarkKeeps

\* A fenced reader leaves the map and is closed: no stream was on it.
LEMMA RemoveReaderKeeps ==
  ASSUME ReaderInv, NEW a \in Readers!Actors, Readers!Remove(a) PROVE ReaderInv'
<1> DEFINE e == hand[a]
           r == [readers[e] EXCEPT !.closed = TRUE]
<1>1. /\ e # 0 /\ st' = st /\ hand' = hand /\ slot' = (IF slot = e THEN 0 ELSE slot)
  BY DEF Readers!Remove
<1>2. e \in 1..Len(readers) /\ Len(readers) \in Nat BY <1>1, LenIsNat DEF ReaderInv, Shelf
<1>3. DOMAIN readers[e] = ReaderFields BY <1>2 DEF ReaderInv, Shelf
<1>4. DOMAIN r = ReaderFields /\ r.refs = readers[e].refs BY <1>3 DEF ReaderFields
<1>5. readers' = [readers EXCEPT ![e] = r] BY DEF Readers!Remove
<1>6. readers[e].refs = Readers!Tomb BY <1>1 DEF ReaderInv
<1> HIDE DEF e, r
<1>7. slot' \in 0..Len(readers) BY <1>1, <1>2 DEF ReaderInv, Shelf
<1>8. /\ Shelf' /\ readers'[e] = r
      /\ \A i \in 1..Len(readers) : i # e => readers'[i] = readers[i]
  BY <1>1, <1>2, <1>4, <1>5, <1>7, ShelfKeeps DEF ReaderInv, Shelf
<1>9. Streaming' = Streaming BY <1>1 DEF Streaming
<1>10. slot = e => Streaming = {}
  BY <1>1, <1>6, Counting, Fence DEF ReaderInv
<1>11. slot' = 0 => Streaming' = {} BY <1>1, <1>9, <1>10 DEF ReaderInv
<1>12. slot' # 0 => slot' = slot /\ slot # e /\ readers'[slot] = readers[slot]
  BY <1>1, <1>7, <1>8
<1>13. \A i \in 1..Len(readers) : readers'[i].refs = readers[i].refs BY <1>4, <1>8
<1>14. \A b \in Readers!Actors : hand'[b] # 0 => readers'[hand'[b]].refs = Readers!Tomb
  BY <1>1, <1>2, <1>13 DEF ReaderInv, Shelf
<1>15. \A t \in Streaming' : st'[t].rd = slot' BY <1>1, <1>9, <1>10 DEF ReaderInv
<1>16. slot' # 0 => /\ ~readers'[slot'].closed
                   /\ \/ readers'[slot'].refs = Cardinality(Streaming')
                      \/ readers'[slot'].refs = Readers!Tomb /\ Streaming' = {}
  BY <1>9, <1>12 DEF ReaderInv
<1> QED BY <1>8, <1>11, <1>14, <1>15, <1>16, Fence DEF ReaderInv

LEMMA CleanedKeeps == ASSUME ReaderInv, NEW a \in Readers!Actors, Readers!Cleaned(a) PROVE ReaderInv'
<1>1. UNCHANGED <<slot, readers, st>> /\ hand' = [hand EXCEPT ![a] = 0] BY DEF Readers!Cleaned
<1>2. /\ DOMAIN hand' = Readers!Actors /\ \A b \in Readers!Actors : hand'[b] \in {hand[b], 0}
  BY <1>1 DEF ReaderInv, Shelf
<1>3. Shelf' BY <1>1, <1>2, LenIsNat DEF ReaderInv, Shelf
<1>4. Streaming' = Streaming BY <1>1 DEF Streaming
<1> QED BY <1>1, <1>2, <1>3, <1>4, Fence DEF ReaderInv

LEMMA StreamStepsKeep ==
  ASSUME ReaderInv, NEW s \in Streams,
         \/ Readers!MountOpen(s) \/ Readers!MountClose(s) \/ Readers!OpenWarm(s)
         \/ Readers!OpenCold(s) \/ Readers!Publish(s) \/ Readers!OpenCancelled(s)
         \/ Readers!Read(s) \/ Readers!releaseFS(s)
  PROVE  ReaderInv'
<1>1. DOMAIN st = Streams BY DEF ReaderInv, Shelf
<1>2. CASE Readers!MountOpen(s) \/ Readers!MountClose(s) \/ Readers!Read(s)
  <2>1. UNCHANGED <<slot, readers, hand, st>>
    BY <1>2 DEF Readers!MountOpen, Readers!MountClose, Readers!Read
  <2> QED BY <1>1, <2>1, StillKeeps
<1>3. CASE Readers!OpenCold(s) \/ Readers!OpenCancelled(s)
  <2>1. UNCHANGED <<slot, readers, hand>> /\ st[s].pc # "stream"
    BY <1>3 DEF Readers!OpenCold, Readers!OpenCancelled, Readers!MayRead
  <2>2. DOMAIN st' = Streams /\ st'[s].pc # "stream" /\ \A t \in Streams : t # s => st'[t] = st[t]
    BY <1>1, <1>3 DEF Readers!OpenCold, Readers!OpenCancelled, Readers!NoStream
  <2> QED BY <2>1, <2>2, StillKeeps
<1>4. CASE Readers!OpenWarm(s)
  BY <1>4, AcquireKeeps DEF Readers!OpenWarm, Readers!MayRead
<1>5. CASE Readers!Publish(s)
  <2>1. /\ st[s].pc = "build" /\ hand' = hand
        /\ st' = [st EXCEPT ![s] = [pc |-> "stream", rd |-> slot', layout |-> <<>>]]
    BY <1>5 DEF Readers!Publish
  <2>2. CASE slot # 0 /\ Readers!Alive(slot) /\ Readers!Acquire(slot) /\ slot' = slot
    BY <2>1, <2>2, AcquireKeeps
  <2>3. CASE /\ slot = 0 /\ slot' = Len(readers')
             /\ readers' = Append(readers, [refs |-> 1, gone |-> FALSE, layout |-> st[s].layout,
                                            closed |-> FALSE])
    BY <2>1, <2>3, PublishKeeps
  <2> QED BY <1>5, <2>2, <2>3 DEF Readers!Publish
<1> QED BY <1>2, <1>3, <1>4, <1>5, ReleaseKeeps

LEMMA TeardownKeeps ==
  ASSUME ReaderInv,
         \/ Readers!IdleClaim \/ Readers!RetireReaders \/ Readers!Revive
         \/ Readers!Drop \/ Readers!DropAgain
  PROVE  ReaderInv'
<1>1. slot' = slot /\ st' = st /\ DOMAIN st = Streams
  BY DEF Readers!IdleClaim, Readers!RetireReaders, Readers!Revive, Readers!Drop, Readers!DropAgain,
         ReaderInv, Shelf
<1>2. \/ readers' = readers /\ hand' = hand
      \/ /\ slot # 0 /\ Readers!Claimable(slot)
         /\ \E a \in Readers!Actors, g \in BOOLEAN : Readers!Claim(a, g)
      \/ slot # 0 /\ readers' = [readers EXCEPT ![slot].gone = TRUE] /\ hand' = hand
  <2>1. "janitor" \in Readers!Actors /\ "reorder" \in Readers!Actors /\ "delete" \in Readers!Actors
    BY DEF Readers!Actors
  <2>2. CASE Readers!IdleClaim BY <2>1, <2>2 DEF Readers!IdleClaim
  <2>3. CASE Readers!RetireReaders BY <2>1, <2>3 DEF Readers!RetireReaders
  <2>4. CASE Readers!Revive BY <2>1, <2>4 DEF Readers!Revive
  <2>5. CASE Readers!Drop BY <2>1, <2>5 DEF Readers!Drop, Readers!DropReader
  <2>6. CASE Readers!DropAgain BY <2>1, <2>6 DEF Readers!DropAgain, Readers!DropReader
  <2> QED BY <2>2, <2>3, <2>4, <2>5, <2>6
<1>3. CASE readers' = readers /\ hand' = hand BY <1>1, <1>3, StillKeeps
<1>4. CASE /\ slot # 0 /\ Readers!Claimable(slot)
           /\ \E a \in Readers!Actors, g \in BOOLEAN : Readers!Claim(a, g)
  BY <1>1, <1>4, ClaimKeeps
<1>5. CASE slot # 0 /\ readers' = [readers EXCEPT ![slot].gone = TRUE] /\ hand' = hand
  <2> DEFINE r == [readers[slot] EXCEPT !.gone = TRUE]
  <2>1. slot \in 1..Len(readers) BY <1>5, LenIsNat DEF ReaderInv, Shelf
  <2>2. DOMAIN readers[slot] = ReaderFields BY <2>1 DEF ReaderInv, Shelf
  <2>3. DOMAIN r = ReaderFields /\ r.refs = readers[slot].refs /\ r.closed = readers[slot].closed
    BY <2>2 DEF ReaderFields
  <2>4. readers' = [readers EXCEPT ![slot] = r] BY <1>5
  <2> HIDE DEF r
  <2> QED BY <1>1, <1>5, <2>3, <2>4, MarkKeeps
<1> QED BY <1>2, <1>3, <1>4, <1>5

LEMMA ReaderInvNext == ASSUME ReaderInv, Readers!NextReader PROVE ReaderInv'
<1>1. CASE \/ Readers!DeleteRecord \/ Readers!ReorderStart \/ Readers!Evict \/ Readers!Write
           \/ Readers!Verify \/ Readers!EvictAgain \/ Readers!ReorderReturns
  <2>1. UNCHANGED <<slot, readers, hand, st>>
    BY <1>1 DEF Readers!DeleteRecord, Readers!ReorderStart, Readers!Evict, Readers!Write,
                Readers!Verify, Readers!EvictAgain, Readers!ReorderReturns
  <2>2. DOMAIN st = Streams BY DEF ReaderInv, Shelf
  <2> QED BY <2>1, <2>2, StillKeeps
<1> QED BY <1>1, StreamStepsKeep, TeardownKeeps, RemoveReaderKeeps, CleanedKeeps
        DEF Readers!NextReader

\* A stream's reader is the one the key names, open, and its references are
\* exactly the streams, however many clients stream while the janitor, a
\* reorder and a delete tear readers down (usenet.go, getOrCreateEntry,
\* releaseFS, claimForCleanup, cleanupIdleFS, retireReaders).
THEOREM StreamsAreServed == MCSpec => []StreamIsServed
<1> DEFINE I == part = "reader" => ReaderInv
<1>1. MCInit => I BY ReaderInvInit DEF MCInit
<1>2. I /\ [MCNext]_mcvars => I'
  <2> SUFFICES ASSUME I, [MCNext]_mcvars, part' = "reader" PROVE ReaderInv' OBVIOUS
  <2>1. CASE UNCHANGED mcvars
    <3>1. part = "reader" /\ ReaderInv BY <2>1 DEF mcvars
    <3>2. UNCHANGED <<slot, readers, hand, st>> BY <2>1 DEF mcvars, reader
    <3>3. DOMAIN st = Streams BY <3>1 DEF ReaderInv, Shelf
    <3> QED BY <3>1, <3>2, <3>3, StillKeeps
  <2>2. CASE MCNext
    <3>1. part = "reader" /\ Readers!NextReader BY <2>2 DEF MCNext
    <3> QED BY <3>1, ReaderInvNext
  <2> QED BY <2>1, <2>2
<1>3. I => StreamIsServed
  <2> SUFFICES ASSUME ReaderInv, NEW s \in Streams, st[s].pc = "stream"
               PROVE  /\ slot = st[s].rd /\ ~readers[slot].closed
                      /\ readers[slot].refs
                           = Readers!Cardinality({t \in Streams : st[t].pc = "stream"})
    BY DEF StreamIsServed, Readers!StreamIsServed
  <2>1. s \in Streaming BY DEF Streaming
  <2>2. slot = st[s].rd /\ slot # 0 BY <2>1 DEF ReaderInv
  <2>3. ~readers[slot].closed BY <2>2 DEF ReaderInv
  <2>4. readers[slot].refs = Cardinality(Streaming) BY <2>1, <2>2 DEF ReaderInv
  <2> QED BY <2>2, <2>3, <2>4, SameCardinality DEF Streaming
<1> QED BY <1>1, <1>2, <1>3, PTL DEF MCSpec
=============================================================================
