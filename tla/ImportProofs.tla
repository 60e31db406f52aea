---------------------------- MODULE ImportProofs ----------------------------
(***************************************************************************)
(* For every set of jobs and every number of workers: a job is in one      *)
(* place, no job waits for a busy worker while an idle one sleeps, and     *)
(* JobQueue implements WorkQueue.  For every set of imports, any number of *)
(* tasks per import and any number of stops and crashes: a queued NZB can be*)
(* parsed, and an import that is reported complete is stored and was checked.*)
(***************************************************************************)
EXTENDS MCImports, FiniteSetTheorems, SequenceTheorems, TLAPS

-----------------------------------------------------------------------------
(* The job queue.                                                          *)

\* Where a job is, told without counting: fate says in which of the places it
\* is, a place holds it once, and a worker runs a job exactly while it is not
\* at the queue.  OnePlacePerJob alone is not inductive: Complete needs the
\* job a worker runs to be one, and TimerFires needs timers to hold no job
\* whose fate is anything but "retrying".
Places ==
  /\ \A i \in DOMAIN jobs : fate[jobs[i]] = "pending"
  /\ \A i, k \in DOMAIN jobs : jobs[i] = jobs[k] => i = k
  /\ \A j \in Job : fate[j] = "pending" => \E i \in DOMAIN jobs : jobs[i] = j
  /\ \A w \in Worker : \A j \in running[w] : running[w] = {j} /\ fate[j] = "running"
  /\ \A w, v \in Worker : \A j \in running[w] : j \in running[v] => w = v
  /\ \A j \in Job : fate[j] = "running" => \E w \in Worker : j \in running[w]
  /\ \A j \in Job : j \in timers <=> fate[j] = "retrying"
  /\ \A w \in Worker : worker[w] # "run" => running[w] = {}

\* Close goes through its steps in order, and only a closed queue cancels its
\* timers.
CloseOrder == (closer = "idle" => ~closed) /\ (closer # "idle" => closed) /\ (cancelled => closed)

IInv == TypeOK /\ Places /\ CloseOrder

\* What is left of a sequence when one element is removed.
LEMMA RemoveAtProperties ==
  ASSUME NEW S, NEW s \in Seq(S), NEW i \in 1..Len(s)
  PROVE  /\ RemoveAt(s, i) \in Seq(S)
         /\ Len(RemoveAt(s, i)) = Len(s) - 1
         /\ \A k \in 1..(Len(s) - 1) : RemoveAt(s, i)[k] = IF k < i THEN s[k] ELSE s[k + 1]
<1> DEFINE a == SubSeq(s, 1, i - 1)
           b == SubSeq(s, i + 1, Len(s))
<1>1. Len(s) \in Nat /\ \A k \in 1..Len(s) : s[k] \in S
  BY ElementOfSeq, LenProperties
<1>2. /\ a \in Seq(S) /\ Len(a) = i - 1
      /\ \A k \in 1..(i - 1) : a[k] = s[k]
  <2>1. \A k \in 1..(i - 1) : s[k] \in S BY <1>1
  <2> QED BY <1>1, <2>1, SubSeqProperties
<1>3. /\ b \in Seq(S) /\ Len(b) = Len(s) - i
      /\ \A k \in 1..(Len(s) - i) : b[k] = s[i + k]
  <2>1. \A k \in (i + 1)..Len(s) : s[k] \in S BY <1>1
  <2> QED BY <1>1, <2>1, SubSeqProperties
<1>4. /\ a \o b \in Seq(S) /\ Len(a \o b) = (i - 1) + (Len(s) - i)
      /\ \A k \in 1..((i - 1) + (Len(s) - i)) :
           (a \o b)[k] = IF k <= i - 1 THEN a[k] ELSE b[k - (i - 1)]
  <2> HIDE DEF a, b
  <2>1. /\ a \o b \in Seq(S) /\ Len(a \o b) = Len(a) + Len(b)
        /\ \A k \in 1..(Len(a) + Len(b)) :
             (a \o b)[k] = IF k <= Len(a) THEN a[k] ELSE b[k - Len(a)]
    <3>1. a \in Seq(S) /\ b \in Seq(S) BY <1>2, <1>3
    <3> QED BY <3>1, ConcatProperties
  <2> QED BY <1>2, <1>3, <2>1
<1>5. RemoveAt(s, i) = a \o b BY DEF RemoveAt
<1> HIDE DEF a, b
<1>6. ASSUME NEW k \in 1..(Len(s) - 1)
      PROVE  RemoveAt(s, i)[k] = IF k < i THEN s[k] ELSE s[k + 1]
  <2>1. CASE k < i BY <1>1, <1>2, <1>4, <1>5, <2>1
  <2>2. CASE ~(k < i)
    <3>1. k - (i - 1) \in 1..(Len(s) - i) BY <1>1, <2>2
    <3>2. b[k - (i - 1)] = s[i + (k - (i - 1))] BY <1>3, <3>1
    <3>3. i + (k - (i - 1)) = k + 1 BY <1>1
    <3>4. k \in 1..((i - 1) + (Len(s) - i)) /\ ~(k <= i - 1) BY <1>1, <2>2
    <3>5. RemoveAt(s, i)[k] = b[k - (i - 1)] BY <1>4, <1>5, <3>4
    <3> QED BY <2>2, <3>2, <3>3, <3>5
  <2> QED BY <2>1, <2>2
<1> QED BY <1>1, <1>4, <1>5, <1>6

-----------------------------------------------------------------------------
(* The invariant.                                                          *)

LEMMA InitIInv == Init => IInv
<1> SUFFICES ASSUME Init PROVE IInv OBVIOUS
<1>1. jobs \in Seq(Job) /\ DOMAIN jobs = {} BY DEF Init
<1>2. TypeOK
  <2>1. closed \in BOOLEAN /\ cancelled \in BOOLEAN BY Zenon DEF Init
  <2>2. retries \in [Job -> 0..MaxRetries]
    <3>1. 0 \in 0..MaxRetries BY JobQueueAssumption
    <3> QED BY <3>1 DEF Init
  <2> QED BY <1>1, <2>1, <2>2 DEF Init, TypeOK
<1>3. /\ \A w \in Worker : running[w] = {}
      /\ \A j \in Job : fate[j] = "new" /\ j \notin timers
  BY DEF Init
<1>4. Places BY <1>1, <1>3 DEF Places
<1>5. CloseOrder BY DEF Init, CloseOrder
<1> QED BY <1>2, <1>4, <1>5 DEF IInv

\* Submit from a place that has given the job up keeps the queue in order.
LEMMA SubmitKeeps ==
  ASSUME IInv, NEW j \in Job, Submit(j),
         fate[j] \in {"new", "retrying"},
         timers' = timers \ {j}, UNCHANGED <<closed, cancelled, running, retries, closer>>
  PROVE  IInv'
<1> USE DEF IInv
<1>1. TypeOK' /\ CloseOrder'
  <2>1. Append(jobs, j) \in Seq(Job) BY DEF TypeOK
  <2> QED BY <2>1 DEF Submit, Signal, Parked, TypeOK, CloseOrder
<1>2. \A i \in DOMAIN jobs : jobs[i] # j /\ jobs[i] \in Job
  BY ElementOfSeq DEF Places, TypeOK
<1>3. \A w \in Worker : j \notin running[w] /\ running'[w] = running[w]
  BY DEF Places, TypeOK
<1>4. \A w \in Worker : worker'[w] # "run" => worker[w] # "run"
  BY DEF Submit, Signal, Parked, TypeOK
<1>5. \A k \in Job : k # j => fate'[k] = fate[k]
  BY DEF Submit, TypeOK
<1>6. CASE closed
  <2>1. jobs' = jobs /\ fate'[j] = "refused" BY <1>6 DEF Submit, TypeOK
  <2>2. \A i \in DOMAIN jobs' : fate'[jobs'[i]] = "pending" BY <1>2, <1>5, <2>1 DEF Places
  <2>3. \A i, k \in DOMAIN jobs' : jobs'[i] = jobs'[k] => i = k BY <2>1 DEF Places
  <2>4. \A k \in Job : fate'[k] = "pending" => \E i \in DOMAIN jobs' : jobs'[i] = k
    BY <1>5, <2>1 DEF Places
  <2>5. \A k \in Job : k \in timers' <=> fate'[k] = "retrying"
    BY <1>5, <2>1 DEF Places
  <2>6. /\ \A w \in Worker : \A k \in running'[w] : running'[w] = {k} /\ fate'[k] = "running"
        /\ \A w, v \in Worker : \A k \in running'[w] : k \in running'[v] => w = v
        /\ \A k \in Job : fate'[k] = "running" => \E w \in Worker : k \in running'[w]
        /\ \A w \in Worker : worker'[w] # "run" => running'[w] = {}
    BY <1>3, <1>4, <1>5, <2>1 DEF Places, TypeOK
  <2> QED BY <1>1, <2>2, <2>3, <2>4, <2>5, <2>6 DEF Places
<1>7. CASE ~closed
  <2>1. jobs' = Append(jobs, j) /\ fate'[j] = "pending" BY <1>7 DEF Submit, TypeOK
  <2>2. /\ DOMAIN jobs = 1..Len(jobs) /\ Len(jobs) \in Nat
        /\ DOMAIN jobs' = 1..(Len(jobs) + 1)
        /\ \A i \in 1..Len(jobs) : jobs'[i] = jobs[i]
        /\ jobs'[Len(jobs) + 1] = j
    BY <2>1, AppendProperties, LenProperties DEF TypeOK
  <2>3. \A i \in DOMAIN jobs' : fate'[jobs'[i]] = "pending"
    BY <1>2, <1>5, <2>1, <2>2 DEF Places
  <2>4. \A i, k \in DOMAIN jobs' : jobs'[i] = jobs'[k] => i = k
    BY <1>2, <2>2 DEF Places
  <2>5. \A k \in Job : fate'[k] = "pending" => \E i \in DOMAIN jobs' : jobs'[i] = k
    <3> TAKE k \in Job
    <3>1. CASE k = j BY <2>2, <3>1
    <3>2. CASE k # j BY <1>5, <2>2, <3>2 DEF Places
    <3> QED BY <3>1, <3>2
  <2>6. \A k \in Job : k \in timers' <=> fate'[k] = "retrying"
    BY <1>5, <2>1 DEF Places
  <2>7. /\ \A w \in Worker : \A k \in running'[w] : running'[w] = {k} /\ fate'[k] = "running"
        /\ \A w, v \in Worker : \A k \in running'[w] : k \in running'[v] => w = v
        /\ \A k \in Job : fate'[k] = "running" => \E w \in Worker : k \in running'[w]
        /\ \A w \in Worker : worker'[w] # "run" => running'[w] = {}
    BY <1>3, <1>4, <1>5, <2>1 DEF Places, TypeOK
  <2> QED BY <1>1, <2>3, <2>4, <2>5, <2>6, <2>7 DEF Places
<1> QED BY <1>6, <1>7

LEMMA TakeKeeps ==
  ASSUME IInv, NEW w \in Worker, Take(w)
  PROVE  IInv'
<1> USE DEF IInv
<1> DEFINE h == Head(jobs)
<1>1. /\ h \in Job /\ Tail(jobs) \in Seq(Job) /\ Len(jobs) \in Nat \ {0}
      /\ DOMAIN jobs = 1..Len(jobs) /\ h = jobs[1]
      /\ DOMAIN Tail(jobs) = 1..(Len(jobs) - 1)
      /\ \A i \in 1..(Len(jobs) - 1) : Tail(jobs)[i] = jobs[i + 1]
  BY HeadTailProperties, LenProperties DEF Take, TypeOK
<1> HIDE DEF h
<1>2. /\ jobs' = Tail(jobs)
      /\ running' = [running EXCEPT ![w] = {h}]
      /\ fate' = [fate EXCEPT ![h] = "running"]
      /\ worker' = [worker EXCEPT ![w] = "run"]
      /\ UNCHANGED <<closed, cancelled, timers, retries, closer>>
  BY DEF Take, h
<1>3. TypeOK' /\ CloseOrder' BY <1>1, <1>2 DEF TypeOK, CloseOrder
<1>4. fate[h] = "pending" /\ running[w] = {}
  BY <1>1 DEF Places, Take
<1>5. \A i \in DOMAIN jobs' : jobs'[i] = jobs[i + 1] /\ i + 1 \in DOMAIN jobs /\ jobs[i + 1] # h
                             /\ jobs[i + 1] \in Job
  <2> SUFFICES ASSUME NEW i \in DOMAIN jobs'
               PROVE  jobs'[i] = jobs[i + 1] /\ i + 1 \in DOMAIN jobs /\ jobs[i + 1] # h
                        /\ jobs[i + 1] \in Job
    OBVIOUS
  <2>1. i \in 1..(Len(jobs) - 1) /\ jobs'[i] = jobs[i + 1] BY <1>1, <1>2
  <2>2. i + 1 \in DOMAIN jobs /\ 1 \in DOMAIN jobs /\ i + 1 # 1 BY <1>1, <2>1
  <2>3. jobs[i + 1] # h BY <1>1, <2>2 DEF Places
  <2>4. jobs[i + 1] \in Job BY <1>1, <2>2, ElementOfSeq DEF TypeOK
  <2> QED BY <2>1, <2>2, <2>3, <2>4
<1>6. \A k \in Job : k # h => fate'[k] = fate[k] BY <1>2 DEF TypeOK
<1>7. /\ fate'[h] = "running" /\ running'[w] = {h}
      /\ \A v \in Worker : v # w => running'[v] = running[v] /\ h \notin running[v]
  BY <1>1, <1>2, <1>4 DEF TypeOK, Places
<1>8. \A i \in DOMAIN jobs' : fate'[jobs'[i]] = "pending" BY <1>5, <1>6 DEF Places
<1>9. \A i, k \in DOMAIN jobs' : jobs'[i] = jobs'[k] => i = k
  BY <1>1, <1>2, <1>5 DEF Places
<1>10. \A k \in Job : fate'[k] = "pending" => \E i \in DOMAIN jobs' : jobs'[i] = k
  <2> SUFFICES ASSUME NEW k \in Job, fate'[k] = "pending"
               PROVE  \E i \in DOMAIN jobs' : jobs'[i] = k
    OBVIOUS
  <2>1. k # h /\ fate[k] = "pending" BY <1>6, <1>7
  <2>2. PICK i \in DOMAIN jobs : jobs[i] = k BY <2>1 DEF Places
  <2>3. i # 1 /\ i - 1 \in 1..(Len(jobs) - 1) BY <1>1, <2>1, <2>2
  <2> QED BY <1>1, <1>2, <2>2, <2>3
<1>11. \A k \in Job : k \in timers' <=> fate'[k] = "retrying"
  BY <1>1, <1>2, <1>4, <1>6, <1>7 DEF Places
<1>12. /\ \A v \in Worker : \A k \in running'[v] : running'[v] = {k} /\ fate'[k] = "running"
       /\ \A v, u \in Worker : \A k \in running'[v] : k \in running'[u] => v = u
  <2>1. \A v \in Worker : v # w => \A k \in running[v] : k # h /\ k \in Job
    BY <1>7 DEF TypeOK
  <2>2. ASSUME NEW v \in Worker, NEW k \in running'[v]
        PROVE  running'[v] = {k} /\ fate'[k] = "running"
    <3>1. CASE v = w BY <1>7, <2>2, <3>1
    <3>2. CASE v # w BY <1>6, <1>7, <2>1, <2>2, <3>2 DEF Places
    <3> QED BY <3>1, <3>2
  <2>3. ASSUME NEW v \in Worker, NEW u \in Worker, NEW k \in running'[v], k \in running'[u]
        PROVE  v = u
    <3>1. CASE v = w \/ u = w BY <1>7, <2>1, <2>3, <3>1
    <3>2. CASE v # w /\ u # w BY <1>7, <2>3, <3>2 DEF Places
    <3> QED BY <3>1, <3>2
  <2> QED BY <2>2, <2>3
<1>13. \A k \in Job : fate'[k] = "running" => \E v \in Worker : k \in running'[v]
  BY <1>4, <1>6, <1>7 DEF Places
<1>14. \A v \in Worker : worker'[v] # "run" => running'[v] = {}
  BY <1>2, <1>7 DEF Places, TypeOK
<1> QED BY <1>3, <1>8, <1>9, <1>10, <1>11, <1>12, <1>13, <1>14 DEF Places

\* A worker hands its job over: to the end, or to a timer.
LEMMA HandOver ==
  ASSUME IInv, NEW w \in Worker, NEW j \in running[w], NEW f \in {"done", "retrying"},
         retries' \in [Job -> 0..MaxRetries],
         fate' = [fate EXCEPT ![j] = f],
         running' = [running EXCEPT ![w] = {}],
         worker' = [worker EXCEPT ![w] = "ready"],
         timers' = (IF f = "retrying" THEN timers \cup {j} ELSE timers),
         UNCHANGED <<jobs, closed, cancelled, closer>>
  PROVE  IInv'
<1> USE DEF IInv
<1>1. j \in Job /\ running[w] = {j} /\ fate[j] = "running" BY DEF Places, TypeOK
<1>2. TypeOK' /\ CloseOrder' BY <1>1 DEF TypeOK, CloseOrder
<1>3. \A i \in DOMAIN jobs : jobs[i] # j /\ jobs[i] \in Job
  BY <1>1, ElementOfSeq DEF Places, TypeOK
<1>4. fate'[j] = f /\ \A k \in Job : k # j => fate'[k] = fate[k] BY <1>1 DEF TypeOK
<1>5. running'[w] = {} /\ \A v \in Worker : v # w => running'[v] = running[v] /\ j \notin running[v]
  BY <1>1 DEF TypeOK, Places
<1>6. \A i \in DOMAIN jobs' : fate'[jobs'[i]] = "pending" BY <1>3, <1>4 DEF Places
<1>7. \A k \in Job : fate'[k] = "pending" => \E i \in DOMAIN jobs' : jobs'[i] = k
  BY <1>1, <1>4 DEF Places
<1>8. \A k \in Job : k \in timers' <=> fate'[k] = "retrying" BY <1>1, <1>4 DEF Places
<1>9. /\ \A v \in Worker : \A k \in running'[v] : running'[v] = {k} /\ fate'[k] = "running"
      /\ \A v, u \in Worker : \A k \in running'[v] : k \in running'[u] => v = u
  BY <1>4, <1>5 DEF Places, TypeOK
<1>10. \A k \in Job : fate'[k] = "running" => \E v \in Worker : k \in running'[v]
  BY <1>1, <1>4, <1>5 DEF Places
<1>11. \A v \in Worker : worker'[v] # "run" => running'[v] = {}
  BY <1>5 DEF Places, TypeOK
<1>12. \A i, k \in DOMAIN jobs' : jobs'[i] = jobs'[k] => i = k BY DEF Places
<1> QED BY <1>2, <1>6, <1>7, <1>8, <1>9, <1>10, <1>11, <1>12 DEF Places

LEMMA RemoveKeeps ==
  ASSUME IInv, NEW j \in Job, DeleteJob(j)
  PROVE  IInv'
<1> USE DEF IInv
<1>1. PICK i \in DOMAIN jobs : jobs[i] = j /\ jobs' = RemoveAt(jobs, i)
  BY DEF DeleteJob
<1>2. /\ DOMAIN jobs = 1..Len(jobs) /\ Len(jobs) \in Nat
      /\ jobs' \in Seq(Job) /\ Len(jobs') = Len(jobs) - 1
      /\ DOMAIN jobs' = 1..(Len(jobs) - 1)
      /\ \A k \in 1..(Len(jobs) - 1) : jobs'[k] = IF k < i THEN jobs[k] ELSE jobs[k + 1]
  <2>1. jobs \in Seq(Job) BY DEF TypeOK
  <2>2. DOMAIN jobs = 1..Len(jobs) /\ Len(jobs) \in Nat BY <2>1, LenProperties
  <2>3. i \in 1..Len(jobs) BY <2>2
  <2>4. /\ jobs' \in Seq(Job) /\ Len(jobs') = Len(jobs) - 1
        /\ \A k \in 1..(Len(jobs) - 1) : jobs'[k] = IF k < i THEN jobs[k] ELSE jobs[k + 1]
    BY <1>1, <2>1, <2>3, RemoveAtProperties
  <2>5. DOMAIN jobs' = 1..(Len(jobs) - 1) BY <2>4, LenProperties
  <2> QED BY <2>2, <2>4, <2>5
<1>3. TypeOK' /\ CloseOrder' BY <1>2 DEF DeleteJob, TypeOK, CloseOrder
<1>4. fate'[j] = "deleted" /\ fate[j] = "pending" /\ \A k \in Job : k # j => fate'[k] = fate[k]
  BY <1>1 DEF DeleteJob, TypeOK, Places
<1> DEFINE At(k) == IF k < i THEN k ELSE k + 1
<1>5. \A k \in DOMAIN jobs' : At(k) \in DOMAIN jobs /\ At(k) # i /\ jobs'[k] = jobs[At(k)]
  BY <1>1, <1>2
<1>6. \A k \in DOMAIN jobs' : jobs[At(k)] # j /\ jobs[At(k)] \in Job
  BY <1>1, <1>5, ElementOfSeq, <1>2 DEF Places, TypeOK
<1>7. \A k \in DOMAIN jobs' : fate'[jobs'[k]] = "pending"
  BY <1>4, <1>5, <1>6 DEF Places
<1>8. \A k, l \in DOMAIN jobs' : jobs'[k] = jobs'[l] => k = l
  <2> SUFFICES ASSUME NEW k \in DOMAIN jobs', NEW l \in DOMAIN jobs', jobs'[k] = jobs'[l]
               PROVE  k = l
    OBVIOUS
  <2>1. At(k) = At(l) BY <1>5 DEF Places
  <2> QED BY <1>1, <1>2, <2>1
<1>9. \A k \in Job : fate'[k] = "pending" => \E l \in DOMAIN jobs' : jobs'[l] = k
  <2> SUFFICES ASSUME NEW k \in Job, fate'[k] = "pending"
               PROVE  \E l \in DOMAIN jobs' : jobs'[l] = k
    OBVIOUS
  <2>1. k # j /\ fate[k] = "pending" BY <1>4
  <2>2. PICK m \in DOMAIN jobs : jobs[m] = k BY <2>1 DEF Places
  <2>3. CASE m < i BY <1>1, <1>2, <2>2, <2>3
  <2>4. CASE m > i
    <3>1. m - 1 \in DOMAIN jobs' /\ ~(m - 1 < i) /\ (m - 1) + 1 = m BY <1>1, <1>2, <2>4
    <3> QED BY <1>2, <2>2, <3>1
  <2>5. m # i BY <1>1, <2>1, <2>2
  <2> QED BY <1>1, <1>2, <2>3, <2>4, <2>5
<1>10. \A k \in Job : k \in timers' <=> fate'[k] = "retrying"
  BY <1>4 DEF Places, DeleteJob
<1>11. /\ \A w \in Worker : \A k \in running'[w] : running'[w] = {k} /\ fate'[k] = "running"
       /\ \A w, v \in Worker : \A k \in running'[w] : k \in running'[v] => w = v
       /\ \A k \in Job : fate'[k] = "running" => \E w \in Worker : k \in running'[w]
       /\ \A w \in Worker : worker'[w] # "run" => running'[w] = {}
  BY <1>4 DEF Places, TypeOK, DeleteJob
<1> QED BY <1>3, <1>7, <1>8, <1>9, <1>10, <1>11 DEF Places

LEMMA StepIInv == IInv /\ [Next]_vars => IInv'
<1> SUFFICES ASSUME IInv, [Next]_vars PROVE IInv' OBVIOUS
<1> USE DEF IInv
<1>1. ASSUME NEW j \in Job, SubmitNew(j) PROVE IInv'
  <2>1. j \notin timers BY <1>1 DEF SubmitNew, Places
  <2> QED BY <1>1, <2>1, SubmitKeeps DEF SubmitNew
<1>2. ASSUME NEW j \in Job, TimerFires(j) PROVE IInv'
  <2>1. fate[j] = "retrying" BY <1>2 DEF TimerFires, Places
  <2> QED BY <1>2, <2>1, SubmitKeeps DEF TimerFires
<1>3. ASSUME NEW j \in Job, TimerCancelled(j) PROVE IInv'
  <2>1. fate[j] = "retrying" BY <1>3 DEF TimerCancelled, Places
  <2>2. TypeOK' /\ CloseOrder' BY <1>3 DEF TimerCancelled, TypeOK, CloseOrder
  <2>3. fate'[j] = "dropped" /\ \A k \in Job : k # j => fate'[k] = fate[k]
    BY <1>3 DEF TimerCancelled, TypeOK
  <2>4. \A i \in DOMAIN jobs : jobs[i] # j /\ jobs[i] \in Job
    BY <2>1, ElementOfSeq DEF Places, TypeOK
  <2>5. \A w \in Worker : \A k \in running[w] : k # j /\ k \in Job
    BY <2>1 DEF Places, TypeOK
  <2>6. \A i \in DOMAIN jobs' : fate'[jobs'[i]] = "pending"
    BY <1>3, <2>3, <2>4 DEF Places, TimerCancelled
  <2>7. \A k \in Job : /\ fate'[k] = "pending" => \E i \in DOMAIN jobs' : jobs'[i] = k
                       /\ fate'[k] = "running" => \E w \in Worker : k \in running'[w]
                       /\ k \in timers' <=> fate'[k] = "retrying"
    BY <1>3, <2>3 DEF Places, TimerCancelled
  <2>8. \A w \in Worker : \A k \in running'[w] : running'[w] = {k} /\ fate'[k] = "running"
    BY <1>3, <2>3, <2>5 DEF Places, TimerCancelled
  <2>9. /\ \A i, k \in DOMAIN jobs' : jobs'[i] = jobs'[k] => i = k
        /\ \A w, v \in Worker : \A k \in running'[w] : k \in running'[v] => w = v
        /\ \A w \in Worker : worker'[w] # "run" => running'[w] = {}
    BY <1>3 DEF Places, TimerCancelled
  <2> QED BY <2>2, <2>6, <2>7, <2>8, <2>9 DEF Places
<1>4. ASSUME NEW j \in Job, DeleteJob(j) PROVE IInv' BY <1>4, RemoveKeeps
<1>5. ASSUME NEW w \in Worker, Park(w) PROVE IInv'
  BY <1>5 DEF Park, TypeOK, Places, CloseOrder
<1>6. ASSUME NEW w \in Worker, Take(w) PROVE IInv' BY <1>6, TakeKeeps
<1>7. ASSUME NEW w \in Worker, Exit(w) PROVE IInv'
  BY <1>7 DEF Exit, TypeOK, Places, CloseOrder
<1>8. ASSUME NEW w \in Worker, Complete(w) PROVE IInv'
  <2>1. PICK j \in running[w] : fate' = [fate EXCEPT ![j] = "done"] BY <1>8 DEF Complete
  <2>2. retries' \in [Job -> 0..MaxRetries] BY <1>8 DEF Complete, TypeOK
  <2> QED BY <1>8, <2>1, <2>2, HandOver DEF Complete
<1>9. ASSUME NEW w \in Worker, Retry(w) PROVE IInv'
  <2>1. PICK j \in running[w] : /\ retries[j] < MaxRetries
                                /\ retries' = [retries EXCEPT ![j] = @ + 1]
                                /\ timers' = timers \cup {j}
                                /\ fate' = [fate EXCEPT ![j] = "retrying"]
    BY <1>9 DEF Retry
  <2>2. j \in Job BY DEF TypeOK
  <2>3. retries' \in [Job -> 0..MaxRetries]
    BY <2>1, <2>2, JobQueueAssumption DEF TypeOK
  <2> QED BY <1>9, <2>1, <2>3, HandOver DEF Retry
<1>10. CASE CloseMark BY <1>10 DEF CloseMark, TypeOK, Places, CloseOrder
<1>11. CASE CloseCancel BY <1>11 DEF CloseCancel, TypeOK, Places, CloseOrder
<1>12. CASE CloseBroadcast
  <2>1. \A w \in Worker : worker'[w] # "run" => worker[w] # "run"
    BY <1>12 DEF CloseBroadcast, Parked, TypeOK
  <2>2. TypeOK' BY <1>12 DEF CloseBroadcast, Parked, TypeOK
  <2> QED BY <1>12, <2>1, <2>2 DEF CloseBroadcast, Places, CloseOrder
<1>13. CASE CloseReturns BY <1>13 DEF CloseReturns, TypeOK, Places, CloseOrder
<1>14. CASE UNCHANGED vars BY <1>14 DEF vars, TypeOK, Places, CloseOrder
<1> QED BY <1>1, <1>2, <1>3, <1>4, <1>5, <1>6, <1>7, <1>8, <1>9, <1>10, <1>11, <1>12, <1>13, <1>14
        DEF Next, Timer, WorkerStep, Closing

\* The inductive invariant holds in every reachable state, and with it the
\* types: each variable keeps the values its declaration names (JobQueue).
THEOREM Invariant == Spec => []IInv
  BY InitIInv, StepIInv, PTL DEF Spec

\* No schedule of submits, retries and deletions has a job in two places: run
\* by two workers, queued twice, or queued or timed while it runs
\* (jobqueue.go, Submit, Retry, DeleteJob, pop).
THEOREM OnePlace == Spec => []OnePlacePerJob
<1>1. IInv => OnePlacePerJob
  <2> SUFFICES ASSUME IInv, NEW j \in Job
               PROVE  LET queued == {i \in DOMAIN jobs : jobs[i] = j}
                          busy   == {w \in Worker : j \in running[w]}
                      IN  /\ Cardinality(queued) + Cardinality(busy) <= 1
                          /\ j \in timers => queued = {} /\ busy = {}
                          /\ fate[j] = "pending" <=> queued # {}
                          /\ fate[j] = "running" <=> busy # {}
    BY DEF OnePlacePerJob
  <2> DEFINE queued == {i \in DOMAIN jobs : jobs[i] = j}
             busy   == {w \in Worker : j \in running[w]}
  <2>1. fate[j] = "pending" <=> queued # {} BY DEF IInv, Places
  <2>2. fate[j] = "running" <=> busy # {} BY DEF IInv, Places
  <2>3. j \in timers => queued = {} /\ busy = {} BY <2>1, <2>2 DEF IInv, Places
  <2>4. queued = {} \/ \E i \in DOMAIN jobs : queued = {i}
    <3> SUFFICES ASSUME NEW i \in queued PROVE queued = {i} OBVIOUS
    <3> QED BY DEF IInv, Places
  <2>5. busy = {} \/ \E w \in Worker : busy = {w}
    <3> SUFFICES ASSUME NEW w \in busy PROVE busy = {w} OBVIOUS
    <3> QED BY DEF IInv, Places
  <2>6. queued = {} \/ busy = {} BY <2>1, <2>2
  <2>7. Cardinality({}) = 0 BY FS_EmptySet
  <2>8. \A x : Cardinality({x}) = 1 BY FS_Singleton
  <2> HIDE DEF queued, busy
  <2>9. Cardinality(queued) + Cardinality(busy) <= 1
    <3>1. /\ Cardinality(queued) = 0 \/ Cardinality(queued) = 1
          /\ Cardinality(busy) = 0 \/ Cardinality(busy) = 1
          /\ Cardinality(queued) = 0 \/ Cardinality(busy) = 0
      BY <2>4, <2>5, <2>6, <2>7, <2>8, Zenon
    <3> QED BY <3>1
  <2> QED BY <2>1, <2>2, <2>3, <2>9 DEF queued, busy
<1> QED BY <1>1, Invariant, PTL

-----------------------------------------------------------------------------
(* Signal wakes enough workers.                                            *)

Awake == {w \in Worker : worker[w] = "ready"}

LEMMA AwakeIsFinite == IsFiniteSet(Awake) /\ Cardinality(Awake) \in Nat
  BY JobQueueAssumption, FS_Subset, FS_CardinalityType DEF Awake

\* A worker that wakes up, or comes back from its job, is one more.
LEMMA OneMoreAwake ==
  ASSUME TypeOK, NEW w \in Worker, worker[w] # "ready", worker' = [worker EXCEPT ![w] = "ready"]
  PROVE  Cardinality(Awake') = Cardinality(Awake) + 1
<1>1. Awake' = Awake \cup {w} /\ w \notin Awake BY DEF Awake, TypeOK
<1> QED BY <1>1, AwakeIsFinite, FS_AddElement

LEMMA OneLessAwake ==
  ASSUME TypeOK, NEW w \in Worker, worker[w] = "ready",
         NEW s \in {"run", "parked", "exited"}, worker' = [worker EXCEPT ![w] = s]
  PROVE  Cardinality(Awake') = Cardinality(Awake) - 1
<1>1. Awake' = Awake \ {w} /\ w \in Awake BY DEF Awake, TypeOK
<1> QED BY <1>1, AwakeIsFinite, FS_RemoveElement

\* Submit's Signal pays for the job it appends.
LEMMA SubmitSignals ==
  ASSUME TypeOK, NoSleepOverWork, NEW j \in Job, Submit(j), closed' = closed
  PROVE  NoSleepOverWork'
<1>1. CASE closed BY <1>1 DEF NoSleepOverWork
<1>2. CASE ~closed /\ Parked = {}
  BY <1>2 DEF Submit, Signal, NoSleepOverWork, Parked
<1>3. CASE ~closed /\ Parked # {}
  <2>1. PICK w \in Parked : worker' = [worker EXCEPT ![w] = "ready"]
    BY <1>3 DEF Submit, Signal
  <2>2. Cardinality(Awake') = Cardinality(Awake) + 1 BY <2>1, OneMoreAwake DEF Parked
  <2>3. jobs' = Append(jobs, j) /\ jobs \in Seq(Job) BY <1>3 DEF Submit, TypeOK
  <2>4. Len(jobs') = Len(jobs) + 1 /\ Len(jobs) \in Nat
    BY <2>3, AppendProperties, LenProperties
  <2>5. Len(jobs) <= Cardinality(Awake) BY <1>3 DEF NoSleepOverWork, Awake
  <2>6. Len(jobs') <= Cardinality(Awake') BY <2>2, <2>4, <2>5, AwakeIsFinite
  <2> QED BY <2>6 DEF NoSleepOverWork, Awake
<1> QED BY <1>1, <1>2, <1>3

\* No job waits for a busy worker while an idle one sleeps on the condition
\* variable, whatever races the worker that Signal wakes (jobqueue.go, Submit,
\* Retry and pop).
THEOREM NoSleep == Spec => []NoSleepOverWork
<1>1. Init => NoSleepOverWork
  BY DEF Init, NoSleepOverWork, Parked
<1>2. IInv /\ NoSleepOverWork /\ [Next]_vars => NoSleepOverWork'
  <2> SUFFICES ASSUME IInv, NoSleepOverWork, [Next]_vars PROVE NoSleepOverWork' OBVIOUS
  <2> USE DEF IInv
  <2>1. ASSUME NEW j \in Job, SubmitNew(j) \/ TimerFires(j) PROVE NoSleepOverWork'
    BY <2>1, SubmitSignals DEF SubmitNew, TimerFires
  <2>2. ASSUME NEW j \in Job, DeleteJob(j) PROVE NoSleepOverWork'
    <3>1. PICK i \in DOMAIN jobs : jobs' = RemoveAt(jobs, i) BY <2>2 DEF DeleteJob
    <3>2. jobs \in Seq(Job) BY DEF TypeOK
    <3>3. i \in 1..Len(jobs) /\ Len(jobs) \in Nat BY <3>2, LenProperties
    <3>4. Len(jobs') = Len(jobs) - 1 BY <3>1, <3>2, <3>3, RemoveAtProperties
    <3> QED BY <2>2, <3>3, <3>4, AwakeIsFinite DEF DeleteJob, NoSleepOverWork, Parked, Awake
  <2>3. ASSUME NEW w \in Worker, Park(w) PROVE NoSleepOverWork'
    <3>1. Cardinality(Awake') \in Nat
      BY <2>3, JobQueueAssumption, FS_Subset, FS_CardinalityType DEF Awake
    <3>2. Len(jobs') = 0 BY <2>3 DEF Park
    <3> QED BY <3>1, <3>2 DEF NoSleepOverWork, Awake
  <2>4. ASSUME NEW w \in Worker, Take(w) PROVE NoSleepOverWork'
    <3>1. Cardinality(Awake') = Cardinality(Awake) - 1 BY <2>4, OneLessAwake DEF Take
    <3>2. jobs \in Seq(Job) /\ jobs # << >> /\ jobs' = Tail(jobs) BY <2>4 DEF TypeOK, Take
    <3>3. Len(jobs') = Len(jobs) - 1 /\ Len(jobs) \in Nat
      BY <3>2, HeadTailProperties, LenProperties
    <3>4. Parked' = Parked /\ ~closed BY <2>4 DEF Take, Parked, TypeOK
    <3>5. Parked # {} => Len(jobs) <= Cardinality(Awake) BY <3>4 DEF NoSleepOverWork, Awake
    <3>6. Parked' # {} => Len(jobs') <= Cardinality(Awake')
      BY <3>1, <3>3, <3>4, <3>5, AwakeIsFinite
    <3> QED BY <3>6 DEF NoSleepOverWork, Awake
  <2>5. ASSUME NEW w \in Worker, Exit(w) PROVE NoSleepOverWork'
    BY <2>5 DEF Exit, NoSleepOverWork
  <2>6. ASSUME NEW w \in Worker, Complete(w) \/ Retry(w) PROVE NoSleepOverWork'
    <3>1. Cardinality(Awake') = Cardinality(Awake) + 1
      BY <2>6, OneMoreAwake DEF Complete, Retry
    <3>2. Parked' = Parked /\ jobs' = jobs /\ closed' = closed
      BY <2>6 DEF Complete, Retry, Parked, TypeOK
    <3>3. Len(jobs) \in Nat BY LenProperties DEF TypeOK
    <3> QED BY <3>1, <3>2, <3>3, AwakeIsFinite DEF NoSleepOverWork, Awake
  <2>7. CASE CloseMark \/ CloseCancel \/ CloseBroadcast
    BY <2>7 DEF CloseMark, CloseCancel, CloseBroadcast, CloseOrder, NoSleepOverWork
  <2>8. CASE CloseReturns BY <2>8 DEF CloseReturns, NoSleepOverWork, Parked
  <2>9. ASSUME NEW j \in Job, TimerCancelled(j) PROVE NoSleepOverWork'
    BY <2>9 DEF TimerCancelled, NoSleepOverWork, Parked
  <2>10. CASE UNCHANGED vars BY <2>10 DEF vars, NoSleepOverWork, Parked
  <2> QED BY <2>1, <2>2, <2>3, <2>4, <2>5, <2>6, <2>7, <2>8, <2>9, <2>10
          DEF Next, Timer, WorkerStep, Closing
<1> QED BY <1>1, <1>2, Invariant, PTL DEF Spec

-----------------------------------------------------------------------------
(* The queue implements WorkQueue.                                         *)

\* What is over, and what runs, after a job moves from one fate to another.
LEMMA OverAfter ==
  ASSUME TypeOK, NEW j \in Job,
         NEW f \in {"pending", "running", "retrying", "done", "deleted", "refused", "dropped"},
         fate' = [fate EXCEPT ![j] = f],
         fate[j] \in {"new", "pending", "running", "retrying"}
  PROVE  /\ j \notin Over
         /\ Over' = IF f \in {"done", "deleted", "refused", "dropped"} THEN Over \cup {j} ELSE Over
<1>1. fate'[j] = f /\ \A k \in Job : k # j => fate'[k] = fate[k] BY DEF TypeOK
<1>2. j \notin Over BY DEF Over
<1>3. \A k \in Job : k # j => (k \in Over' <=> k \in Over) BY <1>1 DEF Over
<1>4. j \in Over' <=> f \in {"done", "deleted", "refused", "dropped"} BY <1>1 DEF Over
<1>5. Over \subseteq Job /\ Over' \subseteq Job BY DEF Over
<1>6. CASE f \in {"done", "deleted", "refused", "dropped"}
  <2>1. \A k : k \in Over' <=> k \in Over \cup {j} BY <1>3, <1>4, <1>5, <1>6
  <2>2. Over' = Over \cup {j} BY <2>1, Zenon
  <2> QED BY <1>2, <1>6, <2>2
<1>7. CASE f \notin {"done", "deleted", "refused", "dropped"} BY <1>2, <1>3, <1>4, <1>5, <1>7
<1> QED BY <1>2, <1>6, <1>7

LEMMA RunningIsFate ==
  ASSUME IInv PROVE Running = {j \in Job : fate[j] = "running"}
  BY DEF IInv, TypeOK, Places, Running

\* A worker that is free leaves room for its job: each running job has a
\* worker of its own.
LEMMA RoomToRun ==
  ASSUME IInv, NEW w \in Worker, running[w] = {}
  PROVE  Cardinality(Running) < Cardinality(Worker)
<1> DEFINE f == [j \in Running |-> CHOOSE v \in Worker : j \in running[v]]
           T == Worker \ {w}
<1>1. \A j \in Running : f[j] \in Worker /\ j \in running[f[j]] BY DEF Running
<1>2. \A j \in Running : f[j] \in T BY <1>1
<1>3. \A j, k \in Running : f[j] = f[k] => j = k
  <2> SUFFICES ASSUME NEW j \in Running, NEW k \in Running, f[j] = f[k] PROVE j = k OBVIOUS
  <2>1. f[j] \in Worker /\ j \in running[f[j]] /\ k \in running[f[j]] BY <1>1
  <2> QED BY <2>1 DEF IInv, Places
<1>4. f \in Injection(Running, T) BY <1>2, <1>3 DEF Injection, IsInjective
<1>5. /\ IsFiniteSet(T) /\ Cardinality(T) = Cardinality(Worker) - 1
      /\ Cardinality(Worker) \in Nat
  BY JobQueueAssumption, FS_RemoveElement, FS_CardinalityType
<1> HIDE DEF f, T
<1>6. IsFiniteSet(Running) /\ Cardinality(Running) <= Cardinality(T) BY <1>4, <1>5, FS_Injection
<1>7. Cardinality(Running) \in Nat BY <1>6, FS_CardinalityType
<1> QED BY <1>5, <1>6, <1>7

LEMMA StepRefines ==
  ASSUME IInv, IInv', [Next]_vars
  PROVE  [Queue!Next]_(Queue!vars)
<1> USE DEF IInv
<1>0. closed \in BOOLEAN /\ closed' \in BOOLEAN BY DEF TypeOK
<1>1. ASSUME NEW j \in Job, SubmitNew(j) PROVE Queue!Submit(j)
  <2>1. fate[j] = "new" /\ Submit(j) /\ UNCHANGED <<closed, running, timers>>
    BY <1>1 DEF SubmitNew
  <2>2. Running' = Running BY <2>1 DEF Running
  <2>3. j \in Queue!New
    BY <2>1, RunningIsFate DEF Queue!New, Queue!Waiting, Places, Over
  <2>4. Queue!Join(j)
    <3>1. CASE closed BY <2>1, <3>1, OverAfter DEF Submit, Queue!Join
    <3>2. CASE ~closed BY <2>1, <3>2, OverAfter DEF Submit, Queue!Join
    <3> QED BY <3>1, <3>2
  <2> QED BY <2>1, <2>2, <2>3, <2>4 DEF Queue!Submit
<1>2. ASSUME NEW j \in Job, TimerFires(j) PROVE Queue!ComeBack(j)
  <2>1. /\ j \in timers /\ timers' = timers \ {j} /\ Submit(j)
        /\ UNCHANGED <<closed, running>>
    BY <1>2 DEF TimerFires
  <2>2. Running' = Running BY <2>1 DEF Running
  <2>3. fate[j] = "retrying" BY <2>1 DEF Places
  <2>4. Queue!Join(j)
    <3>1. CASE closed BY <2>1, <2>3, <3>1, OverAfter DEF Submit, Queue!Join
    <3>2. CASE ~closed BY <2>1, <2>3, <3>2, OverAfter DEF Submit, Queue!Join
    <3> QED BY <3>1, <3>2
  <2> QED BY <2>1, <2>2, <2>4 DEF Queue!ComeBack
<1>3. ASSUME NEW j \in Job, TimerCancelled(j) PROVE Queue!Drop(j)
  <2>1. fate[j] = "retrying" BY <1>3 DEF TimerCancelled, Places
  <2>2. Over' = Over \cup {j} BY <1>3, <2>1, OverAfter DEF TimerCancelled
  <2>3. Running' = Running BY <1>3 DEF TimerCancelled, Running
  <2> QED BY <1>3, <2>2, <2>3 DEF TimerCancelled, CloseOrder, Queue!Drop
<1>4. ASSUME NEW j \in Job, DeleteJob(j) PROVE \E i \in DOMAIN jobs : Queue!Delete(i)
  <2>1. PICK i \in DOMAIN jobs : jobs[i] = j /\ jobs' = RemoveAt(jobs, i)
    BY <1>4 DEF DeleteJob
  <2>2. fate[j] = "pending" BY <2>1 DEF Places
  <2>3. Over' = Over \cup {j} BY <1>4, <2>2, OverAfter DEF DeleteJob
  <2>4. Running' = Running BY <1>4 DEF DeleteJob, Running
  <2>5. Queue!RemoveAt(jobs, i) = RemoveAt(jobs, i) BY DEF Queue!RemoveAt, RemoveAt
  <2> QED BY <1>4, <2>1, <2>3, <2>4, <2>5 DEF DeleteJob, Queue!Delete
<1>5. ASSUME NEW w \in Worker, Park(w) \/ Exit(w) PROVE UNCHANGED Queue!vars
  BY <1>5 DEF Park, Exit, Queue!vars, Running, Over
<1>6. ASSUME NEW w \in Worker, Take(w) PROVE Queue!Start
  <2>1. Head(jobs) \in Job /\ Head(jobs) = jobs[1] /\ 1 \in DOMAIN jobs
    BY <1>6, HeadTailProperties, LenProperties DEF Take, TypeOK
  <2>2. fate[Head(jobs)] = "pending" /\ fate' = [fate EXCEPT ![Head(jobs)] = "running"]
    BY <1>6, <2>1 DEF Take, Places
  <2>3. Over' = Over BY <2>1, <2>2, OverAfter
  <2>4. Running' = {k \in Job : fate'[k] = "running"} BY RunningIsFate DEF TypeOK, Places, Running
  <2>5. Running' = Running \cup {Head(jobs)} /\ Head(jobs) \notin Running
    BY <2>1, <2>2, <2>4, RunningIsFate DEF TypeOK
  <2>6. Cardinality(Running) < Cardinality(Worker) BY <1>6, RoomToRun DEF Take, Places
  <2>7. Queue!Cardinality(Running) = Cardinality(Running) BY DEF Queue!Cardinality, Cardinality
  <2> QED BY <1>6, <2>3, <2>5, <2>6, <2>7 DEF Take, Queue!Start
<1>7. ASSUME NEW w \in Worker, NEW j \in running[w], fate' = [fate EXCEPT ![j] = "done"]
             \/ fate' = [fate EXCEPT ![j] = "retrying"]
      PROVE  j \in Job /\ fate[j] = "running" /\ j \in Running /\ Running' = Running \ {j}
  <2>1. j \in Job /\ fate[j] = "running" BY DEF TypeOK, Places
  <2>2. Running' = {k \in Job : fate'[k] = "running"} BY DEF TypeOK, Places, Running
  <2> QED BY <1>7, <2>1, <2>2, RunningIsFate DEF TypeOK
<1>8. ASSUME NEW w \in Worker, Complete(w) PROVE \E j \in Job : Queue!End(j)
  <2>1. PICK j \in running[w] : fate' = [fate EXCEPT ![j] = "done"] BY <1>8 DEF Complete
  <2>2. j \in Job /\ fate[j] = "running" /\ j \in Running /\ Running' = Running \ {j}
    BY <1>7, <2>1
  <2>3. Over' = Over \cup {j} BY <2>1, <2>2, OverAfter
  <2> QED BY <1>8, <2>2, <2>3 DEF Complete, Queue!End
<1>9. ASSUME NEW w \in Worker, Retry(w) PROVE \E j \in Job : Queue!PutAside(j)
  <2>1. PICK j \in running[w] : timers' = timers \cup {j} /\ fate' = [fate EXCEPT ![j] = "retrying"]
    BY <1>9 DEF Retry
  <2>2. j \in Job /\ fate[j] = "running" /\ j \in Running /\ Running' = Running \ {j}
    BY <1>7, <2>1
  <2>3. Over' = Over BY <2>1, <2>2, OverAfter
  <2> QED BY <1>9, <2>1, <2>2, <2>3 DEF Retry, Queue!PutAside
<1>10. CASE CloseMark
  <2>1. UNCHANGED <<jobs, timers, Running, Over>> BY <1>10 DEF CloseMark, Running, Over
  <2>2. (~closed)' = FALSE BY <1>10, Zenon DEF CloseMark
  <2>3. Queue!Close BY <2>1, <2>2, Zenon DEF Queue!Close
  <2> QED BY <2>3 DEF Queue!Next
<1>11. CASE Closing
  BY <1>11 DEF Closing, CloseCancel, CloseBroadcast, CloseReturns, Queue!vars, Running, Over
<1>12. CASE UNCHANGED vars BY <1>12 DEF vars, Queue!vars, Running, Over
<1> QED BY <1>1, <1>2, <1>3, <1>4, <1>5, <1>6, <1>8, <1>9, <1>10, <1>11, <1>12
        DEF Next, Timer, WorkerStep, Queue!Next

\* Whatever the workers, the timers and Close do to each other, each job waits
\* in line, runs on one of the workers, is put aside and is over as the
\* abstract queue says (jobqueue.go).
THEOREM Refinement == Spec => ImplementsWorkQueue
<1>1. Init => Queue!Init
  BY DEF Init, Queue!Init, Running, Over
<1>2. IInv /\ IInv' /\ [Next]_vars => [Queue!Next]_(Queue!vars)
  BY StepRefines
<1> QED BY <1>1, <1>2, Invariant, PTL DEF Spec, ImplementsWorkQueue, Queue!Spec

-----------------------------------------------------------------------------
(* The import pipeline.                                                    *)

Entry == Import!Entry
Absent == Import!Absent
Idle == Import!Idle

\* A record, or none: what MarkAsError and the other edits need to find.
Rec(r) == "state" \in DOMAIN r /\ (r.state = "down" => "status" \in DOMAIN r)

\* A copy somebody works on is not of a completed import.
Open(r) == Rec(r) /\ r.state # "done"

Queued(r) == r.state = "down" /\ r.status = "queued"

\* What SourceIsKept asks for.
Source(n) == n \in staged \/ (header[n] = "parsing" /\ n \in raw)

\* The job of an NZB that was parsed, whose record is not queued any more.
Late(n) == \/ job[n] \in {"process", "drop", "complete", "fill"}
           \/ job[n] = "pending" /\ payload[n] = "parsed"

\* A task works on an open copy; from "flag" on its import is stored, and when
\* it reports, probed or marked.  A task of an NZB has no queued copy.
TaskOk(e, i) ==
  LET x == task[e][i] IN
  \/ x = Idle
  \/ /\ DOMAIN x = {"at", "copy", "owner"} /\ Open(x.copy)
     /\ x.at \in {"flag", "link", "gates", "report", "close"} => lib[e] # "absent"
     /\ x.at \in {"report", "close"} => e \in verified \cup dirty
     /\ e \in Nzb => e \in added /\ ~Queued(x.copy)

\* A queued NZB: its source is there, the copy restore made of it at the start
\* is as good as the record until the job is back, and from the moment its
\* source may go nobody has a queued copy to put back.
NzbOk(n) ==
  /\ Queued(rec[n]) => Source(n)
  /\ Queued(snapshot[n]) => Source(n)
  /\ snapshot[n] # Absent => job[n] = "none" /\ n \in added
  /\ rec[n] # Absent => n \in added
  /\ job[n] # "none" => n \in added
  /\ job[n] \in {"unstage", "update"} => header[n] = "parsing" /\ n \in raw
  /\ job[n] \in {"timer", "parse"} => payload[n] # "parsed"
  /\ Late(n) => ~Queued(held[n]) /\ ~Queued(rec[n])

EntryOk(e) ==
  /\ Rec(rec[e]) /\ Open(held[e]) /\ Open(snapshot[e])
  /\ DOMAIN task[e] = Task /\ \A i \in Task : TaskOk(e, i)
  /\ rec[e].state = "done" => lib[e] # "absent" /\ e \in verified \cup dirty
  /\ e \in Nzb => NzbOk(e)

Domains ==
  /\ DOMAIN rec = Entry /\ DOMAIN lib = Entry /\ DOMAIN held = Entry /\ DOMAIN snapshot = Entry
  /\ DOMAIN job = Entry /\ DOMAIN payload = Entry /\ DOMAIN task = Entry
  /\ DOMAIN header = Nzb

\* While the process is down nothing is queued or running.
Down == phase = "down" => \A e \in Entry : job[e] = "none"

\* The inductive invariant.
\* ReportedIsChecked needs TaskOk: how far a task has come vouches for what
\* its copy will say.  SourceIsKept needs NzbOk: every copy of a record, held
\* by a job, a task or the restore, may be put back at any time.
ImportInv == Domains /\ Down /\ \A e \in Entry : EntryOk(e)

\* The invariant is as strong as the two properties.
LEMMA ImportInvImplies == ImportInv => Import!SourceIsKept /\ Import!ReportedIsChecked
<1>1. \A n \in Nzb : n \in Entry BY DEF Entry, Import!Entry
<1> QED BY <1>1 DEF ImportInv, EntryOk, NzbOk, Queued, Source, Import!SourceIsKept,
                    Import!ReportedIsChecked, Import!Active, Entry

-----------------------------------------------------------------------------
(* What the edits of a record leave of it.                                 *)

\* MarkAsError, MarkAsCompleted and the update of a parsed NZB.
LEMMA Edits ==
  ASSUME NEW r, Rec(r)
  PROVE  /\ Rec(Import!MarkAsError(r)) /\ Import!MarkAsError(r).state = "error"
         /\ Rec(Import!MarkAsCompleted(r)) /\ Import!MarkAsCompleted(r).state = "done"
         /\ Rec(Import!Parsed(r)) /\ Import!Parsed(r).state = r.state /\ ~Queued(Import!Parsed(r))
<1>1. Rec(Import!MarkAsError(r)) /\ Import!MarkAsError(r).state = "error"
  BY DEF Rec, Import!MarkAsError
<1>2. Rec(Import!MarkAsCompleted(r)) /\ Import!MarkAsCompleted(r).state = "done"
  BY DEF Rec, Import!MarkAsCompleted
<1>3. Rec(Import!Parsed(r)) /\ Import!Parsed(r).state = r.state /\ ~Queued(Import!Parsed(r))
  BY DEF Rec, Import!Parsed, Queued
<1> QED BY <1>1, <1>2, <1>3

\* Setting one field, and applyDebridTorrentToEntry.
LEMMA FieldEdits ==
  ASSUME NEW r, Rec(r), NEW v
  PROVE  /\ Rec([r EXCEPT !.busy = v]) /\ [r EXCEPT !.busy = v].state = r.state
         /\ Queued([r EXCEPT !.busy = v]) <=> Queued(r)
         /\ Rec([r EXCEPT !.progress = v]) /\ [r EXCEPT !.progress = v].state = r.state
         /\ Queued([r EXCEPT !.progress = v]) <=> Queued(r)
         /\ Rec([r EXCEPT !.status = v]) /\ [r EXCEPT !.status = v].state = r.state
         /\ v # "queued" => ~Queued([r EXCEPT !.status = v])
         /\ Rec(Import!ApplyDebrid(r, v)) /\ Import!ApplyDebrid(r, v).state = r.state
<1>1. Rec([r EXCEPT !.busy = v]) /\ [r EXCEPT !.busy = v].state = r.state
      /\ (Queued([r EXCEPT !.busy = v]) <=> Queued(r))
  BY DEF Rec, Queued
<1>2. Rec([r EXCEPT !.progress = v]) /\ [r EXCEPT !.progress = v].state = r.state
      /\ (Queued([r EXCEPT !.progress = v]) <=> Queued(r))
  BY DEF Rec, Queued
<1>3. Rec([r EXCEPT !.status = v]) /\ [r EXCEPT !.status = v].state = r.state
      /\ (v # "queued" => ~Queued([r EXCEPT !.status = v]))
  BY DEF Rec, Queued
<1>4. Rec(Import!ApplyDebrid(r, v)) /\ Import!ApplyDebrid(r, v).state = r.state
  BY DEF Rec, Import!ApplyDebrid
<1> QED BY <1>1, <1>2, <1>3, <1>4

\* An absent record, a new one and an idle task.
LEMMA Constants ==
  /\ Open(Absent) /\ ~Queued(Absent)
  /\ \A e, b : Open(Import!NewEntry(e, b)) /\ Import!NewEntry(e, b) # Absent
  /\ Nzb \subseteq Entry /\ Torrent \subseteq Entry /\ \A t \in Torrent : t \notin Nzb
  /\ Idle.at = "none"
<1>1. Open(Absent) /\ ~Queued(Absent) BY DEF Open, Rec, Queued, Absent, Import!Absent
<1>2. \A e, b : Open(Import!NewEntry(e, b)) /\ Import!NewEntry(e, b) # Absent
  <2> TAKE e, b
  <2>1. Open(Import!NewEntry(e, b)) /\ Import!NewEntry(e, b).state = "down"
    BY DEF Open, Rec, Import!NewEntry
  <2>2. Absent.state = "absent" BY DEF Absent, Import!Absent
  <2> QED BY <2>1, <2>2
<1>3. Nzb \subseteq Entry /\ Torrent \subseteq Entry /\ \A t \in Torrent : t \notin Nzb
  BY ImportAssumption DEF Entry, Import!Entry, Import!ImportAssumption
<1>4. Idle.at = "none" BY DEF Idle, Import!Idle
<1> QED BY <1>1, <1>2, <1>3, <1>4

-----------------------------------------------------------------------------
(* A step is about one entry.                                              *)

SameAt(e) ==
  /\ rec'[e] = rec[e] /\ lib'[e] = lib[e] /\ held'[e] = held[e] /\ snapshot'[e] = snapshot[e]
  /\ job'[e] = job[e] /\ payload'[e] = payload[e] /\ task'[e] = task[e]
  /\ e \in Nzb => header'[e] = header[e]
  /\ e \in staged' <=> e \in staged
  /\ e \in raw' <=> e \in raw
  /\ e \in added => e \in added'
  /\ e \in verified => e \in verified'
  /\ e \in dirty => e \in dirty'

\* An entry the step does not touch.
LEMMA SameEntry ==
  ASSUME NEW e \in Entry, EntryOk(e), SameAt(e)
  PROVE  EntryOk(e)'
<1>1. Rec(rec[e])' /\ Open(held[e])' /\ Open(snapshot[e])' /\ DOMAIN task'[e] = Task
  BY DEF EntryOk, SameAt, Rec, Open
<1>2. ASSUME NEW i \in Task PROVE TaskOk(e, i)'
  BY <1>2 DEF EntryOk, SameAt, TaskOk, Open, Rec, Queued, Idle, Import!Idle
<1>3. e \in Nzb => NzbOk(e)'
  BY DEF EntryOk, SameAt, NzbOk, Source, Late, Queued, Absent, Import!Absent
<1>4. (rec[e].state = "done" => lib[e] # "absent" /\ e \in verified \cup dirty)'
  BY DEF EntryOk, SameAt
<1> QED BY <1>1, <1>2, <1>3, <1>4 DEF EntryOk

\* A step about one entry: the others keep what they had.
LEMMA OneEntry ==
  ASSUME ImportInv, NEW e \in Entry, Domains', Down', EntryOk(e)',
         \A f \in Entry : f # e => SameAt(f)
  PROVE  ImportInv'
<1>1. \A f \in Entry : EntryOk(f)' BY SameEntry DEF ImportInv
<1>2. Entry' = Entry BY DEF Entry
<1> QED BY <1>1, <1>2 DEF ImportInv

-----------------------------------------------------------------------------
(* What a step does to the tasks of an entry.                              *)

Grow(e) ==
  /\ lib[e] # "absent" => lib'[e] # "absent"
  /\ e \in added => e \in added'
  /\ e \in verified \cup dirty => e \in verified' \cup dirty'

PointTask(e, i) ==
  /\ DOMAIN task' = Entry /\ (\A f \in Entry : f # e => task'[f] = task[f])
  /\ DOMAIN task'[e] = Task /\ (\A j \in Task : j # i => task'[e][j] = task[e][j])

TasksOk(e) == DOMAIN task[e] = Task /\ \A i \in Task : TaskOk(e, i)

\* The tasks of an entry stay; what they rest on only grows.
LEMMA TasksKept ==
  ASSUME ImportInv, NEW e \in Entry, task'[e] = task[e], Grow(e)
  PROVE  TasksOk(e)'
<1>1. DOMAIN task'[e] = Task BY DEF ImportInv, EntryOk
<1>2. ASSUME NEW i \in Task PROVE TaskOk(e, i)'
  <2>1. TaskOk(e, i) BY DEF ImportInv, EntryOk
  <2> QED BY <2>1 DEF TaskOk, Grow, Open, Rec, Queued, Idle, Import!Idle
<1> QED BY <1>1, <1>2 DEF TasksOk

\* One task of an entry moves.
LEMMA TaskSet ==
  ASSUME ImportInv, NEW e \in Entry, NEW i \in Task, PointTask(e, i), Grow(e), TaskOk(e, i)'
  PROVE  TasksOk(e)'
<1>1. DOMAIN task'[e] = Task BY DEF PointTask
<1>2. ASSUME NEW j \in Task, j # i PROVE TaskOk(e, j)'
  <2>1. TaskOk(e, j) /\ task'[e][j] = task[e][j] BY <1>2 DEF ImportInv, EntryOk, PointTask
  <2> QED BY <2>1 DEF TaskOk, Grow, Open, Rec, Queued, Idle, Import!Idle
<1> QED BY <1>1, <1>2 DEF TasksOk

\* The state of one task is replaced whole.
LEMMA Replaced ==
  ASSUME ImportInv, NEW e \in Entry, NEW i \in Task, NEW x, task' = [task EXCEPT ![e][i] = x]
  PROVE  PointTask(e, i) /\ task'[e][i] = x
<1>1. DOMAIN task = Entry /\ DOMAIN task[e] = Task BY DEF ImportInv, Domains, EntryOk
<1> QED BY <1>1 DEF PointTask

\* GoTo keeps the shape of a task.
LEMMA Moved ==
  ASSUME ImportInv, NEW e \in Entry, NEW i \in Task, task[e][i].at # "none", NEW p, NEW c,
         Import!GoTo(e, i, p, c)
  PROVE  /\ PointTask(e, i) /\ DOMAIN task'[e][i] = {"at", "copy", "owner"}
         /\ task'[e][i].at = p /\ task'[e][i].copy = c
<1>1. DOMAIN task = Entry /\ DOMAIN task[e] = Task BY DEF ImportInv, Domains, EntryOk
<1>2. DOMAIN task[e][i] = {"at", "copy", "owner"}
  BY Constants DEF ImportInv, EntryOk, TaskOk
<1>3. task'[e] = [[task[e] EXCEPT ![i].at = p] EXCEPT ![i].copy = c]
  BY <1>1 DEF Import!GoTo
<1>4. task'[e][i] = [[task[e][i] EXCEPT !.at = p] EXCEPT !.copy = c]
  BY <1>1, <1>3
<1>5. PointTask(e, i) BY <1>1, <1>3 DEF Import!GoTo, PointTask
<1> QED BY <1>2, <1>4, <1>5

\* A task that is not idle has an open copy.
LEMMA TaskFacts ==
  ASSUME ImportInv, NEW e \in Entry, NEW i \in Task, task[e][i].at # "none"
  PROVE  /\ Open(task[e][i].copy)
         /\ task[e][i].at \in {"flag", "link", "gates", "report", "close"} => lib[e] # "absent"
         /\ task[e][i].at \in {"report", "close"} => e \in verified \cup dirty
         /\ e \in Nzb => e \in added /\ ~Queued(task[e][i].copy)
BY Constants DEF ImportInv, EntryOk, TaskOk

\* A task that starts has a copy that is open, and not queued if it is an NZB's.
LEMMA Started ==
  ASSUME ImportInv, NEW e \in Entry, NEW p \in {"check", "header", "act"}, NEW c, NEW o,
         \E i \in Task : task' = [task EXCEPT ![e][i] = [at |-> p, copy |-> c, owner |-> o]],
         Open(c), e \in Nzb => e \in added /\ ~Queued(c), Grow(e)
  PROVE  /\ DOMAIN task' = Entry /\ \A f \in Entry : f # e => task'[f] = task[f]
         /\ TasksOk(e)'
<1>1. PICK i \in Task : task' = [task EXCEPT ![e][i] = [at |-> p, copy |-> c, owner |-> o]]
  OBVIOUS
<1>2. PointTask(e, i) /\ task'[e][i] = [at |-> p, copy |-> c, owner |-> o]
  <2> DEFINE x == [at |-> p, copy |-> c, owner |-> o]
  <2>1. task' = [task EXCEPT ![e][i] = x] BY <1>1
  <2> HIDE DEF x
  <2>2. DOMAIN task = Entry /\ DOMAIN task[e] = Task BY DEF ImportInv, Domains, EntryOk
  <2>3. PointTask(e, i) /\ task'[e][i] = x BY ONLY <2>1, <2>2, e \in Entry, i \in Task DEF PointTask
  <2> QED BY <2>3 DEF x
<1>3. TaskOk(e, i)'
  <2> DEFINE x == task'[e][i]
  <2>1. DOMAIN x = {"at", "copy", "owner"} /\ x.at = p /\ x.copy = c BY <1>2
  <2>2. Open(x.copy) /\ (e \in Nzb => e \in added' /\ ~Queued(x.copy)) BY <2>1 DEF Grow
  <2> QED BY <2>1, <2>2 DEF TaskOk, Open, Rec, Queued
<1>4. TasksOk(e)' BY <1>2, <1>3, TaskSet
<1> QED BY <1>2, <1>4 DEF PointTask

\* What a task makes of the record.
Puts(e, r) ==
  /\ rec' = [rec EXCEPT ![e] = r]
  /\ Rec(r)
  /\ (r.state = "done" => lib'[e] # "absent" /\ e \in verified' \cup dirty')
  /\ (e \in Nzb => ~Queued(r) /\ e \in added)

\* A step of a task: the record stays, or becomes what the task makes of its copy.
LEMMA TaskStep ==
  ASSUME ImportInv, NEW e \in Entry, NEW i \in Task, Import!TaskFrame,
         PointTask(e, i), TaskOk(e, i)', Grow(e),
         DOMAIN lib' = Entry, \A f \in Entry : f # e => lib'[f] = lib[f],
         verified' \subseteq verified \cup {e}, dirty' \subseteq dirty \cup {e},
         verified \subseteq verified', dirty \subseteq dirty',
         UNCHANGED rec \/ \E r : Puts(e, r)
  PROVE  ImportInv'
<1>1. UNCHANGED <<header, staged, raw, added, job, payload, held, snapshot, phase>>
  BY DEF Import!TaskFrame
<1>2. /\ DOMAIN rec' = Entry
      /\ \A f \in Entry : f # e => rec'[f] = rec[f]
      /\ Rec(rec'[e])
      /\ (rec'[e].state = "done" => lib'[e] # "absent" /\ e \in verified' \cup dirty')
      /\ (rec'[e] = rec[e] \/ (e \in Nzb => ~Queued(rec'[e]) /\ e \in added))
  <2>1. CASE UNCHANGED rec BY <2>1 DEF ImportInv, Domains, EntryOk, Grow
  <2>2. CASE \E r : Puts(e, r)
    <3>1. PICK r : Puts(e, r) BY <2>2
    <3>2. DOMAIN rec = Entry BY DEF ImportInv, Domains
    <3>3. rec'[e] = r BY <3>1, <3>2 DEF Puts
    <3> QED BY <3>1, <3>2, <3>3 DEF Puts
  <2> QED BY <2>1, <2>2
<1>4. Domains' /\ Down'
  BY <1>1, <1>2 DEF ImportInv, Domains, Down, PointTask, Entry
<1>5. \A f \in Entry : f # e => SameAt(f)
  BY <1>1, <1>2 DEF SameAt, PointTask
<1>6. TasksOk(e)' BY TaskSet
<1>7. e \in Nzb => NzbOk(e)'
  <2>1. e \in Nzb => NzbOk(e) BY DEF ImportInv, EntryOk
  <2> QED BY <1>1, <1>2, <2>1 DEF NzbOk, Source, Late, Queued, Absent, Import!Absent
<1>8. Open(held[e])' /\ Open(snapshot[e])'
  BY <1>1 DEF ImportInv, EntryOk, Open, Rec
<1>9. EntryOk(e)'
  BY <1>2, <1>6, <1>7, <1>8 DEF EntryOk, TasksOk, Rec
<1> QED BY <1>4, <1>5, <1>9, OneEntry

\* A step of a job, a caller or the restore: about one entry and its tasks.
About(e) ==
  /\ DOMAIN rec' = Entry /\ DOMAIN held' = Entry /\ DOMAIN snapshot' = Entry
  /\ DOMAIN job' = Entry /\ DOMAIN payload' = Entry /\ DOMAIN header' = Nzb
  /\ UNCHANGED <<lib, verified, dirty, phase>>
  /\ \A f \in Entry : f # e =>
       /\ rec'[f] = rec[f] /\ held'[f] = held[f] /\ snapshot'[f] = snapshot[f]
       /\ job'[f] = job[f] /\ payload'[f] = payload[f]
       /\ (f \in Nzb => header'[f] = header[f])
       /\ (f \in staged' <=> f \in staged)
       /\ (f \in raw' <=> f \in raw)
       /\ (f \in added => f \in added')

TaskPart(e) ==
  /\ DOMAIN task' = Entry
  /\ \A f \in Entry : f # e => task'[f] = task[f]

\* The invariant from what the step leaves of its entry.
LEMMA JobStep ==
  ASSUME ImportInv, NEW e \in Entry, phase # "down", About(e), TaskPart(e), TasksOk(e)',
         Rec(rec'[e]), rec'[e].state # "done" \/ rec'[e] = rec[e],
         Open(held'[e]), Open(snapshot'[e]), e \in Nzb => NzbOk(e)'
  PROVE  ImportInv'
<1>1. Domains' /\ Down'
  BY DEF ImportInv, Domains, Down, About, TaskPart, Entry
<1>2. \A f \in Entry : f # e => SameAt(f)
  BY DEF SameAt, About, TaskPart
<1>3. (rec[e].state = "done" => lib[e] # "absent" /\ e \in verified \cup dirty)'
  BY DEF ImportInv, EntryOk, About
<1>4. EntryOk(e)'
  BY <1>3 DEF EntryOk, TasksOk, Rec, Open
<1> QED BY <1>1, <1>2, <1>4, OneEntry

-----------------------------------------------------------------------------
(* Steps of the tasks.                                                     *)

\* A task that ends is idle.
LEMMA Ended ==
  ASSUME ImportInv, NEW e \in Entry, NEW i \in Task, Import!TaskEnds(e, i)
  PROVE  PointTask(e, i) /\ TaskOk(e, i)'
<1>1. task' = [task EXCEPT ![e][i] = Idle] BY DEF Import!TaskEnds, Idle
<1>2. PointTask(e, i) /\ task'[e][i] = Idle BY <1>1, Replaced
<1> QED BY <1>2 DEF TaskOk, Idle, Import!Idle

\* A task that goes on to a place that its import has earned.
LEMMA GoesOn ==
  ASSUME ImportInv, NEW e \in Entry, NEW i \in Task, task[e][i].at # "none", NEW p, NEW c,
         Import!GoTo(e, i, p, c), Open(c),
         p \in {"flag", "link", "gates", "report", "close"} => lib'[e] # "absent",
         p \in {"report", "close"} => e \in verified' \cup dirty',
         e \in Nzb => e \in added' /\ ~Queued(c)
  PROVE  PointTask(e, i) /\ TaskOk(e, i)'
<1>1. /\ PointTask(e, i) /\ DOMAIN task'[e][i] = {"at", "copy", "owner"}
      /\ task'[e][i].at = p /\ task'[e][i].copy = c
  BY Moved
<1>2. Open(task'[e][i].copy) /\ (e \in Nzb => ~Queued(task'[e][i].copy)) BY <1>1
<1> QED BY <1>1, <1>2 DEF TaskOk, Open, Rec, Queued

\* A task that fails, or that a shutdown sends home, leaves a record nobody
\* takes for queued or complete.
LEMMA Fails ==
  ASSUME ImportInv, NEW e \in Entry, NEW i \in Task, task[e][i].at # "none",
         Import!FailTask(e, i) \/ Import!KeepForRestart(e, i)
  PROVE  PointTask(e, i) /\ TaskOk(e, i)' /\ \E r : Puts(e, r)
<1>1. Open(task[e][i].copy) /\ (e \in Nzb => e \in added /\ ~Queued(task[e][i].copy)) BY TaskFacts
<1>2. CASE Import!FailTask(e, i)
  <2> DEFINE r == Import!MarkAsError(task[e][i].copy)
  <2>1. Rec(r) /\ r.state = "error" BY <1>1, Edits DEF Open
  <2>2. rec' = [rec EXCEPT ![e] = r] /\ Import!TaskEnds(e, i)
    BY <1>2 DEF Import!FailTask, Import!Put, Import!Copy
  <2> HIDE DEF r
  <2>3. Puts(e, r) BY <1>1, <2>1, <2>2 DEF Puts, Queued
  <2> QED BY <2>2, <2>3, Ended
<1>3. CASE Import!KeepForRestart(e, i)
  <2> DEFINE r == [task[e][i].copy EXCEPT !.busy = FALSE]
  <2>1. Rec(r) /\ r.state = task[e][i].copy.state /\ (Queued(r) <=> Queued(task[e][i].copy))
    BY <1>1, FieldEdits DEF Open
  <2>2. rec' = [rec EXCEPT ![e] = r] /\ Import!TaskEnds(e, i)
    BY <1>3 DEF Import!KeepForRestart, Import!Put, Import!Copy
  <2> HIDE DEF r
  <2>3. Puts(e, r) BY <1>1, <2>1, <2>2 DEF Puts, Open
  <2> QED BY <2>2, <2>3, Ended
<1> QED BY <1>2, <1>3

\* A step that leaves the main storage and the verdicts alone.
LEMMA QuietTaskStep ==
  ASSUME ImportInv, NEW e \in Entry, NEW i \in Task, Import!TaskFrame,
         UNCHANGED <<lib, verified, dirty>>, PointTask(e, i), TaskOk(e, i)',
         UNCHANGED rec \/ \E r : Puts(e, r)
  PROVE  ImportInv'
<1>1. DOMAIN lib' = Entry /\ (\A f \in Entry : f # e => lib'[f] = lib[f]) /\ Grow(e)
  BY DEF ImportInv, Domains, Grow, Import!TaskFrame
<1> QED BY <1>1, TaskStep

\* A step that puts an edited copy of an open record and goes on.
LEMMA EditsOn ==
  ASSUME ImportInv, NEW e \in Entry, NEW i \in Task, task[e][i].at # "none", NEW p, NEW r,
         Import!TaskFrame, UNCHANGED <<lib, verified, dirty>>, Import!Put(e, r), Import!GoTo(e, i, p, r),
         Open(r), e \in Nzb => ~Queued(r),
         p \in {"flag", "link", "gates"} => lib[e] # "absent", p \notin {"report", "close"}
  PROVE  ImportInv'
<1>1. e \in Nzb => e \in added BY TaskFacts
<1>2. Puts(e, r) BY <1>1 DEF Puts, Import!Put, Open
<1>3. e \in Nzb => e \in added' BY <1>1 DEF Import!TaskFrame
<1>4. lib'[e] = lib[e] OBVIOUS
<1>5. PointTask(e, i) /\ TaskOk(e, i)' BY <1>3, <1>4, GoesOn
<1> QED BY <1>2, <1>5, QuietTaskStep

\* processQueuedTorrent asks the provider.
LEMMA CheckTorrentKeeps ==
  ASSUME ImportInv, NEW t \in Torrent, NEW i \in Task, Import!CheckTorrent(t, i)
  PROVE  ImportInv'
<1>1. t \in Entry /\ t \notin Nzb BY Constants
<1>2. task[t][i].at # "none" /\ Import!TaskFrame /\ UNCHANGED <<lib, verified, dirty>>
  BY DEF Import!CheckTorrent
<1>3. Open(task[t][i].copy) BY <1>1, <1>2, TaskFacts
<1>4. CASE Import!FailTask(t, i) BY <1>1, <1>2, <1>4, Fails, QuietTaskStep
<1>5. CASE Import!Put(t, Import!Copy(t, i)) /\ Import!TaskEnds(t, i)
  <2>1. Puts(t, task[t][i].copy) BY <1>1, <1>3, <1>5 DEF Puts, Open, Import!Put, Import!Copy
  <2> QED BY <1>1, <1>2, <1>5, <2>1, Ended, QuietTaskStep
<1>6. CASE \E r : /\ r = [Import!Copy(t, i) EXCEPT !.progress = 1]
                  /\ Import!Put(t, r) /\ Import!GoTo(t, i, "act", r)
  <2>1. PICK r : /\ r = [Import!Copy(t, i) EXCEPT !.progress = 1]
                 /\ Import!Put(t, r) /\ Import!GoTo(t, i, "act", r)
    BY <1>6
  <2>2. Open(r) BY <1>3, <2>1, FieldEdits DEF Open, Import!Copy
  <2> QED BY <1>1, <1>2, <2>1, <2>2, EditsOn
<1> QED BY <1>4, <1>5, <1>6 DEF Import!CheckTorrent

\* processQueuedNZB goes by the header.
LEMMA CheckNZBKeeps ==
  ASSUME ImportInv, NEW n \in Nzb, NEW i \in Task, Import!CheckNZB(n, i)
  PROVE  ImportInv'
<1>1. n \in Entry BY Constants
<1>2. task[n][i].at # "none" /\ Import!TaskFrame /\ UNCHANGED <<lib, verified, dirty>>
  BY DEF Import!CheckNZB
<1>3. Open(task[n][i].copy) /\ n \in added /\ ~Queued(task[n][i].copy) BY <1>1, <1>2, TaskFacts
<1>4. CASE Import!FailTask(n, i) BY <1>1, <1>2, <1>4, Fails, QuietTaskStep
<1>5. CASE Import!TaskEnds(n, i) /\ UNCHANGED rec BY <1>1, <1>2, <1>5, Ended, QuietTaskStep
<1>6. CASE \E r : /\ r = [Import!Copy(n, i) EXCEPT !.progress = 1]
                  /\ Import!Put(n, r)
                  /\ (\/ Import!TaskEnds(n, i)
                      \/ task' = [task EXCEPT ![n][i] = [at |-> "act", copy |-> r, owner |-> FALSE]])
  <2>1. PICK r : /\ r = [Import!Copy(n, i) EXCEPT !.progress = 1]
                 /\ Import!Put(n, r)
                 /\ (\/ Import!TaskEnds(n, i)
                     \/ task' = [task EXCEPT ![n][i] = [at |-> "act", copy |-> r, owner |-> FALSE]])
    BY <1>6
  <2>2. Open(r) /\ ~Queued(r) BY <1>3, <2>1, FieldEdits DEF Open, Import!Copy
  <2>3. Puts(n, r) BY <1>3, <2>1, <2>2 DEF Puts, Open, Import!Put
  <2>4. CASE Import!TaskEnds(n, i) BY <1>1, <1>2, <2>3, <2>4, Ended, QuietTaskStep
  <2>5. CASE task' = [task EXCEPT ![n][i] = [at |-> "act", copy |-> r, owner |-> FALSE]]
    <3> DEFINE x == [at |-> "act", copy |-> r, owner |-> FALSE]
    <3>1. DOMAIN x = {"at", "copy", "owner"} /\ x.at = "act" /\ x.copy = r OBVIOUS
    <3>2. task' = [task EXCEPT ![n][i] = x] BY <2>5
    <3> HIDE DEF x
    <3>3. PointTask(n, i) /\ task'[n][i] = x BY <1>1, <3>2, Replaced
    <3>4. n \in added' BY <1>2, <1>3 DEF Import!TaskFrame
    <3>5. TaskOk(n, i)' BY <2>2, <3>1, <3>3, <3>4 DEF TaskOk, Open, Rec, Queued
    <3> QED BY <1>1, <1>2, <2>3, <3>3, <3>5, QuietTaskStep
  <2> QED BY <2>1, <2>4, <2>5
<1> QED BY <1>4, <1>5, <1>6 DEF Import!CheckNZB

\* processAction's first update.
LEMMA ActTaskKeeps ==
  ASSUME ImportInv, NEW e \in Entry, NEW i \in Task, Import!ActTask(e, i)
  PROVE  ImportInv'
<1>1. task[e][i].at # "none" /\ Import!TaskFrame /\ UNCHANGED <<lib, verified, dirty>>
  BY DEF Import!ActTask
<1>2. PICK r : /\ r = [Import!Copy(e, i) EXCEPT !.status = "downloaded"]
               /\ Import!Put(e, r) /\ Import!GoTo(e, i, "store", r)
  BY DEF Import!ActTask
<1>3. Open(task[e][i].copy) BY <1>1, TaskFacts
<1>4. Open(r) /\ ~Queued(r) BY <1>2, <1>3, FieldEdits DEF Open, Import!Copy
<1> QED BY <1>1, <1>2, <1>4, EditsOn

\* The main storage has the import before the flag is set.
LEMMA StoreTaskKeeps ==
  ASSUME ImportInv, NEW e \in Entry, NEW i \in Task, Import!StoreTask(e, i)
  PROVE  ImportInv'
<1>1. /\ task[e][i].at # "none" /\ Import!TaskFrame /\ UNCHANGED <<rec, verified, dirty>>
      /\ Import!GoTo(e, i, "flag", task[e][i].copy)
  BY DEF Import!StoreTask, Import!Copy
<1>2. DOMAIN lib' = Entry /\ (\A f \in Entry : f # e => lib'[f] = lib[f]) /\ lib'[e] # "absent"
  BY DEF Import!StoreTask, ImportInv, Domains
<1>3. Open(task[e][i].copy) /\ (e \in Nzb => e \in added /\ ~Queued(task[e][i].copy))
  BY <1>1, TaskFacts
<1>4. Grow(e) BY <1>1, <1>2 DEF Grow, Import!TaskFrame
<1>5. PointTask(e, i) /\ TaskOk(e, i)' BY <1>1, <1>2, <1>3, <1>4, GoesOn DEF Grow
<1> QED BY <1>1, <1>2, <1>4, <1>5, TaskStep

\* download sets IsDownloading, or a shutdown refuses it.
LEMMA FlagTaskKeeps ==
  ASSUME ImportInv, NEW e \in Entry, NEW i \in Task, Import!FlagTask(e, i)
  PROVE  ImportInv'
<1>1. task[e][i].at = "flag" /\ Import!TaskFrame /\ UNCHANGED <<lib, verified, dirty>>
  BY DEF Import!FlagTask
<1>2. /\ Open(task[e][i].copy) /\ lib[e] # "absent"
      /\ (e \in Nzb => ~Queued(task[e][i].copy))
  BY <1>1, TaskFacts
<1>3. CASE Import!KeepForRestart(e, i) BY <1>1, <1>3, Fails, QuietTaskStep
<1>4. CASE \E r : /\ r = [Import!Copy(e, i) EXCEPT !.busy = TRUE]
                  /\ Import!Put(e, r) /\ Import!GoTo(e, i, "link", r)
  <2>1. PICK r : /\ r = [Import!Copy(e, i) EXCEPT !.busy = TRUE]
                 /\ Import!Put(e, r) /\ Import!GoTo(e, i, "link", r)
    BY <1>4
  <2>2. Open(r) /\ (e \in Nzb => ~Queued(r)) BY <1>2, <2>1, FieldEdits DEF Open, Import!Copy
  <2> QED BY <1>1, <1>2, <2>1, <2>2, EditsOn
<1> QED BY <1>3, <1>4 DEF Import!FlagTask

\* The files appear, or the task fails or is cancelled.
LEMMA LinkTaskKeeps ==
  ASSUME ImportInv, NEW e \in Entry, NEW i \in Task, Import!LinkTask(e, i)
  PROVE  ImportInv'
<1>1. task[e][i].at = "link" /\ Import!TaskFrame /\ UNCHANGED <<lib, verified, dirty>>
  BY DEF Import!LinkTask
<1>2. /\ Open(task[e][i].copy) /\ lib[e] # "absent"
      /\ (e \in Nzb => e \in added /\ ~Queued(task[e][i].copy))
  BY <1>1, TaskFacts
<1>3. CASE Import!FailTask(e, i) \/ Import!KeepForRestart(e, i)
  BY <1>1, <1>3, Fails, QuietTaskStep
<1>4. CASE Import!GoTo(e, i, "gates", task[e][i].copy) /\ UNCHANGED rec
  <2>1. lib'[e] # "absent" /\ (e \in Nzb => e \in added') BY <1>1, <1>2 DEF Import!TaskFrame
  <2>2. PointTask(e, i) /\ TaskOk(e, i)' BY <1>1, <1>2, <1>4, <2>1, GoesOn
  <2> QED BY <1>1, <1>4, <2>2, QuietTaskStep
<1> QED BY <1>3, <1>4 DEF Import!LinkTask, Import!Copy

\* Only a probe that said something, or a mark, leads to the report.
LEMMA GateTaskKeeps ==
  ASSUME ImportInv, NEW e \in Entry, NEW i \in Task, Import!GateTask(e, i)
  PROVE  ImportInv'
<1>1. task[e][i].at = "gates" /\ Import!TaskFrame /\ UNCHANGED lib
  BY DEF Import!GateTask
<1>2. /\ Open(task[e][i].copy) /\ lib[e] # "absent"
      /\ (e \in Nzb => e \in added /\ ~Queued(task[e][i].copy))
  BY <1>1, TaskFacts
<1>3. /\ verified' \subseteq verified \cup {e} /\ dirty' \subseteq dirty \cup {e}
      /\ verified \subseteq verified' /\ dirty \subseteq dirty'
  BY DEF Import!GateTask, Import!Rejected
<1>4. DOMAIN lib' = Entry /\ (\A f \in Entry : f # e => lib'[f] = lib[f])
  BY <1>1 DEF ImportInv, Domains
<1>5. Grow(e) BY <1>1, <1>3 DEF Grow, Import!TaskFrame
<1>6. CASE Import!FailTask(e, i) \/ Import!KeepForRestart(e, i)
  BY <1>1, <1>3, <1>4, <1>5, <1>6, Fails, TaskStep
<1>7. CASE Import!GoTo(e, i, "report", task[e][i].copy) /\ UNCHANGED rec /\ e \in verified' \cup dirty'
  <2>1. lib'[e] # "absent" /\ (e \in Nzb => e \in added') BY <1>1, <1>2 DEF Import!TaskFrame
  <2>2. PointTask(e, i) /\ TaskOk(e, i)' BY <1>1, <1>2, <1>7, <2>1, GoesOn
  <2> QED BY <1>1, <1>3, <1>4, <1>5, <1>7, <2>2, TaskStep
<1>8. CASE Import!Rejected(e, i) BY <1>6, <1>8 DEF Import!Rejected
<1>9. ASSUME NEW probe \in Import!FFProbeGate(e), probe # "reject",
             verified' = IF probe = "verified" THEN verified \cup {e} ELSE verified,
             dirty' = IF probe = "inconclusive" THEN dirty \cup {e} ELSE dirty,
             ~Import!Stopping, Import!GoTo(e, i, "report", Import!Copy(e, i)), UNCHANGED rec
      PROVE  ImportInv'
  <2>1. probe \in {"verified", "inconclusive"} BY <1>9 DEF Import!FFProbeGate
  <2>2. e \in verified' \cup dirty' BY <1>9, <2>1
  <2> QED BY <1>7, <1>9, <2>2 DEF Import!Copy
<1> QED BY <1>6, <1>8, <1>9 DEF Import!GateTask

\* markAsCompleted: storage first, then the record.
LEMMA ReportTaskKeeps ==
  ASSUME ImportInv, NEW e \in Entry, NEW i \in Task, Import!ReportTask(e, i)
  PROVE  ImportInv'
<1>1. /\ task[e][i].at \in {"report", "close"} /\ Import!TaskFrame /\ UNCHANGED <<verified, dirty>>
  BY DEF Import!ReportTask
<1>2. /\ Open(task[e][i].copy) /\ lib[e] # "absent" /\ e \in verified \cup dirty
      /\ (e \in Nzb => e \in added /\ ~Queued(task[e][i].copy))
  BY <1>1, TaskFacts
<1>3. DOMAIN lib' = Entry /\ (\A f \in Entry : f # e => lib'[f] = lib[f]) /\ lib'[e] # "absent"
  BY <1>2 DEF Import!ReportTask, ImportInv, Domains
<1>4. Grow(e) BY <1>1, <1>3 DEF Grow, Import!TaskFrame
<1>5. e \in verified' \cup dirty' /\ (e \in Nzb => e \in added') BY <1>1, <1>2 DEF Import!TaskFrame
<1>6. CASE Import!GoTo(e, i, "close", task[e][i].copy) /\ UNCHANGED rec
  <2>1. PointTask(e, i) /\ TaskOk(e, i)' BY <1>1, <1>2, <1>3, <1>5, <1>6, GoesOn
  <2> QED BY <1>1, <1>3, <1>4, <1>6, <2>1, TaskStep
<1>7. CASE Import!Put(e, Import!MarkAsCompleted(task[e][i].copy)) /\ Import!TaskEnds(e, i)
  <2> DEFINE r == Import!MarkAsCompleted(task[e][i].copy)
  <2>1. Rec(r) /\ r.state = "done" BY <1>2, Edits DEF Open
  <2>2. rec' = [rec EXCEPT ![e] = r] BY <1>7 DEF Import!Put
  <2> HIDE DEF r
  <2>3. Puts(e, r) BY <1>2, <1>3, <1>5, <2>1, <2>2 DEF Puts, Queued
  <2>4. PointTask(e, i) /\ TaskOk(e, i)' BY <1>7, Ended
  <2> QED BY <1>1, <1>3, <1>4, <2>3, <2>4, TaskStep
<1> QED BY <1>6, <1>7 DEF Import!ReportTask, Import!Copy

-----------------------------------------------------------------------------
(* Steps of the jobs.                                                      *)

RecPart(e) ==
  /\ DOMAIN rec' = Entry /\ DOMAIN held' = Entry
  /\ \A f \in Entry : f # e => rec'[f] = rec[f] /\ held'[f] = held[f]

JobPart(e) ==
  /\ DOMAIN job' = Entry
  /\ \A f \in Entry : f # e => job'[f] = job[f]

\* queue.Update of the job's copy.
LEMMA Updated ==
  ASSUME ImportInv, NEW e \in Entry, NEW r, Import!PutHeld(e, r)
  PROVE  RecPart(e) /\ rec'[e] = r /\ held'[e] = r
BY DEF ImportInv, Domains, RecPart, Import!PutHeld, Import!Put

\* A step without an update.
LEMMA SameRec ==
  ASSUME ImportInv, NEW e \in Entry, UNCHANGED <<rec, held>>
  PROVE  /\ RecPart(e) /\ rec'[e] = rec[e] /\ held'[e] = held[e]
         /\ Rec(rec'[e]) /\ Open(held'[e])
BY DEF ImportInv, Domains, EntryOk, RecPart

\* The job is somewhere else.
LEMMA JobMoves ==
  ASSUME ImportInv, NEW e \in Entry, NEW p, job' = [job EXCEPT ![e] = p]
  PROVE  JobPart(e) /\ job'[e] = p
BY DEF ImportInv, Domains, JobPart

\* processJob on an error: nobody is left with a record that says complete.
LEMMA JobFailed ==
  ASSUME ImportInv, NEW e \in Entry, Import!JobFails(e)
  PROVE  /\ RecPart(e) /\ JobPart(e) /\ job'[e] = "none"
         /\ Rec(rec'[e]) /\ Open(held'[e])
         /\ rec'[e].state # "done" \/ rec'[e] = rec[e]
         /\ Queued(rec'[e]) => Queued(rec[e])
<1>1. JobPart(e) /\ job'[e] = "none" BY JobMoves DEF Import!JobFails, Import!JobDone
<1>2. CASE UNCHANGED <<rec, held>> BY <1>1, <1>2, SameRec
<1>3. CASE Import!PutHeld(e, Import!MarkAsError(held[e]))
  <2> DEFINE r == Import!MarkAsError(held[e])
  <2>1. Rec(held[e]) BY DEF ImportInv, EntryOk, Open
  <2>2. Rec(r) /\ r.state = "error" BY <2>1, Edits
  <2> HIDE DEF r
  <2>3. RecPart(e) /\ rec'[e] = r /\ held'[e] = r BY <1>3, Updated DEF r
  <2> QED BY <1>1, <2>2, <2>3 DEF Open, Queued
<1> QED BY <1>2, <1>3 DEF Import!JobFails

\* No task moves.
LEMMA TasksStay ==
  ASSUME ImportInv, NEW e \in Entry, UNCHANGED <<task, lib, verified, dirty>>, added \subseteq added'
  PROVE  TaskPart(e) /\ TasksOk(e)'
<1>1. Grow(e) BY DEF Grow
<1> QED BY <1>1, TasksKept DEF ImportInv, Domains, TaskPart

\* What a worker's step leaves alone.
Files(e) ==
  /\ DOMAIN header' = Nzb
  /\ \A f \in Entry : f # e =>
       /\ (f \in Nzb => header'[f] = header[f])
       /\ (f \in staged' <=> f \in staged)
       /\ (f \in raw' <=> f \in raw)

\* The invariant from what a running job leaves of its entry.
LEMMA RunStep ==
  ASSUME ImportInv, NEW e \in Entry, job[e] # "none", Import!JobFrame, UNCHANGED <<lib, payload>>,
         Files(e), RecPart(e), JobPart(e), TaskPart(e), TasksOk(e)',
         Rec(rec'[e]), rec'[e].state # "done" \/ rec'[e] = rec[e], Open(held'[e]),
         e \in Nzb => NzbOk(e)'
  PROVE  ImportInv'
<1>1. phase # "down" BY DEF ImportInv, Down
<1>2. About(e)
  BY DEF About, Import!JobFrame, Files, RecPart, JobPart, ImportInv, Domains
<1>3. Open(snapshot'[e]) BY DEF Import!JobFrame, ImportInv, EntryOk
<1> QED BY <1>1, <1>2, <1>3, JobStep

\* An NZB whose job runs has been accepted, and restore has no copy of it left.
LEMMA JobHolds ==
  ASSUME ImportInv, NEW n \in Nzb, job[n] # "none"
  PROVE  n \in Entry /\ n \in added /\ snapshot[n] = Absent /\ NzbOk(n)
BY Constants DEF ImportInv, EntryOk, NzbOk

\* The conditions on a running NZB job, the ones no worker's step can
\* disturb left out.
LEMMA RunNzb ==
  ASSUME ImportInv, NEW n \in Nzb, job[n] # "none", Import!JobFrame,
         (Queued(rec[n]) => Source(n))',
         (job[n] \in {"unstage", "update"} => header[n] = "parsing" /\ n \in raw)',
         (job[n] \in {"timer", "parse"} => payload[n] # "parsed")',
         (Late(n) => ~Queued(held[n]) /\ ~Queued(rec[n]))'
  PROVE  NzbOk(n)'
<1>1. n \in added' /\ snapshot'[n] = Absent BY JobHolds DEF Import!JobFrame
<1>2. ~Queued(snapshot'[n]) BY <1>1, Constants
<1>3. Absent' = Absent BY DEF Absent, Import!Absent
<1>4. (snapshot[n] # Absent => job[n] = "none" /\ n \in added)' BY <1>1, <1>3
<1>5. (Queued(snapshot[n]) => Source(n))' BY <1>2
<1> QED BY <1>1, <1>4, <1>5 DEF NzbOk

\* A step that moves only the job of an entry: pop, a timer, the wait's end.
LEMMA MoveOnly ==
  ASSUME ImportInv, NEW e \in Entry, job[e] # "none", NEW p, job' = [job EXCEPT ![e] = p],
         UNCHANGED <<rec, lib, header, staged, raw, payload, held, task>>, Import!JobFrame,
         p \notin {"unstage", "update", "drop", "complete", "fill"},
         e \in Nzb /\ p \in {"timer", "parse"} => payload[e] # "parsed",
         e \in Nzb /\ (p = "process" \/ (p = "pending" /\ payload[e] = "parsed")) => Late(e)
  PROVE  ImportInv'
<1>1. JobPart(e) /\ job'[e] = p BY JobMoves
<1>2. /\ RecPart(e) /\ rec'[e] = rec[e] /\ held'[e] = held[e]
      /\ Rec(rec'[e]) /\ Open(held'[e])
  BY SameRec
<1>3. TaskPart(e) /\ TasksOk(e)' BY TasksStay DEF Import!JobFrame
<1>4. Files(e) BY DEF Files, ImportInv, Domains
<1>5. ASSUME e \in Nzb PROVE NzbOk(e)'
  <2>1. NzbOk(e) BY <1>5, JobHolds
  <2>2. Late(e)' => Late(e) BY <1>1, <1>5 DEF Late
  <2>3. (Queued(rec[e]) => Source(e))' BY <1>2, <2>1 DEF NzbOk, Source
  <2>4. (Late(e) => ~Queued(held[e]) /\ ~Queued(rec[e]))' BY <1>2, <2>1, <2>2 DEF NzbOk
  <2>5. (job[e] \in {"timer", "parse"} => payload[e] # "parsed")' BY <1>1, <1>5
  <2>6. (job[e] \in {"unstage", "update"} => header[e] = "parsing" /\ e \in raw)' BY <1>1
  <2> QED BY <1>5, <2>3, <2>4, <2>5, <2>6, RunNzb
<1> QED BY <1>1, <1>2, <1>3, <1>4, <1>5, RunStep

\* A worker takes the job: parsed payloads are processed, the others parsed.
LEMMA TakeJobKeeps ==
  ASSUME ImportInv, NEW e \in Entry, Import!TakeJob(e)
  PROVE  ImportInv'
<1>1. /\ job[e] = "pending" /\ Import!JobFrame
      /\ UNCHANGED <<rec, lib, header, staged, raw, payload, held, task>>
  BY DEF Import!TakeJob
<1> DEFINE p == IF rec[e] = Import!Absent THEN "wait"
                ELSE CASE payload[e] = "resume" -> "start"
                       [] payload[e] = "parsed" -> "process"
                       [] payload[e] \in {"new", "sent"} /\ e \in Nzb -> "parse"
                       [] OTHER -> "send"
<1>2. /\ job' = [job EXCEPT ![e] = p]
      /\ p \in {"wait", "start", "process", "parse", "send"}
      /\ (p = "process" => payload[e] = "parsed")
      /\ (p = "parse" => payload[e] # "parsed")
  <2>1. job' = [job EXCEPT ![e] = p] BY DEF Import!TakeJob, Import!JobAt
  <2>2. /\ p \in {"wait", "start", "process", "parse", "send"}
        /\ (p = "process" => payload[e] = "parsed")
        /\ (p = "parse" => payload[e] # "parsed")
    OBVIOUS
  <2> QED BY <2>1, <2>2
<1> HIDE DEF p
<1>3. p = "process" => Late(e) BY <1>1, <1>2 DEF Late
<1> QED BY <1>1, <1>2, <1>3, MoveOnly

\* Retry's timer: never for a parsed NZB.
LEMMA RetryFiresKeeps ==
  ASSUME ImportInv, NEW e \in Entry, Import!RetryFires(e)
  PROVE  ImportInv'
<1>1. /\ job[e] = "timer" /\ Import!JobFrame
      /\ UNCHANGED <<rec, lib, header, staged, raw, payload, held, task>>
  BY DEF Import!RetryFires
<1>2. PICK p \in {"none", "pending"} : job' = [job EXCEPT ![e] = p]
  BY DEF Import!RetryFires, Import!JobDone, Import!JobAt
<1>3. e \in Nzb => payload[e] # "parsed" BY <1>1, JobHolds DEF NzbOk
<1> QED BY <1>1, <1>2, <1>3, MoveOnly

\* The wait ends.
LEMMA WaitJobKeeps ==
  ASSUME ImportInv, NEW e \in Entry, Import!WaitJob(e)
  PROVE  ImportInv'
<1>1. /\ job[e] = "wait" /\ Import!JobFrame /\ job' = [job EXCEPT ![e] = "none"]
      /\ UNCHANGED <<rec, lib, header, staged, raw, payload, held, task>>
  BY DEF Import!WaitJob, Import!JobDone
<1> QED BY <1>1, MoveOnly

\* The jobs of a torrent: the record changes, no source file is involved.
LEMMA TorrentStep ==
  ASSUME ImportInv, NEW t \in Torrent, job[t] # "none", Import!JobFrame,
         UNCHANGED <<lib, header, staged, raw, payload>>, RecPart(t), JobPart(t),
         TaskPart(t), TasksOk(t)', Rec(rec'[t]), Open(held'[t]),
         rec'[t].state # "done" \/ rec'[t] = rec[t]
  PROVE  ImportInv'
<1>1. t \in Entry /\ t \notin Nzb BY Constants
<1>2. Files(t) BY DEF Files, ImportInv, Domains
<1> QED BY <1>1, <1>2, RunStep

\* The worker runs the check itself.
LEMMA ResumeJobKeeps ==
  ASSUME ImportInv, NEW t \in Torrent, Import!ResumeJob(t)
  PROVE  ImportInv'
<1>1. t \in Entry /\ t \notin Nzb BY Constants
<1>2. /\ job[t] # "none" /\ Import!JobFrame /\ UNCHANGED <<lib, header, staged, raw, payload>>
      /\ job' = [job EXCEPT ![t] = "wait"]
  BY DEF Import!ResumeJob, Import!JobAt
<1> DEFINE r == [held[t] EXCEPT !.status = "downloading", !.busy = FALSE]
<1>3. /\ Import!PutHeld(t, r)
      /\ \E i \in Task : task' = [task EXCEPT ![t][i] = [at |-> "check", copy |-> r, owner |-> TRUE]]
  BY DEF Import!ResumeJob
<1>4. Open(r)
  <2>1. Open(held[t]) BY <1>1 DEF ImportInv, EntryOk
  <2> QED BY <2>1 DEF Open, Rec
<1> HIDE DEF r
<1>5. RecPart(t) /\ rec'[t] = r /\ held'[t] = r BY <1>1, <1>3, Updated
<1>6. JobPart(t) BY <1>1, <1>2, JobMoves
<1>7. Grow(t) BY <1>2 DEF Grow, Import!JobFrame
<1>8. TaskPart(t) /\ TasksOk(t)' BY <1>1, <1>3, <1>4, <1>7, Started DEF TaskPart
<1> QED BY <1>2, <1>4, <1>5, <1>6, <1>8, TorrentStep DEF Open

\* startDownloadTask, refused or not.
LEMMA MayStart ==
  ASSUME ImportInv, NEW e \in Entry, NEW c, Import!StartTask(e, "act", c, FALSE),
         UNCHANGED <<lib, verified, dirty, added>>, Open(c), e \in Nzb => e \in added /\ ~Queued(c)
  PROVE  TaskPart(e) /\ TasksOk(e)'
<1>1. Grow(e) BY DEF Grow
<1>2. CASE UNCHANGED task BY <1>2, TasksStay
<1>3. CASE \E i \in Task : task' = [task EXCEPT ![e][i] = [at |-> "act", copy |-> c, owner |-> FALSE]]
  BY <1>1, <1>3, Started DEF TaskPart
<1> QED BY <1>2, <1>3 DEF Import!StartTask

\* The answers of the provider to a submission.
LEMMA SendJobKeeps ==
  ASSUME ImportInv, NEW t \in Torrent, Import!SendJob(t)
  PROVE  ImportInv'
<1>1. t \in Entry /\ t \notin Nzb BY Constants
<1>2. job[t] # "none" /\ Import!JobFrame /\ UNCHANGED <<lib, header, staged, raw, payload>>
  BY DEF Import!SendJob
<1>3. Open(held[t]) BY <1>1 DEF ImportInv, EntryOk
<1>4. CASE /\ Import!PutHeld(t, [held[t] EXCEPT !.status = "queued"])
           /\ Import!JobAt(t, "timer") /\ UNCHANGED task
  <2> DEFINE r == [held[t] EXCEPT !.status = "queued"]
  <2>1. Open(r) BY <1>3, FieldEdits DEF Open
  <2> HIDE DEF r
  <2>2. RecPart(t) /\ rec'[t] = r /\ held'[t] = r BY <1>1, <1>4, Updated DEF r
  <2>3. JobPart(t) BY <1>1, <1>4, JobMoves DEF Import!JobAt
  <2>4. TaskPart(t) /\ TasksOk(t)' BY <1>1, <1>2, <1>4, TasksStay DEF Import!JobFrame
  <2> QED BY <1>2, <2>1, <2>2, <2>3, <2>4, TorrentStep DEF Open
<1>5. CASE Import!JobFails(t) /\ UNCHANGED task
  <2>1. TaskPart(t) /\ TasksOk(t)' BY <1>1, <1>2, <1>5, TasksStay DEF Import!JobFrame
  <2> QED BY <1>1, <1>2, <1>5, <2>1, JobFailed, TorrentStep
<1>6. ASSUME NEW r, NEW answer,
             r = Import!ApplyDebrid([held[t] EXCEPT !.status = "downloading"], answer),
             Import!PutHeld(t, r), Import!JobAt(t, "wait"),
             Import!StartTask(t, "act", r, FALSE) \/ UNCHANGED task
      PROVE  ImportInv'
  <2>1. Rec([held[t] EXCEPT !.status = "downloading"])
        /\ [held[t] EXCEPT !.status = "downloading"].state = held[t].state
    BY <1>3, FieldEdits DEF Open
  <2>2. Open(r) BY <1>3, <1>6, <2>1, FieldEdits DEF Open
  <2>3. RecPart(t) /\ rec'[t] = r /\ held'[t] = r BY <1>1, <1>6, Updated
  <2>4. JobPart(t) BY <1>1, <1>6, JobMoves DEF Import!JobAt
  <2>5. TaskPart(t) /\ TasksOk(t)'
    BY <1>1, <1>2, <1>6, <2>2, MayStart, TasksStay DEF Import!JobFrame
  <2> QED BY <1>2, <2>2, <2>3, <2>4, <2>5, TorrentStep DEF Open
<1> QED BY <1>4, <1>5, <1>6 DEF Import!SendJob

\* The jobs of an NZB that neither put the record nor start a task.
LEMMA NzbStep ==
  ASSUME ImportInv, NEW n \in Nzb, job[n] # "none", Import!JobFrame, UNCHANGED <<lib, payload, task>>,
         Files(n), RecPart(n), JobPart(n), Rec(rec'[n]), Open(held'[n]),
         rec'[n].state # "done" \/ rec'[n] = rec[n], NzbOk(n)'
  PROVE  ImportInv'
<1>1. n \in Entry BY Constants
<1>2. TaskPart(n) /\ TasksOk(n)' BY <1>1, TasksStay DEF Import!JobFrame
<1> QED BY <1>1, <1>2, RunStep

\* A worker that gives an NZB up, whatever is left of its files, once nobody
\* has a queued copy of the record any more or its source is still there.
LEMMA NzbGivenUp ==
  ASSUME ImportInv, NEW n \in Nzb, job[n] # "none", Import!JobFrame, Import!JobFails(n),
         UNCHANGED <<lib, payload, task>>, Files(n),
         Queued(rec[n]) => Source(n)'
  PROVE  ImportInv'
<1>1. n \in Entry BY Constants
<1>2. /\ RecPart(n) /\ JobPart(n) /\ job'[n] = "none"
      /\ Rec(rec'[n]) /\ Open(held'[n])
      /\ (rec'[n].state # "done" \/ rec'[n] = rec[n])
      /\ (Queued(rec'[n]) => Queued(rec[n]))
  BY <1>1, JobFailed
<1>3. (Queued(rec[n]) => Source(n))' BY <1>2
<1>4. NzbOk(n)' BY <1>2, <1>3, RunNzb DEF Late
<1> QED BY <1>2, <1>4, NzbStep

\* Every outcome of the parse leaves the staged file alone.
LEMMA ParseJobKeeps ==
  ASSUME ImportInv, NEW n \in Nzb, Import!ParseJob(n)
  PROVE  ImportInv'
<1>1. /\ job[n] = "parse" /\ Import!JobFrame
      /\ UNCHANGED <<lib, header, staged, raw, payload, task>>
  BY DEF Import!ParseJob
<1>2. n \in Entry /\ NzbOk(n) BY <1>1, JobHolds
<1>3. Files(n) BY <1>1 DEF Files, ImportInv, Domains
<1>4. Queued(rec[n]) => Source(n)' BY <1>1, <1>2 DEF NzbOk, Source
<1>5. CASE Import!JobFails(n) BY <1>1, <1>3, <1>4, <1>5, NzbGivenUp
<1>6. CASE \E p \in {"save", "timer"} : job' = [job EXCEPT ![n] = p] /\ UNCHANGED <<rec, held>>
  <2>1. n \in Nzb => payload[n] # "parsed" BY <1>1, <1>2 DEF NzbOk
  <2> QED BY <1>1, <1>2, <1>6, <2>1, MoveOnly
<1>7. CASE Import!PutHeld(n, Import!MarkAsError(held[n])) /\ Import!JobDone(n)
  <2> DEFINE r == Import!MarkAsError(held[n])
  <2>1. Rec(held[n]) BY <1>2 DEF ImportInv, EntryOk, Open
  <2>2. Rec(r) /\ r.state = "error" BY <2>1, Edits
  <2> HIDE DEF r
  <2>3. RecPart(n) /\ rec'[n] = r /\ held'[n] = r BY <1>2, <1>7, Updated DEF r
  <2>4. JobPart(n) /\ job'[n] = "none" BY <1>2, <1>7, JobMoves DEF Import!JobDone
  <2>5. ~Queued(rec'[n]) BY <2>2, <2>3 DEF Queued
  <2>6. NzbOk(n)' BY <1>1, <2>4, <2>5, RunNzb DEF Late
  <2> QED BY <1>1, <1>3, <2>2, <2>3, <2>4, <2>6, NzbStep DEF Open
<1> QED BY <1>5, <1>6, <1>7 DEF Import!ParseJob, Import!JobAt

\* The .nzb comes before the header that names it.
LEMMA SaveJobKeeps ==
  ASSUME ImportInv, NEW n \in Nzb, Import!SaveJob(n)
  PROVE  ImportInv'
<1>1. /\ job[n] = "save" /\ Import!JobFrame /\ UNCHANGED <<rec, lib, staged, payload, held, task>>
  BY DEF Import!SaveJob
<1>2. n \in Entry /\ NzbOk(n) BY <1>1, JobHolds
<1>3. RecPart(n) /\ rec'[n] = rec[n] /\ held'[n] = held[n] /\ Rec(rec'[n]) /\ Open(held'[n])
  BY <1>1, <1>2, SameRec
<1>4. CASE raw' = raw \cup {n} /\ UNCHANGED <<header, job>>
  <2>1. Files(n) /\ JobPart(n) BY <1>1, <1>4 DEF Files, JobPart, ImportInv, Domains
  <2>2. (Queued(rec[n]) => Source(n))' BY <1>1, <1>2, <1>3, <1>4 DEF NzbOk, Source
  <2>3. NzbOk(n)' BY <1>1, <1>4, <2>2, RunNzb DEF Late
  <2> QED BY <1>1, <1>3, <2>1, <2>3, NzbStep
<1>5. CASE n \in raw /\ header' = [header EXCEPT ![n] = "parsing"] /\ Import!JobAt(n, "unstage") /\ UNCHANGED raw
  <2>1. Files(n) /\ header'[n] = "parsing" BY <1>1, <1>5 DEF Files, ImportInv, Domains
  <2>2. JobPart(n) /\ job'[n] = "unstage" BY <1>2, <1>5, JobMoves DEF Import!JobAt
  <2>3. Source(n)' BY <1>5, <2>1 DEF Source
  <2>4. NzbOk(n)' BY <1>1, <1>5, <2>1, <2>2, <2>3, RunNzb DEF Late
  <2> QED BY <1>1, <1>3, <2>1, <2>2, <2>4, NzbStep
<1> QED BY <1>4, <1>5 DEF Import!SaveJob

\* The staged file goes once the header names the .nzb.
LEMMA UnstageJobKeeps ==
  ASSUME ImportInv, NEW n \in Nzb, Import!UnstageJob(n)
  PROVE  ImportInv'
<1>1. /\ job[n] \in {"unstage", "update"} /\ Import!JobFrame
      /\ UNCHANGED <<lib, header, raw, payload, task>>
  BY DEF Import!UnstageJob
<1>2. n \in Entry /\ NzbOk(n) BY <1>1, JobHolds
<1>3. header[n] = "parsing" /\ n \in raw BY <1>1, <1>2 DEF NzbOk
<1>4. Source(n)' BY <1>1, <1>3 DEF Source
<1>5. CASE staged' = staged \ {n} /\ Import!JobAt(n, "update") /\ UNCHANGED <<rec, held>>
  <2>1. RecPart(n) /\ rec'[n] = rec[n] /\ held'[n] = held[n] /\ Rec(rec'[n]) /\ Open(held'[n])
    BY <1>2, <1>5, SameRec
  <2>2. JobPart(n) /\ job'[n] = "update" BY <1>2, <1>5, JobMoves DEF Import!JobAt
  <2>3. Files(n) BY <1>1, <1>5 DEF Files, ImportInv, Domains
  <2>4. NzbOk(n)' BY <1>1, <1>3, <1>4, <2>2, RunNzb DEF Late
  <2> QED BY <1>1, <2>1, <2>2, <2>3, <2>4, NzbStep
<1>6. CASE Import!PutHeld(n, Import!Parsed(held[n])) /\ Import!JobAt(n, "process") /\ UNCHANGED staged
  <2> DEFINE r == Import!Parsed(held[n])
  <2>1. Open(held[n]) BY <1>2 DEF ImportInv, EntryOk
  <2>2. Open(r) /\ ~Queued(r) BY <2>1, Edits DEF Open
  <2> HIDE DEF r
  <2>3. RecPart(n) /\ rec'[n] = r /\ held'[n] = r BY <1>2, <1>6, Updated DEF r
  <2>4. JobPart(n) /\ job'[n] = "process" BY <1>2, <1>6, JobMoves DEF Import!JobAt
  <2>5. Files(n) BY <1>1, <1>6 DEF Files, ImportInv, Domains
  <2>6. ~Queued(rec'[n]) /\ ~Queued(held'[n]) BY <2>2, <2>3
  <2>7. NzbOk(n)' BY <1>1, <2>4, <2>6, RunNzb
  <2> QED BY <1>1, <2>2, <2>3, <2>4, <2>5, <2>7, NzbStep DEF Open
<1> QED BY <1>5, <1>6 DEF Import!UnstageJob

\* Once the NZB is parsed its source may go: no record waits for it.
LEMMA ParsedStep ==
  ASSUME ImportInv, NEW n \in Nzb, Late(n), Import!JobFrame, job[n] # "none",
         UNCHANGED <<rec, lib, payload, held, task>>, Files(n),
         NEW p \in {"drop", "complete", "fill"}, Import!JobAt(n, p)
  PROVE  ImportInv'
<1>1. n \in Entry /\ NzbOk(n) BY JobHolds
<1>2. RecPart(n) /\ rec'[n] = rec[n] /\ held'[n] = held[n] /\ Rec(rec'[n]) /\ Open(held'[n])
  BY <1>1, SameRec
<1>3. JobPart(n) /\ job'[n] = p BY <1>1, JobMoves DEF Import!JobAt
<1>4. ~Queued(rec'[n]) /\ ~Queued(held'[n]) BY <1>1, <1>2 DEF NzbOk
<1>5. NzbOk(n)' BY <1>3, <1>4, RunNzb
<1> QED BY <1>2, <1>3, <1>5, NzbStep

\* A failure deletes the source of a record that is not queued any more.
LEMMA ProcessJobKeeps ==
  ASSUME ImportInv, NEW n \in Nzb, Import!ProcessJob(n)
  PROVE  ImportInv'
<1>1. /\ job[n] = "process" /\ Late(n) /\ Import!JobFrame /\ UNCHANGED <<lib, staged, payload, task>>
  BY DEF Import!ProcessJob, Late
<1>2. NzbOk(n) BY <1>1, JobHolds
<1>3. Files(n) BY DEF Import!ProcessJob, Files, ImportInv, Domains
<1>4. CASE Import!JobAt(n, "drop") /\ UNCHANGED <<rec, held>> BY <1>1, <1>3, <1>4, ParsedStep
<1>5. CASE Import!JobFails(n)
  <2>1. ~Queued(rec[n]) BY <1>1, <1>2 DEF NzbOk
  <2> QED BY <1>1, <1>3, <1>5, <2>1, NzbGivenUp
<1> QED BY <1>4, <1>5 DEF Import!ProcessJob

\* The source goes, then the header says completed.
LEMMA CompleteJobKeeps ==
  ASSUME ImportInv, NEW n \in Nzb, Import!CompleteJob(n)
  PROVE  ImportInv'
<1>1. /\ job[n] \in {"drop", "complete"} /\ Import!JobFrame /\ UNCHANGED <<rec, lib, staged, payload, held, task>>
  BY DEF Import!CompleteJob
<1>2. Late(n) BY <1>1 DEF Late
<1>3. Files(n) BY DEF Import!CompleteJob, Files, ImportInv, Domains
<1>4. \E p \in {"drop", "complete", "fill"} : Import!JobAt(n, p) BY DEF Import!CompleteJob
<1> QED BY <1>1, <1>2, <1>3, <1>4, ParsedStep

\* The import task starts with a copy that is not queued.
LEMMA FillJobKeeps ==
  ASSUME ImportInv, NEW n \in Nzb, Import!FillJob(n)
  PROVE  ImportInv'
<1>1. /\ job[n] = "fill" /\ Import!JobFrame /\ UNCHANGED <<lib, header, staged, raw, payload>>
      /\ Import!JobAt(n, "wait")
  BY DEF Import!FillJob
<1>2. n \in Entry /\ n \in added /\ NzbOk(n) BY <1>1, JobHolds
<1> DEFINE r == [held[n] EXCEPT !.progress = 1]
<1>3. Open(held[n]) /\ ~Queued(held[n]) BY <1>1, <1>2 DEF ImportInv, EntryOk, NzbOk, Late
<1>4. Open(r) /\ ~Queued(r) BY <1>3, FieldEdits DEF Open
<1>5. Import!PutHeld(n, r) /\ Import!StartTask(n, "act", r, FALSE) BY DEF Import!FillJob
<1> HIDE DEF r
<1>6. RecPart(n) /\ rec'[n] = r /\ held'[n] = r BY <1>2, <1>5, Updated
<1>7. JobPart(n) /\ job'[n] = "wait" BY <1>1, <1>2, JobMoves DEF Import!JobAt
<1>8. Files(n) BY <1>1 DEF Files, ImportInv, Domains
<1>9. TaskPart(n) /\ TasksOk(n)' BY <1>1, <1>2, <1>4, <1>5, MayStart DEF Import!JobFrame
<1>10. ~Queued(rec'[n]) BY <1>4, <1>6
<1>11. NzbOk(n)' BY <1>1, <1>7, <1>10, RunNzb DEF Late
<1> QED BY <1>1, <1>2, <1>4, <1>6, <1>7, <1>8, <1>9, <1>11, RunStep DEF Open

-----------------------------------------------------------------------------
(* Steps of the callers, the queue tick and the restore.                   *)

\* queue.Add or Update, then SubmitJob.
LEMMA Submitted ==
  ASSUME ImportInv, NEW e \in Entry, NEW what, NEW r, Import!Put(e, r), Import!Submit(e, what, r)
  PROVE  /\ RecPart(e) /\ rec'[e] = r /\ held'[e] = r
         /\ JobPart(e) /\ job'[e] = "pending"
         /\ DOMAIN payload' = Entry /\ payload'[e] = what
         /\ \A f \in Entry : f # e => payload'[f] = payload[f]
BY DEF ImportInv, Domains, RecPart, JobPart, Import!Put, Import!Submit

\* A new torrent.
LEMMA AddNewTorrentKeeps ==
  ASSUME ImportInv, NEW t \in Torrent, Import!AddNewTorrent(t)
  PROVE  ImportInv'
<1>1. t \in Entry /\ t \notin Nzb BY Constants
<1>2. /\ phase # "down" /\ added' = added \cup {t}
      /\ UNCHANGED <<lib, header, staged, raw, task, snapshot, phase, verified, dirty>>
  BY DEF Import!AddNewTorrent
<1>3. PICK what, r : Import!Put(t, r) /\ Import!Submit(t, what, r) /\ Open(r)
  <2>1. \A b : Open(Import!NewEntry(t, b)) BY Constants
  <2>2. ASSUME NEW b, NEW a PROVE Open(Import!ApplyDebrid(Import!NewEntry(t, b), a))
    <3> DEFINE x == Import!NewEntry(t, b)
    <3>1. Open(x) BY <2>1
    <3> HIDE DEF x
    <3>2. Open(Import!ApplyDebrid(x, a)) BY <3>1, FieldEdits DEF Open
    <3> QED BY <3>2 DEF x
  <2> QED BY <2>1, <2>2 DEF Import!AddNewTorrent
<1>4. /\ RecPart(t) /\ rec'[t] = r /\ held'[t] = r
      /\ JobPart(t) /\ DOMAIN payload' = Entry
      /\ \A f \in Entry : f # t => payload'[f] = payload[f]
  BY <1>1, <1>3, Submitted
<1>5. TaskPart(t) /\ TasksOk(t)' BY <1>1, <1>2, TasksStay
<1>6. About(t) BY <1>2, <1>4 DEF About, RecPart, JobPart, ImportInv, Domains
<1>7. Open(snapshot'[t]) BY <1>1, <1>2 DEF ImportInv, EntryOk
<1> QED BY <1>1, <1>2, <1>3, <1>4, <1>5, <1>6, <1>7, JobStep DEF Open

\* The staged file is there before the record.
LEMMA AddNewNZBKeeps ==
  ASSUME ImportInv, NEW n \in Nzb, Import!AddNewNZB(n)
  PROVE  ImportInv'
<1>1. n \in Entry /\ NzbOk(n) BY Constants DEF ImportInv, EntryOk
<1>2. /\ phase # "down" /\ n \notin added /\ added' = added \cup {n} /\ staged' = staged \cup {n}
      /\ UNCHANGED <<lib, header, raw, task, snapshot, phase, verified, dirty>>
  BY DEF Import!AddNewNZB
<1> DEFINE r == Import!NewEntry(n, FALSE)
<1>3. Import!Put(n, r) /\ Import!Submit(n, "new", r) /\ Open(r) BY Constants DEF Import!AddNewNZB
<1> HIDE DEF r
<1>4. /\ RecPart(n) /\ rec'[n] = r /\ held'[n] = r
      /\ JobPart(n) /\ job'[n] = "pending" /\ payload'[n] = "new" /\ DOMAIN payload' = Entry
      /\ \A f \in Entry : f # n => payload'[f] = payload[f]
  BY <1>1, <1>3, Submitted
<1>5. TaskPart(n) /\ TasksOk(n)' BY <1>1, <1>2, TasksStay
<1>6. About(n) BY <1>2, <1>4 DEF About, RecPart, JobPart, ImportInv, Domains
<1>7. Open(snapshot'[n]) BY <1>1, <1>2 DEF ImportInv, EntryOk
<1>8. snapshot'[n] = Absent BY <1>1, <1>2 DEF NzbOk
<1>9. NzbOk(n)'
  <2>1. n \in added' /\ n \in staged' BY <1>2
  <2>2. Absent' = Absent BY DEF Absent, Import!Absent
  <2> QED BY <1>4, <1>8, <2>1, <2>2 DEF NzbOk, Source, Late
<1> QED BY <1>1, <1>2, <1>3, <1>4, <1>5, <1>6, <1>7, <1>9, JobStep DEF Open

\* The record goes; whatever works on a copy of it may bring it back.
LEMMA DeleteKeeps ==
  ASSUME ImportInv, NEW e \in Entry, Import!DeleteRecord(e) \/ Import!DeleteStalled(e)
  PROVE  ImportInv'
<1>1. /\ phase # "down" /\ rec' = [rec EXCEPT ![e] = Absent]
      /\ UNCHANGED <<lib, header, staged, raw, added, job, payload, held, task, snapshot, phase, verified, dirty>>
  BY DEF Import!DeleteRecord, Import!DeleteStalled, Import!Put, Import!volatile, Absent
<1>2. rec'[e] = Absent /\ About(e) BY <1>1 DEF About, ImportInv, Domains
<1>3. TaskPart(e) /\ TasksOk(e)' BY <1>1, TasksStay
<1>4. Open(Absent) /\ Absent' = Absent /\ ~Queued(rec'[e])
  BY <1>2, Constants DEF Absent, Import!Absent
<1>5. Open(held'[e]) /\ Open(snapshot'[e]) BY <1>1 DEF ImportInv, EntryOk
<1>6. ASSUME e \in Nzb PROVE NzbOk(e)'
  <2>1. NzbOk(e) BY <1>6 DEF ImportInv, EntryOk
  <2>2. /\ (Queued(snapshot[e]) => Source(e))'
        /\ (Late(e) => ~Queued(held[e]))'
    BY <1>1, <2>1 DEF NzbOk, Source, Late, Queued
  <2>3. /\ (rec[e] # Absent => e \in added)' /\ (Queued(rec[e]) => Source(e))'
        /\ (Late(e) => ~Queued(rec[e]))'
    BY <1>2, <1>4
  <2>4. /\ (snapshot[e] # Absent => job[e] = "none" /\ e \in added)'
        /\ (job[e] # "none" => e \in added)'
        /\ (job[e] \in {"unstage", "update"} => header[e] = "parsing" /\ e \in raw)'
        /\ (job[e] \in {"timer", "parse"} => payload[e] # "parsed")'
    BY <1>1, <1>4, <2>1 DEF NzbOk
  <2> QED BY <2>2, <2>3, <2>4 DEF NzbOk
<1> QED BY <1>1, <1>2, <1>3, <1>4, <1>5, <1>6, JobStep DEF Open

\* The tick starts a task on a record that is not queued.
LEMMA TickKeeps ==
  ASSUME ImportInv, NEW e \in Entry, Import!Tick(e)
  PROVE  ImportInv'
<1>1. /\ phase = "run" /\ rec[e].state = "down" /\ rec[e].status # "queued"
      /\ UNCHANGED <<rec, lib, header, staged, raw, added, job, payload, held, snapshot, phase, verified, dirty>>
  BY DEF Import!Tick, Import!Active, Import!TaskFrame
<1>2. PICK p \in {"check", "header", "act"} :
        \E i \in Task : task' = [task EXCEPT ![e][i] = [at |-> p, copy |-> rec[e], owner |-> TRUE]]
  BY <1>1 DEF Import!Tick, Import!StartTask
<1>3. Rec(rec[e]) /\ Open(rec[e]) /\ ~Queued(rec[e]) BY <1>1 DEF ImportInv, EntryOk, Open, Queued
<1>4. e \in Nzb => e \in added
  <2>1. rec[e] # Absent BY <1>1 DEF Absent, Import!Absent
  <2> QED BY <2>1 DEF ImportInv, EntryOk, NzbOk
<1>5. Grow(e) BY <1>1 DEF Grow
<1>6. TaskPart(e) /\ TasksOk(e)' BY <1>2, <1>3, <1>4, <1>5, Started DEF TaskPart
<1>7. About(e) BY <1>1 DEF About, ImportInv, Domains
<1>8. e \in Nzb => NzbOk(e)'
  BY <1>1 DEF ImportInv, EntryOk, NzbOk, Source, Late, Queued, Absent, Import!Absent
<1>9. Open(held'[e]) /\ Open(snapshot'[e]) /\ rec'[e] = rec[e]
  BY <1>1 DEF ImportInv, EntryOk
<1> QED BY <1>1, <1>3, <1>6, <1>7, <1>8, <1>9, JobStep

\* A step of the restore: the copy listed at the start is used up.
LEMMA RestoreStep ==
  ASSUME ImportInv, NEW e \in Entry, phase # "down", RecPart(e), JobPart(e),
         DOMAIN payload' = Entry, \A f \in Entry : f # e => payload'[f] = payload[f],
         snapshot' = [snapshot EXCEPT ![e] = Absent],
         UNCHANGED <<lib, header, staged, raw, added, task, phase, verified, dirty>>,
         Rec(rec'[e]), rec'[e].state # "done" \/ rec'[e] = rec[e], Open(held'[e]),
         e \in Nzb => /\ e \in added
                      /\ (Queued(rec'[e]) => Source(e))
                      /\ job'[e] \in {"none", "pending"}
                      /\ (Late(e)' => ~Queued(held'[e]) /\ ~Queued(rec'[e]))
  PROVE  ImportInv'
<1>1. snapshot'[e] = Absent BY DEF ImportInv, Domains
<1>2. About(e) BY DEF About, RecPart, JobPart, ImportInv, Domains
<1>3. TaskPart(e) /\ TasksOk(e)' BY TasksStay
<1>4. Absent' = Absent /\ Open(Absent) /\ ~Queued(snapshot'[e]) BY <1>1, Constants DEF Absent, Import!Absent
<1>5. ASSUME e \in Nzb PROVE NzbOk(e)'
  <2>1. Source(e)' <=> Source(e) BY DEF Source
  <2> QED BY <1>1, <1>4, <1>5, <2>1 DEF NzbOk
<1> QED BY <1>1, <1>2, <1>3, <1>4, <1>5, JobStep

\* The restore puts a copy back or rebuilds the job.
LEMMA RestoreKeeps ==
  ASSUME ImportInv, NEW e \in Entry, Import!Restore(e)
  PROVE  ImportInv'
<1>1. /\ phase # "down" /\ snapshot[e] # Absent /\ snapshot' = [snapshot EXCEPT ![e] = Absent]
      /\ UNCHANGED <<lib, header, staged, raw, added, task, phase, verified, dirty>>
  BY DEF Import!Restore, Absent
<1> DEFINE c == snapshot[e]
           r == [c EXCEPT !.busy = FALSE]
<1>2. Open(c) /\ Rec(rec[e]) /\ Open(held[e]) BY DEF ImportInv, EntryOk
<1>3. /\ Open(r) /\ (Queued(r) <=> Queued(c))
      /\ (r.state = "down" /\ r.status = "queued" => Queued(r))
  BY <1>2, FieldEdits DEF Open, Queued
<1>4. ASSUME e \in Nzb
      PROVE  /\ e \in added /\ job[e] = "none"
             /\ (Queued(c) => Source(e))
             /\ (Queued(rec[e]) => Source(e))
  BY <1>1, <1>4 DEF ImportInv, EntryOk, NzbOk
<1>5. CASE /\ r.status # "queued"
           /\ (Import!Put(e, r) \/ UNCHANGED rec)
           /\ UNCHANGED <<job, payload, held>>
  <2>1. JobPart(e) /\ RecPart(e) /\ DOMAIN payload' = Entry
    BY <1>5 DEF JobPart, RecPart, Import!Put, ImportInv, Domains
  <2>2. rec'[e] = r \/ rec'[e] = rec[e] BY <1>5 DEF Import!Put, ImportInv, Domains
  <2>3. ~Queued(r) BY <1>5 DEF Queued
  <2>4. Rec(rec'[e]) /\ (rec'[e].state # "done" \/ rec'[e] = rec[e]) BY <1>2, <1>3, <2>2 DEF Open
  <2>5. e \in Nzb => (Queued(rec'[e]) => Source(e)) BY <1>4, <2>2, <2>3
  <2>6. Open(held'[e]) /\ (e \in Nzb => job'[e] = "none") BY <1>2, <1>4, <1>5
  <2>7. e \in Nzb => ~Late(e)' BY <2>6 DEF Late
  <2> QED BY <1>1, <1>4, <1>5, <2>1, <2>4, <2>5, <2>6, <2>7, RestoreStep
<1>6. ASSUME NEW q, NEW what, Import!Put(e, q), Import!Submit(e, what, q), Open(q),
             e \in Nzb => /\ (Queued(q) => Source(e))
                          /\ (what = "parsed" => ~Queued(q))
      PROVE  ImportInv'
  <2>1. /\ RecPart(e) /\ rec'[e] = q /\ held'[e] = q
        /\ JobPart(e) /\ job'[e] = "pending"
        /\ DOMAIN payload' = Entry /\ payload'[e] = what
        /\ \A f \in Entry : f # e => payload'[f] = payload[f]
    BY <1>6, Submitted
  <2>2. e \in Nzb => (Late(e)' => ~Queued(held'[e]) /\ ~Queued(rec'[e])) BY <1>6, <2>1 DEF Late
  <2> QED BY <1>1, <1>4, <1>6, <2>1, <2>2, RestoreStep DEF Open
<1>7. CASE e \in Nzb /\ Import!Put(e, Import!MarkAsError(r)) /\ UNCHANGED <<job, payload, held>>
  <2> DEFINE q == Import!MarkAsError(r)
  <2>1. Rec(q) /\ q.state = "error" BY <1>3, Edits DEF Open
  <2> HIDE DEF q
  <2>2. rec' = [rec EXCEPT ![e] = q] BY <1>7 DEF Import!Put, q
  <2>3. JobPart(e) /\ RecPart(e) /\ DOMAIN payload' = Entry /\ rec'[e] = q
    BY <1>7, <2>2 DEF JobPart, RecPart, ImportInv, Domains
  <2>4. ~Queued(rec'[e]) /\ job'[e] = "none" BY <1>4, <1>7, <2>1, <2>3 DEF Queued
  <2>5. ~Late(e)' BY <2>4 DEF Late
  <2>6. Open(held'[e]) BY <1>2, <1>7
  <2> QED BY <1>1, <1>4, <1>7, <2>1, <2>3, <2>4, <2>5, <2>6, RestoreStep
<1>8. CASE e \in Torrent /\ Import!RebuildTorrent(e, r)
  <2>1. e \notin Nzb BY <1>8, Constants
  <2> HIDE DEF r
  <2> QED BY <1>3, <1>6, <1>8, <2>1 DEF Import!RebuildTorrent
<1>9. CASE e \in Nzb /\ Import!RebuildNZB(e, r) /\ (r.status = "queued" \/ Import!NzbNeedsReprocessing(e))
  <2>1. Open(Import!Parsed(r)) /\ ~Queued(Import!Parsed(r)) BY <1>3, Edits DEF Open
  <2>2. CASE Import!Put(e, Import!Parsed(r)) /\ Import!Submit(e, "parsed", Import!Parsed(r))
    BY <1>6, <2>1, <2>2
  <2>3. CASE /\ ~Import!HeaderHasPath(e)
             /\ Import!Put(e, [r EXCEPT !.status = "queued"])
             /\ Import!Submit(e, "new", [r EXCEPT !.status = "queued"])
    <3> DEFINE q == [r EXCEPT !.status = "queued"]
    <3>1. r.status = "queued" BY <1>9, <2>3 DEF Import!HeaderHasPath, Import!NzbNeedsReprocessing
    <3>2. Open(q) /\ q.state = r.state BY <1>3, FieldEdits DEF Open
    <3>3. Queued(q) => Source(e) BY <1>3, <1>4, <1>9, <3>1, <3>2 DEF Queued
    <3> HIDE DEF q
    <3>4. Import!Put(e, q) /\ Import!Submit(e, "new", q) BY <2>3 DEF q
    <3> QED BY <1>6, <3>2, <3>3, <3>4
  <2> HIDE DEF r
  <2> QED BY <1>7, <1>9, <2>2, <2>3 DEF Import!RebuildNZB
<1>10. \/ /\ r.status # "queued"
          /\ (Import!Put(e, r) \/ UNCHANGED rec)
          /\ UNCHANGED <<job, payload, held>>
       \/ e \in Torrent /\ Import!RebuildTorrent(e, r)
       \/ e \in Nzb /\ Import!RebuildNZB(e, r) /\ (r.status = "queued" \/ Import!NzbNeedsReprocessing(e))
  <2>1. e \in Torrent \/ e \in Nzb BY DEF Entry, Import!Entry
  <2> QED BY <2>1 DEF Import!Restore
<1> HIDE DEF r
<1> QED BY <1>5, <1>8, <1>9, <1>10

-----------------------------------------------------------------------------
(* Stop, crash, restart, and steps the invariant does not speak of.        *)

\* StopDownloads, the provider, and stuttering.
LEMMA OthersKeep ==
  ASSUME ImportInv,
         \/ Import!Stop
         \/ \E t \in Torrent : Import!RemoteMoves(t)
         \/ UNCHANGED Import!vars
  PROVE  ImportInv'
<1>1. /\ UNCHANGED <<rec, lib, header, staged, raw, added, job, payload, held, task, snapshot, verified, dirty>>
      /\ (phase' = "down" => phase = "down")
  BY DEF Import!Stop, Import!RemoteMoves, Import!vars, Import!durable, Import!volatile
<1>2. \A e \in Entry : EntryOk(e)'
  <2>1. \A e \in Entry : SameAt(e) BY <1>1 DEF SameAt
  <2> QED BY <2>1, SameEntry DEF ImportInv
<1>3. Domains' /\ Down' BY <1>1 DEF ImportInv, Domains, Down, Entry
<1>4. Entry' = Entry BY DEF Entry
<1> QED BY <1>2, <1>3, <1>4 DEF ImportInv

\* What the process kept in memory is gone: the records on disk stand alone.
LEMMA ForgetKeeps ==
  ASSUME ImportInv, Import!Halt \/ Import!Crash
  PROVE  ImportInv'
<1>1. /\ UNCHANGED <<rec, lib, header, staged, raw, added, verified, dirty>>
      /\ job' = [e \in Entry |-> "none"] /\ payload' = [e \in Entry |-> "new"]
      /\ held' = [e \in Entry |-> Absent] /\ snapshot' = [e \in Entry |-> Absent]
      /\ task' = [e \in Entry |-> [i \in Task |-> Idle]]
  BY DEF Import!Halt, Import!Crash, Import!Forget, Import!durable, Entry, Absent, Idle
<1>2. Domains' /\ Down' /\ Entry' = Entry /\ Absent' = Absent
  BY <1>1 DEF ImportInv, Domains, Down, Entry, Absent, Import!Absent
<1>3. ASSUME NEW e \in Entry PROVE EntryOk(e)'
  <2>1. /\ job'[e] = "none" /\ held'[e] = Absent /\ snapshot'[e] = Absent /\ rec'[e] = rec[e]
        /\ DOMAIN task'[e] = Task /\ \A i \in Task : task'[e][i] = Idle
    BY <1>1
  <2>2. \A i \in Task : TaskOk(e, i)' BY <2>1 DEF TaskOk, Idle, Import!Idle
  <2>3. /\ Rec(rec'[e]) /\ Open(held'[e]) /\ Open(snapshot'[e]) /\ ~Queued(snapshot'[e])
        /\ (rec[e].state = "done" => lib[e] # "absent" /\ e \in verified \cup dirty)'
    BY <1>1, <2>1, Constants DEF ImportInv, EntryOk
  <2>4. ASSUME e \in Nzb PROVE NzbOk(e)'
    <3>1. NzbOk(e) BY <2>4 DEF ImportInv, EntryOk
    <3>2. (Queued(rec[e]) => Source(e))' BY <1>1, <3>1 DEF NzbOk, Source
    <3>3. (rec[e] # Absent => e \in added)' BY <1>1, <1>2, <3>1 DEF NzbOk
    <3> QED BY <1>2, <2>1, <2>3, <3>2, <3>3 DEF NzbOk, Late
  <2> QED BY <2>1, <2>2, <2>3, <2>4 DEF EntryOk
<1> QED BY <1>2, <1>3 DEF ImportInv

\* The copies restore makes at the start are the records themselves.
LEMMA StartKeeps ==
  ASSUME ImportInv, Import!Start
  PROVE  ImportInv'
<1>1. /\ UNCHANGED <<rec, lib, header, staged, raw, added, job, payload, held, task, verified, dirty>>
      /\ phase = "down" /\ phase' = "run"
      /\ snapshot' = [e \in Entry |-> IF rec[e].state = "down" THEN rec[e] ELSE Absent]
  BY DEF Import!Start, Import!durable, Import!Active, Entry, Absent
<1>2. Domains' /\ Down' /\ Entry' = Entry /\ Absent' = Absent
  BY <1>1 DEF ImportInv, Domains, Down, Entry, Absent, Import!Absent
<1>3. ASSUME NEW e \in Entry PROVE EntryOk(e)'
  <2>1. snapshot'[e] = Absent \/ (snapshot'[e] = rec[e] /\ rec[e].state = "down") BY <1>1
  <2>2. job[e] = "none" BY <1>1 DEF ImportInv, Down
  <2>3. Rec(rec[e]) /\ Open(held[e]) /\ Open(Absent) /\ ~Queued(Absent)
    BY Constants DEF ImportInv, EntryOk
  <2>4. Open(snapshot'[e]) BY <2>1, <2>3 DEF Open
  <2>5. TasksOk(e)'
    <3>1. Grow(e) BY <1>1 DEF Grow
    <3> QED BY <1>1, <3>1, TasksKept
  <2>6. (rec[e].state = "done" => lib[e] # "absent" /\ e \in verified \cup dirty)'
    BY <1>1 DEF ImportInv, EntryOk
  <2>7. ASSUME e \in Nzb PROVE NzbOk(e)'
    <3>1. NzbOk(e) BY <2>7 DEF ImportInv, EntryOk
    <3>2. (Queued(rec[e]) => Source(e))' /\ (Queued(snapshot[e]) => Source(e))'
      BY <1>1, <2>1, <2>3, <3>1 DEF NzbOk, Source
    <3>3. (rec[e] # Absent => e \in added)' /\ (snapshot[e] # Absent => e \in added)'
      BY <1>1, <1>2, <2>1, <3>1 DEF NzbOk
    <3> QED BY <1>1, <2>2, <3>2, <3>3 DEF NzbOk, Late
  <2> QED BY <1>1, <2>3, <2>4, <2>5, <2>6, <2>7 DEF EntryOk, TasksOk
<1> QED BY <1>2, <1>3 DEF ImportInv

\* The invariant holds initially.
LEMMA ImportInit == Import!Init => ImportInv
<1> SUFFICES ASSUME Import!Init PROVE ImportInv OBVIOUS
<1>1. Domains /\ Down
  BY DEF Import!Init, Domains, Down, Entry
<1>2. ASSUME NEW e \in Entry PROVE EntryOk(e)
  <2>1. /\ rec[e] = Absent /\ held[e] = Absent /\ snapshot[e] = Absent /\ job[e] = "none"
        /\ DOMAIN task[e] = Task /\ \A i \in Task : task[e][i] = Idle
    BY DEF Import!Init, Entry, Absent, Idle
  <2>2. \A i \in Task : TaskOk(e, i) BY <2>1 DEF TaskOk
  <2>3. Open(Absent) /\ ~Queued(Absent) /\ Absent.state # "done"
    BY Constants DEF Absent, Import!Absent
  <2>4. e \in Nzb => NzbOk(e) BY <2>1, <2>3 DEF NzbOk, Late
  <2> QED BY <2>1, <2>2, <2>3, <2>4 DEF EntryOk, Open
<1> QED BY <1>1, <1>2 DEF ImportInv

\* Every step preserves it.
LEMMA ImportNext == ImportInv /\ [Import!Next]_(Import!vars) => ImportInv'
<1> SUFFICES ASSUME ImportInv, [Import!Next]_(Import!vars) PROVE ImportInv' OBVIOUS
<1>1. CASE UNCHANGED Import!vars \/ Import!Stop BY <1>1, OthersKeep
<1>2. CASE Import!Halt \/ Import!Crash BY <1>2, ForgetKeeps
<1>3. CASE Import!Start BY <1>3, StartKeeps
<1>4. ASSUME NEW t \in Torrent,
             Import!AddNewTorrent(t) \/ Import!RemoteMoves(t) \/ Import!ResumeJob(t) \/ Import!SendJob(t)
      PROVE  ImportInv'
  BY <1>4, AddNewTorrentKeeps, OthersKeep, ResumeJobKeeps, SendJobKeeps
<1>5. ASSUME NEW n \in Nzb,
             \/ Import!AddNewNZB(n) \/ Import!ParseJob(n) \/ Import!SaveJob(n) \/ Import!UnstageJob(n)
             \/ Import!ProcessJob(n) \/ Import!CompleteJob(n) \/ Import!FillJob(n)
      PROVE  ImportInv'
  BY <1>5, AddNewNZBKeeps, ParseJobKeeps, SaveJobKeeps, UnstageJobKeeps, ProcessJobKeeps,
     CompleteJobKeeps, FillJobKeeps
<1>6. ASSUME NEW e \in Entry,
             \/ Import!TakeJob(e) \/ Import!RetryFires(e) \/ Import!WaitJob(e) \/ Import!Tick(e)
             \/ Import!Restore(e) \/ Import!DeleteRecord(e) \/ Import!DeleteStalled(e)
      PROVE  ImportInv'
  BY <1>6, TakeJobKeeps, RetryFiresKeeps, WaitJobKeeps, TickKeeps, RestoreKeeps, DeleteKeeps
<1>7. ASSUME NEW e \in Entry, NEW i \in Task,
             \/ e \in Torrent /\ Import!CheckTorrent(e, i)
             \/ e \in Nzb /\ Import!CheckNZB(e, i)
             \/ Import!ActTask(e, i) \/ Import!StoreTask(e, i) \/ Import!FlagTask(e, i)
             \/ Import!LinkTask(e, i) \/ Import!GateTask(e, i) \/ Import!ReportTask(e, i)
      PROVE  ImportInv'
  BY <1>7, CheckTorrentKeeps, CheckNZBKeeps, ActTaskKeeps, StoreTaskKeeps, FlagTaskKeeps,
     LinkTaskKeeps, GateTaskKeeps, ReportTaskKeeps
<1> QED BY <1>1, <1>2, <1>3, <1>4, <1>5, <1>6, <1>7 DEF Import!Next, Entry

\* A record that says queued finds its NZB, whatever task, job, deletion,
\* crash or restart put that record last: the staged file goes only when the
\* .nzb and the header that names it are stored, and those only when no copy
\* of the record says queued any more (usenet.go, active_queue.go).
THEOREM SourcesStay == Import!Spec => []SourceIsKept
<1>1. ImportInv => SourceIsKept BY ImportInvImplies DEF SourceIsKept
<1> QED BY <1>1, ImportInit, ImportNext, PTL DEF Import!Spec

\* What the Arr is told is complete is in the main storage and was probed, or
\* is marked for the next sweep, through every overlap of tasks that write
\* the same record and every stop between two of completeEntry's steps
\* (downloader.go, processor.go).
THEOREM CompleteIsChecked == Import!Spec => []ReportedIsChecked
<1>1. ImportInv => ReportedIsChecked BY ImportInvImplies DEF ReportedIsChecked
<1> QED BY <1>1, ImportInit, ImportNext, PTL DEF Import!Spec
=============================================================================
