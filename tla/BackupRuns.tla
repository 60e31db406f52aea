----------------------------- MODULE BackupRuns -----------------------------
(***************************************************************************)
(* When backup runs happen: the one-at-a-time claim of the service, the    *)
(* schedules and quiet hours that fire jobs and the check, the queue that  *)
(* keeps runs which found the service busy and runs a shutdown             *)
(* interrupted (written to backup-queue.json at every change, so it        *)
(* outlives the process), and kick, which starts the next queued run when  *)
(* the claim is released.                                                  *)
(***************************************************************************)
EXTENDS Naturals, Sequences, SequencesExt

CONSTANTS Recurring,    \* the job whose schedule fires again and again
          Items,        \* every job and the check
          Check,        \* the check
          MaxAttempts,  \* maxRunAttempts
          MaxFires,     \* how often another schedule fires
          MaxEnds       \* how often the process ends

VARIABLES claim,     \* runningJob: an item, "pre" or "none"
          queue,     \* queued runs: [item, attempts, manual]
          running,   \* the run being written to the file, or NoItem
          todo,      \* runs claimed and not begun: [item, attempts, manual], or NoItem
          firing,    \* items whose fire found the service busy and has not queued yet
          kicks,     \* kick goroutines to run
          chosen,    \* what a kick read from the queue, or NoItem
          deferred,  \* jobs waiting, in memory, for the quiet hours to end
          timer,     \* kickTimer is set
          quiet,     \* it is quiet hours
          enabled,   \* jobs enabled in the configuration
          life,      \* "up", "stopping", "down"
          stop,      \* StopRun asked for
          fires, ends,
          owed       \* items whose run was due and has come to no end yet

runvars == <<claim, queue, running, todo, firing, kicks, chosen, deferred, timer,
             quiet, enabled, life, stop, fires, ends, owed>>

Run(i, n, manual) == [item |-> i, attempts |-> n, manual |-> manual]
NoItem == Run("none", 0, FALSE)

InitRuns ==
  /\ claim = "none" /\ queue = <<>> /\ running = NoItem /\ todo = NoItem /\ firing = {}
  /\ kicks = 0 /\ chosen = NoItem /\ deferred = {} /\ timer = FALSE
  /\ quiet \in BOOLEAN /\ enabled = Items /\ life = "up" /\ stop = FALSE
  /\ fires = 0 /\ ends = 0 /\ owed = {}

Without(q, i) == SelectSeq(q, LAMBDA r : r.item # i)
Queued(q, i) == \E k \in DOMAIN q : q[k].item = i

Kicked == IF kicks < 2 THEN kicks + 1 ELSE kicks

(* enqueue keeps one entry for an item. *)
Enqueued(i) == IF Queued(queue, i) THEN queue ELSE Append(queue, Run(i, 0, FALSE))

-----------------------------------------------------------------------------
(* A schedule fires.  A job's fire in quiet hours waits in memory, once;   *)
(* the check's goes to the queue, whose kick arms the timer.  Between two  *)
(* fires of the recurring schedule lie hours: a kick is not overtaken by   *)
(* it.                                                                     *)
Due(i) == /\ life = "up" /\ i \in enabled
          /\ IF i = Recurring THEN kicks = 0 ELSE fires < MaxFires
          /\ fires' = IF i = Recurring THEN fires ELSE fires + 1

Begin(r) == claim' = r.item /\ todo' = r

Fire(i) ==
  /\ Due(i) /\ ~quiet /\ i \notin firing
  /\ owed' = owed \cup {i}
  /\ IF claim = "none" THEN Begin(Run(i, 0, FALSE)) /\ UNCHANGED firing
     ELSE firing' = firing \cup {i} /\ UNCHANGED <<claim, todo>>
  /\ UNCHANGED <<queue, running, kicks, chosen, deferred, timer, quiet, enabled, life, stop, ends>>

FireQuiet(i) ==
  /\ Due(i) /\ quiet
  /\ IF i = Check
     THEN queue' = Enqueued(i) /\ owed' = owed \cup {i} /\ kicks' = Kicked /\ UNCHANGED deferred
     ELSE deferred' = deferred \cup {i} /\ UNCHANGED <<queue, owed, kicks>>
  /\ UNCHANGED <<claim, running, todo, firing, chosen, timer, quiet, enabled, life, stop, ends>>

(* RunJob and RunCheck: a user's run starts at once, quiet hours or not,   *)
(* and is refused when the service is busy.                                *)
RunNow(i) ==
  /\ life = "up" /\ claim = "none" /\ fires < MaxFires
  /\ fires' = fires + 1 /\ owed' = owed \cup {i}
  /\ Begin(Run(i, 0, TRUE))
  /\ UNCHANGED <<queue, running, firing, kicks, chosen, deferred, timer, quiet, enabled, life, stop, ends>>

(* The deferred fire, when the quiet hours end. *)
FireDeferred(i) ==
  /\ life = "up" /\ ~quiet /\ i \in deferred
  /\ deferred' = deferred \ {i} /\ owed' = owed \cup {i}
  /\ IF claim = "none" THEN Begin(Run(i, 0, FALSE)) /\ UNCHANGED firing
     ELSE firing' = firing \cup {i} /\ UNCHANGED <<claim, todo>>
  /\ UNCHANGED <<queue, running, kicks, chosen, timer, quiet, enabled, life, stop, fires, ends>>

(* The fire that found the service busy queues its run.  It kicks nobody:  *)
(* the release of the claim that was in the way does.                      *)
Enqueue(i) ==
  /\ i \in firing
  /\ firing' = firing \ {i}
  /\ queue' = Enqueued(i)
  /\ UNCHANGED <<claim, running, todo, kicks, chosen, deferred, timer, quiet, enabled, life, stop,
                 fires, ends, owed>>

(* A pre-action snapshot or a delete takes the same claim. *)
ClaimOther ==
  /\ life = "up" /\ claim = "none" /\ fires < MaxFires
  /\ claim' = "pre" /\ fires' = fires + 1
  /\ UNCHANGED <<queue, running, todo, firing, kicks, chosen, deferred, timer, quiet, enabled, life,
                 stop, ends, owed>>

-----------------------------------------------------------------------------
(* The claim given back, and nobody woken. *)
ReleaseSilently == claim' = "none" /\ UNCHANGED kicks

(* release gives the claim back and starts a kick. *)
Release == claim' = "none" /\ kicks' = Kicked

ReleaseOther ==
  /\ claim = "pre" /\ Release
  /\ UNCHANGED <<queue, running, todo, firing, chosen, deferred, timer, quiet, enabled, life, stop,
                 fires, ends, owed>>

(* runJob and runCheck write themselves down as running, taking the item   *)
(* out of the queue, with one attempt more.                                *)
MarkRunning ==
  /\ todo # NoItem
  /\ running' = [todo EXCEPT !.attempts = @ + 1]
  /\ queue' = Without(queue, todo.item)
  /\ todo' = NoItem /\ stop' = FALSE
  /\ UNCHANGED <<claim, firing, kicks, chosen, deferred, timer, quiet, enabled, life, fires, ends, owed>>

(* The run ends with a result, an error, or because a user stopped it. *)
RunEnds ==
  /\ running # NoItem /\ claim = running.item /\ todo = NoItem
  /\ owed' = owed \ {running.item}
  /\ running' = NoItem /\ stop' = FALSE
  /\ Release
  /\ UNCHANGED <<queue, todo, firing, chosen, deferred, timer, quiet, enabled, life, fires, ends>>

(* A run the shutdown cancelled returns without clearing what is on file.  *)
RunInterrupted ==
  /\ life = "stopping" /\ ~stop
  /\ running # NoItem /\ claim = running.item /\ todo = NoItem
  /\ Release
  /\ UNCHANGED <<queue, running, todo, firing, chosen, deferred, timer, quiet, enabled, life, stop,
                 fires, ends, owed>>

StopRun ==
  /\ life = "up" /\ running # NoItem /\ claim = running.item /\ ~stop
  /\ stop' = TRUE
  /\ UNCHANGED <<claim, queue, running, todo, firing, kicks, chosen, deferred, timer, quiet, enabled,
                 life, fires, ends, owed>>

-----------------------------------------------------------------------------
(* kick.  nextQueued drops entries of jobs that are gone or disabled and   *)
(* reads the first that remains, which stays in the queue until it runs.   *)
KickTake ==
  /\ kicks > 0 /\ chosen = NoItem
  /\ IF life # "up" THEN kicks' = kicks - 1 /\ UNCHANGED <<queue, chosen, timer, owed>>
     ELSE LET k == {j \in DOMAIN queue : queue[j].item \in enabled \/ queue[j].manual}
              q == IF k = {} THEN <<>>
                   ELSE SubSeq(queue, CHOOSE j \in k : \A l \in k : j <= l, Len(queue))
          IN /\ queue' = q
             /\ owed' = owed \ {i \in Items : Queued(queue, i) /\ ~Queued(q, i)}
             /\ IF q = <<>> THEN kicks' = kicks - 1 /\ UNCHANGED <<chosen, timer>>
                ELSE IF quiet /\ ~q[1].manual THEN kicks' = kicks - 1 /\ timer' = TRUE /\ UNCHANGED chosen
                ELSE chosen' = q[1] /\ UNCHANGED <<kicks, timer>>
  /\ UNCHANGED <<claim, running, todo, firing, deferred, quiet, enabled, life, stop, fires, ends>>

(* A kick that finds the claim taken returns: the next release kicks. *)
KickClaim ==
  /\ chosen # NoItem /\ claim = "none"
  /\ Begin(chosen)
  /\ chosen' = NoItem /\ kicks' = kicks - 1
  /\ UNCHANGED <<queue, running, firing, deferred, timer, quiet, enabled, life, stop, fires, ends, owed>>

KickBusy ==
  /\ chosen # NoItem /\ claim # "none"
  /\ chosen' = NoItem /\ kicks' = kicks - 1
  /\ UNCHANGED <<claim, queue, running, todo, firing, deferred, timer, quiet, enabled, life, stop,
                 fires, ends, owed>>

KickTimer ==
  /\ timer /\ ~quiet /\ life = "up"
  /\ timer' = FALSE /\ kicks' = Kicked
  /\ UNCHANGED <<claim, queue, running, todo, firing, chosen, deferred, quiet, enabled, life, stop,
                 fires, ends, owed>>

-----------------------------------------------------------------------------
(* Stop cancels the context and waits a while for the run; then, or at any *)
(* moment by a crash, the process is gone with all it had in memory.       *)
Stop ==
  /\ life = "up" /\ ends < MaxEnds
  /\ life' = "stopping" /\ timer' = FALSE
  /\ UNCHANGED <<claim, queue, running, todo, firing, kicks, chosen, deferred, quiet, enabled, stop,
                 fires, ends, owed>>

Exit ==
  /\ life = "stopping" \/ (life = "up" /\ ends < MaxEnds)
  /\ life' = "down" /\ ends' = ends + 1
  /\ claim' = "none" /\ todo' = NoItem /\ firing' = {} /\ kicks' = 0 /\ chosen' = NoItem
  /\ deferred' = {} /\ timer' = FALSE /\ stop' = FALSE
  \* What was neither queued nor written down as running is not owed by anyone.
  /\ owed' = {i \in owed : Queued(queue, i) \/ running.item = i}
  /\ UNCHANGED <<queue, running, quiet, enabled, fires>>

(* recoverQueue puts the interrupted run first, unless it was interrupted  *)
(* too often; the first kick comes after resumeDelay.                      *)
Start ==
  /\ life = "down"
  /\ life' = "up" /\ kicks' = 1
  /\ running' = NoItem
  /\ LET giveUp == running.attempts >= MaxAttempts
     IN /\ queue' = IF running = NoItem \/ giveUp THEN queue
                    ELSE <<running>> \o Without(queue, running.item)
        /\ owed' = IF running # NoItem /\ giveUp THEN owed \ {running.item} ELSE owed
  /\ UNCHANGED <<claim, todo, firing, chosen, deferred, timer, quiet, enabled, stop, fires, ends>>

QuietEnds ==
  /\ quiet /\ quiet' = FALSE
  /\ UNCHANGED <<claim, queue, running, todo, firing, kicks, chosen, deferred, timer, enabled, life,
                 stop, fires, ends, owed>>

(* A job is disabled in the settings: its queued run is dropped. *)
Disable(i) ==
  /\ i \in enabled /\ i # Recurring /\ fires < MaxFires /\ fires' = fires + 1
  /\ enabled' = enabled \ {i}
  /\ UNCHANGED <<claim, queue, running, todo, firing, kicks, chosen, deferred, timer, quiet, life, stop,
                 ends, owed>>

NextRuns ==
  \/ \E i \in Items : Fire(i) \/ FireQuiet(i) \/ FireDeferred(i) \/ RunNow(i) \/ Enqueue(i) \/ Disable(i)
  \/ ClaimOther \/ ReleaseOther \/ MarkRunning \/ RunEnds \/ RunInterrupted \/ StopRun
  \/ KickTake \/ KickClaim \/ KickBusy \/ KickTimer
  \/ Stop \/ Exit \/ Start \/ QuietEnds

(* Goroutines run, quiet hours end, a process that ended is started again, *)
(* the recurring schedule keeps firing.                                    *)
FairRuns ==
  /\ WF_runvars(Fire(Recurring)) /\ WF_runvars(KickClaim)
  /\ \A i \in Items : WF_runvars(Enqueue(i))
  /\ WF_runvars(ReleaseOther) /\ WF_runvars(MarkRunning) /\ WF_runvars(RunEnds)
  /\ WF_runvars(KickTake) /\ WF_runvars(KickBusy) /\ WF_runvars(KickTimer)
  /\ WF_runvars(Exit /\ life = "stopping") /\ WF_runvars(Start) /\ WF_runvars(QuietEnds)

SpecRuns == InitRuns /\ [][NextRuns]_runvars /\ FairRuns

-----------------------------------------------------------------------------
(* A run that was due and found the service busy, waited for the end of    *)
(* the quiet hours in the queue, or was interrupted by the end of the      *)
(* process, comes to an end: it runs, or it is dropped because its job was *)
(* disabled or it was interrupted MaxAttempts times.  No run is left in    *)
(* the queue for ever while the service is idle.                           *)
OwedIsPaid == \A i \in Items \ {Recurring} : []<>(i \notin owed)
=============================================================================
