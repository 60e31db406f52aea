--------------------------- MODULE MCRepairSweep ---------------------------
(***************************************************************************)
(* Four releases of one film: the one in the library, the same posting     *)
(* downloaded again, a second posting under the same title, and one under  *)
(* another title.                                                          *)
(***************************************************************************)
EXTENDS Integers

CONSTANTS Rel, TitleOf, PostOf, MaxAttempts, MaxRestarts, Scenes

VARIABLES
  acting, kind, shelf, item, streams, arr, importing, used, health, claim, spent, guard, cooldown,
  active, record, ctx, run, th, owed, promised, life, restarts, struck

Sweep == INSTANCE RepairSweep

ASSUME SweepAssumption == Sweep!SweepAssumption

MCTitleOf == [r \in 1 .. 4 |-> IF r = 4 THEN "other" ELSE "title"]
MCPostOf == [r \in 1 .. 4 |-> IF r = 2 THEN 1 ELSE r]
Scene(who, a, b, c) ==
  [cast |-> who, kind |-> [r \in 1 .. 4 |-> IF r <= 2 THEN a ELSE IF r = 3 THEN b ELSE c]]

MCScenes ==
  { Scene({"sweep", "stream", "crash"}, "lost", "good", "good"),
    Scene({"sweep", "gate", "time"}, "lost", "lost", "lost"),
    Scene({"sweep", "gate", "crash"}, "lost", "lost", "lost"),
    Scene({"sweep", "gate", "managed"}, "lost", "lost", "lost"),
    Scene({"sweep", "router", "crash"}, "lost", "lost", "lost"),
    Scene({"sweep", "router", "par2"}, "par2", "lost", "lost"),
    Scene({"media", "arrdown", "stop"}, "lost", "lost", "good"),
    Scene({"sweep", "arrdown", "gate"}, "lost", "lost", "good"),
    Scene({"sweep", "fix", "report", "pack", "arrdown"}, "wrong", "lost", "good"),
    Scene({"sweep", "fix", "manual", "report", "cleanup"}, "lost", "good", "good"),
    Scene({"recheck", "manual", "cleanup"}, "lost", "good", "good"),
    Scene({"sweep", "superseded", "manual", "report"}, "lost", "good", "good"),
    Scene({"sweep", "time"}, "wrong", "good", "good"),
    Scene({"sweep", "par2", "time"}, "lost", "good", "good"),
    Scene({"sweep", "clear", "report", "stop"}, "lost", "good", "good"),
    Scene({"sweep", "schedule", "par2"}, "lost", "lost", "good"),
    Scene({"sweep", "manual", "superseded", "cleanup", "report"}, "lost", "wrong", "good"),
    Scene({"sweep", "manual"}, "failed", "lost", "good"),
    Scene({"sweep", "replace", "reset"}, "short", "short", "good"),
    Scene({"recheck", "flaky"}, "link", "lost", "good"),
    Scene({"recheck", "stream"}, "lost", "wrong", "good"),
    Scene({"sweep", "schedule"}, "link", "lost", "good") }

SweepSpec == Sweep!Spec

\* One film costs at most MaxAttempts automatic re-grabs of different titles in
\* a window, whoever asks and across restarts (regrab_guard.go).
GuardBounds == Sweep!GuardBounds

\* A delete deferred to a viewer is carried out, in this process or the next
\* (repair_idle_delete.go, resumeIdleDeletes).
PromisedIsDeleted == Sweep!PromisedIsDeleted

\* A release nothing can mend leaves the library, unless the guard has shut
\* (repair_sweep.go).
LostIsReplaced == Sweep!LostIsReplaced
=============================================================================
