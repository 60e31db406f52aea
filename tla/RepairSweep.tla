---------------------------- MODULE RepairSweep ----------------------------
(***************************************************************************)
(* How decypharr finds a release that no longer plays and has the Arr      *)
(* replace it: the repair sweep and the runs a user starts                 *)
(* (pkg/manager/repair.go, repair_sweep.go, unverified.go), the playback   *)
(* router, the import gates' re-grab, the guard that bounds automatic      *)
(* re-grabs (regrab_guard.go), supersession (supersession.go), sticky      *)
(* verdicts (sticky_failed.go), and the deletes that wait for a viewer     *)
(* (repair_idle_delete.go), over the health records of pkg/storage.        *)
(*                                                                         *)
(* Every release is one video file of one film, in the entry (the folder)  *)
(* of its title; a title of Pack holds another, healthy file as well.  A   *)
(* thread reads a health record once and later writes its whole copy back; *)
(* the Arr is asked over the network.  A step ends at such a read or       *)
(* write, which is where the other threads come in.                        *)
(***************************************************************************)
EXTENDS Integers, FiniteSets

CONSTANTS
  Rel,          \* releases the Arr can grab, 1 .. n; the first is imported
  TitleOf,      \* the entry a release is stored in
  PostOf,       \* the posting behind a release: two downloads of one
                \* posting are two releases
  MaxAttempts,  \* regrabGuardMaxAttempts
  MaxRestarts,  \* bound on restarts
  Scenes        \* bound: what the releases are, who acts and with which
                \* settings in one behaviour

Title == {TitleOf[r] : r \in Rel}
Posting == {PostOf[r] : r \in Rel}
Actors == {"sweep", "media", "fix", "clear", "superseded", "replace", "recheck", "router",
           "manual", "gate", "par2", "stop", "schedule", "reset", "stream", "time", "crash",
           "arrdown", "flaky"}
\* managed: repair.source is managed, not arr.  report: repair.auto_repair is
\* off.  cleanup: repair.cleanup_superseded.  pack: the first title's entry
\* holds more than the film.
Settings == {"managed", "report", "cleanup", "pack"}
\* good: plays.  par2: articles are gone, PAR2 can mend it.  lost: it cannot.
\* wrong: assembled wrong at import.  short: assembled wrong, still plays.
\* failed: the overlay says Failed, its articles answer.  link: a torrent
\* whose hoster dropped it.
Kinds == {"good", "par2", "lost", "wrong", "short", "failed", "link"}

\* What the proofs need of the constants.
SweepAssumption ==
  /\ Rel \subseteq Nat \ {0} /\ 1 \in Rel
  /\ DOMAIN TitleOf = Rel /\ DOMAIN PostOf = Rel
  /\ MaxAttempts \in Nat \ {0} /\ MaxRestarts \in Nat
  /\ \A s \in Scenes : s.cast \subseteq Actors \cup Settings /\ s.kind \in [Rel -> Kinds]

VARIABLES
  acting,    \* who acts, and the settings; never changed
  kind,      \* what each release is
  shelf,     \* stored entries
  item,      \* entry items: the release behind a title's file, 0 for none
  streams,   \* releases a client is streaming
  arr,       \* the Arr: its file row, its latest grab, its blocklist
             \* (postings), and whether it is looking for the film
  importing, \* the grab decypharr is importing, 0 for none
  used,      \* releases grabbed so far
  health,    \* EntryHealth of a title
  claim,     \* the handler registry's claim on a release
  spent,     \* releases whose Par2RepairState is terminal
  guard,     \* regrabGuard: the record of an identity
  cooldown,  \* lastPlaybackRepair: titles inside playbackRepairCooldown
  active,    \* activeRunID: the kind of run it names, or ""
  record,    \* status of the latest RepairRun
  ctx,       \* the run's context: "live", "cancelled", or "stopped" when the
             \* stop schedule cancelled it
  run,       \* what the run's goroutine keeps
  th,        \* per thread: where it is and its local copies
  owed,      \* idleDeletes: releases awaitIdleDelete waits for
  promised,  \* PendingDelete records
  life,      \* "up", "stopping" or "down"
  restarts,
  struck     \* history: titles re-grabbed automatically in this window

media == <<kind, streams, arr, importing, used>>
store == <<shelf, item, health, owed, promised>>
control == <<active, record, ctx, run>>
memory == <<claim, spent, guard, cooldown>>
vars == <<acting, media, store, control, memory, th, life, restarts, struck>>

Thread == {"run", "recheck", "router", "gate", "replace"}
Pack == IF "pack" \in acting THEN {TitleOf[1]} ELSE {}
Managed == active = "sweep" /\ "managed" \in acting
NoBad == [rel |-> 0, why |-> "none", row |-> 0]
NoHealth == [status |-> "none", bad |-> NoBad, dirty |-> FALSE, by |-> "", prev |-> "none",
             fresh |-> FALSE, short |-> FALSE]
\* mine is the record a probe works on, h the one a heal works on.
NoThread == [at |-> "idle", title |-> TitleOf[1], rel |-> 0, row |-> 0, mine |-> NoHealth,
             h |-> NoHealth, res |-> "none", grab |-> 0, then |-> "end", fix |-> FALSE,
             auto |-> FALSE, was |-> "none"]
NoRun == [todo |-> {}, names |-> {}, snap |-> 0, row |-> 0, refs |-> [t \in Title |-> -1],
          batch |-> [t \in Title |-> NoHealth], healed |-> {}, fix |-> FALSE,
          last |-> FALSE]
Identity == {"film"} \cup Title
Fresh == [strikes |-> 0, recent |-> {}, shut |-> FALSE, kept |-> [p \in Posting |-> 0]]

Init ==
  /\ \E s \in Scenes : acting = s.cast /\ kind = s.kind
  /\ shelf = {1} /\ streams = {} /\ importing = 0 /\ used = {1}
  /\ item = [t \in Title |-> IF t = TitleOf[1] THEN 1 ELSE 0]
  /\ arr = [row |-> 1, grab |-> 1, blocked |-> {}, wanted |-> FALSE]
  /\ health = [t \in Title |-> NoHealth]
  /\ claim = [r \in Rel |-> "none"] /\ spent = {}
  /\ guard = [i \in Identity |-> Fresh] /\ cooldown = {}
  /\ active = "" /\ record = "none" /\ ctx = "live" /\ run = NoRun
  /\ th = [t \in Thread |-> NoThread]
  /\ owed = {} /\ promised = {} /\ life = "up" /\ restarts = 0 /\ struck = {}

-----------------------------------------------------------------------------
(* Storage: entry items and health records (pkg/storage).                  *)

Stored(t) == item[t] # 0 \/ t \in Pack

IsDue(h) == h.dirty \/ ~h.fresh \/ h.status # "healthy"

\* MarkEntryDirty: a record is made when there is none.
Dirtied(h) == [h EXCEPT !.dirty = TRUE, !.status = IF @ = "none" THEN "unknown" ELSE @]

\* storage.Delete of the entries gone, seen by the records hs: the last
\* file of an item takes the health record with it.
HealthAfter(hs, gone) ==
  [t \in Title |-> IF item[t] = 0 \/ item[t] \notin gone THEN hs[t]
                   ELSE IF t \in Pack THEN Dirtied(hs[t]) ELSE NoHealth]
ItemAfter(gone) == [t \in Title |-> IF item[t] \in gone THEN 0 ELSE item[t]]

\* As DeleteWhenIdle, but nobody waits for the viewer.
DeleteWhenIdleForgotten(R) ==
  /\ shelf' = shelf \ (R \ streams) /\ item' = ItemAfter(R \ streams)
  /\ promised' = promised \cup (R \cap streams) /\ UNCHANGED owed

\* deleteEntryWhenIdle for each of R: at once when nobody streams it, else
\* promised on disk and left to awaitIdleDelete.
DeleteWhenIdle(R) ==
  /\ shelf' = shelf \ (R \ streams)
  /\ item' = ItemAfter(R \ streams)
  /\ owed' = owed \cup (R \cap streams)
  /\ promised' = promised \cup ((R \cap streams) \ owed)

AwaitIdleDelete(r) ==
  /\ life = "up" /\ r \in owed
  /\ r \notin streams
  /\ shelf' = shelf \ {r} /\ item' = ItemAfter({r})
  /\ health' = HealthAfter(health, {r})
  /\ owed' = owed \ {r} /\ promised' = promised \ {r}
  /\ UNCHANGED <<acting, media, control, memory, th, life, restarts, struck>>

-----------------------------------------------------------------------------
(* The Arr and the importer (external), viewers, PAR2 passes and time.     *)

\* What the Arr's library points into: buildArrReferencedSet asks it for
\* its rows and looks their files up in the entry items.
Referenced ==
  [t \in Title |-> IF arr.row # 0 /\ TitleOf[arr.row] = t /\ Stored(t) THEN item[t] ELSE 0]

\* The Arr looks for the film and grabs a posting it has not blocklisted.
Grab(r) ==
  /\ life = "up" /\ arr.wanted /\ importing = 0
  /\ r \in Rel \ used /\ PostOf[r] \notin arr.blocked
  /\ arr' = [arr EXCEPT !.grab = r]
  /\ importing' = r /\ used' = used \cup {r}
  /\ UNCHANGED <<acting, kind, streams, store, control, memory, th, life, restarts, struck>>

\* The import lands: updateEntryItem puts the newer file in the item and
\* marks the title dirty, the Arr's row is the new file.
Import ==
  LET r == importing
      t == TitleOf[r]
  IN  /\ life = "up" /\ r # 0 /\ th["gate"].at = "idle"
      /\ shelf' = shelf \cup {r}
      /\ item' = [item EXCEPT ![t] = r]
      /\ health' = [health EXCEPT ![t] = Dirtied(@)]
      /\ arr' = [arr EXCEPT !.row = r, !.wanted = FALSE]
      /\ importing' = 0
      /\ UNCHANGED <<acting, kind, streams, used, owed, promised, control, memory, th, life, restarts, struck>>

Stream(r) ==
  /\ life = "up" /\ "stream" \in acting /\ r \in shelf \ streams
  /\ streams' = streams \cup {r}
  /\ UNCHANGED <<acting, kind, arr, importing, used, store, control, memory, th, life, restarts, struck>>

StopStream(r) ==
  /\ life = "up" /\ r \in streams
  /\ streams' = streams \ {r}
  /\ UNCHANGED <<acting, kind, arr, importing, used, store, control, memory, th, life, restarts, struck>>

\* An automatic PAR2 pass takes the entry, and ends: Par2Lanes has its steps.
Par2Pass(r) ==
  /\ life = "up" /\ "par2" \in acting
  /\ \/ /\ claim[r] = "none" /\ r \in shelf \ spent /\ kind[r] \in {"par2", "lost"}
        /\ claim' = [claim EXCEPT ![r] = "par2"]
        /\ UNCHANGED <<kind, spent>>
     \/ /\ claim[r] = "par2" /\ kind[r] # "lost"
        /\ claim' = [claim EXCEPT ![r] = "none"]
        /\ kind' = [kind EXCEPT ![r] = "good"]
        /\ UNCHANGED spent
     \/ /\ claim[r] = "par2" /\ kind[r] = "lost"
        /\ spent' = spent \cup {r}
        /\ claim' = [claim EXCEPT ![r] = "terminal"]
        /\ UNCHANGED kind
  /\ UNCHANGED <<acting, streams, arr, importing, used, store, control, guard, cooldown, th, life, restarts, struck>>

\* Two minutes end a cooldown and the guard's memory of a release; half an
\* hour a claim nobody holds (reapIfStaleLocked); a day the guard's window
\* and the recheck interval; a week its terminal mark.
Passes(span) ==
  /\ life = "up" /\ "time" \in acting
  /\ cooldown' = {}
  /\ claim' = [r \in Rel |-> IF span # "minutes" /\ claim[r] = "regrab"
                                /\ \A t \in Thread : th[t].at = "idle" THEN "none" ELSE claim[r]]
  /\ guard' = [i \in Identity |->
                 [guard[i] EXCEPT !.recent = {},
                                  !.strikes = IF span \in {"day", "week"} THEN 0 ELSE @,
                                  !.shut = IF span = "week" THEN FALSE ELSE @]]
  /\ struck' = IF span \in {"day", "week"} THEN {} ELSE struck
  /\ health' = IF span \in {"day", "week"} THEN [t \in Title |-> [health[t] EXCEPT !.fresh = FALSE]]
               ELSE health
  /\ UNCHANGED <<acting, media, shelf, item, owed, promised, control, spent, th, life, restarts>>

-----------------------------------------------------------------------------
(* The guard on automatic re-grabs.                                        *)

\* regrabIdentityKey: the Arr's media when the file's row is known.
IdentityOf(title, row) == IF row # 0 THEN "film" ELSE title

\* checkAndRecord: a tripped guard refuses, a title struck minutes ago is
\* let through uncounted, and the strike after the last one trips it.
CheckAndRecord(i, title) ==
  LET g == guard[i]
  IN  IF g.shut THEN [verdict |-> "shut", next |-> g]
      ELSE IF title \in g.recent THEN [verdict |-> "allowed", next |-> g]
      ELSE IF g.strikes >= MaxAttempts THEN [verdict |-> "trips", next |-> [g EXCEPT !.shut = TRUE]]
      ELSE [verdict |-> "allowed",
            next |-> [g EXCEPT !.strikes = @ + 1, !.recent = @ \cup {title}]]

\* keepReleaseRepeated: this posting was re-grabbed away from before, as
\* another download, and came back.
KeepReleaseRepeated(i, r) == guard[i].kept[PostOf[r]] \notin {0, r}

\* As Attach, but the records are not read back.
AttachEmpty == guard' = [i \in Identity |-> Fresh]

\* attach, at start: the persisted records, without what has expired.
Attach == guard' = [i \in Identity |-> [guard[i] EXCEPT !.recent = {}]]

-----------------------------------------------------------------------------
(* Probing one entry: probeEntry, step by step.  T is the run's worker or  *)
(* a recheck's goroutine.                                                  *)

\* A sweep's last pass runs on the process's context (detachedRepairContext).
Cancelled(T) == life = "stopping" \/ (T = "run" /\ ctx # "live" /\ ~run.last)
AutoOn(T) == IF T = "run" THEN run.fix ELSE th[T].fix
Go(T, place) == th' = [th EXCEPT ![T].at = place]

\* The record is marked as being repaired before anything is read.
Begin(T) ==
  LET t == th[T].title
      h == [health[t] EXCEPT !.prev = health[t].status, !.status = "repairing", !.by = T]
  IN  /\ th[T].at = "begin"
      /\ health' = [health EXCEPT ![t] = h]
      /\ th' = [th EXCEPT ![T] = [@ EXCEPT !.at = "judge", !.mine = h]]
      /\ UNCHANGED <<acting, media, shelf, item, owed, promised, control, memory, life, restarts, struck>>

\* fileSuperseded against the reference set the run built earlier.
Superseded(refs, t, r) == refs[t] # -1 /\ refs[t] # r

\* As RouteAutoRepair, but a pass that gave up keeps its claim.
RouteUnclaimedOnly(T, r) ==
  /\ claim' = IF claim[r] = "none" THEN [claim EXCEPT ![r] = "regrab"] ELSE claim
  /\ th' = [th EXCEPT ![T] = [@ EXCEPT !.at = "record", !.res = IF claim[r] = "none" THEN "dead" ELSE "none"]]

\* routeAutoRepair: the claim is taken, or taken over from a pass that gave
\* up; otherwise the file is left to whoever has it.
RouteAutoRepair(T, r) ==
  IF claim[r] = "none" \/ r \in spent
  THEN /\ claim' = [claim EXCEPT ![r] = "regrab"]
       /\ th' = [th EXCEPT ![T] = [@ EXCEPT !.at = "record", !.res = "dead"]]
  ELSE /\ th' = [th EXCEPT ![T] = [@ EXCEPT !.at = "record", !.res = "none"]]
       /\ UNCHANGED claim

\* probeTorrentFile, and autoHealResults: a torrent the hoster dropped is
\* re-inserted when repair is on.
ProbeTorrentFile(T, r) ==
  /\ kind[r] = "link"
  /\ \/ AutoOn(T) /\ kind' = [kind EXCEPT ![r] = "good"]
        /\ th' = [th EXCEPT ![T] = [@ EXCEPT !.at = "record", !.res = "ok"]]
     \/ UNCHANGED kind /\ th' = [th EXCEPT ![T] = [@ EXCEPT !.at = "record", !.res = "gone"]]
  /\ UNCHANGED claim

\* reconcileStickyFailed: a damage sample clears the verdict, or has the
\* file re-grabbed from inside the probe, which then calls it unknown.
ReconcileStickyFailed(T, r) ==
  /\ kind[r] = "failed"
  /\ \/ kind' = [kind EXCEPT ![r] = "good"]
        /\ th' = [th EXCEPT ![T] = [@ EXCEPT !.at = "record", !.res = "ok"]]
     \/ UNCHANGED kind
        /\ th' = [th EXCEPT ![T] = [@ EXCEPT !.at = "cool", !.res = "none", !.auto = TRUE, !.then = "record"]]
  /\ UNCHANGED claim

\* probeFile: supersession, a stop, an entry that is gone, then what the
\* servers, the import geometry or the hoster say.
Judge(T) ==
  LET r == th[T].rel
      Says(res) == th' = [th EXCEPT ![T] = [@ EXCEPT !.at = "record", !.res = res]] /\ UNCHANGED claim
  IN  /\ th[T].at = "judge"
      /\ IF T = "run" /\ Superseded(run.refs, th[T].title, r) THEN Says("none") /\ UNCHANGED kind
         ELSE IF Cancelled(T) THEN Says("cut") /\ UNCHANGED kind
         ELSE IF r \notin shelf THEN Says("none") /\ UNCHANGED kind
         ELSE \/ "flaky" \in acting /\ Says("none") /\ UNCHANGED kind
              \/ kind[r] \in {"good", "short", "failed"} /\ Says("ok") /\ UNCHANGED kind
              \/ kind[r] = "wrong" /\ Says("wrong") /\ UNCHANGED kind
              \/ kind[r] \in {"par2", "lost"} /\ RouteAutoRepair(T, r) /\ UNCHANGED kind
              \/ ProbeTorrentFile(T, r)
              \/ ReconcileStickyFailed(T, r)
      /\ UNCHANGED <<acting, streams, arr, importing, used, store, control, spent, guard, cooldown,
                     life, restarts, struck>>

\* probeEntry's tail.  A probe cut short puts the earlier status back and
\* marks the entry dirty; any other verdict clears the dirty flag.
Record(T) ==
  LET t == th[T].title
      l == th[T]
      cut == l.res = "cut"
      bad == IF l.res \in {"dead", "wrong", "gone"} THEN [rel |-> l.rel, why |-> l.res, row |-> l.row]
             ELSE NoBad
      h == IF cut THEN [l.mine EXCEPT !.status = l.mine.prev, !.prev = "none", !.by = "", !.dirty = TRUE]
           ELSE [l.mine EXCEPT !.status = IF bad # NoBad THEN "broken" ELSE IF l.res = "ok" THEN "healthy" ELSE "unknown",
                            !.bad = bad, !.dirty = FALSE, !.by = "", !.prev = "none", !.fresh = TRUE,
                            !.short = l.res = "ok" /\ kind[l.rel] = "short"]
  IN  /\ l.at = "record"
      /\ health' = [health EXCEPT ![t] = h]
      /\ th' = [th EXCEPT ![T] = [@ EXCEPT !.mine = h, !.h = h, !.then = "release",
                                   !.at = IF bad = NoBad THEN "end"
                                          ELSE IF ~AutoOn(T) THEN "release"
                                          ELSE IF T = "run" THEN "guard" ELSE "mend"]]
      /\ UNCHANGED <<acting, media, shelf, item, owed, promised, control, memory, life, restarts, struck>>

-----------------------------------------------------------------------------
(* Healing one entry: what a broken file leads to.                         *)

\* markRegrabGuardTripped on the copy in hand.
Tripped(h) == [h EXCEPT !.status = "broken", !.fresh = TRUE]

\* healBrokenEntryGuarded, the automatic way in: not under a viewer, not a
\* second time for a posting that came back as bad, not past the guard.
HealGuarded(T) ==
  LET h == th[T].h
      i == IdentityOf(th[T].title, h.bad.row)
      keep == h.bad.why = "wrong"
      check == CheckAndRecord(i, th[T].title)
      Refuse(hs) == health' = hs /\ Go(T, th[T].then)
  IN  /\ th[T].at = "guard"
      /\ IF h.bad.rel \in streams THEN Refuse(health) /\ UNCHANGED <<guard, struck>>
         ELSE IF keep /\ KeepReleaseRepeated(i, h.bad.rel)
         THEN Refuse([health EXCEPT ![th[T].title] = Tripped(h)]) /\ UNCHANGED <<guard, struck>>
         ELSE IF check.verdict # "allowed"
         THEN /\ guard' = [guard EXCEPT ![i] = check.next]
              /\ Refuse(IF check.verdict = "trips" THEN [health EXCEPT ![th[T].title] = Tripped(h)] ELSE health)
              /\ UNCHANGED struck
         ELSE /\ guard' = [guard EXCEPT ![i] = IF keep THEN [check.next EXCEPT !.kept[PostOf[h.bad.rel]] = h.bad.rel]
                                                ELSE check.next]
              /\ struck' = IF i = "film" THEN struck \cup {th[T].title} ELSE struck
              /\ Go(T, "mend")
              /\ UNCHANGED health
      /\ UNCHANGED <<acting, media, shelf, item, owed, promised, control, claim, spent, cooldown, life, restarts>>

\* healBrokenEntry: damage is put to a PAR2 pass first; what remains needs
\* a row of the Arr to be replaced.
Mend(T) ==
  LET h == th[T].h
      t == th[T].title
      mended == [h EXCEPT !.status = "healthy", !.bad = NoBad]
  IN  /\ th[T].at = "mend"
      /\ IF h.status # "broken" THEN Go(T, th[T].then) /\ UNCHANGED <<kind, health, claim>>
         ELSE \/ /\ h.bad.why = "dead" /\ h.bad.rel \in shelf /\ kind[h.bad.rel] = "par2"
                 /\ kind' = [kind EXCEPT ![h.bad.rel] = "good"]
                 /\ claim' = [claim EXCEPT ![h.bad.rel] = "none"]
                 /\ health' = [health EXCEPT ![t] = mended]
                 /\ th' = [th EXCEPT ![T] = [@ EXCEPT !.h = mended, !.at = th[T].then]]
              \/ /\ Go(T, IF h.bad.row = 0 THEN th[T].then ELSE "ask")
                 /\ UNCHANGED <<kind, health, claim>>
      /\ UNCHANGED <<acting, streams, arr, importing, used, shelf, item, owed, promised, control, spent, guard,
                     cooldown, life, restarts, struck>>

\* repairArrFiles, first half: the film's latest grab is looked up.
FindGrab(T) ==
  /\ th[T].at = "ask"
  /\ IF Cancelled(T) THEN Go(T, th[T].then)
     ELSE \E g \in {arr.grab} \cup (IF "arrdown" \in acting THEN {0} ELSE {}) :
            th' = [th EXCEPT ![T] = [@ EXCEPT !.at = "drop", !.grab = g]]
  /\ UNCHANGED <<acting, media, store, control, memory, life, restarts, struck>>

\* The Arr deletes the row it was asked about, if that is still its row.
DeleteFiles(T) ==
  /\ th[T].at = "drop"
  /\ Go(T, "block")
  /\ \/ ~Cancelled(T) /\ arr' = [arr EXCEPT !.row = IF @ = th[T].h.bad.row THEN 0 ELSE @]
     \/ (Cancelled(T) \/ "arrdown" \in acting) /\ UNCHANGED arr
  /\ UNCHANGED <<acting, kind, streams, importing, used, store, control, memory, life, restarts, struck>>

\* MarkHistoryFailed blocklists the grab and has the Arr search again; a
\* file with no grab, or whose posting is fine, is searched for instead.
\* The Arr searches only for a film it has no file for.
Research(T) ==
  LET block == th[T].grab # 0 /\ th[T].h.bad.why # "wrong"
  IN  /\ th[T].at = "block"
      /\ Go(T, "finish")
      /\ \/ /\ ~Cancelled(T)
            /\ arr' = [arr EXCEPT !.blocked = IF block THEN @ \cup {PostOf[th[T].grab]} ELSE @,
                                  !.wanted = @ \/ arr.row = 0]
         \/ (Cancelled(T) \/ "arrdown" \in acting) /\ UNCHANGED arr
      /\ UNCHANGED <<acting, kind, streams, importing, used, store, control, memory, life, restarts, struck>>

\* markBrokenHealthCleared: an item that is gone takes the record with it;
\* otherwise the copy in hand loses its broken files too.
Cleared(h) == [h EXCEPT !.status = "unknown", !.bad = NoBad, !.dirty = FALSE]

\* finalizeEntryRepair: an entry that is broken as a whole goes, whatever
\* the Arr answered; any other one, and one whose posting is fine, is kept.
FinishRepair(T) ==
  LET t == th[T].title
      h == th[T].h
      r == h.bad.rel
      gone == {r} \ streams
      whole == t \notin Pack /\ h.bad.why # "wrong"
      hs == HealthAfter(health, gone)
  IN  /\ th[T].at = "finish"
      /\ IF ~whole
         THEN /\ health' = [health EXCEPT ![t] = h]
              /\ Go(T, th[T].then)
              /\ UNCHANGED <<shelf, item, owed, promised>>
         ELSE /\ DeleteWhenIdle({r})
              /\ IF item'[t] = 0
                 THEN /\ health' = [hs EXCEPT ![t] = NoHealth]
                      /\ Go(T, th[T].then)
                 ELSE /\ health' = [hs EXCEPT ![t] = Cleared(h)]
                      /\ th' = [th EXCEPT ![T] = [@ EXCEPT !.h = Cleared(h), !.at = th[T].then]]
      /\ UNCHANGED <<acting, media, control, memory, life, restarts, struck>>

\* releaseRegrabClaims over the files the copy in hand still calls broken.
ReleaseClaims(T) ==
  LET r == th[T].h.bad.rel
  IN  /\ th[T].at = "release" /\ T \in {"run", "recheck"}
      /\ claim' = IF r # 0 /\ claim[r] = "regrab" THEN [claim EXCEPT ![r] = "none"] ELSE claim
      /\ run' = IF T = "run" /\ AutoOn(T) THEN [run EXCEPT !.healed = @ \cup {th[T].title}] ELSE run
      /\ Go(T, "end")
      /\ UNCHANGED <<acting, media, store, active, record, ctx, spent, guard, cooldown, life, restarts, struck>>

-----------------------------------------------------------------------------
(* Runs: at most one at a time holds activeRunID.                          *)

Owner(t) == IF arr.row # 0 /\ TitleOf[arr.row] = t THEN arr.row ELSE 0
Free == life = "up" /\ active = ""

Launch(k, place, r) ==
  /\ active' = k /\ ctx' = "live"
  /\ record' = IF k = "superseded" THEN record ELSE "running"
  /\ run' = r
  /\ th' = [th EXCEPT !["run"] = [NoThread EXCEPT !.at = place]]

\* runSweep and RecheckMedia.
StartSweep(k) ==
  /\ Free /\ k \in acting /\ k \in {"sweep", "media"}
  /\ \E fix \in IF k = "sweep" THEN {"report" \notin acting} ELSE BOOLEAN :
       Launch(k, "select", [NoRun EXCEPT !.fix = fix])
  /\ UNCHANGED <<acting, media, store, memory, life, restarts, struck>>

\* collectBrokenHealths: the broken records of some titles, as they are now.
Broken(names) == [t \in Title |-> IF t \in names /\ health[t].status = "broken" THEN health[t] ELSE NoHealth]
InBatch == {t \in Title : run.batch[t] # NoHealth}

\* FixBroken and ClearBroken collect before they take the run.
StartBatch(k) ==
  /\ Free /\ k \in acting /\ k \in {"fix", "clear"}
  /\ Broken(Title) # NoRun.batch
  /\ Launch(k, IF k = "fix" THEN "resolve" ELSE "clear", [NoRun EXCEPT !.batch = Broken(Title)])
  /\ UNCHANGED <<acting, media, store, memory, life, restarts, struck>>

\* ClearSuperseded holds activeRunID and writes no run record.
StartClearSuperseded ==
  /\ Free /\ "superseded" \in acting
  /\ Launch("superseded", "refs", NoRun)
  /\ UNCHANGED <<acting, media, store, memory, life, restarts, struck>>

\* collectArrMediaCandidates, mergeCandidates, eligibleArrs: an entry the
\* Arr's row points to.
ArrCandidate(t) == Stored(t) /\ Owner(t) # 0

\* enumerateCandidates: a managed sweep looks at every entry, an Arr sweep and
\* a media recheck at what the Arr knows.
Candidates == {t \in Title : IF Managed THEN Stored(t) ELSE ArrCandidate(t)}

\* filterDueCandidates; the order they are taken in is left open.
DueCandidates == {t \in Candidates : active = "media" \/ IsDue(health[t])}

\* The run selects its candidates; an Arr sweep reads item and row now.
Select ==
  /\ th["run"].at = "select"
  /\ IF Cancelled("run") THEN Go("run", "final") /\ UNCHANGED run
     ELSE /\ run' = [run EXCEPT !.todo = DueCandidates, !.names = DueCandidates,
                                !.snap = IF Managed \/ arr.row = 0 THEN 0 ELSE item[TitleOf[arr.row]],
                                !.row = IF Managed THEN 0 ELSE arr.row]
          /\ Go("run", "refs")
  /\ UNCHANGED <<acting, media, store, active, record, ctx, memory, life, restarts, struck>>

\* classifySupersession and applySupersession for the titles in D: their
\* broken record goes, and with it, when asked, the entry.
ClearRecords(D, refs) ==
  LET stale == {item[t] : t \in D} \ ({0} \cup {refs[t] : t \in D})
      hs == [t \in Title |-> IF t \in D THEN NoHealth ELSE health[t]]
  IN  IF "cleanup" \in acting
      THEN DeleteWhenIdle(stale) /\ health' = HealthAfter(hs, stale \ streams)
      ELSE health' = hs /\ UNCHANGED <<shelf, item, owed, promised>>

Stale(refs, names) ==
  {t \in names : health[t].status = "broken" /\ health[t].bad # NoBad /\ Superseded(refs, t, health[t].bad.rel)}

\* buildArrReferencedSet: nil when an Arr does not answer, and nothing is
\* then superseded.  A managed sweep drops the superseded candidates.
References ==
  /\ th["run"].at = "refs"
  /\ \E refs \in {Referenced} \cup (IF "arrdown" \in acting THEN {NoRun.refs} ELSE {}) :
       LET D == IF Managed THEN Stale(refs, run.todo) ELSE {}
       IN  /\ ClearRecords(D, refs)
           /\ run' = [run EXCEPT !.refs = refs, !.todo = @ \ D]
  /\ Go("run", IF active = "superseded" THEN "sift" ELSE "next")
  /\ UNCHANGED <<acting, media, active, record, ctx, memory, life, restarts, struck>>

\* ClearSuperseded's walk over the records.
Sift ==
  /\ th["run"].at = "sift"
  /\ ClearRecords(Stale(run.refs, Title), run.refs)
  /\ active' = "" /\ th' = [th EXCEPT !["run"] = NoThread] /\ run' = NoRun
  /\ UNCHANGED <<acting, media, record, ctx, memory, life, restarts, struck>>

\* probeAndHealCandidates hands out the next entry, or the run is over.
NextEntry ==
  /\ th["run"].at = "next"
  /\ IF Cancelled("run") \/ run.todo = {} THEN Go("run", "final") /\ UNCHANGED run
     ELSE \E t \in run.todo :
            LET r == IF Managed THEN item[t] ELSE run.snap
            IN  /\ run' = [run EXCEPT !.todo = @ \ {t}]
                /\ th' = [th EXCEPT !["run"] = [NoThread EXCEPT !.title = t, !.rel = r, !.row = run.row,
                                                   !.at = IF Stored(t) THEN "begin" ELSE "next"]]
  /\ UNCHANGED <<acting, media, store, active, record, ctx, memory, life, restarts, struck>>

\* The entry is done: saveRun puts the whole record back.
EntryDone ==
  /\ th["run"].at = "end"
  /\ record' = "running"
  /\ Go("run", IF run.last \/ active = "fix" THEN "batch" ELSE "next")
  /\ UNCHANGED <<acting, media, store, active, ctx, run, memory, life, restarts, struck>>

\* resolveBrokenArrContext and filterSupersededHealths of FixBroken.
Resolve ==
  LET Filled(t) == IF run.batch[t].bad.row = 0 /\ run.batch[t].bad.rel # 0 /\ item[t] = run.batch[t].bad.rel
                   THEN [run.batch[t] EXCEPT !.bad.row = Owner(t)] ELSE run.batch[t]
  IN  /\ th["run"].at = "resolve"
      /\ \E refs \in {Referenced} \cup (IF "arrdown" \in acting THEN {NoRun.refs} ELSE {}) :
           LET D == {t \in InBatch : run.batch[t].bad # NoBad /\ Superseded(refs, t, run.batch[t].bad.rel)}
           IN  /\ ClearRecords(D, refs)
               /\ run' = [run EXCEPT !.batch = [t \in Title |-> IF t \in InBatch \ D THEN Filled(t) ELSE NoHealth]]
      /\ Go("run", "batch")
      /\ UNCHANGED <<acting, media, active, record, ctx, memory, life, restarts, struck>>

\* repairBroken heals the collected copies one by one: guarded in a sweep's
\* last pass, unguarded for a user.
HealBatch ==
  /\ th["run"].at = "batch"
  /\ IF InBatch = {} \/ (active = "fix" /\ Cancelled("run")) THEN Go("run", "final") /\ UNCHANGED run
     ELSE \E t \in InBatch :
            /\ run' = [run EXCEPT !.batch[t] = NoHealth]
            /\ th' = [th EXCEPT !["run"] = [NoThread EXCEPT !.title = t, !.h = run.batch[t],
                                               !.at = IF active = "fix" THEN "mend" ELSE "guard"]]
  /\ UNCHANGED <<acting, media, store, active, record, ctx, memory, life, restarts, struck>>

\* clearBroken removes the file of that name, whichever release it now
\* is, and clears the record.
ClearFile ==
  /\ th["run"].at = "clear"
  /\ IF InBatch = {} \/ Cancelled("run")
     THEN Go("run", "final") /\ UNCHANGED <<run, record, shelf, item, health>>
     ELSE \E t \in InBatch :
            LET h == run.batch[t]
                gone == IF h.bad.rel # 0 /\ item[t] # 0 THEN {item[t]} ELSE {}
            IN  /\ item' = ItemAfter(gone)
                /\ shelf' = IF t \in Pack THEN shelf ELSE shelf \ gone
                /\ health' = [health EXCEPT ![t] = IF item'[t] = 0 /\ t \notin Pack THEN NoHealth ELSE Cleared(h)]
                /\ run' = [run EXCEPT !.batch[t] = NoHealth]
                /\ record' = "running"
                /\ UNCHANGED th
  /\ UNCHANGED <<acting, media, owed, promised, active, ctx, memory, life, restarts, struck>>

\* finishCancelledRepairSweep and finalizeRun.  A sweep the schedule
\* stopped heals what it found, then counts as completed; a record already
\* cancelled stays so.
Found == [t \in Title |-> IF t \in run.healed \/ health[t].bad.row = 0 THEN NoHealth ELSE Broken(run.names)[t]]
LastPassDue == active = "sweep" /\ ctx = "stopped" /\ run.fix /\ ~run.last /\ Found # NoRun.batch

FinalPass ==
  /\ th["run"].at = "final" /\ LastPassDue
  /\ run' = [run EXCEPT !.batch = Found, !.last = TRUE]
  /\ record' = "running"
  /\ Go("run", "batch")
  /\ UNCHANGED <<acting, media, store, active, ctx, memory, life, restarts, struck>>

FinalizeRun ==
  /\ th["run"].at = "final" /\ ~LastPassDue
  /\ record' = IF record = "cancelled" \/ ctx = "cancelled" \/ (ctx = "stopped" /\ active # "sweep")
               THEN "cancelled" ELSE "completed"
  /\ active' = "" /\ run' = NoRun /\ ctx' = "live"
  /\ th' = [th EXCEPT !["run"] = NoThread]
  /\ UNCHANGED <<acting, media, store, memory, life, restarts, struck>>

\* StopRun, and ApplyConfig turning repair off: the record is cancelled
\* first, then the context.
StopRun ==
  /\ life = "up" /\ "stop" \in acting /\ active \notin {"", "superseded"}
  /\ record' = IF record = "running" THEN "cancelled" ELSE record
  /\ ctx' = IF ctx = "stopped" THEN ctx ELSE "cancelled"
  /\ UNCHANGED <<acting, media, store, active, run, memory, th, life, restarts, struck>>

\* stopActiveRepairSweep: only a sweep has an activeStopFunc to set.
StopSchedule ==
  /\ life = "up" /\ "schedule" \in acting /\ active \notin {"", "superseded"}
  /\ ctx' = IF active = "sweep" THEN "stopped" ELSE "cancelled"
  /\ UNCHANGED <<acting, media, store, active, record, run, memory, th, life, restarts, struck>>

\* ClearStates forgets records by status, between runs.
ClearStates(s) ==
  /\ Free /\ "reset" \in acting
  /\ health' = [t \in Title |-> IF health[t].status = s THEN NoHealth ELSE health[t]]
  /\ UNCHANGED <<acting, media, shelf, item, owed, promised, control, memory, th, life, restarts, struck>>

-----------------------------------------------------------------------------
(* The actors outside a run.                                               *)

\* RecheckEntry: refused while the record names a run; the item is read
\* now, the rest happens in a goroutine.
StartRecheck(t) ==
  /\ life = "up" /\ "recheck" \in acting /\ th["recheck"].at = "idle"
  /\ health[t].by = "" /\ Stored(t)
  /\ \E fix \in BOOLEAN :
       th' = [th EXCEPT !["recheck"] = [NoThread EXCEPT !.at = "look", !.title = t, !.rel = item[t], !.fix = fix]]
  /\ UNCHANGED <<acting, media, store, control, memory, life, restarts, struck>>

\* Its goroutine first applies supersession to the record, and finds the
\* row when it is to fix what it finds.
Look ==
  LET t == th["recheck"].title
      D == Stale(Referenced, {t})
  IN  /\ th["recheck"].at = "look"
      /\ ClearRecords(D, Referenced)
      /\ th' = [th EXCEPT !["recheck"] =
                  [@ EXCEPT !.at = IF D # {} THEN "end" ELSE "begin",
                            !.rel = IF Superseded(Referenced, t, @) THEN 0 ELSE @,
                            !.row = IF th["recheck"].fix THEN Owner(t) ELSE 0]]
      /\ UNCHANGED <<acting, media, control, memory, life, restarts, struck>>

\* finishRecheck clears its own mark on a record that is still there.
FinishRecheck ==
  LET t == th["recheck"].title
  IN  /\ th["recheck"].at = "end"
      /\ health' = [health EXCEPT ![t].by = IF @ = "recheck" THEN "" ELSE @]
      /\ th' = [th EXCEPT !["recheck"] = NoThread]
      /\ UNCHANGED <<acting, media, shelf, item, owed, promised, control, memory, life, restarts, struck>>

\* HandlePlaybackFailure and HandlePrecacheDamage through handleAutoDamage:
\* a release PAR2 has given up on is re-grabbed, if nobody has it.
HandleAutoDamage(t) ==
  LET r == item[t]
  IN  /\ life = "up" /\ th["router"].at = "idle" /\ r # 0 /\ r \in shelf
      /\ "router" \in acting /\ kind[r] = "lost" /\ claim[r] \in {"none", "terminal"}
      /\ th' = [th EXCEPT !["router"] = [NoThread EXCEPT !.at = "cool", !.title = t, !.rel = r,
                                           !.auto = TRUE, !.was = claim[r], !.then = "release"]]
      /\ claim' = [claim EXCEPT ![r] = "regrab"]
      /\ UNCHANGED <<acting, media, store, control, spent, guard, cooldown, life, restarts, struck>>

\* ClaimManualAutoRepairOverride and RepairPlaybackFileNow: a user's
\* "Delete & re-search" takes the claim whatever it holds.
ManualResearch(t) ==
  LET r == item[t]
  IN  /\ life = "up" /\ th["router"].at = "idle" /\ r # 0 /\ r \in shelf
      /\ "manual" \in acting /\ kind[r] # "good"
      /\ th' = [th EXCEPT !["router"] = [NoThread EXCEPT !.at = "cool", !.title = t, !.rel = r,
                                           !.then = "release"]]
      /\ claim' = [claim EXCEPT ![r] = "regrab"]
      /\ UNCHANGED <<acting, media, store, control, spent, guard, cooldown, life, restarts, struck>>

\* repairPlaybackFileNow: a title inside its cooldown is left alone.
Cool(T) ==
  LET t == th[T].title
  IN  /\ th[T].at = "cool"
      /\ IF t \in cooldown THEN Go(T, th[T].then) /\ UNCHANGED cooldown
         ELSE /\ cooldown' = cooldown \cup {t}
              /\ th' = [th EXCEPT ![T] = [@ EXCEPT !.at = IF Stored(t) THEN "attach" ELSE th[T].then]]
      /\ UNCHANGED <<acting, media, store, control, claim, spent, guard, life, restarts, struck>>

\* attachArrContext, then the guard: a user's request clears it.
Attached(T) ==
  LET t == th[T].title
      row == Owner(t)
      h == [NoHealth EXCEPT !.status = "broken", !.bad = [rel |-> th[T].rel, why |-> "dead", row |-> row]]
      check == CheckAndRecord("film", t)
  IN  /\ th[T].at = "attach"
      /\ IF row = 0 THEN Go(T, th[T].then) /\ UNCHANGED <<guard, health, struck>>
         ELSE IF ~th[T].auto
         THEN /\ guard' = [guard EXCEPT !["film"] = Fresh]
              /\ struck' = {}
              /\ th' = [th EXCEPT ![T] = [@ EXCEPT !.at = "mend", !.h = h, !.row = row]]
              /\ UNCHANGED health
         ELSE /\ guard' = [guard EXCEPT !["film"] = check.next]
              /\ IF check.verdict = "allowed"
                 THEN /\ th' = [th EXCEPT ![T] = [@ EXCEPT !.at = "mend", !.h = h, !.row = row]]
                      /\ struck' = struck \cup {t}
                      /\ UNCHANGED health
                 ELSE /\ Go(T, th[T].then)
                      /\ health' = IF check.verdict = "trips" THEN [health EXCEPT ![t] = Tripped(h)] ELSE health
                      /\ UNCHANGED struck
      /\ UNCHANGED <<acting, media, shelf, item, owed, promised, control, claim, spent, cooldown, life, restarts>>

\* The router's release puts a terminal mark back.
ReleaseRouter ==
  LET r == th["router"].rel
  IN  /\ th["router"].at = "release"
      /\ claim' = IF claim[r] = "terminal" THEN claim
                  ELSE [claim EXCEPT ![r] = IF th["router"].was = "terminal" THEN "terminal" ELSE "none"]
      /\ th' = [th EXCEPT !["router"] = NoThread]
      /\ UNCHANGED <<acting, media, store, control, spent, guard, cooldown, life, restarts, struck>>

\* An import gate finds the grab dead, and RegrabImportGrab claims it.
GateRejects ==
  LET r == importing
  IN  /\ life = "up" /\ "gate" \in acting /\ r # 0 /\ kind[r] = "lost" /\ th["gate"].at = "idle"
      /\ claim[r] = "none"
      /\ claim' = [claim EXCEPT ![r] = "regrab"]
      /\ th' = [th EXCEPT !["gate"] = [NoThread EXCEPT !.at = "gate", !.title = TitleOf[r], !.rel = r]]
      /\ UNCHANGED <<acting, media, store, control, spent, guard, cooldown, life, restarts, struck>>

\* The grab's own history record says which film it is.
GateGuard ==
  LET t == th["gate"].title
      check == CheckAndRecord("film", t)
      h == [NoHealth EXCEPT !.bad = [rel |-> th["gate"].rel, why |-> "dead", row |-> 0]]
  IN  /\ th["gate"].at = "gate"
      /\ guard' = [guard EXCEPT !["film"] = check.next]
      /\ struck' = IF check.verdict = "allowed" THEN struck \cup {t} ELSE struck
      /\ health' = IF check.verdict = "trips" THEN [health EXCEPT ![t] = Tripped(h)] ELSE health
      /\ Go("gate", IF check.verdict = "allowed" THEN "fail" ELSE "release")
      /\ UNCHANGED <<acting, media, shelf, item, owed, promised, control, claim, spent, cooldown, life, restarts>>

GateFails ==
  /\ th["gate"].at = "fail"
  /\ \/ arr' = [arr EXCEPT !.blocked = @ \cup {PostOf[th["gate"].rel]}]
     \/ "arrdown" \in acting /\ UNCHANGED arr
  /\ Go("gate", "release")
  /\ UNCHANGED <<acting, kind, streams, importing, used, store, control, memory, life, restarts, struck>>

\* The import ends in an error, which also ends the title's cooldown.
GateDone ==
  /\ th["gate"].at = "release"
  /\ claim' = [claim EXCEPT ![th["gate"].rel] = IF @ = "terminal" THEN @ ELSE "none"]
  /\ cooldown' = cooldown \ {th["gate"].title}
  /\ importing' = 0
  /\ th' = [th EXCEPT !["gate"] = NoThread]
  /\ UNCHANGED <<acting, kind, streams, arr, used, store, control, spent, guard, life, restarts, struck>>

\* ReplaceUnverified marks the short entries broken (markReplaceableBroken)
\* and asks for a fix run; when that is refused, it puts the records back.
MarkReplaceable(t) ==
  /\ Free /\ "replace" \in acting /\ th["replace"].at = "idle"
  /\ health[t].status = "healthy" /\ health[t].short /\ item[t] # 0
  /\ LET h == [health[t] EXCEPT !.status = "broken", !.short = FALSE,
                                !.bad = [rel |-> item[t], why |-> "wrong", row |-> 0]]
     IN  /\ health' = [health EXCEPT ![t] = h]
         /\ th' = [th EXCEPT !["replace"] = [NoThread EXCEPT !.at = "fix", !.title = t, !.h = health[t]]]
  /\ UNCHANGED <<acting, media, shelf, item, owed, promised, control, memory, life, restarts, struck>>

ReplaceUnverified ==
  LET t == th["replace"].title
  IN  /\ th["replace"].at = "fix"
      /\ IF active = "" /\ health[t].status = "broken"
         THEN /\ active' = "fix" /\ record' = "running" /\ ctx' = "live"
              /\ run' = [NoRun EXCEPT !.batch = Broken({t})]
              /\ th' = [th EXCEPT !["run"] = [NoThread EXCEPT !.at = "resolve"], !["replace"] = NoThread]
              /\ UNCHANGED health
         ELSE /\ health' = [health EXCEPT ![t] = th["replace"].h]
              /\ th' = [th EXCEPT !["replace"] = NoThread]
              /\ UNCHANGED control
      /\ UNCHANGED <<acting, media, shelf, item, owed, promised, memory, life, restarts, struck>>

-----------------------------------------------------------------------------
(* The process.                                                            *)

\* Stop cancels the run and waits a while for it; then, or at any other
\* moment, the process ends.
Stop ==
  /\ life = "up" /\ "crash" \in acting /\ restarts < MaxRestarts
  /\ life' = "stopping" /\ active' = ""
  /\ UNCHANGED <<acting, media, store, record, ctx, run, memory, th, restarts, struck>>

Exit ==
  /\ "crash" \in acting /\ (life = "stopping" \/ (life = "up" /\ restarts < MaxRestarts))
  /\ life' = "down" /\ restarts' = restarts + 1
  /\ th' = [t \in Thread |-> NoThread] /\ run' = NoRun /\ active' = "" /\ ctx' = "live"
  /\ claim' = [r \in Rel |-> "none"] /\ cooldown' = {} /\ owed' = {} /\ streams' = {}
  /\ UNCHANGED <<acting, kind, arr, importing, used, shelf, item, health, promised, record, spent, guard, struck>>

\* reconcileOrphans: a run or a record left in progress is put back.
Reconciled(h) ==
  IF h.by = "" THEN h
  ELSE [h EXCEPT !.status = IF h.prev = "none" THEN "unknown" ELSE h.prev, !.by = "", !.prev = "none"]

\* Start, with resumeIdleDeletes: nobody streams yet, so every promised
\* delete is carried out.
Start ==
  /\ life = "down"
  /\ life' = "up"
  /\ record' = IF record = "running" THEN "cancelled" ELSE record
  /\ shelf' = shelf \ promised /\ item' = ItemAfter(promised)
  /\ health' = HealthAfter([t \in Title |-> Reconciled(health[t])], promised)
  /\ promised' = {}
  /\ Attach
  /\ UNCHANGED <<acting, media, owed, active, ctx, run, claim, spent, cooldown, th, restarts, struck>>

-----------------------------------------------------------------------------
Heal(T) == HealGuarded(T) \/ Mend(T) \/ FindGrab(T) \/ DeleteFiles(T) \/ Research(T) \/ FinishRepair(T)
Probe(T) == Begin(T) \/ Judge(T) \/ Record(T) \/ ReleaseClaims(T) \/ Cool(T) \/ Attached(T)
RunSteps == \/ Select \/ References \/ Sift \/ NextEntry \/ EntryDone \/ Resolve \/ HealBatch
            \/ ClearFile \/ FinalPass \/ FinalizeRun \/ Probe("run") \/ Heal("run")
RecheckSteps == Look \/ Probe("recheck") \/ Heal("recheck") \/ FinishRecheck
RouterSteps == Cool("router") \/ Attached("router") \/ Heal("router") \/ ReleaseRouter
GateSteps == GateGuard \/ GateFails \/ GateDone

Next ==
  \/ RunSteps \/ RecheckSteps \/ RouterSteps \/ GateSteps \/ ReplaceUnverified
  \/ \E k \in {"sweep", "media"} : StartSweep(k)
  \/ \E k \in {"fix", "clear"} : StartBatch(k)
  \/ StartClearSuperseded \/ StopRun \/ StopSchedule \/ GateRejects \/ Import
  \/ \E s \in {"broken", "unknown", "healthy"} : ClearStates(s)
  \/ \E t \in Title : StartRecheck(t) \/ HandleAutoDamage(t) \/ ManualResearch(t) \/ MarkReplaceable(t)
  \/ \E r \in Rel : Grab(r) \/ Stream(r) \/ StopStream(r) \/ Par2Pass(r) \/ AwaitIdleDelete(r)
  \/ \E span \in {"minutes", "halfhour", "day", "week"} : Passes(span)
  \/ Stop \/ Exit \/ Start

\* Goroutines run, an asked Arr answers, a viewer leaves, a process that
\* went down is started; sweeps are scheduled again and again.
Fairness ==
  /\ WF_vars(RunSteps) /\ WF_vars(RecheckSteps) /\ WF_vars(RouterSteps) /\ WF_vars(GateSteps)
  /\ WF_vars(ReplaceUnverified) /\ WF_vars(Import) /\ WF_vars(Start)
  /\ WF_vars(life = "stopping" /\ Exit)
  /\ SF_vars(StartSweep("sweep")) /\ WF_vars(Passes("halfhour"))
  /\ \A r \in Rel : WF_vars(Grab(r)) /\ WF_vars(StopStream(r)) /\ WF_vars(AwaitIdleDelete(r))
                    /\ WF_vars(claim[r] = "par2" /\ Par2Pass(r))

Spec == Init /\ [][Next]_vars /\ Fairness

-----------------------------------------------------------------------------
(* Properties.                                                             *)

\* regrab_guard.go's promise, across every automatic caller (the sweep, the
\* playback router, the import gates) and across restarts: one film costs at
\* most MaxAttempts automatic re-grabs of different titles in a window.
GuardBounds == Cardinality(struck) <= MaxAttempts

\* A delete deferred to a viewer is carried out, in this process or the next
\* (resumeIdleDeletes), once the viewers have gone for good.
PromisedIsDeleted ==
  \A r \in Rel : <>[](r \notin streams) => (r \in promised ~> r \notin shelf)

\* A release nothing can mend leaves the library as long as sweeps come
\* round and the Arr answers, unless the guard has shut.
LostIsReplaced ==
  \A r \in Rel : ({"sweep", "time"} \subseteq acting /\ "arrdown" \notin acting /\ arr.row = r /\ kind[r] = "lost")
                  ~> (arr.row # r \/ guard["film"].shut)
=============================================================================
