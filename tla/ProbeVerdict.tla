---------------------------- MODULE ProbeVerdict ----------------------------
(***************************************************************************)
(* The verdict on one media file (pkg/manager/ffprobe.go, unverified.go,   *)
(* geometry_check.go; the callers probeFile in repair_sweep.go and         *)
(* verifyImportFile in downloader.go).  Every ffprobe process is one step: *)
(* it sees the file as it is, or it is cut short by a timeout, by the      *)
(* caller, by a read that failed for a passing reason, by an article no    *)
(* provider has, or by the read budget of the verification.                *)
(***************************************************************************)
EXTENDS Naturals, FiniteSets

CONSTANTS MaxFlaws,    \* how many things are wrong with the file
          MaxFaults,   \* passing read failures
          Passes       \* further passes of the import gate over an undecided file

VARIABLES
  file,     \* what the file is
  caller,   \* "sweep" | "import"
  decode,   \* ~skipDecode
  pc,       \* the process about to run, or the point of the caller
  seek,     \* decodeScope.seek: "unknown" | "can" | "cannot"
  spent,    \* VerifyBudget.Exceeded of the file's budget
  cause,    \* unverifiedCause
  res,      \* what check returned
  tries,    \* calls of check in this checkConfirmed
  pass,     \* calls of checkConfirmed by the import gate
  trip,     \* DeadSegmentSignal.Detected
  known,    \* the overlay records an article no provider has
  gone,     \* the caller's context is done
  faults,   \* passing read failures so far
  verdict   \* the caller's verdict
pvars == <<file, caller, decode, pc, seek, spent, cause, res, tries, pass, trip, known, gone, faults, verdict>>

\* The parts of a file that a check can find wrong:  box, what the metadata
\* probe parses; run, its length against the Arr's; cut, nothing readable near
\* the end; head and rest, what decoding prints for the first interval and for
\* the later ones ("late" errors come from starting between two keyframes and
\* are cured by starting earlier); place, frames carry their own times; dead,
\* an article no provider has; geom and order, what the stored layout shows.
Sound == [box |-> "ok", run |-> "right", cut |-> FALSE, head |-> "clean", rest |-> "clean",
          place |-> TRUE, dead |-> FALSE, geom |-> "ok", order |-> TRUE]
Shapes == [box : {"ok", "garbage", "audio"}, run : {"right", "long", "short", "absurd"}, cut : BOOLEAN,
           head : {"clean", "warn", "noisy", "broken"}, rest : {"clean", "warn", "late", "broken"},
           place : BOOLEAN, dead : BOOLEAN, geom : {"ok", "spliced", "missing", "tail"}, order : BOOLEAN]
Flaws(f) == {k \in DOMAIN Sound : f[k] # Sound[k]}
FewFlaws == {f \in Shapes : Cardinality(Flaws(f)) <= MaxFlaws}
Files == [shape : FewFlaws, big : BOOLEAN, index : BOOLEAN]

NoCause == [reason |-> "", decode |-> ""]
NoVerdict == [class |-> "none", why |-> "", cov |-> ""]
Result(ok, why, concl, cov) == [ok |-> ok, why |-> why, concl |-> concl, cov |-> cov]

InitProbe ==
  /\ file \in Files
  /\ caller \in {"sweep", "import"}
  /\ decode \in BOOLEAN /\ (caller = "import" => decode)
  /\ known \in BOOLEAN /\ (known => file.shape.dead)
  /\ pc = IF caller = "sweep" THEN "gate" ELSE "begin"
  /\ seek = "unknown" /\ spent = FALSE /\ cause = NoCause /\ res = Result(TRUE, "", FALSE, "")
  /\ tries = 0 /\ pass = 0 /\ trip = FALSE /\ gone = FALSE /\ faults = 0 /\ verdict = NoVerdict

Shape == file.shape

noteUnverified(reason) == [reason |-> reason, decode |-> IF reason = "decoded_with_errors" THEN cause.decode ELSE ""]
timeoutCause == IF gone' THEN "check_cancelled" ELSE "decode_timeout"

Tell(class, why, cov) == verdict' = [class |-> class, why |-> why, cov |-> cov] /\ pc' = "done"

(* -------------------------- one ffprobe process ------------------------- *)

\* The budget a phase's reads are charged to is one the file can exceed.
Exceedable == file.big

\* How a process may end.  A file without an index is scanned for one until
\* the detection phase has spent its budget.
Ends(phase) ==
  (IF ~file.index /\ Exceedable /\ phase \in {"detect", "detectlead"} THEN {"spent"} ELSE {"ran"})
  \cup {"late", "fault"} \cup (IF Exceedable THEN {"spent"} ELSE {}) \cup (IF Shape.dead THEN {"dead"} ELSE {})

\* A process ends: the caller's context, the faults and the dead article's
\* signal are what it left behind.
Proc(phase, end) ==
  /\ end \in Ends(phase)
  /\ gone' \in (IF end = "late" THEN {gone, TRUE} ELSE {gone})
  /\ faults' = IF end = "fault" THEN faults + 1 ELSE faults
  /\ faults' <= MaxFaults
  /\ trip' = (trip \/ end = "dead")
  /\ known' = (known \/ end = "dead")

keep == <<file, caller, decode, pass>>

\* check returns.
Return(r) == res' = r /\ pc' = "confirm" /\ verdict' = verdict

(* ------------------------- the sweep's own checks ----------------------- *)

\* probeFile asks the overlay first.
Gate ==
  /\ pc = "gate"
  /\ IF known THEN Tell("broken", "sweep_dead_segment", "") ELSE pc' = "geometry" /\ UNCHANGED verdict
  /\ UNCHANGED <<file, caller, decode, seek, spent, cause, res, tries, pass, trip, known, gone, faults>>

\* classifyGeometry: splices show in the stored layout; a missing volume and a
\* truncated tail only in the head, whose fetch may fail.
Geometry ==
  /\ pc = "geometry"
  /\ \E head \in BOOLEAN :
       LET g == IF Shape.geom = "spliced" \/ head THEN Shape.geom ELSE "ok" IN
       CASE g \in {"spliced", "missing"} -> Tell("broken", g, "")
         [] g = "tail" -> Tell("unverified", "import_tail_truncated", "")
         [] OTHER -> pc' = "order" /\ UNCHANGED verdict
  /\ UNCHANGED <<file, caller, decode, seek, spent, cause, res, tries, pass, trip, known, gone, faults>>

\* volumeOrderOnce: the volumes' own numbers, when they can be read.
VolumeOrder ==
  /\ pc = "order"
  /\ \E read \in BOOLEAN :
       IF read /\ ~Shape.order THEN Tell("unverified", "import_volume_order", "")
                               ELSE pc' = "begin" /\ UNCHANGED verdict
  /\ UNCHANGED <<file, caller, decode, seek, spent, cause, res, tries, pass, trip, known, gone, faults>>

(* ------------------------------ checkConfirmed -------------------------- *)

\* A confirmed check starts with its own scope and signal; the budget is the
\* file's and outlives it.
Begin ==
  /\ pc = "begin"
  /\ pc' = "meta" /\ seek' = "unknown" /\ tries' = 1 /\ trip' = FALSE
  /\ UNCHANGED <<file, caller, decode, spent, cause, res, pass, known, gone, faults, verdict>>

\* The metadata probe.
MetaEnds(end) ==
  /\ Proc("meta", end)
  /\ spent' = (spent \/ end = "spent")
  /\ CASE end = "late" -> cause' = noteUnverified(timeoutCause) /\ Return(Result(TRUE, "", FALSE, ""))
       [] end # "late" /\ spent' -> cause' = noteUnverified("read_budget_spent") /\ Return(Result(TRUE, "", FALSE, ""))
       [] OTHER ->
            /\ UNCHANGED cause
            /\ CASE end \in {"fault", "dead"} -> Return(Result(FALSE, "read_failed", TRUE, ""))
                 [] end = "ran" /\ Shape.box = "garbage" -> Return(Result(FALSE, "unreadable", TRUE, ""))
                 [] end = "ran" /\ Shape.box = "audio" -> Return(Result(FALSE, "no_video_stream", TRUE, ""))
                 [] end = "ran" /\ Shape.box = "ok" /\ (Shape.run = "absurd" \/ (Shape.run = "long" /\ caller = "sweep")) ->
                      Return(Result(FALSE, "runtime", TRUE, ""))
                 [] end = "ran" /\ Shape.box = "ok" /\ Shape.run = "short" /\ caller = "sweep" ->
                      pc' = "tail" /\ UNCHANGED <<res, verdict>>
                 [] OTHER -> IF decode THEN pc' = "windows" /\ UNCHANGED <<res, verdict>>
                                       ELSE Return(Result(TRUE, "", FALSE, ""))
Meta ==
  /\ pc = "meta"
  /\ \E end \in Ends("meta") : MetaEnds(end)
  /\ UNCHANGED keep /\ UNCHANGED <<seek, tries>>

\* tailIntact: a packet near the end; a timeout counts as intact, a failed
\* read, the budget's included, does not.
TailEnds(end) ==
  /\ Proc("tail", end)
  /\ \/ spent' = (spent \/ end = "spent")
     \/ spent' = (spent \/ (end \in {"spent", "late"} /\ file.big))
  /\ IF end = "late" \/ (end = "ran" /\ ~Shape.cut)
       THEN IF decode THEN pc' = "windows" /\ UNCHANGED <<res, verdict>>
                      ELSE Return(Result(TRUE, "", FALSE, ""))
       ELSE Return(Result(FALSE, "runtime_tail", TRUE, ""))
Tail ==
  /\ pc = "tail"
  /\ \E end \in Ends("tail") : TailEnds(end)
  /\ UNCHANGED keep /\ UNCHANGED <<seek, tries, cause>>

(* ---------------------------- decodeWindows ----------------------------- *)

\* decodeWindows: which process decodes first.
DecodeWindows ==
  /\ pc = "windows"
  /\ IF spent THEN cause' = noteUnverified("read_budget_spent") /\ Return(Result(TRUE, "", FALSE, ""))
     ELSE /\ pc' = CASE ~file.big \/ seek = "can" -> "spread"
                     [] file.big /\ seek = "cannot" -> "head"
                     [] OTHER -> "detect"
          /\ UNCHANGED <<cause, res, verdict>>
  /\ UNCHANGED keep /\ UNCHANGED <<seek, tries, spent, trip, known, gone, faults>>

\* What decoding prints, by the intervals it covers: nothing, warnings a seek
\* explains, errors it decodes through, or errors that stop it inside the first
\* interval.
Printed(phase) ==
  LET rest == IF phase = "head" THEN "clean"
              ELSE IF phase \in {"detectlead", "spreadlead"} /\ Shape.rest = "late" THEN "clean" ELSE Shape.rest
  IN CASE Shape.head = "broken" -> "first"
       [] Shape.head = "noisy" \/ (Shape.head # "broken" /\ rest = "broken") -> "container_errors"
       [] Shape.head \in {"clean", "warn"} /\ rest = "late" -> "codec_errors"
       [] OTHER -> IF "warn" \in {Shape.head, rest} THEN "seek_warnings" ELSE ""

\* A read that fails stops the decoding in the first interval, or is decoded
\* through.
Seen(phase, end) == IF end = "ran" THEN {Printed(phase)} ELSE {"first", "stream_ended"}

\* frameOffPosition: a window of the spread decoded frames timed elsewhere.
Off(phase) == phase \in {"spread", "spreadlead"} /\ ~Shape.place

\* runDecodeProbe: [ok, through, concl] and the cause it notes.  Errors before
\* the first interval's end fail the file; later ones leave it undecided.
Decoded(phase, end, out, over) ==
  CASE end = "late" -> [ok |-> TRUE, through |-> FALSE, concl |-> FALSE, note |-> noteUnverified(timeoutCause), off |-> FALSE]
    [] end # "late" /\ over ->
         [ok |-> TRUE, through |-> FALSE, concl |-> FALSE, note |-> noteUnverified("read_budget_spent"), off |-> FALSE]
    [] end # "late" /\ ~over /\ out = "first" ->
         [ok |-> FALSE, through |-> FALSE, concl |-> TRUE, note |-> cause, off |-> FALSE]
    [] end # "late" /\ ~over /\ out \in {"", "seek_warnings"} ->
         IF Off(phase)
           THEN [ok |-> TRUE, through |-> FALSE, concl |-> FALSE,
                 note |-> [reason |-> "decoded_with_errors", decode |-> "wrong_position"], off |-> TRUE]
           ELSE [ok |-> TRUE, through |-> FALSE, concl |-> TRUE, note |-> cause, off |-> FALSE]
    [] OTHER -> [ok |-> TRUE, through |-> TRUE, concl |-> FALSE,
                 note |-> [reason |-> "decoded_with_errors", decode |-> out], off |-> FALSE]

\* Does the seek index let ffprobe read a later place cheaply: the detect
\* phase, with a budget of its own.
DetectEnds(end, out) ==
  LET over == end = "spent"
      d == Decoded("detect", end, out, over)
  IN /\ Proc("detect", end)
     /\ CASE over -> seek' = "cannot" /\ pc' = "head" /\ cause' = d.note /\ UNCHANGED <<res, verdict, spent>>
          [] ~over /\ ~d.ok -> cause' = d.note /\ Return(Result(FALSE, "decode_error", TRUE, "")) /\ UNCHANGED <<seek, spent>>
          [] ~over /\ d.through /\ d.note.decode = "codec_errors" ->
               pc' = "detectlead" /\ cause' = d.note /\ UNCHANGED <<seek, res, verdict, spent>>
          [] ~over /\ d.through /\ d.note.decode # "codec_errors" ->
               /\ spent' = TRUE /\ cause' = d.note
               /\ Return(Result(TRUE, "", FALSE, "")) /\ UNCHANGED seek
          [] ~over /\ d.ok /\ ~d.through /\ ~d.concl ->
               cause' = noteUnverified(timeoutCause) /\ Return(Result(TRUE, "", FALSE, "")) /\ UNCHANGED <<seek, spent>>
          [] OTHER -> seek' = "can" /\ pc' = "spread" /\ cause' = d.note /\ UNCHANGED <<res, verdict, spent>>
Detect ==
  /\ pc = "detect"
  /\ \E end \in Ends("detect") : \E out \in Seen("detect", end) : DetectEnds(end, out)
  /\ UNCHANGED keep /\ UNCHANGED tries

\* detectLead: the same, starting before the place; undecided, it leaves the
\* cause the detect phase noted.
DetectLeadEnds(end, out) ==
  LET over == end = "spent"
      d == Decoded("detectlead", end, out, over)
  IN /\ Proc("detectlead", end)
     /\ CASE ~over /\ d.ok /\ d.concl -> seek' = "can" /\ pc' = "spread" /\ cause' = noteUnverified("") /\ UNCHANGED <<res, verdict, spent>>
          [] ~over /\ ~d.ok -> Return(Result(FALSE, "decode_error", TRUE, "")) /\ UNCHANGED <<seek, spent, cause>>
          [] OTHER -> spent' = TRUE /\ Return(Result(TRUE, "", FALSE, "")) /\ UNCHANGED <<seek, cause>>
DetectLead ==
  /\ pc = "detectlead"
  /\ \E end \in Ends("detectlead") : \E out \in Seen("detectlead", end) : DetectLeadEnds(end, out)
  /\ UNCHANGED keep /\ UNCHANGED tries

\* Without a seek index only the file's beginning is decoded.
HeadEnds(end, out) ==
  LET over == end = "spent"
      d == Decoded("head", end, out, over)
  IN /\ Proc("head", end)
     /\ IF over \/ (d.ok /\ ~d.concl)
          THEN /\ spent' = TRUE
               /\ cause' = IF d.through THEN d.note ELSE noteUnverified(IF gone' THEN "check_cancelled" ELSE "no_seek_index")
               /\ Return(Result(TRUE, "", FALSE, "partial"))
          ELSE /\ cause' = d.note /\ UNCHANGED spent
               /\ Return(Result(d.ok, IF d.ok THEN "" ELSE "decode_error", d.concl, "partial"))
Head ==
  /\ pc = "head"
  /\ \E end \in Ends("head") : \E out \in Seen("head", end) : HeadEnds(end, out)
  /\ UNCHANGED keep /\ UNCHANGED <<seek, tries>>

\* The decode windows spread over the file, on the file's own budget.
SpreadEnds(end, out) ==
  LET over == spent \/ end = "spent"
      d == Decoded("spread", end, out, over)
  IN /\ Proc("spread", end)
     /\ cause' = d.note
     /\ IF d.through /\ d.note.decode = "codec_errors"
          THEN pc' = "spreadlead" /\ spent' = over /\ UNCHANGED <<res, verdict>>
          ELSE /\ spent' = (over \/ d.through \/ d.off)
               /\ Return(Result(d.ok, IF d.ok THEN "" ELSE "decode_error", d.concl, "full"))
Spread ==
  /\ pc = "spread"
  /\ \E end \in Ends("spread") : \E out \in Seen("spread", end) : SpreadEnds(end, out)
  /\ UNCHANGED keep /\ UNCHANGED <<seek, tries>>

\* The same windows, each started earlier.
SpreadLeadEnds(end, out) ==
  LET over == spent \/ end = "spent"
      d == Decoded("spreadlead", end, out, over)
  IN /\ Proc("spreadlead", end)
     /\ cause' = d.note
     /\ spent' = (over \/ d.through \/ d.off)
     /\ Return(Result(d.ok, IF d.ok THEN "" ELSE "decode_error", d.concl, "full"))
SpreadLead ==
  /\ pc = "spreadlead"
  /\ \E end \in Ends("spreadlead") : \E out \in Seen("spreadlead", end) : SpreadLeadEnds(end, out)
  /\ UNCHANGED keep /\ UNCHANGED <<seek, tries>>

(* ------------------- what becomes of a check's answer ------------------- *)

\* probeFile's end: the verdict of the sweep.
SweepTells(ok, why, concl, cov) ==
  CASE ~ok -> Tell("broken", why, cov)
    [] ok /\ known -> Tell("broken", "sweep_dead_segment_ffprobe_override", cov)
    [] ok /\ ~known /\ concl -> Tell("verified", "", cov)
    [] ok /\ ~known /\ ~concl /\ ~decode -> Tell("skipped", "", cov)
    [] OTHER -> \E read \in BOOLEAN :
         IF read /\ ~Shape.order /\ cause'.reason \in {"decoded_with_errors", "read_budget_spent"}
           THEN Tell("unverified", "import_volume_order", cov)
           ELSE Tell("unverified", IF cause'.reason = "" THEN "decode_inconclusive" ELSE cause'.reason, cov)

\* verifyImportFile: an undecided file is checked again while its budget and
\* its time last, and then let through for the next sweep.
ImportTells(ok, why, concl) ==
  CASE ~ok -> Tell("broken", why, "") /\ UNCHANGED pass
    [] ok /\ concl -> Tell("verified", "", "") /\ UNCHANGED pass
    [] OTHER -> \/ pass < Passes /\ ~spent /\ ~gone' /\ pass' = pass + 1 /\ pc' = "begin" /\ UNCHANGED verdict
                \/ (pass >= Passes \/ spent \/ gone') /\ Tell("dirty", "", "") /\ UNCHANGED pass

Answer(ok, why, concl, cov) ==
  \/ caller = "sweep" /\ SweepTells(ok, why, concl, cov) /\ UNCHANGED pass
  \/ caller = "import" /\ ImportTells(ok, why, concl)

\* The first answer of a confirmed check that settles it, in the order
\* checkConfirmed asks: a dead article, a pass, a spent budget (asked first of
\* the second answer), a file that is no media at all.
SettledAtOnce(n) == IF trip THEN "dead" ELSE IF res.ok THEN "ok" ELSE IF spent THEN "spent" ELSE "bad"
Settled(n) ==
  CASE n = 2 /\ spent -> "spent"
    [] ~(n = 2 /\ spent) /\ trip -> "dead"
    [] ~(n = 2 /\ spent) /\ ~trip /\ res.ok -> "ok"
    [] n = 1 /\ ~trip /\ ~res.ok /\ spent -> "spent"
    [] n = 1 /\ ~trip /\ ~res.ok /\ ~spent /\ res.why # "unreadable" -> "retry"
    [] OTHER -> "bad"

Confirm ==
  /\ pc = "confirm" /\ Settled(tries) # "retry"
  /\ UNCHANGED gone
  /\ CASE Settled(tries) = "dead" -> UNCHANGED cause /\ Answer(FALSE, "dead_segment", TRUE, res.cov)
       [] Settled(tries) = "ok" -> UNCHANGED cause /\ Answer(TRUE, "", res.concl, res.cov)
       [] Settled(tries) = "spent" -> cause' = noteUnverified("read_budget_spent") /\ Answer(TRUE, "", FALSE, "")
       [] OTHER -> UNCHANGED cause /\ Answer(FALSE, res.why, res.concl, res.cov)
  /\ UNCHANGED <<file, caller, decode, seek, spent, res, tries, trip, known, faults>>

\* A first failure is asked again after a pause, in the same scope.
Retry ==
  /\ pc = "confirm" /\ Settled(tries) = "retry" /\ ~gone
  /\ tries' = 2 /\ pc' = "meta"
  /\ UNCHANGED <<file, caller, decode, seek, spent, cause, res, pass, trip, known, gone, faults, verdict>>

\* The caller gives up during the pause.
RetryCancelled ==
  /\ pc = "confirm" /\ Settled(tries) = "retry"
  /\ gone' = TRUE
  /\ cause' = noteUnverified("check_cancelled")
  /\ Answer(TRUE, "", FALSE, "")
  /\ UNCHANGED <<file, caller, decode, seek, spent, res, tries, trip, known, faults>>

\* ReplaceUnverified, on the user's word: a misordered file is put in order and
\* checked again if it can be, and otherwise, as a truncated one, it is marked
\* broken for a re-grab; nothing else on the list is touched.
Replaceable == {"import_tail_truncated", "import_volume_order"}
ReplaceUnverified ==
  /\ pc = "done" /\ verdict.class = "unverified" /\ verdict.why \in Replaceable
  /\ \/ /\ verdict.why = "import_volume_order"
        /\ file' = [file EXCEPT !.shape.order = TRUE] /\ pc' = "gate" /\ verdict' = NoVerdict
     \/ verdict' = [verdict EXCEPT !.class = "replaced"] /\ UNCHANGED <<file, pc>>
  /\ cause' = NoCause
  /\ spent' = FALSE
  /\ UNCHANGED <<caller, decode, seek, res, tries, pass, trip, known, gone, faults>>

NextProbe ==
  \/ Gate \/ Geometry \/ VolumeOrder \/ Begin \/ Meta \/ Tail \/ DecodeWindows
  \/ Detect \/ DetectLead \/ Head \/ Spread \/ SpreadLead \/ Confirm \/ Retry \/ RetryCancelled \/ ReplaceUnverified

(* ------------------------------ properties ------------------------------ *)

\* What is wrong enough with a file to replace it.
Bad == \/ Shape.box # "ok" \/ Shape.run \in {"long", "absurd"} \/ (Shape.run = "short" /\ Shape.cut)
       \/ Shape.head = "broken" \/ Shape.dead \/ Shape.geom \in {"spliced", "missing"}

\* ffprobeImportGate's comment: "wrongly rejecting a good release here is worse
\* than letting a bad file through": a file told broken is broken, whatever a
\* budget, a timeout or one failing read did to the processes that judged it.
CondemnedIsBad ==
  /\ verdict.class = "broken" => Bad \/ faults >= 2
  /\ verdict.class = "replaced" => Shape.geom = "tail" \/ ~Shape.order
=============================================================================
