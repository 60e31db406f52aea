--------------------------- MODULE DebridPlacement ---------------------------
(***************************************************************************)
(* One torrent entry and the copies of it that the debrid providers hold:  *)
(* the re-insertion fixer, the migration job, the per-provider sync, the   *)
(* refresh of the link service and the cleanup of unservable entries.      *)
(* Every one of them works on a private copy of the stored record and      *)
(* writes the whole record back.                                           *)
(*                                                                         *)
(* remote is the set of <<provider, torrent id, raw status>> at the        *)
(* providers; ids grow with every submission.  A stored placement is       *)
(* always of a downloaded torrent (a sync keeps only complete ones and a   *)
(* move only what CheckStatus called downloaded), so its status is left    *)
(* out.  pl[p] = 0 means no placement at p.                                *)
(***************************************************************************)
EXTENDS Integers, FiniteSets, FiniteSetsExt

CONSTANTS
    MainKinds, BackupKind,   \* provider kinds of "A" and of "B"
    Fixers,                  \* callers of FixTorrent
    MaxId, MaxFixes, MaxFaults   \* bounds

\* The migration job is none of the callers of FixTorrent.
FixersAssumption == "migration" \notin Fixers

VARIABLES
    kindOf, conf,    \* provider -> kind, the providers configured
    stored,          \* the record in the store
    remote, uncached, doomed, \* the providers; their caches; deletes under way
    failedTo,        \* failedToReinsert, keyed by provider
    inFlight,        \* inFlightRepairs has a request
    job,             \* fixers and the migration job
    syn,             \* syncs and the refresh
    gone,            \* the cleanup of unservable entries
    broken,          \* the entry's health record says broken
    nextId, fixes, apiFaults

pdvars == <<kindOf, conf, stored, remote, uncached, doomed, failedTo, inFlight, job,
            syn, gone, broken, nextId, fixes, apiFaults>>

Providers == {"A", "B"}
\* Of the providers left to try, the first in the order of the configuration.
providerOrder(left) == IF "A" \in left THEN "A" ELSE "B"
Movers == Fixers \cup {"migration"}
Syncers == Providers \cup {"refresh"}

NoEntry == [ex |-> FALSE, bad |-> FALSE, active |-> "none", pl |-> [p \in Providers |-> 0]]
IdleJob == [pc |-> "idle", e |-> NoEntry, left |-> {}, src |-> "none",
            id |-> 0, keep |-> TRUE]
IdleSyn == [pc |-> "idle", p |-> "A", id |-> 0, ok |-> FALSE, e |-> NoEntry]
IdleGone == [pc |-> "idle", refs |-> "none", act |-> "none"]

InitPlacement ==
    /\ \E k \in MainKinds : kindOf = [p \in Providers |-> IF p = "A" THEN k ELSE BackupKind]
    /\ conf \in {Providers, {"B"}}
    /\ stored = [ex |-> TRUE, bad |-> FALSE, active |-> "A",
                 pl |-> [p \in Providers |-> IF p = "A" THEN 1 ELSE 0]]
    /\ remote = {<<"A", 1, "ready">>}
    /\ uncached \in {{}, Providers}
    /\ doomed = {} /\ failedTo = {} /\ inFlight = FALSE
    /\ job = [m \in Movers |-> IdleJob]
    /\ syn = [s \in Syncers |-> IdleSyn]
    /\ gone = IdleGone /\ broken = FALSE
    /\ nextId = 2 /\ fixes = 0 /\ apiFaults = 0

(***************************************************************************)
(* What the provider clients answer                                        *)
(***************************************************************************)
At(p) == {t \in remote : t[1] = p}
Present(p, i) == \E t \in At(p) : t[2] = i
RawOf(p, i) == (CHOOSE t \in At(p) : t[2] = i)[3]

\* The raw status a submitted torrent starts in.  TorBox refuses what it has
\* not cached, Real-Debrid wants its files selected first.
realdebridSubmit(p) == {"select", "converting"}
torboxSubmit(p) == IF p \in uncached THEN {} ELSE {"ready", "downloading"}
alldebridSubmit(p) == IF p \in uncached THEN {"downloading", "nopeer"} ELSE {"ready"}
debridlinkSubmit(p) == IF p \in uncached THEN {"downloading"} ELSE {"ready"}
premiumizeSubmit(p) == IF p \in uncached THEN {"downloading", "error"} ELSE {"ready"}
SubmitMagnet(p) ==
    CASE kindOf[p] = "realdebrid" -> realdebridSubmit(p)
      [] kindOf[p] = "torbox"     -> torboxSubmit(p)
      [] kindOf[p] = "alldebrid"  -> alldebridSubmit(p)
      [] kindOf[p] = "debridlink" -> debridlinkSubmit(p)
      [] kindOf[p] = "premiumize" -> premiumizeSubmit(p)

\* CheckStatus of a torrent in a raw status: the answers possible.  "again"
\* is Real-Debrid's loop after the files were selected, "dropped" its 509
\* there, which returns no torrent, so nobody deletes the one submitted.
realdebridCheck(p, raw) ==
    CASE raw = "select" -> {"again", "failed", "dropped"}
      [] raw = "ready"  -> {"downloaded", "nofiles"}
      [] OTHER          -> {"failed"}
torboxCheck(p, raw) == IF raw = "ready" THEN {"downloaded"} ELSE {"failed"}
alldebridCheck(p, raw) ==    \* a restart and three more looks after "no peer"
    CASE raw = "ready"  -> {"downloaded"}
      [] raw = "nopeer" -> {"failed"} \cup (IF p \in uncached THEN {} ELSE {"downloaded"})
      [] OTHER          -> {"failed"}
debridlinkCheck(p, raw) == IF raw = "ready" THEN {"downloaded"} ELSE {"failed"}
premiumizeCheck(p, raw) == IF raw = "ready" THEN {"downloaded", "failed"} ELSE {"failed"}
CheckStatus(p, raw) ==
    CASE kindOf[p] = "realdebrid" -> realdebridCheck(p, raw)
      [] kindOf[p] = "torbox"     -> torboxCheck(p, raw)
      [] kindOf[p] = "alldebrid"  -> alldebridCheck(p, raw)
      [] kindOf[p] = "debridlink" -> debridlinkCheck(p, raw)
      [] kindOf[p] = "premiumize" -> premiumizeCheck(p, raw)

\* The torrents GetTorrents lists.  TorBox lists those in progress too.  A
\* page without a completed torrent ends Real-Debrid's and Debrid-Link's
\* paging early, and Premiumize leaves out a transfer whose files it could
\* not look up: both drop torrents that are there.
realdebridList(p) == {{t \in At(p) : t[3] = "ready"}, {}}
torboxList(p) == {At(p)}
alldebridList(p) == {{t \in At(p) : t[3] = "ready"}}
debridlinkList(p) == {{t \in At(p) : t[3] = "ready"}, {}}
premiumizeList(p) == {s \in SUBSET At(p) : \A t \in s : t[3] = "ready"}
GetTorrents(p) ==
    CASE kindOf[p] = "realdebrid" -> realdebridList(p)
      [] kindOf[p] = "torbox"     -> torboxList(p)
      [] kindOf[p] = "alldebrid"  -> alldebridList(p)
      [] kindOf[p] = "debridlink" -> debridlinkList(p)
      [] kindOf[p] = "premiumize" -> premiumizeList(p)

\* Whether every file of a listed torrent has its link, after the
\* UpdateTorrent that missing ones call for; ok says the listing had it
\* finished.  Real-Debrid's listing has no files and AllDebrid's no folders,
\* so these are asked for again; the others believe a finished listing.
Ready(p, i) == <<p, i, "ready">> \in remote
realdebridUpdate(p, i, ok) == {Ready(p, i)}
torboxUpdate(p, i, ok) == {ok \/ Ready(p, i)}
alldebridUpdate(p, i, ok) == {ok, Ready(p, i)}
debridlinkUpdate(p, i, ok) == {ok}
premiumizeUpdate(p, i, ok) == {ok}
isComplete(p, i, ok) ==
    CASE kindOf[p] = "realdebrid" -> realdebridUpdate(p, i, ok)
      [] kindOf[p] = "torbox"     -> torboxUpdate(p, i, ok)
      [] kindOf[p] = "alldebrid"  -> alldebridUpdate(p, i, ok)
      [] kindOf[p] = "debridlink" -> debridlinkUpdate(p, i, ok)
      [] kindOf[p] = "premiumize" -> premiumizeUpdate(p, i, ok)

\* GetTorrent by id: the torrent with its hash, "nohash" (Real-Debrid fills
\* in every field but that one) or an error.
realdebridGet(p, i) == IF Present(p, i) THEN "nohash" ELSE "error"
torboxGet(p, i) == IF Present(p, i) THEN "torrent" ELSE "error"
alldebridGet(p, i) == IF Present(p, i) THEN "torrent" ELSE "error"
debridlinkGet(p, i) == IF Present(p, i) THEN "torrent" ELSE "error"
premiumizeGet(p, i) == IF Present(p, i) THEN "torrent" ELSE "error"
GetTorrent(p, i) ==
    CASE kindOf[p] = "realdebrid" -> realdebridGet(p, i)
      [] kindOf[p] = "torbox"     -> torboxGet(p, i)
      [] kindOf[p] = "alldebrid"  -> alldebridGet(p, i)
      [] kindOf[p] = "debridlink" -> debridlinkGet(p, i)
      [] kindOf[p] = "premiumize" -> premiumizeGet(p, i)

(***************************************************************************)
(* storage.Entry                                                           *)
(***************************************************************************)
AddTorrentProvider(e, p, i) == [e EXCEPT !.pl[p] = i]
ActivatePlacement(e, p) == [e EXCEPT !.active = p]
Placed(e) == {p \in Providers : e.pl[p] # 0}
\* RemoveProvider, with SwitchToNextProvider when the active one went.
RemoveProvider(e, p) ==
    LET f == [e EXCEPT !.pl[p] = 0] IN
    {IF e.active = p /\ Placed(f) # {} THEN [f EXCEPT !.active = q] ELSE f :
        q \in IF Placed(f) = {} THEN {p} ELSE Placed(f)}

Fault == apiFaults < MaxFaults /\ apiFaults' = apiFaults + 1
Store(e) == stored' = e

(***************************************************************************)
(* FixTorrent and MoveTorrent                                              *)
(***************************************************************************)
\* A caller with a copy of the record read earlier or now.  It waits on a
\* repair in flight (for its result, its context or five minutes) and then
\* returns with its copy as it was: nothing is left of it here.
FixTorrent(x) ==
    /\ job[x].pc = "idle" /\ fixes < MaxFixes /\ stored.ex /\ ~inFlight
    /\ fixes' = fixes + 1
    /\ job' = [job EXCEPT ![x] = [IdleJob EXCEPT !.pc = "claim", !.e = stored, !.left = conf]]
    /\ UNCHANGED <<kindOf, conf, stored, remote, uncached, doomed, failedTo, inFlight,
                   syn, gone, broken, nextId, apiFaults>>

\* The request is stored after the check, not with it.
Claim(x) ==
    /\ job[x].pc = "claim" /\ inFlight' = TRUE
    /\ job' = [job EXCEPT ![x].pc = "next"]
    /\ UNCHANGED <<kindOf, conf, stored, remote, uncached, doomed, failedTo, syn, gone,
                   broken, nextId, fixes, apiFaults>>

FailedAnywhere(p) == failedTo # {}
IsFailedToReinsert(p) == p \in failedTo

\* The next provider that has not failed; none left marks the entry bad.  A
\* cancelled context stops without a mark.
NextAttempt(x) ==
    /\ job[x].pc = "next" /\ x \in Fixers
    /\ LET left == {p \in job[x].left : ~IsFailedToReinsert(p)} IN
       \/ /\ left # {}
          /\ job' = [job EXCEPT ![x].pc = "move", ![x].left = left]
          /\ UNCHANGED <<stored, inFlight>>
       \/ /\ left = {}
          /\ Store([job[x].e EXCEPT !.bad = TRUE])
          /\ job' = [job EXCEPT ![x] = IdleJob] /\ inFlight' = FALSE
       \/ /\ left # {} /\ job' = [job EXCEPT ![x] = IdleJob]
          /\ inFlight' = FALSE /\ UNCHANGED stored
    /\ UNCHANGED <<kindOf, conf, remote, uncached, doomed, failedTo, syn, gone,
                   broken, nextId, fixes, apiFaults>>

Target(m) == providerOrder(job[m].left)
Reinsert(m) == m \in Fixers /\ Target(m) = job[m].e.active

\* What follows a move: the deferred save, then the fixer's or the
\* migration's own continuation.
Moved(m, e) ==
    /\ Store(e) /\ UNCHANGED failedTo
    /\ IF m \in Fixers THEN job' = [job EXCEPT ![m] = IdleJob] /\ inFlight' = FALSE
       ELSE job' = [job EXCEPT ![m].pc = "drop", ![m].e = e] /\ UNCHANGED inFlight
NotMoved(m) ==
    /\ Store(job[m].e) /\ UNCHANGED inFlight
    /\ IF m \in Fixers
       THEN /\ failedTo' = failedTo \cup {Target(m)}
            /\ job' = [job EXCEPT ![m].pc = "next", ![m].left = @ \ {Target(m)}]
       ELSE job' = [job EXCEPT ![m] = IdleJob] /\ UNCHANGED failedTo

\* MoveTorrent: a placement already there is activated, otherwise the magnet
\* is submitted.
MoveTorrent(m) ==
    /\ job[m].pc = "move"
    /\ LET p == Target(m)  e == job[m].e IN
       IF ~Reinsert(m) /\ e.pl[p] # 0
       THEN /\ Moved(m, [ActivatePlacement(e, p) EXCEPT !.bad = FALSE])
            /\ UNCHANGED <<remote, nextId>>
       ELSE \/ /\ nextId <= MaxId /\ nextId' = nextId + 1
               /\ \E raw \in SubmitMagnet(p) : remote' = remote \cup {<<p, nextId, raw>>}
               /\ job' = [job EXCEPT ![m].pc = "check", ![m].id = nextId]
               /\ UNCHANGED <<stored, failedTo, inFlight>>
            \/ NotMoved(m) /\ UNCHANGED <<remote, nextId>>
    /\ UNCHANGED <<kindOf, conf, uncached, doomed, syn, gone, broken, fixes,
                   apiFaults>>

\* The submitted torrent is checked: taken, looked at again, or deleted
\* (which the provider may refuse).  The torrent a re-insertion replaces is
\* deleted in the background.
moveChecked(m) ==
    /\ job[m].pc = "check"
    /\ LET p == Target(m)  e == job[m].e  i == job[m].id
           raw == IF Present(p, i) THEN RawOf(p, i) ELSE "error"
           old == IF p = e.active THEN e.pl[p] ELSE 0 IN
       \E answer \in CheckStatus(p, raw) :
       CASE answer = "downloaded" ->
              /\ Moved(m, [ActivatePlacement(AddTorrentProvider(e, p, i), p) EXCEPT !.bad = FALSE])
              /\ remote' = (remote \ {<<p, i, raw>>}) \cup {<<p, i, "ready">>}
              /\ doomed' = IF old \in {0, i} THEN doomed ELSE doomed \cup {<<p, old>>}
              /\ UNCHANGED apiFaults
         [] answer = "again" ->
              /\ remote' = (remote \ {<<p, i, raw>>})
                    \cup {<<p, i, IF p \in uncached THEN "downloading" ELSE "ready">>}
              /\ UNCHANGED <<stored, failedTo, inFlight, job, doomed, apiFaults>>
         [] OTHER ->
              /\ NotMoved(m) /\ UNCHANGED doomed
              /\ \/ /\ answer # "dropped" /\ remote' = remote \ {<<p, i, raw>>}
                    /\ UNCHANGED apiFaults
                 \/ /\ answer = "dropped" /\ UNCHANGED <<remote, apiFaults>>
                 \/ /\ answer # "dropped" /\ Fault /\ UNCHANGED remote
    /\ UNCHANGED <<kindOf, conf, uncached, syn, gone, broken, nextId, fixes>>

DeleteTorrent ==
    \E d \in doomed :
    /\ doomed' = doomed \ {d}
    /\ \/ remote' = {t \in remote : <<t[1], t[2]>> # d} /\ UNCHANGED apiFaults
       \/ Fault /\ UNCHANGED remote
    /\ UNCHANGED <<kindOf, conf, stored, uncached, failedTo, inFlight, job, syn, gone,
                   broken, nextId, fixes>>

\* SwitchTorrent reads the record and starts the job; executeMigration moves
\* it, then drops the source placement unless it is to be kept.
SwitchTorrent ==
    /\ job["migration"].pc = "idle" /\ fixes < MaxFixes /\ fixes' = fixes + 1
    /\ stored.ex
    /\ \E p \in conf \ {stored.active}, k \in BOOLEAN :
       job' = [job EXCEPT !["migration"] = [IdleJob EXCEPT !.pc = "move", !.e = stored,
                  !.left = {p}, !.src = stored.active, !.keep = k]]
    /\ UNCHANGED <<kindOf, conf, stored, remote, uncached, doomed, failedTo, inFlight,
                   syn, gone, broken, nextId, apiFaults>>

executeMigration ==
    /\ job["migration"].pc = "drop"
    /\ LET e == job["migration"].e  src == job["migration"].src IN
       IF job["migration"].keep \/ e.pl[src] = 0
       THEN Store(e) /\ UNCHANGED <<remote, apiFaults>>
       ELSE /\ \E f \in RemoveProvider(e, src) : Store(f)
            /\ \/ remote' = {t \in remote : <<t[1], t[2]>> # <<src, e.pl[src]>>}
                  /\ UNCHANGED apiFaults
               \/ (src \notin conf \/ Fault) /\ UNCHANGED remote
                  /\ (src \notin conf => UNCHANGED apiFaults)
    /\ job' = [job EXCEPT !["migration"] = IdleJob]
    /\ UNCHANGED <<kindOf, conf, uncached, doomed, failedTo, inFlight, syn, gone,
                   broken, nextId, fixes>>

(***************************************************************************)
(* The sync of one provider, and the refresh of one torrent                *)
(***************************************************************************)
syncRest == <<kindOf, conf, remote, uncached, doomed, failedTo, inFlight, job, gone,
              broken, nextId, fixes>>
SetSyn(s, r) == syn' = [syn EXCEPT ![s] = r]

\* The listing: the newest torrent of the entry's hash, or 0.  Other torrents
\* are always listed, so the listing is never empty (an empty one is ignored).
\* A torrent left out of the listing counts as a fault.
doRefreshTorrents(p) ==
    /\ p \in conf /\ syn[p].pc = "idle"
    /\ \E l \in GetTorrents(p) :
       /\ LET full == CHOOSE f \in GetTorrents(p) : \A g \in GetTorrents(p) : g \subseteq f IN
          IF l = full THEN UNCHANGED apiFaults ELSE Fault
       /\ LET newest == IF l = {} THEN 0 ELSE Max({t[2] : t \in l}) IN
          SetSyn(p, [pc |-> "detect", p |-> p, e |-> NoEntry, id |-> newest,
                     ok |-> <<p, newest, "ready">> \in l])
    /\ UNCHANGED <<stored, syncRest>>

PlacedIsCurrent(e, p, i) == FALSE
NeedsUpdate(e, p, i) == e.pl[p] # i

detectTorrentChanges(p) ==
    /\ syn[p].pc = "detect"
    /\ LET i == syn[p].id  placed == stored.ex /\ stored.pl[p] # 0 IN
       IF placed /\ i = 0
       THEN \E f \in RemoveProvider(stored, p) :
            SetSyn(p, [syn[p] EXCEPT !.e = f, !.pc = IF Placed(f) = {} THEN "delete" ELSE "flush"])
       ELSE IF i # 0 /\ (placed => NeedsUpdate(stored, p, i))
       THEN SetSyn(p, [syn[p] EXCEPT !.pc = "process"])
       ELSE SetSyn(p, IdleSyn)
    /\ UNCHANGED <<stored, syncRest, apiFaults>>

\* Nothing is read again before the record goes.
handleTorrentDeletions(p) ==
    /\ syn[p].pc = "delete" /\ Store(NoEntry) /\ SetSyn(p, IdleSyn)
    /\ UNCHANGED <<syncRest, apiFaults>>

\* The record as it is now, or a new one, with the listed torrent.
processSyncTorrent(s) ==
    /\ syn[s].pc = "process"
    /\ LET p == syn[s].p  i == syn[s].id
           e == IF stored.ex THEN stored ELSE [NoEntry EXCEPT !.ex = TRUE, !.active = p]
           f == AddTorrentProvider(e, p, i)
           g == IF Placed(f) = {p} THEN ActivatePlacement(f, p) ELSE f IN
       \/ /\ \E whole \in isComplete(p, i, syn[s].ok) :
             SetSyn(s, IF whole THEN [syn[s] EXCEPT !.pc = "flush", !.e = g] ELSE IdleSyn)
          /\ UNCHANGED apiFaults
       \/ Fault /\ SetSyn(s, IdleSyn)
    /\ UNCHANGED <<stored, syncRest>>

\* The batch is written up to three seconds later, whatever happened since.
runBatchWriter(s) ==
    /\ syn[s].pc = "flush" /\ Store(syn[s].e) /\ SetSyn(s, IdleSyn)
    /\ UNCHANGED <<syncRest, apiFaults>>

\* refreshTorrent of the link service.  A Real-Debrid torrent comes back
\* without its info hash: what is stored is not this entry's record.
refreshTorrent ==
    /\ syn["refresh"].pc = "idle" /\ fixes < MaxFixes
    /\ stored.ex /\ stored.active \in conf /\ stored.pl[stored.active] # 0
    /\ LET p == stored.active  i == stored.pl[p] IN
       /\ GetTorrent(p, i) = "torrent"
       /\ SetSyn("refresh", [IdleSyn EXCEPT !.pc = "process", !.p = p, !.id = i, !.ok = Ready(p, i)])
    /\ fixes' = fixes + 1
    /\ UNCHANGED <<stored, apiFaults, kindOf, conf, remote, uncached, doomed, failedTo,
                   inFlight, job, gone, broken, nextId>>

(***************************************************************************)
(* FixDebridGone: entries no configured provider can serve                 *)
(***************************************************************************)
goneRest == <<kindOf, conf, remote, uncached, doomed, failedTo, inFlight, job, syn,
              nextId, apiFaults>>

debridGoneReason(e) ==
    IF ~e.ex THEN "" ELSE IF e.bad THEN "debrid_unavailable"
    ELSE IF e.active \in conf \/ Placed(e) \cap conf # {} THEN "" ELSE "debrid_not_configured"

\* Files an Arr that repairs uses are re-grabbed, files another Arr uses are
\* kept, files nobody uses are orphans.
debridGoneAction(refs) ==
    CASE refs = "repair" -> "regrab" [] refs = "other" -> "keep" [] OTHER -> "orphan"

buildDebridGoneRefs ==
    /\ gone.pc = "idle" /\ fixes < MaxFixes /\ fixes' = fixes + 1
    /\ \E r \in {"repair", "other", "none"} :   \* what the Arrs list
          gone' = [IdleGone EXCEPT !.pc = "find", !.refs = r]
    /\ UNCHANGED <<goneRest, stored, broken>>

findDebridGone ==
    /\ gone.pc = "find"
    /\ gone' = IF debridGoneReason(stored) = "" THEN IdleGone
               ELSE [gone EXCEPT !.pc = "act", !.act = debridGoneAction(gone.refs)]
    /\ UNCHANGED <<goneRest, stored, broken, fixes>>

\* An orphan's record goes (its torrents stay), an entry to re-grab is marked
\* broken for the repair run that follows.
deleteAndMarkDebridGone ==
    /\ gone.pc = "act" /\ gone' = IdleGone
    /\ IF gone.act = "orphan" THEN Store(NoEntry) ELSE UNCHANGED stored
    /\ broken' = (broken \/ (gone.act = "regrab" /\ stored.ex))
    /\ UNCHANGED <<goneRest, fixes>>

(***************************************************************************)
(* The providers                                                           *)
(***************************************************************************)
\* A provider drops a torrent, or its cache loses or gains the release.
Lose ==
    /\ Fault
    /\ \/ \E t \in remote : remote' = remote \ {t} /\ UNCHANGED uncached
       \/ \E p \in Providers :
             /\ uncached' = IF p \in uncached THEN uncached \ {p} ELSE uncached \cup {p}
             /\ UNCHANGED remote
    /\ UNCHANGED <<kindOf, conf, stored, doomed, failedTo, inFlight, job, syn, gone,
                   broken, nextId, fixes>>

Move(m) == MoveTorrent(m) \/ moveChecked(m) \/ (m \in Fixers /\ (Claim(m) \/ NextAttempt(m)))
SyncStep(p) == \/ doRefreshTorrents(p) \/ detectTorrentChanges(p)
               \/ handleTorrentDeletions(p) \/ processSyncTorrent(p) \/ runBatchWriter(p)
RefreshStep == processSyncTorrent("refresh") \/ runBatchWriter("refresh")
NextPlacement ==
    \/ \E x \in Fixers : FixTorrent(x)
    \/ \E m \in Movers : Move(m)
    \/ \E p \in Providers : SyncStep(p)
    \/ SwitchTorrent \/ executeMigration \/ DeleteTorrent \/ refreshTorrent \/ RefreshStep
    \/ buildDebridGoneRefs \/ findDebridGone \/ deleteAndMarkDebridGone \/ Lose

\* The scheduler syncs for ever; started work goes on.
SpecPlacement ==
    /\ InitPlacement /\ [][NextPlacement]_pdvars
    /\ \A p \in Providers : WF_pdvars(SyncStep(p))
    /\ \A m \in Movers : WF_pdvars(Move(m))
    /\ WF_pdvars(executeMigration) /\ WF_pdvars(DeleteTorrent) /\ WF_pdvars(RefreshStep)

(***************************************************************************)
(* Properties                                                              *)
(***************************************************************************)
\* An entry is marked bad only after every configured provider failed to
\* take it back (FixTorrent).
BadIsEarned == stored.bad => conf \subseteq failedTo

\* Whatever the writers overwrote, the syncs bring the record in step with
\* the providers in the end: each placement it names is a torrent still
\* there.  The exception is TorBox's: an unfinished torrent of the same
\* release stands in its listing, and the sync skips it without looking at
\* the placement it shadows.
Shadowed(p) == kindOf[p] = "torbox" /\ \E t \in At(p) : t[3] # "ready"
InStep ==
    \A p \in conf : stored.ex /\ stored.pl[p] # 0 =>
        Present(p, stored.pl[p]) \/ Shadowed(p)
PlacementHeals == <>[]InStep
=============================================================================
