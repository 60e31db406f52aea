---------------------------- MODULE StaleRecords ----------------------------
(***************************************************************************)
(* How a stored entry goes away: the stale-NZB cleanup, the Sonarr/Radarr  *)
(* delete webhook and a deletion by the user, against imports that add     *)
(* entries and an Arr that links and drops files.                          *)
(*                                                                         *)
(* Grabs that share a folder name are merged, file by file, in the folder's*)
(* item: a later grab's file replaces an earlier one's.  A library link    *)
(* leads to <<folder, file>> and so to the grab the item names.  The Arr,  *)
(* the NZB files and the DFS cache directory are one value each.           *)
(*                                                                         *)
(* age counts time in three bands: 0 within arrWebhookFreshWindow, 1       *)
(* within staleNZBMinAge, 2 older.  The item is read and written in one    *)
(* step (the code takes no lock there and documents it as a known gap).    *)
(***************************************************************************)
EXTENDS Integers, FiniteSets

CONSTANTS
    Twins,               \* whether the two grabs may share their folder name
    MaxAges, MaxEvents   \* bounds: ticks of age, deletions the Arr reports

VARIABLES
    grab,      \* grab -> kind, folder, files, legacy (its NZB is saved under the name)
    row,       \* grab -> st (none, queued, stored, gone), dl (downloading), age, upd
    item,      \* folder -> file -> the grab behind it, and its Deleted mark
    nzb,       \* grab -> age of its .nzb/.meta files, None when there are none
    dfs,       \* folders with a DFS cache directory
    shelf,     \* the Arr's library: the <<grab, file>> it imported
    libMap,    \* arrLibraryMap: recorded <<folder, file>>
    hooks,     \* delete webhooks on their way: the <<grab, file>> each is about
    st,        \* the threads
    ticks, reports

srvars == <<grab, row, item, nzb, dfs, shelf, libMap, hooks, st, ticks, reports>>

Grabs == {"old", "new"}
Files == {"f", "g"}
Folders == {"n", "m"}
None == -1
Later(h, k) == h = "new" /\ k = "old"     \* AddedOn.After

NoSlot == [by |-> "none", del |-> FALSE]
Idle == [pc |-> "idle", h |-> "none", n |-> "n", todo |-> {}, lib |-> {}, refs |-> {},
         files |-> {}, file |-> "none", guarded |-> FALSE, back |-> "idle", mine |-> "none"]
ThreadIds == {"cleanup", "api"}   \* an API request is a webhook or a removal

\* an older usenet grab was delivered, and the Arr linked it or did not; or only
\* the NZB files that a failed deletion left are there
InitRecords ==
    /\ grab \in [Grabs -> [kind : {"nzb", "torrent"}, folder : Folders,
                           files : {{"f"}, {"f", "g"}}, legacy : BOOLEAN]]
    /\ grab["old"].folder = "n" /\ grab["old"].kind = "nzb"
    /\ grab["new"].files = {"f"} /\ ~grab["new"].legacy
    /\ grab["new"].folder = "n" => Twins
    /\ grab["old"].legacy => grab["old"].files = {"f"}
    /\ grab["new"].kind = "torrent" => grab["new"].folder = "n"
    /\ \E left \in BOOLEAN :
        /\ row = [h \in Grabs |-> IF h = "new"
                    THEN [st |-> "none", dl |-> FALSE, age |-> 0, upd |-> 0]
                    ELSE [st |-> IF left THEN "gone" ELSE "stored", dl |-> FALSE, age |-> 1, upd |-> 1]]
        /\ item = [n \in Folders |-> [f \in Files |->
                    IF ~left /\ n = "n" /\ f \in grab["old"].files THEN [by |-> "old", del |-> FALSE]
                    ELSE NoSlot]]
        /\ libMap = IF left THEN {} ELSE {"n"} \X grab["old"].files
        /\ shelf \in IF left THEN {{}} ELSE {{}, {"old"} \X grab["old"].files}
    /\ nzb = [h \in Grabs |-> IF h = "old" THEN 1 ELSE None]
    /\ dfs = {"n"} /\ hooks = {}
    /\ st = [t \in ThreadIds |-> Idle]
    /\ ticks = 0 /\ reports = 0

(***************************************************************************)
(* The entry store and its items.                                          *)
(***************************************************************************)
Live(n) == {f \in Files : item[n][f] # NoSlot /\ ~item[n][f].del}
Stored(h) == row[h].st = "stored"
\* GetEntryByName: the grab behind a path, through the folder's item
Resolves(n, f) == IF f \in Live(n) /\ Stored(item[n][f].by) THEN item[n][f].by ELSE "none"

updateEntryItem(h) ==
    [item EXCEPT ![grab[h].folder] =
        [f \in Files |-> IF f \in grab[h].files /\ (@[f] = NoSlot \/ Later(h, @[f].by))
                         THEN [by |-> h, del |-> FALSE] ELSE @[f]]]

removeFromEntryItem(h) ==
    [item EXCEPT ![grab[h].folder] =
        [f \in Files |-> IF f \in grab[h].files /\ @[f].by = h THEN NoSlot ELSE @[f]]]

(***************************************************************************)
(* The world: imports, the Arr, viewers and time.                          *)
(***************************************************************************)
\* the import's NZB is staged and its record is queued
Queue(h) ==
    /\ row[h].st = "none"
    /\ row' = [row EXCEPT ![h] = [st |-> "queued", dl |-> TRUE, age |-> 0, upd |-> 0]]
    /\ nzb' = [nzb EXCEPT ![h] = IF grab[h].kind = "nzb" THEN 0 ELSE None]
    /\ UNCHANGED <<grab, item, dfs, shelf, libMap, hooks, st, ticks, reports>>

AddOrUpdate(h) ==
    /\ row[h].st = "queued"
    /\ grab[h].kind = "nzb" => nzb[h] # None
    /\ row' = [row EXCEPT ![h].st = "stored", ![h].upd = 0]
    /\ item' = updateEntryItem(h)
    /\ nzb' = [nzb EXCEPT ![h] = IF @ = None THEN None ELSE 0]    \* written anew, unstaged
    /\ dfs' = dfs \cup {grab[h].folder}
    /\ UNCHANGED <<grab, shelf, libMap, hooks, st, ticks, reports>>

\* arrLibraryMap.record, when the files are linked; the entry is complete
Deliver(h) ==
    /\ Stored(h) /\ row[h].dl
    /\ row' = [row EXCEPT ![h].dl = FALSE, ![h].upd = 0]
    /\ libMap' = libMap \cup ({grab[h].folder} \X grab[h].files)
    /\ UNCHANGED <<grab, item, nzb, dfs, shelf, hooks, st, ticks, reports>>

\* the Arr imports a grab it was handed within the day; an upgrade drops the
\* files of the other grab, and reports one of them as deleted
ArrImport(h) ==
    /\ Stored(h) /\ ~row[h].dl /\ row[h].age < 2
    /\ {h} \X grab[h].files \cap shelf = {}
    /\ LET out == {x \in shelf : x[1] # h}
       IN /\ shelf' = (shelf \ out) \cup ({h} \X grab[h].files)
          /\ IF out = {} THEN UNCHANGED <<hooks, reports>>
             ELSE /\ reports < MaxEvents
                  /\ \E x \in out : hooks' = hooks \cup {x}
                  /\ reports' = reports + 1
    /\ UNCHANGED <<grab, row, item, nzb, dfs, libMap, st, ticks>>

ArrDelete ==
    /\ reports < MaxEvents
    /\ \E x \in shelf : shelf' = shelf \ {x} /\ hooks' = hooks \cup {x}
    /\ reports' = reports + 1
    /\ UNCHANGED <<grab, row, item, nzb, dfs, libMap, st, ticks>>

\* a cleanup pass or a teardown is short against the bands of age
Age ==
    /\ ticks < MaxAges
    /\ \A t \in ThreadIds : st[t].pc = "idle"
    /\ ticks' = ticks + 1
    /\ row' = [h \in Grabs |-> IF row[h].st \in {"none", "gone"} THEN row[h]
                ELSE [row[h] EXCEPT !.age = IF @ < 2 THEN @ + 1 ELSE 2,
                                    !.upd = IF @ < 2 THEN @ + 1 ELSE 2]]
    /\ nzb' = [h \in Grabs |-> IF nzb[h] \in {0, 1} THEN nzb[h] + 1 ELSE nzb[h]]
    /\ UNCHANGED <<grab, item, dfs, shelf, libMap, hooks, st, reports>>

(***************************************************************************)
(* DeleteEntry, shared by the threads: the record is read, the NZB   *)
(* state and the recorded paths go, then item and record, then the cache   *)
(* directory.  back is where the caller goes on.                           *)
(***************************************************************************)
Go(t, pc) == st' = [st EXCEPT ![t].pc = pc]
Return(t) ==
    st' = [st EXCEPT ![t] = IF st[t].back = "idle" THEN Idle
              ELSE [st[t] EXCEPT !.pc = st[t].back, !.h = "none", !.n = "n", !.back = "idle"]]
StartDelete(t, h, back) ==
    [st[t] EXCEPT !.pc = "entry", !.h = h, !.n = grab[h].folder, !.back = back]

DeleteEntry(t) ==
    /\ st[t].pc = "entry"
    /\ LET h == st[t].h
       IN IF ~Stored(h) THEN Return(t) /\ UNCHANGED <<nzb, libMap>>
          ELSE /\ nzb' = [nzb EXCEPT ![h] = None]
               /\ libMap' = {x \in libMap : x[1] # grab[h].folder}
               /\ Go(t, "record")
    /\ UNCHANGED <<grab, row, item, dfs, shelf, hooks, ticks, reports>>

Delete(t) ==
    /\ st[t].pc = "record"
    /\ LET h == st[t].h
       IN /\ item' = IF Stored(h) THEN removeFromEntryItem(h) ELSE item
          /\ row' = [row EXCEPT ![h].st = "gone"]
          /\ IF grab[h].kind = "nzb" THEN Go(t, "dir") ELSE Return(t)
    /\ UNCHANGED <<grab, nzb, dfs, shelf, libMap, hooks, ticks, reports>>

\* removeStaleNZBCacheDir: no other grab's file under this name, nothing open
Reclaimable(n, h, open) == (\A f \in Live(n) : item[n][f].by = h) /\ ~open

removeStaleNZBCacheDir(t) ==
    /\ st[t].pc = "dir"
    /\ \E open \in BOOLEAN :
          dfs' = IF Reclaimable(st[t].n, st[t].h, open) THEN dfs \ {st[t].n} ELSE dfs
    /\ Return(t)
    /\ UNCHANGED <<grab, row, item, nzb, shelf, libMap, hooks, ticks, reports>>

(***************************************************************************)
(* CleanupStaleNZBs.  The reference set is one Arr listing, resolved       *)
(* through the items as they are afterwards; any Arr that fails ends it.   *)
(***************************************************************************)
AnArrFailed == {<<"error", "", "">>}
RefsWhateverFailed(lib, ok) == {r \in Folders \X Files \X Grabs :
    ok /\ item[r[1]][r[2]].by = r[3] /\ \E x \in lib : grab[x[1]].folder = r[1] /\ x[2] = r[2]}
buildArrReferencedSet(lib, ok) == IF ok THEN RefsWhateverFailed(lib, TRUE) ELSE AnArrFailed

entryReferencedByArr(h, refs) == \E f \in grab[h].files : <<grab[h].folder, f, h>> \in refs
staleNZBSkipReason(h, refs) ==
    \/ grab[h].kind # "nzb"
    \/ row[h].age < 2 \/ row[h].upd < 2
    \/ row[h].dl
    \/ entryReferencedByArr(h, refs)

\* every entry and every orphan is selected
StartCleanup ==
    /\ st["cleanup"].pc = "idle"
    /\ st' = [st EXCEPT !["cleanup"] = [Idle EXCEPT !.pc = "listing", !.todo = Grabs, !.lib = shelf]]
    /\ UNCHANGED <<grab, row, item, nzb, dfs, shelf, libMap, hooks, ticks, reports>>

ReadReferences(ok) ==
    /\ st["cleanup"].pc = "listing"
    /\ LET refs == buildArrReferencedSet(st["cleanup"].lib, ok)
       IN st' = [st EXCEPT !["cleanup"] = IF refs = AnArrFailed THEN Idle
                                          ELSE [@ EXCEPT !.pc = "next", !.refs = refs, !.lib = {}]]
    /\ UNCHANGED <<grab, row, item, nzb, dfs, shelf, libMap, hooks, ticks, reports>>

\* the NZB files go, then DeleteEntry takes the record and the cache directory
deleteStaleNZBEntry(c, h) ==
    /\ nzb' = [nzb EXCEPT ![h] = None]
    /\ st' = [st EXCEPT !["cleanup"] =
                [c EXCEPT !.pc = "entry", !.h = h, !.n = grab[h].folder, !.back = "next"]]

\* the entries first: each is read again and checked against the references
\* and every other rule
CleanEntry(h) ==
    /\ st["cleanup"].pc = "next" /\ h \in st["cleanup"].todo
    /\ LET c == [st["cleanup"] EXCEPT !.todo = @ \ {h}]
           stale == /\ Stored(h) /\ (\A x \in c.refs : x[3] # h)
                    /\ ~staleNZBSkipReason(h, c.refs)
       IN IF stale /\ nzb[h] # None
          THEN deleteStaleNZBEntry(c, h)
          ELSE st' = [st EXCEPT !["cleanup"] = c] /\ UNCHANGED nzb
    /\ UNCHANGED <<grab, row, item, dfs, shelf, libMap, hooks, ticks, reports>>

\* then the orphans: a scan of the NZB directories, then the known keys
collectOrphanNZBCandidates ==
    /\ st["cleanup"].pc = "next" /\ st["cleanup"].todo = {}
    /\ st' = [st EXCEPT !["cleanup"].pc = "known",
                        !["cleanup"].refs = {},
                        !["cleanup"].files = {h \in Grabs : nzb[h] = 2}]
    /\ UNCHANGED <<grab, row, item, nzb, dfs, shelf, libMap, hooks, ticks, reports>>

\* an id on disk is an info hash or, in an old library, a release name
has(h) == IF grab[h].legacy THEN item[grab[h].folder] # [f \in Files |-> NoSlot] ELSE Stored(h)

buildStaleNZBKnownKeys ==
    /\ st["cleanup"].pc = "known"
    /\ st' = [st EXCEPT !["cleanup"].pc = "orphans",
                        !["cleanup"].files = {h \in @ : ~has(h)}]
    /\ UNCHANGED <<grab, row, item, nzb, dfs, shelf, libMap, hooks, ticks, reports>>

deleteOrphanNZBFiles ==
    /\ st["cleanup"].pc = "orphans"
    /\ nzb' = [h \in Grabs |-> IF h \in st["cleanup"].files /\ nzb[h] = 2 THEN None ELSE nzb[h]]
    /\ st' = [st EXCEPT !["cleanup"] = Idle]
    /\ UNCHANGED <<grab, row, item, dfs, shelf, libMap, hooks, ticks, reports>>

(***************************************************************************)
(* HandleArrWebhookCleanup.                                                *)
(***************************************************************************)
isFreshOrDownloading(h) == row[h].dl \/ row[h].age = 0
NoMatch == <<"none", "none">>

\* a usenet entry that has a file of this name, when it is the only one
findUsenetEntryByFileName(f) ==
    LET with == {h \in Grabs : Stored(h) /\ grab[h].kind = "nzb" /\ f \in grab[h].files}
    IN IF Cardinality(with) = 1 THEN CHOOSE h \in with : TRUE ELSE "none"

\* the one entry among <<entry, file>> candidates, none, or ambiguous
TheMatch(candidates) ==
    LET settled == {c \in candidates : c[1] # "none" /\ ~isFreshOrDownloading(c[1])}
    IN CASE settled = {} -> {NoMatch}
         [] Cardinality({c[1] : c \in settled}) > 1 -> {<<"ambiguous", "none">>}
         [] OTHER -> settled

resolveByRecordedPath(e, byBasename) ==
    TheMatch({<<Resolves(x[1], x[2]), x[2]>> :
        x \in {y \in libMap : y[2] = e.was /\ (byBasename \/ (e.path /\ y[1] = grab[e.of].folder))}})

\* a scene name is the name of the folder; it names a file of an entry whose
\* own name it is only when that entry has a single file
resolveBySceneName(e) ==
    TheMatch({x \in Grabs \X Files : Stored(x[1]) /\ grab[x[1]].files = {x[2]}
                                      /\ grab[x[1]].folder = grab[e.of].folder})

TierOne(e) == IF e.id # "none" /\ Stored(e.id) THEN e.id ELSE findUsenetEntryByFileName(e.file)

resolveArrWebhookEntry(e) ==
    LET tier2 == IF e.path THEN resolveByRecordedPath(e, FALSE) ELSE {NoMatch}
        tier3 == IF e.path THEN resolveByRecordedPath(e, TRUE) ELSE {NoMatch}
        tier4 == IF e.scene THEN resolveBySceneName(e) ELSE {NoMatch}
        found == CASE TierOne(e) # "none" -> {<<TierOne(e), e.file>>}
                   [] tier2 # {NoMatch} -> tier2
                   [] tier3 # {NoMatch} -> tier3
                   [] OTHER -> tier4
    IN {IF x[1] = "ambiguous" THEN NoMatch ELSE x : x \in found}

\* what the payload of <<grab, file>> may carry: the download id, the file's own
\* name unless the Arr renamed it or names none, a recorded path, the scene name
Payloads(x) == [id : {"none", x[1]}, file : {"", "renamed", x[2]}, path : BOOLEAN, scene : BOOLEAN,
                of : {x[1]}, was : {x[2]}]

ReceiveWebhook(hook) ==
    /\ st["api"].pc = "idle" /\ hook \in hooks
    /\ hooks' = hooks \ {hook}
    /\ \E e \in Payloads(hook) : \E x \in resolveArrWebhookEntry(e) :
          st' = [st EXCEPT !["api"] =
                    IF x = NoMatch \/ grab[x[1]].kind # "nzb" THEN Idle
                    ELSE [(IF x[2] = "" THEN StartDelete("api", x[1], "exists")
                           ELSE [Idle EXCEPT !.pc = "file", !.file = x[2]])
                          EXCEPT !.mine = x[1], !.guarded = TierOne(e) = "none"]]
    /\ UNCHANGED <<grab, row, item, nzb, dfs, shelf, libMap, ticks, reports>>

\* RemoveTorrentFile: the file is looked up in the item of that name; when it
\* was the last one the entry behind that file is deleted
RemoveTorrentFile ==
    /\ st["api"].pc = "file"
    /\ LET w == st["api"]
           n == grab[w.mine].folder
           f == w.file
       IN IF f \notin Live(n) THEN st' = [st EXCEPT !["api"] = Idle] /\ UNCHANGED item
          ELSE /\ item' = [item EXCEPT ![n][f].del = TRUE]
               /\ st' = [st EXCEPT !["api"] =
                            IF Live(n) = {f} THEN [StartDelete("api", item[n][f].by, "exists") EXCEPT !.file = "none"]
                            ELSE [w EXCEPT !.pc = "exists"]]
    /\ UNCHANGED <<grab, row, nzb, dfs, shelf, libMap, hooks, ticks, reports>>

\* the entry is still there: only a file was removed; otherwise the rest of
\* its usenet state goes, the directory if no file of that name is left
finishUsenetTeardown ==
    /\ st["api"].pc = "exists"
    /\ LET h == st["api"].mine
           n == grab[h].folder
       IN IF Stored(h) THEN UNCHANGED <<nzb, dfs>>
          ELSE /\ nzb' = [nzb EXCEPT ![h] = None]
               /\ dfs' = IF Live(n) = {} THEN dfs \ {n} ELSE dfs
    /\ st' = [st EXCEPT !["api"] = Idle]
    /\ UNCHANGED <<grab, row, item, shelf, libMap, hooks, ticks, reports>>

\* RemoveEntry, from the mount or the UI
RemoveEntry(h) ==
    /\ st["api"].pc = "idle" /\ Stored(h)
    /\ st' = [st EXCEPT !["api"] = StartDelete("api", h, "idle")]
    /\ UNCHANGED <<grab, row, item, nzb, dfs, shelf, libMap, hooks, ticks, reports>>

NextRecords ==
    \/ \E h \in Grabs : Queue(h) \/ AddOrUpdate(h) \/ Deliver(h) \/ ArrImport(h)
                        \/ CleanEntry(h) \/ RemoveEntry(h)
    \/ ArrDelete \/ Age
    \/ \E t \in ThreadIds : DeleteEntry(t) \/ Delete(t) \/ removeStaleNZBCacheDir(t)
    \/ StartCleanup
    \/ \E ok \in BOOLEAN : ReadReferences(ok)
    \/ collectOrphanNZBCandidates \/ buildStaleNZBKnownKeys \/ deleteOrphanNZBFiles
    \/ \E hook \in hooks : ReceiveWebhook(hook)
    \/ RemoveTorrentFile \/ finishUsenetTeardown

SpecRecords == InitRecords /\ [][NextRecords]_srvars

(***************************************************************************)
(* Properties.                                                             *)
(***************************************************************************)

\* CleanupStaleNZBs never takes the NZB files or the record of the grab a file
\* of the Arr's library resolves to, whatever was imported, deleted or shadowed
\* since it read the references: a selection is a request, not an authorization.
Linked(h) == \E x \in shelf : Resolves(grab[x[1]].folder, x[2]) = h
LinkedStep ==
    \A h \in Grabs :
        /\ st["cleanup"].pc = "next" /\ nzb'[h] # nzb[h] /\ st'["cleanup"].pc = "entry" => ~Linked(h)
        /\ st["cleanup"].pc = "record" /\ st'["cleanup"].pc # "record" /\ Stored(h) /\ row'[h].st = "gone"
              => ~Linked(h)
LinkedStays == [][LinkedStep]_srvars

\* A cache directory goes only when no library path under that name leads to a
\* stored entry any more: the twin of a deleted grab keeps its cached bytes.
TwinKeepsCache ==
    [][\A n \in dfs \ dfs' : \A f \in Live(n) :
          Resolves(n, f) = "none"]_srvars

\* On an upgrade the replacement is never mistaken for the entry being
\* superseded: no webhook that resolves an entry by recorded path or scene name
\* deletes an entry that is downloading or was only just added.
ReplacementIsSpared ==
    [][\A h \in Grabs :
        st["api"].pc = "record" /\ st'["api"].pc # "record" /\ st["api"].h = h
        /\ st["api"].guarded => ~isFreshOrDownloading(h)]_srvars
=============================================================================
