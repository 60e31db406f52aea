------------------------------ MODULE DbRestore ------------------------------
(***************************************************************************)
(* Restoring the database from a snapshot: staged beside the live one with *)
(* a pending marker, swapped in before storage opens at the next start, or *)
(* at once by the command line, which first moves the restored files into  *)
(* place while the server is down.  The swap is a hold marker and two      *)
(* renames, and the process may end between any two of them.               *)
(***************************************************************************)
EXTENDS Naturals

CONSTANTS MaxStages,   \* restores a user asks for
          MaxCrashes   \* times the process ends on its own

VARIABLES live,       \* the folder db: a database, or "none"
          staged,     \* the folder db.restore-*: a database, or "none"
          pending,    \* the pending marker
          hold,       \* the post-restore hold marker
          aside,      \* databases and settings kept as *.before-restore-*
          config,     \* the settings file: "own", "restored", "none"
          server,     \* "up", "down"
          pc,         \* the step of the restore under way, "idle" for none
          who,        \* who runs ApplyPendingRestore: "start", "cli"
          prev,       \* the database ApplyPendingRestore moves aside, or "none"
          released,   \* the user has released the hold since the last swap
          stages, crashes

dbvars == <<live, staged, pending, hold, aside, config, server, pc, who, prev, released, stages, crashes>>

InitDb ==
  /\ live = "original" /\ staged = "none" /\ pending = FALSE /\ hold = FALSE /\ aside = {} /\ config = "own"
  /\ server = "up" /\ pc = "idle" /\ who = "start" /\ prev = "none" /\ released = FALSE
  /\ stages = 0 /\ crashes = 0

-----------------------------------------------------------------------------
(* stageDB refuses while a restore is pending.  It fills the staged folder  *)
(* and checks it, then writes the marker; an error removes the folder.  The *)
(* server stages for its next start, the command line for itself.          *)
StageDB(by) ==
  /\ pc = "idle" /\ ~pending /\ stages < MaxStages
  /\ stages' = stages + 1 /\ who' = by
  /\ staged' = "restored" /\ pc' = "staging"
  /\ UNCHANGED <<live, pending, hold, aside, config, server, prev, released, crashes>>

Stage == \/ server = "up" /\ StageDB("start")
         \/ server = "down" /\ StageDB("cli")

(* RestoreFromArchive stages from what it unpacked into a scratch folder.  *)
StageArchive == server = "down" /\ StageDB("archive")

StageFails ==
  /\ pc = "staging"
  /\ staged' = "none" /\ pc' = "idle"
  /\ UNCHANGED <<live, pending, hold, aside, config, server, who, prev, released, stages, crashes>>

StageMarks ==
  /\ pc = "staging"
  /\ pending' = TRUE
  /\ pc' = IF who = "start" THEN "idle" ELSE "files"
  /\ UNCHANGED <<live, staged, hold, aside, config, server, who, prev, released, stages, crashes>>

(* The settings are moved aside, and the restored ones written.  When a    *)
(* file fails, the staged database is taken back.                          *)
MoveSettings ==
  /\ aside' = IF config = "none" THEN aside ELSE aside \cup {config}
  /\ config' \in {"restored", "none"}

FilesDone ==
  \/ MoveSettings /\ config' = "restored" /\ pc' = "apply" /\ UNCHANGED <<pending, staged>>
  \/ MoveSettings /\ config' = "none" /\ pc' = "idle" /\ pending' = FALSE /\ staged' = "none"

(* RestoreToDataDir, and RestoreFromArchive, which renames out of scratch. *)
RestoreFiles ==
  /\ pc = "files" /\ who = "cli" /\ FilesDone
  /\ UNCHANGED <<live, hold, server, who, prev, released, stages, crashes>>

RestoreFromArchive ==
  /\ pc = "files" /\ who = "archive" /\ FilesDone
  /\ UNCHANGED <<live, hold, server, who, prev, released, stages, crashes>>

(* A start applies what is pending before it opens the database. *)
Start ==
  /\ server = "down" /\ pc = "idle"
  /\ pc' = "apply" /\ who' = "start"
  /\ UNCHANGED <<live, staged, pending, hold, aside, config, server, prev, released, stages, crashes>>

-----------------------------------------------------------------------------
Open == /\ pc' = "idle"
        /\ server' = IF who = "start" THEN "up" ELSE server

(* New gives up when the restore could not be applied. *)
GiveUp == pc' = "idle" /\ UNCHANGED server

(* Nothing pending: storage opens, and creates a database if there is none.*)
ApplyNothing ==
  /\ pc = "apply" /\ ~pending
  /\ Open
  /\ live' = IF who = "start" /\ live = "none" THEN "empty" ELSE live
  /\ UNCHANGED <<staged, pending, hold, aside, config, who, prev, released, stages, crashes>>

(* A marker whose staged folder is gone is removed, so it cannot block     *)
(* every start.                                                            *)
ApplyBroken ==
  /\ pc = "apply" /\ pending /\ staged = "none"
  /\ pending' = FALSE /\ GiveUp
  /\ UNCHANGED <<live, staged, hold, aside, config, who, prev, released, stages, crashes>>

(* The hold goes first; when it cannot be written nothing has moved. *)
WriteHold ==
  /\ pc = "apply" /\ pending /\ staged # "none"
  /\ \/ hold' = TRUE /\ released' = FALSE /\ prev' = live /\ pc' = "move" /\ UNCHANGED server
     \/ GiveUp /\ UNCHANGED <<hold, released, prev>>
  /\ UNCHANGED <<live, staged, pending, aside, config, who, stages, crashes>>

(* The live folder removed to make room, rather than moved aside. *)
MoveNowhere ==
  /\ pc = "move"
  /\ pc' = "swap" /\ live' = "none"
  /\ UNCHANGED <<staged, pending, hold, aside, config, server, who, prev, released, stages, crashes>>

MoveAside ==
  /\ pc = "move"
  /\ \/ /\ pc' = "swap" /\ UNCHANGED <<hold, server>>
        /\ IF prev # "none" THEN aside' = aside \cup {live} /\ live' = "none" ELSE UNCHANGED <<aside, live>>
     \/ prev # "none" /\ hold' = FALSE /\ GiveUp /\ UNCHANGED <<aside, live>>
  /\ UNCHANGED <<staged, pending, config, who, prev, released, stages, crashes>>

(* A swap that fails puts the old database back, if it can, and lifts the  *)
(* hold; the marker stays for a retry.                                     *)
Swap ==
  /\ pc = "swap"
  /\ \/ live' = staged /\ staged' = "none" /\ pc' = "unmark" /\ UNCHANGED <<hold, aside, server>>
     \/ /\ \/ prev # "none" /\ live' = prev /\ aside' = aside \ {prev}
           \/ UNCHANGED <<live, aside>>
        /\ hold' = FALSE /\ GiveUp /\ UNCHANGED staged
  /\ UNCHANGED <<pending, config, who, prev, released, stages, crashes>>

Unmark ==
  /\ pc = "unmark"
  /\ pending' = FALSE /\ Open
  /\ UNCHANGED <<live, staged, hold, aside, config, who, prev, released, stages, crashes>>

-----------------------------------------------------------------------------
ReleaseHold ==
  /\ server = "up" /\ hold
  /\ hold' = FALSE /\ released' = TRUE
  /\ UNCHANGED <<live, staged, pending, aside, config, server, pc, who, prev, stages, crashes>>

Stop ==
  /\ server = "up" /\ pc = "idle" /\ stages > 0
  /\ server' = "down"
  /\ UNCHANGED <<live, staged, pending, hold, aside, config, pc, who, prev, released, stages, crashes>>

Crash ==
  /\ server = "up" \/ pc # "idle"
  /\ crashes < MaxCrashes /\ crashes' = crashes + 1
  /\ server' = "down" /\ pc' = "idle"
  /\ UNCHANGED <<live, staged, pending, hold, aside, config, who, prev, released, stages>>

NextDb ==
  \/ Stage \/ StageArchive \/ RestoreFromArchive \/ StageFails \/ StageMarks \/ RestoreFiles \/ Start
  \/ ApplyNothing \/ ApplyBroken \/ WriteHold \/ MoveAside \/ Swap \/ Unmark
  \/ ReleaseHold \/ Stop \/ Crash

SpecDb == InitDb /\ [][NextDb]_dbvars

-----------------------------------------------------------------------------
(* The server never runs on a restored database that nobody has looked at  *)
(* without the post-restore hold, which keeps the workers that delete from *)
(* acting on records older than the library; it never runs on an empty     *)
(* database; and the database and the settings from before are on disk.    *)
RestoreIsSafe ==
  /\ server = "up" /\ live = "restored" => hold \/ released
  /\ live # "empty"
  /\ live = "original" \/ "original" \in aside
  /\ config = "own" \/ "own" \in aside
=============================================================================
