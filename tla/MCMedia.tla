------------------------------ MODULE MCMedia -------------------------------
(***************************************************************************)
(* Four parts that decide about the media itself, checked side by side:    *)
(* the PAR2 lanes (Par2Lanes, extended here), the verdict of the ffprobe   *)
(* gate, the readers of a release while its volumes are reordered or it is *)
(* deleted, and the removal of stale Plex versions.  A behaviour is one of *)
(* a single part: the lanes rest in one of their initial states, and the   *)
(* variables of the other parts stay "off".                                *)
(***************************************************************************)
EXTENDS Par2Lanes, Integers, FiniteSets

CONSTANTS MaxFlaws, MaxFaults, Passes,
          N, Streams, Direct, MaxReaders, MaxReorders, MaxDeletes,
          MaxTries, MaxEvents, MaxSlips

ASSUME StreamsAssumption == IsFiniteSet(Streams)

VARIABLES
  part,
  file, caller, decode, probing, seek, spent, cause, res, tries, pass, trip, known, gone, faults, told,
  record, facts, slot, readers, st, handle, cached, hand, re, del, blind, reorders, deletes,
  disk, mount, arrFile, version, playing, job, actor, actMu, picked, settled, events, slips

Probe   == INSTANCE ProbeVerdict WITH pc <- probing, verdict <- told
Readers == INSTANCE ReleaseReader
Reap    == INSTANCE PlexReap

probe  == <<file, caller, decode, probing, seek, spent, cause, res, tries, pass, trip, known, gone,
            faults, told>>
reader == <<record, facts, slot, readers, st, handle, cached, hand, re, del, blind, reorders, deletes>>
reap   == <<disk, mount, arrFile, version, playing, job, actor, actMu, picked, settled, events, slips>>
mcvars == <<part, vars, probe, reader, reap>>

ProbeOff == /\ file = "off" /\ caller = "off" /\ decode = "off" /\ probing = "off" /\ seek = "off"
            /\ spent = "off" /\ cause = "off" /\ res = "off" /\ tries = "off" /\ pass = "off"
            /\ trip = "off" /\ known = "off" /\ gone = "off" /\ faults = "off" /\ told = "off"
ReaderOff == /\ record = "off" /\ facts = "off" /\ slot = "off" /\ readers = "off" /\ st = "off"
             /\ handle = "off" /\ cached = "off" /\ hand = "off" /\ re = "off" /\ del = "off"
             /\ blind = "off" /\ reorders = "off" /\ deletes = "off"
ReapOff == /\ disk = "off" /\ mount = "off" /\ arrFile = "off" /\ version = "off"
           /\ playing = "off" /\ job = "off" /\ actor = "off" /\ actMu = "off" /\ picked = "off"
           /\ settled = "off" /\ events = "off" /\ slips = "off"

\* The one state the lanes rest in.
LanesOff == Init /\ cast = CHOOSE c \in Casts : TRUE

MCInit ==
  \/ part = "lanes" /\ Init /\ ProbeOff /\ ReaderOff /\ ReapOff
  \/ part = "probe" /\ Probe!InitProbe /\ LanesOff /\ ReaderOff /\ ReapOff
  \/ part = "reader" /\ Readers!InitReader /\ LanesOff /\ ProbeOff /\ ReapOff
  \/ part = "reap" /\ Reap!InitReap /\ LanesOff /\ ProbeOff /\ ReaderOff

MCNext ==
  \/ part = "lanes" /\ Next /\ UNCHANGED <<part, probe, reader, reap>>
  \/ part = "probe" /\ Probe!NextProbe /\ UNCHANGED <<part, vars, reader, reap>>
  \/ part = "reader" /\ Readers!NextReader /\ UNCHANGED <<part, vars, probe, reap>>
  \/ part = "reap" /\ Reap!NextReap /\ UNCHANGED <<part, vars, probe, reader>>

MCSpec == MCInit /\ [][MCNext]_mcvars
MCFairSpec == MCSpec /\ Fairness

\* A file is condemned only for damage that is really there: read failures,
\* an exhausted budget and errors that starting earlier cures never are
\* (ffprobe.go, check and checkConfirmed; verify_budget.go).
CondemnedIsBad == part = "probe" => Probe!CondemnedIsBad

\* A stream's reader is open, of this release, and not torn down under it,
\* whatever the janitor, a reorder and a delete do (usenet.go, releaseFS).
StreamIsServed == part = "reader" => Readers!StreamIsServed

\* Reaping takes no file and no title: a deleted version's file was gone at
\* the last look, and another version stays (plex_reap_eval.go, evaluateReap).
ReapIsSafe == [][part = "reap" => Reap!ReapStep]_mcvars
=============================================================================
