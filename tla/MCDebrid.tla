------------------------------ MODULE MCDebrid ------------------------------
(***************************************************************************)
(* The debrid side in two parts checked side by side: the link service     *)
(* over the accounts of one provider, and one entry's placements at two    *)
(* providers.  A behaviour is one of a single part; the variables of the   *)
(* other stay "off".                                                       *)
(***************************************************************************)
EXTENDS Integers, FiniteSets

CONSTANTS Kinds, Callers, Files, QuotaReturns, MaxCalls, MaxPlacements, MaxLinkFaults, MaxEvents,
          MainKinds, BackupKind, Fixers, MaxId, MaxFixes, MaxFaults

VARIABLES
  part,
  kind, disabled, current, cache, valid, refused, rec, quota, dead, expired, lapsed, call,
  limited, calls, faults, events,
  kindOf, conf, stored, remote, uncached, doomed, failedTo, inFlight, job, syn, gone, broken,
  nextId, fixes, apiFaults

\* Real-Debrid, TorBox and AllDebrid are given a second download key.
KeysOf(k) == IF k \in {"realdebrid", "torbox", "alldebrid"} THEN 1..2 ELSE {1}

Links     == INSTANCE DebridLinks WITH Keys <- KeysOf, MaxFaults <- MaxLinkFaults
Placement == INSTANCE DebridPlacement

ASSUME LinksAssumption == Links!KindsAssumption
ASSUME PlacementAssumption == Placement!FixersAssumption

links == <<kind, disabled, current, cache, valid, refused, rec, quota, dead, expired, lapsed, call,
           limited, calls, faults, events>>
placement == <<kindOf, conf, stored, remote, uncached, doomed, failedTo, inFlight, job, syn, gone,
               broken, nextId, fixes, apiFaults>>
mcvars == <<part, links, placement>>

LinksOff ==
  /\ kind = "off" /\ disabled = "off" /\ current = "off" /\ cache = "off" /\ valid = "off"
  /\ refused = "off" /\ rec = "off" /\ quota = "off" /\ dead = "off" /\ expired = "off"
  /\ lapsed = "off" /\ call = "off" /\ limited = "off" /\ calls = "off" /\ faults = "off"
  /\ events = "off"
PlacementOff ==
  /\ kindOf = "off" /\ conf = "off" /\ stored = "off" /\ remote = "off" /\ uncached = "off"
  /\ doomed = "off" /\ failedTo = "off" /\ inFlight = "off" /\ job = "off" /\ syn = "off"
  /\ gone = "off" /\ broken = "off" /\ nextId = "off" /\ fixes = "off" /\ apiFaults = "off"

Init ==
  \/ part = "links" /\ Links!InitLinks /\ PlacementOff
  \/ part = "placement" /\ Placement!InitPlacement /\ LinksOff

Next ==
  \/ part = "links" /\ Links!NextLinks /\ UNCHANGED <<part, placement>>
  \/ part = "placement" /\ Placement!NextPlacement /\ UNCHANGED <<part, links>>

\* the scheduler syncs for ever; started work goes on
Act(A) == part = "placement" /\ A /\ UNCHANGED <<part, links>>
Fairness ==
  /\ \A p \in Placement!Providers : WF_mcvars(Act(Placement!SyncStep(p)))
  /\ \A m \in Placement!Movers : WF_mcvars(Act(Placement!Move(m)))
  /\ WF_mcvars(Act(Placement!executeMigration)) /\ WF_mcvars(Act(Placement!DeleteTorrent))
  /\ WF_mcvars(Act(Placement!RefreshStep))

Spec == Init /\ [][Next]_mcvars /\ Fairness

\* An entry is re-inserted only when the provider lost the placement the call
\* was reading, never for an outage or a spent quota (service.go, handleBadLink).
ReinsertOnEvidence == part = "links" => Links!ReinsertOnEvidence

\* An entry is marked bad only after every configured provider failed to take
\* it back (fixer.go, FixTorrent).
BadIsEarned == part = "placement" => Placement!BadIsEarned

\* Whatever the writers overwrote, the syncs bring the record in step with the
\* providers in the end (torrent.go, the sync of one provider).
PlacementHeals == <>[](part = "placement" => Placement!InStep)
=============================================================================
