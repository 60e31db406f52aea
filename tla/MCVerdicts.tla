----------------------------- MODULE MCVerdicts -----------------------------
(***************************************************************************)
(* What the NNTP client reports of an article, in two parts checked side   *)
(* by side: the failover of one command over the providers (Failover,      *)
(* extended here) and the verdicts of a batch of STATs.  The failover      *)
(* rests in its initial state while the batch runs, which stays "off"      *)
(* otherwise.                                                              *)
(***************************************************************************)
EXTENDS Failover, TLC

CONSTANTS Primary, Backups, StatBackbone, Skips, Chunk, Ids, HomeOf, Depth, ProbeIds, MinAnswers,
          MaxFaults,
          pA, pB, pC, X   \* model values

VARIABLES
  part,
  skip, holds, exhaustive, phase, st, rest, askNow, unresolved, sawNotFound, sawOtherErr,
  idHosts, idBackbones, result, host, hits, answered, probing, probeAnswered, demoted,
  probeSettled, probe, ctxDone, given, faults, said

\* Failover: two providers share a backbone, one has none, the last one is a
\* backup.
MCBackbone == (pA :> X) @@ (pB :> X) @@ (pC :> NoBackbone)
MCTier == (pA :> "lead") @@ (pB :> "lead") @@ (pC :> "fill")

\* STATs: a primary and a backup share a backbone; the caller excludes nobody,
\* one home or everybody.
MCStatBackbone == (pA :> X) @@ (pB :> NoBackbone) @@ (pC :> X)
MCBackups == <<pC>>
MCHomeOf == (1 :> pA) @@ (2 :> pB)
MCSkips == {{}, {pB}, {pA, pB, pC}}
MCIds == (1 :> {1, 2}) @@ (2 :> {3})

Batch == INSTANCE StatVerdict WITH Backbone <- StatBackbone, cur <- askNow,
                                   hosts <- idHosts, backbones <- idBackbones

ASSUME BatchAssumption == Batch!ProviderAssumption /\ Batch!IdAssumption

batch == <<skip, holds, exhaustive, phase, st, rest, askNow, unresolved, sawNotFound,
           sawOtherErr, idHosts, idBackbones, result, host, hits, answered, probing,
           probeAnswered, demoted, probeSettled, probe, ctxDone, given, faults, said>>
mcvars == <<part, vars, batch>>

BatchOff ==
  /\ skip = "off" /\ holds = "off" /\ exhaustive = "off" /\ phase = "off" /\ st = "off"
  /\ rest = "off" /\ askNow = "off" /\ unresolved = "off" /\ sawNotFound = "off"
  /\ sawOtherErr = "off" /\ idHosts = "off" /\ idBackbones = "off" /\ result = "off"
  /\ host = "off" /\ hits = "off" /\ answered = "off" /\ probing = "off"
  /\ probeAnswered = "off" /\ demoted = "off" /\ probeSettled = "off" /\ probe = "off"
  /\ ctxDone = "off" /\ given = "off" /\ faults = "off" /\ said = "off"

MCInit == Init /\ \/ part = "failover" /\ BatchOff
                  \/ part = "batch" /\ Batch!Init

MCNext == \/ part = "failover" /\ Next /\ UNCHANGED <<part, batch>>
          \/ part = "batch" /\ Batch!Next /\ UNCHANGED <<part, vars>>

MCSpec == MCInit /\ [][MCNext]_mcvars

\* An article is reported missing only when every provider that was to be
\* asked answered 430 for it, itself or through its backbone
\* (client.go, batchStatAcrossProviders).
MissingIsUnanimous == part = "batch" => Batch!MissingIsUnanimous

\* BatchStatComplete that had a provider to ask, met no failure and was not
\* cancelled accounts for every article, whatever the probe and the hint left out on the way
\* (client.go, BatchStatComplete; stat_routing.go, applyStatHint).
CompleteIsExact == part = "batch" => Batch!CompleteIsExact
=============================================================================
