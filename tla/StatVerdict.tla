---------------------------- MODULE StatVerdict -----------------------------
(***************************************************************************)
(* The verdict of one BatchStat or BatchStatComplete call                  *)
(* (internal/nntp/client.go, stat_routing.go): every chunk of message IDs  *)
(* falls through the providers, home first, in an order that the call's    *)
(* shared hint rearranges while it runs; a probe of the fast providers     *)
(* feeds the hint; a missing article cancels the rest of a call that only  *)
(* needs a pass or a fail.  A release is rejected, and a repair started,   *)
(* on the articles this call reports missing.                              *)
(*                                                                         *)
(* An ID is a number, a provider's reply is what it holds or a failure of  *)
(* the connection.  Module RepairPool is about which worker takes a chunk. *)
(***************************************************************************)
EXTENDS Integers, Sequences, FiniteSets, SequencesExt

CONSTANTS
  Primary,     \* providers that are not backups
  Backups,     \* the backups in priority order
  Backbone,    \* each provider's backbone, or NoBackbone
  NoBackbone,
  Skips,       \* the sets of hosts a caller may exclude
  Chunk, Ids,  \* Ids[ch]: the message IDs of chunk ch
  HomeOf,      \* the home of the worker that takes each chunk
  Depth,       \* statPipelineDepth
  ProbeIds,    \* the IDs the probe asks about
  MinAnswers,  \* statHintMinAnswers
  MaxFaults    \* bound on failed windows, for TLC only

Providers == Primary \cup Range(Backups)
Id == UNION {Ids[ch] : ch \in Chunk}

ProviderAssumption ==
  /\ IsFiniteSet(Primary) /\ Primary # {} /\ Skips \subseteq SUBSET Providers
  /\ Backups \in Seq(Range(Backups)) /\ Primary \cap Range(Backups) = {}
IdAssumption ==
  /\ Ids \in [Chunk -> SUBSET Nat]
  /\ \A ch \in Chunk : IsFiniteSet(Ids[ch]) /\ Ids[ch] # {}
  /\ HomeOf \in [Chunk -> Primary]
  /\ \A c, d \in Chunk : c # d => Ids[c] \cap Ids[d] = {}
  /\ ProbeIds \subseteq Id /\ Depth \in Nat \ {0} /\ MinAnswers \in Nat

VARIABLES
  skip,       \* WithStatExcludedHosts
  holds,      \* the articles each provider has
  exhaustive, \* BatchStatComplete
  phase,      \* "probe", "chunks" or "returned"
  st,         \* each chunk: "pick", "ask" or "done"
  rest,       \* order[next:], the providers the chunk has still to ask
  cur,        \* the provider the chunk asks now
  unresolved, \* the chunk's IDs without a hit
  sawNotFound, sawOtherErr,   \* IDs, batchStatState
  hosts, backbones,           \* exclusions of each ID
  result,     \* each ID: "none", "found", "missing" or "error"
  host,       \* StatResult.Host
  hits, answered,             \* statHintCounts of each provider
  probing, probeAnswered, demoted, probeSettled,
  probe,      \* providers whose probe goroutine is still out
  ctxDone,
  given,      \* the caller cancelled the call
  faults,     \* windows that failed so far
  said        \* providers that answered 430, for each ID

hvars == <<hits, answered, probing, probeAnswered, demoted, probeSettled>>
ivars == <<sawNotFound, sawOtherErr, hosts, backbones, said>>
vars  == <<skip, holds, exhaustive, phase, st, rest, cur, unresolved, ivars, result,
           host, hvars, probe, ctxDone, given, faults>>

TypeOK ==
  /\ skip \in Skips /\ holds \in [Providers -> SUBSET Id]
  /\ exhaustive \in BOOLEAN
  /\ phase \in {"probe", "chunks", "returned"}
  /\ st \in [Chunk -> {"pick", "ask", "done"}]
  /\ \A ch \in Chunk : rest[ch] \in Seq(Providers) /\ unresolved[ch] \subseteq Ids[ch]
  /\ cur \in [Chunk -> Providers]
  /\ sawNotFound \subseteq Id /\ sawOtherErr \subseteq Id
  /\ hosts \in [Id -> SUBSET Providers]
  /\ backbones \in [Id -> SUBSET ({Backbone[p] : p \in Providers} \ {NoBackbone})]
  /\ result \in [Id -> {"none", "found", "missing", "error"}]
  /\ host \in [Id -> Providers]
  /\ hits \in [Providers -> Nat] /\ answered \in [Providers -> Nat]
  /\ \A S \in {probing, probeAnswered, demoted, probe} : S \subseteq Providers
  /\ probeSettled \in BOOLEAN /\ ctxDone \in BOOLEAN /\ given \in BOOLEAN
  /\ faults \in 0..MaxFaults
  /\ said \in [Id -> SUBSET Providers]

\* statOrder: home first, the other primaries in the order of latencies that
\* change all the time, then the backups in priority order.
statOrder(home) ==
  {<<home>> \o s \o Backups : s \in SetToSeqs(Primary \ {home})}

\* Providers on one backbone carry the same articles.
Init ==
  /\ skip \in Skips
  /\ holds \in {f \in [Providers -> SUBSET Id] : \A p, q \in Providers :
                  Backbone[p] # NoBackbone /\ Backbone[p] = Backbone[q] => f[p] = f[q]}
  /\ exhaustive \in BOOLEAN
  /\ st = [ch \in Chunk |-> "pick"]
  /\ rest \in {f \in [Chunk -> UNION {statOrder(h) : h \in Primary}] :
                 \A ch \in Chunk : f[ch] \in statOrder(HomeOf[ch])}
  /\ cur = [ch \in Chunk |-> rest[ch][1]]
  /\ unresolved = Ids
  /\ sawNotFound = {} /\ sawOtherErr = {}
  /\ hosts = [i \in Id |-> {}] /\ backbones = [i \in Id |-> {}]
  /\ result = [i \in Id |-> "none"]
  /\ host = [i \in Id |-> CHOOSE p \in Providers : TRUE]
  /\ hits = [p \in Providers |-> 0] /\ answered = [p \in Providers |-> 0]
  /\ probing \in {S \in SUBSET (Primary \ skip) : Cardinality(S) # 1}
  /\ probe = probing
  /\ phase = IF probing = {} THEN "chunks" ELSE "probe"
  /\ probeAnswered = {} /\ demoted = {} /\ probeSettled = FALSE
  /\ ctxDone = FALSE /\ given = FALSE
  /\ faults = 0
  /\ said = [i \in Id |-> {}]

-----------------------------------------------------------------------------
(* The hint.                                                               *)

\* absent: found nothing, and answered enough or lost the probe.
absent(p) ==
  hits[p] = 0 /\ (p \in demoted \/ answered[p] >= MinAnswers)

\* rank: primaries before backups, absent ones last within each.
rank(p) == (IF p \in Primary THEN 0 ELSE 2) + (IF absent(p) THEN 1 ELSE 0)

\* Mutant: providers the hint marks absent are left out while others remain.
dropAbsent(s) ==
  {IF \A i \in DOMAIN s : absent(s[i]) THEN s ELSE SelectSeq(s, LAMBDA p : ~absent(p))}

\* applyStatHint: a stable sort by rank, when some provider is absent.  from[i]
\* is where the provider at place i was before.
applyStatHint(s) ==
  IF \A i \in DOMAIN s : ~absent(s[i])
  THEN {s}
  ELSE {[i \in DOMAIN s |-> s[from[i]]] :
          from \in {f \in Bijection(DOMAIN s, DOMAIN s) :
                     \A i, k \in DOMAIN s : i < k =>
                       \/ rank(s[f[i]]) < rank(s[f[k]])
                       \/ rank(s[f[i]]) = rank(s[f[k]]) /\ f[i] < f[k]}}

\* hint.add, and what the counts are after it.
add(p, n, found) ==
  /\ hits' = [hits EXCEPT ![p] = @ + found]
  /\ answered' = [answered EXCEPT ![p] = @ + n]

\* probeDemoteLocked: once a probed provider has a hit, the probed providers
\* without one, answered or (after the wait) not, are asked last.
probeDemoteLocked(settled, replied) ==
  demoted' = IF \E p \in probing : hits'[p] > 0
             THEN demoted \cup {p \in probing :
                                  hits'[p] = 0 /\ (settled \/ p \in replied)}
             ELSE demoted

-----------------------------------------------------------------------------
(* The probe.                                                              *)

\* A probe comes back with definitive replies: probeResult.
ProbeAnswers(p) ==
  /\ p \in probe /\ ~ctxDone
  /\ probe' = probe \ {p}
  /\ probeAnswered' = probeAnswered \cup {p}
  /\ add(p, Cardinality(ProbeIds), Cardinality(ProbeIds \cap holds[p]))
  /\ probeDemoteLocked(probeSettled, probeAnswered')
  /\ UNCHANGED <<skip, holds, exhaustive, phase, st, rest, cur, unresolved, ivars,
                 result, host, probing, probeSettled, ctxDone, given, faults>>

\* A probe fails: the provider is taken out of the probe.
ProbeFails(p) ==
  /\ p \in probe /\ ~ctxDone /\ faults < MaxFaults
  /\ probe' = probe \ {p}
  /\ faults' = faults + 1
  /\ probing' = probing \ {p}
  /\ demoted' = demoted \ {p}
  /\ UNCHANGED <<skip, holds, exhaustive, phase, st, rest, cur, unresolved, ivars,
                 result, host, hits, answered, probeAnswered, probeSettled,
                 ctxDone, given>>

\* A probe is cut short by the end of the call's context.
ProbeCut(p) ==
  /\ p \in probe /\ ctxDone
  /\ probe' = probe \ {p}
  /\ UNCHANGED <<skip, holds, exhaustive, phase, st, rest, cur, unresolved, ivars,
                 result, host, hvars, ctxDone, given, faults>>

\* statProbe returns (a hit and the grace, all answers, or a timer), and the
\* chunks start.
probeSettle ==
  /\ phase = "probe"
  /\ phase' = "chunks"
  /\ probeSettled' = TRUE
  /\ UNCHANGED <<hits, answered>>
  /\ probeDemoteLocked(TRUE, probeAnswered)
  /\ UNCHANGED <<skip, holds, exhaustive, st, rest, cur, unresolved, ivars, result,
                 host, probing, probeAnswered, probe, ctxDone, given, faults>>

-----------------------------------------------------------------------------
(* A chunk: batchStatAcrossProviders.                                      *)

\* excludes, for one ID.
excludes(i, p) ==
  p \in hosts[i] \/ (Backbone[p] # NoBackbone /\ Backbone[p] \in backbones[i])

queried(ch, p) == {i \in unresolved[ch] : ~excludes(i, p)}

More(ch) ==
  /\ phase = "chunks" /\ st[ch] = "pick"
  /\ unresolved[ch] # {} /\ rest[ch] # << >>

\* The context is done: the chunk fails as a whole.
Cancelled(ch) ==
  /\ More(ch) /\ ctxDone
  /\ st' = [st EXCEPT ![ch] = "done"]
  /\ result' = [i \in Id |-> IF i \in Ids[ch] THEN "error" ELSE result[i]]
  /\ UNCHANGED <<skip, holds, exhaustive, phase, rest, cur, unresolved, ivars,
                 host, hvars, probe, ctxDone, given, faults>>

\* The next provider of the rearranged order is asked, or passed over when
\* the caller excluded it or no ID is left for it.
Pick(ch) ==
  /\ More(ch) /\ ~ctxDone
  /\ \E order \in applyStatHint(rest[ch]) :
       LET p == Head(order)
       IN  /\ rest' = [rest EXCEPT ![ch] = Tail(order)]
           /\ IF p \in skip \/ queried(ch, p) = {}
              THEN UNCHANGED <<st, cur>>
              ELSE /\ cur' = [cur EXCEPT ![ch] = p]
                   /\ st' = [st EXCEPT ![ch] = "ask"]
  /\ UNCHANGED <<skip, holds, exhaustive, phase, unresolved, ivars, result, host,
                 hvars, probe, ctxDone, given, faults>>

\* excludeForArticleNotFound, for every ID p did not have.
excludeForArticleNotFound(miss, p) ==
  IF Backbone[p] # NoBackbone
  THEN /\ backbones' = [i \in Id |-> IF i \in miss THEN backbones[i] \cup {Backbone[p]}
                                     ELSE backbones[i]]
       /\ UNCHANGED hosts
  ELSE /\ hosts' = [i \in Id |-> IF i \in miss THEN hosts[i] \cup {p} ELSE hosts[i]]
       /\ UNCHANGED backbones

\* The IDs a provider was asked about and gave no definitive reply to.
noteUnverified(S) == sawOtherErr' = sawOtherErr \cup S

\* batchStatOnProvider returns: whole windows from the front are answered, a
\* failed window, a checkout that failed or the end of the context leaves the
\* rest unverified (sawOtherErr).  A 430 excludes the backbone, or the host.
Answer(ch) ==
  /\ st[ch] = "ask"
  /\ LET p == cur[ch]
         q == queried(ch, p)
     IN  \E k \in 0..Cardinality(q) :
           LET ans   == {i \in q : Cardinality({j \in q : j <= i}) <= k * Depth}
               found == ans \cap holds[p]
               miss  == ans \ holds[p]
           IN  /\ ans = q \/ ctxDone \/ faults < MaxFaults
               /\ faults' = IF ans = q \/ ctxDone THEN faults ELSE faults + 1
               /\ unresolved' = [unresolved EXCEPT ![ch] = @ \ found]
               /\ sawNotFound' = sawNotFound \cup miss
               /\ noteUnverified(q \ ans)
               /\ excludeForArticleNotFound(miss, p)
               /\ said' = [i \in Id |-> IF i \in miss THEN said[i] \cup {p} ELSE said[i]]
               /\ result' = [i \in Id |-> IF i \in found THEN "found" ELSE result[i]]
               /\ host' = [i \in Id |-> IF i \in found THEN p ELSE host[i]]
               /\ add(p, Cardinality(ans), Cardinality(found))
  /\ st' = [st EXCEPT ![ch] = "pick"]
  /\ UNCHANGED <<skip, holds, exhaustive, phase, rest, cur, probing, probeAnswered,
                 demoted, probeSettled, probe, ctxDone, given>>

\* Mutant: an ID some provider did not find is missing, whatever the others.
settleOnAny(i) == IF i \in sawNotFound THEN "missing" ELSE "error"

\* The terminal classification of an ID no provider found.
settle(i) == IF i \in sawNotFound \ sawOtherErr THEN "missing" ELSE "error"

\* The chunk has nothing left to ask: done stores its results, and in
\* BatchStat a missing article cancels the rest of the call.
Done(ch) ==
  /\ phase = "chunks" /\ st[ch] = "pick"
  /\ unresolved[ch] = {} \/ rest[ch] = << >>
  /\ st' = [st EXCEPT ![ch] = "done"]
  /\ result' = [i \in Id |-> IF i \in unresolved[ch] THEN settle(i) ELSE result[i]]
  /\ ctxDone' = (ctxDone \/ (~exhaustive /\ \E i \in Ids[ch] : result'[i] = "missing"))
  /\ UNCHANGED <<skip, holds, exhaustive, phase, rest, cur, unresolved, ivars,
                 host, hvars, probe, given, faults>>

\* wg.Wait returns and the deferred cancel ends the probes still out.
Return ==
  /\ phase = "chunks"
  /\ \A ch \in Chunk : st[ch] = "done"
  /\ phase' = "returned"
  /\ ctxDone' = TRUE
  /\ UNCHANGED <<skip, holds, exhaustive, st, rest, cur, unresolved, ivars, result,
                 host, hvars, probe, given, faults>>

\* The caller's context ends.
GiveUp ==
  /\ ~ctxDone
  /\ ctxDone' = TRUE /\ given' = TRUE
  /\ UNCHANGED <<skip, holds, exhaustive, phase, st, rest, cur, unresolved, ivars,
                 result, host, hvars, probe, faults>>

Next ==
  \/ \E p \in Providers : ProbeAnswers(p) \/ ProbeFails(p) \/ ProbeCut(p)
  \/ probeSettle \/ Return \/ GiveUp
  \/ \E ch \in Chunk : Cancelled(ch) \/ Pick(ch) \/ Answer(ch) \/ Done(ch)

Spec == Init /\ [][Next]_vars

-----------------------------------------------------------------------------
(* Properties.                                                             *)

\* Provider p's word on article i: its own 430, or one of its backbone.
Answered(i, p) ==
  p \in said[i] \/ \E q \in said[i] : Backbone[q] # NoBackbone /\ Backbone[q] = Backbone[p]

\* An article is reported missing only when somebody was asked and every
\* provider that was to be asked answered 430 for it, itself or through its
\* backbone: no failed window, reordering by the hint or early bail-out
\* stands in for an answer.
MissingIsUnanimous ==
  \A i \in Id : result[i] = "missing" =>
    said[i] # {} /\ \A p \in Providers \ skip : Answered(i, p)

\* A host the caller left out never vouches for an article, in a chunk or
\* through the probe's hits.
ExcludedHostsAreSilent ==
  /\ \A i \in Id : result[i] = "found" => host[i] \notin skip /\ i \in holds[host[i]]
  /\ \A p \in skip : answered[p] = 0

\* BatchStatComplete that had a provider to ask, met no failure and was not
\* cancelled accounts for every article: found where some provider has it,
\* missing otherwise.
CompleteIsExact ==
  (phase = "returned" /\ exhaustive /\ skip # Providers /\ faults = 0 /\ ~given) =>
    \A i \in Id :
      result[i] = IF \E p \in Providers \ skip : i \in holds[p] THEN "found" ELSE "missing"

\* A chunk asks a backup only after every primary, whatever the hint says.
BackupsAfterPrimaries ==
  \A ch \in Chunk :
    (st[ch] = "ask" /\ cur[ch] \notin Primary) => Range(rest[ch]) \cap Primary = {}
=============================================================================
