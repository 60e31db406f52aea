---------------------------- MODULE DebridProofs ----------------------------
(***************************************************************************)
(* For any number of callers, files, accounts, calls and faults: an entry  *)
(* is re-inserted only for a placement the provider lost (DebridLinks).    *)
(* For any number of callers of the fixer, re-insertions and faults, beside*)
(* the migration, the syncs and the refresh: an entry is marked bad only   *)
(* after every configured provider failed to take it (DebridPlacement).    *)
(***************************************************************************)
EXTENDS MCDebrid, TLAPS

-----------------------------------------------------------------------------
(* The link service.                                                       *)

Fields == {"pc", "file", "named", "final", "e", "acc", "rest", "gone", "link", "lost"}

\* A call that has heard that the file is gone, or is about to re-insert the
\* entry, reads a placement that is lost.  The flag counts while accounts are
\* asked only: a call that was answered keeps it until it fetches again.
Evidence(k) ==
  /\ DOMAIN k = Fields
  /\ k.pc = "ask" /\ k.gone => k.e.gen \in dead
  /\ k.pc = "repair" => k.e.gen \in dead

\* The inductive invariant.
LinkInv ==
  /\ kind \in Kinds /\ DOMAIN call = Callers
  /\ \A c \in Callers : Evidence(call[c])

LEMMA LinkInvImplies == LinkInv => Links!ReinsertOnEvidence
BY DEF LinkInv, Evidence, Links!ReinsertOnEvidence

\* A call at rest has heard nothing.
LEMMA IdleEvidence == Evidence(Links!IdleCall) /\ Links!IdleCall.pc = "idle"
BY DEF Evidence, Links!IdleCall, Fields

LEMMA LinkInvInit == Links!InitLinks => LinkInv
<1> SUFFICES ASSUME Links!InitLinks PROVE LinkInv OBVIOUS
<1>1. kind \in Kinds /\ call = [c \in Callers |-> Links!IdleCall] BY DEF Links!InitLinks
<1> QED BY <1>1, IdleEvidence DEF LinkInv

\* What is lost stays lost, and with it the evidence.
LEMMA EvidenceStays ==
  ASSUME NEW k, Evidence(k), dead \subseteq dead'
  PROVE  /\ DOMAIN k = Fields
         /\ k.pc = "ask" /\ k.gone => k.e.gen \in dead'
         /\ k.pc = "repair" => k.e.gen \in dead'
BY DEF Evidence

\* The other calls go on as they were.
LEMMA OthersKeep ==
  ASSUME LinkInv, kind' = kind, dead \subseteq dead', DOMAIN call' = Callers,
         \A c \in Callers : \/ call'[c] = call[c]
                            \/ /\ DOMAIN call'[c] = Fields
                               /\ call'[c].pc = "ask" /\ call'[c].gone => call'[c].e.gen \in dead'
                               /\ call'[c].pc = "repair" => call'[c].e.gen \in dead'
  PROVE  LinkInv'
<1>1. ASSUME NEW c \in Callers PROVE Evidence(call[c])'
  <2>1. CASE call'[c] = call[c]
    <3>1. Evidence(call[c]) BY DEF LinkInv
    <3>2. /\ DOMAIN call[c] = Fields
          /\ call[c].pc = "ask" /\ call[c].gone => call[c].e.gen \in dead'
          /\ call[c].pc = "repair" => call[c].e.gen \in dead'
      BY <3>1, EvidenceStays
    <3> QED BY <2>1, <3>2 DEF Evidence
  <2>2. CASE call'[c] # call[c] BY <2>2 DEF Evidence
  <2> QED BY <2>1, <2>2
<1> QED BY <1>1 DEF LinkInv

\* A flight that ends leaves idle calls.
LEMMA FinishKeeps ==
  ASSUME LinkInv, kind' = kind, dead \subseteq dead', NEW c \in Callers, NEW r, Links!Finish(c, r)
  PROVE  LinkInv'
<1> DEFINE idle == [Links!IdleCall EXCEPT !.lost = (r = "not_found")]
<1>1. DOMAIN idle = Fields /\ idle.pc = "idle" BY DEF Links!IdleCall, Fields
<1>2. /\ DOMAIN call' = Callers
      /\ \A d \in Callers : call'[d] = call[d] \/ call'[d] = idle
  BY DEF Links!Finish
<1> HIDE DEF idle
<1> QED BY <1>1, <1>2, OthersKeep

\* A call changes some of its fields.
LEMMA SetKeeps ==
  ASSUME LinkInv, kind' = kind, dead \subseteq dead', NEW c \in Callers, NEW x, Links!Set(c, x),
         NEW k, k = [f \in Fields |-> IF f \in DOMAIN x THEN x[f] ELSE call[c][f]],
         k.pc = "ask" /\ k.gone => k.e.gen \in dead',
         k.pc = "repair" => k.e.gen \in dead'
  PROVE  LinkInv'
<1>1. DOMAIN Links!IdleCall = Fields BY DEF Links!IdleCall, Fields
<1>2. call' = [call EXCEPT ![c] = k] BY <1>1 DEF Links!Set
<1>3. DOMAIN call' = Callers /\ \A d \in Callers : call'[d] = IF d = c THEN k ELSE call[d]
  BY <1>2 DEF LinkInv
<1>4. DOMAIN k = Fields OBVIOUS
<1> QED BY <1>3, <1>4, OthersKeep

\* A call moves to a place where its flag does not count.
LEMMA GotoKeeps ==
  ASSUME LinkInv, kind' = kind, dead \subseteq dead', NEW c \in Callers, NEW x, Links!Set(c, x),
         IF "pc" \in DOMAIN x THEN x["pc"] \in {"fetch", "head"} ELSE call[c].pc = "fetch"
  PROVE  LinkInv'
<1> DEFINE k == [f \in Fields |-> IF f \in DOMAIN x THEN x[f] ELSE call[c][f]]
<1>1. k["pc"] \in {"fetch", "head"} BY DEF Fields
<1>2. k.pc \notin {"ask", "repair"} BY <1>1
<1> HIDE DEF k
<1>3. k = [f \in Fields |-> IF f \in DOMAIN x THEN x[f] ELSE call[c][f]] BY DEF k
<1> QED BY <1>2, <1>3, SetKeeps

LEMMA GetLinkKeeps ==
  ASSUME LinkInv, NEW c \in Callers, NEW f, Links!GetLink(c, f)
  PROVE  LinkInv'
<1>1. kind' = kind /\ dead' = dead BY DEF Links!GetLink, Links!provider
<1>2. PICK p \in {"wait", "fetch"} :
        call' = [call EXCEPT ![c] = [Links!IdleCall EXCEPT !.file = f, !.e = rec, !.pc = p]]
  BY DEF Links!GetLink
<1> DEFINE k == [Links!IdleCall EXCEPT !.file = f, !.e = rec, !.pc = p]
<1>3. DOMAIN k = Fields /\ k.pc = p BY DEF Links!IdleCall, Fields
<1>4. DOMAIN call' = Callers /\ \A d \in Callers : call'[d] = IF d = c THEN k ELSE call[d]
  BY <1>2 DEF LinkInv
<1> HIDE DEF k
<1> QED BY <1>1, <1>3, <1>4, OthersKeep

LEMMA FetchLinkKeeps == ASSUME LinkInv, NEW c \in Callers, Links!fetchLink(c) PROVE LinkInv'
<1> DEFINE x == [pc |-> "ask", acc |-> Links!Current, gone |-> FALSE, rest |-> {0}]
           k == [f \in Fields |-> IF f \in DOMAIN x THEN x[f] ELSE call[c][f]]
<1>1. kind' = kind /\ dead' = dead /\ Links!Set(c, x) BY DEF Links!fetchLink, Links!provider
<1>2. k.pc = "ask" /\ k.gone = FALSE BY DEF Fields
<1> HIDE DEF k, x
<1>3. k = [f \in Fields |-> IF f \in DOMAIN x THEN x[f] ELSE call[c][f]] BY DEF k
<1> QED BY <1>1, <1>2, <1>3, SetKeeps

\* Only a client that lost the file answers that it is gone.
LEMMA GoneIsDead ==
  ASSUME LinkInv, NEW a, NEW g, "gone" \in Links!fetchDownloadLink(a, g)
  PROVE  g \in dead
BY LinksAssumption
   DEF LinkInv, Links!KindsAssumption, Links!fetchDownloadLink, Links!realdebridFetch,
       Links!torboxFetch, Links!alldebridFetch, Links!debridlinkFetch, Links!premiumizeFetch

LEMMA HandleBadLinkKeeps ==
  ASSUME LinkInv, kind' = kind, dead' = dead, NEW c \in Callers, NEW gone_,
         gone_ => call[c].e.gen \in dead, Links!handleBadLink(c, gone_)
  PROVE  LinkInv'
<1>1. CASE gone_ /\ ~call[c].e.bad /\ ~call[c].final
  <2> DEFINE x == [pc |-> "repair"]
             k == [f \in Fields |-> IF f \in DOMAIN x THEN x[f] ELSE call[c][f]]
  <2>1. Links!Set(c, x) BY <1>1 DEF Links!handleBadLink
  <2>2. k.pc = "repair" /\ k.e = call[c].e BY DEF Fields
  <2>3. k.e.gen \in dead' BY <1>1, <2>2
  <2> HIDE DEF k, x
  <2>4. k = [f \in Fields |-> IF f \in DOMAIN x THEN x[f] ELSE call[c][f]] BY DEF k
  <2> QED BY <2>1, <2>3, <2>4, SetKeeps
<1>2. CASE ~(gone_ /\ ~call[c].e.bad /\ ~call[c].final)
  BY <1>2, FinishKeeps DEF Links!handleBadLink
<1> QED BY <1>1, <1>2

LEMMA AskKeeps == ASSUME LinkInv, NEW c \in Callers, Links!Ask(c) PROVE LinkInv'
<1>1. kind' = kind /\ dead' = dead /\ call[c].pc = "ask" BY DEF Links!Ask
<1>2. Evidence(call[c]) BY DEF LinkInv
<1> DEFINE l == <<call[c].acc, call[c].file, call[c].e.gen>>
           rest == IF call[c].rest = {0} THEN Links!Active \ {call[c].acc} ELSE call[c].rest
<1>3. PICK answer \in IF l \in cache THEN {"cached"}
                      ELSE Links!fetchDownloadLink(call[c].acc, call[c].e.gen) :
        IF answer \in {"cached", "link"} THEN Links!fetched(c, l)
        ELSE IF rest = {} THEN Links!handleBadLink(c, call[c].gone \/ answer = "gone")
        ELSE Links!Set(c, [acc |-> Links!Min(rest), rest |-> rest \ {Links!Min(rest)},
                           gone |-> call[c].gone \/ answer = "gone"])
  BY DEF Links!Ask
<1>4. call[c].gone => call[c].e.gen \in dead BY <1>1, <1>2 DEF Evidence
<1>5. answer = "gone" => call[c].e.gen \in dead
  <2> SUFFICES ASSUME answer = "gone" PROVE call[c].e.gen \in dead OBVIOUS
  <2>1. "gone" \in Links!fetchDownloadLink(call[c].acc, call[c].e.gen) BY <1>3
  <2> QED BY <2>1, GoneIsDead
<1>6. (call[c].gone \/ answer = "gone") => call[c].e.gen \in dead BY <1>4, <1>5
<1>7. CASE answer \in {"cached", "link"}
  <2>1. Links!Finish(c, "link") \/ Links!Finish(c, "error")
          \/ Links!Set(c, [pc |-> "head", link |-> l])
    BY <1>3, <1>7 DEF Links!fetched
  <2> DEFINE x == [pc |-> "head", link |-> l]
  <2>2. "pc" \in DOMAIN x /\ x["pc"] = "head" OBVIOUS
  <2>3. CASE Links!Set(c, x)
    <3> HIDE DEF x
    <3> QED BY <1>1, <2>2, <2>3, GotoKeeps
  <2> QED BY <1>1, <2>1, <2>3, FinishKeeps
<1>8. CASE answer \notin {"cached", "link"} /\ rest = {}
  <2>1. Links!handleBadLink(c, call[c].gone \/ answer = "gone") BY <1>3, <1>8
  <2> QED BY <1>1, <1>6, <2>1, HandleBadLinkKeeps
<1>9. CASE answer \notin {"cached", "link"} /\ rest # {}
  <2> DEFINE g == call[c].gone \/ answer = "gone"
             x == [acc |-> Links!Min(rest), rest |-> rest \ {Links!Min(rest)}, gone |-> g]
             k == [f \in Fields |-> IF f \in DOMAIN x THEN x[f] ELSE call[c][f]]
  <2>1. Links!Set(c, x) BY <1>3, <1>9
  <2> HIDE DEF g
  <2>2. k.gone = g /\ k.e = call[c].e BY DEF Fields
  <2>3. g => call[c].e.gen \in dead BY <1>6 DEF g
  <2> HIDE DEF x, k
  <2>4. k.pc = "ask" /\ k.gone => k.e.gen \in dead' BY <1>1, <2>2, <2>3
  <2>5. k = [f \in Fields |-> IF f \in DOMAIN x THEN x[f] ELSE call[c][f]] BY DEF k
  <2>6. k.pc # "repair" BY <1>1 DEF k, x, Fields
  <2> QED BY <1>1, <2>1, <2>4, <2>5, <2>6, SetKeeps
<1> QED BY <1>7, <1>8, <1>9

LEMMA PlacementFileKeeps ==
  ASSUME LinkInv, NEW c \in Callers, Links!getPlacementFile(c)
  PROVE  LinkInv'
<1>1. kind' = kind /\ dead' = dead /\ call[c].pc = "fetch"
  BY DEF Links!getPlacementFile, Links!provider
<1>2. CASE Links!Finish(c, "error") BY <1>1, <1>2, FinishKeeps
<1>3. ASSUME NEW r, Links!Set(c, [e |-> r]) PROVE LinkInv'
  <2> DEFINE x == [e |-> r]
  <2>1. "pc" \notin DOMAIN x OBVIOUS
  <2>2. Links!Set(c, x) BY <1>3
  <2> HIDE DEF x
  <2> QED BY <1>1, <2>1, <2>2, GotoKeeps
<1> QED BY <1>2, <1>3 DEF Links!getPlacementFile

LEMMA ReinsertKeeps == ASSUME LinkInv, NEW c \in Callers, Links!ReinsertEntry(c) PROVE LinkInv'
<1>1. kind' = kind /\ dead' = dead BY DEF Links!ReinsertEntry, Links!provider
<1>2. CASE Links!Finish(c, "error") BY <1>1, <1>2, FinishKeeps
<1>3. CASE Links!Set(c, [pc |-> "fetch", e |-> rec', named |-> FALSE])
  <2> DEFINE x == [pc |-> "fetch", e |-> rec', named |-> FALSE]
  <2>1. "pc" \in DOMAIN x /\ x["pc"] = "fetch" OBVIOUS
  <2>2. Links!Set(c, x) BY <1>3
  <2> HIDE DEF x
  <2> QED BY <1>1, <2>1, <2>2, GotoKeeps
<1>4. CASE Links!Set(c, [pc |-> "fetch", named |-> FALSE])
  <2> DEFINE x == [pc |-> "fetch", named |-> FALSE]
  <2>1. "pc" \in DOMAIN x /\ x["pc"] = "fetch" OBVIOUS
  <2>2. Links!Set(c, x) BY <1>4
  <2> HIDE DEF x
  <2> QED BY <1>1, <2>1, <2>2, GotoKeeps
<1> QED BY <1>2, <1>3, <1>4 DEF Links!ReinsertEntry

LEMMA HeadKeeps == ASSUME LinkInv, NEW c \in Callers, Links!Head(c) PROVE LinkInv'
<1>1. kind' = kind /\ dead' = dead BY DEF Links!Head, Links!provider
<1>2. \/ Links!Finish(c, "link") \/ Links!Finish(c, "error")
      \/ Links!Set(c, [pc |-> "fetch"]) \/ Links!Set(c, [pc |-> "fetch", final |-> TRUE])
  BY DEF Links!Head, Links!invalidateAndRefetch
<1>3. CASE Links!Set(c, [pc |-> "fetch"])
  <2> DEFINE x == [pc |-> "fetch"]
  <2>1. "pc" \in DOMAIN x /\ x["pc"] = "fetch" OBVIOUS
  <2>2. Links!Set(c, x) BY <1>3
  <2> HIDE DEF x
  <2> QED BY <1>1, <2>1, <2>2, GotoKeeps
<1>4. CASE Links!Set(c, [pc |-> "fetch", final |-> TRUE])
  <2> DEFINE x == [pc |-> "fetch", final |-> TRUE]
  <2>1. "pc" \in DOMAIN x /\ x["pc"] = "fetch" OBVIOUS
  <2>2. Links!Set(c, x) BY <1>4
  <2> HIDE DEF x
  <2> QED BY <1>1, <2>1, <2>2, GotoKeeps
<1> QED BY <1>1, <1>2, <1>3, <1>4, FinishKeeps

\* Accounts and the provider: no call moves, and nothing lost comes back.
LEMMA SurroundingsKeep ==
  ASSUME LinkInv,
         \/ \E a \in Links!keys : Links!Sync(a) \/ Links!RefreshLinks(a) \/ Links!QuotaBack(a)
         \/ Links!Clear \/ Links!Event
  PROVE  LinkInv'
<1>1. kind' = kind /\ call' = call /\ dead \subseteq dead'
  BY DEF Links!Sync, Links!RefreshLinks, Links!QuotaBack, Links!Clear, Links!Event, Links!provider
<1> QED BY <1>1, OthersKeep DEF LinkInv

LEMMA LinkInvNext == LinkInv /\ Links!NextLinks => LinkInv'
<1> SUFFICES ASSUME LinkInv, Links!NextLinks PROVE LinkInv' OBVIOUS
<1>1. ASSUME NEW c \in Callers, Links!FileNotFound(c) PROVE LinkInv'
  BY <1>1, FinishKeeps DEF Links!FileNotFound, Links!provider
<1>2. ASSUME NEW c \in Callers, Links!Flight(c) PROVE LinkInv'
  BY <1>1, <1>2, FetchLinkKeeps, PlacementFileKeeps, AskKeeps, ReinsertKeeps, HeadKeeps
     DEF Links!Flight
<1>3. ASSUME NEW c \in Callers, NEW f \in Files, Links!GetLink(c, f) PROVE LinkInv'
  BY <1>3, GetLinkKeeps
<1> QED BY <1>2, <1>3, SurroundingsKeep DEF Links!NextLinks

LEMMA LinkInvariant == Spec => [](part = "links" => LinkInv)
<1>1. Init => (part = "links" => LinkInv) BY LinkInvInit DEF Init
<1>2. (part = "links" => LinkInv) /\ [Next]_mcvars => (part = "links" => LinkInv)'
  <2> SUFFICES ASSUME part = "links" => LinkInv, [Next]_mcvars, part' = "links" PROVE LinkInv'
    OBVIOUS
  <2>1. CASE part = "links" /\ Links!NextLinks BY <2>1, LinkInvNext
  <2>2. CASE UNCHANGED mcvars
    BY <2>2, OthersKeep DEF mcvars, links, LinkInv
  <2> QED BY <2>1, <2>2 DEF Next
<1> QED BY <1>1, <1>2, PTL DEF Spec

\* An entry is re-inserted only when the provider lost the placement the call
\* was reading, for any number of callers, files, accounts, calls and faults
\* (service.go, handleBadLink).
THEOREM ReinsertedIsLost == Spec => []ReinsertOnEvidence
<1>1. (part = "links" => LinkInv) => ReinsertOnEvidence
  BY LinkInvImplies DEF ReinsertOnEvidence
<1> QED BY <1>1, LinkInvariant, PTL

-----------------------------------------------------------------------------
(* The placements.                                                         *)

EntryFields == {"ex", "bad", "active", "pl"}
JobFields == {"pc", "e", "left", "src", "id", "keep"}
SynFields == {"pc", "p", "id", "ok", "e"}

\* A copy of the record says bad only when every provider has failed.
Earned(e) == DOMAIN e = EntryFields /\ (e.bad => conf \subseteq failedTo)

\* A fixer has been through the providers that are not left to it.
JobOk(m) ==
  /\ DOMAIN job[m] = JobFields /\ Earned(job[m].e)
  /\ m \in Fixers /\ job[m].pc # "idle" => conf \subseteq failedTo \cup job[m].left
SynOk(s) == DOMAIN syn[s] = SynFields /\ Earned(syn[s].e)

\* The inductive invariant.  Every copy counts: whoever holds one may write it
\* back.
PlaceInv ==
  /\ Earned(stored) /\ DOMAIN job = Placement!Movers /\ DOMAIN syn = Placement!Syncers
  /\ \A m \in Placement!Movers : JobOk(m)
  /\ \A s \in Placement!Syncers : SynOk(s)

LEMMA PlaceInvImplies == PlaceInv => Placement!BadIsEarned
BY DEF PlaceInv, Earned, Placement!BadIsEarned

LEMMA NoEntryEarned == DOMAIN Placement!NoEntry = EntryFields /\ Placement!NoEntry.bad = FALSE
BY DEF Placement!NoEntry, EntryFields

LEMMA IdleJobOk ==
  /\ DOMAIN Placement!IdleJob = JobFields /\ Placement!IdleJob.pc = "idle"
  /\ Placement!IdleJob.e = Placement!NoEntry
BY DEF Placement!IdleJob, JobFields

LEMMA IdleSynOk == DOMAIN Placement!IdleSyn = SynFields /\ Placement!IdleSyn.e = Placement!NoEntry
BY DEF Placement!IdleSyn, SynFields

LEMMA PlaceInvInit == Placement!InitPlacement => PlaceInv
<1> SUFFICES ASSUME Placement!InitPlacement PROVE PlaceInv OBVIOUS
<1>1. DOMAIN stored = EntryFields /\ stored.bad = FALSE
  BY DEF Placement!InitPlacement, EntryFields
<1>2. job = [m \in Placement!Movers |-> Placement!IdleJob]
      /\ syn = [s \in Placement!Syncers |-> Placement!IdleSyn]
  BY DEF Placement!InitPlacement
<1>3. \A m \in Placement!Movers : JobOk(m)
  BY <1>2, IdleJobOk, NoEntryEarned DEF JobOk, Earned
<1>4. \A s \in Placement!Syncers : SynOk(s)
  BY <1>2, IdleSynOk, NoEntryEarned DEF SynOk, Earned
<1> QED BY <1>1, <1>2, <1>3, <1>4 DEF PlaceInv, Earned

\* What was earned stays so: providers only ever fail more.
LEMMA EarnedStays ==
  ASSUME NEW e, Earned(e), conf' = conf, failedTo \subseteq failedTo'
  PROVE  Earned(e)'
BY DEF Earned

\* A step of a mover, which may write the record.
LEMMA JobKeeps ==
  ASSUME PlaceInv, conf' = conf, failedTo \subseteq failedTo', syn' = syn, Earned(stored)',
         NEW m \in Placement!Movers, DOMAIN job' = Placement!Movers,
         \A n \in Placement!Movers : n # m => job'[n] = job[n], JobOk(m)'
  PROVE  PlaceInv'
<1>1. ASSUME NEW n \in Placement!Movers, n # m PROVE JobOk(n)'
  <2>1. job'[n] = job[n] /\ JobOk(n) BY <1>1 DEF PlaceInv
  <2>2. Earned(job[n].e) BY <2>1 DEF JobOk
  <2>3. Earned(job[n].e)' BY <2>1, <2>2 DEF Earned
  <2> QED BY <2>1, <2>3 DEF JobOk
<1>2. ASSUME NEW s \in Placement!Syncers PROVE SynOk(s)'
  BY <1>2 DEF PlaceInv, SynOk, Earned
<1> QED BY <1>1, <1>2 DEF PlaceInv

\* A step of a sync, which may write the record.
LEMMA SynKeeps ==
  ASSUME PlaceInv, UNCHANGED <<conf, failedTo, job>>, Earned(stored)',
         NEW s \in Placement!Syncers, DOMAIN syn' = Placement!Syncers,
         \A r \in Placement!Syncers : r # s => syn'[r] = syn[r], SynOk(s)'
  PROVE  PlaceInv'
<1>1. ASSUME NEW r \in Placement!Syncers, r # s PROVE SynOk(r)'
  BY <1>1 DEF PlaceInv, SynOk, Earned
<1>2. \A m \in Placement!Movers : JobOk(m)' BY DEF PlaceInv, JobOk, Earned
<1> QED BY <1>1, <1>2 DEF PlaceInv

\* A step that leaves the jobs and the syncs alone.
LEMMA RestKeeps ==
  ASSUME PlaceInv, UNCHANGED <<conf, failedTo, job, syn>>, Earned(stored)'
  PROVE  PlaceInv'
<1>1. \A m \in Placement!Movers : JobOk(m)' BY DEF PlaceInv, JobOk, Earned
<1>2. \A s \in Placement!Syncers : SynOk(s)' BY DEF PlaceInv, SynOk, Earned
<1> QED BY <1>1, <1>2 DEF PlaceInv

-----------------------------------------------------------------------------
(* Each action.                                                            *)

LEMMA FixTorrentKeeps ==
  ASSUME PlaceInv, NEW x \in Fixers, Placement!FixTorrent(x)
  PROVE  PlaceInv'
<1> DEFINE j == [Placement!IdleJob EXCEPT !.pc = "claim", !.e = stored, !.left = conf]
<1>1. UNCHANGED <<conf, failedTo, syn, stored>> /\ job' = [job EXCEPT ![x] = j]
  BY DEF Placement!FixTorrent
<1>2. DOMAIN j = JobFields /\ j.pc = "claim" /\ j.e = stored /\ j.left = conf
  BY DEF Placement!IdleJob, JobFields
<1> HIDE DEF j
<1>3. x \in Placement!Movers BY DEF Placement!Movers
<1>4. DOMAIN job' = Placement!Movers /\ job'[x] = j
      /\ \A n \in Placement!Movers : n # x => job'[n] = job[n]
  BY <1>1, <1>3 DEF PlaceInv
<1>5. Earned(stored) /\ Earned(stored)' BY <1>1 DEF PlaceInv, Earned
<1>6. JobOk(x)' BY <1>1, <1>2, <1>4, <1>5 DEF JobOk, Earned
<1> QED BY <1>1, <1>3, <1>4, <1>5, <1>6, JobKeeps

LEMMA ClaimKeeps == ASSUME PlaceInv, NEW x \in Fixers, Placement!Claim(x) PROVE PlaceInv'
<1>1. UNCHANGED <<conf, failedTo, syn, stored>> /\ job' = [job EXCEPT ![x].pc = "next"]
      /\ job[x].pc = "claim"
  BY DEF Placement!Claim
<1>2. x \in Placement!Movers BY DEF Placement!Movers
<1>3. DOMAIN job' = Placement!Movers /\ job'[x] = [job[x] EXCEPT !.pc = "next"]
      /\ \A n \in Placement!Movers : n # x => job'[n] = job[n]
  BY <1>1, <1>2 DEF PlaceInv
<1>4. JobOk(x) BY <1>2 DEF PlaceInv
<1>5. DOMAIN job'[x] = JobFields /\ job'[x].e = job[x].e /\ job'[x].left = job[x].left
  BY <1>3, <1>4 DEF JobOk, JobFields
<1>6. Earned(job[x].e)' BY <1>1, <1>4, <1>5 DEF JobOk, Earned
<1>7. JobOk(x)' BY <1>1, <1>4, <1>5, <1>6 DEF JobOk
<1>8. Earned(stored)' BY <1>1 DEF PlaceInv, Earned
<1> QED BY <1>1, <1>2, <1>3, <1>7, <1>8, JobKeeps

\* A mover comes to rest.
LEMMA RestedOk ==
  ASSUME PlaceInv, NEW m \in Placement!Movers, job' = [job EXCEPT ![m] = Placement!IdleJob]
  PROVE  /\ DOMAIN job' = Placement!Movers
         /\ \A n \in Placement!Movers : n # m => job'[n] = job[n]
         /\ JobOk(m)'
<1>1. DOMAIN job' = Placement!Movers /\ job'[m] = Placement!IdleJob
      /\ \A n \in Placement!Movers : n # m => job'[n] = job[n]
  BY DEF PlaceInv
<1>2. job'[m].e = Placement!NoEntry /\ job'[m].pc = "idle" /\ DOMAIN job'[m] = JobFields
  BY <1>1, IdleJobOk
<1>3. Earned(job[m].e)' BY <1>2, NoEntryEarned DEF Earned
<1> QED BY <1>1, <1>2, <1>3 DEF JobOk

LEMMA NextAttemptKeeps ==
  ASSUME PlaceInv, NEW x \in Fixers, Placement!NextAttempt(x)
  PROVE  PlaceInv'
<1> DEFINE left == {p \in job[x].left : ~Placement!IsFailedToReinsert(p)}
<1>1. UNCHANGED <<conf, failedTo, syn>> /\ job[x].pc = "next" BY DEF Placement!NextAttempt
<1>2. x \in Placement!Movers BY DEF Placement!Movers
<1>3. JobOk(x) BY <1>2 DEF PlaceInv
<1>4. conf \subseteq failedTo \cup left
  BY <1>1, <1>3 DEF JobOk, Placement!IsFailedToReinsert
<1> HIDE DEF left
<1>5. CASE /\ left = {} /\ stored' = [job[x].e EXCEPT !.bad = TRUE]
           /\ job' = [job EXCEPT ![x] = Placement!IdleJob]
  <2>1. DOMAIN stored' = EntryFields BY <1>3, <1>5 DEF JobOk, Earned
  <2>2. Earned(stored)' BY <1>1, <1>4, <1>5, <2>1 DEF Earned
  <2> QED BY <1>1, <1>2, <1>5, <2>2, RestedOk, JobKeeps
<1>6. CASE stored' = stored /\ job' = [job EXCEPT ![x] = Placement!IdleJob]
  <2>1. Earned(stored)' BY <1>1, <1>6 DEF PlaceInv, Earned
  <2> QED BY <1>1, <1>2, <1>6, <2>1, RestedOk, JobKeeps
<1>7. CASE stored' = stored /\ job' = [job EXCEPT ![x].pc = "move", ![x].left = left]
  <2> DEFINE j == [job[x] EXCEPT !.pc = "move", !.left = left]
  <2>1. DOMAIN job' = Placement!Movers /\ job'[x] = j
        /\ \A n \in Placement!Movers : n # x => job'[n] = job[n]
    BY <1>2, <1>7 DEF PlaceInv
  <2>2. DOMAIN j = JobFields /\ j.e = job[x].e /\ j.left = left
    BY <1>3 DEF JobOk, JobFields
  <2> HIDE DEF j
  <2>3. Earned(job[x].e)' BY <1>1, <1>3, <2>1, <2>2 DEF JobOk, Earned
  <2>4. JobOk(x)' BY <1>1, <1>4, <2>1, <2>2, <2>3 DEF JobOk
  <2>5. Earned(stored)' BY <1>1, <1>7 DEF PlaceInv, Earned
  <2> QED BY <1>1, <1>2, <2>1, <2>4, <2>5, JobKeeps
<1> QED BY <1>5, <1>6, <1>7 DEF Placement!NextAttempt, Placement!Store, left

\* A placement added, activated or removed leaves the mark as it is.
LEMMA EditsKeepMark ==
  ASSUME NEW e, DOMAIN e = EntryFields, NEW p, NEW i
  PROVE  /\ DOMAIN Placement!AddTorrentProvider(e, p, i) = EntryFields
         /\ Placement!AddTorrentProvider(e, p, i).bad = e.bad
         /\ DOMAIN Placement!ActivatePlacement(e, p) = EntryFields
         /\ Placement!ActivatePlacement(e, p).bad = e.bad
BY DEF EntryFields, Placement!AddTorrentProvider, Placement!ActivatePlacement

LEMMA RemovalKeepsMark ==
  ASSUME NEW e, DOMAIN e = EntryFields, NEW p, NEW f \in Placement!RemoveProvider(e, p)
  PROVE  DOMAIN f = EntryFields /\ f.bad = e.bad
<1> DEFINE g == [e EXCEPT !.pl[p] = 0]
<1>1. DOMAIN g = EntryFields /\ g.bad = e.bad BY DEF EntryFields
<1>2. f = g \/ \E q : f = [g EXCEPT !.active = q] BY DEF Placement!RemoveProvider
<1> HIDE DEF g
<1> QED BY <1>1, <1>2 DEF EntryFields

\* An entry that was moved is not bad.
LEMMA ClearedIsEarned ==
  ASSUME NEW e, DOMAIN e = EntryFields
  PROVE  DOMAIN [e EXCEPT !.bad = FALSE] = EntryFields /\ [e EXCEPT !.bad = FALSE].bad = FALSE
BY DEF EntryFields

LEMMA MovedKeeps ==
  ASSUME PlaceInv, conf' = conf, syn' = syn, NEW m \in Placement!Movers, NEW e,
         DOMAIN e = EntryFields, e.bad = FALSE, Placement!Moved(m, e)
  PROVE  PlaceInv'
<1>1. stored' = e /\ failedTo' = failedTo BY DEF Placement!Moved, Placement!Store
<1>2. Earned(stored)' BY <1>1 DEF Earned
<1>3. CASE m \in Fixers
  <2>1. job' = [job EXCEPT ![m] = Placement!IdleJob] BY <1>3 DEF Placement!Moved
  <2> QED BY <1>1, <1>2, <2>1, RestedOk, JobKeeps
<1>4. CASE m \notin Fixers
  <2> DEFINE j == [job[m] EXCEPT !.pc = "drop", !.e = e]
  <2>1. job' = [job EXCEPT ![m].pc = "drop", ![m].e = e] BY <1>4 DEF Placement!Moved
  <2>2. DOMAIN job' = Placement!Movers /\ job'[m] = j
        /\ \A n \in Placement!Movers : n # m => job'[n] = job[n]
    BY <2>1 DEF PlaceInv
  <2>3. JobOk(m) BY DEF PlaceInv
  <2>4. DOMAIN j = JobFields /\ j.e = e BY <2>3 DEF JobOk, JobFields
  <2> HIDE DEF j
  <2>5. Earned(job[m].e)' BY <2>2, <2>4 DEF Earned
  <2>6. JobOk(m)' BY <1>4, <2>2, <2>4, <2>5 DEF JobOk
  <2> QED BY <1>1, <1>2, <2>2, <2>6, JobKeeps
<1> QED BY <1>3, <1>4

LEMMA NotMovedKeeps ==
  ASSUME PlaceInv, conf' = conf, syn' = syn, NEW m \in Placement!Movers,
         job[m].pc # "idle", Placement!NotMoved(m)
  PROVE  PlaceInv'
<1>1. JobOk(m) BY DEF PlaceInv
<1>2. stored' = job[m].e /\ failedTo \subseteq failedTo'
  BY DEF Placement!NotMoved, Placement!Store
<1>3. Earned(stored)' BY <1>1, <1>2 DEF JobOk, Earned
<1>4. CASE m \notin Fixers
  <2>1. job' = [job EXCEPT ![m] = Placement!IdleJob] BY <1>4 DEF Placement!NotMoved
  <2> QED BY <1>2, <1>3, <2>1, RestedOk, JobKeeps
<1>5. CASE m \in Fixers
  <2> DEFINE t == Placement!Target(m)
             j == [job[m] EXCEPT !.pc = "next", !.left = job[m].left \ {t}]
  <2>1. failedTo' = failedTo \cup {t} BY <1>5 DEF Placement!NotMoved
  <2>2. DOMAIN job' = Placement!Movers /\ job'[m] = j
        /\ \A n \in Placement!Movers : n # m => job'[n] = job[n]
    <3> HIDE DEF t
    <3>1. job' = [job EXCEPT ![m].pc = "next", ![m].left = @ \ {t}]
      BY <1>5 DEF Placement!NotMoved, t
    <3>2. DOMAIN job = Placement!Movers BY DEF PlaceInv
    <3>3. DOMAIN job[m] = JobFields BY <1>1 DEF JobOk
    <3> QED BY <3>1, <3>2, <3>3 DEF JobFields
  <2> HIDE DEF t
  <2>3. DOMAIN j = JobFields /\ j.e = job[m].e /\ j.left = job[m].left \ {t}
    BY <1>1 DEF JobOk, JobFields
  <2> HIDE DEF j
  <2>4. Earned(job[m].e)' BY <1>1, <1>2, <2>2, <2>3 DEF JobOk, Earned
  <2>5. conf' \subseteq failedTo' \cup job'[m].left BY <1>1, <1>5, <2>1, <2>2, <2>3 DEF JobOk
  <2>6. JobOk(m)' BY <2>2, <2>3, <2>4, <2>5 DEF JobOk
  <2> QED BY <1>2, <1>3, <2>2, <2>6, JobKeeps
<1> QED BY <1>4, <1>5

LEMMA MoveTorrentKeeps ==
  ASSUME PlaceInv, NEW m \in Placement!Movers, Placement!MoveTorrent(m)
  PROVE  PlaceInv'
<1> DEFINE e == job[m].e
           p == Placement!Target(m)
           moved == [Placement!ActivatePlacement(e, p) EXCEPT !.bad = FALSE]
<1>1. UNCHANGED <<conf, syn>> /\ job[m].pc = "move" BY DEF Placement!MoveTorrent
<1>2. JobOk(m) BY DEF PlaceInv
<1>3. DOMAIN moved = EntryFields /\ moved.bad = FALSE
  <2>1. DOMAIN Placement!ActivatePlacement(e, p) = EntryFields
    BY <1>2, EditsKeepMark DEF JobOk, Earned
  <2> QED BY <2>1, ClearedIsEarned
<1>4. CASE Placement!Moved(m, moved)
  <2> HIDE DEF moved
  <2> QED BY <1>1, <1>3, <1>4, MovedKeeps
<1>5. CASE Placement!NotMoved(m) BY <1>1, <1>5, NotMovedKeeps
<1>6. CASE /\ UNCHANGED <<stored, failedTo>>
           /\ job' = [job EXCEPT ![m].pc = "check", ![m].id = nextId]
  <2> DEFINE j == [job[m] EXCEPT !.pc = "check", !.id = nextId]
  <2>1. DOMAIN job' = Placement!Movers /\ job'[m] = j
        /\ \A n \in Placement!Movers : n # m => job'[n] = job[n]
    BY <1>6 DEF PlaceInv
  <2>2. DOMAIN j = JobFields /\ j.e = job[m].e /\ j.left = job[m].left
    BY <1>2 DEF JobOk, JobFields
  <2> HIDE DEF j
  <2>3. Earned(job[m].e)' BY <1>1, <1>2, <1>6, <2>1, <2>2 DEF JobOk, Earned
  <2>4. JobOk(m)' BY <1>1, <1>2, <1>6, <2>1, <2>2, <2>3 DEF JobOk
  <2>5. Earned(stored)' BY <1>1, <1>6 DEF PlaceInv, Earned
  <2> QED BY <1>1, <1>6, <2>1, <2>4, <2>5, JobKeeps
<1> QED BY <1>4, <1>5, <1>6 DEF Placement!MoveTorrent

LEMMA MoveCheckedKeeps ==
  ASSUME PlaceInv, NEW m \in Placement!Movers, Placement!moveChecked(m)
  PROVE  PlaceInv'
<1> DEFINE e == job[m].e
           p == Placement!Target(m)
           added == Placement!AddTorrentProvider(e, p, job[m].id)
           moved == [Placement!ActivatePlacement(added, p) EXCEPT !.bad = FALSE]
<1>1. UNCHANGED <<conf, syn>> /\ job[m].pc = "check" BY DEF Placement!moveChecked
<1>2. JobOk(m) BY DEF PlaceInv
<1>3. DOMAIN moved = EntryFields /\ moved.bad = FALSE
  <2>1. DOMAIN added = EntryFields BY <1>2, EditsKeepMark DEF JobOk, Earned
  <2> HIDE DEF added
  <2>2. DOMAIN Placement!ActivatePlacement(added, p) = EntryFields BY <2>1, EditsKeepMark
  <2> QED BY <2>2, ClearedIsEarned
<1>4. CASE Placement!Moved(m, moved)
  <2> HIDE DEF moved
  <2> QED BY <1>1, <1>3, <1>4, MovedKeeps
<1>5. CASE Placement!NotMoved(m) BY <1>1, <1>5, NotMovedKeeps
<1>6. CASE UNCHANGED <<stored, failedTo, job>>
  <2>1. Earned(stored)' BY <1>1, <1>6 DEF PlaceInv, Earned
  <2> QED BY <1>1, <1>6, <2>1, RestKeeps
<1> QED BY <1>4, <1>5, <1>6 DEF Placement!moveChecked

LEMMA SwitchKeeps == ASSUME PlaceInv, Placement!SwitchTorrent PROVE PlaceInv'
<1>1. UNCHANGED <<conf, failedTo, syn, stored>> BY DEF Placement!SwitchTorrent
<1>2. PICK p, k : job' = [job EXCEPT !["migration"] =
                    [Placement!IdleJob EXCEPT !.pc = "move", !.e = stored, !.left = {p},
                                              !.src = stored.active, !.keep = k]]
  BY DEF Placement!SwitchTorrent
<1> DEFINE j == [Placement!IdleJob EXCEPT !.pc = "move", !.e = stored, !.left = {p},
                                          !.src = stored.active, !.keep = k]
<1>3. DOMAIN j = JobFields /\ j.e = stored BY DEF Placement!IdleJob, JobFields
<1> HIDE DEF j
<1>4. "migration" \in Placement!Movers /\ "migration" \notin Fixers
  BY PlacementAssumption DEF Placement!Movers, Placement!FixersAssumption
<1>5. DOMAIN job' = Placement!Movers /\ job'["migration"] = j
      /\ \A n \in Placement!Movers : n # "migration" => job'[n] = job[n]
  BY <1>2, <1>4 DEF PlaceInv, j
<1>6. Earned(stored)' BY <1>1 DEF PlaceInv, Earned
<1>7. JobOk("migration")' BY <1>1, <1>3, <1>4, <1>5, <1>6 DEF JobOk, Earned
<1> QED BY <1>1, <1>4, <1>5, <1>6, <1>7, JobKeeps

LEMMA MigrationKeeps == ASSUME PlaceInv, Placement!executeMigration PROVE PlaceInv'
<1> DEFINE e == job["migration"].e
<1>1. UNCHANGED <<conf, failedTo, syn>>
      /\ job' = [job EXCEPT !["migration"] = Placement!IdleJob]
  BY DEF Placement!executeMigration
<1>2. "migration" \in Placement!Movers BY DEF Placement!Movers
<1>3. Earned(e) BY <1>2 DEF PlaceInv, JobOk
<1>4. stored' = e \/ stored' \in Placement!RemoveProvider(e, job["migration"].src)
  BY DEF Placement!executeMigration, Placement!Store
<1> HIDE DEF e
<1>5. DOMAIN stored' = EntryFields /\ stored'.bad = e.bad
  BY <1>3, <1>4, RemovalKeepsMark DEF Earned
<1>6. Earned(stored)' BY <1>1, <1>3, <1>5 DEF Earned
<1> QED BY <1>1, <1>2, <1>6, RestedOk, JobKeeps

\* A sync goes on with a record of its own, or comes to rest.
LEMMA SetSynKeeps ==
  ASSUME PlaceInv, UNCHANGED <<conf, failedTo, job>>, Earned(stored)',
         NEW s \in Placement!Syncers, NEW r, Placement!SetSyn(s, r),
         DOMAIN r = SynFields, DOMAIN r.e = EntryFields, r.e.bad => conf \subseteq failedTo
  PROVE  PlaceInv'
<1>1. DOMAIN syn' = Placement!Syncers /\ syn'[s] = r
      /\ \A q \in Placement!Syncers : q # s => syn'[q] = syn[q]
  BY DEF Placement!SetSyn, PlaceInv
<1>2. Earned(syn[s].e)' BY <1>1 DEF Earned
<1>3. SynOk(s)' BY <1>1, <1>2 DEF SynOk
<1> QED BY <1>1, <1>3, SynKeeps

LEMMA SynRests ==
  ASSUME PlaceInv, UNCHANGED <<conf, failedTo, job>>, Earned(stored)',
         NEW s \in Placement!Syncers, Placement!SetSyn(s, Placement!IdleSyn)
  PROVE  PlaceInv'
BY SetSynKeeps, IdleSynOk, NoEntryEarned

LEMMA RefreshTorrentsKeeps ==
  ASSUME PlaceInv, NEW p \in Placement!Providers, Placement!doRefreshTorrents(p)
  PROVE  PlaceInv'
<1>1. UNCHANGED <<conf, failedTo, job, stored>>
  BY DEF Placement!doRefreshTorrents, Placement!syncRest
<1>2. PICK i, o : Placement!SetSyn(p, [pc |-> "detect", p |-> p, e |-> Placement!NoEntry,
                                       id |-> i, ok |-> o])
  BY DEF Placement!doRefreshTorrents
<1> DEFINE r == [pc |-> "detect", p |-> p, e |-> Placement!NoEntry, id |-> i, ok |-> o]
<1>3. DOMAIN r = SynFields /\ r.e = Placement!NoEntry BY DEF SynFields
<1> HIDE DEF r
<1>4. p \in Placement!Syncers BY DEF Placement!Syncers
<1>5. Earned(stored)' BY <1>1 DEF PlaceInv, Earned
<1> QED BY <1>1, <1>2, <1>3, <1>4, <1>5, NoEntryEarned, SetSynKeeps DEF r

LEMMA DetectKeeps ==
  ASSUME PlaceInv, NEW p \in Placement!Providers, Placement!detectTorrentChanges(p)
  PROVE  PlaceInv'
<1>1. UNCHANGED <<conf, failedTo, job, stored>>
  BY DEF Placement!detectTorrentChanges, Placement!syncRest
<1>2. p \in Placement!Syncers BY DEF Placement!Syncers
<1>3. SynOk(p) /\ Earned(stored) /\ Earned(stored)' BY <1>1, <1>2 DEF PlaceInv, Earned
<1>4. ASSUME NEW f \in Placement!RemoveProvider(stored, p), NEW q,
             Placement!SetSyn(p, [syn[p] EXCEPT !.e = f, !.pc = q])
      PROVE  PlaceInv'
  <2> DEFINE r == [syn[p] EXCEPT !.e = f, !.pc = q]
  <2>1. DOMAIN r = SynFields /\ r.e = f BY <1>3 DEF SynOk, SynFields
  <2>2. DOMAIN f = EntryFields /\ f.bad = stored.bad BY <1>3, RemovalKeepsMark DEF Earned
  <2>3. Placement!SetSyn(p, r) BY <1>4
  <2> HIDE DEF r
  <2>4. f.bad => conf \subseteq failedTo BY <1>3, <2>2 DEF Earned
  <2> QED BY <1>1, <1>2, <1>3, <2>1, <2>2, <2>3, <2>4, SetSynKeeps
<1>5. CASE Placement!SetSyn(p, [syn[p] EXCEPT !.pc = "process"])
  <2> DEFINE r == [syn[p] EXCEPT !.pc = "process"]
  <2>1. DOMAIN r = SynFields /\ r.e = syn[p].e BY <1>3 DEF SynOk, SynFields
  <2>2. Placement!SetSyn(p, r) BY <1>5
  <2> HIDE DEF r
  <2>3. DOMAIN r.e = EntryFields /\ (r.e.bad => conf \subseteq failedTo)
    BY <1>3, <2>1 DEF SynOk, Earned
  <2> QED BY <1>1, <1>2, <1>3, <2>1, <2>2, <2>3, SetSynKeeps
<1>6. CASE Placement!SetSyn(p, Placement!IdleSyn) BY <1>1, <1>2, <1>3, <1>6, SynRests
<1> QED BY <1>4, <1>5, <1>6 DEF Placement!detectTorrentChanges

LEMMA ProcessKeeps ==
  ASSUME PlaceInv, NEW s \in Placement!Syncers, Placement!processSyncTorrent(s)
  PROVE  PlaceInv'
<1> DEFINE p == syn[s].p
           i == syn[s].id
           e == IF stored.ex THEN stored ELSE [Placement!NoEntry EXCEPT !.ex = TRUE, !.active = p]
           f == Placement!AddTorrentProvider(e, p, i)
           g == IF Placement!Placed(f) = {p} THEN Placement!ActivatePlacement(f, p) ELSE f
           r == [syn[s] EXCEPT !.pc = "flush", !.e = g]
<1>1. UNCHANGED <<conf, failedTo, job, stored>>
  BY DEF Placement!processSyncTorrent, Placement!syncRest
<1>2. SynOk(s) /\ Earned(stored) /\ Earned(stored)' BY <1>1 DEF PlaceInv, Earned
<1>3. Placement!SetSyn(s, r) \/ Placement!SetSyn(s, Placement!IdleSyn)
  BY DEF Placement!processSyncTorrent
<1>4. DOMAIN e = EntryFields /\ (e.bad => conf \subseteq failedTo)
  <2>1. CASE stored.ex BY <1>2, <2>1 DEF Earned
  <2>2. CASE ~stored.ex
    <3>1. DOMAIN e = EntryFields /\ e.bad = FALSE BY <2>2, NoEntryEarned DEF EntryFields
    <3> QED BY <3>1
  <2> QED BY <2>1, <2>2
<1> HIDE DEF e
<1>5. DOMAIN f = EntryFields /\ f.bad = e.bad BY <1>4, EditsKeepMark
<1> HIDE DEF f
<1>6. DOMAIN g = EntryFields /\ g.bad = e.bad BY <1>5, EditsKeepMark
<1> HIDE DEF g
<1>7. DOMAIN r = SynFields /\ r.e = g BY <1>2 DEF SynOk, SynFields
<1> HIDE DEF r
<1>8. g.bad => conf \subseteq failedTo BY <1>4, <1>6
<1> QED BY <1>1, <1>2, <1>3, <1>6, <1>7, <1>8, SetSynKeeps, SynRests

LEMMA WriterKeeps ==
  ASSUME PlaceInv, NEW s \in Placement!Syncers,
         Placement!runBatchWriter(s) \/ Placement!handleTorrentDeletions(s)
  PROVE  PlaceInv'
<1>1. /\ UNCHANGED <<conf, failedTo, job>> /\ Placement!SetSyn(s, Placement!IdleSyn)
      /\ stored' = syn[s].e \/ stored' = Placement!NoEntry
  BY DEF Placement!runBatchWriter, Placement!handleTorrentDeletions, Placement!syncRest,
         Placement!Store
<1>2. Earned(syn[s].e) BY DEF PlaceInv, SynOk
<1>3. Earned(stored)' BY <1>1, <1>2, NoEntryEarned DEF Earned
<1> QED BY <1>1, <1>3, SynRests

LEMMA RefreshTorrentKeeps == ASSUME PlaceInv, Placement!refreshTorrent PROVE PlaceInv'
<1>1. UNCHANGED <<conf, failedTo, job, stored>> BY DEF Placement!refreshTorrent
<1>2. PICK p, i, o : Placement!SetSyn("refresh", [Placement!IdleSyn EXCEPT !.pc = "process",
                                         !.p = p, !.id = i, !.ok = o])
  BY DEF Placement!refreshTorrent
<1> DEFINE r == [Placement!IdleSyn EXCEPT !.pc = "process", !.p = p, !.id = i, !.ok = o]
<1>3. DOMAIN r = SynFields /\ r.e = Placement!NoEntry BY DEF Placement!IdleSyn, SynFields
<1>4. Placement!SetSyn("refresh", r) BY <1>2
<1> HIDE DEF r
<1>5. "refresh" \in Placement!Syncers BY DEF Placement!Syncers
<1>6. Earned(stored)' BY <1>1 DEF PlaceInv, Earned
<1> QED BY <1>1, <1>3, <1>4, <1>5, <1>6, NoEntryEarned, SetSynKeeps

\* The background delete, the cleanup of unservable entries and the providers.
LEMMA BackgroundKeeps ==
  ASSUME PlaceInv,
         \/ Placement!DeleteTorrent \/ Placement!buildDebridGoneRefs \/ Placement!findDebridGone
         \/ Placement!deleteAndMarkDebridGone \/ Placement!Lose
  PROVE  PlaceInv'
<1>1. UNCHANGED <<conf, failedTo, job, syn>> /\ (stored' = stored \/ stored' = Placement!NoEntry)
  BY DEF Placement!DeleteTorrent, Placement!buildDebridGoneRefs, Placement!findDebridGone,
         Placement!deleteAndMarkDebridGone, Placement!Lose, Placement!goneRest, Placement!Store
<1>2. Earned(stored)' BY <1>1, NoEntryEarned DEF PlaceInv, Earned
<1> QED BY <1>1, <1>2, RestKeeps

LEMMA PlaceInvNext == PlaceInv /\ Placement!NextPlacement => PlaceInv'
<1> SUFFICES ASSUME PlaceInv, Placement!NextPlacement PROVE PlaceInv' OBVIOUS
<1>1. Placement!Providers \subseteq Placement!Syncers /\ "refresh" \in Placement!Syncers
  BY DEF Placement!Syncers
<1>2. ASSUME NEW m \in Placement!Movers, Placement!Move(m) PROVE PlaceInv'
  BY <1>2, MoveTorrentKeeps, MoveCheckedKeeps, ClaimKeeps, NextAttemptKeeps DEF Placement!Move
<1>3. ASSUME NEW p \in Placement!Providers, Placement!SyncStep(p) PROVE PlaceInv'
  BY <1>1, <1>3, RefreshTorrentsKeeps, DetectKeeps, ProcessKeeps, WriterKeeps
     DEF Placement!SyncStep
<1>4. CASE Placement!RefreshStep
  BY <1>1, <1>4, ProcessKeeps, WriterKeeps DEF Placement!RefreshStep
<1> QED BY <1>2, <1>3, <1>4, FixTorrentKeeps, SwitchKeeps, MigrationKeeps, RefreshTorrentKeeps,
           BackgroundKeeps DEF Placement!NextPlacement

LEMMA PlaceInvariant == Spec => [](part = "placement" => PlaceInv)
<1>1. Init => (part = "placement" => PlaceInv) BY PlaceInvInit DEF Init
<1>2. (part = "placement" => PlaceInv) /\ [Next]_mcvars => (part = "placement" => PlaceInv)'
  <2> SUFFICES ASSUME part = "placement" => PlaceInv, [Next]_mcvars, part' = "placement"
               PROVE  PlaceInv'
    OBVIOUS
  <2>1. CASE part = "placement" /\ Placement!NextPlacement BY <2>1, PlaceInvNext
  <2>2. CASE UNCHANGED mcvars
    <3>1. PlaceInv /\ UNCHANGED <<conf, failedTo, job, syn, stored>>
      BY <2>2 DEF mcvars, placement
    <3>2. Earned(stored)' BY <3>1 DEF PlaceInv, Earned
    <3> QED BY <3>1, <3>2, RestKeeps
  <2> QED BY <2>1, <2>2 DEF Next
<1> QED BY <1>1, <1>2, PTL DEF Spec

\* An entry is marked bad only after every configured provider failed to take
\* it back, for any number of fixers, re-insertions and faults and whatever
\* the other writers put back (fixer.go, FixTorrent).
THEOREM BadIsEarnedByAll == Spec => []BadIsEarned
<1>1. (part = "placement" => PlaceInv) => BadIsEarned
  BY PlaceInvImplies DEF BadIsEarned
<1> QED BY <1>1, PlaceInvariant, PTL
=============================================================================
