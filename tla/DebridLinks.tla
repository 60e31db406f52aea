----------------------------- MODULE DebridLinks -----------------------------
(***************************************************************************)
(* Debrid download links: GetLink of the link service (singleflight per    *)
(* file, fetch, HEAD validation, account swap, refetch, re-insertion) over *)
(* the account manager of one provider (current account, disabled flags,   *)
(* per-account link cache) and what the five provider clients answer.      *)
(*                                                                         *)
(* A download link is <<account that pays, file, placement>>.  A placement *)
(* is a number: re-inserting the torrent makes the next one.  The provider *)
(* (quotas, lost files, expired links, outages) is external.               *)
(***************************************************************************)
EXTENDS Integers, FiniteSets, FiniteSetsExt

CONSTANTS
    Kinds,        \* provider kinds the instance may be configured with
    Callers, Files,
    Keys(_),      \* kind -> the download keys configured, 1 is the main key
    QuotaReturns, \* TRUE: a spent traffic quota is renewed in the end
    MaxCalls, MaxPlacements, MaxFaults, MaxEvents  \* bounds

\* The five clients there are.
KindsAssumption ==
    Kinds \subseteq {"realdebrid", "torbox", "alldebrid", "debridlink", "premiumize"}

VARIABLES
    kind,      \* the configured provider
    disabled, current, cache,   \* account.Manager: flags, current, links
    valid, refused,             \* Service.validated: nil / an error
    rec,       \* stored entry: active placement, bad, file link known
    quota, dead, expired, lapsed, \* the provider's side
    call,      \* the GetLink calls
    limited,   \* accounts a link of theirs was refused for traffic (history)
    calls, faults, events

dlvars2 == <<kind, disabled, current, cache, valid, refused, rec, quota, dead,
             expired, lapsed, call, limited, calls, faults, events>>

keys == Keys(kind)
Main == 1
NoLink == <<0, "none", 0>>
\* TorBox, AllDebrid and Debrid-Link put the main API key in Token whatever
\* account made the link; Real-Debrid and Premiumize the account's own.
tokenOf(l) == IF kind \in {"realdebrid", "premiumize"} THEN l[1] ELSE Main
IdleCall == [pc |-> "idle", file |-> "none", named |-> TRUE, final |-> FALSE,
             e |-> [gen |-> 1, bad |-> FALSE, known |-> TRUE, keyed |-> TRUE], acc |-> 0,
             rest |-> {}, gone |-> FALSE, link |-> NoLink, lost |-> FALSE]

provider == <<quota, dead, expired, lapsed>>
accounts == <<disabled, current, cache>>
counters == <<calls, faults, events>>

InitLinks ==
    /\ kind \in Kinds /\ disabled = {} /\ current = Main /\ cache = {}
    /\ valid = {} /\ refused = {} /\ limited = {}
    /\ \E k \in BOOLEAN : rec = [gen |-> 1, bad |-> FALSE, known |-> k, keyed |-> TRUE]
    /\ quota = {} /\ dead = {} /\ expired = {} /\ lapsed = {}
    /\ call = [c \in Callers |-> IdleCall]
    /\ calls = 0 /\ faults = 0 /\ events = 0

Set(c, fields) ==
    call' = [call EXCEPT ![c] = [f \in DOMAIN IdleCall |->
                IF f \in DOMAIN fields THEN fields[f] ELSE call[c][f]]]

\* A finished flight answers its caller and everyone who waited on it.
\* Only whether the file was not found matters afterwards.
Finish(c, result) ==
    call' = [d \in Callers |->
        IF d = c \/ (call[d].pc = "wait" /\ call[d].file = call[c].file)
        THEN [IdleCall EXCEPT !.lost = (result = "not_found")] ELSE call[d]]

(***************************************************************************)
(* account.Manager                                                         *)
(***************************************************************************)
Active == keys \ disabled
FirstOf(s) == IF s = {} THEN Min(keys) ELSE Min(s)   \* a disabled one at worst
Current == IF current \in Active THEN current ELSE FirstOf(Active)
Disable(a) == /\ disabled' = disabled \cup {a}
              /\ current' = FirstOf(Active \ {a})

\* What a provider's fetchDownloadLink can answer account a for a file.
realdebridFetch(a, g) == IF g \in dead THEN {"gone"}
                         ELSE IF a \in quota THEN {"error"} ELSE {"link", "fault"}
torboxFetch(a, g) == {"link"}
alldebridFetch(a, g) == IF g \in dead \/ a \in quota THEN {"error"}
                        ELSE {"link", "fault"}
debridlinkFetch(a, g) == {"link"}
\* Mutant: any error of a directdl call is taken for a missing item.
FaultIsGone(a, g) == IF g \in dead THEN {"gone"} ELSE {"link", "gone"}
premiumizeFetch(a, g) == IF g \in dead THEN {"gone", "link"} ELSE {"link", "fault"}
fetchDownloadLink(a, g) ==
    CASE kind = "realdebrid" -> realdebridFetch(a, g)
      [] kind = "torbox"     -> torboxFetch(a, g)
      [] kind = "alldebrid"  -> alldebridFetch(a, g)
      [] kind = "debridlink" -> debridlinkFetch(a, g)
      [] kind = "premiumize" -> premiumizeFetch(a, g)

\* SyncAccounts: an account whose subscription lapsed is disabled, any other
\* one is enabled again.  Only Real-Debrid and Premiumize learn the date.
Sync(a) ==
    /\ a \in keys /\ events < MaxEvents
    /\ IF a \in lapsed /\ kind \in {"realdebrid", "premiumize"}
       THEN Disable(a)
       ELSE disabled' = disabled \ {a} /\ UNCHANGED current
    /\ events' = events + 1
    /\ UNCHANGED <<kind, cache, valid, refused, rec, provider, call, limited,
                   calls, faults>>

\* RefreshLinks stores the links the provider lists for an account.
RefreshLinks(a) ==
    /\ a \in keys /\ kind \in {"realdebrid", "debridlink"}
    /\ events < MaxEvents /\ events' = events + 1
    /\ \E f \in Files : cache' = cache \cup {<<a, f, rec.gen>>}
    /\ UNCHANGED <<kind, disabled, current, valid, refused, rec, provider, call,
                   limited, calls, faults>>

(***************************************************************************)
(* GetLink                                                                 *)
(***************************************************************************)
GetLink(c, f) ==
    /\ call[c].pc = "idle" /\ calls < MaxCalls /\ calls' = calls + 1
    /\ LET led == \E d \in Callers : call[d].pc \notin {"idle", "wait"} /\ call[d].file = f
       IN call' = [call EXCEPT ![c] = [IdleCall EXCEPT !.file = f, !.e = rec,
                       !.pc = IF led THEN "wait" ELSE "fetch"]]
    /\ UNCHANGED <<kind, accounts, valid, refused, rec, provider, limited, faults, events>>

\* fetchLink up to the provider: the file must be in the entry, a placement
\* without its link is refreshed first, the current account is asked first.
fetchLink(c) ==
    /\ call[c].pc = "fetch" /\ call[c].named /\ call[c].e.known
    /\ current' = Current
    /\ Set(c, [pc |-> "ask", acc |-> Current, gone |-> FALSE, rest |-> {0}])
    /\ UNCHANGED <<kind, disabled, cache, valid, refused, rec, provider, limited, counters>>

FileNotFound(c) ==
    /\ call[c].pc = "fetch" /\ ~call[c].named
    /\ Finish(c, "not_found")
    /\ UNCHANGED <<kind, accounts, valid, refused, rec, provider, limited, counters>>

\* A refresh (refreshTorrent) stores what it read under the info hash the
\* provider reported.  Real-Debrid's GetTorrent reports none: the caller goes
\* on with a copy that has no key, and the stored record stays as it was.
getPlacementFile(c) ==
    /\ call[c].pc = "fetch" /\ call[c].named /\ ~call[c].e.known
    /\ \/ /\ kind # "realdebrid"
          /\ rec' = [rec EXCEPT !.known = TRUE]
          /\ Set(c, [e |-> rec'])
       \/ /\ kind = "realdebrid"
          /\ Set(c, [e |-> [gen |-> rec.gen, bad |-> FALSE, known |-> TRUE, keyed |-> FALSE]])
          /\ UNCHANGED rec
       \/ Finish(c, "error") /\ UNCHANGED rec
    /\ UNCHANGED <<kind, accounts, valid, refused, provider, limited, counters>>

\* handleBadLink: only a provider that lost the file is answered with a
\* re-insertion.  The link it was handed is empty, so the retry that follows
\* a re-insertion asks for a file without a name and ends there: the count
\* of attempts never passes 1 and its limit of 3 is never met.
handleBadLink(c, gone) ==
    IF gone /\ ~call[c].e.bad /\ ~call[c].final THEN Set(c, [pc |-> "repair"])
    ELSE Finish(c, "error")

\* A fetched link: the one of a refetch is served as it is, a link checked
\* before is served or refused by the stored result, a new one is checked.
fetched(c, l) ==
    IF call[c].final \/ l \in valid THEN Finish(c, "link")
    ELSE IF l \in refused THEN Finish(c, "error")
    ELSE Set(c, [pc |-> "head", link |-> l])

\* One account's GetDownloadLink: its cached link, or the provider's answer.
\* rest is the list of the other active accounts, read after the first error.
Ask(c) ==
    /\ call[c].pc = "ask"
    /\ LET k == call[c]
           l == <<k.acc, k.file, k.e.gen>>
           others == IF k.rest = {0} THEN Active \ {k.acc} ELSE k.rest IN
       \E answer \in IF l \in cache THEN {"cached"} ELSE fetchDownloadLink(k.acc, k.e.gen) :
       /\ answer = "fault" => faults < MaxFaults
       /\ faults' = IF answer = "fault" THEN faults + 1 ELSE faults
       /\ IF answer \in {"cached", "link"}
          THEN /\ cache' = cache \cup {l}
               /\ expired' = IF answer = "link" THEN expired \ {l} ELSE expired
               /\ fetched(c, l)
          ELSE /\ UNCHANGED <<cache, expired>>
               /\ LET gone == k.gone \/ answer = "gone" IN
                  IF others = {} THEN handleBadLink(c, gone)
                  ELSE Set(c, [acc |-> Min(others), rest |-> others \ {Min(others)}, gone |-> gone])
    /\ UNCHANGED <<kind, disabled, current, valid, refused, rec, quota, dead, lapsed,
                   limited, calls, events>>

\* ReinsertEntry: re-inserted by this call, or by another one it waited on
\* (the caller's copy is then not touched), failed, or given up as bad.  A
\* copy without a key makes no magnet a provider takes.
ReinsertEntry(c) ==
    /\ call[c].pc = "repair"
    /\ \/ /\ rec.gen < MaxPlacements /\ call[c].e.keyed
          /\ rec' = [gen |-> rec.gen + 1, bad |-> FALSE, known |-> TRUE, keyed |-> TRUE]
          /\ Set(c, [pc |-> "fetch", e |-> rec', named |-> FALSE])
       \/ /\ Set(c, [pc |-> "fetch", named |-> FALSE])
          /\ \E d \in Callers \ {c} : call[d].file # call[c].file
          /\ UNCHANGED rec
       \/ Finish(c, "error") /\ UNCHANGED rec
       \/ /\ call[c].e.keyed
          /\ rec' = [call[c].e EXCEPT !.bad = TRUE]
          /\ Finish(c, "error")
    /\ UNCHANGED <<kind, accounts, valid, refused, provider, limited, counters>>

\* The category of an error code: what is to be done about it.
ErrorCodeToLinkError(code) ==
    CASE code = "200" -> "ok"
      [] code \in {"bandwidth_exceeded", "quota_exceeded"} -> "account"
      [] code \in {"link_expired", "invalid_download_code"} -> "refetch"
      [] code \in {"429", "503", "network_error"} -> "retry"
      [] OTHER -> "permanent"

\* What a HEAD on the link can answer.
validateLink(l) ==
    IF l[3] \in dead THEN {"link_not_found"}
    ELSE IF l[1] \in quota THEN {"bandwidth_exceeded"}
    ELSE IF l \in expired THEN {"link_expired"} ELSE {"200", "503", "500"}

accountOf(l) == IF tokenOf(l) \in keys THEN tokenOf(l) ELSE 0

\* The stored result and the account's cached link go; the second link is
\* served unvalidated.
invalidateAndRefetch(c, l, tok) ==
    /\ valid' = valid \ {l} /\ refused' = refused \ {l}
    /\ cache' = cache \ {<<tok, l[2], l[3]>>}
    /\ Set(c, [pc |-> "fetch", final |-> TRUE])

\* The HEAD and what fetchAndValidate makes of it: serve, store the error,
\* disable the account and start over, or drop the link and fetch it again.
Head(c) ==
    /\ call[c].pc = "head"
    /\ LET l == call[c].link  tok == accountOf(l) IN
       \E code \in validateLink(l) :
       LET answer == ErrorCodeToLinkError(code)
           fault == answer \in {"retry", "permanent"} /\ l[3] \notin dead IN
       /\ fault => faults < MaxFaults
       /\ faults' = IF fault THEN faults + 1 ELSE faults
       /\ limited' = IF answer = "account" THEN limited \cup {l[1]} ELSE limited
       /\ CASE answer = "ok" ->
                 /\ valid' = valid \cup {l} /\ Finish(c, "link")
                 /\ UNCHANGED <<refused, disabled, current, cache>>
            [] answer = "account" /\ tok # 0 ->
                 /\ Disable(tok) /\ valid' = {} /\ refused' = {}
                 /\ Set(c, [pc |-> "fetch"]) /\ UNCHANGED cache
            [] answer \in {"refetch", "retry"} ->
                 /\ invalidateAndRefetch(c, l, tok)
                 /\ UNCHANGED <<disabled, current>>
            [] OTHER ->
                 /\ refused' = refused \cup {l} /\ Finish(c, "error")
                 /\ UNCHANGED <<valid, disabled, current, cache>>
    /\ UNCHANGED <<kind, rec, provider, calls, events>>

\* linkService.Clear at midnight.
Clear == /\ events < MaxEvents /\ events' = events + 1 /\ valid' = {} /\ refused' = {}
         /\ UNCHANGED <<kind, accounts, rec, provider, call, limited, calls, faults>>

(***************************************************************************)
(* The provider                                                            *)
(***************************************************************************)
Event ==
    /\ events < MaxEvents /\ events' = events + 1
    /\ \/ \E a \in keys : quota' = quota \cup {a} /\ UNCHANGED <<dead, expired, lapsed>>
       \/ dead' = dead \cup {rec.gen} /\ UNCHANGED <<quota, expired, lapsed>>
       \/ \E l \in cache : expired' = expired \cup {l} /\ UNCHANGED <<quota, dead, lapsed>>
       \/ \E a \in keys : lapsed' = lapsed \cup {a} /\ UNCHANGED <<quota, dead, expired>>
    /\ UNCHANGED <<kind, accounts, valid, refused, rec, call, limited, calls, faults>>

QuotaBack(a) ==
    /\ a \in quota /\ QuotaReturns /\ quota' = quota \ {a}
    /\ UNCHANGED <<kind, accounts, valid, refused, rec, dead, expired, lapsed, call,
                   limited, counters>>

Flight(c) == \/ fetchLink(c) \/ FileNotFound(c) \/ getPlacementFile(c) \/ Ask(c)
             \/ ReinsertEntry(c) \/ Head(c)
NextLinks == \/ \E c \in Callers : Flight(c) \/ \E f \in Files : GetLink(c, f)
             \/ \E a \in keys : Sync(a) \/ RefreshLinks(a) \/ QuotaBack(a)
             \/ Clear \/ Event

\* Every flight goes on (its calls have timeouts), and a quota is daily.
SpecLinks == /\ InitLinks /\ [][NextLinks \/ UNCHANGED dlvars2]_dlvars2
             /\ \A c \in Callers : WF_dlvars2(Flight(c))
             /\ WF_dlvars2(\E a \in keys : QuotaBack(a))

(***************************************************************************)
(* Properties                                                              *)
(***************************************************************************)
\* An account is taken out of rotation only when a link it paid for was
\* refused for traffic, or its subscription lapsed.
DisabledOnEvidence == disabled \subseteq limited \cup lapsed

\* An entry is re-inserted only when the provider lost the placement the call
\* was reading: never for an outage or a spent quota (handleBadLink).
ReinsertOnEvidence == \A c \in Callers : call[c].pc = "repair" => call[c].e.gen \in dead
=============================================================================
