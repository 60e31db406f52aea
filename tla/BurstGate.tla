----------------------------- MODULE BurstGate ------------------------------
(***************************************************************************)
(* Bursts that download whole files into the mount's cache take turns, one *)
(* chunk at a time (precache_burst_gate.go, precache_durable_cache.go):    *)
(* read-aheads of files being played before the files of next episodes.  A *)
(* read-ahead stops when Plex says that its viewer is gone                 *)
(* (plex_sessions.go).                                                     *)
(***************************************************************************)
EXTENDS Integers, Sequences, SequencesExt, FiniteSets

CONSTANTS
  Playing, AheadBursts,  \* the bursts of the two classes
  Chunks,                \* chunks of a file
  MaxLosses,             \* bound on failures of a fetch, of Plex and of the context
  MaxMoves               \* bound on viewers leaving and coming back

VARIABLES
  busy,      \* the gate's turn is taken
  waiting,   \* [class -> the bursts waiting for a turn, oldest first]
  handed,    \* bursts whose turn channel has been closed
  burst,     \* [burst -> [pc, chunk, absent, res]]
  ended,     \* bursts whose context has ended
  wanted,    \* [burst -> chunks still missing from the durable cache]
  watching,  \* truth: the files Plex lists a session for
  answer,    \* plexSessionChecker: the files of the last answer, and whether it is
             \* "none" (before the first success), "fresh" or "stale" (degraded, too old)
  everLeft,  \* read-aheads whose viewer has been away
  losses, moves

bgvars == <<busy, waiting, handed, burst, ended, wanted, watching, answer, everLeft,
            losses, moves>>

GateAssumption == Playing \cap AheadBursts = {} /\ Chunks \in Nat

Bursts   == Playing \cup AheadBursts
Classes  == {"playing", "ahead"}
class(b) == IF b \in Playing THEN "playing" ELSE "ahead"

InitGate ==
  /\ busy = FALSE /\ waiting = [c \in Classes |-> <<>>] /\ handed = {}
  /\ burst = [b \in Bursts |-> [pc |-> "chunk", chunk |-> 1, absent |-> FALSE, res |-> "none"]]
  /\ ended = {} /\ watching = Playing /\ answer = [age |-> "none", listed |-> {}] /\ everLeft = {}
  /\ wanted = [b \in Bursts |-> (IF b \in Playing THEN 1 ELSE 2)..Chunks]
  /\ losses = 0 /\ moves = 0

Go(b, pc)   == burst' = [burst EXCEPT ![b].pc = pc]
End(b, res) == burst' = [burst EXCEPT ![b].pc = "done", ![b].res = res]
gate  == <<busy, waiting, handed>>
plex  == <<watching, answer, everLeft>>
Lose  == losses < MaxLosses /\ losses' = losses + 1

---------------------------------------------------------------------------
(* The gate                                                                *)

(* release hands the turn to the oldest waiter of the first class that has *)
(* one, without freeing the gate in between; rest are the turns handed that*)
(* it does not touch.                                                      *)
FirstClass == IF waiting["playing"] # <<>> THEN "playing" ELSE "ahead"
passOn(rest) ==
  LET c == FirstClass IN
  \/ /\ waiting[c] # <<>>
     /\ handed' = rest \cup {Head(waiting[c])}
     /\ waiting' = [waiting EXCEPT ![c] = Tail(@)]
     /\ UNCHANGED busy
  \/ waiting[c] = <<>> /\ busy' = FALSE /\ handed' = rest /\ UNCHANGED waiting
release == passOn(handed)

acquire(b) ==
  /\ burst[b].pc = "acquire"
  /\ IF busy
       THEN /\ waiting' = [waiting EXCEPT ![class(b)] = Append(@, b)]
            /\ Go(b, "waiting") /\ UNCHANGED busy
       ELSE busy' = TRUE /\ Go(b, "holding") /\ UNCHANGED waiting
  /\ UNCHANGED <<handed, ended, wanted, plex, losses, moves>>

(* The wait is over: the turn came, or the context ended (either may be    *)
(* taken when both have happened).                                         *)
turnComes(b) ==
  /\ burst[b].pc = "waiting" /\ b \in handed
  /\ handed' = handed \ {b} /\ Go(b, "holding")
  /\ UNCHANGED <<busy, waiting, ended, wanted, plex, losses, moves>>

giveUp(b) ==
  /\ burst[b].pc = "waiting" /\ b \in ended
  /\ Go(b, "withdraw")
  /\ UNCHANGED <<gate, ended, wanted, plex, losses, moves>>

(* A waiter that gives up leaves its queue, or passes on the turn that was *)
(* handed to it meanwhile.                                                 *)
WithdrawKeeps(b) ==
  /\ burst[b].pc = "withdraw" /\ End(b, "cancelled")
  /\ waiting' = [waiting EXCEPT ![class(b)] = SelectSeq(@, LAMBDA x : x # b)]
  /\ handed' = handed \ {b}
  /\ UNCHANGED <<busy, ended, wanted, plex, losses, moves>>
withdraw(b) ==
  /\ burst[b].pc = "withdraw" /\ End(b, "cancelled")
  /\ LET queue == waiting[class(b)] IN
     \/ \E i \in DOMAIN queue :
          /\ queue[i] = b /\ waiting' = [waiting EXCEPT ![class(b)] = RemoveAt(queue, i)]
          /\ UNCHANGED <<busy, handed>>
     \/ (\A i \in DOMAIN queue : queue[i] # b) /\ passOn(handed \ {b})
  /\ UNCHANGED <<ended, wanted, plex, losses, moves>>

---------------------------------------------------------------------------
(* Plex's word on the viewer                                               *)

(* watchState: no answer yet, a degraded checker and an answer too old all *)
(* leave the question open.                                                *)
watchState(b, a) ==
  IF a.age # "fresh" THEN "unknown" ELSE IF b \in a.listed THEN "playing" ELSE "absent"

(* viewerWatch.left: absent on two looks that are the grace period apart,  *)
(* with no other answer between them.                                      *)
stillWatched(b, seen, ok, gone) ==
  \/ seen # "absent" /\ burst' = [burst EXCEPT ![b].absent = FALSE, ![b].pc = ok]
  \/ /\ seen = "absent" /\ ~burst[b].absent
     /\ burst' = [burst EXCEPT ![b].absent = TRUE, ![b].pc = ok]
  \/ seen = "absent" /\ burst[b].absent /\ Go(b, ok)     \* within the grace period
  \/ seen = "absent" /\ burst[b].absent /\ Go(b, gone)

(* refresh: three tries at /status/sessions; a failure keeps the last      *)
(* answer until the grace period has passed.                               *)
refresh ==
  \/ answer' = [age |-> "fresh", listed |-> watching] /\ UNCHANGED losses
  \/ answer.age = "fresh" /\ answer' \in {answer, [answer EXCEPT !.age = "stale"]} /\ Lose
  \/ answer.age # "fresh" /\ answer' = answer /\ Lose

---------------------------------------------------------------------------
(* burstChunks                                                             *)

nextChunk(b) ==
  /\ burst[b].pc = "chunk"
  /\ \/ burst[b].chunk > Chunks /\ End(b, "complete")
     \/ /\ burst[b].chunk <= Chunks /\ burst[b].chunk \notin wanted[b]
        /\ burst' = [burst EXCEPT ![b].chunk = @ + 1]
     \/ /\ burst[b].chunk <= Chunks /\ burst[b].chunk \in wanted[b]
        /\ Go(b, IF b \in Playing THEN "keep" ELSE "acquire")
  /\ UNCHANGED <<gate, ended, wanted, plex, losses, moves>>

(* keep(false): asked before the turn, where it may refresh the sessions.  *)
keep(b) ==
  /\ burst[b].pc = "keep" /\ refresh
  /\ stillWatched(b, watchState(b, answer'), "acquire", "left")
  /\ UNCHANGED <<gate, ended, wanted, watching, everLeft, moves>>

leaveBurst(b) ==
  /\ burst[b].pc = "left" /\ End(b, "left")
  /\ UNCHANGED <<gate, ended, wanted, plex, losses, moves>>

(* keep(true): asked again while holding the turn, from what is known.     *)
keepHolding(b) ==
  /\ burst[b].pc = "holding"
  /\ IF b \in Playing THEN stillWatched(b, watchState(b, answer), "fetch", "give")
                      ELSE Go(b, "fetch")
  /\ UNCHANGED <<gate, ended, wanted, plex, losses, moves>>

giveBack(b) ==
  /\ burst[b].pc = "give" /\ release /\ End(b, "left")
  /\ UNCHANGED <<ended, wanted, plex, losses, moves>>

(* ReadAheadRange and persistSegments under the turn, then its release; a  *)
(* chunk that failed, ran out of budget or met the end of the context ends *)
(* the burst.                                                              *)
fetchChunk(b) ==
  /\ burst[b].pc = "fetch" /\ release
  /\ \/ /\ b \notin ended /\ wanted' = [wanted EXCEPT ![b] = @ \ {burst[b].chunk}]
        /\ burst' = [burst EXCEPT ![b].pc = "chunk", ![b].chunk = @ + 1]
        /\ UNCHANGED losses
     \/ b \in ended /\ End(b, "cancelled") /\ UNCHANGED <<wanted, losses>>
     \/ b \notin ended /\ Lose /\ End(b, "failed") /\ UNCHANGED wanted
  /\ UNCHANGED <<ended, plex, moves>>

(* The service stops: only the bursts of next episodes hang on its context *)
StopBursts ==
  /\ ended = {} /\ Lose /\ ended' = AheadBursts
  /\ UNCHANGED <<gate, burst, wanted, plex, moves>>

Viewer(b) ==
  /\ moves < MaxMoves /\ moves' = moves + 1 /\ b \in Playing
  /\ watching' = IF b \in watching THEN watching \ {b} ELSE watching \cup {b}
  /\ everLeft' = everLeft \cup {b}
  /\ UNCHANGED <<gate, burst, ended, wanted, answer, losses>>

burstChunks(b) ==
  \/ nextChunk(b) \/ keep(b) \/ leaveBurst(b) \/ acquire(b) \/ turnComes(b) \/ giveUp(b)
  \/ withdraw(b) \/ keepHolding(b) \/ giveBack(b) \/ fetchChunk(b)

NextGate == (\E b \in Bursts : burstChunks(b) \/ Viewer(b)) \/ StopBursts

SpecGate == InitGate /\ [][NextGate]_bgvars /\ \A b \in Bursts : WF_bgvars(burstChunks(b))

---------------------------------------------------------------------------
Owns(b) == b \in handed \/ burst[b].pc \in {"holding", "fetch", "give"}

(* The turn is never lost and never shared: the gate is busy exactly while *)
(* one burst holds the turn or has been handed it, also when a waiter's    *)
(* context ends while the turn is on its way (acquire's last lines).       *)
TurnIsOwned ==
  /\ Cardinality({b \in Bursts : Owns(b)}) = (IF busy THEN 1 ELSE 0)
  /\ (~busy) => \A c \in Classes : waiting[c] = <<>>

(* A next episode's chunk never starts while a read-ahead waits.           *)
PlayingFirst ==
  [][\A b \in AheadBursts :
       (burst[b].pc = "waiting" /\ b \notin handed /\ b \in handed')
         => waiting["playing"] = <<>>]_bgvars

(* A read-ahead is abandoned only for a viewer who has been away: silence, *)
(* errors and old answers from Plex never stop it.                         *)
LeftOnEvidence == \A b \in Playing : burst[b].res = "left" => b \in everLeft
============================================================================
