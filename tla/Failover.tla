------------------------------ MODULE Failover ------------------------------
(***************************************************************************)
(* One call of Client.ExecuteWithFailover or Client.ExecuteOnce            *)
(* (internal/nntp/client.go): which provider is asked next, what its       *)
(* answer excludes, when the retry moves to another provider, and which    *)
(* error the call settles on.  The reader pads a segment and queues a PAR2 *)
(* repair on a not-found, so that verdict is the one that must be right.   *)
(*                                                                         *)
(* Which of the eligible providers has a free connection, and what it      *)
(* answers, is the environment's choice at every step.                     *)
(***************************************************************************)
EXTENDS Integers, FiniteSets

CONSTANTS
  Provider,     \* c.providers
  Backbone,     \* Backbone[p]: the provider's backbone, or NoBackbone
  NoBackbone,
  Tier,         \* Tier[p]: "lead", "fill" or "blocked" (providerTier)
  Retries,      \* c.retries
  None          \* no provider

ASSUME ProviderAssumption == IsFiniteSet(Provider) /\ None \notin Provider
ASSUME TierAssumption == Tier \in [Provider -> {"lead", "fill", "blocked"}]
ASSUME RetriesAssumption == Retries \in Nat

VARIABLES
  pc,          \* "start", "loop", "exec", "reacquire", "judge", "once", "done"
  attempts,    \* providerAttempts
  tries,       \* retry.Do's attempt number
  hosts,       \* exclusions.hosts
  backbones,   \* exclusions.backbones
  unanswered,  \* hosts with a timeout on record
  notFound,    \* some provider gave a 430
  lastErr,     \* kind of lastErr, "nil" before the first
  cur,         \* currentProvider
  held,        \* the provider currentConn belongs to, or None
  errProvider,
  err,         \* kind of the error retry.Do returns
  verdict,     \* what the call returned
  freed,       \* connections given back per provider, minus those taken
  answers,     \* every answer each provider gave
  last,        \* the last answer of each provider
  checkoutFailed, \* an eligible provider gave no connection
  cancelled    \* the caller's context ended

vars == <<pc, attempts, tries, hosts, backbones, unanswered, notFound, lastErr,
          cur, held, errProvider, err, verdict, freed, answers, last,
          checkoutFailed, cancelled>>

\* ErrorType* of errors.go; "plain" is an error that is no *nntp.Error.
Retriable == {"timeout", "connection", "busy"}
Answer == {"ok", "not_found", "corrupt", "decode", "other", "panic", "plain"}
            \cup Retriable

TypeOK ==
  /\ pc \in {"start", "loop", "exec", "reacquire", "judge", "once", "done"}
  /\ attempts \in 0..Cardinality(Provider)
  /\ tries \in 0..(Retries + 1)
  /\ hosts \subseteq Provider
  /\ backbones \subseteq {Backbone[p] : p \in Provider} \ {NoBackbone}
  /\ unanswered \subseteq Provider
  /\ notFound \in BOOLEAN
  /\ lastErr \in Answer \cup {"nil"}
  /\ {cur, held, errProvider} \subseteq Provider \cup {None}
  /\ err \in Answer \cup {"nil"}
  /\ verdict \in Answer \cup {"nil"}
  /\ freed \in [Provider -> Int]
  /\ answers \in [Provider -> SUBSET Answer]
  /\ last \in [Provider -> Answer \cup {"nil"}]
  /\ checkoutFailed \in BOOLEAN /\ cancelled \in BOOLEAN

Init ==
  /\ pc = "start"
  /\ attempts = 0 /\ tries = 0
  /\ hosts = {} /\ backbones = {}
  /\ unanswered = {} /\ notFound = FALSE
  /\ lastErr = "nil" /\ err = "nil" /\ verdict = "nil"
  /\ cur = None /\ held = None /\ errProvider = None
  /\ freed = [p \in Provider |-> 0]
  /\ answers = [p \in Provider |-> {}]
  /\ last = [p \in Provider |-> "nil"]
  /\ checkoutFailed = FALSE /\ cancelled = FALSE

-----------------------------------------------------------------------------
(* Exclusions and eligibility.                                             *)

\* excludes: by host, or by a backbone that is set.
excludes(p, byHost) ==
  p \in byHost \/ (Backbone[p] # NoBackbone /\ Backbone[p] \in backbones)

\* excludesBackbone: the backbone is excluded, whatever the host.
excludesBackbone(p) == Backbone[p] # NoBackbone /\ Backbone[p] \in backbones

\* excludeForArticleNotFound: the whole backbone, or the host without one.
excludeForArticleNotFound(p) ==
  IF Backbone[p] # NoBackbone
  THEN backbones' = backbones \cup {Backbone[p]} /\ UNCHANGED hosts
  ELSE hosts' = hosts \cup {p} /\ UNCHANGED backbones

\* The tier getAnyAvailableConnection draws from: the leads that are not
\* excluded, or the fill tier when leads exist and all are excluded.
eligible(byHost) ==
  LET leads  == {p \in Provider : Tier[p] = "lead"}
      usable == {p \in leads : ~excludes(p, byHost)}
  IN  IF usable # {} THEN usable
      ELSE IF leads = {} THEN {}
      ELSE {p \in Provider : Tier[p] = "fill" /\ ~excludes(p, byHost)}

\* getAnyAvailableConnection hands out a connection of an eligible provider.
takes(p, byHost) ==
  /\ p \in eligible(byHost)
  /\ cur' = p
  /\ held' = p
  /\ freed' = [freed EXCEPT ![p] = @ - 1]

\* put or release of the connection held, if any.
gives ==
  /\ held' = None
  /\ freed' = IF held = None THEN freed ELSE [freed EXCEPT ![held] = @ + 1]

\* noteOutcome: only *nntp.Error answers count.  A timeout leaves the
\* provider unanswered, anything else answers for it.
noteOutcome(p, a) ==
  /\ notFound' = (notFound \/ a = "not_found")
  /\ unanswered' = CASE a = "timeout" -> unanswered \cup {p}
                     [] a \in {"panic", "plain"} -> unanswered
                     [] OTHER -> unanswered \ {p}

\* What provider p said, for the properties.
records(p, a) ==
  /\ answers' = [answers EXCEPT ![p] = @ \cup {a}]
  /\ last' = [last EXCEPT ![p] = a]

Return(v) == verdict' = v /\ pc' = "done"

-----------------------------------------------------------------------------
(* ExecuteWithFailover.                                                    *)

Start ==
  /\ pc = "start"
  /\ pc' \in {"loop", "once"}
  /\ UNCHANGED <<attempts, tries, hosts, backbones, unanswered, notFound,
                 lastErr, cur, held, errProvider, err, verdict, freed,
                 answers, last, checkoutFailed, cancelled>>

\* ctx.Err() != nil at the top of the loop.
CtxDone ==
  /\ pc = "loop"
  /\ attempts < Cardinality(Provider)
  /\ Return("plain")
  /\ cancelled' = TRUE
  /\ UNCHANGED <<attempts, tries, hosts, backbones, unanswered, notFound,
                 lastErr, cur, held, errProvider, err, freed, answers, last,
                 checkoutFailed>>

\* A checkout succeeds.
Acquire ==
  /\ pc = "loop"
  /\ attempts < Cardinality(Provider)
  /\ \E p \in Provider : takes(p, hosts) /\ errProvider' = p
  /\ tries' = 1
  /\ pc' = "exec"
  /\ UNCHANGED <<attempts, hosts, backbones, unanswered, notFound, lastErr,
                 err, verdict, answers, last, checkoutFailed, cancelled>>

\* Mutant: a checkout that finds nobody left ends the call with its error.
AcquireFailsReturns ==
  /\ pc = "loop"
  /\ attempts < Cardinality(Provider)
  /\ eligible(hosts) = {}
  /\ Return("plain")
  /\ UNCHANGED <<attempts, tries, hosts, backbones, unanswered, notFound,
                 lastErr, cur, held, errProvider, err, freed, answers, last,
                 checkoutFailed, cancelled>>

\* A checkout fails: nobody is eligible, or every eligible dial failed.  It
\* is no answer about the article, so lastErr keeps an earlier verdict.
AcquireFails ==
  /\ pc = "loop"
  /\ attempts < Cardinality(Provider)
  /\ \E e \in {"connection", "plain"} :
       lastErr' = IF lastErr = "nil" THEN e ELSE lastErr
  /\ checkoutFailed' = (checkoutFailed \/ eligible(hosts) # {})
  /\ attempts' = attempts + 1
  /\ UNCHANGED <<pc, tries, hosts, backbones, unanswered, notFound, cur, held,
                 errProvider, err, verdict, freed, answers, last, cancelled>>

\* safeExecute on the current connection, and what the retry closure does
\* with the answer.  A retriable failure and a corrupt or panicked read give
\* the connection up at once.
Exec(a) ==
  /\ pc = "exec"
  /\ records(cur, a)
  /\ \/ /\ a = "ok"
        /\ gives
        /\ Return("ok")
        /\ UNCHANGED <<errProvider, notFound, unanswered, err>>
     \/ /\ a # "ok"
        /\ errProvider' = cur
        /\ noteOutcome(cur, a)
        /\ err' = a
        /\ IF a \in Retriable \cup {"corrupt", "panic"}
           THEN gives ELSE UNCHANGED <<held, freed>>
        /\ pc' = IF a \in Retriable THEN "reacquire" ELSE "judge"
        /\ UNCHANGED verdict
  /\ UNCHANGED <<attempts, tries, hosts, backbones, lastErr, cur,
                 checkoutFailed, cancelled>>

\* The fresh connection for the retry: another provider if one is eligible
\* and has a connection, else any that is not excluded.  It is taken even
\* when the attempt budget is spent, and handed back by Judge.
Reacquire ==
  /\ pc = "reacquire"
  /\ \/ \E p \in Provider : takes(p, hosts \cup {cur}) /\ UNCHANGED checkoutFailed
     \/ /\ \E p \in Provider : takes(p, hosts)
        /\ checkoutFailed' = (checkoutFailed \/ eligible(hosts \cup {cur}) # {})
  /\ \/ /\ tries <= Retries
        /\ tries' = tries + 1
        /\ pc' = "exec"
     \/ /\ tries > Retries
        /\ pc' = "judge"
        /\ UNCHANGED tries
  /\ UNCHANGED <<attempts, hosts, backbones, unanswered, notFound, lastErr,
                 errProvider, err, verdict, answers, last, cancelled>>

\* No connection for the retry: retry.Unrecoverable(connErr).
ReacquireFails ==
  /\ pc = "reacquire"
  /\ err' \in {"connection", "plain"}
  /\ checkoutFailed' = (checkoutFailed \/ eligible(hosts) # {})
  /\ pc' = "judge"
  /\ UNCHANGED <<attempts, tries, hosts, backbones, unanswered, notFound,
                 lastErr, cur, held, errProvider, verdict, freed, answers,
                 last, cancelled>>

\* The context ends in retry.Do's delay between two attempts.
RetryCancelled ==
  /\ pc = "exec" /\ tries > 1
  /\ err' = "plain"
  /\ pc' = "judge"
  /\ cancelled' = TRUE
  /\ UNCHANGED <<attempts, tries, hosts, backbones, unanswered, notFound,
                 lastErr, cur, held, errProvider, verdict, freed, answers,
                 last, checkoutFailed>>

\* After retry.Do: hand the connection back, then exclude what the final
\* error speaks for, or return an error that no other provider can change.
Judge ==
  /\ pc = "judge"
  /\ gives
  /\ lastErr' = err
  /\ \/ /\ err \in {"not_found", "corrupt"}
        /\ excludeForArticleNotFound(errProvider)
        /\ attempts' = attempts + 1 /\ pc' = "loop"
        /\ UNCHANGED verdict
     \/ /\ err \in Retriable \cup {"panic"}
        /\ hosts' = hosts \cup {errProvider}
        /\ attempts' = attempts + 1 /\ pc' = "loop"
        /\ UNCHANGED <<backbones, verdict>>
     \/ /\ err \in {"decode", "other", "plain"}
        /\ Return(err)
        /\ UNCHANGED <<attempts, hosts, backbones>>
  /\ UNCHANGED <<tries, unanswered, notFound, cur, errProvider, err, answers,
                 last, checkoutFailed, cancelled>>

\* The verdict once every attempt is spent: a 430 stands unless a provider
\* only timed out and nobody on its backbone answered, or the last error is
\* a corrupt copy.
Settle ==
  IF ~notFound THEN IF lastErr = "nil" THEN "plain" ELSE lastErr
  ELSE IF \E p \in unanswered : ~excludesBackbone(p) THEN "timeout"
  ELSE IF lastErr = "corrupt" THEN "corrupt"
  ELSE "not_found"

\* Mutant: the loop ends one attempt early.
FinishEarly ==
  /\ pc = "loop"
  /\ attempts + 1 >= Cardinality(Provider)
  /\ Return(Settle)
  /\ UNCHANGED <<attempts, tries, hosts, backbones, unanswered, notFound,
                 lastErr, cur, held, errProvider, err, freed, answers, last,
                 checkoutFailed, cancelled>>

\* The loop over the providers has run out.
Finish ==
  /\ pc = "loop"
  /\ attempts = Cardinality(Provider)
  /\ Return(Settle)
  /\ UNCHANGED <<attempts, tries, hosts, backbones, unanswered, notFound,
                 lastErr, cur, held, errProvider, err, freed, answers, last,
                 checkoutFailed, cancelled>>

-----------------------------------------------------------------------------
(* ExecuteOnce: one connection, one answer.                                *)

ExecuteOnce(a) ==
  /\ pc = "once"
  /\ \/ \E p \in eligible({}) : records(p, a) /\ Return(a)
     \/ /\ a \in {"connection", "plain"}
        /\ Return(a)
        /\ UNCHANGED <<answers, last>>
  /\ UNCHANGED <<attempts, tries, hosts, backbones, unanswered, notFound,
                 lastErr, cur, held, errProvider, err, freed, checkoutFailed, cancelled>>

Done == pc = "done" /\ UNCHANGED vars

Next ==
  \/ Start \/ CtxDone \/ Acquire \/ AcquireFails
  \/ \E a \in Answer : Exec(a) \/ ExecuteOnce(a)
  \/ Reacquire \/ ReacquireFails \/ RetryCancelled \/ Judge \/ Finish \/ Done

Spec == Init /\ [][Next]_vars

-----------------------------------------------------------------------------
(* Properties.                                                             *)

\* A provider on p's backbone, p included, gave answer a.
BackboneSaid(p, a) ==
  \E q \in Provider :
    /\ q = p \/ (Backbone[p] # NoBackbone /\ Backbone[q] = Backbone[p])
    /\ a \in answers[q]

\* A not-found verdict never covers a provider that only timed out: one whose
\* last word is a timeout has a provider on its backbone that answered for
\* its copy, with a 430 or with a corrupt body.
NotFoundIsAnswered ==
  verdict = "not_found" /\ attempts > 0 =>
    \A p \in Provider :
      last[p] = "timeout" =>
        BackboneSaid(p, "not_found") \/ BackboneSaid(p, "corrupt")

\* Before the verdict not-found every provider within quota has been asked,
\* or its backbone has answered, unless an eligible provider had no
\* connection to give: the attempt budget never runs out on the way.
NotFoundAskedEveryone ==
  verdict = "not_found" /\ attempts > 0 /\ ~checkoutFailed =>
    \A p \in Provider :
      Tier[p] # "blocked" => answers[p] # {} \/ excludesBackbone(p)

\* An article that every provider asked answered 430 for is reported as
\* not-found, although the checkouts after the last 430 find nobody eligible:
\* a dead article that reads as anything else is never padded nor repaired.
DeadArticleIsReported ==
  pc = "done" /\ attempts > 0 /\ ~cancelled /\ ~checkoutFailed
  /\ UNION {answers[p] : p \in Provider} = {"not_found"}
    => verdict = "not_found"

\* The connection's slot is given back exactly once on every path, also when
\* the retry gave it up and found no other.
NoSlotLeftBehind ==
  /\ \A p \in Provider : freed[p] = IF held = p THEN -1 ELSE 0
  /\ pc = "done" => held = None
=============================================================================
