--------------------------- MODULE VerdictProofs ----------------------------
(***************************************************************************)
(* What the NNTP client may conclude of an article.  For every set of      *)
(* providers, every way they share backbones and tiers, and every number   *)
(* of retries: what a call of ExecuteWithFailover may report (Failover).   *)
(* For every set of providers, backbones, chunks and excluded hosts: what  *)
(* BatchStat and BatchStatComplete report (StatVerdict).  Of applyStatHint *)
(* the proofs use only that it rearranges the providers, so they hold      *)
(* whatever the hint says, and also if it changes while the sort runs.     *)
(***************************************************************************)
EXTENDS MCVerdicts, FiniteSetTheorems, SequenceTheorems, TLAPS

-----------------------------------------------------------------------------
(* ExecuteWithFailover.                                                    *)

Leads    == {p \in Provider : Tier[p] = "lead"}
Excluded == {p \in Provider : excludes(p, hosts)}
Working  == pc \in {"exec", "reacquire", "judge"}

\* The provider being asked, and the one the next verdict will exclude, are
\* not excluded yet: this is what makes every round of the loop count.
Asking ==
  /\ Working => /\ errProvider \in Provider /\ ~excludes(errProvider, hosts)
                /\ attempts < Cardinality(Provider)
  /\ pc \in {"exec", "reacquire"} => cur \in Provider
  /\ pc = "exec" => ~excludes(cur, hosts)
  /\ Working \/ notFound => Leads # {}
  /\ pc # "done" => verdict = "nil"
  /\ pc \in {"start", "once"} => attempts = 0
  /\ pc \in {"start", "once", "loop", "reacquire"} => held = None

\* What the call remembers is what the providers said.
Evidence ==
  /\ \A p \in hosts : answers[p] # {}
  /\ \A b \in backbones : \E q \in Provider :
        Backbone[q] = b /\ ("not_found" \in answers[q] \/ "corrupt" \in answers[q])
  /\ \A p \in unanswered : "timeout" \in answers[p]
  /\ pc # "done" => \A p \in Provider : /\ last[p] = "timeout" => p \in unanswered
                                        /\ "not_found" \in answers[p] => notFound
  /\ pc = "reacquire" => err \in Retriable /\ err \in answers[errProvider]
  /\ pc = "judge" => \/ err \in answers[errProvider]
                     \/ /\ err \in {"connection", "plain"}
                        /\ cancelled \/ \E a \in Retriable : a \in answers[errProvider]
  /\ pc = "judge" /\ err \in Retriable => answers[errProvider] # {}
  /\ lastErr = "corrupt" => \E p \in Provider : "corrupt" \in answers[p]
  /\ lastErr = "not_found" => notFound

\* As long as no eligible provider refused a connection, a round of the loop
\* that did not exclude another provider found nobody left to ask.
Budget ==
  (pc = "loop" \/ Working) /\ ~checkoutFailed
    => \/ attempts <= Cardinality(Excluded)
       \/ pc = "loop" /\ eligible(hosts) = {}

IInv ==
  /\ TypeOK /\ Asking /\ Evidence /\ Budget /\ NoSlotLeftBehind
  /\ NotFoundIsAnswered /\ NotFoundAskedEveryone /\ DeadArticleIsReported

-----------------------------------------------------------------------------
(* The pieces.                                                             *)

LEMMA EligibleIsFree ==
  ASSUME NEW S, NEW p \in eligible(S)
  PROVE  p \in Provider /\ ~excludes(p, S) /\ Leads # {}
BY DEF eligible, Leads

LEMMA ProviderCount == Cardinality(Provider) \in Nat
BY ProviderAssumption, FS_CardinalityType

LEMMA InitIInv == Init => IInv
<1> SUFFICES ASSUME Init PROVE IInv OBVIOUS
<1>1. TypeOK
  <2>1. notFound \in BOOLEAN /\ checkoutFailed \in BOOLEAN /\ cancelled \in BOOLEAN
    BY Zenon DEF Init
  <2>2. attempts \in 0..Cardinality(Provider) /\ tries \in 0..(Retries + 1)
    BY ProviderCount, RetriesAssumption DEF Init
  <2> QED BY <2>1, <2>2 DEF Init, TypeOK, Answer
<1>2. Asking BY DEF Init, Asking, Working
<1>3. Evidence BY DEF Init, Evidence
<1>4. Budget
  <2>1. Excluded \subseteq Provider BY DEF Excluded
  <2>2. Cardinality(Excluded) \in Nat
    BY <2>1, ProviderAssumption, FS_Subset, FS_CardinalityType
  <2> QED BY <2>2 DEF Init, Budget, Working
<1>5. NoSlotLeftBehind
  BY ProviderAssumption DEF Init, NoSlotLeftBehind
<1>6. NotFoundIsAnswered /\ NotFoundAskedEveryone /\ DeadArticleIsReported
  BY DEF Init, NotFoundIsAnswered, NotFoundAskedEveryone, DeadArticleIsReported
<1> QED BY <1>1, <1>2, <1>3, <1>4, <1>5, <1>6 DEF IInv

LEMMA StepTypes ==
  ASSUME IInv, [Next]_vars
  PROVE  TypeOK'
<1> USE ProviderCount, RetriesAssumption
<1> USE DEF IInv, TypeOK, Asking, Working, Answer, Retriable
<1>1. CASE Start BY <1>1 DEF Start
<1>2. CASE CtxDone BY <1>2 DEF CtxDone, Return
<1>3. CASE Acquire BY <1>3, EligibleIsFree DEF Acquire, takes
<1>4. CASE AcquireFails BY <1>4 DEF AcquireFails
<1>5. ASSUME NEW a \in Answer, Exec(a) PROVE TypeOK'
  <2>1. notFound' = notFound \/ notFound' = (notFound \/ a = "not_found")
    BY <1>5 DEF Exec, noteOutcome
  <2>2. notFound' \in BOOLEAN BY <2>1, Zenon
  <2>3. unanswered' \subseteq Provider BY <1>5 DEF Exec, noteOutcome
  <2>4. held' \in Provider \cup {None} /\ freed' \in [Provider -> Int]
    BY <1>5 DEF Exec, gives
  <2>5. answers' \in [Provider -> SUBSET Answer] /\ last' \in [Provider -> Answer \cup {"nil"}]
    BY <1>5 DEF Exec, records
  <2> QED BY <1>5, <2>2, <2>3, <2>4, <2>5 DEF Exec, Return
<1>6. ASSUME NEW a \in Answer, ExecuteOnce(a) PROVE TypeOK'
  BY <1>6 DEF ExecuteOnce, Return, records
<1>7. CASE Reacquire
  <2>1. checkoutFailed' = checkoutFailed
        \/ checkoutFailed' = (checkoutFailed \/ eligible(hosts \cup {cur}) # {})
    BY <1>7 DEF Reacquire
  <2>2. checkoutFailed' \in BOOLEAN BY <2>1, Zenon
  <2>3. PICK p \in Provider : cur' = p /\ held' = p /\ freed' = [freed EXCEPT ![p] = @ - 1]
    BY <1>7 DEF Reacquire, takes
  <2> QED BY <1>7, <2>2, <2>3 DEF Reacquire
<1>8. CASE ReacquireFails BY <1>8 DEF ReacquireFails
<1>9. CASE RetryCancelled BY <1>9 DEF RetryCancelled
<1>10. CASE Judge BY <1>10 DEF Judge, gives, Return, excludeForArticleNotFound
<1>11. CASE Finish BY <1>11 DEF Finish, Settle, Return
<1>12. CASE UNCHANGED vars BY <1>12 DEF vars
<1> QED BY <1>1, <1>2, <1>3, <1>4, <1>5, <1>6, <1>7, <1>8, <1>9, <1>10, <1>11, <1>12
        DEF Next, Done

\* Exclusions change in Judge alone.
LEMMA StepAsking ==
  ASSUME IInv, TypeOK', [Next]_vars
  PROVE  Asking'
<1> USE ProviderCount
<1> USE DEF IInv, TypeOK, Asking, Working, excludes
<1>1. CASE Start BY <1>1 DEF Start
<1>2. CASE CtxDone BY <1>2 DEF CtxDone, Return
<1>3. CASE Acquire BY <1>3, EligibleIsFree DEF Acquire, takes
<1>4. CASE AcquireFails BY <1>4 DEF AcquireFails
<1>5. ASSUME NEW a \in Answer, Exec(a) PROVE Asking'
  BY <1>5 DEF Exec, Return, noteOutcome, gives, Retriable
<1>6. ASSUME NEW a \in Answer, ExecuteOnce(a) PROVE Asking'
  BY <1>6 DEF ExecuteOnce, Return
<1>7. CASE Reacquire
  <2>1. PICK p \in Provider : cur' = p /\ ~excludes(p, hosts)
    BY <1>7, EligibleIsFree DEF Reacquire, takes
  <2> QED BY <1>7, <2>1 DEF Reacquire
<1>8. CASE ReacquireFails BY <1>8 DEF ReacquireFails
<1>9. CASE RetryCancelled BY <1>9 DEF RetryCancelled
<1>10. CASE Judge BY <1>10 DEF Judge, Return, gives
<1>11. CASE Finish BY <1>11 DEF Finish, Return
<1>12. CASE UNCHANGED vars BY <1>12 DEF vars
<1> QED BY <1>1, <1>2, <1>3, <1>4, <1>5, <1>6, <1>7, <1>8, <1>9, <1>10, <1>11, <1>12
        DEF Next, Done

\* An answer is remembered with the provider that gave it, and what Judge
\* excludes rests on the answer it judges.
LEMMA StepEvidence ==
  ASSUME IInv, TypeOK', [Next]_vars
  PROVE  Evidence'
<1> USE DEF IInv, TypeOK, Evidence
<1>1. CASE Start BY <1>1 DEF Start
<1>2. CASE CtxDone BY <1>2 DEF CtxDone, Return
<1>3. CASE Acquire BY <1>3 DEF Acquire
<1>4. CASE AcquireFails BY <1>4 DEF AcquireFails
<1>5. ASSUME NEW a \in Answer, Exec(a) PROVE Evidence'
  <2>1. cur \in Provider BY <1>5 DEF Exec, Asking
  <2>2. \A p \in Provider : answers'[p] = IF p = cur THEN answers[p] \cup {a} ELSE answers[p]
    BY <1>5, <2>1 DEF Exec, records
  <2>3. \A p \in Provider : last'[p] = IF p = cur THEN a ELSE last[p]
    BY <1>5, <2>1 DEF Exec, records
  <2>4. /\ hosts' = hosts /\ backbones' = backbones /\ lastErr' = lastErr
        /\ cancelled' = cancelled
    BY <1>5 DEF Exec
  <2>5. \A p \in unanswered' : "timeout" \in answers'[p]
    BY <1>5, <2>1, <2>2 DEF Exec, noteOutcome
  <2>6. pc' # "done" => \A p \in Provider : /\ last'[p] = "timeout" => p \in unanswered'
                                            /\ "not_found" \in answers'[p] => notFound'
    BY <1>5, <2>1, <2>2, <2>3 DEF Exec, noteOutcome, Return
  <2>7. pc' = "reacquire" => err' \in Retriable /\ err' \in answers'[errProvider']
    BY <1>5, <2>1, <2>2 DEF Exec, Return
  <2>8. pc' = "judge" => err' \in answers'[errProvider']
    BY <1>5, <2>1, <2>2 DEF Exec, Return
  <2>9. \A p \in hosts' : answers'[p] # {} BY <2>2, <2>4
  <2>10. \A b \in backbones' : \E q \in Provider :
           Backbone[q] = b /\ ("not_found" \in answers'[q] \/ "corrupt" \in answers'[q])
    BY <2>2, <2>4
  <2>11. lastErr' = "corrupt" => \E p \in Provider : "corrupt" \in answers'[p]
    BY <2>2, <2>4
  <2>12. pc' = "judge" /\ err' \in Retriable => answers'[errProvider'] # {} BY <2>8
  <2>13. lastErr' = "not_found" => notFound'
    <3>1. notFound' = notFound \/ notFound' = (notFound \/ a = "not_found")
      BY <1>5 DEF Exec, noteOutcome
    <3>2. notFound => notFound' BY <3>1, Zenon
    <3> QED BY <2>4, <3>2
  <2> QED BY <2>5, <2>6, <2>7, <2>8, <2>9, <2>10, <2>11, <2>12, <2>13
<1>6. ASSUME NEW a \in Answer, ExecuteOnce(a) PROVE Evidence'
  BY <1>6, EligibleIsFree DEF ExecuteOnce, Return, records
<1>7. CASE Reacquire BY <1>7 DEF Reacquire
<1>8. CASE ReacquireFails BY <1>8 DEF ReacquireFails
<1>9. CASE RetryCancelled BY <1>9 DEF RetryCancelled, Retriable
<1>10. CASE Judge
  <2>1. errProvider \in Provider BY <1>10 DEF Judge, Asking, Working
  <2>2. \A p \in hosts' : answers'[p] # {}
    BY <1>10, <2>1 DEF Judge, excludeForArticleNotFound, Retriable
  <2>3. \A b \in backbones' : \E q \in Provider :
           Backbone[q] = b /\ ("not_found" \in answers'[q] \/ "corrupt" \in answers'[q])
    BY <1>10, <2>1 DEF Judge, excludeForArticleNotFound
  <2>4. lastErr' = "corrupt" => \E p \in Provider : "corrupt" \in answers'[p]
    BY <1>10, <2>1 DEF Judge
  <2>5. lastErr' = "not_found" => notFound'
    BY <1>10, <2>1 DEF Judge
  <2> QED BY <1>10, <2>2, <2>3, <2>4, <2>5 DEF Judge, Return
<1>11. CASE Finish BY <1>11 DEF Finish, Return
<1>12. CASE UNCHANGED vars BY <1>12 DEF vars
<1> QED BY <1>1, <1>2, <1>3, <1>4, <1>5, <1>6, <1>7, <1>8, <1>9, <1>10, <1>11, <1>12
        DEF Next, Done

\* A round that asked somebody excludes one provider more: the one whose error
\* Judge acts on was not excluded before.
LEMMA StepBudget ==
  ASSUME IInv, TypeOK', [Next]_vars
  PROVE  Budget'
<1> USE DEF IInv, TypeOK, Budget, Working
<1>a. /\ IsFiniteSet(Excluded) /\ Cardinality(Excluded) \in Nat
      /\ IsFiniteSet(Excluded') /\ Cardinality(Excluded') \in Nat
  <2>1. Excluded \subseteq Provider /\ Excluded' \subseteq Provider BY DEF Excluded
  <2> QED BY <2>1, ProviderAssumption, FS_Subset, FS_CardinalityType
<1>b. hosts' = hosts /\ backbones' = backbones
        => Excluded' = Excluded /\ eligible(hosts)' = eligible(hosts)
  BY DEF Excluded, excludes, eligible
<1>1. CASE Start BY <1>1, <1>a, <1>b DEF Start, Asking
<1>2. CASE CtxDone BY <1>2 DEF CtxDone, Return
<1>3. CASE Acquire
  <2>1. eligible(hosts) # {} BY <1>3 DEF Acquire, takes
  <2> QED BY <1>3, <1>b, <2>1 DEF Acquire
<1>4. CASE AcquireFails
  <2>1. ~checkoutFailed' => eligible(hosts)' = {} /\ pc' = "loop"
    BY <1>4, <1>b DEF AcquireFails
  <2> QED BY <2>1
<1>5. ASSUME NEW a \in Answer, Exec(a) PROVE Budget'
  BY <1>5, <1>b DEF Exec, Return
<1>6. ASSUME NEW a \in Answer, ExecuteOnce(a) PROVE Budget'
  BY <1>6 DEF ExecuteOnce, Return
<1>7. CASE Reacquire BY <1>7, <1>b DEF Reacquire
<1>8. CASE ReacquireFails BY <1>8, <1>b DEF ReacquireFails
<1>9. CASE RetryCancelled BY <1>9, <1>b DEF RetryCancelled
<1>10. CASE Judge
  <2> SUFFICES ASSUME pc' # "done" PROVE Budget'
    BY <1>10 DEF Judge
  <2>1. errProvider \in Provider /\ errProvider \notin Excluded
    BY <1>10 DEF Judge, Asking, Excluded
  <2>2. Excluded \cup {errProvider} \subseteq Excluded'
    <3>1. \A p \in Provider : excludes(p, hosts) => excludes(p, hosts)'
      BY <1>10 DEF Judge, Return, excludeForArticleNotFound, excludes
    <3>2. excludes(errProvider, hosts)' /\ errProvider' = errProvider
      BY <1>10, <2>1 DEF Judge, Return, excludeForArticleNotFound, excludes
    <3> QED BY <2>1, <3>1, <3>2 DEF Excluded
  <2>3. Cardinality(Excluded \cup {errProvider}) = Cardinality(Excluded) + 1
    BY <1>a, <2>1, FS_AddElement
  <2>4. Cardinality(Excluded \cup {errProvider}) <= Cardinality(Excluded')
    BY <1>a, <2>2, FS_Subset
  <2>5. attempts' = attempts + 1 /\ checkoutFailed' = checkoutFailed
    BY <1>10 DEF Judge, Return
  <2> QED BY <1>10, <1>a, <2>3, <2>4, <2>5 DEF Judge
<1>11. CASE Finish BY <1>11 DEF Finish, Return
<1>12. CASE UNCHANGED vars BY <1>12, <1>b DEF vars
<1> QED BY <1>1, <1>2, <1>3, <1>4, <1>5, <1>6, <1>7, <1>8, <1>9, <1>10, <1>11, <1>12
        DEF Next, Done

\* A connection is held by the provider asked, until it is given back.
LEMMA StepSlots ==
  ASSUME IInv, TypeOK', [Next]_vars
  PROVE  NoSlotLeftBehind'
<1> USE ProviderAssumption
<1> USE DEF IInv, TypeOK, Asking, NoSlotLeftBehind
<1>1. CASE Start BY <1>1 DEF Start
<1>2. CASE CtxDone BY <1>2 DEF CtxDone, Return
<1>3. CASE Acquire BY <1>3 DEF Acquire, takes
<1>4. CASE AcquireFails BY <1>4 DEF AcquireFails
<1>5. ASSUME NEW a \in Answer, Exec(a) PROVE NoSlotLeftBehind'
  BY <1>5 DEF Exec, gives, Return
<1>6. ASSUME NEW a \in Answer, ExecuteOnce(a) PROVE NoSlotLeftBehind'
  BY <1>6 DEF ExecuteOnce, Return
<1>7. CASE Reacquire BY <1>7 DEF Reacquire, takes
<1>8. CASE ReacquireFails BY <1>8 DEF ReacquireFails
<1>9. CASE RetryCancelled BY <1>9 DEF RetryCancelled
<1>10. CASE Judge BY <1>10 DEF Judge, gives, Return
<1>11. CASE Finish BY <1>11 DEF Finish, Return
<1>12. CASE UNCHANGED vars BY <1>12 DEF vars
<1> QED BY <1>1, <1>2, <1>3, <1>4, <1>5, <1>6, <1>7, <1>8, <1>9, <1>10, <1>11, <1>12
        DEF Next, Done

\* A call that ended stays as it is, so each verdict is about the step that
\* ends the call.
LEMMA EndingSteps ==
  ASSUME IInv, [Next]_vars
  PROVE  \/ UNCHANGED vars
         \/ pc' # "done"
         \/ Finish
         \/ attempts' = 0
         \/ /\ verdict' # "not_found"
            /\ \/ cancelled'
               \/ \E p \in Provider : \E a \in answers'[p] : a # "not_found"
<1> USE DEF IInv, TypeOK, Asking
<1>1. CASE CtxDone BY <1>1 DEF CtxDone, Return
<1>2. ASSUME NEW a \in Answer, Exec(a), pc' = "done"
      PROVE  verdict' # "not_found" /\ \E p \in Provider : "ok" \in answers'[p]
  BY <1>2 DEF Exec, records, Return
<1>3. ASSUME NEW a \in Answer, ExecuteOnce(a) PROVE attempts' = 0
  BY <1>3 DEF ExecuteOnce
<1>4. ASSUME Judge, pc' = "done"
      PROVE  /\ verdict' # "not_found"
             /\ cancelled' \/ \E p \in Provider : \E a \in answers'[p] : a # "not_found"
  <2>1. errProvider \in Provider /\ err \in {"decode", "other", "plain"} /\ verdict' = err
    BY <1>4 DEF Judge, Working, Return
  <2>2. answers' = answers /\ cancelled' = cancelled BY <1>4 DEF Judge
  <2>3. cancelled \/ \E a \in answers[errProvider] : a # "not_found"
    BY <1>4, <2>1 DEF Judge, Evidence, Retriable
  <2> QED BY <2>1, <2>2, <2>3
<1> QED
  BY <1>1, <1>2, <1>3, <1>4 DEF Next, Done, Start, Acquire, AcquireFails, Reacquire,
     ReacquireFails, RetryCancelled

LEMMA StepAnswered ==
  ASSUME IInv, TypeOK', Asking', [Next]_vars
  PROVE  NotFoundIsAnswered'
<1> USE DEF IInv, Asking, NotFoundIsAnswered, BackboneSaid
<1>1. CASE UNCHANGED vars BY <1>1 DEF vars
<1>2. CASE Finish
  <2> SUFFICES ASSUME verdict' = "not_found", NEW p \in Provider, last'[p] = "timeout"
               PROVE  (BackboneSaid(p, "not_found") \/ BackboneSaid(p, "corrupt"))'
    OBVIOUS
  <2>1. p \in unanswered BY <1>2 DEF Finish, Evidence
  <2>2. notFound BY <1>2 DEF Finish, Return, Settle, Evidence
  <2>3. excludesBackbone(p) BY <1>2, <2>1, <2>2 DEF Finish, Return, Settle
  <2> QED BY <1>2, <2>3 DEF Finish, excludesBackbone, Evidence
<1>3. CASE pc' # "done" BY <1>3
<1>4. CASE attempts' = 0 \/ verdict' # "not_found" BY <1>4
<1> QED BY <1>1, <1>2, <1>3, <1>4, EndingSteps

\* Every provider within quota is excluded when the rounds run out, for one of
\* the two reasons of Budget.
LEMMA StepAskedEveryone ==
  ASSUME IInv, TypeOK', Asking', [Next]_vars
  PROVE  NotFoundAskedEveryone'
<1> USE DEF IInv, NotFoundAskedEveryone, excludesBackbone
<1>1. CASE UNCHANGED vars BY <1>1 DEF vars
<1>2. CASE Finish
  <2> SUFFICES ASSUME verdict' = "not_found", ~checkoutFailed',
                      NEW p \in Provider, Tier[p] # "blocked"
               PROVE  (answers[p] # {} \/ excludesBackbone(p))'
    OBVIOUS
  <2>1. notFound /\ Leads # {} BY <1>2 DEF Finish, Return, Settle, Evidence, Asking
  <2>2. attempts = Cardinality(Provider) /\ ~checkoutFailed /\ pc = "loop"
    BY <1>2 DEF Finish
  <2>3. excludes(p, hosts)
    <3>1. CASE eligible(hosts) = {}
      <4>1. Tier[p] \in {"lead", "fill"} BY TierAssumption
      <4>2. \A q \in Leads : excludes(q, hosts) BY <3>1 DEF eligible, Leads
      <4> QED BY <2>1, <3>1, <4>1, <4>2 DEF eligible, Leads
    <3>2. CASE Cardinality(Provider) <= Cardinality(Excluded)
      <4>1. Excluded \subseteq Provider BY DEF Excluded
      <4>2. Excluded = Provider
        BY <3>2, <4>1, ProviderAssumption, ProviderCount, FS_Subset, FS_CardinalityType
      <4> QED BY <4>2 DEF Excluded
    <3> QED BY <2>2, <3>1, <3>2 DEF Budget
  <2> QED BY <1>2, <2>3 DEF Finish, excludes, Evidence
<1>3. CASE pc' # "done" BY <1>3 DEF Asking
<1>4. CASE attempts' = 0 \/ verdict' # "not_found" BY <1>4 DEF TypeOK
<1> QED BY <1>1, <1>2, <1>3, <1>4, EndingSteps

LEMMA StepReported ==
  ASSUME IInv, TypeOK', [Next]_vars
  PROVE  DeadArticleIsReported'
<1> USE DEF IInv, DeadArticleIsReported
<1>1. CASE UNCHANGED vars BY <1>1 DEF vars
<1>2. CASE Finish
  <2> SUFFICES ASSUME UNION {answers'[p] : p \in Provider} = {"not_found"}
               PROVE  verdict' = "not_found"
    OBVIOUS
  <2>1. /\ \A p \in Provider : \A a \in answers[p] : a = "not_found"
        /\ \E p \in Provider : "not_found" \in answers[p]
    <3>1. answers' = answers BY <1>2 DEF Finish
    <3> QED BY <3>1
  <2>2. notFound BY <1>2, <2>1 DEF Finish, Evidence
  <2>3. unanswered = {} BY <2>1 DEF Evidence, TypeOK
  <2>4. lastErr # "corrupt" BY <2>1 DEF Evidence
  <2> QED BY <1>2, <2>2, <2>3, <2>4 DEF Finish, Return, Settle
<1>3. CASE pc' # "done" \/ attempts' = 0 BY <1>3
<1>4. CASE cancelled' BY <1>4
<1>5. CASE \E p \in Provider : \E a \in answers'[p] : a # "not_found"
  <2>1. UNION {answers'[p] : p \in Provider} # {"not_found"} BY <1>5
  <2> QED BY <2>1
<1> QED BY <1>1, <1>2, <1>3, <1>4, <1>5, EndingSteps

LEMMA StepIInv == IInv /\ [Next]_vars => IInv'
BY StepTypes, StepAsking, StepEvidence, StepBudget, StepSlots, StepAnswered,
   StepAskedEveryone, StepReported DEF IInv

-----------------------------------------------------------------------------
(* The theorems.                                                           *)

\* The inductive invariant of a failover call.
THEOREM Invariant == Spec => []IInv
BY InitIInv, StepIInv, PTL DEF Spec

\* ExecuteWithFailover concludes that an article is not found only when each
\* provider within quota was asked, or a provider on its backbone answered for
\* it, as long as connections were to be had: rounds without an answer never
\* use up the attempts that the providers still to be asked need.
THEOREM AskedEveryone == Spec => []NotFoundAskedEveryone
<1>1. IInv => NotFoundAskedEveryone BY DEF IInv
<1> QED BY <1>1, Invariant, PTL

\* The verdict not-found never rests on a provider whose last word is a
\* timeout: its backbone has answered for the copy.
THEOREM TimeoutIsNoVerdict == Spec => []NotFoundIsAnswered
<1>1. IInv => NotFoundIsAnswered BY DEF IInv
<1> QED BY <1>1, Invariant, PTL

\* An article that is dead everywhere is reported as not found, although the
\* rounds after the last 430 end in checkout errors.
THEOREM DeadIsReported == Spec => []DeadArticleIsReported
<1>1. IInv => DeadArticleIsReported BY DEF IInv
<1> QED BY <1>1, Invariant, PTL

\* Every connection the call takes goes back exactly once, on every path.
THEOREM SlotsGoBack == Spec => []NoSlotLeftBehind
<1>1. IInv => NoSlotLeftBehind BY DEF IInv
<1> QED BY <1>1, Invariant, PTL

-----------------------------------------------------------------------------
(* BatchStat and BatchStatComplete.                                        *)

In(s, p) == \E k \in DOMAIN s : s[k] = p

Shapes ==
  /\ skip \subseteq Batch!Providers /\ holds \in [Batch!Providers -> SUBSET Batch!Id]
  /\ ctxDone \in BOOLEAN /\ given \in BOOLEAN
  /\ phase \in {"probe", "chunks", "returned"}
  /\ st \in [Chunk -> {"pick", "ask", "done"}]
  /\ rest \in [Chunk -> Seq(Batch!Providers)] /\ askNow \in [Chunk -> Batch!Providers]
  /\ unresolved \in [Chunk -> SUBSET Batch!Id]
  /\ \A ch \in Chunk : unresolved[ch] \subseteq Ids[ch]
  /\ idHosts \in [Batch!Id -> SUBSET Batch!Providers] /\ said \in [Batch!Id -> SUBSET Batch!Providers]
  /\ idBackbones \in [Batch!Id -> SUBSET ({StatBackbone[p] : p \in Batch!Providers} \ {NoBackbone})]
  /\ result \in [Batch!Id -> {"none", "found", "missing", "error"}]
  /\ faults \in Nat

\* Until a chunk is done, each provider is still to be asked about each of its
\* unresolved articles, is being asked, failed to answer, or has answered.
Chase ==
  \A ch \in Chunk : st[ch] # "done" =>
    \A i \in unresolved[ch], p \in Batch!Providers \ skip :
      \/ In(rest[ch], p)
      \/ st[ch] = "ask" /\ askNow[ch] = p
      \/ i \in sawOtherErr \/ Batch!Answered(i, p)

\* The exclusions and the misses are what providers said, and they said what
\* is so.
Memory ==
  /\ \A i \in Batch!Id : idHosts[i] \subseteq said[i]
  /\ \A i \in Batch!Id : \A b \in idBackbones[i] : \E q \in said[i] : StatBackbone[q] = b
  /\ \A i \in Batch!Id : i \in sawNotFound <=> said[i] # {}
  /\ \A i \in Batch!Id : \A p \in said[i] : i \notin holds[p]
  /\ \A p, q \in Batch!Providers :
        StatBackbone[p] # NoBackbone /\ StatBackbone[p] = StatBackbone[q] => holds[p] = holds[q]
  /\ \A ch \in Chunk : st[ch] = "ask" => askNow[ch] \notin skip

\* A call that meets no failure and is not cancelled accounts for each article
\* of each chunk.
Account ==
  /\ phase = "returned" => \A ch \in Chunk : st[ch] = "done"
  /\ \A i \in Batch!Id : result[i] = "found" => \E p \in Batch!Providers \ skip : i \in holds[p]
  /\ exhaustive /\ faults = 0 /\ ~given =>
       /\ phase # "returned" => ~ctxDone
       /\ sawOtherErr = {}
       /\ \A ch \in Chunk : \A i \in Ids[ch] :
            /\ i \notin unresolved[ch] => result[i] = "found"
            /\ st[ch] = "done" /\ i \in unresolved[ch] /\ skip # Batch!Providers
                 => result[i] = "missing"

BatchInv == Shapes /\ Chase /\ Memory /\ Account /\ Batch!MissingIsUnanimous

-----------------------------------------------------------------------------
(* The order of the providers.                                             *)

\* The instance has its own copies of the library's operators.
LEMMA SameFinite == \A S : Batch!IsFiniteSet(S) <=> IsFiniteSet(S)
BY Zenon DEF Batch!IsFiniteSet, IsFiniteSet

LEMMA SameCardinality == \A S : Batch!Cardinality(S) = Cardinality(S)
BY Zenon DEF Batch!Cardinality, Cardinality

LEMMA SameBijection == \A S, T : Batch!Bijection(S, T) = Bijection(S, T)
BY Zenon DEF Batch!Bijection, Bijection, Batch!Injection, Injection, Batch!IsInjective,
             IsInjective, Batch!Surjection, Surjection

\* applyStatHint neither adds nor loses a provider.
LEMMA HintRearranges ==
  ASSUME NEW s \in Seq(Batch!Providers), NEW order \in Batch!applyStatHint(s)
  PROVE  /\ order \in Seq(Batch!Providers) /\ Len(order) = Len(s)
         /\ \A p \in Batch!Providers : In(s, p) => In(order, p)
<1>1. CASE order = s BY <1>1
<1>2. ASSUME NEW from \in Bijection(DOMAIN s, DOMAIN s),
             order = [i \in DOMAIN s |-> s[from[i]]]
      PROVE  /\ order \in Seq(Batch!Providers) /\ Len(order) = Len(s)
             /\ \A p \in Batch!Providers : In(s, p) => In(order, p)
  <2>1. DOMAIN s = 1..Len(s) /\ Len(s) \in Nat /\ \A i \in 1..Len(s) : s[i] \in Batch!Providers
    BY ElementOfSeq, LenProperties
  <2>2. /\ from \in [DOMAIN s -> DOMAIN s]
        /\ \A t \in DOMAIN s : \E k \in DOMAIN s : from[k] = t
    BY DEF Bijection, Surjection
  <2>3. order \in [1..Len(s) -> Batch!Providers] BY <1>2, <2>1, <2>2
  <2>4. order \in Seq(Batch!Providers) /\ Len(order) = Len(s)
    BY <2>1, <2>3
  <2>5. ASSUME NEW p \in Batch!Providers, In(s, p) PROVE In(order, p)
    <3>1. PICK t \in DOMAIN s : s[t] = p BY <2>5 DEF In
    <3>2. PICK k \in DOMAIN s : from[k] = t BY <2>2
    <3>3. k \in DOMAIN order /\ order[k] = p BY <1>2, <3>1, <3>2
    <3> QED BY <3>3 DEF In
  <2> QED BY <2>4, <2>5
<1>3. \/ order = s
      \/ \E from \in Bijection(DOMAIN s, DOMAIN s) : order = [i \in DOMAIN s |-> s[from[i]]]
  BY SameBijection DEF Batch!applyStatHint
<1> QED BY <1>1, <1>2, <1>3

\* statOrder names every provider.
LEMMA OrderNamesAll ==
  ASSUME Batch!ProviderAssumption, NEW home \in Primary, NEW s \in Batch!statOrder(home)
  PROVE  /\ s \in Seq(Batch!Providers) /\ s # << >>
         /\ \A p \in Batch!Providers : In(s, p)
<1>1. PICK m \in Batch!SetToSeqs(Primary \ {home}) : s = <<home>> \o m \o Backups
  BY DEF Batch!statOrder
<1> DEFINE S == Primary \ {home}
           n == Cardinality(S)
<1>2. IsFiniteSet(S) /\ n \in Nat
  BY SameFinite, FS_RemoveElement, FS_CardinalityType, FS_Subset DEF Batch!ProviderAssumption
<1>3. m \in [1..n -> S] /\ \A i, j \in 1..n : i # j => m[i] # m[j]
  BY <1>1, SameCardinality DEF Batch!SetToSeqs
<1>4. m \in Injection(1..n, S)
  BY <1>3 DEF Injection, IsInjective
<1>5. IsFiniteSet(1..n) /\ Cardinality(1..n) = n
  BY <1>2, FS_Interval
<1>6. m \in Surjection(1..n, S) BY <1>2, <1>4, <1>5, FS_Injection
<1>7. m \in Seq(Batch!Providers) /\ Len(m) = n
  <2>1. m \in [1..n -> Batch!Providers] BY <1>3 DEF Batch!Providers
  <2> HIDE DEF n
  <2> QED BY <1>2, <2>1
<1>8. \A p \in S : \E k \in 1..n : m[k] = p BY <1>6 DEF Surjection
<1>9. /\ Backups \in Seq(Batch!Providers) /\ Len(Backups) \in Nat /\ DOMAIN Backups = 1..Len(Backups)
      /\ \A p \in Batch!Range(Backups) : \E k \in 1..Len(Backups) : Backups[k] = p
  <2>1. Backups \in Seq(Batch!Range(Backups)) BY DEF Batch!ProviderAssumption
  <2>2. Batch!Range(Backups) \subseteq Batch!Providers BY DEF Batch!Providers
  <2> QED BY <2>1, <2>2, LenProperties, SeqDef DEF Batch!Range
<1>10. <<home>> \in Seq(Batch!Providers) /\ Len(<<home>>) = 1 /\ <<home>>[1] = home
  BY DEF Batch!Providers
<1> DEFINE a == <<home>> \o m
<1>11. /\ a \in Seq(Batch!Providers) /\ Len(a) = n + 1 /\ a[1] = home
       /\ \A k \in 1..n : a[k + 1] = m[k]
  <2>1. /\ a \in Seq(Batch!Providers) /\ Len(a) = 1 + n
        /\ \A i \in 1..(1 + n) : a[i] = IF i <= 1 THEN <<home>>[i] ELSE m[i - 1]
    <3> HIDE DEF n
    <3> DEFINE h == <<home>>
    <3>1. h \in Seq(Batch!Providers) /\ Len(h) = 1 BY <1>10
    <3> HIDE DEF h
    <3>2. /\ h \o m \in Seq(Batch!Providers) /\ Len(h \o m) = Len(h) + Len(m)
          /\ \A i \in 1..(Len(h) + Len(m)) :
               (h \o m)[i] = IF i <= Len(h) THEN h[i] ELSE m[i - Len(h)]
      BY <1>7, <3>1, ConcatProperties
    <3>3. Len(h) = 1 /\ Len(m) = n BY <1>7, <3>1
    <3> QED BY <3>2, <3>3 DEF h
  <2> HIDE DEF a, n
  <2> QED BY <1>2, <1>10, <2>1
<1>12. /\ s \in Seq(Batch!Providers) /\ Len(s) = n + 1 + Len(Backups)
       /\ \A k \in 1..(n + 1) : s[k] = a[k]
       /\ \A k \in 1..Len(Backups) : s[n + 1 + k] = Backups[k]
  <2>1. s = a \o Backups BY <1>1
  <2> HIDE DEF a, n
  <2>2. /\ s \in Seq(Batch!Providers) /\ Len(s) = (n + 1) + Len(Backups)
        /\ \A i \in 1..((n + 1) + Len(Backups)) :
             s[i] = IF i <= n + 1 THEN a[i] ELSE Backups[i - (n + 1)]
    <3>1. Len(a) = n + 1 /\ a \in Seq(Batch!Providers) /\ Backups \in Seq(Batch!Providers) BY <1>9, <1>11
    <3>2. /\ a \o Backups \in Seq(Batch!Providers) /\ Len(a \o Backups) = Len(a) + Len(Backups)
          /\ \A i \in 1..(Len(a) + Len(Backups)) :
               (a \o Backups)[i] = IF i <= Len(a) THEN a[i] ELSE Backups[i - Len(a)]
      BY <3>1, ConcatProperties
    <3> QED BY <2>1, <3>1, <3>2
  <2>3. Len(Backups) \in Nat BY <1>9
  <2>4. ASSUME NEW k \in 1..(n + 1) PROVE s[k] = a[k]
    <3>1. k \in 1..((n + 1) + Len(Backups)) /\ k <= n + 1 BY <1>2, <2>3
    <3> QED BY <2>2, <3>1
  <2>5. ASSUME NEW k \in 1..Len(Backups) PROVE s[n + 1 + k] = Backups[k]
    <3> DEFINE i == n + 1 + k
    <3>1. i \in 1..((n + 1) + Len(Backups)) /\ ~(i <= n + 1) /\ i - (n + 1) = k BY <1>2, <2>3
    <3> HIDE DEF i
    <3>2. s[i] = Backups[k] BY <2>2, <3>1
    <3> QED BY <3>2 DEF i
  <2> QED BY <2>2, <2>4, <2>5
<1> HIDE DEF a, n
<1>13. DOMAIN s = 1..(n + 1 + Len(Backups)) BY <1>2, <1>9, <1>12, LenProperties
<1>14. ASSUME NEW p \in Batch!Providers PROVE In(s, p)
  <2>1. CASE p = home BY <1>2, <1>9, <1>11, <1>12, <1>13, <2>1 DEF In
  <2>2. CASE p \in S
    <3>1. PICK k \in 1..n : m[k] = p BY <1>8, <2>2
    <3>2. k + 1 \in 1..(n + 1) /\ k + 1 \in DOMAIN s /\ s[k + 1] = p
      BY <1>2, <1>9, <1>11, <1>12, <1>13, <3>1
    <3> QED BY <3>2 DEF In
  <2>3. CASE p \in Batch!Range(Backups)
    <3>1. PICK k \in 1..Len(Backups) : Backups[k] = p BY <1>9, <2>3
    <3>2. n + 1 + k \in DOMAIN s /\ s[n + 1 + k] = p BY <1>2, <1>9, <1>12, <1>13, <3>1
    <3> QED BY <3>2 DEF In
  <2> QED BY <2>1, <2>2, <2>3 DEF Batch!Providers
<1>15. s # << >> BY <1>2, <1>9, <1>12
<1> QED BY <1>12, <1>14, <1>15

-----------------------------------------------------------------------------
(* The invariant.                                                          *)

LEMMA BatchInit ==
  ASSUME Batch!ProviderAssumption, Batch!IdAssumption, Batch!Init
  PROVE  BatchInv
<1>1. rest \in [Chunk -> Seq(Batch!Providers)]
      /\ \A ch \in Chunk : rest[ch] # << >> /\ \A p \in Batch!Providers : In(rest[ch], p)
  <2>1. rest \in [Chunk -> UNION {Batch!statOrder(h) : h \in Primary}] BY DEF Batch!Init
  <2>2. \A ch \in Chunk : HomeOf[ch] \in Primary /\ rest[ch] \in Batch!statOrder(HomeOf[ch])
    BY DEF Batch!Init, Batch!IdAssumption
  <2>3. \A ch \in Chunk : /\ rest[ch] \in Seq(Batch!Providers) /\ rest[ch] # << >>
                          /\ \A p \in Batch!Providers : In(rest[ch], p)
    BY <2>2, OrderNamesAll
  <2> QED BY <2>1, <2>3
<1>2. Shapes
  <2>1. askNow \in [Chunk -> Batch!Providers]
    <3>1. \A ch \in Chunk : rest[ch][1] \in Batch!Providers BY <1>1
    <3> QED BY <3>1 DEF Batch!Init
  <2>2. unresolved \in [Chunk -> SUBSET Batch!Id] /\ \A ch \in Chunk : unresolved[ch] = Ids[ch]
    BY DEF Batch!Init, Batch!IdAssumption, Batch!Id
  <2>3. skip \subseteq Batch!Providers BY DEF Batch!Init, Batch!ProviderAssumption
  <2> QED BY <1>1, <2>1, <2>2, <2>3 DEF Batch!Init, Shapes
<1>3. Chase BY <1>1 DEF Batch!Init, Chase
<1>4. Memory BY DEF Batch!Init, Memory
<1>5. Account
  <2>1. \A ch \in Chunk : Ids[ch] \subseteq Batch!Id BY DEF Batch!Id
  <2>2. phase # "returned" /\ ~ctxDone /\ sawOtherErr = {}
    BY DEF Batch!Init
  <2> QED BY <2>1, <2>2 DEF Batch!Init, Account
<1>6. Batch!MissingIsUnanimous BY DEF Batch!Init, Batch!MissingIsUnanimous
<1> QED BY <1>2, <1>3, <1>4, <1>5, <1>6 DEF BatchInv

\* What a reply does: some of the articles asked about are answered, the
\* others are left unverified, and only a failure or the end of the context
\* leaves any.
LEMMA AnswerParts ==
  ASSUME BatchInv, NEW ch \in Chunk, Batch!Answer(ch)
  PROVE  \E ans \in SUBSET Batch!queried(ch, askNow[ch]) :
           /\ sawOtherErr' = sawOtherErr \cup (Batch!queried(ch, askNow[ch]) \ ans)
           /\ unresolved' = [unresolved EXCEPT ![ch] = @ \ (ans \cap holds[askNow[ch]])]
           /\ sawNotFound' = sawNotFound \cup (ans \ holds[askNow[ch]])
           /\ Batch!excludeForArticleNotFound(ans \ holds[askNow[ch]], askNow[ch])
           /\ said' = [i \in Batch!Id |-> IF i \in ans \ holds[askNow[ch]] THEN said[i] \cup {askNow[ch]}
                                    ELSE said[i]]
           /\ result' = [i \in Batch!Id |-> IF i \in ans \cap holds[askNow[ch]] THEN "found" ELSE result[i]]
           /\ faults' \in Nat
           /\ faults' = 0 => faults = 0 /\ (ctxDone \/ ans = Batch!queried(ch, askNow[ch]))
<1> DEFINE p == askNow[ch]
           q == Batch!queried(ch, p)
<1>1. PICK k \in 0..Batch!Cardinality(q) :
        LET ans   == {i \in q : Batch!Cardinality({j \in q : j <= i}) <= k * Depth}
            found == ans \cap holds[p]
            miss  == ans \ holds[p]
        IN  /\ ans = q \/ ctxDone \/ faults < MaxFaults
            /\ faults' = IF ans = q \/ ctxDone THEN faults ELSE faults + 1
            /\ unresolved' = [unresolved EXCEPT ![ch] = @ \ found]
            /\ sawNotFound' = sawNotFound \cup miss
            /\ Batch!noteUnverified(q \ ans)
            /\ Batch!excludeForArticleNotFound(miss, p)
            /\ said' = [i \in Batch!Id |-> IF i \in miss THEN said[i] \cup {p} ELSE said[i]]
            /\ result' = [i \in Batch!Id |-> IF i \in found THEN "found" ELSE result[i]]
  BY Zenon DEF Batch!Answer
<1> DEFINE ans == {i \in q : Batch!Cardinality({j \in q : j <= i}) <= k * Depth}
<1>2. ans \in SUBSET q OBVIOUS
<1> HIDE DEF ans
<1>3. /\ faults' = IF ans = q \/ ctxDone THEN faults ELSE faults + 1
      /\ unresolved' = [unresolved EXCEPT ![ch] = @ \ (ans \cap holds[p])]
      /\ sawNotFound' = sawNotFound \cup (ans \ holds[p])
      /\ sawOtherErr' = sawOtherErr \cup (q \ ans)
      /\ Batch!excludeForArticleNotFound(ans \ holds[p], p)
      /\ said' = [i \in Batch!Id |-> IF i \in ans \ holds[p] THEN said[i] \cup {p} ELSE said[i]]
      /\ result' = [i \in Batch!Id |-> IF i \in ans \cap holds[p] THEN "found" ELSE result[i]]
  BY <1>1, Zenon DEF ans, Batch!noteUnverified
<1>4. faults' \in Nat /\ (faults' = 0 => faults = 0 /\ (ctxDone \/ ans = q))
  BY <1>3 DEF BatchInv, Shapes
<1> QED BY <1>2, <1>3, <1>4, Zenon

\* The probe, the return and the end of the caller's context leave the chunks
\* alone.
LEMMA QuietKeeps ==
  ASSUME BatchInv,
         \/ \E p \in Batch!Providers : Batch!ProbeAnswers(p) \/ Batch!ProbeFails(p) \/ Batch!ProbeCut(p)
         \/ Batch!probeSettle \/ Batch!Return \/ Batch!GiveUp \/ UNCHANGED Batch!vars
  PROVE  BatchInv'
<1> USE DEF BatchInv
<1>1. UNCHANGED <<skip, holds, exhaustive, st, rest, askNow, unresolved, Batch!ivars, result>>
  BY DEF Batch!ProbeAnswers, Batch!ProbeFails, Batch!ProbeCut, Batch!probeSettle, Batch!Return, Batch!GiveUp, Batch!vars
<1>2. /\ faults' \in Nat /\ (faults' = 0 => faults = 0)
      /\ phase' \in {"probe", "chunks", "returned"}
      /\ phase' = "returned" => \A ch \in Chunk : st[ch] = "done"
      /\ phase' # "returned" => phase # "returned"
      /\ ctxDone' \in BOOLEAN /\ given' \in BOOLEAN /\ (~given' => ~given)
      /\ phase' # "returned" /\ ctxDone' => ctxDone \/ given'
  <2> USE DEF Shapes, Account
  <2>1. ASSUME NEW p \in Batch!Providers, Batch!ProbeAnswers(p) \/ Batch!ProbeCut(p)
        PROVE  UNCHANGED <<faults, phase, ctxDone, given>>
    BY <2>1 DEF Batch!ProbeAnswers, Batch!ProbeCut
  <2>2. ASSUME NEW p \in Batch!Providers, Batch!ProbeFails(p)
        PROVE  faults' = faults + 1 /\ UNCHANGED <<phase, ctxDone, given>>
    BY <2>2 DEF Batch!ProbeFails
  <2>3. CASE Batch!probeSettle BY <2>3 DEF Batch!probeSettle
  <2>4. CASE Batch!Return BY <2>4 DEF Batch!Return
  <2>5. CASE Batch!GiveUp BY <2>5 DEF Batch!GiveUp
  <2>6. CASE UNCHANGED <<faults, phase, ctxDone, given>> BY <2>6
  <2>7. CASE faults' = faults + 1 /\ UNCHANGED <<phase, ctxDone, given>> BY <2>7
  <2>8. UNCHANGED Batch!vars => UNCHANGED <<faults, phase, ctxDone, given>> BY DEF Batch!vars
  <2> QED BY <2>1, <2>2, <2>3, <2>4, <2>5, <2>6, <2>7, <2>8
<1>3. Shapes' BY <1>1, <1>2 DEF Shapes, Batch!ivars
<1>4. Chase' BY <1>1 DEF Chase, Batch!ivars, Batch!Answered
<1>5. Memory' BY <1>1 DEF Memory, Batch!ivars
<1>6. Account' BY <1>1, <1>2 DEF Account, Batch!ivars
<1>7. Batch!MissingIsUnanimous' BY <1>1 DEF Batch!MissingIsUnanimous, Batch!ivars, Batch!Answered
<1> QED BY <1>3, <1>4, <1>5, <1>6, <1>7

LEMMA CancelledKeeps ==
  ASSUME BatchInv, Batch!IdAssumption, NEW ch \in Chunk, Batch!Cancelled(ch)
  PROVE  BatchInv'
<1> USE DEF BatchInv
<1>1. /\ UNCHANGED <<skip, holds, exhaustive, phase, rest, askNow, unresolved, Batch!ivars, faults>>
      /\ UNCHANGED <<ctxDone, given>> /\ ctxDone /\ phase = "chunks"
      /\ st' = [st EXCEPT ![ch] = "done"]
      /\ result' = [i \in Batch!Id |-> IF i \in Ids[ch] THEN "error" ELSE result[i]]
  BY DEF Batch!Cancelled, Batch!More
<1>2. Shapes' BY <1>1 DEF Shapes, Batch!ivars
<1>3. Chase' BY <1>1 DEF Chase, Batch!ivars, Batch!Answered, Shapes
<1>4. Memory' BY <1>1 DEF Memory, Batch!ivars, Shapes
<1>5. Account' BY <1>1 DEF Account, Shapes
<1>6. Batch!MissingIsUnanimous' BY <1>1 DEF Batch!MissingIsUnanimous, Batch!ivars, Batch!Answered, Shapes
<1> QED BY <1>2, <1>3, <1>4, <1>5, <1>6

\* A provider is passed over for an article only on its own word or on that of
\* its backbone.
LEMMA ExcludedAnswered ==
  ASSUME BatchInv, NEW i \in Batch!Id, NEW p \in Batch!Providers, Batch!excludes(i, p)
  PROVE  Batch!Answered(i, p)
<1> USE DEF BatchInv
<1>1. CASE p \in idHosts[i] BY <1>1 DEF Memory, Batch!Answered
<1>2. CASE StatBackbone[p] # NoBackbone /\ StatBackbone[p] \in idBackbones[i]
  <2>1. PICK q \in said[i] : StatBackbone[q] = StatBackbone[p] BY <1>2 DEF Memory
  <2> QED BY <1>2, <2>1 DEF Batch!Answered
<1> QED BY <1>1, <1>2 DEF Batch!excludes

\* The provider picked is asked, or was excluded, or has answered for every
\* article that is left.
LEMMA PickKeeps ==
  ASSUME BatchInv, NEW ch \in Chunk, Batch!Pick(ch)
  PROVE  BatchInv'
<1> USE DEF BatchInv
<1>1. /\ UNCHANGED <<skip, holds, exhaustive, phase, unresolved, Batch!ivars, result, ctxDone,
                     given, faults>>
      /\ st[ch] = "pick" /\ phase = "chunks" /\ rest[ch] # << >>
  BY DEF Batch!Pick, Batch!More
<1>2. PICK order \in Batch!applyStatHint(rest[ch]) :
        /\ rest' = [rest EXCEPT ![ch] = Tail(order)]
        /\ IF Head(order) \in skip \/ Batch!queried(ch, Head(order)) = {}
           THEN UNCHANGED <<st, askNow>>
           ELSE /\ askNow' = [askNow EXCEPT ![ch] = Head(order)]
                /\ st' = [st EXCEPT ![ch] = "ask"]
  BY Zenon DEF Batch!Pick
<1>3. rest[ch] \in Seq(Batch!Providers) BY DEF Shapes
<1>4. /\ order \in Seq(Batch!Providers) /\ order # << >>
      /\ \A p \in Batch!Providers : In(rest[ch], p) => In(order, p)
  BY <1>1, <1>3, HintRearranges
<1>5. /\ Head(order) \in Batch!Providers /\ Tail(order) \in Seq(Batch!Providers)
      /\ \A p \in Batch!Providers : In(order, p) => p = Head(order) \/ In(Tail(order), p)
  <2>1. /\ Head(order) = order[1] /\ Head(order) \in Batch!Providers /\ Tail(order) \in Seq(Batch!Providers)
        /\ Len(Tail(order)) = Len(order) - 1 /\ Len(order) \in Nat
        /\ DOMAIN order = 1..Len(order) /\ DOMAIN Tail(order) = 1..Len(Tail(order))
        /\ \A i \in 1..Len(Tail(order)) : Tail(order)[i] = order[i + 1]
    BY <1>4, HeadTailProperties, LenProperties
  <2>2. ASSUME NEW p \in Batch!Providers, In(order, p), p # Head(order)
        PROVE  In(Tail(order), p)
    <3>1. PICK k \in DOMAIN order : order[k] = p BY <2>2 DEF In
    <3>2. k # 1 BY <2>1, <2>2, <3>1
    <3>3. k - 1 \in DOMAIN Tail(order) /\ Tail(order)[k - 1] = p
      <4>1. k - 1 \in 1..Len(Tail(order)) /\ (k - 1) + 1 = k BY <2>1, <3>2
      <4> QED BY <2>1, <3>1, <4>1
    <3> QED BY <3>3 DEF In
  <2> QED BY <2>1, <2>2
<1> DEFINE p0 == Head(order)
           tl == Tail(order)
<1> HIDE DEF p0, tl
<1>6. /\ rest' = [rest EXCEPT ![ch] = tl] /\ p0 \in Batch!Providers /\ tl \in Seq(Batch!Providers)
      /\ \/ (p0 \in skip \/ Batch!queried(ch, p0) = {}) /\ st' = st /\ askNow' = askNow
         \/ /\ p0 \notin skip
            /\ askNow' = [askNow EXCEPT ![ch] = p0] /\ st' = [st EXCEPT ![ch] = "ask"]
      /\ \A p \in Batch!Providers : In(rest[ch], p) => p = p0 \/ In(tl, p)
  BY <1>2, <1>4, <1>5 DEF p0, tl
<1>7. Shapes' BY <1>1, <1>6 DEF Shapes, Batch!ivars
<1>8. Memory' BY <1>1, <1>6 DEF Memory, Batch!ivars, Shapes
<1>9. Account' BY <1>1, <1>6 DEF Account, Batch!ivars, Shapes
<1>10. Batch!MissingIsUnanimous' BY <1>1 DEF Batch!MissingIsUnanimous, Batch!ivars, Batch!Answered
<1>12. ASSUME NEW c \in Chunk, st'[c] # "done",
              NEW i \in unresolved[c], NEW p \in Batch!Providers \ skip
       PROVE  \/ In(rest'[c], p)
              \/ st'[c] = "ask" /\ askNow'[c] = p
              \/ i \in sawOtherErr \/ Batch!Answered(i, p)
  <2>1. CASE c # ch BY <1>1, <1>6, <1>12, <2>1 DEF Shapes, Chase
  <2>2. CASE c = ch
    <3>1. rest'[c] = tl BY <1>6, <2>2 DEF Shapes
    <3>2. In(rest[c], p) \/ i \in sawOtherErr \/ Batch!Answered(i, p)
      BY <1>1, <1>12, <2>2 DEF Chase
    <3>3. CASE In(rest[c], p) /\ p = p0
      <4>1. CASE Batch!queried(ch, p0) = {}
        <5>1. Batch!excludes(i, p) BY <1>12, <2>2, <3>3, <4>1 DEF Batch!queried
        <5> QED BY <1>12, <5>1, ExcludedAnswered DEF Shapes
      <4>2. CASE Batch!queried(ch, p0) # {}
        <5>1. st'[c] = "ask" /\ askNow'[c] = p0 BY <1>6, <1>12, <2>2, <3>3, <4>2 DEF Shapes
        <5> QED BY <3>3, <5>1
      <4> QED BY <4>1, <4>2
    <3> QED BY <1>6, <2>2, <3>1, <3>2, <3>3
  <2> QED BY <2>1, <2>2
<1>13. Chase' BY <1>1, <1>12 DEF Chase, Batch!ivars, Batch!Answered
<1> QED BY <1>7, <1>8, <1>9, <1>10, <1>13

\* An answer resolves, excludes or leaves unverified every article asked about,
\* and those not asked about were answered for before.
LEMMA AnswerKeeps ==
  ASSUME BatchInv, Batch!IdAssumption, NEW ch \in Chunk, Batch!Answer(ch)
  PROVE  BatchInv'
<1> USE DEF BatchInv
<1> DEFINE p == askNow[ch]
           q == Batch!queried(ch, p)
<1>1. PICK ans \in SUBSET q :
           /\ sawOtherErr' = sawOtherErr \cup (q \ ans)
           /\ unresolved' = [unresolved EXCEPT ![ch] = @ \ (ans \cap holds[p])]
           /\ sawNotFound' = sawNotFound \cup (ans \ holds[p])
           /\ Batch!excludeForArticleNotFound(ans \ holds[p], p)
           /\ said' = [i \in Batch!Id |-> IF i \in ans \ holds[p] THEN said[i] \cup {p} ELSE said[i]]
           /\ result' = [i \in Batch!Id |-> IF i \in ans \cap holds[p] THEN "found" ELSE result[i]]
           /\ faults' \in Nat
           /\ faults' = 0 => faults = 0 /\ (ctxDone \/ ans = q)
  BY AnswerParts, Zenon
<1>2. /\ st[ch] = "ask" /\ st' = [st EXCEPT ![ch] = "pick"]
      /\ UNCHANGED <<skip, holds, exhaustive, phase, rest, askNow, ctxDone, given>>
  BY DEF Batch!Answer
<1>3. /\ p \in Batch!Providers /\ p \notin skip /\ q \subseteq unresolved[ch] /\ q \subseteq Batch!Id
      /\ unresolved[ch] \subseteq Ids[ch]
      /\ \A i \in unresolved[ch] : i \notin q => Batch!excludes(i, p)
  BY <1>2 DEF Shapes, Memory, Batch!queried
<1> HIDE DEF p, q
<1>4. /\ \A i \in Batch!Id : said'[i] = IF i \in ans \ holds[p] THEN said[i] \cup {p} ELSE said[i]
      /\ \A i \in Batch!Id : result'[i] = IF i \in ans \cap holds[p] THEN "found" ELSE result[i]
      /\ \A c \in Chunk : unresolved'[c] = IF c = ch THEN unresolved[c] \ (ans \cap holds[p])
                                            ELSE unresolved[c]
      /\ \A c \in Chunk : st'[c] = IF c = ch THEN "pick" ELSE st[c]
  BY <1>1, <1>2 DEF Shapes
<1> DEFINE miss == ans \ holds[p]
<1>a. \A i \in Batch!Id : \A r : r \in said'[i] <=> r \in said[i] \/ (i \in miss /\ r = p)
  BY <1>4
<1>b. Batch!excludeForArticleNotFound(miss, p) BY <1>1
<1> HIDE DEF miss
<1>5. /\ idHosts' \in [Batch!Id -> SUBSET Batch!Providers]
      /\ idBackbones' \in [Batch!Id -> SUBSET ({StatBackbone[r] : r \in Batch!Providers} \ {NoBackbone})]
      /\ \A i \in Batch!Id : \A r \in idHosts'[i] : r \in idHosts[i] \/ (i \in miss /\ r = p)
      /\ \A i \in Batch!Id : \A b \in idBackbones'[i] :
           b \in idBackbones[i] \/ (i \in miss /\ b = StatBackbone[p])
  <2>1. CASE StatBackbone[p] # NoBackbone
    <3>1. StatBackbone[p] \in {StatBackbone[r] : r \in Batch!Providers} \ {NoBackbone} BY <1>3, <2>1
    <3>2. idHosts' = idHosts
          /\ idBackbones' = [i \in Batch!Id |-> IF i \in miss THEN idBackbones[i] \cup {StatBackbone[p]}
                                        ELSE idBackbones[i]]
      BY <1>b, <2>1 DEF Batch!excludeForArticleNotFound
    <3> QED BY <3>1, <3>2 DEF Shapes
  <2>2. CASE StatBackbone[p] = NoBackbone
    <3>1. idBackbones' = idBackbones
          /\ idHosts' = [i \in Batch!Id |-> IF i \in miss THEN idHosts[i] \cup {p} ELSE idHosts[i]]
      BY <1>b, <2>2 DEF Batch!excludeForArticleNotFound
    <3>2. idHosts \in [Batch!Id -> SUBSET Batch!Providers] BY DEF Shapes
    <3>3. idHosts' \in [Batch!Id -> SUBSET Batch!Providers] BY <1>3, <3>1, <3>2
    <3>4. \A i \in Batch!Id : \A r \in idHosts'[i] : r \in idHosts[i] \/ (i \in miss /\ r = p)
      BY <3>1, <3>2
    <3> QED BY <3>1, <3>3, <3>4 DEF Shapes
  <2> QED BY <2>1, <2>2
<1>6. Shapes'
  <2>1. said' \in [Batch!Id -> SUBSET Batch!Providers] BY <1>1, <1>3, <1>4 DEF Shapes
  <2>2. result' \in [Batch!Id -> {"none", "found", "missing", "error"}] BY <1>1 DEF Shapes
  <2>3. unresolved' \in [Chunk -> SUBSET Batch!Id] /\ \A c \in Chunk : unresolved'[c] \subseteq Ids[c]
    BY <1>1, <1>4 DEF Shapes
  <2> QED BY <1>1, <1>2, <1>5, <2>1, <2>2, <2>3 DEF Shapes
<1>7. Memory'
  <2>1. \A i \in Batch!Id : idHosts'[i] \subseteq said'[i] BY <1>a, <1>5 DEF Memory
  <2>2. \A i \in Batch!Id : \A b \in idBackbones'[i] : \E r \in said'[i] : StatBackbone[r] = b
    <3> TAKE i \in Batch!Id
    <3> TAKE b \in idBackbones'[i]
    <3>1. CASE b \in idBackbones[i] BY <1>a, <3>1 DEF Memory
    <3>2. CASE i \in miss /\ b = StatBackbone[p] BY <1>a, <3>2
    <3> QED BY <1>5, <3>1, <3>2
  <2>3. \A i \in Batch!Id : i \in sawNotFound' <=> said'[i] # {}
    BY <1>1, <1>a DEF Memory, miss
  <2>4. \A i \in Batch!Id : \A r \in said'[i] : i \notin holds'[r]
    <3>1. \A i \in miss : i \notin holds[p] BY DEF miss
    <3> QED BY <1>2, <1>a, <3>1 DEF Memory
  <2>5. \A c \in Chunk : st'[c] = "ask" => askNow'[c] \notin skip' BY <1>2, <1>4 DEF Memory
  <2> QED BY <1>2, <2>1, <2>2, <2>3, <2>4, <2>5 DEF Memory
<1>8. \A i \in Batch!Id, r \in Batch!Providers : Batch!Answered(i, r) => Batch!Answered(i, r)'
  BY <1>4 DEF Batch!Answered
<1>9. ASSUME NEW c \in Chunk, st'[c] # "done",
             NEW i \in unresolved'[c], NEW r \in Batch!Providers \ skip
      PROVE  \/ In(rest[c], r)
             \/ st'[c] = "ask" /\ askNow[c] = r
             \/ i \in sawOtherErr' \/ Batch!Answered(i, r)'
  <2>1. i \in Batch!Id /\ i \in unresolved[c] /\ st[c] # "done" BY <1>2, <1>4, <1>9 DEF Shapes
  <2>2. \/ In(rest[c], r)
        \/ st[c] = "ask" /\ askNow[c] = r
        \/ i \in sawOtherErr \/ Batch!Answered(i, r)
    BY <1>9, <2>1 DEF Chase
  <2>3. CASE c = ch /\ r = p
    <3>1. CASE i \in ans
      <4>1. i \in ans \ holds[p] BY <1>4, <1>9, <2>3, <3>1
      <4> QED BY <1>4, <2>1, <2>3, <4>1 DEF Batch!Answered
    <3>2. CASE i \in q \ ans BY <1>1, <3>2
    <3>3. CASE i \notin q
      <4>1. Batch!excludes(i, p) BY <1>3, <2>1, <2>3, <3>3
      <4>2. Batch!Answered(i, p) BY <1>3, <2>1, <4>1, ExcludedAnswered
      <4> QED BY <1>8, <2>1, <2>3, <4>2
    <3> QED BY <1>1, <3>1, <3>2, <3>3
  <2>4. CASE ~(c = ch /\ r = p)
    BY <1>1, <1>4, <1>8, <2>1, <2>2, <2>4 DEF p
  <2> QED BY <2>3, <2>4
<1>10. Chase' BY <1>2, <1>9 DEF Chase
<1>11. Account'
  <2>1. \A i \in Batch!Id : result'[i] = "found" => \E r \in Batch!Providers \ skip : i \in holds[r]
    BY <1>3, <1>4 DEF Account
  <2>2. phase # "returned" BY <1>2 DEF Account
  <2>3. ASSUME exhaustive, faults' = 0, ~given
        PROVE  /\ ~ctxDone
               /\ sawOtherErr' = {}
               /\ \A c \in Chunk : \A i \in Ids[c] :
                    /\ i \notin unresolved'[c] => result'[i] = "found"
                    /\ st'[c] = "done" /\ i \in unresolved'[c] /\ skip # Batch!Providers
                         => result'[i] = "missing"
    <3>1. faults = 0 /\ ~ctxDone BY <1>1, <2>2, <2>3 DEF Account
    <3>2. ans = q BY <1>1, <2>3, <3>1
    <3>3. sawOtherErr' = {} BY <1>1, <2>3, <3>1, <3>2 DEF Account
    <3>4. ASSUME NEW c \in Chunk, NEW i \in Ids[c]
          PROVE  /\ i \notin unresolved'[c] => result'[i] = "found"
                 /\ st'[c] = "done" /\ i \in unresolved'[c] /\ skip # Batch!Providers
                      => result'[i] = "missing"
      <4>1. i \in Batch!Id BY DEF Batch!Id
      <4>2. /\ i \notin unresolved[c] => result[i] = "found"
            /\ st[c] = "done" /\ i \in unresolved[c] /\ skip # Batch!Providers => result[i] = "missing"
        BY <2>3, <3>1 DEF Account
      <4>3. CASE c = ch BY <1>4, <4>1, <4>2, <4>3
      <4>4. CASE c # ch
        <5>1. i \notin ans
          BY <1>3, <4>4 DEF Batch!IdAssumption
        <5> QED BY <1>4, <4>1, <4>2, <4>4, <5>1
      <4> QED BY <4>3, <4>4
    <3> QED BY <3>1, <3>3, <3>4
  <2> QED BY <1>2, <2>1, <2>2, <2>3 DEF Account
<1>12. Batch!MissingIsUnanimous'
  BY <1>2, <1>4, <1>8 DEF Batch!MissingIsUnanimous
<1> QED BY <1>6, <1>7, <1>10, <1>11, <1>12

\* A chunk that is through has heard every provider on what it calls missing.
LEMMA DoneKeeps ==
  ASSUME BatchInv, Batch!IdAssumption, NEW ch \in Chunk, Batch!Done(ch)
  PROVE  BatchInv'
<1> USE DEF BatchInv
<1>1. /\ UNCHANGED <<skip, holds, exhaustive, phase, rest, askNow, unresolved, Batch!ivars, given, faults>>
      /\ phase = "chunks" /\ st[ch] = "pick" /\ st' = [st EXCEPT ![ch] = "done"]
      /\ unresolved[ch] = {} \/ rest[ch] = << >>
      /\ result' = [i \in Batch!Id |-> IF i \in unresolved[ch] THEN Batch!settle(i) ELSE result[i]]
  BY DEF Batch!Done
<1>2. ctxDone' \in BOOLEAN /\ (exhaustive => ctxDone' = ctxDone)
  <2>1. ctxDone' = (ctxDone \/ (~exhaustive /\ \E i \in Ids[ch] : result'[i] = "missing"))
    BY DEF Batch!Done
  <2>2. ctxDone' \in BOOLEAN BY <2>1, Zenon
  <2>3. exhaustive => (ctxDone' <=> ctxDone) BY <2>1, Zenon
  <2> QED BY <2>2, <2>3 DEF Shapes
<1>3. /\ \A i \in Batch!Id : result'[i] = IF i \in unresolved[ch] THEN Batch!settle(i) ELSE result[i]
      /\ \A c \in Chunk : st'[c] = IF c = ch THEN "done" ELSE st[c]
      /\ \A i \in Batch!Id : Batch!settle(i) \in {"missing", "error"}
  BY <1>1 DEF Shapes, Batch!settle
<1>4. ASSUME NEW i \in unresolved[ch], i \notin sawOtherErr, NEW p \in Batch!Providers \ skip
      PROVE  i \in Batch!Id /\ Batch!Answered(i, p)
  <2>1. rest[ch] = << >> BY <1>1
  <2>2. ~In(rest[ch], p) BY <2>1 DEF In
  <2> QED BY <1>1, <1>4, <2>2 DEF Chase, Shapes
<1>5. Shapes'
  <2>1. result' \in [Batch!Id -> {"none", "found", "missing", "error"}] BY <1>1, <1>3 DEF Shapes
  <2> QED BY <1>1, <1>2, <2>1 DEF Shapes, Batch!ivars
<1>6. Chase' BY <1>1, <1>3 DEF Chase, Batch!ivars, Batch!Answered
<1>7. Memory' BY <1>1, <1>3 DEF Memory, Batch!ivars
<1>8. Account'
  <2>1. \A i \in Batch!Id : result'[i] = "found" => \E p \in Batch!Providers \ skip : i \in holds[p]
    BY <1>3 DEF Account
  <2>2. ASSUME exhaustive, faults = 0, ~given, NEW c \in Chunk, NEW i \in Ids[c]
        PROVE  /\ i \notin unresolved[c] => result'[i] = "found"
               /\ st'[c] = "done" /\ i \in unresolved[c] /\ skip # Batch!Providers
                    => result'[i] = "missing"
    <3>1. i \in Batch!Id BY DEF Batch!Id
    <3>2. sawOtherErr = {} BY <1>1, <2>2 DEF Account
    <3>3. /\ i \notin unresolved[c] => result[i] = "found"
          /\ st[c] = "done" /\ i \in unresolved[c] /\ skip # Batch!Providers => result[i] = "missing"
      BY <2>2 DEF Account
    <3>4. CASE c # ch
      <4>1. i \notin unresolved[ch] BY <3>4 DEF Shapes, Batch!IdAssumption
      <4> QED BY <1>3, <3>1, <3>3, <3>4, <4>1
    <3>5. CASE c = ch /\ i \notin unresolved[c] BY <1>3, <3>1, <3>3, <3>5
    <3>6. CASE c = ch /\ i \in unresolved[c] /\ skip # Batch!Providers
      <4>1. PICK p \in Batch!Providers : p \notin skip BY <3>6 DEF Shapes
      <4>2. said[i] # {} BY <1>4, <3>2, <3>6, <4>1 DEF Batch!Answered
      <4>3. i \in sawNotFound BY <3>1, <4>2 DEF Memory
      <4> QED BY <1>3, <3>1, <3>2, <3>6, <4>3 DEF Batch!settle
    <3> QED BY <3>4, <3>5, <3>6
  <2> QED BY <1>1, <1>2, <2>1, <2>2 DEF Account, Batch!ivars
<1>9. Batch!MissingIsUnanimous'
  <2>1. ASSUME NEW i \in Batch!Id, result'[i] = "missing"
        PROVE  said[i] # {} /\ \A p \in Batch!Providers \ skip : Batch!Answered(i, p)
    <3>1. CASE i \notin unresolved[ch] BY <1>3, <2>1, <3>1 DEF Batch!MissingIsUnanimous
    <3>2. CASE i \in unresolved[ch]
      <4>1. i \in sawNotFound /\ i \notin sawOtherErr BY <1>3, <2>1, <3>2 DEF Batch!settle
      <4>2. said[i] # {} BY <4>1 DEF Memory
      <4> QED BY <1>4, <3>2, <4>1, <4>2
    <3> QED BY <3>1, <3>2
  <2> QED BY <1>1, <2>1 DEF Batch!MissingIsUnanimous, Batch!ivars, Batch!Answered
<1> QED BY <1>5, <1>6, <1>7, <1>8, <1>9

LEMMA BatchStep ==
  ASSUME Batch!IdAssumption, BatchInv, [Batch!Next]_(Batch!vars)
  PROVE  BatchInv'
BY QuietKeeps, CancelledKeeps, PickKeeps, AnswerKeeps, DoneKeeps DEF Batch!Next

-----------------------------------------------------------------------------
(* The theorems.                                                           *)

\* The inductive invariant of a BatchStat call.
THEOREM BatchInvariant == Batch!Spec => []BatchInv
<1>1. Batch!ProviderAssumption /\ Batch!IdAssumption BY BatchAssumption
<1>2. Batch!Init => BatchInv BY <1>1, BatchInit
<1>3. BatchInv /\ [Batch!Next]_(Batch!vars) => BatchInv' BY <1>1, BatchStep
<1> QED BY <1>2, <1>3, PTL DEF Batch!Spec

\* batchStatAcrossProviders calls an article missing only on the word of every
\* provider that was to be asked, whatever fails, whatever the hint rearranges
\* and whoever cancels the call.
THEOREM MissingOnEveryWord == Batch!Spec => []MissingIsUnanimous
<1>1. BatchInv => MissingIsUnanimous BY DEF BatchInv, MissingIsUnanimous
<1> QED BY <1>1, BatchInvariant, PTL

\* BatchStatComplete without failures and without a cancelled caller says
\* exactly which articles are there.
THEOREM CompleteCallIsExact == Batch!Spec => []CompleteIsExact
<1>1. ASSUME BatchInv PROVE Batch!CompleteIsExact
  <2> USE <1>1 DEF BatchInv
  <2> SUFFICES ASSUME phase = "returned", exhaustive, skip # Batch!Providers, faults = 0, ~given,
                      NEW i \in Batch!Id
               PROVE  result[i] = IF \E p \in Batch!Providers \ skip : i \in holds[p]
                                  THEN "found" ELSE "missing"
    BY DEF Batch!CompleteIsExact
  <2>1. PICK ch \in Chunk : i \in Ids[ch] BY DEF Batch!Id
  <2>2. st[ch] = "done" BY DEF Account
  <2>3. result[i] \in {"found", "missing"} BY <2>1, <2>2 DEF Account
  <2>4. result[i] = "found" => \E p \in Batch!Providers \ skip : i \in holds[p] BY DEF Account
  <2>5. ASSUME result[i] = "missing", NEW p \in Batch!Providers \ skip PROVE i \notin holds[p]
    <3>1. Batch!Answered(i, p) BY <2>5 DEF Batch!MissingIsUnanimous
    <3>2. CASE p \in said[i] BY <3>2 DEF Memory
    <3>3. CASE \E q \in said[i] : StatBackbone[q] # NoBackbone /\ StatBackbone[q] = StatBackbone[p]
      BY <3>3 DEF Memory, Shapes
    <3> QED BY <3>1, <3>2, <3>3 DEF Batch!Answered
  <2> QED BY <2>3, <2>4, <2>5
<1>2. BatchInv => CompleteIsExact BY <1>1 DEF CompleteIsExact
<1> QED BY <1>2, BatchInvariant, PTL
=============================================================================
