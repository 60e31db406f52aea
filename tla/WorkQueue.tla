----------------------------- MODULE WorkQueue ------------------------------
(***************************************************************************)
(* What the active-download queue promises its callers, without workers,   *)
(* locks or a condition variable: an accepted job waits in line, is run by *)
(* at most one of Slots runners, in the order of the line, may be put      *)
(* aside for a retry, and is over once.  A closed queue starts nothing.    *)
(* JobQueue implements this specification.                                 *)
(***************************************************************************)
EXTENDS Integers, Sequences, FiniteSets, SequencesExt

CONSTANTS
  Job,
  Slots    \* maxWorkers

VARIABLES
  line,    \* jobs that wait, oldest first
  away,    \* jobs put aside until their retry is due
  run,     \* jobs being run
  over,    \* jobs that are done, refused, deleted or dropped
  open

vars == <<line, away, run, over, open>>

Waiting == {line[i] : i \in DOMAIN line}
New == Job \ (Waiting \cup away \cup run \cup over)

Init == line = << >> /\ away = {} /\ run = {} /\ over = {} /\ open = TRUE

Join(j) == IF open THEN line' = Append(line, j) /\ UNCHANGED over
           ELSE over' = over \cup {j} /\ UNCHANGED line

Submit(j) == j \in New /\ Join(j) /\ UNCHANGED <<away, run, open>>

Start ==
  /\ open /\ line # << >> /\ Cardinality(run) < Slots
  /\ Head(line) \notin run
  /\ run' = run \cup {Head(line)} /\ line' = Tail(line)
  /\ UNCHANGED <<away, over, open>>

End(j) ==
  /\ j \in run /\ run' = run \ {j} /\ over' = over \cup {j}
  /\ UNCHANGED <<line, away, open>>

PutAside(j) ==
  /\ j \in run /\ run' = run \ {j} /\ away' = away \cup {j}
  /\ UNCHANGED <<line, over, open>>

ComeBack(j) == j \in away /\ away' = away \ {j} /\ Join(j) /\ UNCHANGED <<run, open>>

Drop(j) ==
  /\ j \in away /\ ~open /\ away' = away \ {j} /\ over' = over \cup {j}
  /\ UNCHANGED <<line, run, open>>

Delete(i) ==
  /\ line' = RemoveAt(line, i) /\ over' = over \cup {line[i]}
  /\ UNCHANGED <<away, run, open>>

Close == open' = FALSE /\ UNCHANGED <<line, away, run, over>>

Next ==
  \/ \E j \in Job : Submit(j) \/ End(j) \/ PutAside(j) \/ ComeBack(j) \/ Drop(j)
  \/ \E i \in DOMAIN line : Delete(i)
  \/ Start \/ Close

Spec == Init /\ [][Next]_vars
=============================================================================
