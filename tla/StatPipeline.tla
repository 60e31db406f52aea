---------------------------- MODULE StatPipeline ----------------------------
(***************************************************************************)
(* Pipelined STAT windows on one NNTP connection (Connection.StatBatch in  *)
(* internal/nntp/conns.go): all STATs of a window and a DATE go out in one *)
(* write, and the replies, which carry no tag, are matched by position.    *)
(*                                                                         *)
(* The server answers in order but may leave a line out or add one.  The   *)
(* network delivers a prefix of what was sent each time the reader's empty *)
(* buffer is refilled, so Buffered() sees only the lines that came with    *)
(* the last refill.                                                        *)
(***************************************************************************)
EXTENDS Integers, Sequences, FiniteSets, SequencesExt

CONSTANTS
  N,           \* STATs of one window
  MaxWindows,  \* windows sent on the connection
  MaxFaults    \* lines the server leaves out or adds, in all

PipelineAssumption ==
  N \in Nat \ {0} /\ MaxWindows \in Nat \ {0} /\ MaxFaults \in Nat

Line == {"223", "430", "111", "other"}

VARIABLES
  pc,       \* "idle", "read", "closed"
  window,   \* windows sent so far
  truth,    \* the replies the current window's STATs deserve
  wire,     \* lines the server sent that the reader has not buffered
  buf,      \* lines in c.reader's buffer
  results,  \* replies taken for the window's STATs so far
  faults,
  accepted  \* for each accepted window, whether its results were right

vars == <<pc, window, truth, wire, buf, results, faults, accepted>>

TypeOK ==
  /\ pc \in {"idle", "read", "closed"}
  /\ window \in 0..MaxWindows
  /\ truth \in Seq({"223", "430"})
  /\ wire \in Seq(Line) /\ buf \in Seq(Line)
  /\ results \in Seq({"223", "430"}) /\ Len(results) <= N
  /\ faults \in 0..MaxFaults
  /\ accepted \in Seq(BOOLEAN) /\ Len(accepted) <= window

Init ==
  /\ pc = "idle" /\ window = 0
  /\ truth = << >> /\ wire = << >> /\ buf = << >> /\ results = << >>
  /\ faults = 0 /\ accepted = << >>

\* The window goes out; the server will answer it in order.
Write ==
  /\ pc = "idle" /\ window < MaxWindows
  /\ window' = window + 1
  /\ \E t \in [1..N -> {"223", "430"}] :
       truth' = t /\ wire' = wire \o Append(t, "111")
  /\ results' = << >>
  /\ pc' = "read"
  /\ UNCHANGED <<buf, faults, accepted>>

\* The server leaves out a line it has still to send.
Drop ==
  /\ faults < MaxFaults /\ faults' = faults + 1
  /\ \E i \in DOMAIN wire : wire' = RemoveAt(wire, i)
  /\ UNCHANGED <<pc, window, truth, buf, results, accepted>>

\* The server adds a line, also while nothing is asked of it.
Insert ==
  /\ faults < MaxFaults /\ faults' = faults + 1
  /\ pc # "closed"
  /\ \E i \in 1..(Len(wire) + 1), l \in Line : wire' = InsertAt(wire, i, l)
  /\ UNCHANGED <<pc, window, truth, buf, results, accepted>>

\* The reader needs a line and its buffer is empty: some prefix arrives.
Fill ==
  /\ pc = "read" /\ buf = << >> /\ wire # << >>
  /\ \E k \in DOMAIN wire :
       buf' = SubSeq(wire, 1, k) /\ wire' = SubSeq(wire, k + 1, Len(wire))
  /\ UNCHANGED <<pc, window, truth, results, faults, accepted>>

\* The window fails as a whole and the caller releases the connection.
Fail == pc' = "closed" /\ UNCHANGED <<window, truth, wire, results, faults, accepted>>

\* The read deadline passes, or the transport fails.
ReadFails ==
  /\ pc = "read" /\ buf = << >>
  /\ Fail /\ UNCHANGED buf

\* A reply in a STAT slot: 223 and 430 count, anything else is a desync.
ReadStat ==
  /\ pc = "read" /\ buf # << >> /\ Len(results) < N
  /\ buf' = Tail(buf)
  /\ IF Head(buf) \in {"223", "430"}
     THEN /\ results' = Append(results, Head(buf))
          /\ UNCHANGED <<pc, window, truth, wire, faults, accepted>>
     ELSE Fail

\* Mutant: the line after the last reply is not looked at.
DateUnchecked ==
  /\ pc = "read" /\ buf # << >> /\ Len(results) = N
  /\ buf' = Tail(buf)
  /\ IF Tail(buf) = << >>
     THEN /\ pc' = "idle"
          /\ accepted' = Append(accepted, results = truth)
          /\ UNCHANGED <<window, truth, wire, results, faults>>
     ELSE Fail

\* The DATE check: a 111 with nothing buffered behind it accepts the window,
\* and the connection goes back to the pool.
ReadDate ==
  /\ pc = "read" /\ buf # << >> /\ Len(results) = N
  /\ buf' = Tail(buf)
  /\ IF Head(buf) = "111" /\ Tail(buf) = << >>
     THEN /\ pc' = "idle"
          /\ accepted' = Append(accepted, results = truth)
          /\ UNCHANGED <<window, truth, wire, results, faults>>
     ELSE Fail

Next ==
  Write \/ Drop \/ Insert \/ Fill \/ ReadFails \/ ReadStat \/ ReadDate

Spec == Init /\ [][Next]_vars

-----------------------------------------------------------------------------
(* Properties.                                                             *)

\* StatBatch's claim: with one line left out or added on the connection,
\* whenever it arrives, no accepted window turns a present article into a
\* missing one or the reverse, also not a later window on a connection that
\* was handed back before the extra line arrived.
AcceptedIsTrue == \A i \in DOMAIN accepted : accepted[i]

\* A connection goes back to the pool with nothing read ahead, so that a
\* line the last refill brought along is never the next command's reply.
ReturnedIsClean == pc = "idle" => buf = << >>
=============================================================================
