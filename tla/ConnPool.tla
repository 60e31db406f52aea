------------------------------ MODULE ConnPool ------------------------------
(***************************************************************************)
(* The connection pool of one NNTP provider (internal/nntp/client.go):     *)
(* ProviderPool with its LIFO stack of idle connections and its channel of *)
(* slots, the checkout getConnectionFromProvider / getOrCreateFromPool,    *)
(* the return paths put and release, the idle reaper, the flush a timed    *)
(* out ping triggers, the dial cooldown and Client.Close.                  *)
(*                                                                         *)
(* Every lock section, channel operation and atomic load of the code is a  *)
(* step of its own, so two callers interleave wherever the code lets them. *)
(* The network decides how a dial, a ping or an operation ends.            *)
(***************************************************************************)
EXTENDS Integers, Sequences, FiniteSets

CONSTANTS
  Caller,          \* goroutines that check connections out
  MaxConns,        \* pp.max, the capacity of pp.slots
  StaleThreshold,  \* timeouts.StaleThreshold: older entries are pinged
  IdleTimeout,     \* timeouts.IdleTimeout: older entries are closed
  MaxClock         \* bound on the clock, for TLC only

ASSUME CallerAssumption == IsFiniteSet(Caller)
ASSUME MaxConnsAssumption == MaxConns \in Nat \ {0}
ASSUME TimeoutAssumption ==
  StaleThreshold \in Nat /\ IdleTimeout \in Nat /\ MaxClock \in Nat

VARIABLES
  conns,      \* pp.conns: lastUsed of each idle entry, oldest push first
  slots,      \* len(pp.slots)
  active,     \* pp.activeConns: callers whose connection is registered
  cooling,    \* pp.inDialCooldown()
  closed,     \* c.closed
  now,        \* the clock
  pc,         \* where each caller is
  sock,       \* the caller's connection: none, open or closed
  stamp,      \* lastUsed of the entry a caller has popped or will push
  mayDial,    \* allowDial of the checkout
  drained,    \* entries a flush took off the stack and has not closed yet
  closer,     \* where Client.Close is
  reaper      \* where the reaper goroutine is

vars == <<conns, slots, active, cooling, closed, now, pc, sock, stamp,
          mayDial, drained, closer, reaper>>

Clock == 0..MaxClock

\* "out": not in the pool.  "wait": blocked on pp.slots.  The other places
\* hold a slot.
PC == {"out", "wait", "pop", "check", "flush", "drain", "dial", "use",
       "put", "load", "push", "release", "free"}

TypeOK ==
  /\ conns \in Seq(Clock)
  /\ slots \in 0..MaxConns
  /\ active \in SUBSET Caller
  /\ cooling \in BOOLEAN
  /\ closed \in BOOLEAN
  /\ now \in Clock
  /\ pc \in [Caller -> PC]
  /\ sock \in [Caller -> {"none", "open", "closed"}]
  /\ stamp \in [Caller -> Clock]
  /\ mayDial \in [Caller -> BOOLEAN]
  /\ drained \in [Caller -> Nat]
  /\ closer \in {"running", "drain", "force", "done"}
  /\ reaper \in {"sleep", "reap", "done"}

Init ==
  /\ conns = << >>
  /\ slots = 0
  /\ active = {}
  /\ cooling = FALSE
  /\ closed = FALSE
  /\ now = 0
  /\ pc = [c \in Caller |-> "out"]
  /\ sock = [c \in Caller |-> "none"]
  /\ stamp = [c \in Caller |-> 0]
  /\ mayDial = [c \in Caller |-> FALSE]
  /\ drained = [c \in Caller |-> 0]
  /\ closer = "running"
  /\ reaper = "sleep"

Goto(c, place) == pc' = [pc EXCEPT ![c] = place]
SetSock(c, s) == sock' = [sock EXCEPT ![c] = s]

\* isIdleExpired and the stale test of checkEntryHealth.
isIdleExpired(lastUsed) == now - lastUsed > IdleTimeout
isStale(lastUsed) == now - lastUsed > StaleThreshold

-----------------------------------------------------------------------------
(* Checkout.                                                               *)

\* A caller asks this pool for a connection.  allow is FALSE when
\* getAnyAvailableConnection saw another provider warm.
Ask(c) ==
  /\ pc[c] = "out"
  /\ \E allow \in BOOLEAN : mayDial' = [mayDial EXCEPT ![c] = allow]
  /\ Goto(c, "wait")
  /\ UNCHANGED <<conns, slots, active, cooling, closed, now, sock, stamp,
                 drained, closer, reaper>>

\* pp.slots <- struct{}{}
AcquireSlot(c) ==
  /\ pc[c] = "wait"
  /\ slots < MaxConns
  /\ slots' = slots + 1
  /\ Goto(c, "pop")
  /\ UNCHANGED <<conns, active, cooling, closed, now, sock, stamp, mayDial,
                 drained, closer, reaper>>

\* <-ctx.Done() while waiting for a slot.
GiveUpWaiting(c) ==
  /\ pc[c] = "wait"
  /\ Goto(c, "out")
  /\ UNCHANGED <<conns, slots, active, cooling, closed, now, sock, stamp,
                 mayDial, drained, closer, reaper>>

\* Mutant: dials without looking for an idle connection first.
PopMayDial(c) ==
  /\ pc[c] = "pop"
  /\ SetSock(c, "open")
  /\ Goto(c, "dial")
  /\ UNCHANGED <<conns, slots, active, cooling, closed, now, stamp, mayDial,
                 drained, closer, reaper>>

\* The lock section of getOrCreateFromPool's loop: take the top entry, or
\* leave the loop to dial, which a cooling provider refuses.
Pop(c) ==
  /\ pc[c] = "pop"
  /\ \/ /\ conns # << >>
        /\ stamp' = [stamp EXCEPT ![c] = conns[Len(conns)]]
        /\ conns' = SubSeq(conns, 1, Len(conns) - 1)
        /\ SetSock(c, "open")
        /\ Goto(c, "check")
     \/ /\ conns = << >>
        /\ mayDial[c] \/ ~cooling
        /\ SetSock(c, "open")
        /\ Goto(c, "dial")
        /\ UNCHANGED <<conns, stamp>>
     \/ /\ conns = << >>
        /\ ~mayDial[c] /\ cooling
        /\ Goto(c, "free")
        /\ UNCHANGED <<conns, sock, stamp>>
  /\ UNCHANGED <<slots, active, cooling, closed, now, mayDial, drained,
                 closer, reaper>>

\* Expiry and checkEntryHealth, outside the lock.  A stale entry is pinged;
\* the network answers, resets, or stays silent until PingTimeout.
Check(c) ==
  /\ pc[c] = "check"
  /\ \/ /\ ~isIdleExpired(stamp[c])
        /\ active' = active \cup {c}
        /\ Goto(c, "use")
        /\ UNCHANGED sock
     \/ /\ isIdleExpired(stamp[c]) \/ isStale(stamp[c])
        /\ SetSock(c, "none")
        /\ Goto(c, "pop")
        /\ UNCHANGED active
     \/ /\ ~isIdleExpired(stamp[c]) /\ isStale(stamp[c])
        /\ SetSock(c, "none")
        /\ Goto(c, "flush")
        /\ UNCHANGED active
  /\ UNCHANGED <<conns, slots, cooling, closed, now, stamp, mayDial, drained,
                 closer, reaper>>

\* flushIdle takes the whole stack under the lock ...
Flush(c) ==
  /\ pc[c] = "flush"
  /\ drained' = [drained EXCEPT ![c] = Len(conns)]
  /\ conns' = << >>
  /\ Goto(c, "drain")
  /\ UNCHANGED <<slots, active, cooling, closed, now, sock, stamp, mayDial,
                 closer, reaper>>

\* ... and closes what it took after the unlock.
CloseDrained(c) ==
  /\ pc[c] = "drain"
  /\ drained' = [drained EXCEPT ![c] = 0]
  /\ Goto(c, "pop")
  /\ UNCHANGED <<conns, slots, active, cooling, closed, now, sock, stamp,
                 mayDial, closer, reaper>>

\* Mutant: a failed dial returns without giving its slot back.
DialLeaksSlot(c) ==
  /\ pc[c] = "dial"
  /\ SetSock(c, "none")
  /\ Goto(c, "out")
  /\ UNCHANGED <<conns, slots, active, cooling, closed, now, stamp, mayDial,
                 drained, closer, reaper>>

\* createConnection returns: noteDialSuccess and a registered connection, or
\* an error, which opens a cooldown unless the caller's context ended.
Dial(c) ==
  /\ pc[c] = "dial"
  /\ \/ /\ cooling' = FALSE
        /\ active' = active \cup {c}
        /\ Goto(c, "use")
        /\ UNCHANGED sock
     \/ /\ cooling' \in {cooling, TRUE}
        /\ SetSock(c, "none")
        /\ Goto(c, "free")
        /\ UNCHANGED active
  /\ UNCHANGED <<conns, slots, closed, now, stamp, mayDial, drained, closer,
                 reaper>>

-----------------------------------------------------------------------------
(* Use and return.                                                         *)

\* The operation ends.  returnOrReleaseConn puts a connection that is still
\* open and releases a closed one; a failed operation releases it.
Finish(c) ==
  /\ pc[c] = "use"
  /\ \/ sock[c] = "open" /\ Goto(c, "put")
     \/ Goto(c, "release")
  /\ UNCHANGED <<conns, slots, active, cooling, closed, now, sock, stamp,
                 mayDial, drained, closer, reaper>>

\* release: Close, then activeConns.Delete; the slot goes back in FreeSlot.
Release(c) ==
  /\ pc[c] = "release"
  /\ SetSock(c, "none")
  /\ active' = active \ {c}
  /\ Goto(c, "free")
  /\ UNCHANGED <<conns, slots, cooling, closed, now, stamp, mayDial, drained,
                 closer, reaper>>

\* put: activeConns.Delete.
Deregister(c) ==
  /\ pc[c] = "put"
  /\ active' = active \ {c}
  /\ Goto(c, "load")
  /\ UNCHANGED <<conns, slots, cooling, closed, now, sock, stamp, mayDial,
                 drained, closer, reaper>>

\* put: conn.IsClosed() or c.closed.Load() closes the connection; otherwise
\* the entry gets its lastUsed, before the lock is taken.
LoadClosed(c) ==
  /\ pc[c] = "load"
  /\ \/ /\ sock[c] = "closed" \/ closed
        /\ SetSock(c, "none")
        /\ Goto(c, "free")
        /\ UNCHANGED stamp
     \/ /\ sock[c] = "open" /\ ~closed
        /\ stamp' = [stamp EXCEPT ![c] = now]
        /\ Goto(c, "push")
        /\ UNCHANGED sock
  /\ UNCHANGED <<conns, slots, active, cooling, closed, now, mayDial, drained,
                 closer, reaper>>

\* put's lock section: push, or close when the stack is full.
Push(c) ==
  /\ pc[c] = "push"
  /\ conns' = IF Len(conns) >= MaxConns THEN conns ELSE Append(conns, stamp[c])
  /\ SetSock(c, "none")
  /\ Goto(c, "free")
  /\ UNCHANGED <<slots, active, cooling, closed, now, stamp, mayDial, drained,
                 closer, reaper>>

\* <-pp.slots, the last step of put, of release and of a failed checkout.
FreeSlot(c) ==
  /\ pc[c] = "free"
  /\ slots > 0
  /\ slots' = slots - 1
  /\ Goto(c, "out")
  /\ UNCHANGED <<conns, active, cooling, closed, now, sock, stamp, mayDial,
                 drained, closer, reaper>>

-----------------------------------------------------------------------------
(* Reaper, shutdown and the passage of time.                               *)

\* The reaper's ticker fires: the goroutine ends once the client is closed.
ReaperTick ==
  /\ reaper = "sleep"
  /\ reaper' = IF closed THEN "done" ELSE "reap"
  /\ UNCHANGED <<conns, slots, active, cooling, closed, now, pc, sock, stamp,
                 mayDial, drained, closer>>

\* reapIdleConnections closes entries from the bottom of the stack up to the
\* first one that has not expired.
reapIdleConnections ==
  /\ reaper = "reap"
  /\ reaper' = "sleep"
  /\ \E expired \in 0..Len(conns) :
       /\ \A i \in 1..expired : isIdleExpired(conns[i])
       /\ expired < Len(conns) => ~isIdleExpired(conns[expired + 1])
       /\ conns' = SubSeq(conns, expired + 1, Len(conns))
  /\ UNCHANGED <<slots, active, cooling, closed, now, pc, sock, stamp,
                 mayDial, drained, closer>>

\* Client.Close: c.closed.Swap(true) ...
CloseSwap ==
  /\ closer = "running"
  /\ closed' = TRUE
  /\ closer' = "drain"
  /\ UNCHANGED <<conns, slots, active, cooling, now, pc, sock, stamp, mayDial,
                 drained, reaper>>

\* ... closes the idle connections under the lock ...
CloseIdle ==
  /\ closer = "drain"
  /\ conns' = << >>
  /\ closer' = "force"
  /\ UNCHANGED <<slots, active, cooling, closed, now, pc, sock, stamp, mayDial,
                 drained, reaper>>

\* ... and force-closes the registered ones.
CloseActive ==
  /\ closer = "force"
  /\ sock' = [c \in Caller |-> IF c \in active THEN "closed" ELSE sock[c]]
  /\ closer' = "done"
  /\ UNCHANGED <<conns, slots, active, cooling, closed, now, pc, stamp,
                 mayDial, drained, reaper>>

Tick ==
  /\ now < MaxClock
  /\ now' = now + 1
  /\ UNCHANGED <<conns, slots, active, cooling, closed, pc, sock, stamp,
                 mayDial, drained, closer, reaper>>

\* nanotimeNow() passes dialCooldownUntil.
CooldownEnds ==
  /\ cooling
  /\ cooling' = FALSE
  /\ UNCHANGED <<conns, slots, active, closed, now, pc, sock, stamp, mayDial,
                 drained, closer, reaper>>

-----------------------------------------------------------------------------
\* What a caller does once it holds a slot; none of it can block.
Step(c) ==
  \/ Pop(c) \/ Check(c) \/ Flush(c) \/ CloseDrained(c) \/ Dial(c)
  \/ Finish(c) \/ Release(c) \/ Deregister(c) \/ LoadClosed(c) \/ Push(c)
  \/ FreeSlot(c)

Next ==
  \/ \E c \in Caller : Ask(c) \/ AcquireSlot(c) \/ GiveUpWaiting(c) \/ Step(c)
  \/ ReaperTick \/ reapIdleConnections
  \/ CloseSwap \/ CloseIdle \/ CloseActive
  \/ Tick \/ CooldownEnds

Spec == Init /\ [][Next]_vars

\* Dials, pings and operations run under deadlines, so a caller that holds a
\* slot keeps moving; blocked senders on pp.slots are served in order, so one
\* that waits while slots keep coming free gets one.
Fairness ==
  \A c \in Caller : WF_vars(Step(c)) /\ SF_vars(AcquireSlot(c))

FairSpec == Spec /\ Fairness

-----------------------------------------------------------------------------
(* Properties.                                                             *)

\* The callers that hold a slot, and the connections in callers' hands:
\* being dialed, checked, used or returned.
SlotHolders == {c \in Caller : pc[c] \notin {"out", "wait"}}
InHand == {c \in Caller : sock[c] # "none"}

\* The number of slots taken is the number of callers inside a checkout, on
\* every path of put, release and the failed checkouts: no slot leaks and
\* none is given back twice.
SlotAccounting == slots = Cardinality(SlotHolders)

\* A caller has a connection in exactly the places where the code does, and
\* only connections in use or just handed back are registered: what ties the
\* pool's bookkeeping to the callers.  Needed for the induction.
HandPlaces == {"check", "dial", "use", "put", "load", "push", "release"}
HandAgrees ==
  /\ \A c \in Caller : sock[c] # "none" <=> pc[c] \in HandPlaces
  /\ \A c \in active : pc[c] \in {"use", "put", "release"}

\* put gives a connection to the stack before it frees the slot, and an idle
\* connection holds no slot, yet idle connections and connections in hand
\* never exceed the provider's max_connections together.
SocketsBounded == Len(conns) + Cardinality(InHand) <= MaxConns

\* "Cap stack size (shouldn't happen with semaphore, but be safe)": put never
\* meets a full stack.
PutNeverOverflows == \A c \in Caller : pc[c] = "push" => Len(conns) < MaxConns
=============================================================================
