----------------------------- MODULE NntpProofs -----------------------------
(***************************************************************************)
(* For every number of callers and every pool size: the types, the slot    *)
(* accounting and the connection limit of ConnPool are invariant, and      *)
(* put's guard against a full stack is dead code.  For every size of a     *)
(* window and every number of windows on a connection: replies matched by  *)
(* position are not shifted by one lost or extra line (StatPipeline).      *)
(***************************************************************************)
EXTENDS MCNntp, FiniteSetTheorems, SequenceTheorems, TLAPS

\* The inductive invariant.  SocketsBounded alone is not inductive: a dial
\* starts when the stack is empty, and then the bound comes from the slots,
\* which needs SlotAccounting, and from every connection in hand belonging
\* to a slot holder, which needs HandAgrees.
IInv == TypeOK /\ HandAgrees /\ SlotAccounting /\ SocketsBounded

LEMMA FiniteParts ==
  ASSUME TypeOK
  PROVE  /\ IsFiniteSet(SlotHolders) /\ Cardinality(SlotHolders) \in Nat
         /\ IsFiniteSet(InHand) /\ Cardinality(InHand) \in Nat
<1>1. SlotHolders \subseteq Caller /\ InHand \subseteq Caller
  BY DEF SlotHolders, InHand
<1>2. IsFiniteSet(SlotHolders) /\ IsFiniteSet(InHand)
  BY <1>1, CallerAssumption, FS_Subset
<1> QED BY <1>2, FS_CardinalityType

\* A caller about to pop holds a slot and no connection, so the connections
\* in hand are fewer than the slots.
LEMMA RoomToDial ==
  ASSUME IInv, NEW c \in Caller, pc[c] = "pop"
  PROVE  Cardinality(InHand) + 1 <= MaxConns
<1>1. c \notin InHand /\ InHand \cup {c} \subseteq SlotHolders
  BY DEF IInv, HandAgrees, HandPlaces, InHand, SlotHolders
<1>2. Cardinality(InHand \cup {c}) = Cardinality(InHand) + 1
  BY <1>1, FiniteParts, FS_AddElement DEF IInv
<1>3. Cardinality(InHand \cup {c}) <= Cardinality(SlotHolders)
  BY <1>1, FiniteParts, FS_Subset DEF IInv
<1> QED
  BY <1>2, <1>3, FiniteParts, MaxConnsAssumption DEF IInv, TypeOK, SlotAccounting

\* How the two cardinalities move when one caller changes place.
LEMMA HoldersMove ==
  ASSUME TypeOK, TypeOK'
  PROVE  /\ SlotHolders' = SlotHolders
              => Cardinality(SlotHolders') = Cardinality(SlotHolders)
         /\ \A c \in Caller : c \notin SlotHolders /\ SlotHolders' = SlotHolders \cup {c}
              => Cardinality(SlotHolders') = Cardinality(SlotHolders) + 1
         /\ \A c \in SlotHolders : SlotHolders' = SlotHolders \ {c}
              => Cardinality(SlotHolders') = Cardinality(SlotHolders) - 1
<1> QED BY FiniteParts, FS_AddElement, FS_RemoveElement

LEMMA HandMove ==
  ASSUME TypeOK, TypeOK'
  PROVE  /\ InHand' = InHand
              => Cardinality(InHand') = Cardinality(InHand)
         /\ \A c \in Caller : c \notin InHand /\ InHand' = InHand \cup {c}
              => Cardinality(InHand') = Cardinality(InHand) + 1
         /\ \A c \in InHand : InHand' = InHand \ {c}
              => Cardinality(InHand') = Cardinality(InHand) - 1
<1> QED BY FiniteParts, FS_AddElement, FS_RemoveElement

\* The types and the agreement of places are preserved by every step.
LEMMA StepTypes ==
  ASSUME IInv, [Next]_vars
  PROVE  TypeOK' /\ HandAgrees'
<1> USE MaxConnsAssumption, TimeoutAssumption
<1> USE DEF IInv, TypeOK, HandAgrees, PC, HandPlaces, Goto, SetSock
<1>c. ASSUME NEW c \in Caller,
             Ask(c) \/ AcquireSlot(c) \/ GiveUpWaiting(c) \/ Step(c)
      PROVE  TypeOK' /\ HandAgrees'
  <2>1. CASE Ask(c) BY <2>1 DEF Ask
  <2>2. CASE AcquireSlot(c) BY <2>2 DEF AcquireSlot
  <2>3. CASE GiveUpWaiting(c) BY <2>3 DEF GiveUpWaiting
  <2>4. CASE Pop(c)
    <3>1. conns # << >> => /\ conns[Len(conns)] \in Clock
                           /\ SubSeq(conns, 1, Len(conns) - 1) \in Seq(Clock)
      BY SubSeqProperties
    <3> QED BY <2>4, <3>1 DEF Pop
  <2>5. CASE Check(c) BY <2>5 DEF Check
  <2>6. CASE Flush(c) BY <2>6 DEF Flush
  <2>7. CASE CloseDrained(c) BY <2>7 DEF CloseDrained
  <2>8. CASE Dial(c) BY <2>8 DEF Dial
  <2>9. CASE Finish(c) BY <2>9 DEF Finish
  <2>10. CASE Release(c) BY <2>10 DEF Release
  <2>11. CASE Deregister(c) BY <2>11 DEF Deregister
  <2>12. CASE LoadClosed(c) BY <2>12 DEF LoadClosed
  <2>13. CASE Push(c) BY <2>13 DEF Push
  <2>14. CASE FreeSlot(c) BY <2>14 DEF FreeSlot
  <2> QED BY <1>c, <2>1, <2>2, <2>3, <2>4, <2>5, <2>6, <2>7, <2>8, <2>9,
             <2>10, <2>11, <2>12, <2>13, <2>14 DEF Step
<1>1. CASE ReaperTick BY <1>1 DEF ReaperTick
<1>2. CASE reapIdleConnections
  <2>1. \A n \in 0..Len(conns) : SubSeq(conns, n + 1, Len(conns)) \in Seq(Clock)
    BY SubSeqProperties
  <2> QED BY <1>2, <2>1 DEF reapIdleConnections
<1>3. CASE CloseSwap BY <1>3 DEF CloseSwap
<1>4. CASE CloseIdle BY <1>4 DEF CloseIdle
<1>5. CASE CloseActive BY <1>5 DEF CloseActive
<1>6. CASE Tick BY <1>6 DEF Tick, Clock
<1>7. CASE CooldownEnds BY <1>7 DEF CooldownEnds
<1>8. CASE UNCHANGED vars BY <1>8 DEF vars
<1> QED BY <1>c, <1>1, <1>2, <1>3, <1>4, <1>5, <1>6, <1>7, <1>8 DEF Next

\* A step moves one caller into or out of the slot holders, together with the
\* slot counter.
LEMMA StepSlots ==
  ASSUME IInv, TypeOK', [Next]_vars
  PROVE  SlotAccounting'
<1> USE DEF IInv, SlotAccounting, Goto
<1>t. TypeOK /\ Cardinality(SlotHolders) \in Nat /\ pc \in [Caller -> PC]
  BY FiniteParts DEF TypeOK
<1>s. SlotHolders' = SlotHolders /\ slots' = slots => SlotAccounting'
  BY <1>t, HoldersMove
<1>c. ASSUME NEW c \in Caller,
             Ask(c) \/ AcquireSlot(c) \/ GiveUpWaiting(c) \/ Step(c)
      PROVE  SlotAccounting'
  <2>1. CASE AcquireSlot(c)
    <3>1. c \notin SlotHolders /\ SlotHolders' = SlotHolders \cup {c}
      BY <1>t, <2>1 DEF AcquireSlot, SlotHolders
    <3> QED BY <1>t, <2>1, <3>1, HoldersMove DEF AcquireSlot
  <2>2. CASE FreeSlot(c)
    <3>1. c \in SlotHolders /\ SlotHolders' = SlotHolders \ {c}
      BY <1>t, <2>2 DEF FreeSlot, SlotHolders
    <3> QED BY <1>t, <2>2, <3>1, HoldersMove DEF FreeSlot
  <2>3. CASE ~AcquireSlot(c) /\ ~FreeSlot(c)
    <3>1. slots' = slots
      BY <1>c, <2>3 DEF Ask, GiveUpWaiting, Step, Pop, Check, Flush,
         CloseDrained, Dial, Finish, Release, Deregister, LoadClosed, Push
    <3>2. \A d \in Caller : pc'[d] \in {"out", "wait"} <=> pc[d] \in {"out", "wait"}
      BY <1>c, <1>t, <2>3 DEF Ask, GiveUpWaiting, Step, Pop, Check, Flush,
         CloseDrained, Dial, Finish, Release, Deregister, LoadClosed, Push
    <3>3. SlotHolders' = SlotHolders
      BY <3>2 DEF SlotHolders
    <3> QED BY <1>s, <3>1, <3>3
  <2> QED BY <2>1, <2>2, <2>3
<1>o. ASSUME slots' = slots, pc' = pc PROVE SlotAccounting'
  BY <1>o, <1>s DEF SlotHolders
<1> QED
  BY <1>c, <1>o DEF Next, ReaperTick, reapIdleConnections, CloseSwap,
     CloseIdle, CloseActive, Tick, CooldownEnds, vars

\* Only a dial adds a connection, and it starts from an empty stack; every
\* other step moves connections between the stack and the callers, or closes
\* some.
LEMMA StepSockets ==
  ASSUME IInv, TypeOK', HandAgrees', [Next]_vars
  PROVE  SocketsBounded'
<1> USE MaxConnsAssumption DEF SocketsBounded, Goto, SetSock
<1>t. /\ TypeOK /\ Cardinality(InHand) \in Nat /\ SocketsBounded
      /\ pc \in [Caller -> PC] /\ sock \in [Caller -> {"none", "open", "closed"}]
      /\ conns \in Seq(Clock) /\ Len(conns) \in Nat
  BY FiniteParts DEF IInv, TypeOK
<1>h. \A d \in Caller : sock[d] # "none" <=> pc[d] \in HandPlaces
  BY DEF IInv, HandAgrees
<1>s. ASSUME InHand' = InHand, Len(conns') \in Nat, Len(conns') <= Len(conns)
      PROVE  SocketsBounded'
  BY <1>s, <1>t, HandMove
<1>c. ASSUME NEW c \in Caller,
             Ask(c) \/ AcquireSlot(c) \/ GiveUpWaiting(c) \/ Step(c)
      PROVE  SocketsBounded'
  <2>1. CASE Pop(c)
    <3>0. c \notin InHand
      BY <1>h, <2>1 DEF Pop, InHand, HandPlaces
    <3>1. CASE conns # << >>
      <4>1. Len(conns') = Len(conns) - 1
        BY <1>t, <2>1, <3>1, SubSeqProperties DEF Pop
      <4>2. InHand' = InHand \cup {c}
        BY <1>t, <2>1, <3>1 DEF Pop, InHand
      <4>3. Cardinality(InHand') = Cardinality(InHand) + 1
        BY <1>t, <3>0, <4>2, HandMove
      <4> QED BY <1>t, <4>1, <4>3
    <3>2. CASE conns = << >> /\ pc' = [pc EXCEPT ![c] = "dial"] /\ sock' = [sock EXCEPT ![c] = "open"]
      <4>1. conns' = << >> /\ InHand' = InHand \cup {c}
        BY <1>t, <2>1, <3>2 DEF Pop, InHand
      <4>2. Cardinality(InHand') = Cardinality(InHand) + 1
        BY <1>t, <3>0, <4>1, HandMove
      <4> QED BY <1>t, <2>1, <4>1, <4>2, RoomToDial DEF Pop
    <3>3. CASE conns = << >> /\ sock' = sock
      BY <1>s, <1>t, <2>1, <3>3 DEF Pop, InHand
    <3> QED BY <2>1, <3>1, <3>2, <3>3 DEF Pop
  <2>2. CASE Push(c)
    <3>1. c \in InHand /\ InHand' = InHand \ {c}
      BY <1>t, <1>h, <2>2 DEF Push, InHand, HandPlaces
    <3>2. Cardinality(InHand') = Cardinality(InHand) - 1
      BY <1>t, <3>1, HandMove
    <3>3. Len(conns') \in {Len(conns), Len(conns) + 1}
      BY <1>t, <2>2 DEF Push, IInv, TypeOK
    <3> QED BY <1>t, <3>2, <3>3
  <2>3. CASE ~Pop(c) /\ ~Push(c)
    <3>1. conns' = conns \/ conns' = << >>
      BY <1>c, <2>3 DEF Ask, AcquireSlot, GiveUpWaiting, Step, Check, Flush,
         CloseDrained, Dial, Finish, Release, Deregister, LoadClosed, FreeSlot
    <3>2. InHand' = InHand \/ (c \in InHand /\ InHand' = InHand \ {c})
      <4>1. sock' = sock \/ (sock' = [sock EXCEPT ![c] = "none"] /\ pc[c] \in HandPlaces)
        BY <1>c, <2>3 DEF Ask, AcquireSlot, GiveUpWaiting, Step, Check, Flush,
           CloseDrained, Dial, Finish, Release, Deregister, LoadClosed,
           FreeSlot, HandPlaces
      <4> QED BY <1>t, <1>h, <4>1 DEF InHand
    <3>3. Cardinality(InHand') \in {Cardinality(InHand), Cardinality(InHand) - 1}
      BY <1>t, <3>2, HandMove
    <3> QED BY <1>t, <3>1, <3>3
  <2> QED BY <2>1, <2>2, <2>3
<1>1. CASE reapIdleConnections
  <2>1. Len(conns') \in Nat /\ Len(conns') <= Len(conns)
    BY <1>t, <1>1, SubSeqProperties DEF reapIdleConnections
  <2> QED BY <1>s, <1>1, <2>1 DEF reapIdleConnections, InHand
<1>2. CASE CloseActive
  <2>1. InHand' = InHand
    BY <1>t, <1>2 DEF CloseActive, InHand, IInv, HandAgrees, HandPlaces
  <2> QED BY <1>s, <1>t, <1>2, <2>1 DEF CloseActive
<1>3. CASE CloseIdle
  BY <1>s, <1>t, <1>3 DEF CloseIdle, InHand
<1>4. CASE ReaperTick \/ CloseSwap \/ Tick \/ CooldownEnds \/ UNCHANGED vars
  BY <1>s, <1>t, <1>4 DEF ReaperTick, CloseSwap, Tick, CooldownEnds, vars, InHand
<1> QED BY <1>c, <1>1, <1>2, <1>3, <1>4 DEF Next

LEMMA InitIInv == Init => IInv
<1> SUFFICES ASSUME Init PROVE IInv OBVIOUS
<1>0. 0 \in Clock /\ 0 \in 0..MaxConns
  BY MaxConnsAssumption, TimeoutAssumption DEF Clock
<1>1. TypeOK /\ HandAgrees
  <2>1. TypeOK
    <3>1. /\ conns \in Seq(Clock) /\ slots \in 0..MaxConns
          /\ now \in Clock /\ active \in SUBSET Caller
          /\ closer \in {"running", "drain", "force", "done"}
          /\ reaper \in {"sleep", "reap", "done"}
      BY <1>0 DEF Init
    <3>2. cooling \in BOOLEAN /\ closed \in BOOLEAN /\ mayDial \in [Caller -> BOOLEAN]
      BY Zenon DEF Init
    <3>3. /\ pc \in [Caller -> PC] /\ drained \in [Caller -> Nat]
          /\ sock \in [Caller -> {"none", "open", "closed"}]
          /\ stamp \in [Caller -> Clock]
      BY <1>0 DEF Init, PC
    <3> QED BY <3>1, <3>2, <3>3 DEF TypeOK
  <2>2. HandAgrees BY DEF Init, HandAgrees, HandPlaces
  <2> QED BY <2>1, <2>2
<1>2. SlotHolders = {} /\ InHand = {}
  BY DEF Init, SlotHolders, InHand
<1> QED
  BY <1>1, <1>2, FS_EmptySet, MaxConnsAssumption
  DEF Init, IInv, SlotAccounting, SocketsBounded

\* IInv is an invariant of the pool: the argument the theorems below share.
THEOREM Inductive == Spec => []IInv
<1>1. IInv /\ [Next]_vars => IInv'
  BY StepTypes, StepSlots, StepSockets DEF IInv
<1> QED BY InitIInv, <1>1, PTL DEF Spec

\* Type correctness of the pool model.
THEOREM TypeCorrect == Spec => []TypeOK
<1>1. IInv => TypeOK BY DEF IInv
<1> QED BY <1>1, Inductive, PTL

\* No path through put, release, getOrCreateFromPool or a failed checkout
\* leaks a slot or gives one back twice, for any number of callers.
THEOREM SlotsAccounted == Spec => []SlotAccounting
<1>1. IInv => SlotAccounting BY DEF IInv
<1> QED BY <1>1, Inductive, PTL

\* Idle, dialed, checked-out and returning connections together never exceed
\* max_connections, for any pool size and any number of callers.
THEOREM ConnectionLimit == Spec => []SocketsBounded
<1>1. IInv => SocketsBounded BY DEF IInv
<1> QED BY <1>1, Inductive, PTL

\* The branch of put that closes a connection because the stack is full is
\* never taken.
THEOREM PutGuardIsDead == Spec => []PutNeverOverflows
<1>1. IInv => PutNeverOverflows
  <2> SUFFICES ASSUME IInv, NEW c \in Caller, pc[c] = "push"
               PROVE  Len(conns) < MaxConns
    BY DEF PutNeverOverflows
  <2>1. c \in InHand
    BY DEF IInv, HandAgrees, HandPlaces, InHand
  <2>2. Cardinality(InHand) # 0
    BY <2>1, FiniteParts, FS_EmptySet DEF IInv
  <2> QED
    BY <2>2, FiniteParts, MaxConnsAssumption DEF IInv, TypeOK, SocketsBounded
<1> QED BY <1>1, Inductive, PTL

-----------------------------------------------------------------------------
(* Pipelined STATs.                                                        *)

Shapes ==
  /\ at \in {"idle", "read", "closed"}
  /\ wire \in Seq(Pipe!Line) /\ buf \in Seq(Pipe!Line)
  /\ results \in Seq({"223", "430"}) /\ Len(results) <= N
  /\ faults \in Nat /\ faults <= MaxFaults
  /\ accepted \in Seq(BOOLEAN)
  /\ at = "read" => truth \in Seq({"223", "430"}) /\ Len(truth) = N

\* The k-th line the window is answered with, read or not.
Size  == Len(results) + Len(buf) + Len(wire)
At(k) ==
  IF k <= Len(results) THEN results[k]
  ELSE IF k <= Len(results) + Len(buf) THEN buf[k - Len(results)]
  ELSE wire[k - Len(results) - Len(buf)]

\* The k-th line it should be answered with.
Due(k) == IF k <= N THEN truth[k] ELSE "111"

\* The answer is the due one, is short of one line, or has one line more.
Straight == Size = N + 1 /\ \A k \in 1..(N + 1) : At(k) = Due(k)
Short    == Size = N
Extra(i) == /\ Size = N + 2
            /\ \A k \in 1..(N + 2) : /\ k < i => At(k) = Due(k)
                                     /\ k > i => At(k) = Due(k - 1)

Stream ==
  /\ at = "read" => \/ Straight
                    \/ faults > 0 /\ Short
                    \/ faults > 0 /\ \E i \in 1..(N + 2) : Extra(i)
  /\ at = "idle" => /\ buf = <<>>
                    /\ Len(wire) = 0 \/ (Len(wire) = 1 /\ faults > 0)

PipeInv == Shapes /\ Stream /\ Pipe!AcceptedIsTrue

-----------------------------------------------------------------------------
LEMMA Lengths ==
  ASSUME Shapes
  PROVE  Len(wire) \in Nat /\ Len(buf) \in Nat /\ Len(results) \in Nat /\ Size \in Nat
<1>1. Len(wire) \in Nat /\ Len(buf) \in Nat /\ Len(results) \in Nat
  BY LenProperties DEF Shapes
<1> QED BY <1>1 DEF Size

\* What leaves the answer as it is leaves the invariant as it is.
LEMMA SameStream ==
  ASSUME PipeInv, Shapes', at = "read", at' = "read", UNCHANGED <<truth, faults, accepted>>,
         Size' = Size, \A k \in 1..Size : At(k)' = At(k), N \in Nat
  PROVE  PipeInv'
<1>1. \A k : Due(k)' = Due(k) BY DEF Due
<1>2. Stream'
  <2>1. CASE Straight BY <1>1, <2>1 DEF Straight, Stream
  <2>2. CASE faults > 0 /\ Short BY <2>2 DEF Short, Stream
  <2>3. CASE faults > 0 /\ \E i \in 1..(N + 2) : Extra(i)
    <3>1. PICK i \in 1..(N + 2) : Extra(i) BY <2>3
    <3>2. Extra(i)' BY <1>1, <3>1 DEF Extra
    <3> QED BY <2>3, <3>2 DEF Stream
  <2> QED BY <2>1, <2>2, <2>3 DEF PipeInv, Stream
<1>3. Pipe!AcceptedIsTrue' BY DEF PipeInv, Pipe!AcceptedIsTrue
<1> QED BY <1>2, <1>3 DEF PipeInv

LEMMA FillKeeps ==
  ASSUME PipeInv, Pipe!Fill, N \in Nat
  PROVE  PipeInv'
<1>1. PICK j \in DOMAIN wire : /\ buf' = SubSeq(wire, 1, j)
                               /\ wire' = SubSeq(wire, j + 1, Len(wire))
  BY DEF Pipe!Fill
<1>2. /\ at = "read" /\ at' = "read" /\ buf = <<>> /\ Len(buf) = 0
      /\ UNCHANGED <<truth, results, faults, accepted>>
  BY DEF Pipe!Fill
<1>3. wire \in Seq(Pipe!Line) /\ Len(wire) \in Nat /\ j \in 1..Len(wire)
  BY <1>1, LenProperties DEF PipeInv, Shapes
<1>4. \A k \in 1..Len(wire) : wire[k] \in Pipe!Line BY <1>3, ElementOfSeq
<1>5. buf' \in Seq(Pipe!Line) /\ Len(buf') = j /\ \A k \in 1..j : buf'[k] = wire[k]
  <2>1. \A k \in 1..j : wire[k] \in Pipe!Line BY <1>3, <1>4
  <2> QED BY <1>1, <1>3, <2>1, SubSeqProperties
<1>6. /\ wire' \in Seq(Pipe!Line) /\ Len(wire') = Len(wire) - j
      /\ \A k \in 1..(Len(wire) - j) : wire'[k] = wire[j + k]
  <2>1. \A k \in (j + 1)..Len(wire) : wire[k] \in Pipe!Line BY <1>3, <1>4
  <2> QED BY <1>1, <1>3, <2>1, SubSeqProperties
<1>7. Shapes' BY <1>2, <1>5, <1>6 DEF PipeInv, Shapes
<1> DEFINE r == Len(results)
           w == Len(wire)
<1>8. r \in Nat /\ w \in Nat /\ j \in 1..w BY <1>3, Lengths DEF PipeInv
<1>9. Size' = Size BY <1>2, <1>5, <1>6, <1>8 DEF Size
<1>10. Size = r + w BY <1>2, <1>8 DEF Size
<1>11. ASSUME NEW k \in 1..Size PROVE At(k)' = At(k)
  <2>1. At(k) = IF k <= r THEN results[k] ELSE wire[k - r]
    BY <1>2, <1>8, <1>10 DEF At
  <2>2. At(k)' = IF k <= r THEN results[k] ELSE IF k <= r + j THEN buf'[k - r] ELSE wire'[k - r - j]
    BY <1>2, <1>5 DEF At
  <2> HIDE DEF r, w
  <2>3. CASE k <= r BY <2>1, <2>2, <2>3
  <2>4. CASE ~(k <= r) /\ k <= r + j
    <3>1. k - r \in 1..j BY <1>8, <1>10, <2>4
    <3> QED BY <1>5, <2>1, <2>2, <2>4, <3>1
  <2>5. CASE ~(k <= r) /\ ~(k <= r + j)
    <3>1. k - r - j \in 1..(w - j) /\ j + (k - r - j) = k - r BY <1>8, <1>10, <2>5
    <3> QED BY <1>6, <2>1, <2>2, <2>5, <3>1 DEF w
  <2> QED BY <2>3, <2>4, <2>5
<1> QED BY <1>2, <1>7, <1>9, <1>11, SameStream
LEMMA ReadStatKeeps ==
  ASSUME PipeInv, Pipe!ReadStat, N \in Nat
  PROVE  PipeInv'
<1> DEFINE h == Head(buf)
           r == Len(results)
           b == Len(buf)
           w == Len(wire)
<1>1. buf \in Seq(Pipe!Line) /\ buf # <<>> /\ results \in Seq({"223", "430"}) BY DEF PipeInv, Shapes, Pipe!ReadStat
<1>2. /\ b > 0 /\ h = buf[1] /\ Tail(buf) \in Seq(Pipe!Line) /\ Len(Tail(buf)) = b - 1
      /\ \A k \in 1..Len(Tail(buf)) : Tail(buf)[k] = buf[k + 1]
  BY <1>1, HeadTailProperties, LenProperties
<1>3. r \in Nat /\ b \in Nat /\ w \in Nat /\ Size = r + b + w BY Lengths DEF PipeInv, Size
<1>4. CASE h \in {"223", "430"}
  <2>1. /\ results' = Append(results, h) /\ buf' = Tail(buf) /\ at = "read" /\ r < N
        /\ UNCHANGED <<at, window, truth, wire, faults, accepted>>
    BY <1>4 DEF Pipe!ReadStat
  <2>2. /\ results' \in Seq({"223", "430"}) /\ Len(results') = r + 1 /\ results'[r + 1] = h
        /\ \A k \in 1..r : results'[k] = results[k]
    BY <1>1, <1>4, <2>1, AppendProperties
  <2>3. Shapes' BY <1>2, <1>3, <2>1, <2>2 DEF PipeInv, Shapes
  <2>4. Size' = Size BY <1>2, <1>3, <2>1, <2>2 DEF Size
  <2>5. ASSUME NEW k \in 1..Size PROVE At(k)' = At(k)
    <3>1. At(k) = IF k <= r THEN results[k] ELSE IF k <= r + b THEN buf[k - r] ELSE wire[k - r - b]
      BY DEF At
    <3>2. At(k)' = IF k <= r + 1 THEN results'[k]
                   ELSE IF k <= (r + 1) + (b - 1) THEN buf'[k - (r + 1)]
                   ELSE wire[k - (r + 1) - (b - 1)]
      BY <1>2, <2>1, <2>2 DEF At
    <3>3. \A x \in 1..(b - 1) : buf'[x] = buf[x + 1] BY <1>2, <2>1
    <3> HIDE DEF h, r, b, w
    <3>4. CASE k <= r
      <4>1. k \in 1..r /\ k <= r + 1 BY <1>3, <3>4
      <4> QED BY <2>2, <3>1, <3>2, <3>4, <4>1
    <3>5. CASE k = r + 1
      <4>1. k - r = 1 /\ ~(k <= r) /\ k <= r + b BY <1>2, <1>3, <3>5
      <4> QED BY <1>2, <2>2, <3>1, <3>2, <3>5, <4>1
    <3>6. CASE k > r + 1 /\ k <= r + b
      <4>1. /\ k - (r + 1) \in 1..(b - 1) /\ (k - (r + 1)) + 1 = k - r /\ ~(k <= r)
            /\ ~(k <= r + 1) /\ k <= (r + 1) + (b - 1)
        BY <1>3, <3>6
      <4> QED BY <3>1, <3>2, <3>3, <3>6, <4>1
    <3>7. CASE k > r + 1 /\ ~(k <= r + b)
      <4>1. /\ ~(k <= r) /\ ~(k <= r + 1) /\ ~(k <= (r + 1) + (b - 1))
            /\ k - (r + 1) - (b - 1) = k - r - b
        BY <1>3, <3>7
      <4> QED BY <3>1, <3>2, <3>7, <4>1
    <3> QED BY <1>3, <3>4, <3>5, <3>6, <3>7
  <2> QED BY <2>1, <2>3, <2>4, <2>5, SameStream
<1>5. CASE h \notin {"223", "430"}
  <2>1. at' = "closed" /\ buf' = Tail(buf) /\ UNCHANGED <<truth, wire, results, faults, accepted>>
    BY <1>5 DEF Pipe!ReadStat, Pipe!Fail
  <2> QED BY <1>2, <2>1 DEF PipeInv, Shapes, Stream, Pipe!AcceptedIsTrue
<1> QED BY <1>4, <1>5

\* The heart of the argument: with one line more, a DATE's answer in the DATE's
\* place means that the line came behind the replies.
LEMMA ReadDateKeeps ==
  ASSUME PipeInv, Pipe!ReadDate, N \in Nat \ {0}
  PROVE  PipeInv'
<1> DEFINE w == Len(wire)
<1>1. buf \in Seq(Pipe!Line) /\ buf # <<>> BY DEF PipeInv, Shapes, Pipe!ReadDate
<1>2. /\ Len(buf) > 0 /\ Head(buf) = buf[1] /\ Tail(buf) \in Seq(Pipe!Line)
      /\ Len(Tail(buf)) = Len(buf) - 1
  BY <1>1, HeadTailProperties, LenProperties
<1>3. Len(results) \in Nat /\ Len(buf) \in Nat /\ w \in Nat BY Lengths DEF PipeInv
<1>4. CASE Head(buf) = "111" /\ Tail(buf) = <<>>
  <2>1. /\ at = "read" /\ at' = "idle" /\ buf' = <<>> /\ Len(results) = N
        /\ accepted' = Append(accepted, results = truth)
        /\ UNCHANGED <<truth, wire, results, faults>>
    BY <1>4 DEF Pipe!ReadDate
  <2>2. Len(buf) = 1 /\ buf[1] = "111" /\ Size = N + 1 + w BY <1>2, <1>3, <1>4, <2>1 DEF Size
  <2>3. (\A k \in 1..N : At(k) = results[k]) /\ At(N + 1) = "111"
    BY <2>1, <2>2 DEF At
  <2>4. /\ truth \in Seq({"223", "430"}) /\ Len(truth) = N
        /\ \A k \in 1..N : truth[k] \in {"223", "430"}
    <3>1. truth \in Seq({"223", "430"}) /\ Len(truth) = N BY <2>1 DEF PipeInv, Shapes
    <3> QED BY <3>1, ElementOfSeq
  <2>5. \/ Straight
        \/ faults > 0 /\ Short
        \/ faults > 0 /\ \E i \in 1..(N + 2) : Extra(i)
    BY <2>1 DEF PipeInv, Stream
  <2> HIDE DEF w
  <2>6. (\A k \in 1..N : results[k] = truth[k]) /\ (w = 0 \/ (w = 1 /\ faults > 0))
    <3>1. CASE Straight
      <4>1. w = 0 BY <1>3, <2>2, <3>1 DEF Straight
      <4> QED BY <2>3, <3>1, <4>1 DEF Straight, Due
    <3>2. ~Short BY <1>3, <2>2 DEF Short
    <3>3. CASE faults > 0 /\ \E i \in 1..(N + 2) : Extra(i)
      <4>1. PICK i \in 1..(N + 2) : Extra(i) BY <3>3
      <4>2. w = 1 BY <1>3, <2>2, <4>1 DEF Extra
      <4>3. ~(i < N + 1)
        <5> SUFFICES ASSUME i < N + 1 PROVE FALSE OBVIOUS
        <5>1. At(N + 1) = Due(N) BY <4>1 DEF Extra
        <5>2. Due(N) = truth[N] /\ N \in 1..N BY DEF Due
        <5> QED BY <2>3, <2>4, <5>1, <5>2
      <4>4. \A k \in 1..N : k < i /\ k \in 1..(N + 2) BY <4>3
      <4>5. \A k \in 1..N : At(k) = Due(k) BY <4>1, <4>4 DEF Extra
      <4> QED BY <2>3, <3>3, <4>2, <4>5 DEF Due
    <3> QED BY <2>5, <3>1, <3>2, <3>3
  <2>7. results = truth
    <3>1. results \in Seq({"223", "430"}) BY DEF PipeInv, Shapes
    <3> QED BY <2>1, <2>4, <2>6, <3>1, SeqEqual
  <2>8. accepted \in Seq(BOOLEAN) /\ accepted' = Append(accepted, TRUE)
    BY <2>1, <2>7 DEF PipeInv, Shapes
  <2>9. /\ accepted' \in Seq(BOOLEAN) /\ Len(accepted') = Len(accepted) + 1
        /\ accepted'[Len(accepted) + 1] = TRUE
        /\ \A k \in 1..Len(accepted) : accepted'[k] = accepted[k]
    BY <2>8, AppendProperties
  <2>10. Pipe!AcceptedIsTrue'
    <3>1. /\ DOMAIN accepted = 1..Len(accepted) /\ DOMAIN accepted' = 1..(Len(accepted) + 1)
          /\ Len(accepted) \in Nat
      BY <2>8, <2>9, LenProperties
    <3>2. \A k \in 1..Len(accepted) : accepted[k] BY <3>1 DEF PipeInv, Pipe!AcceptedIsTrue
    <3> SUFFICES ASSUME NEW k \in DOMAIN accepted' PROVE accepted'[k] BY DEF Pipe!AcceptedIsTrue
    <3>3. k \in 1..Len(accepted) \/ k = Len(accepted) + 1 BY <3>1
    <3> QED BY <2>9, <3>2, <3>3
  <2>11. Shapes' BY <2>1, <2>9 DEF PipeInv, Shapes
  <2>12. Stream' BY <2>1, <2>6 DEF Stream, w
  <2> QED BY <2>10, <2>11, <2>12 DEF PipeInv
<1>5. CASE ~(Head(buf) = "111" /\ Tail(buf) = <<>>)
  <2>1. at' = "closed" /\ buf' = Tail(buf) /\ UNCHANGED <<truth, wire, results, faults, accepted>>
    BY <1>5 DEF Pipe!ReadDate, Pipe!Fail
  <2> QED BY <1>2, <2>1 DEF PipeInv, Shapes, Stream, Pipe!AcceptedIsTrue
<1> QED BY <1>4, <1>5
LEMMA WriteKeeps ==
  ASSUME PipeInv, Pipe!Write, N \in Nat
  PROVE  PipeInv'
<1>1. PICK t \in [1..N -> {"223", "430"}] : truth' = t /\ wire' = wire \o Append(t, "111")
  BY DEF Pipe!Write
<1> DEFINE u == Append(t, "111")
<1>2. /\ at = "idle" /\ at' = "read" /\ results' = <<>> /\ Len(results') = 0
      /\ UNCHANGED <<buf, faults, accepted>>
  BY DEF Pipe!Write
<1>3. t \in Seq({"223", "430"}) /\ Len(t) = N BY <1>1
<1>4. u \in Seq(Pipe!Line) /\ Len(u) = N + 1 /\ \A k \in 1..(N + 1) : u[k] = IF k <= N THEN t[k] ELSE "111"
  <2>1. t \in Seq(Pipe!Line) BY <1>1 DEF Pipe!Line
  <2>2. "111" \in Pipe!Line BY DEF Pipe!Line
  <2>3. /\ u \in Seq(Pipe!Line) /\ Len(u) = Len(t) + 1 /\ u[Len(t) + 1] = "111"
        /\ \A k \in 1..Len(t) : u[k] = t[k]
    BY <2>1, <2>2, AppendProperties
  <2> HIDE DEF u
  <2> QED BY <1>3, <2>3
<1> HIDE DEF u
<1>5. wire \in Seq(Pipe!Line) /\ Len(wire) \in Nat BY Lengths DEF PipeInv, Shapes
<1>6. /\ wire' \in Seq(Pipe!Line) /\ Len(wire') = Len(wire) + Len(u)
      /\ \A k \in 1..(Len(wire) + Len(u)) :
           wire'[k] = IF k <= Len(wire) THEN wire[k] ELSE u[k - Len(wire)]
  <2>1. wire' = wire \o u BY <1>1 DEF u
  <2> QED BY <1>4, <1>5, <2>1, ConcatProperties
<1>7. Shapes' BY <1>1, <1>2, <1>3, <1>6 DEF PipeInv, Shapes
<1>8. buf' = <<>> /\ Len(buf') = 0 BY <1>2 DEF PipeInv, Stream
<1>9. Size' = Len(wire) + N + 1 BY <1>2, <1>4, <1>5, <1>6, <1>8 DEF Size
<1>10. \A k \in 1..(Len(wire) + N + 1) : At(k)' = wire'[k]
  BY <1>2, <1>5, <1>8 DEF At
<1>11. \A k \in 1..(N + 1) : Due(k)' = u[k] BY <1>1, <1>4 DEF Due
<1> DEFINE w == Len(wire)
<1>12. \A k \in 1..(w + N + 1) : At(k)' = IF k <= w THEN wire[k] ELSE u[k - w]
  <2>1. \A k \in 1..(w + N + 1) : k \in 1..(w + Len(u)) BY <1>4, <1>5
  <2> QED BY <1>6, <1>10, <2>1
<1>13. Stream'
  <2>1. w = 0 \/ (w = 1 /\ faults > 0) BY <1>2 DEF PipeInv, Stream
  <2> HIDE DEF w
  <2>2. CASE w = 0
    <3>1. Size' = N + 1 BY <1>9, <2>2 DEF w
    <3>2. \A k \in 1..(N + 1) : At(k)' = u[k] BY <1>12, <2>2
    <3>3. Straight' BY <1>11, <3>1, <3>2 DEF Straight
    <3> QED BY <1>2, <3>3 DEF Stream
  <2>3. CASE w = 1 /\ faults > 0
    <3>1. Size' = N + 2 BY <1>9, <2>3 DEF w
    <3>2. \A k \in 1..(N + 2) : k > 1 => At(k)' = Due(k - 1)'
      <4> TAKE k \in 1..(N + 2)
      <4> HAVE k > 1
      <4>1. k \in 1..(w + N + 1) /\ ~(k <= w) /\ k - w = k - 1 /\ k - 1 \in 1..(N + 1) BY <2>3
      <4>2. At(k)' = u[k - 1] BY <1>12, <4>1
      <4> QED BY <1>11, <4>1, <4>2
    <3>3. Extra(1)' BY <3>1, <3>2 DEF Extra
    <3>4. 1 \in 1..(N + 2) BY DEF Stream
    <3>5. (\E i \in 1..(N + 2) : Extra(i))' BY <3>3, <3>4
    <3> QED BY <1>2, <2>3, <3>5 DEF Stream
  <2> QED BY <2>1, <2>2, <2>3
<1>14. Pipe!AcceptedIsTrue' BY <1>2 DEF PipeInv, Pipe!AcceptedIsTrue
<1> QED BY <1>7, <1>13, <1>14 DEF PipeInv

LEMMA DropKeeps ==
  ASSUME PipeInv, Pipe!Drop, N \in Nat, MaxFaults <= 1, MaxFaults \in Nat
  PROVE  PipeInv'
<1>1. PICK i \in DOMAIN wire : wire' = Pipe!RemoveAt(wire, i) BY DEF Pipe!Drop
<1>2. /\ faults = 0 /\ faults' = 1
      /\ UNCHANGED <<at, truth, buf, results, accepted>>
  BY DEF PipeInv, Shapes, Pipe!Drop
<1>3. wire \in Seq(Pipe!Line) /\ Len(wire) \in Nat /\ i \in 1..Len(wire)
  BY Lengths, LenProperties DEF PipeInv, Shapes
<1>4. wire' \in Seq(Pipe!Line) /\ Len(wire') = Len(wire) - 1
  <2> DEFINE a == SubSeq(wire, 1, i - 1)
             b == SubSeq(wire, i + 1, Len(wire))
  <2>1. \A k \in 1..Len(wire) : wire[k] \in Pipe!Line BY <1>3, ElementOfSeq
  <2>2. a \in Seq(Pipe!Line) /\ Len(a) = i - 1
    <3>1. \A k \in 1..(i - 1) : wire[k] \in Pipe!Line BY <1>3, <2>1
    <3> QED BY <1>3, <3>1, SubSeqProperties
  <2>3. b \in Seq(Pipe!Line) /\ Len(b) = Len(wire) - i
    <3>1. \A k \in (i + 1)..Len(wire) : wire[k] \in Pipe!Line BY <1>3, <2>1
    <3> QED BY <1>3, <3>1, SubSeqProperties
  <2>4. wire' = a \o b BY <1>1 DEF Pipe!RemoveAt
  <2> HIDE DEF a, b
  <2>5. a \o b \in Seq(Pipe!Line) /\ Len(a \o b) = Len(a) + Len(b)
    <3>1. a \in Seq(Pipe!Line) /\ b \in Seq(Pipe!Line) BY <2>2, <2>3
    <3> QED BY <3>1, ConcatProperties
  <2> QED BY <1>3, <2>2, <2>3, <2>4, <2>5
<1>5. Shapes' BY <1>2, <1>4 DEF PipeInv, Shapes, Pipe!Drop
<1>6. Len(results) \in Nat /\ Len(buf) \in Nat BY Lengths DEF PipeInv
<1>7. Stream'
  <2>1. CASE at = "read"
    <3>1. Size = N + 1 BY <1>2, <2>1 DEF PipeInv, Stream, Straight
    <3>2. Size' = N BY <1>2, <1>3, <1>4, <1>6, <3>1 DEF Size
    <3> QED BY <1>2, <2>1, <3>2 DEF Stream, Short
  <2>2. at # "idle" BY <1>2, <1>3 DEF PipeInv, Stream
  <2> QED BY <1>2, <2>1, <2>2 DEF Stream
<1>8. Pipe!AcceptedIsTrue' BY <1>2 DEF PipeInv, Pipe!AcceptedIsTrue
<1> QED BY <1>5, <1>7, <1>8 DEF PipeInv

LEMMA InsertAtProperties ==
  ASSUME NEW S, NEW s \in Seq(S), NEW i \in 1..(Len(s) + 1), NEW e \in S
  PROVE  /\ Pipe!InsertAt(s, i, e) \in Seq(S) /\ Len(Pipe!InsertAt(s, i, e)) = Len(s) + 1
         /\ \A k \in 1..(Len(s) + 1) : /\ k < i => Pipe!InsertAt(s, i, e)[k] = s[k]
                                       /\ k > i => Pipe!InsertAt(s, i, e)[k] = s[k - 1]
<1> DEFINE a == SubSeq(s, 1, i - 1)
           m == <<e>>
           b == SubSeq(s, i, Len(s))
           n == Len(s)
<1>1. n \in Nat /\ i \in 1..(n + 1) /\ \A k \in 1..n : s[k] \in S BY ElementOfSeq, LenProperties
<1>2. a \in Seq(S) /\ Len(a) = i - 1 /\ \A k \in 1..(i - 1) : a[k] = s[k]
  <2>1. \A k \in 1..(i - 1) : s[k] \in S BY <1>1
  <2> QED BY <1>1, <2>1, SubSeqProperties
<1>3. b \in Seq(S) /\ Len(b) = n - i + 1 /\ \A k \in 1..(n - i + 1) : b[k] = s[i + k - 1]
  <2>1. \A k \in i..n : s[k] \in S BY <1>1
  <2> QED BY <1>1, <2>1, SubSeqProperties
<1>4. m \in Seq(S) /\ Len(m) = 1 OBVIOUS
<1>5. Pipe!InsertAt(s, i, e) = (a \o m) \o b BY DEF Pipe!InsertAt
<1> HIDE DEF a, b, m, n
<1>6. /\ a \o m \in Seq(S) /\ Len(a \o m) = i
      /\ \A k \in 1..(i - 1) : (a \o m)[k] = a[k]
  <2>1. /\ a \o m \in Seq(S) /\ Len(a \o m) = Len(a) + Len(m)
        /\ \A k \in 1..(Len(a) + Len(m)) : (a \o m)[k] = IF k <= Len(a) THEN a[k] ELSE m[k - Len(a)]
    <3>1. a \in Seq(S) /\ m \in Seq(S) BY <1>2, <1>4
    <3> QED BY <3>1, ConcatProperties
  <2>2. Len(a) = i - 1 /\ Len(m) = 1 BY <1>2, <1>4
  <2> QED BY <1>1, <2>1, <2>2
<1> DEFINE c == a \o m
<1>7. c \in Seq(S) /\ Len(c) = i /\ \A k \in 1..(i - 1) : c[k] = s[k] BY <1>1, <1>2, <1>6
<1> HIDE DEF c
<1>8. /\ c \o b \in Seq(S) /\ Len(c \o b) = n + 1
      /\ \A k \in 1..(n + 1) : (c \o b)[k] = IF k <= i THEN c[k] ELSE b[k - i]
  <2>1. /\ c \o b \in Seq(S) /\ Len(c \o b) = Len(c) + Len(b)
        /\ \A k \in 1..(Len(c) + Len(b)) : (c \o b)[k] = IF k <= Len(c) THEN c[k] ELSE b[k - Len(c)]
    <3>1. c \in Seq(S) /\ b \in Seq(S) BY <1>3, <1>7
    <3> QED BY <3>1, ConcatProperties
  <2>2. Len(c) = i /\ Len(b) = n - i + 1 BY <1>3, <1>7
  <2>3. Len(c) + Len(b) = n + 1 BY <1>1, <2>2
  <2> QED BY <1>1, <2>1, <2>2, <2>3
<1>9. Pipe!InsertAt(s, i, e) = c \o b BY <1>5 DEF c
<1>10. ASSUME NEW k \in 1..(n + 1)
       PROVE  /\ k < i => (c \o b)[k] = s[k]
              /\ k > i => (c \o b)[k] = s[k - 1]
  <2>1. CASE k < i
    <3>1. k \in 1..(i - 1) /\ k <= i /\ ~(k > i) BY <1>1, <2>1
    <3> QED BY <1>7, <1>8, <2>1, <3>1
  <2>2. CASE k > i
    <3>1. k - i \in 1..(n - i + 1) /\ ~(k <= i) /\ ~(k < i) /\ i + (k - i) - 1 = k - 1 BY <1>1, <2>2
    <3> QED BY <1>3, <1>8, <2>2, <3>1
  <2> QED BY <2>1, <2>2
<1> QED BY <1>8, <1>9, <1>10 DEF n

LEMMA InsertKeeps ==
  ASSUME PipeInv, Pipe!Insert, N \in Nat, MaxFaults <= 1, MaxFaults \in Nat
  PROVE  PipeInv'
<1>1. PICK j \in 1..(Len(wire) + 1), l \in Pipe!Line : wire' = Pipe!InsertAt(wire, j, l) BY DEF Pipe!Insert
<1>2. /\ faults = 0 /\ faults' = 1 /\ at # "closed"
      /\ UNCHANGED <<at, truth, buf, results, accepted>>
  BY DEF PipeInv, Shapes, Pipe!Insert
<1> DEFINE r == Len(results)
           b == Len(buf)
           w == Len(wire)
<1>3. wire \in Seq(Pipe!Line) /\ w \in Nat /\ r \in Nat /\ b \in Nat /\ j \in 1..(w + 1)
  BY <1>1, Lengths DEF PipeInv, Shapes
<1>4. /\ wire' \in Seq(Pipe!Line) /\ Len(wire') = w + 1
      /\ \A k \in 1..(w + 1) : (k < j => wire'[k] = wire[k]) /\ (k > j => wire'[k] = wire[k - 1])
  BY <1>1, <1>3, InsertAtProperties
<1>5. Shapes' BY <1>2, <1>4 DEF PipeInv, Shapes, Pipe!Insert
<1>6. Stream'
  <2>1. CASE at = "read"
    <3>1. Straight BY <1>2, <2>1 DEF PipeInv, Stream
    <3>2. r + b + w = N + 1 BY <3>1 DEF Straight, Size
    <3>3. Size' = N + 2 BY <1>2, <1>3, <1>4, <3>2 DEF Size
    <3>4. PICK i \in 1..(N + 2) : i = r + b + j BY <1>3, <3>2
    <3>5. \A k \in 1..(N + 1) :
            Due(k) = IF k <= r THEN results[k] ELSE IF k <= r + b THEN buf[k - r] ELSE wire[k - r - b]
      BY <3>1 DEF Straight, At
    <3>6. \A k : At(k)' = IF k <= r THEN results[k] ELSE IF k <= r + b THEN buf[k - r] ELSE wire'[k - r - b]
      BY <1>2 DEF At
    <3>7. \A k : Due(k)' = Due(k) BY <1>2 DEF Due
    <3> HIDE DEF r, b, w
    <3>8. ASSUME NEW k \in 1..(N + 2), k < i PROVE At(k)' = Due(k)
      <4>1. k \in 1..(N + 1) BY <3>4, <3>8
      <4>2. CASE k <= r + b BY <3>5, <3>6, <4>1, <4>2
      <4>3. CASE ~(k <= r + b)
        <5>1. k - r - b \in 1..(w + 1) /\ k - r - b < j /\ ~(k <= r) BY <1>3, <3>2, <3>4, <3>8, <4>3
        <5> QED BY <1>4, <3>5, <3>6, <4>1, <4>3, <5>1
      <4> QED BY <4>2, <4>3
    <3>9. ASSUME NEW k \in 1..(N + 2), k > i PROVE At(k)' = Due(k - 1)
      <4>1. /\ k - 1 \in 1..(N + 1) /\ ~(k <= r) /\ ~(k <= r + b)
            /\ ~(k - 1 <= r) /\ ~(k - 1 <= r + b)
            /\ k - r - b \in 1..(w + 1) /\ k - r - b > j /\ (k - r - b) - 1 = (k - 1) - r - b
        BY <1>3, <3>2, <3>4, <3>9
      <4> QED BY <1>4, <3>5, <3>6, <4>1
    <3>10. Extra(i)' BY <3>3, <3>7, <3>8, <3>9 DEF Extra
    <3>11. \E x \in 1..(N + 2) : Extra(x)' BY <3>4, <3>10
    <3>12. faults' > 0 /\ at' = "read" BY <1>2, <2>1
    <3> QED BY <3>11, <3>12 DEF Stream
  <2>2. CASE at = "idle"
    <3>1. buf = <<>> /\ w = 0 BY <1>2, <2>2 DEF PipeInv, Stream
    <3> QED BY <1>2, <1>4, <2>2, <3>1 DEF Stream
  <2> QED BY <1>2, <2>1, <2>2 DEF PipeInv, Shapes
<1>7. Pipe!AcceptedIsTrue' BY <1>2 DEF PipeInv, Pipe!AcceptedIsTrue
<1> QED BY <1>5, <1>6, <1>7 DEF PipeInv

-----------------------------------------------------------------------------
\* With one line lost or added on a connection, at any time, no window that
\* StatBatch accepts has an answer in another article's place, whatever its size
\* and however many windows come after (the DATE check and what it finds buffered
\* behind the answer).  Two faults can cancel out in one window, so one is the
\* most the protocol can promise.
THEOREM NoShiftedAnswer ==
  ASSUME MaxFaults <= 1
  PROVE  Pipe!Spec => []AcceptedIsTrue
<1> USE PipeAssumption DEF Pipe!PipelineAssumption
<1>1. Pipe!Init => PipeInv
  <2> SUFFICES ASSUME Pipe!Init PROVE PipeInv OBVIOUS
  <2>1. Shapes BY DEF Pipe!Init, Shapes
  <2> QED BY <2>1 DEF Pipe!Init, PipeInv, Stream, Pipe!AcceptedIsTrue
<1>2. ASSUME PipeInv, [Pipe!Next]_(Pipe!vars) PROVE PipeInv'
  <2>1. CASE Pipe!Write BY <1>2, <2>1, WriteKeeps
  <2>2. CASE Pipe!Drop BY <1>2, <2>2, DropKeeps
  <2>3. CASE Pipe!Insert BY <1>2, <2>3, InsertKeeps
  <2>4. CASE Pipe!Fill BY <1>2, <2>4, FillKeeps
  <2>5. CASE Pipe!ReadFails
    BY <1>2, <2>5 DEF Pipe!ReadFails, Pipe!Fail, PipeInv, Shapes, Stream, Pipe!AcceptedIsTrue
  <2>6. CASE Pipe!ReadStat BY <1>2, <2>6, ReadStatKeeps
  <2>7. CASE Pipe!ReadDate BY <1>2, <2>7, ReadDateKeeps
  <2>8. CASE UNCHANGED Pipe!vars
    BY <1>2, <2>8 DEF Pipe!vars, PipeInv, Shapes, Stream, Pipe!AcceptedIsTrue, Straight, Short, Extra, Size, At, Due
  <2> QED BY <1>2, <2>1, <2>2, <2>3, <2>4, <2>5, <2>6, <2>7, <2>8 DEF Pipe!Next
<1>3. PipeInv => AcceptedIsTrue BY DEF PipeInv, AcceptedIsTrue
<1> QED BY <1>1, <1>2, <1>3, PTL DEF Pipe!Spec
=============================================================================
