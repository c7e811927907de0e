---------------------------- MODULE LossyProofs ----------------------------
(***************************************************************************)
(* Proofs about the slot of a lossy source, for any dials and any number   *)
(* of sessions.                                                            *)
(***************************************************************************)
EXTENDS Lossy, FiniteSetTheorems, TLAPS

(***************************************************************************)
(* What the mutex held across the open's await gives: while a dial waits   *)
(* for a FIFO's writer the slot keeps no session, a session whose pump is  *)
(* not done is the one the slot keeps, and viewers only watch a session    *)
(* that was started.                                                       *)
(***************************************************************************)
OpenIsRearmed == \A d \in Dials : dial[d].phase = "opening" => fifo /\ slot.armed

LiveIsKept ==
  \A k \in Rings :
    /\ pump[k] \notin {"none", "closed"} => slot.fanout = {k}
    /\ pump[k] # "none" /\ ~fifo => slot.fanout = {k}

ViewersSeeStarted == \A d \in Dials : \A k \in dial[d].on : pump[k] # "none"

\* The queue at the mutex, as TypeOK has it: the holder is its first.
Line ==
  /\ queue \in Seq(Dials)
  /\ IsInjective(queue)
  /\ Range(queue) = Waiting
  /\ \A d \in Dials : dial[d].phase = "opening" => Holds(d)

States ==
  [phase : {"idle", "asking", "opening", "viewing"}, on : {{}} \cup {{k} : k \in Rings}]

\* The rest of TypeOK, and what StaysArmed says of the slot.
Shape ==
  /\ fifo \in BOOLEAN
  /\ slot \in [armed : BOOLEAN, fanout : {{}} \cup {{k} : k \in Rings}]
  /\ \A k \in slot.fanout : pump[k] # "none"
  /\ pump \in [Rings -> {"none", "dropped", "closed"} \cup Pumping]
  /\ dial \in [Dials -> States]
  /\ \A d \in Dials : dial[d].phase = "viewing" <=> dial[d].on # {}

SlotArmed ==
  /\ slot.armed <=> slot.fanout = {}
  /\ ~fifo => (slot.armed <=> \A k \in Rings : pump[k] = "none")

\* The inductive invariant.
IInv == Line /\ Shape /\ SlotArmed /\ OpenIsRearmed /\ LiveIsKept /\ ViewersSeeStarted
-----------------------------------------------------------------------------
(* The queue *)

\* One entry taken out of a sequence without repetitions.
LEMMA RemovedOne ==
  ASSUME NEW S, NEW s \in Seq(S), IsInjective(s), NEW i \in DOMAIN s,
         NEW t, t = RemoveAt(s, i)
  PROVE  /\ t \in Seq(S)
         /\ IsInjective(t)
         /\ Range(t) = Range(s) \ {s[i]}
         /\ i # 1 => t # <<>> /\ t[1] = s[1]
<1> DEFINE a == SubSeq(s, 1, i - 1)
           b == SubSeq(s, i + 1, Len(s))
<1>1. Len(s) \in Nat /\ DOMAIN s = 1..Len(s) /\ i \in 1..Len(s)
  OBVIOUS
<1>2. /\ a \in Seq(S) /\ Len(a) = i - 1
      /\ \A j \in 1..(i - 1) : a[j] = s[j]
  BY <1>1
<1>3. /\ b \in Seq(S) /\ Len(b) = Len(s) - i
      /\ \A j \in 1..(Len(s) - i) : b[j] = s[i + j]
  BY <1>1
<1>4. t = a \o b
  BY DEF RemoveAt
<1> HIDE DEF a, b
<1>5. /\ t \in Seq(S) /\ Len(t) = Len(s) - 1 /\ DOMAIN t = 1..(Len(s) - 1)
      /\ \A j \in 1..(Len(s) - 1) : j < i => t[j] = s[j]
      /\ \A j \in 1..(Len(s) - 1) : j >= i => t[j] = s[j + 1]
  <2>1. t \in Seq(S) /\ Len(t) = Len(s) - 1 /\ DOMAIN t = 1..(Len(s) - 1)
    <3>1. t \in Seq(S) /\ Len(t) = Len(a) + Len(b)
      BY <1>2, <1>3, <1>4
    <3>2. Len(t) = Len(s) - 1
      BY <1>1, <1>2, <1>3, <3>1
    <3> QED BY <3>1, <3>2
  <2>2. \A j \in 1..(Len(s) - 1) : j < i => t[j] = s[j]
    BY <1>1, <1>2, <1>3, <1>4
  <2>3. ASSUME NEW j \in 1..(Len(s) - 1), j >= i
        PROVE  t[j] = s[j + 1]
    <3>1. t[j] = b[j - (i - 1)]
      BY <1>1, <1>2, <1>3, <1>4, <2>3
    <3>2. j - (i - 1) \in 1..(Len(s) - i) /\ i + (j - (i - 1)) = j + 1
      BY <1>1, <2>3
    <3> QED BY <1>3, <3>1, <3>2
  <2> QED BY <2>1, <2>2, <2>3
<1>6. IsInjective(t)
  <2> SUFFICES ASSUME NEW j \in 1..(Len(s) - 1), NEW k \in 1..(Len(s) - 1), t[j] = t[k]
               PROVE  j = k
    BY <1>5 DEF IsInjective
  <2>1. PICK m \in DOMAIN s : t[j] = s[m] /\ m = IF j < i THEN j ELSE j + 1
    BY <1>1, <1>5
  <2>2. PICK n \in DOMAIN s : t[k] = s[n] /\ n = IF k < i THEN k ELSE k + 1
    BY <1>1, <1>5
  <2>3. m = n
    BY <2>1, <2>2 DEF IsInjective
  <2> QED BY <1>1, <2>1, <2>2, <2>3
<1>7. Range(t) = Range(s) \ {s[i]}
  <2>1. ASSUME NEW j \in 1..(Len(s) - 1)
        PROVE  t[j] \in Range(s) \ {s[i]}
    <3>1. CASE j < i
      <4>1. t[j] = s[j] /\ j \in DOMAIN s /\ j # i
        BY <1>1, <1>5, <3>1
      <4> QED BY <4>1 DEF IsInjective, Range
    <3>2. CASE j >= i
      <4>1. t[j] = s[j + 1] /\ j + 1 \in DOMAIN s /\ j + 1 # i
        BY <1>1, <1>5, <3>2
      <4> QED BY <4>1 DEF IsInjective, Range
    <3> QED BY <1>1, <3>1, <3>2
  <2>2. ASSUME NEW x \in Range(s), x # s[i]
        PROVE  x \in Range(t)
    <3>1. PICK j \in 1..Len(s) : s[j] = x
      BY <1>1, <2>2 DEF Range
    <3>2. CASE j < i
      <4>1. j \in 1..(Len(s) - 1) /\ t[j] = x
        BY <1>1, <1>5, <3>1, <3>2
      <4> QED BY <1>5, <4>1 DEF Range
    <3>3. CASE j > i
      <4>1. j - 1 \in 1..(Len(s) - 1) /\ t[j - 1] = x
        BY <1>1, <1>5, <3>1, <3>3
      <4> QED BY <1>5, <4>1 DEF Range
    <3> QED BY <1>1, <2>2, <3>1, <3>2, <3>3
  <2>3. ASSUME NEW x \in Range(t)
        PROVE  x \in Range(s) \ {s[i]}
    BY <1>5, <2>1 DEF Range
  <2> QED BY <2>2, <2>3
<1>8. i # 1 => t # <<>> /\ t[1] = s[1]
  BY <1>1, <1>5
<1> QED BY <1>5, <1>6, <1>7, <1>8

\* A dial that asks waits behind everyone who did.
LEMMA AskLines ==
  ASSUME Line, Shape, NEW d \in Dials, Ask(d)
  PROVE  Line'
<1>1. d \notin Range(queue)
  BY DEF Line, Waiting, Ask
<1>2. /\ queue' \in Seq(Dials) /\ DOMAIN queue' = 1..(Len(queue) + 1)
      /\ \A i \in 1..Len(queue) : queue'[i] = queue[i]
      /\ queue'[Len(queue) + 1] = d
      /\ DOMAIN queue = 1..Len(queue) /\ Len(queue) \in Nat
  BY DEF Line, Ask
<1>3. IsInjective(queue')
  BY <1>1, <1>2 DEF Line, IsInjective, Range
<1>4. Range(queue') = Range(queue) \cup {d}
  BY <1>2 DEF Range
<1>5. Waiting' = Waiting \cup {d}
  BY DEF Ask, Become, Waiting, Shape
<1>6. \A e \in Dials : dial'[e].phase = "opening" => Holds(e)'
  <2> SUFFICES ASSUME NEW e \in Dials, dial'[e].phase = "opening"
               PROVE  Holds(e)'
    OBVIOUS
  <2>1. dial[e].phase = "opening"
    BY DEF Ask, Become, Shape
  <2>2. queue # <<>> /\ queue[1] = e
    BY <2>1 DEF Line, Holds
  <2>3. queue' # <<>> /\ queue'[1] = e
    BY <1>2, <2>2
  <2> QED BY <2>3 DEF Holds
<1> QED BY <1>2, <1>3, <1>4, <1>5, <1>6 DEF Line

(***************************************************************************)
(* A dial that leaves the mutex, or the line, takes one place of it; and   *)
(* nobody else was mid-open, or the first of the line stays the first.     *)
(***************************************************************************)
LEMMA PlaceTaken ==
  ASSUME Line, Shape, NEW d \in Dials, dial[d].phase \in {"asking", "opening"},
         NEW state \in States, state.phase \in {"idle", "viewing"}, Become(d, state),
         NEW i \in DOMAIN queue, queue[i] = d, queue' = RemoveAt(queue, i)
  PROVE  Line'
<1>1. /\ queue' \in Seq(Dials) /\ IsInjective(queue')
      /\ Range(queue') = Range(queue) \ {d}
      /\ i # 1 => queue' # <<>> /\ queue'[1] = queue[1]
  BY RemovedOne DEF Line
<1>2. Waiting' = Waiting \ {d}
  BY DEF Become, Waiting, Shape
<1>3. \A e \in Dials : dial'[e].phase = "opening" => Holds(e)'
  <2> SUFFICES ASSUME NEW e \in Dials, dial'[e].phase = "opening"
               PROVE  Holds(e)'
    OBVIOUS
  <2>1. e # d /\ dial[e].phase = "opening"
    BY DEF Become, Shape
  <2>2. queue # <<>> /\ queue[1] = e
    BY <2>1 DEF Line, Holds
  <2>3. i # 1
    BY <2>1, <2>2
  <2> QED BY <1>1, <2>2, <2>3 DEF Holds
<1> QED BY <1>1, <1>2, <1>3 DEF Line

\* The holder of the mutex gives it up.
LEMMA ReleaseLines ==
  ASSUME Line, Shape, NEW d \in Dials, dial[d].phase \in {"asking", "opening"},
         Holds(d), Release, NEW state \in States, state.phase \in {"idle", "viewing"},
         Become(d, state)
  PROVE  Line'
<1>1. queue \in Seq(Dials) /\ queue # <<>> /\ 1 \in DOMAIN queue /\ queue[1] = d
  BY DEF Line, Holds
<1>2. Tail(queue) = RemoveAt(queue, 1)
  BY <1>1 DEF RemoveAt
<1> QED BY <1>1, <1>2, PlaceTaken DEF Release
-----------------------------------------------------------------------------
(* The inductive invariant *)

Slotted == Shape /\ SlotArmed /\ OpenIsRearmed /\ LiveIsKept /\ ViewersSeeStarted

LEMMA InitHolds == Init => IInv
<1> SUFFICES ASSUME Init PROVE IInv
  OBVIOUS
<1>1. Line
  BY DEF Init, Line, Idle, Waiting, IsInjective, Range
<1>2. Shape /\ SlotArmed
  BY DEF Init, Idle, Shape, SlotArmed, States
<1>3. OpenIsRearmed /\ LiveIsKept /\ ViewersSeeStarted
  BY DEF Init, Idle, OpenIsRearmed, LiveIsKept, ViewersSeeStarted
<1> QED BY <1>1, <1>2, <1>3 DEF IInv

\* A dial that only changes where it is, without a session: it asks, is
\* refused, or is dropped.
LEMMA DialMoves ==
  ASSUME Slotted, NEW d \in Dials, NEW phase \in {"idle", "asking"},
         Become(d, [phase |-> phase, on |-> {}]), UNCHANGED <<fifo, slot, pump>>
  PROVE  Slotted'
<1>1. [phase |-> phase, on |-> {}] \in States
  BY DEF States
<1>2. /\ dial' \in [Dials -> States]
      /\ dial'[d] = [phase |-> phase, on |-> {}]
      /\ \A e \in Dials \ {d} : dial'[e] = dial[e]
  BY <1>1 DEF Slotted, Shape, Become
<1>3. Shape' /\ SlotArmed'
  BY <1>2 DEF Slotted, Shape, SlotArmed
<1>4. OpenIsRearmed' /\ LiveIsKept' /\ ViewersSeeStarted'
  BY <1>2 DEF Slotted, OpenIsRearmed, LiveIsKept, ViewersSeeStarted
<1> QED BY <1>3, <1>4 DEF Slotted

\* A dial attached to the session the slot keeps.
LEMMA DialAttaches ==
  ASSUME Slotted, NEW d \in Dials, NEW k \in slot.fanout, Become(d, Viewing(k)),
         UNCHANGED <<fifo, slot, pump>>
  PROVE  Slotted'
<1>1. Viewing(k) \in States /\ Viewing(k) = [phase |-> "viewing", on |-> {k}]
  BY DEF States, Viewing, Slotted, Shape
<1>2. /\ dial' \in [Dials -> States]
      /\ dial'[d] = [phase |-> "viewing", on |-> {k}]
      /\ \A e \in Dials \ {d} : dial'[e] = dial[e]
  BY <1>1 DEF Slotted, Shape, Become
<1>3. Shape' /\ SlotArmed'
  BY <1>2 DEF Slotted, Shape, SlotArmed
<1>4. OpenIsRearmed' /\ LiveIsKept' /\ ViewersSeeStarted'
  BY <1>2 DEF Slotted, OpenIsRearmed, LiveIsKept, ViewersSeeStarted, Shape
<1> QED BY <1>3, <1>4 DEF Slotted

\* A slot with nothing to keep, and no reader out, starts a session.
LEMMA SessionStarts ==
  ASSUME Slotted, NEW d \in Dials, StartSession(d),
         slot.armed, \A e \in Dials \ {d} : dial[e].phase # "opening"
  PROVE  Slotted'
<1>1. PICK k \in Rings : /\ Spare(k)
                         /\ slot' = [armed |-> FALSE, fanout |-> {k}]
                         /\ pump' = [pump EXCEPT ![k] = "top"]
                         /\ Become(d, Viewing(k))
                         /\ UNCHANGED fifo
  BY DEF StartSession
<1>2. Viewing(k) \in States /\ Viewing(k) = [phase |-> "viewing", on |-> {k}]
  BY DEF States, Viewing
<1>3. /\ dial' \in [Dials -> States]
      /\ dial'[d] = [phase |-> "viewing", on |-> {k}]
      /\ \A e \in Dials \ {d} : dial'[e] = dial[e]
  BY <1>1, <1>2 DEF Slotted, Shape, Become
<1>4. /\ pump' \in [Rings -> {"none", "dropped", "closed"} \cup Pumping]
      /\ pump'[k] = "top" /\ \A j \in Rings \ {k} : pump'[j] = pump[j]
  BY <1>1 DEF Slotted, Shape, Pumping
<1>5. slot.fanout = {} /\ \A j \in Rings : pump[j] \in {"none", "closed"}
  BY DEF Slotted, SlotArmed, LiveIsKept
<1>6. ~fifo => \A j \in Rings : pump[j] = "none"
  BY DEF Slotted, SlotArmed
<1>7. Shape' /\ SlotArmed'
  BY <1>1, <1>3, <1>4 DEF Slotted, Shape, SlotArmed
<1>8. OpenIsRearmed' /\ LiveIsKept'
  BY <1>1, <1>3, <1>4, <1>5, <1>6 DEF OpenIsRearmed, LiveIsKept
<1>9. ViewersSeeStarted'
  BY <1>1, <1>3, <1>4 DEF Slotted, ViewersSeeStarted, Shape, States
<1> QED BY <1>7, <1>8, <1>9 DEF Slotted

\* A FIFO's finished session is let go and its opener restored.
LEMMA SlotRearms ==
  ASSUME Slotted, NEW d \in Dials, fifo, NeedsOpen, slot' = Rearmed,
         NEW phase \in {"idle", "opening"},
         Become(d, [phase |-> phase, on |-> {}]), UNCHANGED <<fifo, pump>>
  PROVE  Slotted'
<1>1. [phase |-> phase, on |-> {}] \in States
  BY DEF States
<1>2. /\ dial' \in [Dials -> States]
      /\ dial'[d] = [phase |-> phase, on |-> {}]
      /\ \A e \in Dials \ {d} : dial'[e] = dial[e]
  BY <1>1 DEF Slotted, Shape, Become
<1>3. slot' = [armed |-> TRUE, fanout |-> {}]
  BY DEF Rearmed
<1>4. \A j \in Rings : pump[j] \in {"none", "closed"}
  BY DEF NeedsOpen, Over, Slotted, LiveIsKept
<1>5. Shape' /\ SlotArmed'
  BY <1>2, <1>3 DEF Slotted, Shape, SlotArmed
<1>6. OpenIsRearmed' /\ LiveIsKept' /\ ViewersSeeStarted'
  BY <1>2, <1>3, <1>4 DEF Slotted, OpenIsRearmed, LiveIsKept, ViewersSeeStarted
<1> QED BY <1>5, <1>6 DEF Slotted

\* A pump goes on from a place where it is started and not closed.
LEMMA PumpMoves ==
  ASSUME Slotted, NEW k \in Rings, pump[k] \notin {"none", "closed"},
         NEW place \in {"dropped", "closed"} \cup Pumping,
         pump' = [pump EXCEPT ![k] = place], UNCHANGED <<fifo, slot, dial>>
  PROVE  Slotted'
<1>1. /\ pump' \in [Rings -> {"none", "dropped", "closed"} \cup Pumping]
      /\ pump'[k] = place /\ place # "none"
      /\ \A j \in Rings \ {k} : pump'[j] = pump[j]
  BY DEF Slotted, Shape, Pumping
<1>2. Shape' /\ SlotArmed'
  BY <1>1 DEF Slotted, Shape, SlotArmed
<1>3. OpenIsRearmed' /\ LiveIsKept' /\ ViewersSeeStarted'
  BY <1>1 DEF Slotted, OpenIsRearmed, LiveIsKept, ViewersSeeStarted, Shape, States
<1> QED BY <1>2, <1>3 DEF Slotted

\* Only the holder of the mutex is mid-open.
LEMMA OneOpens ==
  ASSUME Line, NEW d \in Dials, Holds(d)
  PROVE  \A e \in Dials \ {d} : dial[e].phase # "opening"
  BY DEF Line, Holds

LEMMA DialHolds ==
  ASSUME IInv, NEW d \in Dials, Ask(d) \/ Answer(d) \/ WriterComes(d) \/ Drop(d)
  PROVE  IInv'
<1>1. Line /\ Shape /\ Slotted
  BY DEF IInv, Slotted
<1>2. SUFFICES Line' /\ Slotted'
  BY DEF IInv, Slotted
<1>3. CASE Ask(d)
  BY <1>1, <1>3, AskLines, DialMoves DEF Ask
<1>4. CASE Attach(d)
  <2>1. PICK k \in slot.fanout : ~Over(k) /\ Become(d, Viewing(k))
    BY <1>4 DEF Attach
  <2>2. Viewing(k) \in States /\ Viewing(k).phase = "viewing"
    BY <1>1 DEF States, Viewing, Shape
  <2>3. Line'
    BY <1>1, <1>4, <2>1, <2>2, ReleaseLines DEF Attach, Asks
  <2> QED BY <1>1, <1>4, <2>1, <2>3, DialAttaches DEF Attach
<1>5. CASE TakeReady(d) \/ WriterComes(d)
  <2>1. /\ StartSession(d) /\ Release
        /\ dial[d].phase \in {"asking", "opening"} /\ Holds(d) /\ slot.armed
    BY <1>1, <1>5 DEF TakeReady, WriterComes, Asks, Line, IInv, OpenIsRearmed
  <2>2. PICK k \in Rings : Become(d, Viewing(k))
    BY <2>1 DEF StartSession
  <2>3. Viewing(k) \in States /\ Viewing(k).phase = "viewing"
    BY DEF States, Viewing
  <2>4. Line'
    BY <1>1, <2>1, <2>2, <2>3, ReleaseLines
  <2> QED BY <1>1, <2>1, <2>4, OneOpens, SessionStarts
<1>6. CASE RefuseEnded(d) \/ WriterLate(d)
  <2>1. /\ Become(d, Idle) /\ Release /\ UNCHANGED <<fifo, slot, pump>>
        /\ dial[d].phase \in {"asking", "opening"} /\ Holds(d)
    BY <1>1, <1>6 DEF RefuseEnded, WriterLate, Asks, Line
  <2>2. Idle = [phase |-> "idle", on |-> {}] /\ Idle \in States
    BY DEF Idle, States
  <2> QED BY <1>1, <2>1, <2>2, ReleaseLines, DialMoves
<1>7. CASE OpenRefused(d)
  <2>1. Idle = [phase |-> "idle", on |-> {}] /\ Idle \in States
    BY DEF Idle, States
  <2>2. Line'
    BY <1>1, <1>7, <2>1, ReleaseLines DEF OpenRefused, Asks
  <2> QED BY <1>1, <1>7, <2>1, <2>2, SlotRearms DEF OpenRefused
<1>8. CASE OpenPath(d)
  <2>1. Waiting' = Waiting
    BY <1>1, <1>8 DEF OpenPath, Asks, Become, Waiting, Shape
  <2>2. \A e \in Dials : dial'[e].phase = "opening" => Holds(e)'
    BY <1>1, <1>8 DEF OpenPath, Asks, Become, Line, Holds, Shape
  <2>3. Line'
    BY <1>1, <1>8, <2>1, <2>2 DEF OpenPath, Line
  <2> QED BY <1>1, <1>8, <2>3, SlotRearms DEF OpenPath
<1>9. CASE Drop(d)
  <2>1. Idle = [phase |-> "idle", on |-> {}] /\ Idle \in States
    BY DEF Idle, States
  <2>2. Slotted'
    BY <1>1, <1>9, <2>1, DialMoves DEF Drop
  <2>3. CASE dial[d].phase \in {"asking", "opening"}
    BY <1>1, <1>9, <2>1, <2>2, <2>3, PlaceTaken DEF Drop, Unqueue
  <2>4. CASE dial[d].phase \notin {"asking", "opening"}
    <3>1. UNCHANGED queue /\ Waiting' = Waiting
      BY <1>1, <1>9, <2>1, <2>4 DEF Drop, Unqueue, Become, Waiting, Shape
    <3>2. \A e \in Dials : dial'[e].phase = "opening" => Holds(e)'
      BY <1>1, <1>9, <2>1, <3>1 DEF Drop, Become, Line, Holds, Shape
    <3> QED BY <1>1, <2>2, <3>1, <3>2 DEF Line
  <2> QED BY <2>3, <2>4
<1> QED BY <1>3, <1>4, <1>5, <1>6, <1>7, <1>8, <1>9 DEF Answer

LEMMA PumpHolds ==
  ASSUME IInv, NEW k \in Rings, Turn(k) \/ SourceGives(k) \/ DropSource(k) \/ Close(k)
  PROVE  IInv'
<1>1. Line /\ Slotted /\ pump[k] \notin {"none", "closed"}
  BY DEF IInv, Slotted, Turn, SourceGives, DropSource, Close
<1>2. UNCHANGED <<fifo, slot, queue, dial>>
  BY DEF Turn, SourceGives, DropSource, Close
<1>3. PICK place \in {"dropped", "closed"} \cup Pumping : pump' = [pump EXCEPT ![k] = place]
  BY DEF Turn, SourceGives, DropSource, Close, Pumping
<1>4. Line'
  BY <1>1, <1>2 DEF Line, Waiting, Holds
<1> QED BY <1>1, <1>2, <1>3, <1>4, PumpMoves DEF IInv, Slotted

LEMMA NextHolds == IInv /\ [Next]_vars => IInv'
<1> SUFFICES ASSUME IInv, [Next]_vars
             PROVE  IInv'
  OBVIOUS
<1>1. CASE UNCHANGED vars
  BY <1>1 DEF vars, IInv, Line, Waiting, Holds, Shape, SlotArmed, OpenIsRearmed,
              LiveIsKept, ViewersSeeStarted
<1> QED BY <1>1, DialHolds, PumpHolds DEF Next

LEMMA LossyInvariant == Spec => []IInv
<1> QED BY InitHolds, NextHolds, PTL DEF Spec
-----------------------------------------------------------------------------
(***************************************************************************)
(* No attempt, refused, timed out or dropped anywhere, leaves the source   *)
(* without an opener or a session (StaysArmed).                            *)
(***************************************************************************)
THEOREM SourceStaysArmed == Spec => []StaysArmed
<1>1. IInv => StaysArmed
  BY DEF IInv, Line, Shape, SlotArmed, States, StaysArmed, TypeOK
<1> QED BY <1>1, LossyInvariant, PTL

\* One set within a singleton and one with at most one member, not both
\* inhabited, have one member between them.
LEMMA OneBetween ==
  ASSUME NEW A, NEW B, NEW x, A \subseteq {x}, A # {} => B = {}, NEW y, B \subseteq {y}
  PROVE  Cardinality(A) + Cardinality(B) <= 1
<1>1. A \in {{}, {x}} /\ B \in {{}, {y}}
  OBVIOUS
<1>2. Cardinality({}) = 0 /\ Cardinality({x}) = 1 /\ Cardinality({y}) = 1
  BY FS_EmptySet, FS_Singleton
<1> QED BY <1>1, <1>2

(***************************************************************************)
(* A session that ended is re-armed without ever two readers of one        *)
(* source, and the viewers of a feed that is not over share one ring       *)
(* (OneLiveSession).                                                       *)
(***************************************************************************)
THEOREM LossySessionIsOne == Spec => []OneLiveSession
<1>1. IInv => OneLiveSession
  <2> SUFFICES ASSUME IInv PROVE OneLiveSession
    OBVIOUS
  <2> DEFINE A == {k \in Rings : pump[k] \in Pumping}
             B == {d \in Dials : dial[d].phase = "opening"}
             C == {k \in Rings : pump[k] # "none"}
  <2>1. PICK x : slot.fanout \subseteq {x}
    BY DEF IInv, Shape
  <2>2. A \subseteq slot.fanout
    BY DEF IInv, LiveIsKept, Pumping
  <2>3. A # {} => B = {}
    BY <2>2 DEF IInv, OpenIsRearmed, SlotArmed
  <2>4. \E y : B \subseteq {y}
    BY OneOpens DEF IInv, Line
  <2>5. Cardinality(A) + Cardinality(B) <= 1
    BY <2>1, <2>2, <2>3, <2>4, OneBetween
  <2>6. ASSUME ~fifo
        PROVE  Cardinality(C) <= 1
    <3>1. C \subseteq {x}
      BY <2>1, <2>6 DEF IInv, LiveIsKept
    <3>2. C = {} \/ C = {x}
      BY <3>1
    <3>3. Cardinality({}) = 0 /\ Cardinality({x}) = 1
      BY FS_EmptySet, FS_Singleton
    <3> HIDE DEF C
    <3> QED BY <3>2, <3>3
  <2>7. OneRing
    BY DEF IInv, LiveIsKept, ViewersSeeStarted, Shape, States, OneRing
  <2> QED BY <2>5, <2>6, <2>7 DEF OneLiveSession, OneReader
<1> QED BY <1>1, LossyInvariant, PTL
=============================================================================
