-------------------------- MODULE ConnectorProofs --------------------------
(***************************************************************************)
(* Proofs about the dialing side.  That a connector's credentials reach no *)
(* peer but its own, and that a forward never holds more than its cap, for *)
(* every number of connections, calls and peers; and that a stdio bridge's *)
(* bytes keep to it, for any bridges, chunks and output.                   *)
(***************************************************************************)
EXTENDS Forward, Stdio, FiniteSetTheorems, TLAPS

\* The parts of TypeOK that an action disturbs one at a time.
Shape ==
  /\ dialer \in [credential : BOOLEAN, proven : BOOLEAN]
  /\ stage \in {"dialing", "probing", "probed", "refused", "running", "over"}
  /\ session \in [state : {"none", "up", "closed"}, is : Peers]
  /\ pipe \in [Conns -> {"away", "queued", "opening", "asking", "carrying", "ended"}]
  /\ call \in [Calls -> [phase : {"idle", "handed", "wrong", "asking", "admitted", "failed"},
                         claims : Peers, is : Peers]]
  /\ paused \in BOOLEAN
  /\ sent \subseteq Peers

Queue ==
  /\ backlog \in Seq(Conns)
  /\ IsInjective(backlog)
  /\ Range(backlog) = {c \in Conns : pipe[c] = "queued"}

Bound == Cardinality(Held) <= MaxPipes

Stopped == stage # "running" => Held = {} /\ backlog = <<>>

\* What makes a proven transport's peers the ones they claim to be.
Proven ==
  dialer.proven => /\ session.is = Dial
                   /\ \A k \in Calls : call[k].is = call[k].claims

Home == dialer.credential => sent \subseteq {Dial}

IInv == Shape /\ Queue /\ Bound /\ Stopped /\ Proven /\ Home

LEMMA TypeParts == TypeOK <=> Shape /\ Queue /\ Bound /\ Stopped
  BY DEF TypeOK, Shape, Queue, Bound, Stopped
-----------------------------------------------------------------------------
\* Pipes that only leave keep the cap.
LEMMA FewerHeld ==
  ASSUME Bound, Held' \subseteq Held
  PROVE  Bound'
<1>1. IsFiniteSet(Held) /\ Held \in SUBSET Conns
  BY ForwardAssumption, FS_Subset DEF Held
<1>2. IsFiniteSet(Held') /\ Cardinality(Held') <= Cardinality(Held)
  BY <1>1, FS_Subset
<1>3. Cardinality(Held) \in Nat /\ Cardinality(Held') \in Nat
  BY <1>1, <1>2, FS_CardinalityType
<1> QED BY <1>2, <1>3, ForwardAssumption DEF Bound

\* A connection accepted below the cap keeps it.
LEMMA OneMoreHeld ==
  ASSUME Cardinality(Held) < MaxPipes, NEW c, Held' = Held \cup {c}
  PROVE  Bound'
<1>1. IsFiniteSet(Held) /\ Held \in SUBSET Conns
  BY ForwardAssumption, FS_Subset DEF Held
<1>2. Cardinality(Held) \in Nat
  BY <1>1, FS_CardinalityType
<1>3. Cardinality(Held') = IF c \in Held THEN Cardinality(Held) ELSE Cardinality(Held) + 1
  BY <1>1, FS_AddElement
<1> QED BY <1>2, <1>3, ForwardAssumption DEF Bound

\* A connection joins the end of the backlog once.
LEMMA Joins ==
  ASSUME Shape, Queue, NEW c \in Conns, pipe[c] = "away",
         pipe' = [pipe EXCEPT ![c] = "queued"], backlog' = Append(backlog, c)
  PROVE  Queue'
<1>1. c \notin Range(backlog)
  BY DEF Queue
<1>2. /\ backlog' \in Seq(Conns)
      /\ DOMAIN backlog' = 1..(Len(backlog) + 1)
      /\ \A i \in 1..Len(backlog) : backlog'[i] = backlog[i]
      /\ backlog'[Len(backlog) + 1] = c
  BY DEF Queue
<1>3. DOMAIN backlog = 1..Len(backlog) /\ Len(backlog) \in Nat
  BY DEF Queue
<1>4. IsInjective(backlog')
  BY <1>1, <1>2, <1>3 DEF Queue, IsInjective, Range
<1>5. Range(backlog') = Range(backlog) \cup {c}
  BY <1>2, <1>3 DEF Range
<1>6. {d \in Conns : pipe'[d] = "queued"} = {d \in Conns : pipe[d] = "queued"} \cup {c}
  BY DEF Shape
<1> QED BY <1>2, <1>4, <1>5, <1>6 DEF Queue

\* The first of the backlog leaves it.
LEMMA Leaves ==
  ASSUME Shape, Queue, backlog # <<>>, NEW phase, phase # "queued",
         pipe' = [pipe EXCEPT ![Head(backlog)] = phase], backlog' = Tail(backlog)
  PROVE  Queue'
<1> DEFINE c == Head(backlog)
<1>1. /\ DOMAIN backlog = 1..Len(backlog) /\ Len(backlog) \in Nat \ {0}
      /\ c = backlog[1] /\ c \in Conns
  BY DEF Queue
<1>2. /\ backlog' \in Seq(Conns)
      /\ DOMAIN backlog' = 1..(Len(backlog) - 1)
      /\ \A i \in 1..(Len(backlog) - 1) : backlog'[i] = backlog[i + 1]
  BY <1>1 DEF Queue
<1>3. IsInjective(backlog')
  BY <1>1, <1>2 DEF Queue, IsInjective
<1>4. Range(backlog') = Range(backlog) \ {c}
  <2>1. \A i \in 1..(Len(backlog) - 1) : backlog'[i] \in Range(backlog) \ {c}
    BY <1>1, <1>2 DEF Queue, IsInjective, Range
  <2>2. ASSUME NEW d \in Range(backlog), d # c
        PROVE  d \in Range(backlog')
    <3>1. PICK i \in 1..Len(backlog) : backlog[i] = d
      BY <1>1, <2>2 DEF Range
    <3>2. i - 1 \in 1..(Len(backlog) - 1) /\ backlog'[i - 1] = d
      BY <1>1, <1>2, <2>2, <3>1
    <3> QED BY <1>2, <3>2 DEF Range
  <2> QED BY <1>2, <2>1, <2>2 DEF Range
<1>5. {d \in Conns : pipe'[d] = "queued"} = {d \in Conns : pipe[d] = "queued"} \ {c}
  BY <1>1 DEF Shape
<1> QED BY <1>2, <1>3, <1>4, <1>5 DEF Queue
-----------------------------------------------------------------------------
LEMMA InitIInv == Init => IInv
<1> SUFFICES ASSUME Init PROVE IInv
  OBVIOUS
<1>1. Held = {}
  BY DEF Init, Held
<1>2. Bound
  BY <1>1, FS_EmptySet, ForwardAssumption DEF Bound
<1>3. Queue
  BY DEF Init, Queue, IsInjective, Range
<1> QED BY <1>1, <1>2, <1>3, ForwardAssumption
    DEF Init, IInv, Shape, Stopped, Proven, Home, Unused

\* What is not the forward's loop leaves its connections alone.
LEMMA Outside ==
  ASSUME IInv, UNCHANGED <<backlog, pipe>>,
         Shape', Proven', Home',
         stage # "running" \/ stage' \in {stage, "running"}
  PROVE  IInv'
<1>1. Held' = Held
  BY DEF Held
<1>2. Bound' /\ Queue'
  BY <1>1, FewerHeld DEF IInv, Queue
<1>3. Stopped'
  BY <1>1 DEF IInv, Stopped
<1> QED BY <1>2, <1>3 DEF IInv

LEMMA PreflightIInv == IInv /\ (Preflight \/ SessionCloses) => IInv'
<1> SUFFICES ASSUME IInv, Preflight \/ SessionCloses
             PROVE  IInv'
  OBVIOUS
<1> USE ForwardAssumption
<1>1. CASE Connect
  BY <1>1, Outside DEF Connect, AtTheEndOf, IInv, Shape, Proven, Home
<1>2. CASE ProbeAsks
  BY <1>2, Outside DEF ProbeAsks, MaySend, IInv, Shape, Proven, Home
<1>3. CASE Bind
  BY <1>3, Outside DEF Bind, IInv, Shape, Proven, Home
<1>4. CASE PreflightFails
  BY <1>4, Outside DEF PreflightFails, IInv, Shape, Proven, Home
<1>5. CASE SessionCloses
  BY <1>5, Outside DEF SessionCloses, Up, IInv, Shape, Proven, Home
<1> QED BY <1>1, <1>2, <1>3, <1>4, <1>5 DEF Preflight

LEMMA OpenOnIInv == IInv /\ OpenOn => IInv'
<1> SUFFICES ASSUME IInv, NEW k \in Calls,
                    \/ Call(k) \/ CallWrongPeer(k) \/ CallAsks(k)
                    \/ CallAdmitted(k) \/ CallFails(k)
             PROVE  IInv'
  BY DEF OpenOn
<1>1. CASE Call(k)
  BY <1>1, Outside DEF Call, AtTheEndOf, IInv, Shape, Proven, Home
<1>2. CASE CallWrongPeer(k)
  BY <1>2, Outside DEF CallWrongPeer, Step, IInv, Shape, Proven, Home
<1>3. CASE CallAsks(k)
  BY <1>3, Outside DEF CallAsks, ReachesDial, MaySend, Step, IInv, Shape, Proven, Home
<1>4. CASE CallAdmitted(k)
  BY <1>4, Outside DEF CallAdmitted, Step, IInv, Shape, Proven, Home
<1>5. CASE CallFails(k)
  <2>1. call' = [call EXCEPT ![k].phase = "failed"]
    BY <1>5 DEF CallFails, Step
  <2>2. Shape' /\ Proven' /\ Home'
    BY <1>5, <2>1 DEF CallFails, IInv, Shape, Proven, Home
  <2> QED BY <1>5, <2>2, Outside DEF CallFails
<1> QED BY <1>1, <1>2, <1>3, <1>4, <1>5

\* A pipe that moves on, or out, leaves the backlog as it was.
LEMMA PipeIInv ==
  ASSUME IInv, NEW c \in Conns,
         Asks(c) \/ Admitted(c) \/ SidesEnd(c) \/ Release(c) \/ Fails(c)
  PROVE  IInv'
<1>1. PICK to \in {"away", "asking", "carrying", "ended"} :
        Move(c, {"opening", "asking", "carrying", "ended"}, to)
  BY DEF Asks, Admitted, SidesEnd, Release, Fails, Move
<1>2. Shape' /\ UNCHANGED <<dialer, stage, session, backlog, paused, call>>
  BY <1>1 DEF Asks, Admitted, SidesEnd, Release, Fails, Move, IInv, Shape
<1>3. Held' \subseteq Held
  BY <1>1 DEF Held, Move, IInv, Shape
<1>4. {d \in Conns : pipe'[d] = "queued"} = {d \in Conns : pipe[d] = "queued"}
  BY <1>1 DEF Move, IInv, Shape
<1>5. Queue'
  BY <1>2, <1>4 DEF IInv, Queue
<1>6. Bound' /\ Stopped'
  BY <1>2, <1>3, FewerHeld DEF IInv, Stopped
<1>7. Proven' /\ Home'
  BY <1>2 DEF Asks, Admitted, SidesEnd, Release, Fails, MaySend, IInv, Proven, Home
<1> QED BY <1>2, <1>5, <1>6, <1>7 DEF IInv

LEMMA RunIInv == IInv /\ Run => IInv'
<1> SUFFICES ASSUME IInv, Run
             PROVE  IInv'
  OBVIOUS
<1>1. CASE Accept
  <2> DEFINE c == Head(backlog)
  <2>1. c \in Conns /\ backlog # <<>> /\ Cardinality(Held) < MaxPipes
    BY <1>1 DEF Accept, Accepting, IInv, Queue
  <2>2. Queue'
    BY <1>1, <2>1, Leaves DEF Accept, IInv
  <2>3. Held' = Held \cup {c}
    BY <1>1, <2>1 DEF Accept, Held, IInv, Shape
  <2>4. Bound'
    BY <2>1, <2>3, OneMoreHeld
  <2> QED BY <1>1, <2>1, <2>2, <2>4
      DEF Accept, Accepting, IInv, Shape, Stopped, Proven, Home
<1>2. CASE AcceptFails
  <2>1. CASE UNCHANGED <<backlog, pipe>>
    BY <1>2, <2>1, Outside DEF AcceptFails, IInv, Shape, Proven, Home
  <2>2. CASE pipe' = [pipe EXCEPT ![Head(backlog)] = "away"] /\ backlog' = Tail(backlog)
    <3>1. backlog # <<>> /\ Head(backlog) \in Conns
      BY <1>2 DEF AcceptFails, Accepting, IInv, Queue
    <3>2. Queue'
      BY <2>2, <3>1, Leaves DEF IInv
    <3>3. Held' \subseteq Held
      BY <2>2, <3>1 DEF Held, IInv, Shape
    <3> QED BY <1>2, <2>2, <3>1, <3>2, <3>3, FewerHeld
        DEF AcceptFails, Accepting, IInv, Shape, Stopped, Proven, Home
  <2> QED BY <1>2, <2>1, <2>2 DEF AcceptFails
<1>3. CASE Retry
  BY <1>3, Outside DEF Retry, IInv, Shape, Proven, Home
<1>4. CASE RunEnds
  <2>1. Held' = {} /\ Range(backlog') = {} /\ backlog' = <<>>
    BY <1>4 DEF RunEnds, Held, Range
  <2>2. Queue'
    BY <1>4, <2>1 DEF RunEnds, Queue, IsInjective
  <2> QED BY <1>4, <2>1, <2>2, FewerHeld
      DEF RunEnds, IInv, Shape, Stopped, Proven, Home
<1>5. ASSUME NEW c \in Conns, Arrive(c)
      PROVE  IInv'
  <2>1. Queue'
    BY <1>5, Joins DEF Arrive, Move, IInv
  <2>2. Held' = Held
    BY <1>5 DEF Arrive, Move, Held, IInv, Shape
  <2> QED BY <1>5, <2>1, <2>2, FewerHeld
      DEF Arrive, Move, IInv, Shape, Stopped, Proven, Home
<1> QED BY <1>1, <1>2, <1>3, <1>4, <1>5, PipeIInv DEF Run

(***************************************************************************)
(* The invariant the rest follows from: on a proven transport every peer   *)
(* is who it claims to be, and only such a one was sent the request.       *)
(***************************************************************************)
THEOREM ForwardInvariant == Spec => []IInv
<1>1. Init => IInv
  BY InitIInv
<1>2. IInv /\ [Next]_vars => IInv'
  <2> SUFFICES ASSUME IInv, [Next]_vars
               PROVE  IInv'
    OBVIOUS
  <2>1. CASE UNCHANGED vars
    BY <2>1, Outside DEF vars, IInv, Shape, Proven, Home
  <2> QED BY <2>1, PreflightIInv, RunIInv, OpenOnIInv DEF Next
<1> QED BY <1>1, <1>2, PTL DEF Spec

(***************************************************************************)
(* A connector's credentials reach the peer it dials and nobody else,      *)
(* whichever way its request is sent, and the forward's connections stay   *)
(* in its shape and within its cap.                                        *)
(***************************************************************************)
THEOREM CredentialsAreHome == Spec => []CredentialsStayHome
<1>1. IInv => CredentialsStayHome
  BY TypeParts DEF IInv, CredentialsStayHome, Home
<1> QED BY <1>1, ForwardInvariant, PTL
-----------------------------------------------------------------------------
(***************************************************************************)
(* Stdio bridges.  Beside what is to be shown: chunks on their way are in  *)
(* order from the hand to the thread (InOrder), the bridge that runs was   *)
(* given the newest (Newest), one that has not run was given nothing       *)
(* (Unstarted), and while stdin is open the channel is too (StillOpen) and *)
(* every copy has shown or holds all it read (Showing).                    *)
(***************************************************************************)
InOrder == Ahead(InHand, InChannel \cup InThread) /\ Ahead(InChannel, InThread)

Newest ==
  \A b \in Bridges : Pumps(b) => \A a \in Bridges \ {b} : Ahead(Given(a), Given(b))

Unstarted ==
  \A b \in Bridges : bridge[b].phase \in {"idle", "waiting"} =>
    bridge[b] = [Fresh EXCEPT !.phase = bridge[b].phase]

StillOpen ==
  stdin.end = "open" => /\ thread.at \notin {"failing", "gone"}
                        /\ \A b \in Bridges : bridge[b].phase # "draining"

\* A sequence of pieces that go on from place `from`.
Counts(s, from) == \A k \in 1..Len(s) : s[k] = from + k

Showing(b) ==
  /\ Counts(bridge[b].shown, 0)
  /\ Len(bridge[b].shown) + Len(bridge[b].held) <= bridge[b].read
  /\ Copies(b) => /\ Counts(bridge[b].held, Len(bridge[b].shown))
                  /\ Len(bridge[b].shown) + Len(bridge[b].held) = bridge[b].read
  /\ bridge[b].phase = "done" => Len(bridge[b].shown) = peer[b].said

ShownWhole == stdin.end = "open" => \A b \in Bridges : Showing(b)

InputInv == InputIsKept /\ InOrder /\ NeverSplit /\ Newest

\* The inductive invariant of the bridges.
SInv == StdioTypeOK /\ Unstarted /\ InputInv /\ StillOpen /\ ShownWhole
-----------------------------------------------------------------------------
(* The mutex *)

\* One entry taken out of a sequence without repetitions.
LEMMA RemovedOne ==
  ASSUME NEW S, NEW s \in Seq(S), IsInjective(s), NEW i \in DOMAIN s,
         NEW t, t = RemoveAt(s, i)
  PROVE  /\ t \in Seq(S)
         /\ IsInjective(t)
         /\ Range(t) = Range(s) \ {s[i]}
         /\ i # 1 => t # <<>> /\ t[1] = s[1]
<1> DEFINE a == SubSeq(s, 1, i - 1)
           b == SubSeq(s, i + 1, Len(s))
<1>1. Len(s) \in Nat /\ DOMAIN s = 1..Len(s) /\ i \in 1..Len(s)
  OBVIOUS
<1>2. /\ a \in Seq(S) /\ Len(a) = i - 1
      /\ \A j \in 1..(i - 1) : a[j] = s[j]
  BY <1>1
<1>3. /\ b \in Seq(S) /\ Len(b) = Len(s) - i
      /\ \A j \in 1..(Len(s) - i) : b[j] = s[i + j]
  BY <1>1
<1>4. t = a \o b
  BY DEF RemoveAt
<1> HIDE DEF a, b
<1>5. /\ t \in Seq(S) /\ Len(t) = Len(s) - 1 /\ DOMAIN t = 1..(Len(s) - 1)
      /\ \A j \in 1..(Len(s) - 1) : j < i => t[j] = s[j]
      /\ \A j \in 1..(Len(s) - 1) : j >= i => t[j] = s[j + 1]
  <2>1. t \in Seq(S) /\ Len(t) = Len(s) - 1 /\ DOMAIN t = 1..(Len(s) - 1)
    <3>1. t \in Seq(S) /\ Len(t) = Len(a) + Len(b)
      BY <1>2, <1>3, <1>4
    <3>2. Len(t) = Len(s) - 1
      BY <1>1, <1>2, <1>3, <3>1
    <3> QED BY <3>1, <3>2
  <2>2. \A j \in 1..(Len(s) - 1) : j < i => t[j] = s[j]
    BY <1>1, <1>2, <1>3, <1>4
  <2>3. ASSUME NEW j \in 1..(Len(s) - 1), j >= i
        PROVE  t[j] = s[j + 1]
    <3>1. t[j] = b[j - (i - 1)]
      BY <1>1, <1>2, <1>3, <1>4, <2>3
    <3>2. j - (i - 1) \in 1..(Len(s) - i) /\ i + (j - (i - 1)) = j + 1
      BY <1>1, <2>3
    <3> QED BY <1>3, <3>1, <3>2
  <2> QED BY <2>1, <2>2, <2>3
<1>6. IsInjective(t)
  <2> SUFFICES ASSUME NEW j \in 1..(Len(s) - 1), NEW k \in 1..(Len(s) - 1), t[j] = t[k]
               PROVE  j = k
    BY <1>5 DEF IsInjective
  <2>1. PICK m \in DOMAIN s : t[j] = s[m] /\ m = IF j < i THEN j ELSE j + 1
    BY <1>1, <1>5
  <2>2. PICK n \in DOMAIN s : t[k] = s[n] /\ n = IF k < i THEN k ELSE k + 1
    BY <1>1, <1>5
  <2>3. m = n
    BY <2>1, <2>2 DEF IsInjective
  <2> QED BY <1>1, <2>1, <2>2, <2>3
<1>7. Range(t) = Range(s) \ {s[i]}
  <2>1. ASSUME NEW j \in 1..(Len(s) - 1)
        PROVE  t[j] \in Range(s) \ {s[i]}
    <3>1. CASE j < i
      <4>1. t[j] = s[j] /\ j \in DOMAIN s /\ j # i
        BY <1>1, <1>5, <3>1
      <4> QED BY <4>1 DEF IsInjective, Range
    <3>2. CASE j >= i
      <4>1. t[j] = s[j + 1] /\ j + 1 \in DOMAIN s /\ j + 1 # i
        BY <1>1, <1>5, <3>2
      <4> QED BY <4>1 DEF IsInjective, Range
    <3> QED BY <1>1, <3>1, <3>2
  <2>2. ASSUME NEW x \in Range(s), x # s[i]
        PROVE  x \in Range(t)
    <3>1. PICK j \in 1..Len(s) : s[j] = x
      BY <1>1, <2>2 DEF Range
    <3>2. CASE j < i
      <4>1. j \in 1..(Len(s) - 1) /\ t[j] = x
        BY <1>1, <1>5, <3>1, <3>2
      <4> QED BY <1>5, <4>1 DEF Range
    <3>3. CASE j > i
      <4>1. j - 1 \in 1..(Len(s) - 1) /\ t[j - 1] = x
        BY <1>1, <1>5, <3>1, <3>3
      <4> QED BY <1>5, <4>1 DEF Range
    <3> QED BY <1>1, <2>2, <3>1, <3>2, <3>3
  <2>3. ASSUME NEW x \in Range(t)
        PROVE  x \in Range(s) \ {s[i]}
    BY <1>5, <2>1 DEF Range
  <2> QED BY <2>2, <2>3
<1>8. i # 1 => t # <<>> /\ t[1] = s[1]
  BY <1>1, <1>5
<1> QED BY <1>5, <1>6, <1>7, <1>8

\* What a bridge may be.
States ==
  [phase : Phases, hand : Hands, held : Seq(Nat), read : Nat,
   got : Seq(Chunks), shown : Seq(Nat)]

\* A hand is a sequence; an empty one is one.
LEMMA HandIs ==
  /\ <<>> \in Hands /\ <<>> \in Seq(Nat)
  /\ \A h \in Hands : h \in Seq(Chunks) /\ (h # <<>> => h = <<h[1]>> /\ h[1] \in Chunks)
<1>1. ASSUME NEW h \in Hands
      PROVE  h \in Seq(Chunks) /\ (h # <<>> => h = <<h[1]>> /\ h[1] \in Chunks)
  <2>1. CASE h = <<>>
    BY <2>1
  <2>2. ASSUME NEW c \in Chunks, h = <<c>>
        PROVE  h \in Seq(Chunks) /\ h = <<h[1]>> /\ h[1] \in Chunks
    BY <2>2
  <2> QED BY <2>1, <2>2 DEF Hands
<1> QED BY <1>1 DEF Hands

\* A bridge that becomes `state`.
LEMMA Becomes ==
  ASSUME bridge \in [Bridges -> States], NEW b \in Bridges, NEW state \in States,
         bridge' = [bridge EXCEPT ![b] = state]
  PROVE  /\ bridge' \in [Bridges -> States]
         /\ bridge'[b] = state
         /\ \A a \in Bridges \ {b} : bridge'[a] = bridge[a]
<1> HIDE DEF States
<1> QED OBVIOUS

\* The line at the mutex, as the type invariant has it.
Line ==
  /\ lock \in Seq(Bridges) /\ IsInjective(lock)
  /\ Range(lock) = {b \in Bridges : Reached(b)}

\* One bridge at a time copies.
LEMMA OneCopies ==
  ASSUME StdioTypeOK, NEW a \in Bridges, NEW b \in Bridges, Copies(a), Copies(b)
  PROVE  a = b
  BY DEF StdioTypeOK, Holds

\* A bridge that goes takes its place out of the line and nobody else's.
LEMMA UnlockKeeps ==
  ASSUME Line, NEW b \in Bridges, Unlock(b),
         \A a \in Bridges : Reached(a)' <=> Reached(a) /\ a # b
  PROVE  Line' /\ \A a \in Bridges : a # b /\ Holds(a) => Holds(a)'
<1>1. CASE Reached(b)
  <2>1. PICK i \in DOMAIN lock : lock[i] = b /\ lock' = RemoveAt(lock, i)
    BY <1>1 DEF Unlock
  <2>2. /\ lock' \in Seq(Bridges) /\ IsInjective(lock')
        /\ Range(lock') = Range(lock) \ {b}
        /\ i # 1 => lock' # <<>> /\ lock'[1] = lock[1]
    BY <2>1, RemovedOne DEF Line
  <2>3. Range(lock') = {a \in Bridges : Reached(a)'}
    BY <2>2 DEF Line
  <2> QED BY <2>1, <2>2, <2>3 DEF Holds, Line
<1>2. CASE ~Reached(b)
  <2>1. lock' = lock /\ \A a \in Bridges : Reached(a)' <=> Reached(a)
    BY <1>2 DEF Unlock
  <2> HIDE DEF Reached
  <2> QED BY <2>1 DEF Line, Holds
<1> QED BY <1>1, <1>2

\* A bridge that starts waits behind everyone who did.
LEMMA StartLines ==
  ASSUME Line, bridge \in [Bridges -> States], NEW b \in Bridges, Start(b)
  PROVE  Line' /\ \A a \in Bridges : Holds(a) => Holds(a)'
<1>1. /\ DOMAIN lock = 1..Len(lock) /\ Len(lock) \in Nat
      /\ lock' \in Seq(Bridges) /\ DOMAIN lock' = 1..(Len(lock) + 1)
      /\ \A i \in 1..Len(lock) : lock'[i] = lock[i]
      /\ lock'[Len(lock) + 1] = b
  BY DEF Line, Start
<1>2. b \notin Range(lock)
  BY DEF Line, Start, Reached
<1>3. IsInjective(lock')
  BY <1>1, <1>2 DEF Line, IsInjective, Range
<1>4. Range(lock') = Range(lock) \cup {b}
  BY <1>1 DEF Range
<1>5. {a \in Bridges : Reached(a)'} = {a \in Bridges : Reached(a)} \cup {b}
  BY DEF Start, Reached, States
<1>6. \A a \in Bridges : Holds(a) => Holds(a)'
  BY <1>1 DEF Holds
<1> QED BY <1>1, <1>3, <1>4, <1>5, <1>6 DEF Line

\* Nobody comes and nobody goes.
LEMMA LineStays ==
  ASSUME Line, UNCHANGED lock, \A a \in Bridges : Reached(a)' <=> Reached(a)
  PROVE  Line' /\ \A a \in Bridges : Holds(a) => Holds(a)'
<1> HIDE DEF Reached
<1> QED BY DEF Line, Holds
-----------------------------------------------------------------------------
(* Types *)

\* What the type invariant says beside the mutex.
StdioShape ==
  /\ stdin \in [typed : 0..MaxChunks, end : {"open", "eof", "broken"}]
  /\ spent \subseteq 1..thread.taken
  /\ thread \in [at : {"absent", "reading", "sending", "failing", "gone"},
                 taken : 0..stdin.typed]
  /\ channel \in Hands \cup {<<Error>>}
  /\ bridge \in [Bridges -> States]
  /\ peer \in [Bridges -> [said : 0..MaxSaid, end : {"open", "closed", "lost"}]]

\* What a bridge read was said, and only one that runs holds anything.
Bounds ==
  \A b \in Bridges :
    /\ bridge[b].read <= peer[b].said
    /\ ~Pumps(b) => bridge[b].hand = <<>>
    /\ ~Copies(b) => bridge[b].held = <<>>

Runs == \A b \in Bridges : Copies(b) => Holds(b)

LEMMA StdioParts ==
  /\ StdioTypeOK <=> StdioShape /\ Line /\ Bounds /\ Runs
  /\ StdioTypeOK' <=> StdioShape' /\ Line' /\ Bounds' /\ Runs'
  BY DEF StdioTypeOK, StdioShape, Line, Bounds, Runs, States

\* The chunks that are somewhere were read.
LEMMA ReadChunks ==
  ASSUME StdioShape, InputIsKept
  PROVE  /\ thread.taken \in Nat /\ thread.taken <= stdin.typed /\ stdin.typed <= MaxChunks
         /\ InThread \subseteq 1..thread.taken /\ InHand \subseteq 1..thread.taken
         /\ InChannel \subseteq 1..thread.taken /\ spent \subseteq 1..thread.taken
         /\ \A b \in Bridges : /\ Range(bridge[b].hand) \subseteq InHand
                               /\ Given(b) \subseteq 1..thread.taken
<1>1. \A b \in Bridges : Range(bridge[b].hand) \subseteq InHand
  BY DEF InHand
<1>2. \A b \in Bridges : Given(b) \subseteq UNION {Given(a) : a \in Bridges}
  OBVIOUS
<1>3. thread.taken \in Nat /\ thread.taken <= stdin.typed /\ stdin.typed <= MaxChunks
  BY StdioAssumption DEF StdioShape
<1> DEFINE given == UNION {Given(a) : a \in Bridges}
<1>4. 1..thread.taken = given \cup InFlight \cup spent
  BY DEF InputIsKept
<1>5. InFlight \subseteq 1..thread.taken /\ spent \subseteq 1..thread.taken
  <2> HIDE DEF given
  <2> QED BY <1>4
<1>6. /\ InThread \subseteq 1..thread.taken /\ InHand \subseteq 1..thread.taken
      /\ InChannel \subseteq 1..thread.taken
  BY <1>5 DEF InFlight
<1>7. \A b \in Bridges : Given(b) \subseteq 1..thread.taken
  BY <1>2, <1>4, Zenon
<1> QED BY <1>1, <1>3, <1>5, <1>6, <1>7

(***************************************************************************)
(* A bridge that goes, however it goes: what it holds goes with it, the    *)
(* mutex with it, and of the channel at most an error.                     *)
(***************************************************************************)
Goes(b, phase) ==
  /\ bridge' = [bridge EXCEPT ![b] = [@ EXCEPT !.phase = phase, !.hand = <<>>, !.held = <<>>]]
  /\ Unlock(b)
  /\ spent' = spent \cup Range(bridge[b].hand)
  /\ channel' = channel \/ (channel = <<Error>> /\ channel' = <<>>)
  /\ UNCHANGED <<stdin, thread, peer>>

GoesSomehow(b) ==
  StartFails(b) \/ Drop(b) \/ ReceiveError(b) \/ WriteFails(b) \/ Finish(b) \/ ReadFails(b)

LEMMA GoesWith ==
  ASSUME StdioShape, NEW b \in Bridges, GoesSomehow(b)
  PROVE  \E phase \in {"done", "failed", "dropped"} :
           Goes(b, phase) /\ (phase = "done" => Finish(b))
<1>1. CASE StartFails(b)
  BY <1>1 DEF StartFails, Over, Goes, StdioShape
<1>2. CASE Drop(b)
  BY <1>2 DEF Drop, Over, Goes, StdioShape
<1>3. CASE ReceiveError(b)
  <2>1. Goes(b, "failed")
    <3>1. bridge[b] \in States /\ bridge[b].hand = <<>> /\ bridge \in [Bridges -> States]
      BY <1>3 DEF ReceiveError, StdioShape
    <3>2. bridge' = [bridge EXCEPT ![b] = [@ EXCEPT !.phase = "failed", !.held = <<>>]]
      BY <1>3, <3>1 DEF ReceiveError
    <3>3. [bridge[b] EXCEPT !.phase = "failed", !.held = <<>>]
            = [bridge[b] EXCEPT !.phase = "failed", !.hand = <<>>, !.held = <<>>]
      BY <3>1 DEF States
    <3> QED BY <1>3, <3>2, <3>3 DEF ReceiveError, Goes
  <2> QED BY <2>1
<1>4. CASE WriteFails(b)
  BY <1>4 DEF WriteFails, Over, Goes, StdioShape
<1>5. CASE Finish(b)
  <2>1. Goes(b, "done")
    BY <1>5 DEF Finish, Over, Goes, StdioShape
  <2> QED BY <1>5, <2>1
<1>6. CASE ReadFails(b)
  BY <1>6 DEF ReadFails, Over, Goes, StdioShape
<1> QED BY <1>1, <1>2, <1>3, <1>4, <1>5, <1>6 DEF GoesSomehow

\* A bridge moves on its own, and only to and from phases in which it runs.
Works(b) == Enter(b) \/ Receive(b) \/ WriteChunk(b) \/ HalfClose(b) \/ CopyReads(b) \/ CopyWrites(b)

LEMMA TypeHolds ==
  ASSUME StdioTypeOK, Unstarted, InputIsKept, [StdioNext]_stdioVars
  PROVE  StdioTypeOK'
<1> USE StdioParts
<1>0. StdioShape
  OBVIOUS
<1>1. CASE Type \/ CloseStdin
  <2>1. StdioShape' /\ UNCHANGED <<lock, bridge, peer>>
    BY <1>1, StdioAssumption DEF Type, CloseStdin, StdioShape
  <2> QED BY <2>1 DEF Line, Bounds, Runs, Pumps, Copies, Reached, Holds
<1>2. CASE Thread
  <2>1. UNCHANGED <<stdin, spent, lock, bridge, peer>>
    BY <1>2 DEF Thread, ThreadReads, ThreadEnds, ThreadSends
  <2>2. StdioShape'
    <3>1. CASE ThreadReads
      BY <3>1, StdioAssumption DEF ThreadReads, StdioShape
    <3>2. CASE ThreadEnds
      BY <3>2 DEF ThreadEnds, StdioShape
    <3>3. CASE ThreadSends
      <4>1. thread.at = "sending" => thread.taken \in Chunks
        <5>1. thread.at = "sending" => thread.taken \in InThread
          BY DEF InThread
        <5>2. thread.taken <= stdin.typed /\ stdin.typed <= MaxChunks
              /\ InThread \subseteq 1..thread.taken
          BY <1>0, ReadChunks
        <5> QED BY <5>1, <5>2, StdioAssumption DEF Chunks, StdioShape
      <4>2. channel' \in Hands \cup {<<Error>>}
        BY <3>3, <4>1 DEF ThreadSends, Hands
      <4>3. thread' \in [at : {"absent", "reading", "sending", "failing", "gone"},
                         taken : 0..stdin.typed] /\ thread'.taken = thread.taken
        BY <3>3 DEF ThreadSends, StdioShape
      <4> QED BY <3>3, <4>2, <4>3 DEF ThreadSends, StdioShape
    <3> QED BY <1>2, <3>1, <3>2, <3>3 DEF Thread
  <2> QED BY <2>1, <2>2 DEF Line, Bounds, Runs, Pumps, Copies, Reached, Holds
<1>3. ASSUME NEW b \in Bridges, Peer(b)
      PROVE  StdioTypeOK'
  <2>1. UNCHANGED <<stdin, spent, thread, channel, lock, bridge>>
    BY <1>3 DEF Peer, PeerSays, PeerCloses
  <2>2. /\ peer' \in [Bridges -> [said : 0..MaxSaid, end : {"open", "closed", "lost"}]]
        /\ \A a \in Bridges : peer[a].said <= peer'[a].said
    <3>1. peer[b] \in [said : 0..MaxSaid, end : {"open", "closed", "lost"}]
      BY DEF StdioShape
    <3>2. PICK r \in [said : 0..MaxSaid, end : {"open", "closed", "lost"}] :
            peer' = [peer EXCEPT ![b] = r] /\ peer[b].said <= r.said
      <4>1. CASE PeerSays(b)
        <5>1. peer[b].said + 1 \in 0..MaxSaid
          BY <3>1, <4>1, StdioAssumption DEF PeerSays
        <5>2. peer' = [peer EXCEPT ![b] = [@ EXCEPT !.said = peer[b].said + 1]]
          BY <4>1 DEF PeerSays, StdioShape
        <5> DEFINE r == [peer[b] EXCEPT !.said = peer[b].said + 1]
        <5>3. r \in [said : 0..MaxSaid, end : {"open", "closed", "lost"}]
          BY <3>1, <5>1
        <5>4. peer[b].said <= r.said
          BY <3>1, StdioAssumption
        <5> QED BY <5>2, <5>3, <5>4
      <4>2. CASE PeerCloses(b)
        <5>1. PICK end \in {"closed", "lost"} :
                peer' = [peer EXCEPT ![b] = [@ EXCEPT !.end = end]]
          BY <4>2 DEF PeerCloses, StdioShape
        <5> DEFINE r == [peer[b] EXCEPT !.end = end]
        <5>2. r \in [said : 0..MaxSaid, end : {"open", "closed", "lost"}]
          BY <3>1
        <5>3. peer[b].said <= r.said
          BY <3>1, StdioAssumption
        <5> QED BY <5>1, <5>2, <5>3
      <4> QED BY <1>3, <4>1, <4>2 DEF Peer
    <3> QED BY <3>2, StdioAssumption DEF StdioShape
  <2>3. StdioShape'
    BY <2>1, <2>2 DEF StdioShape
  <2>4. \A a \in Bridges : bridge[a].read \in Nat /\ peer[a].said \in Nat /\ peer'[a].said \in Nat
    BY <2>2 DEF StdioShape, States
  <2>5. Bounds'
    BY <2>1, <2>2, <2>4 DEF Bounds, Pumps, Copies
  <2> QED BY <2>1, <2>3, <2>5 DEF Line, Runs, Copies, Reached, Holds
<1>4. ASSUME NEW b \in Bridges, Start(b)
      PROVE  StdioTypeOK'
  <2>1. UNCHANGED <<stdin, spent, channel, peer>>
    BY <1>4 DEF Start
  <2>2. /\ bridge' \in [Bridges -> States]
        /\ \A a \in Bridges : Copies(a)' => Copies(a)
        /\ \A a \in Bridges \ {b} : bridge'[a] = bridge[a]
        /\ bridge'[b] = [bridge[b] EXCEPT !.phase = "waiting"]
    <3>1. bridge[b] \in States /\ "waiting" \in Phases
      BY DEF StdioShape, Phases
    <3>2. bridge' = [bridge EXCEPT ![b] = [@ EXCEPT !.phase = "waiting"]]
      BY <1>4 DEF Start, StdioShape
    <3>3. [bridge[b] EXCEPT !.phase = "waiting"] \in States
      BY <3>1 DEF States
    <3>4. /\ bridge' \in [Bridges -> States]
          /\ \A a \in Bridges \ {b} : bridge'[a] = bridge[a]
          /\ bridge'[b] = [bridge[b] EXCEPT !.phase = "waiting"]
      BY <3>2, <3>3 DEF StdioShape
    <3>5. \A a \in Bridges : Copies(a)' => Copies(a)
      BY <3>1, <3>4 DEF Copies, States
    <3> QED BY <3>4, <3>5
  <2>3. thread' \in [at : {"absent", "reading", "sending", "failing", "gone"},
                    taken : 0..stdin.typed] /\ thread'.taken = thread.taken
    BY <1>4 DEF Start, StdioShape
  <2>4. StdioShape'
    BY <2>1, <2>2, <2>3 DEF StdioShape
  <2>5. Bounds'
    BY <1>4, <2>1, <2>2 DEF Bounds, Pumps, Copies, Start, StdioShape, States
  <2>6. Line' /\ Runs'
    BY <1>4, <2>2, StartLines DEF Runs, StdioShape
  <2> QED BY <2>4, <2>5, <2>6
<1>5. ASSUME NEW b \in Bridges, GoesSomehow(b)
      PROVE  StdioTypeOK'
  <2>1. PICK phase \in {"done", "failed", "dropped"} : Goes(b, phase)
    BY <1>5, GoesWith
  <2>2. /\ bridge' \in [Bridges -> States]
        /\ \A a \in Bridges : Reached(a)' <=> Reached(a) /\ a # b
        /\ \A a \in Bridges : Copies(a)' <=> Copies(a) /\ a # b
        /\ \A a \in Bridges \ {b} : bridge'[a] = bridge[a]
        /\ bridge'[b] = [bridge[b] EXCEPT !.phase = phase, !.hand = <<>>, !.held = <<>>]
    <3> DEFINE gone == [bridge[b] EXCEPT !.phase = phase, !.hand = <<>>, !.held = <<>>]
    <3>1. bridge[b] \in States /\ phase \in Phases
      BY DEF StdioShape, Phases
    <3>2. gone \in States /\ gone.phase = phase
      BY <3>1, HandIs DEF States
    <3>3. /\ bridge' \in [Bridges -> States]
          /\ \A a \in Bridges \ {b} : bridge'[a] = bridge[a]
          /\ bridge'[b] = gone
      <4>1. bridge' = [bridge EXCEPT ![b] = gone] /\ bridge \in [Bridges -> States]
        BY <2>1 DEF Goes, StdioShape
      <4> HIDE DEF gone
      <4> QED BY <3>2, <4>1, Becomes
    <3> HIDE DEF gone
    <3>4. /\ \A a \in Bridges : Reached(a)' <=> Reached(a) /\ a # b
          /\ \A a \in Bridges : Copies(a)' <=> Copies(a) /\ a # b
      BY <3>2, <3>3 DEF Copies, Reached
    <3>5. bridge'[b] = [bridge[b] EXCEPT !.phase = phase, !.hand = <<>>, !.held = <<>>]
      BY <3>3 DEF gone
    <3> HIDE DEF States
    <3> QED BY <3>3, <3>4, <3>5
  <2>3. StdioShape'
    <3>1. spent' \subseteq 1..thread.taken
      BY <2>1, ReadChunks DEF Goes
    <3> QED BY <2>1, <2>2, <3>1, HandIs DEF Goes, StdioShape
  <2>4. Bounds'
    BY <2>1, <2>2 DEF Bounds, Pumps, Copies, Goes, StdioShape, States
  <2>5. Line' /\ Runs'
    BY <2>1, <2>2, UnlockKeeps DEF Goes, Runs
  <2> QED BY <2>3, <2>4, <2>5
<1>6. ASSUME NEW b \in Bridges, Works(b)
      PROVE  StdioTypeOK'
  <2>1. UNCHANGED <<stdin, spent, thread, lock, peer>>
    BY <1>6 DEF Works, Enter, Receive, WriteChunk, HalfClose, CopyReads, CopyWrites
  <2>2. /\ bridge' \in [Bridges -> States]
        /\ \A a \in Bridges \ {b} : bridge'[a] = bridge[a]
        /\ Reached(b) /\ Reached(b)' /\ Holds(b)
        /\ bridge'[b].read <= peer[b].said
        /\ ~Pumps(b)' => bridge'[b].hand = <<>>
        /\ ~Copies(b)' => bridge'[b].held = <<>>
        /\ channel' \in {<<>>, channel}
    <3>0. bridge[b] \in States /\ peer[b].said \in Nat /\ bridge \in [Bridges -> States]
      BY StdioAssumption DEF StdioShape
    <3>1. CASE Enter(b)
      <4> DEFINE state == [bridge[b] EXCEPT !.phase = "pumping"]
      <4>2. state \in States
        BY <3>0, HandIs DEF States, Phases
      <4>3. bridge' = [bridge EXCEPT ![b] = state]
        BY <3>0, <3>1 DEF Enter
      <4>4. /\ bridge' \in [Bridges -> States] /\ bridge'[b] = state
            /\ \A a \in Bridges \ {b} : bridge'[a] = bridge[a]
        <5> HIDE DEF state
        <5> QED BY <3>0, <4>2, <4>3, Becomes
      <4> QED BY <3>0, <3>1, <4>4 DEF Enter, Bounds, Runs, Reached, Pumps, Copies, States
    <3>2. CASE Receive(b)
      <4> DEFINE state == [bridge[b] EXCEPT !.hand = channel]
      <4>1. channel \in Hands
        BY <3>2 DEF Receive, StdioShape
      <4>2. state \in States
        BY <3>0, HandIs, <4>1 DEF States, Phases
      <4>3. bridge' = [bridge EXCEPT ![b] = state]
        BY <3>0, <3>2 DEF Receive
      <4>4. /\ bridge' \in [Bridges -> States] /\ bridge'[b] = state
            /\ \A a \in Bridges \ {b} : bridge'[a] = bridge[a]
        <5> HIDE DEF state
        <5> QED BY <3>0, <4>2, <4>3, Becomes
      <4> QED BY <3>0, <3>2, <4>4 DEF Receive, Bounds, Runs, Reached, Pumps, Copies, States
    <3>3. CASE WriteChunk(b)
      <4> DEFINE state == [bridge[b] EXCEPT !.got = bridge[b].got \o bridge[b].hand, !.hand = <<>>]
      <4>1. bridge[b].got \o bridge[b].hand \in Seq(Chunks)
        BY <3>0, HandIs DEF States
      <4>2. state \in States
        BY <3>0, HandIs, <4>1 DEF States, Phases
      <4>3. bridge' = [bridge EXCEPT ![b] = state]
        BY <3>0, <3>3 DEF WriteChunk
      <4>4. /\ bridge' \in [Bridges -> States] /\ bridge'[b] = state
            /\ \A a \in Bridges \ {b} : bridge'[a] = bridge[a]
        <5> HIDE DEF state
        <5> QED BY <3>0, <4>2, <4>3, Becomes
      <4> QED BY <3>0, <3>3, <4>4 DEF WriteChunk, Bounds, Runs, Reached, Pumps, Copies, States
    <3>4. CASE HalfClose(b)
      <4> DEFINE state == [bridge[b] EXCEPT !.phase = "draining", !.held = <<>>]
      <4>2. state \in States
        BY <3>0, HandIs DEF States, Phases
      <4>3. bridge' = [bridge EXCEPT ![b] = state]
        BY <3>0, <3>4 DEF HalfClose
      <4>4. /\ bridge' \in [Bridges -> States] /\ bridge'[b] = state
            /\ \A a \in Bridges \ {b} : bridge'[a] = bridge[a]
        <5> HIDE DEF state
        <5> QED BY <3>0, <4>2, <4>3, Becomes
      <4> QED BY <3>0, <3>4, <4>4 DEF HalfClose, Bounds, Runs, Reached, Pumps, Copies, States
    <3>5. CASE CopyReads(b)
      <4> DEFINE state == [bridge[b] EXCEPT !.read = bridge[b].read + 1,
                                         !.held = Append(bridge[b].held, bridge[b].read + 1)]
      <4>1. /\ Append(bridge[b].held, bridge[b].read + 1) \in Seq(Nat)
            /\ bridge[b].read + 1 \in Nat
        BY <3>0 DEF States
      <4>2. state \in States
        BY <3>0, HandIs, <4>1 DEF States, Phases
      <4>3. bridge' = [bridge EXCEPT ![b] = state]
        BY <3>0, <3>5 DEF CopyReads
      <4>4. /\ bridge' \in [Bridges -> States] /\ bridge'[b] = state
            /\ \A a \in Bridges \ {b} : bridge'[a] = bridge[a]
        <5> HIDE DEF state
        <5> QED BY <3>0, <4>2, <4>3, Becomes
      <4> QED BY <3>0, <3>5, <4>4 DEF CopyReads, Bounds, Runs, Reached, Pumps, Copies, States
    <3>6. CASE CopyWrites(b)
      <4> DEFINE state == [bridge[b] EXCEPT !.shown = bridge[b].shown \o bridge[b].held, !.held = <<>>]
      <4>1. bridge[b].shown \o bridge[b].held \in Seq(Nat)
        BY <3>0 DEF States
      <4>2. state \in States
        BY <3>0, HandIs, <4>1 DEF States, Phases
      <4>3. bridge' = [bridge EXCEPT ![b] = state]
        BY <3>0, <3>6 DEF CopyWrites
      <4>4. /\ bridge' \in [Bridges -> States] /\ bridge'[b] = state
            /\ \A a \in Bridges \ {b} : bridge'[a] = bridge[a]
        <5> HIDE DEF state
        <5> QED BY <3>0, <4>2, <4>3, Becomes
      <4> QED BY <3>0, <3>6, <4>4 DEF CopyWrites, Bounds, Runs, Reached, Pumps, Copies, States
    <3> QED BY <1>6, <3>1, <3>2, <3>3, <3>4, <3>5, <3>6 DEF Works
  <2>3. StdioShape' /\ Bounds'
    BY <2>1, <2>2, HandIs DEF StdioShape, Bounds, Pumps, Copies
  <2>4. \A a \in Bridges : Reached(a)' <=> Reached(a)
    BY <2>2 DEF Reached
  <2>5. Line' /\ Runs'
    <3>1. Line' /\ \A a \in Bridges : Holds(a) => Holds(a)'
      BY <2>1, <2>4, LineStays
    <3>2. \A a \in Bridges \ {b} : Copies(a)' => Copies(a)
      BY <2>2 DEF Copies
    <3> QED BY <2>2, <3>1, <3>2 DEF Runs
  <2> QED BY <2>3, <2>5
<1>7. CASE UNCHANGED stdioVars
  BY <1>7 DEF stdioVars, StdioShape, Line, Bounds, Runs, Pumps, Copies, Reached, Holds
<1> QED
  BY <1>1, <1>2, <1>3, <1>4, <1>5, <1>6, <1>7
     DEF StdioNext, Upstream, Downstream, GoesSomehow, Works
-----------------------------------------------------------------------------
(* The chunks *)

\* Only the bridge that runs has a chunk in its hand.
LEMMA OneHand ==
  ASSUME StdioTypeOK, NEW b \in Bridges, Pumps(b)
  PROVE  InHand = Range(bridge[b].hand)
<1>1. \A a \in Bridges \ {b} : Range(bridge[a].hand) = {}
  <2> SUFFICES ASSUME NEW a \in Bridges \ {b}
               PROVE  bridge[a].hand = <<>>
    BY DEF Range
  <2>1. ~Pumps(a)
    BY OneCopies DEF Pumps, Copies
  <2> QED BY <2>1, StdioParts DEF Bounds
<1> HIDE DEF Range
<1> QED BY <1>1 DEF InHand

\* No hand takes or gives a chunk.
LEMMA HandSame ==
  ASSUME \A a \in Bridges : bridge'[a].hand = bridge[a].hand
  PROVE  InHand' = InHand
  BY DEF InHand

(***************************************************************************)
(* A step that gives no peer a chunk: what is on its way stays in order,   *)
(* or is spent from its front.                                             *)
(***************************************************************************)
LEMMA Flows ==
  ASSUME StdioShape, InputInv, thread'.taken = thread.taken,
         \A b \in Bridges : bridge'[b].got = bridge[b].got,
         \A b \in Bridges : Pumps(b)' => Pumps(b) \/ Given(b) = {},
         InFlight' \cup spent' = InFlight \cup spent, InFlight' \subseteq InFlight,
         spent \subseteq spent', Ahead(spent', InFlight'), InOrder'
  PROVE  InputInv'
<1>1. \A b \in Bridges : Given(b)' = Given(b)
  BY DEF Given
<1>2. (UNION {Given(b) : b \in Bridges})' = UNION {Given(b) : b \in Bridges}
  BY <1>1
<1>3. InFlight \subseteq 1..thread.taken /\ thread.taken \in Nat
  BY ReadChunks DEF InputInv, InFlight
<1>4. \A b \in Bridges : Given(b) \subseteq 1..thread.taken
  BY ReadChunks DEF InputInv
<1>5. 1..thread'.taken = (UNION {Given(b) : b \in Bridges})' \cup InFlight' \cup spent'
  BY <1>2 DEF InputInv, InputIsKept
<1>6. ASSUME NEW b \in Bridges
      PROVE  /\ Ahead(Given(b)', InFlight')
             /\ Given(b)' \cap spent' = {}
             /\ \A i, j \in DOMAIN bridge'[b].got : i < j => bridge'[b].got[i] < bridge'[b].got[j]
  <2>1. Ahead(Given(b), InFlight) /\ Given(b) \cap spent = {}
    BY DEF InputInv, InputIsKept
  <2>2. Given(b) \cap InFlight = {}
    BY <1>3, <1>4, <2>1 DEF Ahead
  <2>3. Ahead(Given(b)', InFlight') /\ Given(b)' \cap spent' = {}
    BY <1>1, <2>1, <2>2 DEF Ahead
  <2> QED BY <2>3 DEF InputInv, InputIsKept
<1>7. InputIsKept'
  BY <1>5, <1>6 DEF InputIsKept
<1>8. NeverSplit' /\ Newest'
  BY <1>1 DEF InputInv, NeverSplit, Newest, Ahead
<1> QED BY <1>7, <1>8 DEF InputInv

LEMMA InputHolds ==
  ASSUME StdioTypeOK, StdioTypeOK', Unstarted, InputInv, [StdioNext]_stdioVars
  PROVE  InputInv'
<1>1. /\ StdioShape /\ Bounds /\ StdioShape' /\ Bounds'
      /\ bridge \in [Bridges -> States] /\ bridge' \in [Bridges -> States]
  BY StdioParts DEF StdioShape
<1>2. /\ InOrder /\ Ahead(spent, InFlight)
      /\ thread.taken \in Nat
      /\ InThread \subseteq 1..thread.taken /\ InHand \subseteq 1..thread.taken
      /\ InChannel \subseteq 1..thread.taken /\ spent \subseteq 1..thread.taken
      /\ \A b \in Bridges : Given(b) \subseteq 1..thread.taken
  BY <1>1, ReadChunks DEF InputInv, InputIsKept
<1>3. ASSUME UNCHANGED <<channel, spent, InThread>>, thread'.taken = thread.taken,
             \A b \in Bridges : bridge'[b].hand = bridge[b].hand,
             \A b \in Bridges : bridge'[b].got = bridge[b].got,
             \A b \in Bridges : Pumps(b)' => Pumps(b) \/ Given(b) = {}
      PROVE  InputInv'
  <2>1. InHand' = InHand
    BY <1>3, HandSame
  <2>2. InChannel' = InChannel
    BY <1>3 DEF InChannel
  <2>3. InFlight' = InFlight
    BY <1>3, <2>1, <2>2 DEF InFlight
  <2>4. InOrder' /\ Ahead(spent', InFlight')
    BY <1>2, <1>3, <2>1, <2>2, <2>3 DEF InOrder, Ahead
  <2>5. InFlight' \cup spent' = InFlight \cup spent /\ InFlight' \subseteq InFlight
    BY <1>3, <2>3
  <2>6. spent \subseteq spent'
    BY <1>3
  <2> QED BY <1>1, <1>3, <2>4, <2>5, <2>6, Flows
<1>4. CASE Type \/ CloseStdin
  BY <1>3, <1>4 DEF Type, CloseStdin, InThread, Pumps
<1>5. ASSUME NEW b \in Bridges, Peer(b)
      PROVE  InputInv'
  BY <1>3, <1>5 DEF Peer, PeerSays, PeerCloses, InThread, Pumps
<1>6. CASE UNCHANGED stdioVars
  BY <1>3, <1>6 DEF stdioVars, InThread, Pumps
<1>7. CASE ThreadEnds
  <2>1. InThread' = InThread /\ thread'.taken = thread.taken
    BY <1>1, <1>7 DEF ThreadEnds, InThread, StdioShape
  <2> QED BY <1>3, <1>7, <2>1 DEF ThreadEnds, Pumps
<1>8. CASE ThreadReads
  <2> DEFINE next == thread.taken + 1
  <2>1. /\ thread'.taken = next /\ next \in Nat /\ InThread = {} /\ InThread' = {next}
        /\ UNCHANGED <<spent, channel, bridge>>
    BY <1>1, <1>8, <1>2 DEF ThreadReads, InThread, StdioShape
  <2>2. InHand' = InHand /\ InChannel' = InChannel /\ \A b \in Bridges : Given(b)' = Given(b)
    BY <2>1 DEF InHand, InChannel, Given
  <2>3. InFlight' = InFlight \cup {next} /\ 1..next = 1..thread.taken \cup {next}
    BY <1>2, <2>1, <2>2 DEF InFlight
  <2>4. (UNION {Given(b) : b \in Bridges})' = UNION {Given(b) : b \in Bridges}
    BY <2>2
  <2>5. 1..thread'.taken = (UNION {Given(b) : b \in Bridges})' \cup InFlight' \cup spent'
    <3> DEFINE given == UNION {Given(b) : b \in Bridges}
    <3>1. 1..thread.taken = given \cup InFlight \cup spent
      BY DEF InputInv, InputIsKept
    <3> HIDE DEF given
    <3>2. 1..thread'.taken = given \cup InFlight' \cup spent'
      BY <2>1, <2>3, <3>1
    <3> QED BY <2>4, <3>2 DEF given
  <2>6. /\ Ahead(spent', InFlight')
        /\ \A b \in Bridges : Ahead(Given(b)', InFlight')
    BY <1>2, <2>1, <2>2, <2>3 DEF InputInv, InputIsKept, Ahead
  <2>7. InputIsKept'
    BY <2>1, <2>2, <2>5, <2>6 DEF InputInv, InputIsKept
  <2>8. InOrder'
    BY <1>2, <2>1, <2>2 DEF InOrder, Ahead
  <2>9. NeverSplit' /\ Newest'
    BY <2>1, <2>2 DEF InputInv, NeverSplit, Newest, Pumps, Ahead
  <2> QED BY <2>7, <2>8, <2>9 DEF InputInv
<1>9. CASE ThreadSends
  <2>1. /\ thread'.taken = thread.taken /\ UNCHANGED <<spent, bridge>>
        /\ InChannel = {} /\ InChannel' = InThread /\ InThread' = {}
    <3>1. channel = <<>> /\ thread.at \in {"sending", "failing"}
      BY <1>9 DEF ThreadSends
    <3>2. InChannel = {}
      BY <3>1 DEF InChannel, Range
    <3>3. thread'.taken = thread.taken /\ InThread' = {} /\ UNCHANGED <<spent, bridge>>
      BY <1>1, <1>9 DEF ThreadSends, InThread, StdioShape
    <3>4. CASE thread.at = "sending"
      <4>1. channel' = <<thread.taken>> /\ InThread = {thread.taken} /\ thread.taken # Error
        BY <1>2, <1>9, <3>4 DEF ThreadSends, InThread, Error
      <4>2. Range(channel') = {thread.taken}
        BY <4>1 DEF Range
      <4> QED BY <3>2, <3>3, <4>1, <4>2 DEF InChannel
    <3>5. CASE thread.at = "failing"
      <4>1. channel' = <<Error>> /\ InThread = {}
        BY <1>9, <3>5 DEF ThreadSends, InThread
      <4>2. Range(channel') = {Error}
        BY <4>1 DEF Range
      <4> QED BY <3>2, <3>3, <4>1, <4>2 DEF InChannel
    <3> QED BY <3>1, <3>4, <3>5
  <2>2. InHand' = InHand
    BY <2>1, HandSame
  <2>3. InFlight' = InFlight
    BY <2>1, <2>2 DEF InFlight
  <2>4. InOrder' /\ Ahead(spent', InFlight')
    BY <1>2, <2>1, <2>2, <2>3 DEF InOrder, Ahead
  <2>5. /\ \A b \in Bridges : bridge'[b].got = bridge[b].got
        /\ \A b \in Bridges : Pumps(b)' => Pumps(b) \/ Given(b) = {}
    BY <2>1 DEF Pumps
  <2>6. /\ InFlight' \cup spent' = InFlight \cup spent /\ InFlight' \subseteq InFlight
        /\ spent \subseteq spent'
    BY <2>1, <2>3
  <2> QED BY <1>1, <2>1, <2>4, <2>5, <2>6, Flows
<1>10. ASSUME NEW b \in Bridges,
              Start(b) \/ Enter(b) \/ HalfClose(b) \/ CopyReads(b) \/ CopyWrites(b)
       PROVE  InputInv'
  <2>1. UNCHANGED <<channel, spent>> /\ thread'.taken = thread.taken /\ InThread' = InThread
    BY <1>1, <1>10
       DEF Start, Enter, HalfClose, CopyReads, CopyWrites, InThread, StdioShape
  <2>2. PICK state : /\ state.hand = bridge[b].hand /\ state.got = bridge[b].got
                     /\ state.phase = "pumping" => Enter(b) \/ Pumps(b)
                     /\ bridge' = [bridge EXCEPT ![b] = state]
    <3>1. bridge[b] \in States
      BY <1>1
    <3>2. CASE Start(b)
      BY <3>1, <3>2 DEF Start, States
    <3>3. CASE Enter(b)
      BY <3>1, <3>3 DEF Enter, States
    <3>4. CASE HalfClose(b)
      BY <3>1, <3>4 DEF HalfClose, States
    <3>5. CASE CopyReads(b)
      BY <3>1, <3>5 DEF CopyReads, States, Pumps
    <3>6. CASE CopyWrites(b)
      BY <3>1, <3>6 DEF CopyWrites, States, Pumps
    <3> QED BY <1>10, <3>2, <3>3, <3>4, <3>5, <3>6
  <2>3. Enter(b) => Given(b) = {}
    <3>1. Enter(b) => bridge[b].got = <<>>
      BY DEF Enter, Unstarted, Fresh
    <3> QED BY <3>1 DEF Given, Range
  <2>4. \A a \in Bridges : bridge'[a] = IF a = b THEN state ELSE bridge[a]
    BY <1>1, <2>2
  <2>5. /\ \A a \in Bridges : bridge'[a].hand = bridge[a].hand
        /\ \A a \in Bridges : bridge'[a].got = bridge[a].got
        /\ \A a \in Bridges : Pumps(a)' => Pumps(a) \/ Given(a) = {}
    BY <2>2, <2>3, <2>4 DEF Pumps
  <2> QED BY <1>3, <2>1, <2>5
<1>11. ASSUME NEW b \in Bridges, Receive(b)
       PROVE  InputInv'
  <2>1. /\ Pumps(b) /\ bridge[b].hand = <<>> /\ channel # <<>> /\ channel # <<Error>>
        /\ channel' = <<>> /\ UNCHANGED <<spent, thread>>
        /\ bridge' = [bridge EXCEPT ![b] = [@ EXCEPT !.hand = channel]]
    BY <1>11 DEF Receive
  <2>2. \A a \in Bridges : /\ bridge'[a].got = bridge[a].got
                          /\ bridge'[a].phase = bridge[a].phase
                          /\ bridge'[a].hand = IF a = b THEN channel ELSE bridge[a].hand
    BY <1>1, <2>1 DEF States
  <2>3. InHand = {} /\ InThread' = InThread
    BY <2>1, OneHand DEF Range, InThread
  <2>4. Error \notin Range(channel)
    BY <1>1, <2>1, HandIs DEF StdioShape, Chunks, Error, Range, Hands
  <2>5. InChannel = Range(channel) /\ InChannel' = {}
    BY <2>1, <2>4 DEF InChannel, Range
  <2>6. InHand' = Range(channel)
    <3>1. Pumps(b)'
      BY <2>1, <2>2 DEF Pumps
    <3>2. (InHand = Range(bridge[b].hand))'
      <4>1. \A a \in Bridges \ {b} : bridge'[a].hand = <<>>
        <5>1. \A a \in Bridges \ {b} : ~Pumps(a)
          BY <2>1, OneCopies DEF Pumps, Copies
        <5> QED BY <1>1, <2>2, <5>1 DEF Bounds
      <4>2. \A a \in Bridges \ {b} : Range(bridge'[a].hand) = {}
        BY <4>1 DEF Range
      <4> HIDE DEF Range
      <4> QED BY <4>2 DEF InHand
    <3> QED BY <2>2, <3>2
  <2>7. InFlight' = InFlight
    BY <2>3, <2>5, <2>6 DEF InFlight
  <2>8. InOrder' /\ Ahead(spent', InFlight')
    BY <1>2, <2>1, <2>3, <2>5, <2>6, <2>7 DEF InOrder, Ahead
  <2>9. /\ \A a \in Bridges : bridge'[a].got = bridge[a].got
        /\ \A a \in Bridges : Pumps(a)' => Pumps(a) \/ Given(a) = {}
    BY <2>2 DEF Pumps
  <2>10. /\ InFlight' \cup spent' = InFlight \cup spent /\ InFlight' \subseteq InFlight
         /\ spent \subseteq spent' /\ thread'.taken = thread.taken
    BY <2>1, <2>7
  <2> QED BY <1>1, <2>8, <2>9, <2>10, Flows
<1>12. ASSUME NEW b \in Bridges, WriteChunk(b)
       PROVE  InputInv'
  <2> DEFINE got == bridge[b].got
             h == bridge[b].hand[1]
  <2>1. /\ Pumps(b) /\ bridge[b].hand = <<h>> /\ h \in Chunks /\ got \in Seq(Chunks)
        /\ UNCHANGED <<spent, thread, channel>>
        /\ bridge' = [bridge EXCEPT ![b] = [@ EXCEPT !.got = got \o bridge[b].hand, !.hand = <<>>]]
    BY <1>1, <1>12, HandIs DEF WriteChunk, States
  <2>2. \A a \in Bridges : /\ bridge'[a].got = IF a = b THEN got \o <<h>> ELSE bridge[a].got
                          /\ bridge'[a].phase = bridge[a].phase
                          /\ bridge'[a].hand = IF a = b THEN <<>> ELSE bridge[a].hand
    BY <1>1, <2>1 DEF States
  <2>3. InHand = {h}
    <3>1. Range(<<h>>) = {h}
      BY DEF Range
    <3> QED BY <2>1, <3>1, OneHand
  <2>4. InHand' = {}
    <3>1. \A a \in Bridges : bridge'[a].hand = <<>>
      <4>1. \A a \in Bridges \ {b} : ~Pumps(a)
        BY <2>1, OneCopies DEF Pumps, Copies
      <4> QED BY <1>1, <2>2, <4>1 DEF Bounds
    <3>2. \A a \in Bridges : Range(bridge'[a].hand) = {}
      BY <3>1 DEF Range
    <3> HIDE DEF Range
    <3> QED BY <3>2 DEF InHand
  <2>5. InChannel' = InChannel /\ InThread' = InThread
    BY <2>1 DEF InChannel, InThread
  <2> DEFINE new == got \o <<h>>
  <2>6. /\ Len(got) \in Nat /\ DOMAIN got = 1..Len(got)
        /\ DOMAIN new = 1..(Len(got) + 1)
        /\ \A i \in 1..Len(got) : new[i] = got[i] /\ got[i] \in Chunks
        /\ new[Len(got) + 1] = h
    BY <2>1
  <2>7. Given(b)' = Given(b) \cup {h} /\ \A a \in Bridges \ {b} : Given(a)' = Given(a)
    <3>1. bridge'[b].got = new
      BY <2>2
    <3> HIDE DEF new
    <3>2. Given(b)' = Given(b) \cup {h}
      BY <2>6, <3>1 DEF Given, Range
    <3> QED BY <2>2, <3>2 DEF Given
  <2>8. InFlight = InFlight' \cup {h} /\ h \notin InFlight' /\ Ahead({h}, InFlight')
    BY <1>2, <2>1, <2>3, <2>4, <2>5 DEF InFlight, InOrder, Ahead, Chunks
  <2>9. h \notin spent
    BY <1>2, <2>1, <2>8 DEF Ahead, Chunks
  <2>10. \A i \in DOMAIN got : got[i] < h
    BY <2>8 DEF InputInv, InputIsKept, Given, Ahead, Range
  <2>11. \A a \in Bridges : Ahead(Given(a), {h})
    BY <2>8 DEF InputInv, InputIsKept, Ahead
  <2>12. 1..thread'.taken = (UNION {Given(a) : a \in Bridges})' \cup InFlight' \cup spent'
    <3> DEFINE given == UNION {Given(a) : a \in Bridges}
    <3>1. 1..thread.taken = given \cup InFlight \cup spent
      BY DEF InputInv, InputIsKept
    <3>2. given' = given \cup {h}
      BY <2>7
    <3> HIDE DEF given
    <3> QED BY <2>1, <2>8, <3>1, <3>2 DEF given
  <2>13. \A a \in Bridges :
           /\ Ahead(Given(a)', InFlight')
           /\ Given(a)' \cap spent' = {}
           /\ \A i, j \in DOMAIN bridge'[a].got : i < j => bridge'[a].got[i] < bridge'[a].got[j]
    <3> SUFFICES ASSUME NEW a \in Bridges
                 PROVE  /\ Ahead(Given(a)', InFlight')
                        /\ Given(a)' \cap spent' = {}
                        /\ \A i, j \in DOMAIN bridge'[a].got :
                             i < j => bridge'[a].got[i] < bridge'[a].got[j]
      OBVIOUS
    <3>1. /\ Ahead(Given(a), InFlight) /\ Given(a) \cap spent = {}
          /\ \A i, j \in DOMAIN bridge[a].got : i < j => bridge[a].got[i] < bridge[a].got[j]
      BY DEF InputInv, InputIsKept
    <3>2. Ahead(Given(a)', InFlight') /\ Given(a)' \cap spent' = {}
      BY <2>1, <2>7, <2>8, <2>9, <3>1 DEF Ahead
    <3>3. CASE a # b
      BY <2>2, <3>1, <3>2, <3>3
    <3>4. CASE a = b
      <4>1. bridge'[a].got = new
        BY <2>2, <3>4
      <4> HIDE DEF new
      <4>2. ASSUME NEW i \in 1..(Len(got) + 1), NEW j \in 1..(Len(got) + 1), i < j
            PROVE  new[i] < new[j]
        <5>1. i \in 1..Len(got) /\ new[i] = got[i]
          BY <2>6, <4>2
        <5>2. CASE j \in 1..Len(got)
          BY <2>6, <3>1, <3>4, <4>2, <5>1, <5>2
        <5>3. CASE j = Len(got) + 1
          BY <2>6, <2>10, <5>1, <5>3
        <5> QED BY <2>6, <5>2, <5>3
      <4> QED BY <2>6, <3>2, <4>1, <4>2
    <3> QED BY <3>3, <3>4
  <2>14. InputIsKept'
    BY <1>2, <2>1, <2>8, <2>12, <2>13 DEF InputIsKept, Ahead
  <2>15. InOrder'
    BY <1>2, <2>4, <2>5 DEF InOrder, Ahead
  <2>16. /\ \A a \in Bridges \ {b} : Ahead(Given(a)', Given(b)')
         /\ \A a \in Bridges : Pumps(a)' => a = b
    <3>1. \A a \in Bridges \ {b} : Ahead(Given(a), Given(b))
      BY <2>1 DEF InputInv, Newest
    <3>2. \A a \in Bridges : Pumps(a)' => a = b
      BY <2>1, <2>2, OneCopies DEF Pumps, Copies
    <3> QED BY <2>7, <2>11, <3>1, <3>2 DEF Ahead
  <2>17. Newest'
    BY <2>16 DEF Newest
  <2>18. NeverSplit'
    BY <2>7, <2>16 DEF InputInv, NeverSplit
  <2> QED BY <2>14, <2>15, <2>17, <2>18 DEF InputInv
<1>13. ASSUME NEW b \in Bridges, GoesSomehow(b)
       PROVE  InputInv'
  <2>1. PICK phase \in {"done", "failed", "dropped"} : Goes(b, phase)
    BY <1>1, <1>13, GoesWith
  <2>2. /\ \A a \in Bridges : bridge'[a].got = bridge[a].got
        /\ \A a \in Bridges : bridge'[a].phase = IF a = b THEN phase ELSE bridge[a].phase
        /\ \A a \in Bridges : bridge'[a].hand = IF a = b THEN <<>> ELSE bridge[a].hand
    <3> DEFINE gone == [bridge[b] EXCEPT !.phase = phase, !.hand = <<>>, !.held = <<>>]
    <3>1. gone.got = bridge[b].got /\ gone.phase = phase /\ gone.hand = <<>>
      BY <1>1 DEF States
    <3>2. bridge' = [bridge EXCEPT ![b] = gone]
      BY <2>1 DEF Goes
    <3> HIDE DEF gone
    <3>3. \A a \in Bridges : bridge'[a] = IF a = b THEN gone ELSE bridge[a]
      BY <1>1, <3>2
    <3> QED BY <3>1, <3>3
  <2>3. InThread' = InThread /\ thread'.taken = thread.taken
    BY <2>1 DEF Goes, InThread
  <2>4. InChannel' = InChannel
    <3>1. CASE channel' = channel
      BY <3>1 DEF InChannel
    <3>2. CASE channel = <<Error>> /\ channel' = <<>>
      BY <3>2 DEF InChannel, Range
    <3> QED BY <2>1, <3>1, <3>2 DEF Goes
  <2> DEFINE hand == Range(bridge[b].hand)
  <2>5. InHand = InHand' \cup hand
    <3>1. Range(<<>>) = {}
      BY DEF Range
    <3>2. \A a \in Bridges : Range(bridge'[a].hand) = IF a = b THEN {} ELSE Range(bridge[a].hand)
      <4> HIDE DEF Range
      <4> QED BY <2>2, <3>1
    <3> HIDE DEF Range
    <3> QED BY <3>2 DEF InHand
  <2>6. Ahead(hand, InFlight')
    <3>1. CASE Pumps(b)
      <4>1. \A a \in Bridges \ {b} : ~Pumps(a)
        BY <3>1, OneCopies DEF Pumps, Copies
      <4>2. \A a \in Bridges : bridge'[a].hand = <<>>
        BY <1>1, <2>2, <4>1 DEF Bounds
      <4>3. \A a \in Bridges : Range(bridge'[a].hand) = {}
        BY <4>2 DEF Range
      <4>4. InHand' = {}
        <5> HIDE DEF Range
        <5> QED BY <4>3 DEF InHand
      <4> HIDE DEF hand
      <4> QED BY <1>2, <2>3, <2>4, <2>5, <4>4 DEF InOrder, InFlight, Ahead
    <3>2. CASE ~Pumps(b)
      <4>1. bridge[b].hand = <<>>
        BY <1>1, <3>2 DEF Bounds
      <4>2. hand = {}
        BY <4>1 DEF Range
      <4> QED BY <4>2 DEF Ahead
    <3> QED BY <3>1, <3>2
  <2>7. spent' = spent \cup hand
    BY <2>1 DEF Goes
  <2> HIDE DEF hand
  <2>8. /\ InFlight' \cup spent' = InFlight \cup spent /\ InFlight' \subseteq InFlight
        /\ spent \subseteq spent'
    BY <2>3, <2>4, <2>5, <2>7 DEF InFlight
  <2>9. Ahead(spent', InFlight')
    BY <1>2, <2>6, <2>7, <2>8 DEF Ahead
  <2>10. InOrder'
    BY <1>2, <2>3, <2>4, <2>5 DEF InOrder, Ahead
  <2>11. /\ \A a \in Bridges : bridge'[a].got = bridge[a].got
         /\ \A a \in Bridges : Pumps(a)' => Pumps(a) \/ Given(a) = {}
    BY <2>2 DEF Pumps
  <2> QED BY <1>1, <2>3, <2>8, <2>9, <2>10, <2>11, Flows
<1> QED
  BY <1>4, <1>5, <1>6, <1>7, <1>8, <1>9, <1>10, <1>11, <1>12, <1>13
     DEF StdioNext, Thread, Upstream, Downstream, GoesSomehow
-----------------------------------------------------------------------------
(* What is shown *)

LEMMA UnstartedHolds ==
  ASSUME StdioTypeOK, Unstarted, [StdioNext]_stdioVars
  PROVE  Unstarted'
<1>1. bridge \in [Bridges -> States] /\ StdioShape
  BY StdioParts DEF StdioShape
<1>2. CASE UNCHANGED bridge
  BY <1>2 DEF Unstarted
<1>3. ASSUME NEW b \in Bridges, Start(b)
      PROVE  Unstarted'
  <2>1. \A a \in Bridges :
          bridge'[a] = IF a = b THEN [bridge[b] EXCEPT !.phase = "waiting"] ELSE bridge[a]
    BY <1>1, <1>3 DEF Start
  <2>2. bridge[b] = [Fresh EXCEPT !.phase = bridge[b].phase]
    BY <1>3 DEF Start, Unstarted
  <2>3. bridge'[b] = [Fresh EXCEPT !.phase = bridge'[b].phase]
    BY <2>1, <2>2 DEF Fresh
  <2> HIDE DEF Fresh
  <2> QED BY <2>1, <2>3 DEF Unstarted
<1>4. ASSUME NEW b \in Bridges, NEW phase \in Phases \ {"idle", "waiting"},
             \A a \in Bridges \ {b} : bridge'[a] = bridge[a], bridge'[b].phase = phase
      PROVE  Unstarted'
  BY <1>4 DEF Unstarted
<1>5. ASSUME NEW b \in Bridges, GoesSomehow(b)
      PROVE  Unstarted'
  <2>1. PICK phase \in {"done", "failed", "dropped"} : Goes(b, phase)
    BY <1>1, <1>5, GoesWith
  <2>2. /\ \A a \in Bridges \ {b} : bridge'[a] = bridge[a]
        /\ bridge'[b].phase = phase
    BY <1>1, <2>1 DEF Goes, States
  <2> QED BY <1>4, <2>2 DEF Phases
<1>6. ASSUME NEW b \in Bridges, Works(b)
      PROVE  Unstarted'
  <2>1. /\ \A a \in Bridges \ {b} : bridge'[a] = bridge[a]
        /\ bridge'[b].phase \in {"pumping", "draining"}
    <3>1. CASE Enter(b) \/ HalfClose(b)
      BY <1>1, <3>1 DEF Enter, HalfClose, States
    <3>2. CASE Receive(b)
      <4>1. /\ bridge' = [bridge EXCEPT ![b].hand = channel]
            /\ bridge[b].phase = "pumping"
        BY <3>2 DEF Receive, Pumps
      <4>2. bridge[b] \in States
        BY <1>1
      <4>3. bridge'[b].phase = "pumping"
        BY <1>1, <4>1, <4>2 DEF States
      <4> QED BY <1>1, <4>1, <4>3
    <3>4. CASE WriteChunk(b)
      <4>1. /\ bridge' = [bridge EXCEPT ![b].got = @ \o bridge[b].hand, ![b].hand = <<>>]
            /\ bridge[b].phase = "pumping"
        BY <3>4 DEF WriteChunk, Pumps
      <4>2. bridge[b] \in States
        BY <1>1
      <4>3. bridge'[b].phase = "pumping"
        BY <1>1, <4>1, <4>2 DEF States
      <4> QED BY <1>1, <4>1, <4>3
    <3>3. CASE CopyReads(b) \/ CopyWrites(b)
      BY <1>1, <3>3 DEF CopyReads, CopyWrites, Copies, States
    <3> QED BY <1>6, <3>1, <3>2, <3>3, <3>4 DEF Works
  <2> QED BY <1>4, <2>1 DEF Phases
<1>7. CASE Type \/ CloseStdin \/ Thread \/ \E b \in Bridges : Peer(b)
  BY <1>2, <1>7 DEF Type, CloseStdin, Thread, ThreadReads, ThreadEnds, ThreadSends,
                    Peer, PeerSays, PeerCloses
<1> QED
  BY <1>2, <1>3, <1>5, <1>6, <1>7
     DEF StdioNext, Upstream, Downstream, GoesSomehow, Works, stdioVars

\* stdin that ended stays so.
LEMMA StaysEnded ==
  ASSUME StdioTypeOK, [StdioNext]_stdioVars
  PROVE  stdin'.end = "open" => stdin.end = "open"
<1>0. StdioShape
  BY StdioParts
<1>1. CASE Type
  BY <1>0, <1>1 DEF Type, StdioShape
<1>2. CASE CloseStdin
  BY <1>0, <1>2 DEF CloseStdin, StdioShape
<1>3. CASE UNCHANGED stdin
  BY <1>3
<1>4. ASSUME NEW b \in Bridges, GoesSomehow(b)
      PROVE  UNCHANGED stdin
  BY <1>0, <1>4, GoesWith DEF Goes
<1> QED
  BY <1>1, <1>2, <1>3, <1>4
     DEF StdioNext, Thread, ThreadReads, ThreadEnds, ThreadSends, Peer, PeerSays, PeerCloses,
         Start, Enter, Upstream, Receive, WriteChunk, HalfClose, Downstream, CopyReads,
         CopyWrites, GoesSomehow, stdioVars

LEMMA StillOpenHolds ==
  ASSUME StdioTypeOK, StillOpen, [StdioNext]_stdioVars
  PROVE  StillOpen'
<1>1. bridge \in [Bridges -> States] /\ StdioShape
  BY StdioParts DEF StdioShape
<1>2. stdin'.end = "open" => stdin.end = "open"
  BY StaysEnded
<1> SUFFICES ASSUME stdin.end = "open", stdin'.end = "open",
                    thread.at \notin {"failing", "gone"},
                    \A b \in Bridges : bridge[b].phase # "draining"
             PROVE  /\ thread'.at \notin {"failing", "gone"}
                    /\ \A b \in Bridges : bridge'[b].phase # "draining"
  BY <1>2 DEF StillOpen
<1>3. CASE UNCHANGED <<thread, bridge>>
  BY <1>3
<1>4. CASE Thread
  <2>1. UNCHANGED bridge /\ ~ThreadEnds
    BY <1>4 DEF Thread, ThreadReads, ThreadEnds, ThreadSends
  <2>2. thread'.at \in {"sending", "reading"}
    BY <1>1, <1>4, <2>1 DEF Thread, ThreadReads, ThreadSends, StdioShape
  <2> QED BY <2>1, <2>2
<1>5. ASSUME NEW b \in Bridges, Start(b)
      PROVE  /\ thread'.at \notin {"failing", "gone"}
             /\ \A a \in Bridges : bridge'[a].phase # "draining"
  <2>1. thread'.at \notin {"failing", "gone"}
    BY <1>1, <1>5 DEF Start, StdioShape
  <2>2. \A a \in Bridges : bridge'[a].phase # "draining"
    BY <1>1, <1>5 DEF Start, States
  <2> QED BY <2>1, <2>2
<1>6. ASSUME NEW b \in Bridges, GoesSomehow(b)
      PROVE  /\ thread'.at \notin {"failing", "gone"}
             /\ \A a \in Bridges : bridge'[a].phase # "draining"
  <2>1. PICK phase \in {"done", "failed", "dropped"} : Goes(b, phase)
    BY <1>1, <1>6, GoesWith
  <2>2. /\ \A a \in Bridges \ {b} : bridge'[a] = bridge[a]
        /\ bridge'[b].phase = phase /\ thread' = thread
    BY <1>1, <2>1 DEF Goes, States
  <2> QED BY <2>2
<1>7. ASSUME NEW b \in Bridges, Works(b)
      PROVE  /\ thread'.at \notin {"failing", "gone"}
             /\ \A a \in Bridges : bridge'[a].phase # "draining"
  <2>1. ~HalfClose(b)
    BY DEF HalfClose
  <2>2. /\ \A a \in Bridges \ {b} : bridge'[a] = bridge[a]
        /\ bridge'[b].phase \in {"pumping", bridge[b].phase} /\ thread' = thread
    BY <1>1, <1>7, <2>1 DEF Works, Enter, Receive, WriteChunk, CopyReads, CopyWrites, States
  <2> QED BY <2>2
<1>8. CASE Type \/ CloseStdin \/ \E b \in Bridges : Peer(b)
  BY <1>3, <1>8 DEF Type, CloseStdin, Peer, PeerSays, PeerCloses
<1> QED
  BY <1>3, <1>4, <1>5, <1>6, <1>7, <1>8
     DEF StdioNext, Upstream, Downstream, GoesSomehow, Works, stdioVars

LEMMA ShowingHolds ==
  ASSUME StdioTypeOK, StdioTypeOK', Unstarted, StillOpen', ShownWhole, [StdioNext]_stdioVars
  PROVE  ShownWhole'
<1>1. bridge \in [Bridges -> States] /\ StdioShape /\ StdioShape' /\ Bounds
  BY StdioParts DEF StdioShape
<1>2. stdin'.end = "open" => stdin.end = "open"
  BY StaysEnded
<1> SUFFICES ASSUME stdin'.end = "open", NEW a \in Bridges
             PROVE  Showing(a)'
  BY DEF ShownWhole
<1>3. Showing(a) /\ bridge[a] \in States /\ bridge'[a] \in States
  BY <1>1, <1>2 DEF ShownWhole, StdioShape
<1>4. peer[a].said \in Nat /\ bridge'[a].phase # "draining"
  BY <1>1, StdioAssumption DEF StdioShape, StillOpen
<1>5. CASE bridge'[a] = bridge[a] /\ peer'[a].said = peer[a].said
  BY <1>3, <1>5 DEF Showing, Copies
<1>6. CASE PeerSays(a)
  <2>1. bridge' = bridge /\ bridge[a].phase # "done"
    BY <1>6 DEF PeerSays, Reached
  <2> QED BY <1>3, <2>1 DEF Showing, Copies
<1>7. CASE PeerCloses(a)
  BY <1>1, <1>5, <1>7 DEF PeerCloses, StdioShape
<1>8. ASSUME bridge'[a].phase \notin {"pumping", "draining", "done"},
             bridge'[a].shown = bridge[a].shown, bridge'[a].held = bridge[a].held,
             bridge'[a].read = bridge[a].read
      PROVE  Showing(a)'
  BY <1>3, <1>8 DEF Showing, Copies
<1>9. CASE Start(a)
  <2>1. bridge'[a] = [bridge[a] EXCEPT !.phase = "waiting"]
    BY <1>1, <1>9 DEF Start
  <2> QED BY <1>3, <1>8, <2>1 DEF States
<1>10. CASE GoesSomehow(a)
  <2>1. PICK phase \in {"done", "failed", "dropped"} :
          Goes(a, phase) /\ (phase = "done" => Finish(a))
    BY <1>1, <1>10, GoesWith
  <2>2. /\ bridge'[a] = [bridge[a] EXCEPT !.phase = phase, !.hand = <<>>, !.held = <<>>]
        /\ peer' = peer
    BY <1>1, <2>1 DEF Goes
  <2>3. /\ bridge'[a].shown = bridge[a].shown /\ bridge'[a].held = <<>>
        /\ bridge'[a].read = bridge[a].read /\ bridge'[a].phase = phase
    BY <1>3, <2>2 DEF States
  <2>4. /\ Len(bridge[a].shown) \in Nat /\ Len(bridge[a].held) \in Nat
        /\ bridge[a].read \in Nat
    BY <1>3 DEF States
  <2>5. phase = "done" => Len(bridge[a].shown) = peer[a].said
    <3> SUFFICES ASSUME phase = "done"
                 PROVE  Len(bridge[a].shown) = peer[a].said
      OBVIOUS
    <3>1. Copies(a) /\ bridge[a].read = peer[a].said /\ bridge[a].held = <<>>
      BY <2>1 DEF Finish
    <3> QED BY <1>3, <2>4, <3>1 DEF Showing
  <2>6. /\ Counts(bridge[a].shown, 0)
        /\ Len(bridge[a].shown) + Len(<<>>) <= bridge[a].read
    <3>1. PICK m \in Nat, n \in Nat, k \in Nat :
            m = Len(bridge[a].shown) /\ n = Len(bridge[a].held) /\ k = bridge[a].read
      BY <2>4
    <3>2. Counts(bridge[a].shown, 0) /\ m + n <= k
      BY <1>3, <3>1 DEF Showing
    <3>3. m + 0 <= k /\ Len(<<>>) = 0
      BY <3>2
    <3> QED BY <3>1, <3>2, <3>3
  <2>7. ~Copies(a)' /\ peer'[a].said = peer[a].said
    BY <2>2, <2>3 DEF Copies
  <2> QED BY <2>3, <2>5, <2>6, <2>7 DEF Showing
<1>11. CASE Works(a)
  <2>1. peer' = peer
    BY <1>11 DEF Works, Enter, Receive, WriteChunk, HalfClose, CopyReads, CopyWrites
  <2>2. CASE Enter(a)
    <3>1. bridge'[a] = [bridge[a] EXCEPT !.phase = "pumping"]
      BY <1>1, <2>2 DEF Enter
    <3>2. bridge[a] = [Fresh EXCEPT !.phase = "waiting"]
      BY <2>2 DEF Enter, Unstarted
    <3>3. /\ bridge'[a].shown = <<>> /\ bridge'[a].held = <<>> /\ bridge'[a].read = 0
          /\ bridge'[a].phase = "pumping"
      BY <3>1, <3>2 DEF Fresh
    <3> QED BY <3>3 DEF Showing, Counts
  <2>3. CASE Receive(a) \/ WriteChunk(a)
    <3>1. /\ bridge'[a].shown = bridge[a].shown /\ bridge'[a].held = bridge[a].held
          /\ bridge'[a].read = bridge[a].read /\ bridge'[a].phase = bridge[a].phase
      BY <1>1, <1>3, <2>3 DEF Receive, WriteChunk, States
    <3> QED BY <1>3, <2>1, <3>1 DEF Showing, Copies
  <2>4. CASE HalfClose(a)
    BY <1>1, <1>3, <1>4, <2>4 DEF HalfClose, States
  <2>5. CASE CopyReads(a)
    <3> DEFINE held == bridge[a].held
               read == bridge[a].read + 1
    <3>1. bridge'[a] = [bridge[a] EXCEPT !.read = read, !.held = Append(held, read)]
      BY <1>1, <2>5 DEF CopyReads
    <3>2. /\ bridge'[a].shown = bridge[a].shown /\ bridge'[a].held = Append(held, read)
          /\ bridge'[a].read = read /\ bridge'[a].phase = bridge[a].phase
      BY <1>3, <3>1 DEF States
    <3>3. /\ held \in Seq(Nat) /\ Len(held) \in Nat /\ Len(bridge[a].shown) \in Nat
          /\ bridge[a].read \in Nat
      BY <1>3 DEF States
    <3>4. /\ Copies(a) /\ Counts(held, Len(bridge[a].shown))
          /\ Len(bridge[a].shown) + Len(held) = bridge[a].read
      BY <1>3, <2>5 DEF CopyReads, Showing
    <3>5. /\ Len(Append(held, read)) = Len(held) + 1
          /\ \A k \in 1..Len(held) : Append(held, read)[k] = held[k]
          /\ Append(held, read)[Len(held) + 1] = read
      BY <3>3
    <3>6. Len(bridge[a].shown) + (Len(held) + 1) = read
      <4>1. PICK m \in Nat, n \in Nat, k \in Nat :
              m = Len(bridge[a].shown) /\ n = Len(held) /\ k = bridge[a].read
        BY <3>3
      <4>2. m + n = k
        BY <3>4, <4>1
      <4>3. m + (n + 1) = k + 1
        BY <4>2
      <4> QED BY <4>1, <4>3
    <3> DEFINE more == Append(held, read)
    <3>7. Counts(more, Len(bridge[a].shown))
      <4>1. /\ Len(more) = Len(held) + 1 /\ more[Len(held) + 1] = read
            /\ \A k \in 1..Len(held) : more[k] = held[k]
        BY <3>5
      <4>2. PICK m \in Nat, n \in Nat :
              m = Len(bridge[a].shown) /\ n = Len(held)
        BY <3>3
      <4> HIDE DEF held, read, more
      <4> SUFFICES ASSUME NEW k \in 1..(n + 1)
                   PROVE  more[k] = m + k
        BY <4>1, <4>2 DEF Counts
      <4>3. CASE k \in 1..n
        BY <3>4, <4>1, <4>2, <4>3 DEF Counts
      <4>4. CASE k = n + 1
        BY <3>6, <4>1, <4>2, <4>4
      <4> QED BY <4>3, <4>4
    <3>8. Counts(bridge[a].shown, 0) /\ (bridge'[a].phase = "done" => FALSE)
      BY <1>3, <3>2, <3>4 DEF Showing, Copies
    <3> HIDE DEF held, read
    <3>9. Len(bridge'[a].shown) + Len(bridge'[a].held) = bridge'[a].read
      BY <3>2, <3>5, <3>6
    <3>10. Len(bridge'[a].shown) + Len(bridge'[a].held) <= bridge'[a].read
      <4>1. PICK k \in Nat : k = bridge'[a].read
        BY <1>3 DEF States
      <4>2. k <= k
        OBVIOUS
      <4> QED BY <3>9, <4>1, <4>2
    <3> QED BY <3>2, <3>7, <3>8, <3>9, <3>10 DEF Showing, more
  <2>6. CASE CopyWrites(a)
    <3> DEFINE held == bridge[a].held
               shown == bridge[a].shown
    <3>1. bridge'[a] = [bridge[a] EXCEPT !.shown = shown \o held, !.held = <<>>]
      BY <1>1, <2>6 DEF CopyWrites
    <3>2. /\ bridge'[a].shown = shown \o held /\ bridge'[a].held = <<>>
          /\ bridge'[a].read = bridge[a].read /\ bridge'[a].phase = bridge[a].phase
      BY <1>3, <3>1 DEF States
    <3>3. /\ held \in Seq(Nat) /\ Len(held) \in Nat /\ shown \in Seq(Nat)
          /\ Len(shown) \in Nat /\ bridge[a].read \in Nat
      BY <1>3 DEF States
    <3>4. /\ Copies(a) /\ Counts(held, Len(shown)) /\ Counts(shown, 0)
          /\ Len(shown) + Len(held) = bridge[a].read
      BY <1>3, <2>6 DEF CopyWrites, Showing
    <3>5. /\ Len(shown \o held) = Len(shown) + Len(held)
          /\ \A k \in 1..Len(shown) : (shown \o held)[k] = shown[k]
          /\ \A k \in 1..Len(held) : (shown \o held)[Len(shown) + k] = held[k]
      <4> HIDE DEF shown, held
      <4> QED BY <3>3
    <3>6. Counts(shown \o held, 0)
      <4> HIDE DEF held, shown
      <4> SUFFICES ASSUME NEW k \in 1..(Len(shown) + Len(held))
                   PROVE  (shown \o held)[k] = k
        BY <3>3, <3>5 DEF Counts
      <4>1. CASE k <= Len(shown)
        BY <3>3, <3>4, <3>5, <4>1 DEF Counts
      <4>2. CASE k > Len(shown)
        <5> DEFINE j == k - Len(shown)
        <5>1. j \in 1..Len(held) /\ k = Len(shown) + j
          BY <3>3, <4>2
        <5> HIDE DEF j
        <5> QED BY <3>4, <3>5, <5>1 DEF Counts
      <4> QED BY <3>3, <4>1, <4>2
    <3> HIDE DEF held, shown
    <3> QED BY <1>3, <2>1, <3>2, <3>3, <3>4, <3>5, <3>6 DEF Showing, Copies, Counts
  <2> QED BY <1>11, <2>2, <2>3, <2>4, <2>5, <2>6 DEF Works
<1>12. CASE \E b \in Bridges \ {a} : Peer(b) \/ Start(b) \/ GoesSomehow(b) \/ Works(b)
  <2>1. PICK b \in Bridges \ {a} : Peer(b) \/ Start(b) \/ GoesSomehow(b) \/ Works(b)
    BY <1>12
  <2>2. CASE Peer(b)
    BY <1>1, <1>5, <2>2 DEF Peer, PeerSays, PeerCloses, StdioShape
  <2>3. CASE Start(b)
    BY <1>1, <1>5, <2>3 DEF Start
  <2>4. CASE GoesSomehow(b)
    BY <1>1, <1>5, <2>4, GoesWith DEF Goes
  <2>5. CASE Works(b)
    BY <1>1, <1>5, <2>5
       DEF Works, Enter, Receive, WriteChunk, HalfClose, CopyReads, CopyWrites
  <2> QED BY <2>1, <2>2, <2>3, <2>4, <2>5
<1>13. CASE Type \/ CloseStdin \/ Thread \/ UNCHANGED stdioVars
  BY <1>5, <1>13 DEF Type, CloseStdin, Thread, ThreadReads, ThreadEnds, ThreadSends, stdioVars
<1> QED
  BY <1>6, <1>7, <1>9, <1>10, <1>11, <1>12, <1>13
     DEF StdioNext, Peer, Upstream, Downstream, GoesSomehow, Works

LEMMA ShownIsSaid ==
  ASSUME StdioTypeOK, ShownWhole
  PROVE  NothingSkippedWhileOpen
<1> SUFFICES ASSUME stdin.end = "open", NEW b \in Bridges
             PROVE  /\ IsPrefix(bridge[b].shown, Said(b))
                    /\ bridge[b].phase = "done" => bridge[b].shown = Said(b)
  BY DEF NothingSkippedWhileOpen
<1> DEFINE shown == bridge[b].shown
           said == peer[b].said
<1>1. /\ shown \in Seq(Nat) /\ Len(shown) \in Nat /\ bridge[b].held \in Seq(Nat)
      /\ bridge[b].read \in Nat /\ bridge[b].read <= said /\ said \in Nat
  BY StdioParts, StdioAssumption DEF StdioShape, Bounds, States
<1>2. Showing(b)
  BY DEF ShownWhole
<1>3. Len(shown) <= said /\ Counts(shown, 0)
  <2>1. Len(bridge[b].held) \in Nat
    BY <1>1
  <2>2. PICK m \in Nat, n \in Nat, k \in Nat :
          m = Len(shown) /\ n = Len(bridge[b].held) /\ k = bridge[b].read
    BY <1>1, <2>1
  <2>3. m + n <= k /\ Counts(shown, 0)
    BY <1>2, <2>2 DEF Showing
  <2>4. PICK j \in Nat : j = said /\ k <= j
    BY <1>1, <2>2
  <2>5. m <= j
    BY <2>3, <2>4
  <2> QED BY <2>2, <2>3, <2>4, <2>5
<1>4. Said(b) \in Seq(Nat) /\ Len(Said(b)) = said /\ \A k \in 1..said : Said(b)[k] = k
  BY <1>1 DEF Said
<1> HIDE DEF shown, said
<1>5. \A k \in 1..Len(shown) : shown[k] = k
  BY <1>1, <1>3 DEF Counts
<1>6. SubSeq(shown, 1, Len(shown)) = SubSeq(Said(b), 1, Len(shown))
  <2> DEFINE s == SubSeq(shown, 1, Len(shown))
             t == SubSeq(Said(b), 1, Len(shown))
  <2>1. s \in Seq(Nat) /\ Len(s) = Len(shown) /\ \A k \in 1..Len(shown) : s[k] = k
    BY <1>1, <1>5
  <2>2. t \in Seq(Nat) /\ Len(t) = Len(shown) /\ \A k \in 1..Len(shown) : t[k] = k
    BY <1>1, <1>3, <1>4
  <2> HIDE DEF s, t
  <2>3. s = t
    BY <1>1, <2>1, <2>2
  <2> QED BY <2>3 DEF s, t
<1>7. bridge[b].phase = "done" => shown = Said(b)
  <2>1. bridge[b].phase = "done" => Len(shown) = said
    BY <1>2 DEF Showing, shown, said
  <2> QED BY <1>1, <1>4, <1>5, <2>1
<1> QED BY <1>3, <1>4, <1>6, <1>7 DEF IsPrefix, shown
-----------------------------------------------------------------------------
LEMMA StdioStarts == StdioInit => SInv
<1> SUFFICES ASSUME StdioInit
             PROVE  SInv
  OBVIOUS
<1> USE StdioAssumption DEF StdioInit
<1>1. \A b \in Bridges : bridge[b] = Fresh /\ peer[b] = Quiet
  OBVIOUS
<1>2. Fresh \in States
  BY HandIs DEF Fresh, States, Phases
<1>3. StdioShape
  BY <1>2, HandIs DEF StdioShape, Quiet
<1>4. Line
  <2>1. Range(lock) = {} /\ IsInjective(lock)
    BY DEF Range, IsInjective
  <2> QED BY <1>1, <2>1 DEF Line, Reached, Fresh
<1>5. Bounds /\ Runs
  BY <1>1 DEF Bounds, Runs, Pumps, Copies, Fresh, Quiet
<1>6. InHand = {} /\ InChannel = {} /\ InThread = {} /\ \A b \in Bridges : Given(b) = {}
  <2>1. Range(<<>>) = {}
    BY DEF Range
  <2> HIDE DEF Range
  <2> QED BY <1>1, <2>1 DEF InHand, InChannel, InThread, Given, Fresh
<1>7. InputInv
  <2>1. 1..thread.taken = {} /\ spent = {}
    OBVIOUS
  <2>2. \A b \in Bridges : bridge[b].got = <<>>
    BY <1>1 DEF Fresh
  <2>3. InputIsKept
    BY <1>6, <2>1, <2>2 DEF InputIsKept, InFlight, Ahead
  <2> QED BY <1>1, <1>6, <2>3 DEF InputInv, InOrder, NeverSplit, Newest, Ahead
<1>8. Unstarted /\ StillOpen
  BY <1>1 DEF Unstarted, StillOpen, Fresh
<1>9. ShownWhole
  <2>1. \A b \in Bridges : /\ bridge[b].shown = <<>> /\ bridge[b].held = <<>>
                          /\ bridge[b].read = 0 /\ bridge[b].phase = "idle"
    BY <1>1 DEF Fresh
  <2>2. Counts(<<>>, 0)
    BY DEF Counts
  <2>3. 0 + 0 <= 0 /\ Len(<<>>) = 0
    OBVIOUS
  <2> SUFFICES ASSUME NEW b \in Bridges
               PROVE  Showing(b)
    BY DEF ShownWhole
  <2>4. bridge[b].phase # "done" /\ ~Copies(b)
    BY <2>1 DEF Copies
  <2>5. Len(bridge[b].shown) + Len(bridge[b].held) <= bridge[b].read
    <3>1. Len(bridge[b].shown) = 0 /\ Len(bridge[b].held) = 0 /\ bridge[b].read = 0
      BY <2>1, <2>3
    <3> QED BY <2>3, <3>1
  <2> QED BY <2>1, <2>2, <2>4, <2>5 DEF Showing
<1> QED BY <1>3, <1>4, <1>5, <1>7, <1>8, <1>9, StdioParts DEF SInv

LEMMA StdioHolds == SInv /\ [StdioNext]_stdioVars => SInv'
<1> SUFFICES ASSUME SInv, [StdioNext]_stdioVars
             PROVE  SInv'
  OBVIOUS
<1>1. StdioTypeOK /\ Unstarted /\ InputInv /\ StillOpen /\ ShownWhole
  BY DEF SInv
<1>2. StdioTypeOK'
  BY <1>1, TypeHolds DEF InputInv
<1>3. Unstarted' /\ StillOpen'
  BY <1>1, UnstartedHolds, StillOpenHolds
<1>4. InputInv'
  BY <1>1, <1>2, InputHolds
<1>5. ShownWhole'
  BY <1>1, <1>2, <1>3, ShowingHolds
<1> QED BY <1>2, <1>3, <1>4, <1>5 DEF SInv

(***************************************************************************)
(* Whatever bridges come, run and go, each chunk of stdin goes to one      *)
(* peer, once and in order, and while stdin is open stdout is shown all    *)
(* that was said: stdin_chunks and pipe_stdio_bridge.                      *)
(***************************************************************************)
THEOREM BridgesKeepTheirBytes == StdioSpec => []BytesKeepToTheirBridge
<1>1. SInv => BytesKeepToTheirBridge
  BY ShownIsSaid DEF SInv, InputInv, BytesKeepToTheirBridge, OneTaker
<1> QED BY <1>1, StdioStarts, StdioHolds, PTL DEF StdioSpec
=============================================================================
