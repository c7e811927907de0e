------------------------------- MODULE Fanout -------------------------------
(***************************************************************************)
(* One session of a lossy source: the shared ring, the pump task and the   *)
(* cursors of src/raw_stream_fanout.rs.                                    *)
(*                                                                         *)
(* The pump is a task of its own and shares the ring, the lifecycle and a  *)
(* Notify with every cursor, each behind its own lock: a step here is what *)
(* runs between two of those locks, so a cursor that polls and a pump that *)
(* appends interleave as two threads would make them.  A byte is its place *)
(* in the source, counted from 0.                                          *)
(***************************************************************************)
EXTENDS Integers, Sequences, FiniteSets

CONSTANTS
  Viewers,     \* the consumers that come and go
  RingBytes,   \* RING_BYTES
  PumpChunk,   \* PUMP_CHUNK
  \* Bound:
  MaxBytes     \* how many bytes the source gives

ASSUME FanoutAssumption ==
  /\ IsFiniteSet(Viewers)
  /\ RingBytes \in Nat \ {0}
  /\ PumpChunk \in Nat \ {0}
  /\ MaxBytes \in Nat

VARIABLES
  untilEof,  \* the pump's Lifetime, UntilEof or WhileWatched: fixed at the start
  pump,      \* where the pump task is
  ring,      \* Ring
  life,      \* Life: the consumer count, and who holds its lock inside open
  cursor,    \* each viewer's Cursor
  fed,       \* history: how many bytes were appended
  ended      \* history: whether the source gave its end

vars == <<untilEof, pump, ring, life, cursor, fed, ended>>

PumpPlaces == {"armed", "top", "reading", "notify", "leaving", "dropped",
               "announce", "done"}

\* `parked` is the cursor's Notified: absent, registered, or fired.  `from`
\* and `seen` are history: where it joined and the bytes it was given.
Out == [at |-> "out", pos |-> 0, parked |-> "none", from |-> 0, seen |-> {}]

Places == {"out", "ready", "again", "inspect", "recheck", "pending", "ended"}

Init ==
  /\ untilEof \in BOOLEAN
  /\ pump = "armed"
  /\ ring = [buf |-> <<>>, base |-> 0, closed |-> FALSE]
  /\ life = [consumers |-> 0, joining |-> {}]
  /\ cursor = [v \in Viewers |-> Out]
  /\ fed = 0
  /\ ended = FALSE
-----------------------------------------------------------------------------
(* The ring *)

Edge == ring.base + Len(ring.buf)

\* What of n bytes does not fit the ring.
Surplus(n) == IF n > RingBytes THEN n - RingBytes ELSE 0

Evicted(bytes) ==
  LET surplus == Surplus(Len(ring.buf) + Len(bytes))
  IN  IF surplus < Len(ring.buf) THEN surplus ELSE Len(ring.buf)

\* Mutant: the bytes of an append that never reach the ring are not counted.
AppendedUncounted(bytes) ==
  LET out  == Evicted(bytes)
      skip == Surplus(Len(ring.buf) + Len(bytes)) - out
  IN  [ring EXCEPT !.buf  = SubSeq(@, out + 1, Len(@)) \o SubSeq(bytes, skip + 1, Len(bytes)),
                   !.base = @ + out]

\* Ring::append: the oldest bytes go first, then the head of an append
\* longer than the whole ring; both move the base.
Appended(bytes) ==
  LET out  == Evicted(bytes)
      skip == Surplus(Len(ring.buf) + Len(bytes)) - out
  IN  [ring EXCEPT !.buf  = SubSeq(@, out + 1, Len(@)) \o SubSeq(bytes, skip + 1, Len(bytes)),
                   !.base = @ + out + skip]
-----------------------------------------------------------------------------
(* The pump *)

\* Mutant: the last viewer but one ends the session.
ReleasedEarly == ~untilEof /\ life.consumers <= 1

\* Life::released.
Released == ~untilEof /\ life.consumers = 0

PumpTop ==
  /\ pump = "top"
  /\ life.joining = {}
  /\ pump' = IF Released THEN "leaving" ELSE "reading"
  /\ UNCHANGED <<untilEof, ring, life, cursor, fed, ended>>

PumpRead(n) ==
  /\ pump = "reading"
  /\ fed + n <= MaxBytes
  /\ ring' = Appended([k \in 1..n |-> fed + k - 1])
  /\ fed' = fed + n
  /\ pump' = "notify"
  /\ UNCHANGED <<untilEof, life, cursor, ended>>

\* The read gives end of input, or fails.
PumpEnd ==
  /\ pump = "reading"
  /\ pump' = "leaving"
  /\ ended' = TRUE
  /\ UNCHANGED <<untilEof, ring, life, cursor, fed>>

\* The source is dropped before the ring is closed.
PumpDrop ==
  /\ pump = "leaving"
  /\ pump' = "dropped"
  /\ UNCHANGED <<untilEof, ring, life, cursor, fed, ended>>

PumpClose ==
  /\ pump = "dropped"
  /\ ring' = [ring EXCEPT !.closed = TRUE]
  /\ pump' = "announce"
  /\ UNCHANGED <<untilEof, life, cursor, fed, ended>>

\* Notify::notify_waiters: the registered are woken, and no permit is left.
PumpNotify ==
  /\ pump \in {"notify", "announce"}
  /\ cursor' = [v \in Viewers |->
                  IF cursor[v].parked = "armed"
                  THEN [cursor[v] EXCEPT !.parked = "woken"] ELSE cursor[v]]
  /\ pump' = IF pump = "notify" THEN "top" ELSE "done"
  /\ UNCHANGED <<untilEof, ring, life, fed, ended>>
-----------------------------------------------------------------------------
(* Attaching and leaving *)

\* Fanout::open, holding the lifecycle's lock: the first consumer starts the
\* pump, a later one is refused once the ring is closed.
OpenBegin(v) ==
  /\ cursor[v].at = "out"
  /\ life.joining = {}
  /\ ~ring.closed
  /\ life' = [life EXCEPT !.joining = {v}]
  /\ pump' = IF pump = "armed" THEN "top" ELSE pump
  /\ UNCHANGED <<untilEof, ring, cursor, fed, ended>>

\* Mutant: a late joiner is given the history still in the ring.
AttachAtBase(v) ==
  /\ life.joining = {v}
  /\ life' = [consumers |-> life.consumers + 1, joining |-> {}]
  /\ cursor' = [cursor EXCEPT ![v] = [Out EXCEPT !.at = "ready", !.pos = ring.base,
                                                 !.from = ring.base]]
  /\ UNCHANGED <<untilEof, pump, ring, fed, ended>>

\* The cursor starts at the live edge; the ring's lock was released in
\* between, so the pump may have appended, or closed.
OpenAttach(v) ==
  /\ life.joining = {v}
  /\ life' = [consumers |-> life.consumers + 1, joining |-> {}]
  /\ cursor' = [cursor EXCEPT ![v] = [Out EXCEPT !.at = "ready", !.pos = Edge,
                                                 !.from = Edge]]
  /\ UNCHANGED <<untilEof, pump, ring, fed, ended>>

Leave(v) ==
  /\ cursor[v].at \in {"ready", "pending", "ended"}
  /\ life.joining = {}
  /\ life' = [life EXCEPT !.consumers = @ - 1]
  /\ cursor' = [cursor EXCEPT ![v] = Out]
  /\ UNCHANGED <<untilEof, pump, ring, fed, ended>>
-----------------------------------------------------------------------------
(* Cursor::poll_read *)

\* Interest first: the Notified is made or kept, and polled.  A pending
\* reader is polled when its wake fires, or because its task is.
Register(v) ==
  /\ cursor[v].at \in {"ready", "again", "pending"}
  /\ cursor' = [cursor EXCEPT
       ![v].at     = IF cursor[v].parked = "woken" THEN "recheck" ELSE "inspect",
       ![v].parked = IF cursor[v].parked = "woken" THEN "none" ELSE "armed"]
  /\ UNCHANGED <<untilEof, pump, ring, life, fed, ended>>

Inspecting(v) == cursor[v].at \in {"inspect", "recheck"}

\* Mutant: a reader that fell behind is moved past bytes the ring still has.
ForwardToHead(v) == IF cursor[v].pos < ring.base THEN Edge - 1 ELSE cursor[v].pos

\* Drop-for-slow: a reader behind the base is moved up to it.
Forward(v) == IF cursor[v].pos < ring.base THEN ring.base ELSE cursor[v].pos

\* Bytes are there: as many as fit the caller's buffer are copied.
Reads(v, n) ==
  LET start == Forward(v) - ring.base
  IN  /\ Inspecting(v)
      /\ n <= Len(ring.buf) - start
      /\ cursor' = [cursor EXCEPT
           ![v].at     = "ready",
           ![v].pos    = Forward(v) + n,
           ![v].parked = "none",
           ![v].seen   = @ \cup {ring.buf[start + k] : k \in 1..n}]
      /\ UNCHANGED <<untilEof, pump, ring, life, fed, ended>>

\* Caught up, and the source has ended: an empty read.
ReadsEnd(v) ==
  /\ Inspecting(v)
  /\ Forward(v) = Edge
  /\ ring.closed
  /\ cursor' = [cursor EXCEPT ![v].at = "ended", ![v].pos = Edge, ![v].parked = "none"]
  /\ UNCHANGED <<untilEof, pump, ring, life, fed, ended>>

\* Mutant: the Notified is dropped on every Pending.
RestsUnregistered(v) ==
  cursor' = [cursor EXCEPT ![v].at = IF @ = "recheck" THEN "again" ELSE "pending",
                           ![v].pos = Edge, ![v].parked = "none"]

\* A wake that had fired already is absorbed: register and look again.
Rests(v) ==
  cursor' = [cursor EXCEPT ![v].at = IF @ = "recheck" THEN "again" ELSE "pending",
                           ![v].pos = Edge]

CaughtUp(v) ==
  /\ Inspecting(v)
  /\ Forward(v) = Edge
  /\ ~ring.closed
  /\ Rests(v)
  /\ UNCHANGED <<untilEof, pump, ring, life, fed, ended>>
-----------------------------------------------------------------------------
Pump ==
  \/ PumpTop \/ PumpEnd \/ PumpDrop \/ PumpClose \/ PumpNotify
  \/ \E n \in 1..PumpChunk : PumpRead(n)

Inspect(v) == (\E n \in 1..RingBytes : Reads(v, n)) \/ ReadsEnd(v) \/ CaughtUp(v)

Viewer(v) ==
  OpenBegin(v) \/ OpenAttach(v) \/ Leave(v) \/ Register(v) \/ Inspect(v)

Next == Pump \/ \E v \in Viewers : Viewer(v)

Spec == Init /\ [][Next]_vars
-----------------------------------------------------------------------------
(* Properties *)

Attached == {v \in Viewers : cursor[v].at # "out"}

\* The type invariant: the shape of the ring, the lifecycle and the cursors.
TypeOK ==
  /\ untilEof \in BOOLEAN
  /\ pump \in PumpPlaces
  /\ ring \in [buf : Seq(Nat), base : Nat, closed : BOOLEAN]
  /\ life.consumers \in Nat
  /\ life.joining \in {{}} \cup {{v} : v \in Viewers \ Attached}
  /\ cursor \in [Viewers -> [at : Places, pos : Nat, parked : {"none", "armed", "woken"},
                             from : Nat, seen : SUBSET Nat]]
  /\ fed \in Nat
  /\ ended \in BOOLEAN

(***************************************************************************)
(* "buf[0] is always the byte at absolute offset base" (Ring::append), and *)
(* the ring is never over its ceiling, whatever an append's length: a      *)
(* cursor's place can never be misread as inside the window.  TypeOK is    *)
(* the shapes this speaks of.                                              *)
(***************************************************************************)
RingAligned ==
  /\ TypeOK
  /\ Len(ring.buf) <= RingBytes
  /\ Edge = fed
  /\ \A k \in DOMAIN ring.buf : ring.buf[k] = ring.base + k - 1

(***************************************************************************)
(* A viewer loses only what the ring evicted while it was slow: every byte *)
(* between where it joined and where it is was given to it, or is gone     *)
(* from the ring, whose bytes are where its offsets say (RingAligned).  It *)
(* hears the end only with nothing left to read.                           *)
(***************************************************************************)
GapsAreEvicted ==
  /\ RingAligned
  /\ \A v \in Attached :
       /\ cursor[v].seen \subseteq cursor[v].from..(cursor[v].pos - 1)
       /\ \A b \in cursor[v].from..(cursor[v].pos - 1) :
            b \notin cursor[v].seen => b < ring.base
       /\ cursor[v].at = "ended" => ring.closed /\ cursor[v].pos = fed

(***************************************************************************)
(* The park is free of lost wakes ("any append/close after this point is   *)
(* guaranteed to wake us"): a reader that rests with bytes, or an end, it  *)
(* has not looked at either was woken or is registered with a pump that is *)
(* about to wake everyone.                                                 *)
(***************************************************************************)
NobodySleepsThrough ==
  \A v \in Viewers :
    /\ cursor[v].at = "pending"
    /\ cursor[v].pos < Edge \/ ring.closed
    => \/ cursor[v].parked = "woken"
       \/ cursor[v].parked = "armed" /\ pump \in {"notify", "announce"}

(***************************************************************************)
(* A pump lets go of its source at end of input, and before it only under  *)
(* WhileWatched and for want of viewers, whom it counts right: whoever is  *)
(* attached then joined after the decision, at an edge that never moves    *)
(* again.                                                                  *)
(***************************************************************************)
OnlyTheUnwatchedAreLetGo ==
  /\ life.consumers = Cardinality(Attached)
  /\ pump \in {"leaving", "dropped", "announce", "done"} /\ ~ended =>
       /\ ~untilEof
       /\ \A v \in Attached : cursor[v].from = fed /\ cursor[v].seen = {}

\* The session as the feed it stands for.
Feed == INSTANCE Broadcast WITH
  over  <- ring.closed,
  place <- [v \in Viewers |-> IF cursor[v].at = "out" THEN -1 ELSE cursor[v].pos]

\* The ring, the pump and the cursors implement the feed a viewer is promised.
ImplementsFeed == Feed!Spec
=============================================================================
