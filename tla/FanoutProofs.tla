---------------------------- MODULE FanoutProofs ----------------------------
(***************************************************************************)
(* Proofs about one session of a lossy source, for any viewers, any size   *)
(* of the ring and of the pump's reads, and a source of any length.        *)
(***************************************************************************)
EXTENDS Fanout, FiniteSetTheorems, TLAPS

Cursors == [at : Places, pos : Nat, parked : {"none", "armed", "woken"},
            from : Nat, seen : SUBSET Nat]

Leaving == {"leaving", "dropped", "announce", "done"}

\* A viewer is between where it joined and the live edge.
Inside == \A v \in Attached : cursor[v].from <= cursor[v].pos /\ cursor[v].pos <= Edge

\* A reader that looks, or rests, after it registered is registered or woken.
Registered ==
  \A v \in Viewers : cursor[v].at \in {"inspect", "pending"} => cursor[v].parked # "none"

\* The ring is closed by a pump that will not read again.
ClosedLast == ring.closed => pump \in {"announce", "done"}

(***************************************************************************)
(* The inductive invariant: the three invariants of the run, and what they *)
(* rest on.  Who is attached must be counted right before the count can    *)
(* say that nobody is.                                                     *)
(***************************************************************************)
IInv ==
  /\ GapsAreEvicted /\ NobodySleepsThrough /\ OnlyTheUnwatchedAreLetGo
  /\ Inside /\ Registered /\ ClosedLast
-----------------------------------------------------------------------------
(* The ring *)

\* How many of the old bytes an append lets go of, and how many of the new.
OutOf(held, n) == IF Surplus(held + n) < held THEN Surplus(held + n) ELSE held

SkipOf(held, n) == Surplus(held + n) - OutOf(held, n)

\* They make room for the rest, and a new byte goes only after all the old.
LEMMA AppendSizes ==
  ASSUME NEW held \in Nat, held <= RingBytes, NEW n \in Nat
  PROVE  /\ OutOf(held, n) \in Nat /\ SkipOf(held, n) \in Nat
         /\ OutOf(held, n) \in 0..held /\ SkipOf(held, n) \in 0..n
         /\ SkipOf(held, n) > 0 => OutOf(held, n) = held
         /\ (held - OutOf(held, n)) + (n - SkipOf(held, n)) <= RingBytes
<1>1. PICK size \in Nat : size = RingBytes
  BY FanoutAssumption
<1>2. PICK surplus \in Nat : surplus = IF held + n > size THEN held + n - size ELSE 0
  <2>1. (IF held + n > size THEN held + n - size ELSE 0) \in Nat
    OBVIOUS
  <2> QED BY <2>1
<1>3. surplus = Surplus(held + n)
  BY <1>1, <1>2 DEF Surplus
<1>4. PICK out \in Nat : out = IF surplus < held THEN surplus ELSE held
  OBVIOUS
<1>5. PICK skip \in Nat : skip = surplus - out
  BY <1>4
<1>6. /\ out <= held /\ skip <= n
      /\ skip > 0 => out = held
      /\ (held - out) + (n - skip) <= size
  BY <1>1, <1>2, <1>4, <1>5
<1>7. out = OutOf(held, n) /\ skip = SkipOf(held, n)
  BY <1>3, <1>4, <1>5 DEF OutOf, SkipOf
<1>8. out \in 0..held /\ skip \in 0..n
  BY <1>6
<1> QED BY <1>1, <1>6, <1>7, <1>8

\* `size` bytes of the source in a row, from the one at `start`.
IsStretch(s, start, size) ==
  /\ s \in Seq(Nat) /\ Len(s) = size
  /\ \A k \in 1..size : s[k] = start + k - 1

\* The tail of a stretch is one that starts later.
LEMMA TailStretch ==
  ASSUME NEW s, NEW start \in Nat, NEW size \in Nat, IsStretch(s, start, size),
         NEW m \in 0..size
  PROVE  IsStretch(SubSeq(s, m + 1, Len(s)), start + m, size - m)
<1>1. /\ s \in Seq(Nat) /\ Len(s) = size
      /\ \A k \in 1..size : s[k] = start + k - 1
  BY DEF IsStretch
<1>2. PICK t : t = SubSeq(s, m + 1, Len(s))
  OBVIOUS
<1>3. t \in Seq(Nat) /\ Len(t) = size - m
  BY <1>1, <1>2
<1>4. ASSUME NEW k \in 1..(size - m)
      PROVE  t[k] = s[m + k]
  BY <1>1, <1>2, <1>4
<1>5. ASSUME NEW k \in 1..(size - m)
      PROVE  s[m + k] = (start + m) + k - 1
  BY <1>1, <1>5
<1> QED BY <1>2, <1>3, <1>4, <1>5 DEF IsStretch

\* Two stretches of the source that follow each other are one.
LEMMA Joined ==
  ASSUME NEW old \in Seq(Nat), NEW new \in Seq(Nat), NEW start \in Nat,
         NEW a \in Nat, NEW b \in Nat,
         IsStretch(old, start, a), IsStretch(new, start + a, b)
  PROVE  IsStretch(old \o new, start, a + b)
<1>1. /\ old \in Seq(Nat) /\ Len(old) = a /\ new \in Seq(Nat) /\ Len(new) = b
      /\ \A k \in 1..a : old[k] = start + k - 1
      /\ \A k \in 1..b : new[k] = (start + a) + k - 1
  BY DEF IsStretch
<1>2. old \o new \in Seq(Nat) /\ Len(old \o new) = a + b
  <2>1. old \o new \in Seq(Nat) /\ Len(old \o new) = Len(old) + Len(new)
    OBVIOUS
  <2> QED BY <1>1, <2>1
<1>3. ASSUME NEW k \in 1..(a + b)
      PROVE  (old \o new)[k] = start + k - 1
  <2>1. CASE k <= a
    BY <1>1, <1>3, <2>1
  <2>2. CASE k > a
    <3>1. (old \o new)[k] = new[k - a] /\ k - a \in 1..b
      BY <1>1, <1>3, <2>2
    <3> QED BY <1>1, <3>1
  <2> QED BY <1>1, <2>1, <2>2
<1> QED BY <1>2, <1>3 DEF IsStretch

\* The ring's bytes after an append that let go of `out` old ones and `skip`
\* new ones.
Kept(buf, bytes, out, skip) ==
  SubSeq(buf, out + 1, Len(buf)) \o SubSeq(bytes, skip + 1, Len(bytes))

(***************************************************************************)
(* What is kept of the old bytes, before what is kept of the new ones, is  *)
(* a stretch of the source: new bytes are only let go of after all old.    *)
(***************************************************************************)
LEMMA Stretch ==
  ASSUME NEW buf, NEW base \in Nat, NEW held \in Nat, IsStretch(buf, base, held),
         NEW bytes, NEW n \in Nat, IsStretch(bytes, base + held, n),
         NEW out \in 0..held, NEW skip \in 0..n, skip > 0 => out = held
  PROVE  IsStretch(Kept(buf, bytes, out, skip), base + out + skip,
                   (held - out) + (n - skip))
<1> DEFINE old == SubSeq(buf, out + 1, Len(buf))
           new == SubSeq(bytes, skip + 1, Len(bytes))
<1>1. IsStretch(old, base + out, held - out)
  BY TailStretch
<1>2. IsStretch(new, (base + held) + skip, n - skip)
  BY TailStretch
<1> HIDE DEF old, new
<1>3. IsStretch(old, base + out + skip, held - out)
  <2>1. CASE skip = 0
    BY <1>1, <2>1
  <2>2. CASE out = held
    BY <1>1, <2>2 DEF IsStretch
  <2> QED BY <2>1, <2>2
<1>4. (base + held) + skip = (base + out + skip) + (held - out)
  OBVIOUS
<1>5. IsStretch(old \o new, base + out + skip, (held - out) + (n - skip))
  <2>1. base + out + skip \in Nat /\ held - out \in Nat /\ n - skip \in Nat
    OBVIOUS
  <2>2. old \in Seq(Nat) /\ new \in Seq(Nat)
    BY <1>2, <1>3 DEF IsStretch
  <2> QED BY <1>2, <1>3, <1>4, <2>1, <2>2, Joined
<1> QED BY <1>5 DEF Kept, old, new

(***************************************************************************)
(* Ring::append keeps buf[0] at the byte the base counts, whatever the     *)
(* lengths of the append, of what is in the ring and of the ring: it lets  *)
(* go of old bytes first, and of new ones only when none are left.         *)
(***************************************************************************)
LEMMA AppendAligned ==
  ASSUME RingAligned, NEW n \in Nat \ {0}, NEW bytes,
         bytes = [k \in 1..n |-> fed + k - 1], ring' = Appended(bytes), fed' = fed + n
  PROVE  /\ ring' \in [buf : Seq(Nat), base : Nat, closed : BOOLEAN]
         /\ Len(ring'.buf) <= RingBytes
         /\ Edge' = fed'
         /\ \A k \in DOMAIN ring'.buf : ring'.buf[k] = ring'.base + k - 1
         /\ ring.base <= ring'.base
         /\ ring'.closed = ring.closed
<1>1. PICK buf \in Seq(Nat), base \in Nat, held \in Nat, closed \in BOOLEAN :
        /\ ring = [buf |-> buf, base |-> base, closed |-> closed]
        /\ held = Len(buf) /\ held <= RingBytes /\ base + held = fed
        /\ IsStretch(buf, base, held)
  <2>1. /\ ring \in [buf : Seq(Nat), base : Nat, closed : BOOLEAN]
        /\ Len(ring.buf) <= RingBytes /\ ring.base + Len(ring.buf) = fed
        /\ \A k \in DOMAIN ring.buf : ring.buf[k] = ring.base + k - 1
    BY DEF RingAligned, TypeOK, Edge
  <2>2. /\ ring.buf \in Seq(Nat) /\ ring.base \in Nat /\ ring.closed \in BOOLEAN
        /\ Len(ring.buf) \in Nat /\ DOMAIN ring.buf = 1..Len(ring.buf)
        /\ ring = [buf |-> ring.buf, base |-> ring.base, closed |-> ring.closed]
    BY <2>1
  <2>3. IsStretch(ring.buf, ring.base, Len(ring.buf))
    BY <2>1, <2>2 DEF IsStretch
  <2> QED BY <2>1, <2>2, <2>3
<1>2. Len(bytes) = n /\ IsStretch(bytes, base + held, n)
  BY <1>1 DEF IsStretch
<1>3. PICK out \in Nat : out = OutOf(held, n)
  BY <1>1, AppendSizes
<1>4. PICK skip \in Nat : skip = SkipOf(held, n)
  BY <1>1, AppendSizes
<1>5. PICK ceiling \in Nat : ceiling = RingBytes
  BY FanoutAssumption
<1>6. /\ out \in 0..held /\ skip \in 0..n
      /\ skip > 0 => out = held
      /\ (held - out) + (n - skip) <= ceiling
  BY <1>1, <1>3, <1>4, <1>5, AppendSizes
<1>7. PICK start \in Nat, size \in Nat :
        start = base + out + skip /\ size = (held - out) + (n - skip)
  <2>1. base + out + skip \in Nat /\ (held - out) + (n - skip) \in Nat
    BY <1>6
  <2> QED BY <2>1
<1>8. PICK kept : kept = Kept(buf, bytes, out, skip) /\ IsStretch(kept, start, size)
  <2>1. IsStretch(Kept(buf, bytes, out, skip), base + out + skip, (held - out) + (n - skip))
    BY <1>1, <1>2, <1>6, Stretch
  <2> QED BY <1>7, <2>1
<1>9. ring.buf = buf /\ ring.base = base /\ ring.closed = closed
  BY <1>1
<1>10. ring' = [buf |-> kept, base |-> start, closed |-> closed]
  <2>1. Evicted(bytes) = out /\ Surplus(Len(ring.buf) + Len(bytes)) - out = skip
    BY <1>1, <1>2, <1>3, <1>4, <1>9 DEF Evicted, OutOf, SkipOf
  <2> QED BY <1>1, <1>7, <1>8, <1>9, <2>1 DEF Appended, Kept
<1>11. ring'.buf = kept /\ ring'.base = start /\ ring'.closed = closed
  BY <1>10
<1>12. /\ kept \in Seq(Nat) /\ Len(kept) = size /\ DOMAIN kept = 1..size
       /\ \A k \in 1..size : kept[k] = start + k - 1
  <2>1. /\ kept \in Seq(Nat) /\ Len(kept) = size
        /\ \A k \in 1..size : kept[k] = start + k - 1
    BY <1>8 DEF IsStretch
  <2> QED BY <2>1
<1>13. base <= start /\ size <= ceiling /\ start + size = base + held + n
  BY <1>6, <1>7
<1>14. start + Len(kept) = fed'
  BY <1>1, <1>12, <1>13
<1> QED BY <1>5, <1>9, <1>10, <1>11, <1>12, <1>13, <1>14 DEF Edge
-----------------------------------------------------------------------------
(* The inductive invariant *)

\* What every step may use of the state's shape.
LEMMA Shapes ==
  ASSUME IInv
  PROVE  /\ TypeOK /\ RingAligned /\ cursor \in [Viewers -> Cursors]
         /\ ring \in [buf : Seq(Nat), base : Nat, closed : BOOLEAN]
         /\ Len(ring.buf) \in Nat /\ ring.base \in Nat /\ fed \in Nat
         /\ Edge = fed /\ ring.base <= fed /\ Edge = ring.base + Len(ring.buf)
         /\ IsFiniteSet(Attached)
<1>1. RingAligned /\ TypeOK
  BY DEF IInv, GapsAreEvicted, RingAligned
<1>2. /\ cursor \in [Viewers -> Cursors]
      /\ ring \in [buf : Seq(Nat), base : Nat, closed : BOOLEAN] /\ fed \in Nat
  BY <1>1 DEF TypeOK, Cursors
<1>3. Len(ring.buf) \in Nat /\ ring.base \in Nat
  BY <1>2
<1>4. Edge = fed /\ Edge = ring.base + Len(ring.buf)
  BY <1>1 DEF RingAligned, Edge
<1>5. IsFiniteSet(Attached)
  BY FanoutAssumption, FS_Subset DEF Attached
<1> QED BY <1>1, <1>2, <1>3, <1>4, <1>5

LEMMA InitHolds == Init => IInv
<1> SUFFICES ASSUME Init PROVE IInv
  OBVIOUS
<1>1. Attached = {}
  BY DEF Init, Attached, Out
<1>2. Cardinality(Attached) = 0
  BY <1>1, FS_EmptySet
<1>3. ring.buf = <<>> /\ Len(ring.buf) = 0 /\ ring.buf \in Seq(Nat)
  BY DEF Init
<1>4. TypeOK
  BY <1>3 DEF Init, TypeOK, Out, PumpPlaces, Places
<1>5. RingAligned
  BY <1>3, <1>4, FanoutAssumption DEF Init, RingAligned, Edge
<1>6. GapsAreEvicted /\ Inside
  BY <1>1, <1>5 DEF GapsAreEvicted, Inside
<1>7. NobodySleepsThrough /\ Registered /\ ClosedLast
  BY DEF Init, Out, NobodySleepsThrough, Registered, ClosedLast
<1>8. OnlyTheUnwatchedAreLetGo
  BY <1>2 DEF Init, OnlyTheUnwatchedAreLetGo
<1> QED BY <1>6, <1>7, <1>8 DEF IInv

(***************************************************************************)
(* A step of the pump that touches neither the ring nor a cursor: what it  *)
(* must leave true of where it goes.                                       *)
(***************************************************************************)
LEMMA PumpGoes ==
  ASSUME IInv, UNCHANGED <<untilEof, ring, life, cursor, fed>>,
         pump' \in PumpPlaces, ended' \in BOOLEAN, ring.closed => FALSE,
         pump \notin {"notify", "announce"},
         pump' \in Leaving /\ ~ended' =>
           ~untilEof /\ \A v \in Attached : cursor[v].from = fed /\ cursor[v].seen = {}
  PROVE  IInv'
<1>1. Attached' = Attached /\ Edge' = Edge
  BY DEF Attached, Edge
<1>2. TypeOK'
  BY <1>1, Shapes DEF TypeOK
<1>3. GapsAreEvicted'
  BY <1>1, <1>2 DEF IInv, GapsAreEvicted, RingAligned
<1>4. Inside' /\ Registered' /\ ClosedLast'
  BY <1>1 DEF IInv, Inside, Registered, ClosedLast
<1>5. NobodySleepsThrough'
  BY <1>1 DEF IInv, NobodySleepsThrough
<1>6. OnlyTheUnwatchedAreLetGo'
  BY <1>1 DEF IInv, OnlyTheUnwatchedAreLetGo, Leaving
<1> QED BY <1>3, <1>4, <1>5, <1>6 DEF IInv

LEMMA PumpTopHolds ==
  ASSUME IInv, PumpTop
  PROVE  IInv'
<1>1. ~ring.closed
  BY DEF IInv, ClosedLast, PumpTop
<1>2. ASSUME pump' \in Leaving
      PROVE  ~untilEof /\ Attached = {}
  <2>1. ~untilEof /\ life.consumers = 0
    BY <1>2 DEF PumpTop, Released, Leaving
  <2>2. Cardinality(Attached) = 0
    BY <2>1 DEF IInv, OnlyTheUnwatchedAreLetGo
  <2> QED BY <2>1, <2>2, Shapes, FS_EmptySet
<1> QED BY <1>1, <1>2, PumpGoes, Shapes DEF PumpTop, PumpPlaces, TypeOK

LEMMA PumpEndHolds ==
  ASSUME IInv, PumpEnd \/ PumpDrop
  PROVE  IInv'
<1>1. ~ring.closed
  BY DEF IInv, ClosedLast, PumpEnd, PumpDrop
<1>2. CASE PumpEnd
  BY <1>1, <1>2, PumpGoes DEF PumpEnd, PumpPlaces
<1>3. CASE PumpDrop
  <2>1. ~ended => ~untilEof /\ \A v \in Attached : cursor[v].from = fed /\ cursor[v].seen = {}
    BY <1>3 DEF PumpDrop, IInv, OnlyTheUnwatchedAreLetGo
  <2> QED BY <1>1, <1>3, <2>1, PumpGoes, Shapes DEF PumpDrop, PumpPlaces, TypeOK
<1> QED BY <1>2, <1>3

\* An append moves the edge, and with it a resting viewer's debt: the pump
\* wakes everyone next.
LEMMA PumpReadHolds ==
  ASSUME IInv, NEW n \in 1..PumpChunk, PumpRead(n)
  PROVE  IInv'
<1>1. /\ RingAligned /\ TypeOK /\ n \in Nat \ {0} /\ fed' = fed + n /\ pump = "reading"
      /\ ring' = Appended([k \in 1..n |-> fed + k - 1]) /\ pump' = "notify"
      /\ UNCHANGED <<untilEof, life, cursor, ended>>
  BY Shapes, FanoutAssumption DEF PumpRead
<1>2. /\ ring' \in [buf : Seq(Nat), base : Nat, closed : BOOLEAN]
      /\ Len(ring'.buf) <= RingBytes /\ Edge' = fed'
      /\ \A k \in DOMAIN ring'.buf : ring'.buf[k] = ring'.base + k - 1
      /\ ring.base <= ring'.base /\ ring'.closed = ring.closed
  BY <1>1, AppendAligned
<1>3. Attached' = Attached /\ ~ring.closed /\ ~ring'.closed
  BY <1>1, <1>2 DEF Attached, IInv, ClosedLast
<1>4. TypeOK'
  BY <1>1, <1>2, <1>3 DEF TypeOK, PumpPlaces
<1>5. RingAligned'
  BY <1>2, <1>4 DEF RingAligned
<1>6. GapsAreEvicted'
  <2> SUFFICES ASSUME NEW v \in Attached
               PROVE  /\ cursor[v].seen \subseteq cursor[v].from..(cursor[v].pos - 1)
                      /\ \A b \in cursor[v].from..(cursor[v].pos - 1) :
                           b \notin cursor[v].seen => b < ring'.base
                      /\ cursor[v].at = "ended" => ring'.closed /\ cursor[v].pos = fed'
    BY <1>1, <1>3, <1>5 DEF GapsAreEvicted
  <2>1. cursor[v].at # "ended"
    BY <1>3 DEF IInv, GapsAreEvicted
  <2>2. \A b \in cursor[v].from..(cursor[v].pos - 1) :
          b \in cursor[v].seen \/ b < ring.base
    BY DEF IInv, GapsAreEvicted
  <2>3. cursor[v].from \in Nat /\ cursor[v].pos \in Nat /\ ring.base \in Nat /\ ring'.base \in Nat
    BY <1>2, Shapes DEF Attached, Cursors
  <2>4. \A b \in cursor[v].from..(cursor[v].pos - 1) : b \in Int
    BY <2>3
  <2> QED BY <1>2, <2>1, <2>2, <2>3, <2>4 DEF IInv, GapsAreEvicted
<1>7. Inside'
  <2> SUFFICES ASSUME NEW v \in Attached
               PROVE  cursor[v].pos <= Edge'
    BY <1>1, <1>3 DEF IInv, Inside
  <2>1. cursor[v].pos <= Edge /\ cursor[v].pos \in Nat
    BY Shapes DEF IInv, Inside, Attached, Cursors
  <2> QED BY <1>1, <1>2, <2>1, Shapes
<1>8. Registered' /\ ClosedLast' /\ NobodySleepsThrough' /\ OnlyTheUnwatchedAreLetGo'
  <2>1. \A v \in Viewers : cursor[v].at = "pending" => cursor[v].parked \in {"armed", "woken"}
    BY Shapes DEF IInv, Registered, Cursors
  <2> QED BY <1>1, <1>3, <2>1
          DEF IInv, Registered, ClosedLast, NobodySleepsThrough, OnlyTheUnwatchedAreLetGo
<1> QED BY <1>6, <1>7, <1>8 DEF IInv

LEMMA PumpCloseHolds ==
  ASSUME IInv, PumpClose
  PROVE  IInv'
<1>1. /\ ring' = [ring EXCEPT !.closed = TRUE] /\ pump = "dropped" /\ pump' = "announce"
      /\ UNCHANGED <<untilEof, life, cursor, fed, ended>>
  BY DEF PumpClose
<1>2. /\ ring' \in [buf : Seq(Nat), base : Nat, closed : BOOLEAN] /\ ring'.closed
      /\ ring'.buf = ring.buf /\ ring'.base = ring.base
  BY <1>1, Shapes
<1>3. Attached' = Attached /\ Edge' = Edge /\ ~ring.closed
  BY <1>1, <1>2 DEF Attached, Edge, IInv, ClosedLast
<1>4. TypeOK'
  BY <1>1, <1>2, <1>3, Shapes DEF TypeOK, PumpPlaces
<1>5. GapsAreEvicted'
  BY <1>1, <1>2, <1>3, <1>4 DEF IInv, GapsAreEvicted, RingAligned
<1>6. Inside' /\ Registered' /\ ClosedLast'
  BY <1>1, <1>3 DEF IInv, Inside, Registered, ClosedLast
<1>7. NobodySleepsThrough'
  <2>1. \A v \in Viewers : cursor[v].at = "pending" => cursor[v].parked \in {"armed", "woken"}
    BY Shapes DEF IInv, Registered, Cursors
  <2> QED BY <1>1, <2>1 DEF NobodySleepsThrough
<1>8. OnlyTheUnwatchedAreLetGo'
  BY <1>1, <1>3 DEF IInv, OnlyTheUnwatchedAreLetGo
<1> QED BY <1>5, <1>6, <1>7, <1>8 DEF IInv

\* Notify::notify_waiters reaches every cursor that is registered.
LEMMA PumpNotifyHolds ==
  ASSUME IInv, PumpNotify
  PROVE  IInv'
<1>1. /\ pump \in {"notify", "announce"} /\ pump' = IF pump = "notify" THEN "top" ELSE "done"
      /\ UNCHANGED <<untilEof, ring, life, fed, ended>>
  BY DEF PumpNotify
<1>2. /\ cursor' \in [Viewers -> Cursors]
      /\ \A v \in Viewers :
           /\ cursor'[v].at = cursor[v].at /\ cursor'[v].pos = cursor[v].pos
           /\ cursor'[v].from = cursor[v].from /\ cursor'[v].seen = cursor[v].seen
           /\ cursor'[v].parked
                = IF cursor[v].parked = "armed" THEN "woken" ELSE cursor[v].parked
  <2> DEFINE c(v) == IF cursor[v].parked = "armed"
                     THEN [cursor[v] EXCEPT !.parked = "woken"] ELSE cursor[v]
  <2>1. cursor' = [v \in Viewers |-> c(v)]
    BY DEF PumpNotify
  <2>2. ASSUME NEW v \in Viewers
        PROVE  /\ c(v) \in Cursors
               /\ c(v).at = cursor[v].at /\ c(v).pos = cursor[v].pos
               /\ c(v).from = cursor[v].from /\ c(v).seen = cursor[v].seen
               /\ c(v).parked
                    = IF cursor[v].parked = "armed" THEN "woken" ELSE cursor[v].parked
    BY Shapes DEF Cursors
  <2> HIDE DEF c
  <2> QED BY <2>1, <2>2
<1>3. Attached' = Attached /\ Edge' = Edge
  BY <1>1, <1>2 DEF Attached, Edge
<1>4. TypeOK'
  BY <1>1, <1>2, <1>3, Shapes DEF TypeOK, PumpPlaces, Cursors
<1>5. GapsAreEvicted'
  <2>1. RingAligned'
    BY <1>1, <1>3, <1>4 DEF IInv, GapsAreEvicted, RingAligned
  <2>2. \A v \in Attached : v \in Viewers
    BY DEF Attached
  <2> QED BY <1>1, <1>2, <1>3, <2>1, <2>2 DEF IInv, GapsAreEvicted
<1>6. Inside' /\ Registered' /\ ClosedLast'
  <2>1. \A v \in Attached : v \in Viewers
    BY DEF Attached
  <2> QED BY <1>1, <1>2, <1>3, <2>1 DEF IInv, Inside, Registered, ClosedLast
<1>7. NobodySleepsThrough'
  BY <1>1, <1>2, <1>3, Shapes DEF IInv, NobodySleepsThrough, Registered, Cursors
<1>8. OnlyTheUnwatchedAreLetGo'
  <2>1. \A v \in Attached : v \in Viewers
    BY DEF Attached
  <2> QED BY <1>1, <1>2, <1>3, <2>1 DEF IInv, OnlyTheUnwatchedAreLetGo
<1> QED BY <1>5, <1>6, <1>7, <1>8 DEF IInv
-----------------------------------------------------------------------------
(* The viewers *)

LEMMA OpenBeginHolds ==
  ASSUME IInv, NEW v \in Viewers, OpenBegin(v)
  PROVE  IInv'
<1>1. /\ cursor[v].at = "out" /\ life' = [life EXCEPT !.joining = {v}]
      /\ pump' = IF pump = "armed" THEN "top" ELSE pump
      /\ UNCHANGED <<untilEof, ring, cursor, fed, ended>>
  BY DEF OpenBegin
<1>2. Attached' = Attached /\ Edge' = Edge /\ v \notin Attached
  BY <1>1 DEF Attached, Edge
<1>3. life'.consumers = life.consumers /\ life'.joining = {v}
  BY <1>1
<1>4. TypeOK'
  BY <1>1, <1>2, <1>3, Shapes DEF TypeOK, PumpPlaces
<1>5. GapsAreEvicted'
  BY <1>1, <1>2, <1>4 DEF IInv, GapsAreEvicted, RingAligned
<1>6. Inside' /\ Registered' /\ ClosedLast' /\ NobodySleepsThrough'
  BY <1>1, <1>2 DEF IInv, Inside, Registered, ClosedLast, NobodySleepsThrough
<1>7. OnlyTheUnwatchedAreLetGo'
  BY <1>1, <1>2, <1>3 DEF IInv, OnlyTheUnwatchedAreLetGo
<1> QED BY <1>5, <1>6, <1>7 DEF IInv

\* Whoever joins starts at the edge of that moment, owed nothing and having
\* lost nothing.
LEMMA OpenAttachHolds ==
  ASSUME IInv, NEW v \in Viewers, OpenAttach(v)
  PROVE  IInv'
<1> DEFINE c == [Out EXCEPT !.at = "ready", !.pos = Edge, !.from = Edge]
<1>1. /\ life.joining = {v} /\ cursor' = [cursor EXCEPT ![v] = c]
      /\ life'.consumers = life.consumers + 1 /\ life'.joining = {}
      /\ UNCHANGED <<untilEof, pump, ring, fed, ended>>
  BY DEF OpenAttach
<1>2. /\ c.at = "ready" /\ c.pos = Edge /\ c.from = Edge /\ c.parked = "none" /\ c.seen = {}
      /\ c \in Cursors /\ Edge \in Nat
  BY Shapes DEF Out, Cursors, Places
<1>3. v \notin Attached
  BY <1>1, Shapes DEF TypeOK
<1> HIDE DEF c
<1>4. /\ cursor' \in [Viewers -> Cursors] /\ cursor'[v] = c
      /\ \A w \in Viewers \ {v} : cursor'[w] = cursor[w]
  BY <1>1, <1>2, Shapes
<1>5. Attached' = Attached \cup {v} /\ Edge' = Edge
  BY <1>1, <1>2, <1>4 DEF Attached, Edge
<1>6. /\ TypeOK' /\ RingAligned'
  <2>1. TypeOK'
    BY <1>1, <1>4, Shapes DEF TypeOK, Cursors
  <2> QED BY <1>1, <1>5, <2>1, Shapes DEF RingAligned
<1>7. \A w \in Attached' : (w \in Attached /\ cursor'[w] = cursor[w]) \/ w = v
  BY <1>4, <1>5 DEF Attached
<1>8. GapsAreEvicted' /\ Inside'
  <2>1. /\ c.seen \subseteq c.from..(c.pos - 1) /\ c.from..(c.pos - 1) = {}
        /\ c.at # "ended" /\ c.from <= c.pos /\ c.pos <= Edge
    BY <1>2
  <2> QED BY <1>1, <1>4, <1>5, <1>6, <1>7, <2>1 DEF IInv, GapsAreEvicted, Inside
<1>9. Registered' /\ ClosedLast' /\ NobodySleepsThrough'
  BY <1>1, <1>2, <1>4, <1>5 DEF IInv, Registered, ClosedLast, NobodySleepsThrough
<1>10. OnlyTheUnwatchedAreLetGo'
  <2>1. Cardinality(Attached') = Cardinality(Attached) + 1
    BY <1>3, <1>5, Shapes, FS_AddElement
  <2> QED BY <1>1, <1>2, <1>4, <1>7, <2>1, Shapes DEF IInv, OnlyTheUnwatchedAreLetGo
<1> QED BY <1>8, <1>9, <1>10 DEF IInv

LEMMA LeaveHolds ==
  ASSUME IInv, NEW v \in Viewers, Leave(v)
  PROVE  IInv'
<1>1. /\ cursor[v].at # "out" /\ cursor' = [cursor EXCEPT ![v] = Out]
      /\ life' = [life EXCEPT !.consumers = @ - 1] /\ life.joining = {}
      /\ UNCHANGED <<untilEof, pump, ring, fed, ended>>
  BY DEF Leave
<1>2. Out.at = "out" /\ Out \in Cursors
  BY DEF Out, Cursors, Places
<1>3. /\ cursor' \in [Viewers -> Cursors] /\ cursor'[v] = Out
      /\ \A w \in Viewers \ {v} : cursor'[w] = cursor[w]
  BY <1>1, <1>2, Shapes
<1>4. Attached' = Attached \ {v} /\ Edge' = Edge /\ v \in Attached
  BY <1>1, <1>2, <1>3 DEF Attached, Edge
<1>5. /\ life'.consumers = Cardinality(Attached') /\ life'.consumers \in Nat
      /\ life'.joining = {}
  <2>1. Cardinality(Attached') = Cardinality(Attached) - 1 /\ IsFiniteSet(Attached')
    BY <1>4, Shapes, FS_RemoveElement
  <2>2. Cardinality(Attached') \in Nat
    BY <2>1, FS_CardinalityType
  <2> QED BY <1>1, <2>1, <2>2 DEF IInv, OnlyTheUnwatchedAreLetGo
<1>6. TypeOK' /\ RingAligned'
  <2>1. TypeOK'
    BY <1>1, <1>3, <1>5, Shapes DEF TypeOK, Cursors
  <2> QED BY <1>1, <1>4, <2>1, Shapes DEF RingAligned
<1>7. \A w \in Attached' : w \in Attached /\ cursor'[w] = cursor[w]
  BY <1>3, <1>4 DEF Attached
<1>8. GapsAreEvicted' /\ Inside'
  BY <1>1, <1>4, <1>6, <1>7 DEF IInv, GapsAreEvicted, Inside
<1>9. Registered' /\ ClosedLast' /\ NobodySleepsThrough'
  BY <1>1, <1>2, <1>3, <1>4 DEF IInv, Registered, ClosedLast, NobodySleepsThrough
<1>10. OnlyTheUnwatchedAreLetGo'
  BY <1>1, <1>5, <1>7 DEF IInv, OnlyTheUnwatchedAreLetGo
<1> QED BY <1>8, <1>9, <1>10 DEF IInv

(***************************************************************************)
(* A viewer that stays is moved: what its cursor must say for the          *)
(* invariant, given that nothing else changes.                             *)
(***************************************************************************)
LEMMA Moved ==
  ASSUME IInv, NEW v \in Viewers, NEW c \in Cursors,
         cursor' = [cursor EXCEPT ![v] = c],
         UNCHANGED <<untilEof, pump, ring, life, fed, ended>>,
         cursor[v].at # "out", c.at # "out", c.from = cursor[v].from,
         c.from <= c.pos, c.pos <= Edge,
         c.seen \subseteq c.from..(c.pos - 1),
         \A b \in c.from..(c.pos - 1) : b \notin c.seen => b < ring.base,
         c.at = "ended" => ring.closed /\ c.pos = fed,
         c.at \in {"inspect", "pending"} => c.parked # "none",
         c.at = "pending" => c.pos = Edge /\ ~ring.closed,
         pump \in Leaving /\ ~ended => c.seen = {}
  PROVE  IInv'
<1>1. /\ cursor' \in [Viewers -> Cursors] /\ cursor'[v] = c
      /\ \A w \in Viewers \ {v} : cursor'[w] = cursor[w]
  BY Shapes
<1>2. Attached' = Attached /\ Edge' = Edge /\ v \in Attached /\ Edge \in Nat
  BY <1>1, Shapes DEF Attached, Edge
<1>3. TypeOK' /\ RingAligned'
  <2>1. TypeOK'
    BY <1>1, <1>2, Shapes DEF TypeOK, Cursors
  <2> QED BY <1>2, <2>1, Shapes DEF RingAligned
<1>4. \A w \in Attached : w \in Viewers /\ (cursor'[w] = cursor[w] \/ w = v)
  BY <1>1 DEF Attached
<1>5. GapsAreEvicted' /\ Inside'
  BY <1>1, <1>2, <1>3, <1>4 DEF IInv, GapsAreEvicted, Inside
<1>6. Registered' /\ ClosedLast'
  BY <1>1 DEF IInv, Registered, ClosedLast
<1>7. NobodySleepsThrough'
  <2> SUFFICES ASSUME NEW w \in Viewers,
                      cursor'[w].at = "pending", cursor'[w].pos < Edge' \/ ring'.closed
               PROVE  \/ cursor'[w].parked = "woken"
                      \/ cursor'[w].parked = "armed" /\ pump' \in {"notify", "announce"}
    BY DEF NobodySleepsThrough
  <2>1. w # v
    BY <1>1, <1>2
  <2> QED BY <1>1, <1>2, <2>1 DEF IInv, NobodySleepsThrough
<1>8. OnlyTheUnwatchedAreLetGo'
  BY <1>1, <1>2, <1>4 DEF IInv, OnlyTheUnwatchedAreLetGo, Leaving
<1> QED BY <1>5, <1>6, <1>7, <1>8 DEF IInv

\* What a viewer that is attached may be taken to know.
LEMMA Attended ==
  ASSUME IInv, NEW v \in Attached
  PROVE  /\ v \in Viewers /\ cursor[v] \in Cursors /\ cursor[v].at # "out"
         /\ cursor[v].from \in Nat /\ cursor[v].pos \in Nat /\ cursor[v].seen \subseteq Nat
         /\ cursor[v].from <= cursor[v].pos /\ cursor[v].pos <= Edge
         /\ Edge \in Nat /\ ring.base \in Nat /\ ring.base <= Edge
         /\ cursor[v].seen \subseteq cursor[v].from..(cursor[v].pos - 1)
         /\ \A b \in cursor[v].from..(cursor[v].pos - 1) :
              b \notin cursor[v].seen => b < ring.base
         /\ pump \in Leaving /\ ~ended => cursor[v].seen = {} /\ cursor[v].pos = Edge
<1>1. v \in Viewers /\ cursor[v] \in Cursors /\ cursor[v].at # "out"
  BY Shapes DEF Attached
<1>2. /\ cursor[v].from \in Nat /\ cursor[v].pos \in Nat /\ cursor[v].seen \subseteq Nat
      /\ Edge \in Nat /\ ring.base \in Nat /\ ring.base <= Edge
  BY <1>1, Shapes DEF Cursors
<1>3. cursor[v].from <= cursor[v].pos /\ cursor[v].pos <= Edge
  BY DEF IInv, Inside
<1>4. /\ cursor[v].seen \subseteq cursor[v].from..(cursor[v].pos - 1)
      /\ \A b \in cursor[v].from..(cursor[v].pos - 1) :
           b \notin cursor[v].seen => b < ring.base
  BY DEF IInv, GapsAreEvicted
<1>5. pump \in Leaving /\ ~ended => cursor[v].seen = {} /\ cursor[v].from = Edge
  BY Shapes DEF IInv, OnlyTheUnwatchedAreLetGo, Leaving
<1>6. pump \in Leaving /\ ~ended => cursor[v].seen = {} /\ cursor[v].pos = Edge
  BY <1>2, <1>3, <1>5
<1> QED BY <1>1, <1>2, <1>3, <1>4, <1>6

LEMMA RegisterHolds ==
  ASSUME IInv, NEW v \in Viewers, Register(v)
  PROVE  IInv'
<1> DEFINE woken == cursor[v].parked = "woken"
           c == [cursor[v] EXCEPT !.at     = IF woken THEN "recheck" ELSE "inspect",
                                  !.parked = IF woken THEN "none" ELSE "armed"]
<1>1. /\ cursor' = [cursor EXCEPT ![v] = c] /\ v \in Attached
      /\ UNCHANGED <<untilEof, pump, ring, life, fed, ended>>
  <2>1. cursor' = [cursor EXCEPT ![v] = c]
    BY Shapes DEF Register, Cursors
  <2> QED BY <2>1 DEF Register, Attached
<1>2. /\ c \in Cursors /\ c.at \in {"inspect", "recheck"}
      /\ c.at = "inspect" => c.parked = "armed"
      /\ c.pos = cursor[v].pos /\ c.from = cursor[v].from /\ c.seen = cursor[v].seen
  BY Shapes DEF Cursors, Places
<1> HIDE DEF c
<1> QED BY <1>1, <1>2, Attended, Moved

(***************************************************************************)
(* The bytes a read copies are the next ones of the source: what lies      *)
(* between the old place and the new was evicted or is given now.          *)
(***************************************************************************)
LEMMA ReadsHolds ==
  ASSUME IInv, NEW v \in Viewers, NEW n \in 1..RingBytes, Reads(v, n)
  PROVE  IInv'
<1> DEFINE start == Forward(v) - ring.base
           given == {ring.buf[start + k] : k \in 1..n}
           c == [cursor[v] EXCEPT !.at = "ready", !.pos = Forward(v) + n, !.parked = "none",
                                  !.seen = @ \cup given]
<1>1. /\ cursor' = [cursor EXCEPT ![v] = c] /\ v \in Attached
      /\ n <= Len(ring.buf) - start
      /\ UNCHANGED <<untilEof, pump, ring, life, fed, ended>>
  <2>1. cursor' = [cursor EXCEPT ![v] = c]
    BY Shapes DEF Reads, Cursors
  <2> QED BY <2>1 DEF Reads, Inspecting, Attached
<1>2. PICK base \in Nat, held \in Nat, pos \in Nat, from \in Nat, ahead \in Nat :
        /\ base = ring.base /\ held = Len(ring.buf) /\ Edge = base + held
        /\ pos = cursor[v].pos /\ from = cursor[v].from /\ from <= pos /\ pos <= base + held
        /\ ahead = Forward(v) /\ ahead = IF pos < base THEN base ELSE pos
  BY <1>1, Attended, Shapes DEF Forward
<1>3. n \in Nat /\ n >= 1 /\ ahead + n <= base + held /\ base <= ahead /\ pos <= ahead
  <2>1. n \in Nat /\ n >= 1
    <3>1. PICK ceiling \in Nat : n \in 1..ceiling
      BY FanoutAssumption
    <3> QED BY <3>1
  <2>2. n <= held - (ahead - base)
    BY <1>1, <1>2
  <2>3. base <= ahead /\ pos <= ahead
    BY <1>2
  <2> HIDE DEF start, given, c
  <2> QED BY <2>1, <2>2, <2>3
<1>4. given = ahead..(ahead + n - 1)
  <2>1. ASSUME NEW k \in 1..n
        PROVE  ring.buf[start + k] = ahead + k - 1
    <3>1. PICK j \in Nat : j = (ahead - base) + k
      BY <1>3
    <3>2. start + k = j
      BY <1>2, <3>1
    <3>3. j \in 1..held /\ base + j - 1 = ahead + k - 1
      BY <1>3, <3>1
    <3>4. DOMAIN ring.buf = 1..held
      BY <1>2, Shapes
    <3>5. ring.buf[j] = ring.base + j - 1
      BY <3>3, <3>4, Shapes DEF RingAligned
    <3> QED BY <1>2, <3>2, <3>3, <3>5
  <2>2. given = {ahead + k - 1 : k \in 1..n}
    BY <2>1
  <2>3. ASSUME NEW b \in ahead..(ahead + n - 1)
        PROVE  b \in {ahead + k - 1 : k \in 1..n}
    <3>1. b - ahead + 1 \in 1..n /\ b = ahead + (b - ahead + 1) - 1
      BY <1>3
    <3> QED BY <3>1
  <2>4. \A k \in 1..n : ahead + k - 1 \in ahead..(ahead + n - 1)
    BY <1>3
  <2> QED BY <2>2, <2>3, <2>4
<1> HIDE DEF given
<1>5. /\ c \in Cursors /\ c.at = "ready" /\ c.from = from /\ c.pos = ahead + n
      /\ c.seen = cursor[v].seen \cup ahead..(ahead + n - 1)
  <2>1. ahead..(ahead + n - 1) \subseteq Nat /\ ahead + n \in Nat
    BY <1>3
  <2> QED BY <1>1, <1>2, <1>4, <2>1, Attended DEF Cursors, Places
<1>6. ~(pump \in Leaving /\ ~ended)
  <2>1. pos # base + held
    BY <1>2, <1>3
  <2> QED BY <1>1, <1>2, <2>1, Attended
<1>7. c.seen \subseteq from..(ahead + n - 1)
  <2>1. cursor[v].seen \subseteq from..(pos - 1)
    BY <1>1, <1>2, Attended
  <2>2. /\ from..(pos - 1) \subseteq from..(ahead + n - 1)
        /\ ahead..(ahead + n - 1) \subseteq from..(ahead + n - 1)
    <3>1. from <= pos
      BY <1>2
    <3> QED BY <1>3, <3>1
  <2> QED BY <1>5, <2>1, <2>2
<1>8. ASSUME NEW b \in from..(ahead + n - 1), b \notin c.seen
      PROVE  b < base
  <2>1. b \in Int /\ ~(b >= ahead)
    BY <1>3, <1>5, <1>8
  <2>2. CASE b < pos
    <3>1. b \in from..(pos - 1) /\ b \notin cursor[v].seen
      BY <1>2, <1>5, <1>8, <2>1, <2>2
    <3> QED BY <1>1, <1>2, <3>1, Attended
  <2>3. CASE ~(b < pos)
    BY <1>2, <2>1, <2>3
  <2> QED BY <2>2, <2>3
<1> HIDE DEF c
<1>9. c.from <= c.pos /\ c.pos <= Edge
  BY <1>2, <1>3, <1>5
<1>10. /\ c.seen \subseteq c.from..(c.pos - 1)
       /\ \A b \in c.from..(c.pos - 1) : b \notin c.seen => b < ring.base
  <2>1. c.from = from /\ c.pos - 1 = ahead + n - 1 /\ base = ring.base
    BY <1>2, <1>5
  <2>2. \A b \in from..(ahead + n - 1) : b \notin c.seen => b < base
    BY <1>8
  <2> QED BY <1>7, <2>1, <2>2
<1> QED BY <1>1, <1>2, <1>5, <1>6, <1>9, <1>10, Attended, Moved

(***************************************************************************)
(* A viewer that is moved up to the edge with nothing to read was at it,   *)
(* or behind a ring that holds nothing.                                    *)
(***************************************************************************)
LEMMA CaughtUpHolds ==
  ASSUME IInv, NEW v \in Viewers, ReadsEnd(v) \/ CaughtUp(v)
  PROVE  IInv'
<1>1. PICK at \in {"again", "pending", "ended"}, parked \in {"none", "armed", "woken"} :
        /\ cursor' = [cursor EXCEPT ![v] = [@ EXCEPT !.at = at, !.pos = Edge,
                                                     !.parked = parked]]
        /\ at = "ended" => ring.closed
        /\ at = "pending" => ~ring.closed /\ parked # "none"
  <2>1. CASE ReadsEnd(v)
    <3>1. cursor' = [cursor EXCEPT ![v] = [@ EXCEPT !.at = "ended", !.pos = Edge,
                                                    !.parked = "none"]]
      BY <2>1, Shapes DEF ReadsEnd, Cursors
    <3> QED BY <2>1, <3>1 DEF ReadsEnd
  <2>2. CASE CaughtUp(v)
    <3> DEFINE at == IF cursor[v].at = "recheck" THEN "again" ELSE "pending"
    <3>1. cursor' = [cursor EXCEPT ![v] = [@ EXCEPT !.at = at, !.pos = Edge,
                                                    !.parked = cursor[v].parked]]
      BY <2>2, Shapes DEF CaughtUp, Rests, Cursors
    <3>2. /\ cursor[v].parked \in {"none", "armed", "woken"}
          /\ at = "pending" => cursor[v].at = "inspect" /\ cursor[v].parked # "none"
      BY <2>2, Shapes DEF CaughtUp, Inspecting, Cursors, IInv, Registered
    <3>3. at \in {"again", "pending"} /\ ~ring.closed
      BY <2>2 DEF CaughtUp
    <3> HIDE DEF at
    <3> QED BY <3>1, <3>2, <3>3
  <2> QED BY <2>1, <2>2
<1> DEFINE c == [cursor[v] EXCEPT !.at = at, !.pos = Edge, !.parked = parked]
<1>2. /\ cursor' = [cursor EXCEPT ![v] = c] /\ v \in Attached /\ Forward(v) = Edge
      /\ UNCHANGED <<untilEof, pump, ring, life, fed, ended>>
  <2>1. cursor' = [cursor EXCEPT ![v] = c]
    BY <1>1, Shapes
  <2> QED BY <2>1 DEF ReadsEnd, CaughtUp, Inspecting, Attached
<1>3. /\ c \in Cursors /\ c.at = at /\ c.pos = Edge /\ c.parked = parked
      /\ c.from = cursor[v].from /\ c.seen = cursor[v].seen
  BY <1>1, <1>2, Attended DEF Cursors, Places
<1>4. ASSUME NEW b \in cursor[v].from..(Edge - 1), b \notin cursor[v].seen
      PROVE  b < ring.base
  <2>1. CASE cursor[v].pos < ring.base
    BY <1>2, <1>4, <2>1, Attended DEF Forward
  <2>2. CASE ~(cursor[v].pos < ring.base)
    BY <1>2, <1>4, <2>2, Attended DEF Forward
  <2> QED BY <2>1, <2>2
<1>5. cursor[v].seen \subseteq cursor[v].from..(Edge - 1) /\ cursor[v].from <= Edge
  <2>1. /\ cursor[v].seen \subseteq cursor[v].from..(cursor[v].pos - 1)
        /\ cursor[v].pos <= Edge /\ cursor[v].from <= cursor[v].pos
        /\ cursor[v].from \in Nat /\ cursor[v].pos \in Nat /\ Edge \in Nat
    BY <1>2, Attended
  <2> QED BY <2>1
<1> HIDE DEF c
<1>6. pump \in Leaving /\ ~ended => c.seen = {}
  BY <1>2, <1>3, Attended
<1>7. Edge = fed /\ Edge \in Nat /\ cursor[v].at # "out"
  BY <1>2, Shapes DEF Attached
<1>8. /\ c.from <= c.pos /\ c.pos <= Edge /\ c.seen \subseteq c.from..(c.pos - 1)
      /\ \A b \in c.from..(c.pos - 1) : b \notin c.seen => b < ring.base
      /\ c.at = "ended" => ring.closed /\ c.pos = fed
      /\ c.at \in {"inspect", "pending"} => c.parked # "none"
      /\ c.at = "pending" => c.pos = Edge /\ ~ring.closed
  BY <1>1, <1>3, <1>4, <1>5, <1>7
<1> QED BY <1>1, <1>2, <1>3, <1>6, <1>7, <1>8, Moved

LEMMA NextHolds == IInv /\ [Next]_vars => IInv'
<1> SUFFICES ASSUME IInv, [Next]_vars PROVE IInv'
  OBVIOUS
<1>1. CASE Pump
  BY <1>1, PumpTopHolds, PumpEndHolds, PumpCloseHolds, PumpNotifyHolds, PumpReadHolds DEF Pump
<1>2. CASE \E v \in Viewers : Viewer(v)
  BY <1>2, OpenBeginHolds, OpenAttachHolds, LeaveHolds, RegisterHolds, ReadsHolds,
     CaughtUpHolds DEF Viewer, Inspect
<1>3. CASE UNCHANGED vars
  BY <1>3 DEF vars, IInv, GapsAreEvicted, RingAligned, TypeOK, NobodySleepsThrough,
     OnlyTheUnwatchedAreLetGo, Inside, Registered, ClosedLast, Attached, Edge
<1> QED BY <1>1, <1>2, <1>3 DEF Next
-----------------------------------------------------------------------------
LEMMA FanoutInvariant == Spec => []IInv
BY InitHolds, NextHolds, PTL DEF Spec

(***************************************************************************)
(* What a viewer lost of the source, the ring had evicted while it was     *)
(* slow, and it hears the end only with nothing left to read: for any ring *)
(* and any length of the pump's reads.                                     *)
(***************************************************************************)
THEOREM ViewersLoseOnlyTheEvicted == Spec => []GapsAreEvicted
<1>1. IInv => GapsAreEvicted
  BY DEF IInv
<1> QED BY <1>1, FanoutInvariant, PTL

(***************************************************************************)
(* No wake is lost in the cursors' park, however many viewers park and     *)
(* wherever the pump is between an append, or the close, and its notify.   *)
(***************************************************************************)
THEOREM NoWakeIsLost == Spec => []NobodySleepsThrough
<1>1. IInv => NobodySleepsThrough
  BY DEF IInv
<1> QED BY <1>1, FanoutInvariant, PTL

(***************************************************************************)
(* A session's pump lets go of its source at end of input, or unwatched;   *)
(* the count of viewers it goes by is their number, however many there     *)
(* are.                                                                    *)
(***************************************************************************)
THEOREM WatchedSourcesAreKept == Spec => []OnlyTheUnwatchedAreLetGo
<1>1. IInv => OnlyTheUnwatchedAreLetGo
  BY DEF IInv
<1> QED BY <1>1, FanoutInvariant, PTL
-----------------------------------------------------------------------------
(* The feed it implements *)

\* Where a viewer is in the feed.
Place(v) == IF cursor[v].at = "out" THEN -1 ELSE cursor[v].pos

\* A viewer that stays moves to where its cursor went, or stays put.
LEMMA GivesOrStays ==
  ASSUME IInv, NEW v \in Viewers, cursor[v].at # "out", NEW c,
         c.at # "out", c.pos \in cursor[v].pos..fed,
         cursor' = [cursor EXCEPT ![v] = c], UNCHANGED <<ring, fed>>
  PROVE  [Feed!Next]_<<fed, ring.closed, [w \in Viewers |-> Place(w)]>>
<1> DEFINE place == [w \in Viewers |-> Place(w)]
<1>1. place' = [place EXCEPT ![v] = c.pos] /\ place[v] = cursor[v].pos
  BY Shapes DEF Place
<1>2. cursor[v].pos \in Nat /\ fed \in Nat
  BY Shapes DEF Cursors
<1>3. CASE c.pos = cursor[v].pos
  <2>1. place' = place
    BY <1>1, <1>3
  <2> QED BY <2>1
<1>4. CASE c.pos # cursor[v].pos
  <2>1. c.pos \in (place[v] + 1)..fed /\ place[v] # -1
    BY <1>1, <1>2, <1>4
  <2>2. Feed!Give(v)
    BY <1>1, <2>1 DEF Feed!Give, Feed!Away, Place
  <2> QED BY <2>2 DEF Feed!Next
<1> QED BY <1>3, <1>4

\* A poll moves its own cursor, and never backwards.
LEMMA Turned ==
  ASSUME IInv, NEW v \in Viewers, Register(v) \/ Inspect(v)
  PROVE  /\ v \in Attached /\ cursor' = [cursor EXCEPT ![v] = cursor'[v]]
         /\ UNCHANGED <<ring, fed>> /\ cursor'[v].at # "out"
         /\ cursor[v].pos <= cursor'[v].pos
<1>1. v \in Attached /\ UNCHANGED <<ring, fed>>
  BY DEF Register, Inspect, Reads, ReadsEnd, CaughtUp, Inspecting, Attached
<1>2. ASSUME NEW c, cursor' = [cursor EXCEPT ![v] = c], c.at # "out", cursor[v].pos <= c.pos
      PROVE  /\ cursor' = [cursor EXCEPT ![v] = cursor'[v]] /\ cursor'[v].at # "out"
             /\ cursor[v].pos <= cursor'[v].pos
  BY <1>2, Shapes
<1>3. CASE Register(v)
  <2> DEFINE woken == cursor[v].parked = "woken"
             c == [cursor[v] EXCEPT !.at     = IF woken THEN "recheck" ELSE "inspect",
                                    !.parked = IF woken THEN "none" ELSE "armed"]
  <2>1. cursor' = [cursor EXCEPT ![v] = c]
    BY <1>3, Shapes DEF Register, Cursors
  <2>2. c.at # "out" /\ cursor[v].pos <= c.pos
    BY <1>1, Attended DEF Cursors
  <2> HIDE DEF c
  <2> QED BY <1>1, <1>2, <2>1, <2>2
<1>4. ASSUME NEW n \in 1..RingBytes, Reads(v, n)
      PROVE  \E c : /\ cursor' = [cursor EXCEPT ![v] = c]
                    /\ c.at # "out" /\ cursor[v].pos <= c.pos
  <2> DEFINE start == Forward(v) - ring.base
             c == [cursor[v] EXCEPT !.at = "ready", !.pos = Forward(v) + n, !.parked = "none",
                                    !.seen = @ \cup {ring.buf[start + k] : k \in 1..n}]
  <2>1. cursor' = [cursor EXCEPT ![v] = c]
    BY <1>4, Shapes DEF Reads, Cursors
  <2>2. c.at = "ready" /\ c.pos = Forward(v) + n
    BY <1>1, Attended DEF Cursors
  <2> HIDE DEF c
  <2>3. PICK pos \in Nat, base \in Nat, more \in Nat :
          pos = cursor[v].pos /\ base = ring.base /\ more = n
    BY <1>1, Attended, FanoutAssumption
  <2>4. Forward(v) = IF pos < base THEN base ELSE pos
    BY <2>3 DEF Forward
  <2>5. cursor[v].pos <= c.pos
    BY <2>2, <2>3, <2>4
  <2> QED BY <2>1, <2>2, <2>5
<1>5. CASE ReadsEnd(v) \/ CaughtUp(v)
  <2>1. PICK at \in Places \ {"out"}, parked \in {"none", "armed", "woken"} :
          cursor' = [cursor EXCEPT ![v] = [@ EXCEPT !.at = at, !.pos = Edge,
                                                    !.parked = parked]]
    <3>1. CASE ReadsEnd(v)
      <4>1. cursor' = [cursor EXCEPT ![v] = [@ EXCEPT !.at = "ended", !.pos = Edge,
                                                      !.parked = "none"]]
        BY <3>1, Shapes DEF ReadsEnd, Cursors
      <4> QED BY <4>1 DEF Places
    <3>2. CASE CaughtUp(v)
      <4>0. cursor[v].parked \in {"none", "armed", "woken"}
        BY Shapes DEF Cursors
      <4> DEFINE at == IF cursor[v].at = "recheck" THEN "again" ELSE "pending"
      <4>1. cursor' = [cursor EXCEPT ![v] = [@ EXCEPT !.at = at, !.pos = Edge,
                                                      !.parked = cursor[v].parked]]
        BY <3>2, Shapes DEF CaughtUp, Rests, Cursors
      <4>2. at \in Places \ {"out"}
        BY DEF Places
      <4> HIDE DEF at
      <4> QED BY <4>0, <4>1, <4>2
    <3> QED BY <1>5, <3>1, <3>2
  <2> DEFINE c == [cursor[v] EXCEPT !.at = at, !.pos = Edge, !.parked = parked]
  <2>2. cursor' = [cursor EXCEPT ![v] = c]
    BY <2>1, Shapes
  <2>3. c.at # "out" /\ cursor[v].pos <= c.pos
    BY <1>1, Attended DEF Cursors
  <2> HIDE DEF c
  <2> QED BY <1>1, <1>2, <2>2, <2>3
<1> QED BY <1>1, <1>2, <1>3, <1>4, <1>5 DEF Inspect

LEMMA ViewerImplements ==
  ASSUME IInv, IInv', NEW v \in Viewers, Viewer(v)
  PROVE  [Feed!Next]_<<fed, ring.closed, [w \in Viewers |-> Place(w)]>>
<1> DEFINE place == [w \in Viewers |-> Place(w)]
<1>1. CASE OpenBegin(v)
  BY <1>1 DEF OpenBegin, Place
<1>2. CASE OpenAttach(v)
  <2>1. v \notin Attached
    BY <1>2, Shapes DEF OpenAttach, TypeOK
  <2>2. /\ cursor' = [cursor EXCEPT ![v] = [Out EXCEPT !.at = "ready", !.pos = Edge,
                                                       !.from = Edge]]
        /\ UNCHANGED <<ring, fed>> /\ Edge = fed
    BY <1>2, Shapes DEF OpenAttach
  <2>3. place[v] = -1 /\ place' = [place EXCEPT ![v] = fed]
    BY <2>1, <2>2, Shapes DEF Attached, Place, Out
  <2> QED BY <2>2, <2>3 DEF Feed!Join, Feed!Away, Feed!Next, Place
<1>3. CASE Leave(v)
  <2>1. place' = [place EXCEPT ![v] = -1]
    BY <1>3, Shapes DEF Leave, Place, Out
  <2> QED BY <1>3, <2>1 DEF Leave, Feed!Leave, Feed!Away, Feed!Next, Place
<1>4. CASE Register(v) \/ Inspect(v)
  <2>1. /\ v \in Attached /\ cursor' = [cursor EXCEPT ![v] = cursor'[v]]
        /\ UNCHANGED <<ring, fed>> /\ cursor'[v].at # "out"
    BY <1>4, Turned
  <2>2. cursor'[v].pos \in Nat /\ cursor'[v].pos <= fed
    <3>1. v \in Attached'
      BY <2>1 DEF Attached
    <3>2. cursor'[v] \in Cursors /\ cursor'[v].pos <= Edge' /\ Edge' = fed'
      BY <3>1, Shapes DEF Attached, IInv, Inside, GapsAreEvicted, RingAligned, TypeOK, Cursors
    <3> QED BY <2>1, <3>2 DEF Cursors
  <2>3. cursor[v].pos <= cursor'[v].pos
    BY <1>4, Turned
  <2>4. cursor'[v].pos \in cursor[v].pos..fed /\ cursor[v].at # "out"
    BY <2>1, <2>2, <2>3, Attended, Shapes
  <2> QED BY <2>1, <2>4, GivesOrStays
<1> QED BY <1>1, <1>2, <1>3, <1>4 DEF Viewer

(***************************************************************************)
(* The ring, the pump and the cursors are the feed a viewer is promised:   *)
(* each of their steps is one of the feed's or changes nothing it tells    *)
(* of.                                                                     *)
(***************************************************************************)
THEOREM FanoutIsAFeed == Spec => ImplementsFeed
<1> DEFINE feed == <<fed, ring.closed, [v \in Viewers |-> IF cursor[v].at = "out" THEN -1
                                                          ELSE cursor[v].pos]>>
<1>1. Init => Feed!Init
  BY DEF Init, Out, Feed!Init, Feed!Away
<1>2. IInv /\ IInv' /\ [Next]_vars => [Feed!Next]_feed
  <2> SUFFICES ASSUME IInv, IInv', [Next]_vars PROVE [Feed!Next]_feed
    OBVIOUS
  <2>1. CASE PumpTop \/ PumpEnd \/ PumpDrop \/ UNCHANGED vars
    BY <2>1 DEF PumpTop, PumpEnd, PumpDrop, vars
  <2>2. CASE PumpClose
    BY <2>2, Shapes DEF PumpClose, Feed!Finish, Feed!Next
  <2>3. CASE PumpNotify
    <3>1. \A v \in Viewers : cursor'[v].at = cursor[v].at /\ cursor'[v].pos = cursor[v].pos
      BY <2>3, Shapes DEF PumpNotify, Cursors
    <3> QED BY <2>3, <3>1 DEF PumpNotify
  <2>4. ASSUME NEW n \in 1..PumpChunk, PumpRead(n) PROVE Feed!Feed
    <3>1. ring'.closed = ring.closed /\ ~ring.closed
      BY <2>4, Shapes DEF PumpRead, Appended, IInv, ClosedLast
    <3>2. fed' = fed + n /\ n \in Nat \ {0} /\ fed \in Nat /\ cursor' = cursor
      BY <2>4, Shapes, FanoutAssumption DEF PumpRead
    <3> QED BY <3>1, <3>2 DEF Feed!Feed
  <2>5. ASSUME NEW v \in Viewers, Viewer(v) PROVE [Feed!Next]_feed
    BY <2>5, ViewerImplements DEF Place
  <2> QED BY <2>1, <2>2, <2>3, <2>4, <2>5 DEF Next, Pump, Feed!Next
<1> QED BY <1>1, <1>2, FanoutInvariant, PTL DEF Spec, ImplementsFeed, Feed!Spec
=============================================================================
