------------------------------- MODULE Meter -------------------------------
(***************************************************************************)
(* The holder's stall gauge (src/raw_stream/seat.rs, Meter and Gauge): the *)
(* writer toward the holder's peer publishes the outcome of every write,   *)
(* and the seat asks, when another peer dials, whether the holder may be   *)
(* displaced.  Time is in ticks; several writes may fall on one tick.      *)
(***************************************************************************)
EXTENDS Integers

CONSTANTS
  StallWindow,    \* STALL_WINDOW: how long a window stays open to count
  StallClear,     \* STALL_CLEAR: how long without a refusal closes one
  StallMinBytes,  \* STALL_MIN_BYTES: the bytes that restart a window
  MaxTake,        \* bound of the model: the most bytes one write takes
  MaxTime         \* bound of the model: the last tick

VARIABLES
  now,
  writer,   \* Gauge.writer: what the last writes were answered
  window,   \* Gauge.window: at most one window, as a set
  taken,    \* history: the bytes taken up to each tick, that one included
  waited    \* history: the ticks on which the writer waited on the peer

vars == <<now, writer, window, taken, waited>>

Unrefused     == [state |-> "unrefused", since |-> 0]
Refused       == [state |-> "refused",   since |-> 0]
ClearSince(t) == [state |-> "clear",     since |-> t]
Window(t, b)  == [opened |-> t, taken |-> b]

\* The type invariant; a window that took STALL_MIN_BYTES has restarted.
TypeOK ==
  /\ now \in 0..MaxTime
  /\ writer \in {Unrefused, Refused} \cup {ClearSince(t) : t \in 0..MaxTime}
  /\ window \in {{}} \cup {{Window(t, b)} : t \in 0..MaxTime,
                                            b \in 0..(StallMinBytes - 1)}
  /\ taken \in [0..MaxTime -> Nat]
  /\ waited \subseteq 0..MaxTime

Init ==
  /\ now = 0
  /\ writer = Unrefused
  /\ window = {}
  /\ taken = [t \in 0..MaxTime |-> 0]
  /\ waited = {}

\* Mutant: a window, once opened, stays open.
WindowEver == window # {}

\* Gauge::open
WindowOpen ==
  /\ window # {}
  /\ \/ writer = Refused
     \/ writer.state = "clear" /\ now - writer.since < StallClear

\* Meter::preemptible
Preemptible ==
  WindowOpen /\ \E w \in window : now - w.opened >= StallWindow

\* Meter::record of a write the peer has no credit for.
RecordPending ==
  /\ writer # Refused
  /\ writer' = Refused
  /\ window' = IF WindowOpen THEN window ELSE {Window(now, 0)}
  /\ waited' = waited \cup {now}
  /\ UNCHANGED <<now, taken>>

\* A window with `b` more bytes taken in it, restarted when they suffice.
Credited(w, b) ==
  IF w.taken + b >= StallMinBytes THEN Window(now, 0)
                                  ELSE Window(w.opened, w.taken + b)

\* History: the bytes taken before tick `t`.
Before(t) == IF t = 0 THEN 0 ELSE taken[t - 1]

\* History: of one tick, no more bytes are counted than restart a window.
Counted(b) ==
  IF taken[now] + b > Before(now) + StallMinBytes THEN Before(now) + StallMinBytes
                                                  ELSE taken[now] + b

\* Meter::record of a write that took `b` bytes.
RecordTaken(b) ==
  /\ writer' = IF writer = Refused THEN ClearSince(now) ELSE writer
  /\ window' = {Credited(w, b) : w \in window}
  /\ taken' = [taken EXCEPT ![now] = Counted(b)]
  /\ UNCHANGED <<now, waited>>

Tick ==
  /\ now < MaxTime
  /\ now' = now + 1
  /\ taken' = [taken EXCEPT ![now + 1] = taken[now]]
  /\ waited' = IF writer = Refused THEN waited \cup {now + 1} ELSE waited
  /\ UNCHANGED <<writer, window>>

Next == RecordPending \/ (\E b \in 1..MaxTake : RecordTaken(b)) \/ Tick

Spec == Init /\ [][Next]_vars
-----------------------------------------------------------------------------
(* What the gauge is judged against: what really happened *)

TakenIn(from, to) == taken[to] - Before(from)

\* A holder that starves its source: over the last stall window it took
\* fewer bytes than restart one, and it was never free of refusals for a
\* whole clear period.
StarvedItsSource ==
  /\ now >= StallWindow
  /\ TakenIn(now - StallWindow + 1, now) < StallMinBytes
  /\ \A t \in (now - StallWindow)..(now - StallClear) :
       waited \cap (t..(t + StallClear)) # {}

\* A writer refused for a whole stall window without a byte taken.
Stuck ==
  /\ writer = Refused
  /\ now >= StallWindow
  /\ (now - StallWindow)..now \subseteq waited
  /\ TakenIn(now - StallWindow, now) = 0
=============================================================================
