-------------------------------- MODULE Lossy --------------------------------
(***************************************************************************)
(* The slot a lossy source is opened through: Lossy::open of               *)
(* src/raw_stream.rs, the guarded open of src/raw_stream/guarded.rs it     *)
(* awaits on a FIFO, and the sessions it starts one after another.         *)
(*                                                                         *)
(* Fanout models one session byte by byte; here a session is where its     *)
(* pump is and who is attached.  The slot is behind a mutex held across    *)
(* the open's await, served in the order of arrival: the dial that holds   *)
(* it is the first of the queue.                                           *)
(***************************************************************************)
EXTENDS Naturals, SequencesExt

CONSTANTS
  Dials,     \* the dials of the source
  Rings      \* the sessions that may have a pump or a viewer at a time

ASSUME LossyAssumption == IsFiniteSet(Dials)

VARIABLES
  fifo,      \* whether the source is a FIFO, or a reader that is there once
  slot,      \* LossyState: whether the opener is armed, and the session kept
  queue,     \* the dials at the mutex, the holder first
  dial,      \* where each dial is, and the session it is attached to
  pump       \* each session's pump

vars == <<fifo, slot, queue, dial, pump>>

Idle == [phase |-> "idle", on |-> {}]
Viewing(k) == [phase |-> "viewing", on |-> {k}]

Init ==
  /\ fifo \in BOOLEAN
  /\ slot = [armed |-> TRUE, fanout |-> {}]
  /\ queue = <<>>
  /\ dial = [d \in Dials |-> Idle]
  /\ pump = [k \in Rings |-> "none"]
-----------------------------------------------------------------------------
(* Helpers *)

ViewersOf(k) == {d \in Dials : dial[d].on = {k}}

\* A session nobody can reach any more, whose place another may take.
Spare(k) == pump[k] \in {"none", "closed"} /\ ViewersOf(k) = {} /\ slot.fanout # {k}

\* Mutants: a session is over once its pump left its loop, or once nobody
\* watches.
OverOnceLeaving(k) == pump[k] \in {"leaving", "dropped", "closed"}
OverUnwatched(k) == pump[k] = "closed" \/ ViewersOf(k) = {}

\* Fanout::open refuses: the ring is closed.
Over(k) == pump[k] = "closed"

Holds(d) == queue # <<>> /\ queue[1] = d
Asks(d)  == Holds(d) /\ dial[d].phase = "asking"

NeedsOpen == \A k \in slot.fanout : Over(k)

Become(d, state) == dial' = [dial EXCEPT ![d] = state]
Release == queue' = Tail(queue)

\* A dropped stream gives up the mutex, or its place in the line for it.
Unqueue(d) ==
  IF dial[d].phase \in {"asking", "opening"}
  THEN \E i \in DOMAIN queue : queue[i] = d /\ queue' = RemoveAt(queue, i)
  ELSE UNCHANGED queue
-----------------------------------------------------------------------------
(* A dial *)

Ask(d) ==
  /\ dial[d].phase = "idle"
  /\ Become(d, [phase |-> "asking", on |-> {}])
  /\ queue' = Append(queue, d)
  /\ UNCHANGED <<fifo, slot, pump>>

Attach(d) ==
  /\ Asks(d)
  /\ \E k \in slot.fanout : ~Over(k) /\ Become(d, Viewing(k))
  /\ Release
  /\ UNCHANGED <<fifo, slot, pump>>

\* A new Fanout, whose first consumer starts its pump.
StartSession(d) ==
  \E k \in Rings :
    /\ Spare(k)
    /\ slot' = [armed |-> FALSE, fanout |-> {k}]
    /\ pump' = [pump EXCEPT ![k] = "top"]
    /\ Become(d, Viewing(k))
    /\ UNCHANGED fifo

\* The reader that is there once is taken, and never restored.
TakeReady(d) ==
  /\ ~fifo
  /\ Asks(d)
  /\ slot.armed
  /\ StartSession(d)
  /\ Release

RefuseEnded(d) ==
  /\ ~fifo
  /\ Asks(d)
  /\ slot.fanout # {}
  /\ NeedsOpen
  /\ Become(d, Idle)
  /\ Release
  /\ UNCHANGED <<fifo, slot, pump>>

Rearmed == [armed |-> TRUE, fanout |-> {}]

\* Mutant: the opener is taken before the open that may fail.
OpenPathTaking(d) ==
  /\ fifo
  /\ Asks(d)
  /\ NeedsOpen
  /\ slot' = [Rearmed EXCEPT !.armed = FALSE]
  /\ Become(d, [phase |-> "opening", on |-> {}])
  /\ UNCHANGED <<fifo, queue, pump>>

\* A finished session is dropped and the opener restored, whatever the open
\* then gives; the FIFO is open at once and waits for a writer.
OpenPath(d) ==
  /\ fifo
  /\ Asks(d)
  /\ NeedsOpen
  /\ slot' = Rearmed
  /\ Become(d, [phase |-> "opening", on |-> {}])
  /\ UNCHANGED <<fifo, queue, pump>>

\* No such path, not a FIFO, a symlink: guarded::open_path refuses.
OpenRefused(d) ==
  /\ fifo
  /\ Asks(d)
  /\ NeedsOpen
  /\ slot' = Rearmed
  /\ Become(d, Idle)
  /\ Release
  /\ UNCHANGED <<fifo, pump>>

WriterComes(d) ==
  /\ dial[d].phase = "opening"
  /\ StartSession(d)
  /\ Release

\* Mutant: the mutex stays held after a wait that fails.
WriterLateHolding(d) ==
  /\ dial[d].phase = "opening"
  /\ Become(d, Idle)
  /\ UNCHANGED <<fifo, slot, queue, pump>>

\* No writer within RAW_STREAM_OPEN_TIMEOUT: the fd is dropped.
WriterLate(d) ==
  /\ dial[d].phase = "opening"
  /\ Become(d, Idle)
  /\ Release
  /\ UNCHANGED <<fifo, slot, pump>>

\* The stream is dropped wherever it is: in the queue, mid-open, attached.
Drop(d) ==
  /\ dial[d].phase # "idle"
  /\ Become(d, Idle)
  /\ Unqueue(d)
  /\ UNCHANGED <<fifo, slot, pump>>
-----------------------------------------------------------------------------
(* A session's pump *)

\* Life::released is asked at the top of each turn, under WhileWatched only.
Turn(k) ==
  /\ pump[k] = "top"
  /\ pump' = [pump EXCEPT ![k] = IF fifo /\ ViewersOf(k) = {} THEN "leaving" ELSE "reading"]
  /\ UNCHANGED <<fifo, slot, queue, dial>>

\* The source gives bytes, or its end.
SourceGives(k) ==
  /\ pump[k] = "reading"
  /\ \E next \in {"top", "leaving"} : pump' = [pump EXCEPT ![k] = next]
  /\ UNCHANGED <<fifo, slot, queue, dial>>

DropSource(k) ==
  /\ pump[k] = "leaving"
  /\ pump' = [pump EXCEPT ![k] = "dropped"]
  /\ UNCHANGED <<fifo, slot, queue, dial>>

Close(k) ==
  /\ pump[k] = "dropped"
  /\ pump' = [pump EXCEPT ![k] = "closed"]
  /\ UNCHANGED <<fifo, slot, queue, dial>>
-----------------------------------------------------------------------------
Answer(d) ==
  \/ Attach(d) \/ TakeReady(d) \/ RefuseEnded(d)
  \/ OpenPath(d) \/ OpenRefused(d) \/ WriterLate(d)

Next ==
  \/ \E d \in Dials : Ask(d) \/ Answer(d) \/ WriterComes(d) \/ Drop(d)
  \/ \E k \in Rings : Turn(k) \/ SourceGives(k) \/ DropSource(k) \/ Close(k)

Spec == Init /\ [][Next]_vars

\* The holder of the mutex is polled and its wait for a writer times out.
FairSpec == Spec /\ \A d \in Dials : WF_vars(Answer(d))
-----------------------------------------------------------------------------
(* Properties *)

Pumping == {"top", "reading", "leaving"}

Waiting == {d \in Dials : dial[d].phase \in {"asking", "opening"}}

\* The type invariant: a dial is in the queue, once, exactly while it holds or
\* waits for the mutex.
TypeOK ==
  /\ fifo \in BOOLEAN
  /\ slot \in [armed : BOOLEAN, fanout : {{}} \cup {{k} : k \in Rings}]
  /\ \A k \in slot.fanout : pump[k] # "none"
  /\ pump \in [Rings -> {"none", "dropped", "closed"} \cup Pumping]
  /\ dial \in [Dials -> [phase : {"idle", "asking", "opening", "viewing"},
                         on : {{}} \cup {{k} : k \in Rings}]]
  /\ \A d \in Dials : dial[d].phase = "viewing" <=> dial[d].on # {}
  /\ \A d \in Dials : dial[d].phase = "opening" => Holds(d)
  /\ queue \in Seq(Dials)
  /\ IsInjective(queue)
  /\ Range(queue) = Waiting

(***************************************************************************)
(* "A session that ended can be re-armed without ever having two readers   *)
(* of one source": of the sessions and the open in flight, at most one     *)
(* holds a reader, or the readers of a FIFO would split its bytes.  A      *)
(* reader that is there once is read by one session, ever: after its end   *)
(* a dial is refused.                                                      *)
(***************************************************************************)
OneReader ==
  /\ Cardinality({k \in Rings : pump[k] \in Pumping})
       + Cardinality({d \in Dials : dial[d].phase = "opening"}) <= 1
  /\ ~fifo => Cardinality({k \in Rings : pump[k] # "none"}) <= 1

(***************************************************************************)
(* Viewers of a feed that is not over share one ring: a viewer attached to *)
(* a session the slot no longer keeps is draining one that is closed.      *)
(***************************************************************************)
OneRing ==
  \A d \in Dials :
    dial[d].on \subseteq slot.fanout \/ \A k \in dial[d].on : pump[k] = "closed"

(***************************************************************************)
(* A source is read once and shown once: OneReader and OneRing together.   *)
(***************************************************************************)
OneLiveSession == OneReader /\ OneRing

(***************************************************************************)
(* "A failed or cancelled attempt never disarms the source": at every      *)
(* moment, mid-open included, either a session is kept or the opener is    *)
(* armed, so no dial ever finds the source not armed; and the mutex is     *)
(* held by the dial whose turn it is, as TypeOK says.                      *)
(***************************************************************************)
StaysArmed ==
  /\ TypeOK
  /\ slot.armed <=> slot.fanout = {}
  /\ ~fifo => (slot.armed <=> \A k \in Rings : pump[k] = "none")

(***************************************************************************)
(* Every dial is answered, though dials queue behind waits for a writer    *)
(* that never comes, and any of them may be dropped with the mutex held.   *)
(***************************************************************************)
DialsAreAnswered ==
  \A d \in Dials :
    dial[d].phase \in {"asking", "opening"} ~> dial[d].phase \in {"idle", "viewing"}
=============================================================================
