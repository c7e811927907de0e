# Tightbeam: verification project

tightbeam exposes named services on a peer-to-peer node and lets other peers
dial them, each stream under its own ruling. These modules model the code under
`src/` and `tightbeam-handler/src/`; line numbers are in `PROJECT.json` ("map"),
which names the code each definition stands for.

## The system

| Part | Code | State it keeps | Operations | Hard because |
|---|---|---|---|---|
| Serving | `src/tunnel/exposer.rs`, `admit.rs` | the sessions of the run loop; per session its in-flight streams, its public permit, its record; the node's pools | accept a session, accept a stream, read, rule, dispatch, open, record, answer, serve, refuse, time out, sweep, cancel | every await is a point where the operator, the clock and other streams act; permits are held by scopes, not by calls |
| Admission and interlocks | `admit.rs`, `router.rs`, `tightbeam-handler/src/open_policy.rs`, `contract.rs`, `bridge.rs` | the route table and overlays, fixed once proved | bind, prove, resolve a name, rule, mint a proof | a stream's authority is decided in five places, each sound only because another refused some table |
| Live cut | `src/tunnel/cut.rs` | each session's `AdmittedChains`: ids, roots, anchors, peer, lease | record a grant, sweep, cut | the record stands for many grants at once, taken in any order, against a store that changes |
| `stdin:` seat | `src/raw_stream/seat.rs` | `Cell` (armed, held, handing, spent); one reader; a stall gauge per holder | claim, hand back, displace, time out, end | the reader is given back by destructors, handed through a channel that may be dropped, and lost for good if it ever falls on the floor |
| Lossy fan-out | `src/raw_stream_fanout.rs`, `src/raw_stream.rs` | a ring, its pump task, a lifetime shared with the cursors, the slot of a `+lossy` source | open, append, read, lag, end | readers at different places of a ring that overwrites itself; the last reader's drop races the next open |
| Raw-stream opens | `src/raw_stream.rs`, `src/raw_stream/guarded.rs` | none between opens; per reader a descriptor and the readiness the reactor remembers | check at serve time, guarded open of a file or a FIFO, wait for a writer, read | what is checked may change before it is used; a FIFO reports a change once, and its end whenever nobody writes |
| Disabled list | `src/enabled.rs` | the names read last, the stamp they were read at, the last stat | load, refresh, ask | a cached copy of a file other processes write |
| Connector | `src/tunnel/connector.rs` | a session, a local listener and its connections | preflight, request, forward, bridge | one connection failing must not take the others |
| Catalog, manifest | `src/tunnel/catalog.rs`, `exposer.rs`, `router.rs` | none | state each service's posture | what it declares must be what admission does |
| Wire TB04 | `src/protocol.rs`, `tightbeam-handler/src/wire.rs`, `service.rs` | none | write and read a request, an answer, a typed frame | peers of another release; a frame cut short; the byte after a frame is payload; limits at their boundaries |
| Splice, stdio bridge | `src/lib.rs`, `src/builtins.rs`, `src/tunnel/admit.rs` | the two halves of a stream; whether anything was said; one stdin thread and channel per process | copy, half-close, hand stdin over in chunks | end of input on one side while the other goes on; bridges that share one stdin |
| Identity, peer, security, config, duration, command line | the rest of `src/` | files | parse, print, load | sequential |
| External | bifrost (transport), nauthy (gate, capabilities, denylist) | connections; revocations, trusted root | accept, open; admit, revoke | modelled from how `src/` uses them |

How they interact: `Exposer::run` polls every session and every session polls
its streams, all in ONE task, so between two awaits a stream runs alone. The
streams of a session share its record and its public permit; all sessions share
the pools, the gate's store and the disabled list. The operator writes that store
and that list from other processes. A raw stream's open goes through the seat or
the fan-out slot, which the streams of all sessions share.

## Modules

| Module | Models | Kind |
|---|---|---|
| `Routes` | route table, exposure markers, `Router` binds, `Exposer::prove`, name resolution, the path `admit` takes | operators |
| `Chains` | capabilities, grants, `AdmittedChains`, `Lease`, `Cuts`; the gate's questions (external) | operators |
| `Serving` | the run loop, sessions, streams, admission, deadlines, the sweep; EXTENDS `Routes` and `Chains` | state machine |
| `MCServing` | small nodes, capabilities and requests for TLC | model |
| `SingleSource` | what the seat promises: one source, one owner | abstract specification |
| `Seat` | the seat's cell, claims, guards and channels; implements `SingleSource` | state machine |
| `Meter` | the holder's stall gauge, on a clock | state machine |
| `MeteredSeat` | the seat judging its holder by the gauge; composes `Seat` and `Meter`, implements `Seat` | state machine |
| `Paths` | a `file:` or `fifo:` source, one system call at a time, while its path changes | state machine |
| `Wire` | the request, the answer and the typed frame, written and read | operators |
| `Stream` | one call from the local client to the service and back: both ends' frames, handlers and splices; EXTENDS `Wire` | state machine |
| `Broadcast` | what a lossy source promises its viewers | abstract specification |
| `Fanout` | one session of a lossy source: ring, pump, lifetime, cursors, one lock at a time; implements `Broadcast` | state machine |
| `Lossy` | the slot sessions are opened and re-armed through, over the sessions `Fanout` details | state machine |
| `DisabledList` | the cached copy of the disabled file, against its writers | state machine |
| `Router` | the builder's verbs up to `expose`; EXTENDS `Routes` | state machine |
| `MCRouter`, `MCMeteredSeat`, `MCPaths`, `MCStream` | verbs, entries, dials, peers, objects and calls for TLC | model |
| `Forward` | the dialing side: preflight, the port forward's loop and pipes, `open_on` | state machine |
| `Stdio` | stdio bridges over the one stdin thread | state machine |
| `ServingProofs`, `SeatProofs` (with the gauge), `PathsProofs`, `ConnectorProofs` (forward and stdio bridges), `NodeProofs` (router and disabled list), `LossyProofs`, `FanoutProofs`, `StreamProofs` | theorems | proofs |

### Serving

`session[s]` is the frame of `serve_session`: whether it is live and accepting,
whether the sweep woke it, whether it holds the public-session permit, and
whether a handler handed a half of one of its streams to a task of its own.
`pipe[s][i]` is one `serve_request` future: where it is (reading the request,
writing a refusal, opening a raw source, writing the Ok, serving) and the grant it
was admitted on. `permits[pool]` says which streams hold a permit of the three
semaphores of the node; each action takes and gives back what its code does, and a
stream's future that ends gives back all it holds (`Leave`), by any path. A
session's public permit is `session[s].public`. `chains[s]` is the record;
`served[s]` is history: the grants answered Ok.

A step is what runs between two awaits. Reading a request, ruling on it,
dispatching, preparing, recording and starting the Ok write happen in one step
(`AnswerHandler`), because no await separates them; a raw open is an await, so
admission (`OpenRaw`) and record (`RawOpened`) are two steps and anything may
fall in between. Writing a refusal and writing the Ok may park on the peer's
credit, so they are phases of their own that hold the stream's permits.

Abstractions. A capability is its revocation ids, its root, its expiry, whether
that can be read, what it grants and to whom. A clock instant is a small
number. The lease is a set of at most one instant: `Unruled` and `Unbounded`
are both empty, since no answer of the cut tells them apart. The cut's oracle is
the node's own store and trusts the pinned root alone, the wiring
`with_live_cuts` is for. The set of keys a proven-only route knows does not
change. Member-only routes are never raw: the one builder that could make them
so is compiled for tests only. The gate may always refuse on the rooted path
(it may run out of time to decide). The bytes of requests are left out: a
request is read, unreadable, refused as malformed, or one of `Offers`.
`Restart` is the cancel token firing and the node run again: only the store and
the disabled list persist.

### Seat, Meter and MeteredSeat

`cell` is `Cell`; `phase`, `lent`, `grant` and `preempted` are, per dial, where
its claim stands, whether its `SeatReader` has the reader, what its hand-off
channel holds and whether its preempt channel fired. `Drop` of a guard is part
of every step that ends a serve. In `Seat` the gauge's verdict, `stalled`, may
change at any moment. `Meter` is the gauge: the window the writer's refusals open, the
bytes taken since, the clock; as history it keeps the bytes taken up to each tick and
the ticks on which the writer waited. A step of
`MeteredSeat` is a step of the seat, or one write of the holder's `Metered` (or a
tick) with `stalled` set to what `preemptible` would then answer; it implements
`Seat`. One gauge stands for the one each `Seated` carries, since one dial serves at
a time (`Alone` in `SeatProofs`) and a serve starts a new one.

### Paths

The steps are the system calls: `lstat` at serve time (`Serve`), `open`, `fstat`,
registration with the reactor, the wait for readiness against its timer, and each
`read`. Between any two the operator replaces what is at the path (`Replace`), and
a FIFO's writer opens, writes and leaves. `fd` is the object behind a dial's
descriptor, `ready` the readiness `AsyncFd` remembers. That the kernel reports a
change once, keeps a FIFO's bytes while any descriptor is open and reports the end
whenever no writer is there is external. The object a symlink leads to is
`TargetOf`; no code follows one, and a mutant does.

### Wire and Stream

A byte is a number and a length field is one number up to `MaxString`. A reader is
an operator on the bytes that have arrived: what it read and what is left, that it
needs more, or why it fails; it never takes a byte past its field. `Stream` has
six directions of bytes, the two of the tunnel stream and two each of the client's and
the service's sockets, each with what is in flight, how it ended and whether anybody
still reads it. Each end writes its frame byte by byte, reads the other's, and splices:
two copies joined, the first to fail dropping the other. A writer dropped on the tunnel
is a clean end, because the transport has no reset; a lost session is not. `moved` is
`FirstTraffic`. The host rules as it likes, for admission is `Serving`'s. A client
of another release sends another magic. Two things the model keeps because the code
does: a write toward an end that refused and went may fail before the refusal is read,
so a skewed dialer's longer request may end in a broken stream and not in the answer;
and an end whose direction from the peer already closed is not woken by a lost session
while its own local side says nothing. `CallEnds` claims neither.

### Fanout and Lossy

`Fanout` follows the three locks one by one: the ring's, the lifecycle's and the
notifier's own. The pump is a program counter (top, reading, notify, leaving,
dropped, announce, done); a cursor is where `poll_read` is and whether its
`Notified` is absent, registered or woken. `untilEof` picks one of the two
lifetimes and never changes. Bytes are their offsets in the source, so that a
misplaced one shows. `Lossy` keeps, of a session, only where its pump is and who is
attached, and adds what lies around it: the mutex held across an await (its queue
is `queue`, the holder first), the opener, the guarded open of a FIFO and its wait
for a writer, and dials dropped anywhere. `Rings` is the number of sessions that
may have a pump or a viewer at a time; a closed one nobody views is reused.

### DisabledList

The loader's system calls are one step each (open, read, stamp; stat, then read),
and the writers act between any two. A modification time is a clock that never
runs back, and two writes never share an instant. `inPlace` says whether a writer
may edit the file it finds, or only replaces it whole; it never changes.
A file deleted while the node is down leaves an empty list at the next start, as
the documentation says; what never happens is that a running node forgets.

### Router

One action per verb, each failing as the code fails (`Fail` poisons the builder).
Target strings are the members of `Entries`: a scheme, whether it names a path and
what it resolves to. `Posture` is what a manifest or a catalog says; `Answers` is
what admission then does with a kind of dialer.

### Forward

A forward is one task, so `pipe[c]`, a local connection's future, moves only in a step
the select can take (`Polled`). `queued` is the kernel's backlog; `opening` waits for
the peer to grant a stream; `asking` has sent its request and waits for the answer;
`carrying` is the splice; in `ended` both sides are done and the splice has yet to be
polled. A stream counts at the peer until its pipe is released. `session.is` and
`call[k].is` are who is really at the other end, beside the peer a session claims to
reach: on a transport that proves its peers they are the same, on one that does not
they may differ. `dialer` picks, once, whether the transport proves and whether the
connector presents a credential. `sent` is history. The streams of `open_on` stand for
those of a `ServiceSession` too, whose session is one to the dialed peer. A failed
accept may or may not cost the connection it was for; kernels differ.

### Stdio

The thread, its channel of one chunk and the bridges' mutex are one step per await or
blocking call; a bridge that ends gives up the mutex or its place in the line for it
(`Unlock`). What the properties say of chunks they say of sets: what a peer was given,
what is in a hand, in the channel, in the thread's. A chunk or a piece of a peer's
output is its place in its stream, and chunk 0 is a read error. `held` is what
`io::copy` read from the peer and stdout has not accepted. Once admitted a bridge may be
dropped at any point.

## Runs

| Run | Bounds | Shows |
|---|---|---|
| `MCServingCut` | 2 sessions over a node that takes one at a time, 2 streams, 5 capabilities (one bound to a foreign authority, one whose expiry cannot be read), 9 requests over every path, pools of 1, ceiling of 4 ids, 1 tick of the clock past the first expiry, one recall of an id or a key, a re-pin | the cut is exact: `CutIsExact`, `RecordExact`, `LeaseOnlyShortens`, `StrangersAreNotCut`; every refusal inside: `WitnessFits`, `PoolsHold` |
| `MCServingPools` | 2 sessions at once, 1 stream each, 2 requests, pools of 1, a name toggled, one key revoked, fair | contention: `PoolsHold`; `NothingLingers` |
| `MCMeteredSeat` | 3 dials of 2 peers; 4 ticks, window 3, clear 2, 2 bytes restart a window; fair | `ReaderIsAccountedFor`, `AnswersAreTrue`, `DisplacedForCause`, `WaitEnds`, and the refinements `ImplementsSource` and `ImplementsSeat` |
| `MCFanout` | 2 viewers, ring of 2 bytes, appends of up to 3, 3 bytes in all, both lifetimes | `GapsAreEvicted`, `NobodySleepsThrough`, `OnlyTheUnwatchedAreLetGo`, and the refinement `ImplementsFeed` |
| `MCLossy` | 3 dials, 3 sessions, a FIFO and a stdin, fair | `OneLiveSession`, `StaysArmed`, `DialsAreAnswered` |
| `MCPaths` | 2 dials, a file, a FIFO, a symlink and a device at one path, a file of 1 byte, a FIFO that holds 2, both schemes, fair | `OnlyWhatIsNamed`, `BannerAgrees`, `RestsWhenQuiet`, `NoInstantEnd`, `DialsSettle` |
| `MCStream` | 9 dials: every handler by this build, a request that fills its fields, one that overflows them, another release, a longer identity; 2 bytes each way, fair | `PayloadArrives`, `AnswersAreUnderstood`, `SilenceCutsNothing`, `CallEnds` |
| `MCDisabledList` | 2 services, 3 writes, writers that replace, delete and edit, fair | `StampTellsTheTruth`, `FailsClosed`, `TogglesGoLive` |
| `MCRouter` | 3 names, every verb | `RoutesAreReal`, `PostureIsFaced`, `StrangersAreKeptOut` |
| `MCForward` | 3 connections, cap of 2, 1 stream of the peer, 1 call, 2 peers, fair | `CredentialsStayHome`, `ForwardGoesOn` |
| `MCStdio` | 2 bridges, 3 chunks, 1 piece of output each, fair | `BytesKeepToTheirBridge`, `DoneWithTheService` |
| `MCStdioDrain` | 1 bridge, 1 chunk, 2 pieces | the finding below |

Some of these conjoin two statements with names of their own: `CutIsExact` is
`NoStreamEscapes` and `NoSpuriousCut`; `NothingLingers` is `CutEnds`, `DrainedEnds` and
`BoundedWaitsEnd`; `ReaderIsAccountedFor` is `ReaderInOnePlace` and
`SeatKnowsItsHolder`; `OneLiveSession` is `OneReader` and `OneRing`; `RoutesAreReal` is
`OnlyBindable` and `NoDeadRoute`; `BytesKeepToTheirBridge` is `OneTaker` and
`NothingSkippedWhileOpen`; `PayloadArrives` is `PayloadIsUntouched` and `CleanEndIsWhole`.

Why the bounds suffice: the cut's state is per session, and its answers depend on unions
and minima of grants, which two streams with overlapping ids and different expiries
already distinguish; with one session live at a time, a second one waits at the node's
cap, and either may be the one that is served. Four ids are fewer than the requests
bring together, so a record meets its ceiling. The operator recalls once in a run
(`MaxRecalls`) and may re-pin any number of times; the clock goes once (`MaxTime`), from
an instant at which every capability is good to one past the first expiry, which is the
last good instant of the second. Two streams over pools of one are one that holds a
permit and one that finds none. In `MCServingPools` the two are of two sessions, so that
one may get the stream's permit and be refused its session's. Pools of any size are
`PoolsAreKept`'s. A hand-off of the seat involves a holder, a dial that waits and a dial
that finds the hand-off in flight, hence three dials, two of one peer; four ticks are a
whole stall window, the tick after it, and a clear period that ends inside one, and two
one-byte writes reach the minimum while one does not. An append of three bytes is longer
than the ring of two, so every way an append meets the ceiling occurs, and two viewers
let one lag while the other keeps the session watched. Three dials of a lossy source are
a holder, one queued behind it and a viewer of a session that is ending. Two dials of a
path are one that reads a FIFO and one that shares it, or that finds another object
there; a socket fails as the symlink does and a directory as the device does. Every
frame of `MCStream` is at, under and over its limits, and two bytes of payload after a
frame show one eaten, or two swapped. Three names let one route be opened, one be kept
and one be refused. Three connections over a cap of two and one stream are one carried,
one waiting for a stream and one in the backlog. Chunks alternate between two bridges
only from the third on; with one piece of output a gap in it cannot show in `MCStdio`,
and `BridgesKeepTheirBytes` proves there is none for any number. What the bounds cannot
show for all sizes, the theorems do.

The streams of a session are interchangeable, and so are two sessions of one peer, so
`MCServingCut` takes the permutations of both as symmetry, and `MCRouter` those of the
names; the runs that check liveness take none. `CHECK_DEADLOCK FALSE` is set where the
model has a last state the system would leave by something not modelled, or really
stops: the source's last byte (`MCFanout`), an exposed or failed table (`MCRouter`), a
forward that is over or was refused (`MCForward`), bridges that are all over (`MCStdio`,
`MCStdioDrain`), and a call both of whose ends are over (`MCStream`).

The type invariant is a conjunct of one of the properties checked, except in `Serving`
and `Seat`, where it is proved (`ServingTypeOK`, `SeatTypeOK`) and no run checks it.

Fairness. `Serving`: the sweep timer, a woken session's sweep, a drained session's
`else`, and the three deadlines (`REQUEST_READ_TIMEOUT`, `PROVEN_STREAM_DEADLINE`,
`FIRST_TRAFFIC_TIMEOUT`) are weakly fair: one task polls them all and timers fire.
`MeteredSeat`: a displaced serve and an answered claim are polled. `Paths`: a dial that
waits or reads is polled, and its wait's timer fires. `Stream`: each end's task is
polled, and so are the two copies it joins; neither deadline is assumed to fire.
`Lossy`: the dial whose turn it is at the mutex is polled, and `RAW_STREAM_OPEN_TIMEOUT`
fires. `DisabledList`: streams keep asking, so refreshes keep happening, and a read
error does not recur for ever (strong fairness of the read that succeeds). `Stdio`: a
bridge that holds the mutex is polled and stdout takes what it is given. `Forward`: an
arm of the select that stays ready is taken (tokio picks among ready arms at random),
the retry timer fires, an open the peer has room for resolves, and an accept does not
fail for ever (strong fairness). Nothing is assumed of peers, handlers, sources,
services, writers of a FIFO, local clients or whoever types on stdin, nor, in
`MeteredSeat`, of the clock or of the ten-second bound on a wait.

## Findings

* `NothingSaidIsLost` (run `MCStdioDrain`): in `pipe_stdio_bridge`, the end of local
  stdin makes the upstream arm of the `select!` win, which drops the downstream
  `io::copy`. That copy may already have read output that stdout, busy with an
  earlier write, has not taken; the copy that drains afterwards starts behind it and
  the bridge returns Ok with a hole in its output. The comment at
  `src/lib.rs:132-134` says nothing the peer still had to say is lost. While stdin
  stays open nothing is skipped: that is `NothingSkippedWhileOpen`.

Seen while modelling, and not run:

* `admit` classifies a session before dispatch (`src/tunnel/admit.rs:714`), so a
  public stream refused afterwards (a disabled name, a failed raw open) leaves its
  session a public-session permit until it closes; the comment at lines 707-708 says
  a refused stream never does. In `Serving`, `RefuseInside` takes the permit.
* The Ok frame of a handler stream is written before the first-traffic deadline is
  armed (`admit.rs:409`), so a peer that grants no credit for it is not bounded by
  it, where `src/tunnel/exposer.rs:73-74` says a silent handler stream is dropped.
  `BoundedWaitsEnd` therefore speaks of streams whose Ok was taken.
* A cursor that fell behind goes to the oldest byte the ring still has
  (`src/raw_stream_fanout.rs:360`), not to what the module's documentation calls the
  live edge; `GapsAreEvicted` states what the code does.
* A disabled file edited in place between the read of a load and its stamp keeps the
  old names under the new stamp (`src/enabled.rs:219`). `StampTellsTheTruth` and
  `TogglesGoLive` hold for writers that replace the file, and `FailsClosed` for all.

## Theorems

Assumed: the constants' assumptions (`ChainsAssumption`, `ServingAssumption`,
`PoolAssumption`, `PeerAssumption`, `MeterAssumption`, `PathsAssumption`,
`ForwardAssumption`, `StdioAssumption`, `RouterAssumption`, `DisabledAssumption`,
`LossyAssumption`, `FanoutAssumption`, `WireAssumption`, `StreamAssumption`), each
evaluated by the runs of its module. Of the sizes of sets only this is assumed:
sessions, streams, a capability's ids, a forward's local connections, a source's viewers
and its dials are finitely many.

* `ServingProofs`. The inductive invariant `SInv` is `TypeOK`,
  `Emptied` (a session that is over has no stream and no record) and `RecordExact`. `RecordExact` is the strengthening the
  cut needs: what the record says is, at every moment, the union of the grants
  served. Its step lemma splits each action into one that moves a slot
  (`Quiet`), one that answers a stream (`Answers`) and one that drops a
  session; `EarliestUnion` shows that the lease does not
  depend on the order of streams. `CutIsGate` then equates the cut's verdict on
  an exact record with the gate's on the grants it stands for; both
  halves of `CutIsExact` follow, one from each direction.
  `WitnessFits` holds from admission on, an open in flight
  included, which is what makes it inductive (`AllFit`). Its step rests on
  `AdmittedWorthy`: what admission, dispatch and the handler's marker let through
  together may face the target. That in turn needs the table's interlocks:
  `StrangersReach` reads off `Proves(Node)` what an open path can lead to, and
  `ProvenPath` that a proven-only name meets no other ruling.
  A handler may hand its proof on: `DelegationKeeps` shows that what the compiler lets
  it be handed to (`Compatible`) accepts whatever it accepted, so the mint that
  `Served::delegate` repeats never refuses, and `DelegationChains` that this goes for
  chains of delegations.
  `PoolsAreKept` says that a semaphore's permits are with exactly the streams they are
  for. A step of one stream leaves it with the permits of what it then uses
  (`Settles`), taken only where the code found room (`Claims`), which `SettledPool` turns
  into balance and bound; every other step takes both slots and permits away
  (`Shrinks`). What makes it inductive (`Capped`) is that a stream not yet ruled on is
  on no path (`Unruled`), so that what it takes is new, and `PublicIsClassified`: a
  stranger's stream runs in a session that holds a public permit, since the two permits
  are taken one after the other.
* `PathsProofs`. The inductive invariant `IInv` adds to the four invariants of the run
  what each rests on: that the verdict of `Serve` was the check of an object whose type
  never changes (`ShownIsChecked`), that a refusal has its cause (`RefusedForCause`),
  that a FIFO nobody has open is empty (`EmptyUnlessOpen`), and that a dial which met no
  writer and shares nothing has nothing to read (`UnmetWait`).
* `ConnectorProofs`. `CredentialsStayHome` needs, beside `TypeOK`, that on a proven
  transport every peer is who it claims to be (`Proven`). The type invariant's hard
  parts are the backlog, which stays injective over joins and leaves (`Joins`,
  `Leaves`), and the cap (`FewerHeld`, `OneMoreHeld`).
  For the stdio bridges the inductive invariant, also called `SInv`, adds to
  `BytesKeepToTheirBridge`: chunks on their way are in order from the hand to the
  thread (`InOrder`), the bridge that runs was given the newest chunks (`Newest`), one
  that has not run was given nothing (`Unstarted`), and, while stdin is open, what a copy
  has shown and what it holds count on without a gap up to what it read (`Showing`).
  Chunks move one place at a time, from the thread to the channel to a hand to a peer, or
  go with a bridge; `Flows` is what all those steps have in common.
* `SeatProofs`. The inductive invariant `IInv` is the conjunction of four
  (`TypeOK`, the two halves of `ReaderIsAccountedFor`, `AnswersAreTrue`): none is
  inductive alone, since who may be displaced depends on who holds the reader.
  `SeatImplementsSource` maps the owner of `SingleSource` to whoever has the reader.
  With the gauge (`MInv`) come that one dial serves at a time (`Alone`), that `stalled`
  is the gauge's answer for that dial (`Verdicts`), and what the gauge's state says of
  what happened (`GaugeInv`): the totals rise (`Rising`), the writer's state says on which tick it
  last waited (`Told`), a window counts every byte taken after the tick it opened on, and
  none could have opened earlier (`Opened`), and an open one has a refusal in every clear
  period (`Covered`). A
  window that has been open for a stall window is then starvation, and a writer stuck
  for one has such a window: the two directions of `DisplacedForCause`.
* `NodeProofs`. For the router the invariant is that the table is sound whatever the verbs do: it has
  its shape and holds only what `bind` lets in (`Sound`); and that an exposed one passed
  `prove` (`Proves`), since no verb touches it afterwards. `PathFaced` and
  `StrangersFace` then read off those two facts what a dialer meets on each path, and
  `SomebodyFaces` that every service has one it answers.
  For the disabled list, `StampTellsTheTruth` needs that no stamp is ahead of the clock
  (`StampsArePast`) and, when writers only replace the file, that an inode is
  written once and a loader's names are those of the inode it has open (`InodesAreFinal`).
  `FailsClosed` is read off the steps: only one that read the file changes the names.
* `LossyProofs`. What the mutex gives is that a dial waiting for a FIFO's writer is the
  first in line and finds nothing kept (`OpenIsRearmed`), and that a session whose pump
  runs is the one kept (`LiveIsKept`). With both, one reader and one ring follow from
  the slot's having one place; the line keeps its order through joins
  and dials dropped in the middle of it (`RemovedOne`).
* `FanoutProofs`. The three invariants of the run are inductive with three more: a viewer
  is between where it joined and the live edge (`Inside`), one that looked or rests has
  a registration or was woken (`Registered`), and a closed ring has a pump that will not
  read again (`ClosedLast`). An append is three pieces, what it evicts, what it
  skips and what it keeps: `AppendSizes` bounds them and the lemmas after it
  show that the ring stays a run of the source's bytes. `FanoutIsAFeed` maps every step to
  one of `Broadcast`'s or to none.
* `StreamProofs`. A reader is stated by what has not arrived: if the bytes `b` that have
  and the bytes `x` to come make `b \o x` what was written, the reader needs more, or it
  returns what was written and leaves the rest of `b` (`RequestRead`, `ResponseRead`,
  `FrameTaken`, from lemmas for a byte, a string, an optional field and the version).
  The inductive invariant `IInv` adds, to the shape (`Typed`) and to what
  each place of an end implies (`DialerStages`, `HostStages`): that an end which nothing
  failed passed on the end of its input only after all of it (`Clean`); that what was
  taken, what is in flight and what is to come are the whole script of each direction
  (`Flow`); that what a side was given is the beginning of that script, which survives
  failures (`Heard`, `Given`); and that before the first traffic nothing but frames
  moved (`Quiet`). What is to come is quantified, so that a step which carries nothing
  has one lemma (`StandsStill`) and one that carries a byte only names the new rest.

Every invariant of the passing runs and every action property and refinement is so
proved. Model-checked only: liveness under fairness, and with it whatever speaks of
ENABLED, which are out of TLAPS's reach (`NothingLingers`, `WaitEnds`, `DialsAreAnswered`,
`DialsSettle`, `CallEnds`, `TogglesGoLive`, `ForwardGoesOn`, `DoneWithTheService`).

## Not modelled, and why

* The grammars of names, addresses, durations and configuration, and the layout of the
  catalog a node sends: pure functions over bytes. That a name is malformed is an
  outcome of `Serving`, and that a typed service's payload is one of `Stream`.
* The gate, the capabilities and the revocation store (nauthy) and the transport
  (bifrost): external, modelled from what `src/` asks of them.
* In `Stream`, the credit that parks a write, which `Serving` has; a length is one byte
  and not two. That tokio latches an `AsyncFd`'s closed readiness is left out of
  `Paths`: it only wakes a reader more often than the model does.
* A node without a live cut (`HasCuts = FALSE`), which the model has and no run takes;
  the theorems hold for it.
* The stand-in for platforms without the guards of a raw open, which refuses all.
* The identity file, the command line, logging, scripts.

## Plan

Done: the serving core and its cut, the seat with its gauge, the lossy source, raw
paths, the wire and a stream from end to end, the disabled list, the router, the
forward, the stdio bridge; theorems of all of these.

Next: the catalog's layout against its two bounds.
