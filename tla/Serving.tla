------------------------------ MODULE Serving ------------------------------
(***************************************************************************)
(* The serving side of the tunnel: Exposer::run and serve_session          *)
(* (src/tunnel/exposer.rs), serve_request and admit (src/tunnel/admit.rs)  *)
(* and the live cut (src/tunnel/cut.rs).                                   *)
(*                                                                         *)
(* A session accepts streams until its peer leaves.  Each stream is read,  *)
(* ruled on, dispatched and served, and holds its permits until it ends.   *)
(* Between two awaits a stream's future runs alone, so a step here is the  *)
(* code between two awaits: reading a request and everything up to the     *)
(* first write or open that can park is one step.                          *)
(*                                                                         *)
(* What an operator, the clock or the revocation store does may fall       *)
(* between any two steps.                                                  *)
(***************************************************************************)
EXTENDS Routes, Chains

CONSTANTS
  Sessions,       \* the peers' sessions
  PeerOf,         \* the key of each session's peer
  Slots,          \* a session's in-flight streams: MAX_STREAMS_PER_SESSION
  Node,           \* the route table served, as Routes describes it
  Known,          \* the keys each proven-only route knows
  Offers,         \* the requests dialers make
  PeerProven,     \* whether the transport proves the peer's key
  HasCuts,        \* whether a live cut is wired
  TrustedRoot,    \* the root the gate trusts at the start
  MaxSessions, PublicSessions, PublicStreams, ProvenStreams, RawOpens,
  \* Bounds on what the operator and the clock do:
  RecallIds,      \* the ids that may be revoked
  RecallKeys,     \* the keys that may be revoked
  MaxRecalls,     \* how many of them may be, in all
  Pins,           \* the roots the gate may come to trust
  Toggles,        \* the names that may be disabled and enabled
  MaxTime         \* the last instant

ASSUME ServingAssumption ==
  /\ PeerOf \in [Sessions -> Keys]
  /\ Binds(Node)
  /\ Proves(Node)
  /\ PeerProven \in BOOLEAN
  /\ HasCuts \in BOOLEAN
  /\ TrustedRoot \in Keys
  /\ RecallIds \subseteq AllIds
  /\ RecallKeys \subseteq Keys
  /\ MaxRecalls \in Nat
  /\ Pins \subseteq Keys
  /\ Toggles \subseteq Node.services
  /\ \A o \in Offers : o.slip \in AtMostOne(Caps) /\ o.badge \in AtMostOne(Caps)

ASSUME PoolAssumption ==
  /\ IsFiniteSet(Sessions) /\ IsFiniteSet(Slots)
  /\ MaxSessions \in Nat \ {0}
  /\ PublicSessions \in Nat /\ PublicStreams \in Nat
  /\ ProvenStreams \in Nat /\ RawOpens \in Nat

VARIABLES
  session,    \* what serve_session's frame holds: its flags and its permit
  pipe,       \* the streams in flight of each session
  permits,    \* who holds a permit of each semaphore of Serving
  chains,     \* each session's AdmittedChains
  served,     \* history: the grants each session was answered Ok on
  store,      \* the revocation store and the trusted root, read by gate and cut
  now,        \* the wall clock
  disabled    \* the names the operator has disabled

vars == <<session, pipe, permits, chains, served, store, now, disabled>>
env == <<store, now, disabled>>

Gone  == [live |-> FALSE, accepting |-> FALSE, swept |-> FALSE,
          public |-> FALSE, detached |-> FALSE]
Fresh == [Gone EXCEPT !.live = TRUE, !.accepting = TRUE]

Idle == [phase |-> "idle", name |-> "none", grant |-> NoGrant, spoke |-> FALSE]
Stream(phase, name, grant) ==
  [phase |-> phase, name |-> name, grant |-> grant, spoke |-> FALSE]

InFlight == {"reading", "refusing", "opening", "answering", "serving"}

\* The semaphores the node's streams share, and how many permits each has.
Pools == {"public", "proven", "opens"}
Capacity == [pool \in Pools |-> CASE pool = "public" -> PublicStreams
                                  [] pool = "proven" -> ProvenStreams
                                  [] pool = "opens"  -> RawOpens]

Init ==
  /\ session = [s \in Sessions |-> Gone]
  /\ pipe = [s \in Sessions |-> [i \in Slots |-> Idle]]
  /\ permits = [pool \in Pools |-> {}]
  /\ chains = [s \in Sessions |-> Nothing]
  /\ served = [s \in Sessions |-> {}]
  /\ store = [ids |-> {}, keys |-> {}, pin |-> TrustedRoot]
  /\ now = 0
  /\ disabled = {}
-----------------------------------------------------------------------------
(* Helpers *)

Put(s, i, p) == pipe' = [pipe EXCEPT ![s][i] = p]

Live == {s \in Sessions : session[s].live}
Drained(s) == \A i \in Slots : pipe[s][i] = Idle

OnPath(path) == {x \in Sessions \X Slots : pipe[x[1]][x[2]].grant.path = path}
InPhase(phase) == {x \in Sessions \X Slots : pipe[x[1]][x[2]].phase = phase}
Classified == {s \in Sessions : session[s].public}

\* try_acquire would find a permit.
HasRoom(pool) == Cardinality(permits[pool]) < Capacity[pool]

Taken(x, pools) ==
  [pool \in Pools |-> permits[pool] \cup IF pool \in pools THEN {x} ELSE {}]
Released(x, pools) ==
  [pool \in Pools |-> permits[pool] \ IF pool \in pools THEN {x} ELSE {}]

\* A stream's future is gone, and with its frame every permit it held.
Leave(s, i) == Put(s, i, Idle) /\ permits' = Released(<<s, i>>, Pools)

Handled(p) == p.name \in Node.services \ Node.raw

\* Mutant: the session value is dropped but the connection is not closed.
DropUnclosed(s) ==
  /\ session' = [session EXCEPT ![s] = [Gone EXCEPT !.detached = session[s].detached]]
  /\ pipe' = [pipe EXCEPT ![s] = [i \in Slots |-> Idle]]
  /\ permits' = [pool \in Pools |-> {x \in permits[pool] : x[1] # s}]
  /\ chains' = [chains EXCEPT ![s] = Nothing]
  /\ served' = [served EXCEPT ![s] = {}]

\* Dropping serve_session's frame drops its streams, their permits and its own,
\* and its record.
Drop(s) ==
  /\ session' = [session EXCEPT ![s] = Gone]
  /\ pipe' = [pipe EXCEPT ![s] = [i \in Slots |-> Idle]]
  /\ permits' = [pool \in Pools |-> {x \in permits[pool] : x[1] # s}]
  /\ chains' = [chains EXCEPT ![s] = Nothing]
  /\ served' = [served EXCEPT ![s] = {}]
-----------------------------------------------------------------------------
(* Sessions *)

AcceptSession(s) ==
  /\ ~session[s].live
  /\ Cardinality(Live) < MaxSessions
  /\ session' = [session EXCEPT ![s] = Fresh]
  /\ UNCHANGED <<pipe, permits, chains, served, env>>

AcceptStream(s, i) ==
  /\ session[s].accepting
  /\ pipe[s][i] = Idle
  /\ Put(s, i, Stream("reading", "none", NoGrant))
  /\ UNCHANGED <<session, permits, chains, served, env>>

\* accept_bi fails: the connection is gone, for a detached handler too.
PeerLeaves(s) ==
  /\ session[s].accepting
  /\ session' = [session EXCEPT ![s].accepting = FALSE, ![s].detached = FALSE]
  /\ UNCHANGED <<pipe, permits, chains, served, env>>

\* Mutants: the sweep arm is guarded by accepting alone, or not at all.
SweepWhileAccepting(s) == session[s].accepting
SweepAlways(s) == TRUE

\* The guard the sweep arm shares with the other two.
SweepArm(s) == session[s].accepting \/ ~Drained(s)

\* The select's else: no arm of serve_session is enabled any more.
SessionDone(s) ==
  /\ session[s].live
  /\ ~session[s].accepting
  /\ Drained(s)
  /\ ~(HasCuts /\ SweepArm(s))
  /\ Drop(s)
  /\ UNCHANGED env
-----------------------------------------------------------------------------
(* Admission *)

\* Both public permits, the stream's first; a session is classified once.
PublicRoom(s) ==
  /\ HasRoom("public")
  /\ session[s].public \/ Cardinality(Classified) < PublicSessions

\* Mutant: an open base keeps the tokens it did not rule on.
GrantOfAll(name, o) == [path |-> PathOf(Node, name), slip |-> o.slip, badge |-> o.badge]

\* What `admit` reads of a request on the rooted path: the second slot only
\* beside a slip bound to a foreign authority.
GrantOf(name, o) ==
  LET path  == PathOf(Node, name)
      bound == \E slip \in o.slip : slip.authority # {}
  IN  [path  |-> path,
       slip  |-> IF path = "rooted" THEN o.slip ELSE {},
       badge |-> IF path = "rooted" /\ bound THEN o.badge ELSE {}]

\* The ruling of `admit`, by path.
Admits(s, name, o) ==
  LET grant    == GrantOf(name, o)
      peer     == PeerOf[s]
      standing == Standing(peer, grant, store, now)
  IN  \/ grant.path = "public" /\ PublicRoom(s)
      \/ grant.path = "proven" /\ PeerProven /\ ~Node.open /\ standing
                               /\ peer \in Known[name]
                               /\ HasRoom("proven")
      \/ grant.path = "open"   /\ ~o.garbled
      \/ grant.path = "rooted" /\ PeerProven /\ ~o.garbled /\ standing
                               /\ Covers(peer, grant, name)

\* Mutant: the member floor is forgotten.
DispatchesAny(name, grant) == name \in Node.services \ disabled

\* What dispatch asks of an admitted stream before it opens or prepares.
Dispatches(name, grant) ==
  /\ name \in Node.services \ disabled
  /\ name \in Node.member => IsMember(grant)

\* ErasedHandler::prepare: the handler's marker mints a proof or refuses.
Mints(name, grant) == Accepts(Node.exposure[name], OriginOf(grant.path))

Recorded(s, grant) == HasCuts => Fits(chains[s], grant)

\* Admission takes the permit of the stream's path, and its session's on the
\* public path; a raw source takes one more for its open.
Enter(s, i, grant, more) ==
  /\ session' = [session EXCEPT ![s].public = @ \/ grant.path = "public"]
  /\ permits' = Taken(<<s, i>>, {grant.path} \cup more)

\* The record is written just before the Ok.
Answer(s, i, name, grant) ==
  /\ Put(s, i, Stream("answering", name, grant))
  /\ chains' = IF HasCuts
               THEN [chains EXCEPT ![s] = Kept(@, PeerOf[s], grant)] ELSE chains
  /\ served' = [served EXCEPT ![s] = @ \cup {grant}]
-----------------------------------------------------------------------------
(* Requests *)

\* The read times out, or the frame is of another protocol.
ReadFails(s, i) ==
  /\ pipe[s][i].phase = "reading"
  /\ Leave(s, i)
  /\ UNCHANGED <<session, chains, served, env>>

\* A frame of another version, or a name that does not parse.
BadRequest(s, i) ==
  /\ pipe[s][i].phase = "reading"
  /\ Put(s, i, Stream("refusing", "none", NoGrant))
  /\ UNCHANGED <<session, permits, chains, served, env>>

\* Mutant: refused for want of a session's permit, the stream keeps its own.
RefuseKeepingPermit(s, i, o) ==
  LET name == ResolveSingle(Node, o.name)
      kept == {p \in {"public"} : PathOf(Node, name) = p /\ HasRoom(p)}
  IN  /\ pipe[s][i].phase = "reading"
      /\ ~Admits(s, name, o) \/ PathOf(Node, name) = "rooted"
      /\ Put(s, i, Stream("refusing", "none", NoGrant))
      /\ permits' = Taken(<<s, i>>, kept)
      /\ UNCHANGED <<session, chains, served, env>>

\* Refused by the ruling, or by a rooted gate that runs out of time to decide.
RefuseAtGate(s, i, o) ==
  LET name == ResolveSingle(Node, o.name)
  IN  /\ pipe[s][i].phase = "reading"
      /\ ~Admits(s, name, o) \/ PathOf(Node, name) = "rooted"
      /\ Put(s, i, Stream("refusing", "none", NoGrant))
      /\ UNCHANGED <<session, permits, chains, served, env>>

\* Admitted and then refused: its permits are held while the refusal is
\* written.
RefuseInside(s, i, o) ==
  LET name  == ResolveSingle(Node, o.name)
      grant == GrantOf(name, o)
  IN  /\ pipe[s][i].phase = "reading"
      /\ Admits(s, name, o)
      /\ \/ ~Dispatches(name, grant)
         \/ name \in Node.raw /\ ~HasRoom("opens")
         \/ /\ name \in Node.services \ Node.raw
            /\ ~(Mints(name, grant) /\ Recorded(s, grant))
      /\ Enter(s, i, grant, {})
      /\ Put(s, i, Stream("refusing", name, grant))
      /\ UNCHANGED <<chains, served, env>>

OpenRaw(s, i, o) ==
  LET name  == ResolveSingle(Node, o.name)
      grant == GrantOf(name, o)
  IN  /\ pipe[s][i].phase = "reading"
      /\ Admits(s, name, o)
      /\ Dispatches(name, grant)
      /\ name \in Node.raw
      /\ HasRoom("opens")
      /\ Enter(s, i, grant, {"opens"})
      /\ Put(s, i, Stream("opening", name, grant))
      /\ UNCHANGED <<chains, served, env>>

AnswerHandler(s, i, o) ==
  LET name  == ResolveSingle(Node, o.name)
      grant == GrantOf(name, o)
  IN  /\ pipe[s][i].phase = "reading"
      /\ Admits(s, name, o)
      /\ Dispatches(name, grant)
      /\ name \notin Node.raw
      /\ Mints(name, grant)
      /\ Recorded(s, grant)
      /\ Enter(s, i, grant, {})
      /\ Answer(s, i, name, grant)
      /\ UNCHANGED env

\* Mutant: the open's permit is held across the splice.
RawOpenedHolding(s, i) ==
  LET p == pipe[s][i]
  IN  /\ p.phase = "opening"
      /\ Recorded(s, p.grant)
      /\ Answer(s, i, p.name, p.grant)
      /\ UNCHANGED <<session, permits, env>>

\* The open resolves: a file, a FIFO with a writer, or the stdin seat.
RawOpened(s, i) ==
  LET p == pipe[s][i]
  IN  /\ p.phase = "opening"
      /\ Recorded(s, p.grant)
      /\ Answer(s, i, p.name, p.grant)
      /\ permits' = Released(<<s, i>>, {"opens"})
      /\ UNCHANGED <<session, env>>

RawRefused(s, i) ==
  LET p == pipe[s][i]
  IN  /\ p.phase = "opening"
      /\ Put(s, i, Stream("refusing", p.name, p.grant))
      /\ permits' = Released(<<s, i>>, {"opens"})
      /\ UNCHANGED <<session, chains, served, env>>

\* The peer took the refusal, or its stream failed.
RefusalSent(s, i) ==
  /\ pipe[s][i].phase = "refusing"
  /\ Leave(s, i)
  /\ UNCHANGED <<session, chains, served, env>>
-----------------------------------------------------------------------------
(* Served streams *)

\* The peer grants the credit the Ok frame takes.
Answered(s, i) ==
  /\ pipe[s][i].phase = "answering"
  /\ pipe' = [pipe EXCEPT ![s][i].phase = "serving"]
  /\ UNCHANGED <<session, permits, chains, served, env>>

Traffic(s, i) ==
  /\ pipe[s][i].phase = "serving"
  /\ Handled(pipe[s][i])
  /\ ~pipe[s][i].spoke
  /\ pipe' = [pipe EXCEPT ![s][i].spoke = TRUE]
  /\ UNCHANGED <<session, permits, chains, served, env>>

\* The splice or the handler ends, or a half of the stream fails.
StreamEnds(s, i) ==
  /\ pipe[s][i].phase \in {"answering", "serving"}
  /\ Leave(s, i)
  /\ UNCHANGED <<session, chains, served, env>>

\* The handler returns, its halves handed to a task of its own, which
\* reaches the peer for as long as the connection stands.
Detach(s, i) ==
  /\ pipe[s][i].phase = "serving"
  /\ Handled(pipe[s][i])
  /\ session' = [session EXCEPT ![s].detached = @ \/ session[s].accepting]
  /\ Leave(s, i)
  /\ UNCHANGED <<chains, served, env>>

\* Mutant: the deadline covers the answer and not the refusals.
ProvenAnswerDeadline(s, i) ==
  /\ pipe[s][i].grant.path = "proven"
  /\ pipe[s][i].phase # "refusing"
  /\ Leave(s, i)
  /\ UNCHANGED <<session, chains, served, env>>

\* A proven stream is dropped at its deadline, whatever it is doing.
ProvenDeadline(s, i) ==
  /\ pipe[s][i].grant.path = "proven"
  /\ Leave(s, i)
  /\ UNCHANGED <<session, chains, served, env>>

\* FirstTraffic::silent_past, armed once the Ok is written.
FirstTrafficTimeout(s, i) ==
  /\ pipe[s][i].phase = "serving"
  /\ Handled(pipe[s][i])
  /\ ~pipe[s][i].spoke
  /\ Leave(s, i)
  /\ UNCHANGED <<session, chains, served, env>>
-----------------------------------------------------------------------------
(* The live cut, and the node's own end *)

Condemned(s) == HasCuts /\ Cuts(chains[s], store, now)

\* The node's timer wakes every live session.
SweepTick ==
  /\ HasCuts
  /\ \E s \in Live : ~session[s].swept
  /\ session' = [s \in Sessions |->
                   [session[s] EXCEPT !.swept = @ \/ session[s].live]]
  /\ UNCHANGED <<pipe, permits, chains, served, env>>

\* A condemned session is closed, which ends a detached handler's reach too.
SessionSweep(s) ==
  /\ session[s].swept
  /\ SweepArm(s)
  /\ IF Condemned(s)
     THEN Drop(s)
     ELSE /\ session' = [session EXCEPT ![s].swept = FALSE]
          /\ UNCHANGED <<pipe, permits, chains, served>>
  /\ UNCHANGED env

\* The cancel token fires and the node is run again: everything but the
\* store and the disabled list is lost.
Restart ==
  /\ Live # {}
  /\ session' = [s \in Sessions |-> Gone]
  /\ pipe' = [s \in Sessions |-> [i \in Slots |-> Idle]]
  /\ permits' = [pool \in Pools |-> {}]
  /\ chains' = [s \in Sessions |-> Nothing]
  /\ served' = [s \in Sessions |-> {}]
  /\ UNCHANGED env
-----------------------------------------------------------------------------
(* The operator and the clock *)

Revoke(ids, keys) ==
  /\ store' = [store EXCEPT !.ids = @ \cup ids, !.keys = @ \cup keys]
  /\ UNCHANGED <<session, pipe, permits, chains, served, now, disabled>>

Repin(root) ==
  /\ store' = [store EXCEPT !.pin = root]
  /\ UNCHANGED <<session, pipe, permits, chains, served, now, disabled>>

Tick ==
  /\ now < MaxTime
  /\ now' = now + 1
  /\ UNCHANGED <<session, pipe, permits, chains, served, store, disabled>>

Toggle(name) ==
  /\ disabled' = IF name \in disabled THEN disabled \ {name} ELSE disabled \cup {name}
  /\ UNCHANGED <<session, pipe, permits, chains, served, store, now>>

Environment ==
  \/ /\ Cardinality(store.ids) + Cardinality(store.keys) < MaxRecalls
     /\ \/ \E id \in RecallIds : Revoke({id}, {})
        \/ \E key \in RecallKeys : Revoke({}, {key})
  \/ \E root \in Pins : Repin(root)
  \/ Tick
  \/ \E name \in Toggles : Toggle(name)

SessionStep(s) ==
  \/ AcceptSession(s) \/ PeerLeaves(s) \/ SessionDone(s) \/ SessionSweep(s)

StreamStep(s, i) ==
  \/ AcceptStream(s, i) \/ ReadFails(s, i) \/ BadRequest(s, i)
  \/ \E o \in Offers : \/ RefuseAtGate(s, i, o) \/ RefuseInside(s, i, o)
                       \/ OpenRaw(s, i, o) \/ AnswerHandler(s, i, o)
  \/ RawOpened(s, i) \/ RawRefused(s, i) \/ RefusalSent(s, i)
  \/ Answered(s, i) \/ Traffic(s, i) \/ StreamEnds(s, i) \/ Detach(s, i)
  \/ ProvenDeadline(s, i) \/ FirstTrafficTimeout(s, i)

Next ==
  \/ \E s \in Sessions : SessionStep(s) \/ \E i \in Slots : StreamStep(s, i)
  \/ SweepTick
  \/ Restart
  \/ Environment

Spec == Init /\ [][Next]_vars

(***************************************************************************)
(* Every session and stream is polled by the one task that runs them all,  *)
(* and its timers fire.  Nothing is assumed of peers, handlers or sources: *)
(* no credit, no traffic, no end.                                          *)
(***************************************************************************)
Fairness ==
  /\ WF_vars(SweepTick)
  /\ \A s \in Sessions :
       /\ WF_vars(SessionSweep(s))
       /\ WF_vars(SessionDone(s))
       /\ \A i \in Slots : /\ WF_vars(ReadFails(s, i))
                           /\ WF_vars(ProvenDeadline(s, i))
                           /\ WF_vars(FirstTrafficTimeout(s, i))

FairSpec == Spec /\ Fairness
-----------------------------------------------------------------------------
(* Properties *)

Names == Node.services \cup {o.name : o \in Offers} \cup {"none"}
Pipes == [phase : {"idle"} \cup InFlight, name : Names, grant : Grants, spoke : BOOLEAN]

\* The type invariant: the shape of every frame and record the code keeps.
TypeOK ==
  /\ session \in [Sessions -> [live : BOOLEAN, accepting : BOOLEAN,
                               swept : BOOLEAN, public : BOOLEAN,
                               detached : BOOLEAN]]
  /\ pipe \in [Sessions -> [Slots -> Pipes]]
  /\ permits \in [Pools -> SUBSET (Sessions \X Slots)]
  /\ chains \in [Sessions -> Records]
  /\ served \in [Sessions -> SUBSET Grants]
  /\ store \in [ids : SUBSET AllIds, keys : SUBSET Keys, pin : Keys]
  /\ now \in Nat
  /\ disabled \subseteq Node.services

CapsOf(s)  == UNION {Ruled(grant) : grant \in served[s]}
SlipsOf(s) == UNION {grant.slip : grant \in served[s]}
Takes(s, paths) == \E grant \in served[s] : grant.path \in paths

(***************************************************************************)
(* The record is the union of what its session was served on, no less and  *)
(* no more ("a refused stream leaves no trace in the record"), whatever    *)
(* order the streams came in; and every stream served is in it.            *)
(***************************************************************************)
ExactRecord(s) ==
  /\ chains[s].ids = UNION {cap.ids : cap \in CapsOf(s)}
  /\ chains[s].roots = {cap.root : cap \in CapsOf(s)}
  /\ chains[s].anchors = {cap.root : cap \in SlipsOf(s)}
  /\ chains[s].peer = IF Takes(s, {"proven", "rooted"}) THEN {PeerOf[s]} ELSE {}
  /\ chains[s].proven <=> Takes(s, {"proven"})
  /\ chains[s].lease = Earliest(UNION {cap.until : cap \in CapsOf(s)})

RecordExact ==
  \A s \in Sessions :
    /\ HasCuts => ExactRecord(s)
    /\ \A i \in Slots :
         pipe[s][i].phase \in {"answering", "serving"} => pipe[s][i].grant \in served[s]

(***************************************************************************)
(* No served stream escapes the cut (the comment on the record step of     *)
(* serve_request): once a wired node's gate would refuse what a stream was *)
(* admitted on, the sweep ends that stream's session.                      *)
(***************************************************************************)
NoStreamEscapes ==
  \A s \in Sessions : \A i \in Slots :
    /\ HasCuts
    /\ pipe[s][i].phase \in {"answering", "serving"}
    /\ ~Standing(PeerOf[s], pipe[s][i].grant, store, now)
    => Condemned(s)

(***************************************************************************)
(* The cut ends a session only for what the gate itself would have refused *)
(* (the comment on AdmittedStream::ruled), and only for a grant the        *)
(* session was served on: a refused stream leaves no trace.                *)
(***************************************************************************)
NoSpuriousCut ==
  \A s \in Sessions :
    Condemned(s) =>
      \E grant \in served[s] : ~Standing(PeerOf[s], grant, store, now)

(***************************************************************************)
(* The cut and the gate agree: a session is cut exactly when the gate      *)
(* would refuse something it was served on.                                *)
(***************************************************************************)
CutIsExact == NoStreamEscapes /\ NoSpuriousCut

(***************************************************************************)
(* A session's record only grows and its lease only shortens for as long   *)
(* as the session lives (Lease::extend: "it can only ever shorten"), so no *)
(* later stream buys an earlier one time.                                  *)
(***************************************************************************)
LeaseOnlyShortens ==
  [][\A s \in Sessions :
       session[s].live /\ session'[s].live =>
         /\ chains[s].ids \subseteq chains'[s].ids
         /\ chains[s].anchors \subseteq chains'[s].anchors
         /\ \A t \in chains[s].lease : \E u \in chains'[s].lease : u <= t]_vars

\* Whether what a stream was admitted on may face the target of its name.
Worthy(s, p) ==
  /\ p.name \in Node.services
  /\ Handled(p) =>
       \A inner \in Markers : Compatible(Node.exposure[p.name], inner) =>
         Accepts(inner, OriginOf(p.grant.path))
  /\ OriginOf(p.grant.path) = "Open" =>
       p.name \in CASE p.name \in Node.raw -> Node.unsafe
                   [] OTHER -> IF Node.open THEN Node.services ELSE Node.public
  /\ p.name \in Node.member => IsMember(p.grant)
  /\ p.name \in Node.proven =>
       p.grant.path = "proven" /\ PeerProven /\ PeerOf[s] \in Known[p.name]
  /\ OriginOf(p.grant.path) = "Rooted" => PeerProven /\ p.grant.slip # {}

(***************************************************************************)
(* Whatever path a stream came in on, what serves it may face the witness  *)
(* it was minted, and so may every handler its proof is delegated to: a    *)
(* never-public one only rooted authority, a raw byte source a stranger    *)
(* only through the unsafe overlay, a member-only route only a member, a   *)
(* proven-only route only a key it knows.                                  *)
(***************************************************************************)
WitnessFits ==
  \A s \in Sessions : \A i \in Slots :
    pipe[s][i].phase \in {"answering", "serving"} => Worthy(s, pipe[s][i])

\* The streams a semaphore's permits are meant for: those on its path, from
\* admission to the end of serve_request, and those whose open is awaited.
InUse(pool) == IF pool = "opens" THEN InPhase("opening") ELSE OnPath(pool)

(***************************************************************************)
(* A permit is held by the streams it is meant for and by no other,        *)
(* whatever path a stream leaves by: none is lost by a stream that goes on *)
(* ("a public or proven stream keeps its slot for exactly its lifetime",   *)
(* the comment on AdmittedStream), none outlives its stream or session, an *)
(* open's ends with the open.  No pool goes over its bound, nor a record   *)
(* over its ceiling of ids; and a stranger's stream always runs in a       *)
(* session that holds a public permit.                                     *)
(***************************************************************************)
PoolsHold ==
  /\ Cardinality(Live) <= MaxSessions
  /\ Cardinality(Classified) <= PublicSessions
  /\ Classified \subseteq Live
  /\ \A pool \in Pools :
       permits[pool] = InUse(pool) /\ Cardinality(permits[pool]) <= Capacity[pool]
  /\ \A s \in Sessions : Cardinality(chains[s].ids) <= MaxIds
  /\ \A x \in OnPath("public") : session[x[1]].public

(***************************************************************************)
(* A session admitted on nothing but open doors is never cut: no token was *)
(* ruled on, so there is nothing to recall, whatever the dialer presented. *)
(***************************************************************************)
StrangersAreNotCut ==
  \A s \in Sessions :
    (\A grant \in served[s] : OriginOf(grant.path) = "Open") => ~Condemned(s)

(***************************************************************************)
(* A condemned session ends, whatever its peer does, and with it the reach *)
(* of a handler that it detached ("a cut must end the peer's reach"),      *)
(* unless the operator takes back what condemned it.                       *)
(***************************************************************************)
CutEnds ==
  \A s \in Sessions :
    Condemned(s) ~> ~Condemned(s) /\ (session[s].live \/ ~session[s].detached)

(***************************************************************************)
(* A session whose peer left and whose streams drained gives its slot up,  *)
(* the hazard the guard of the sweep arm is there for: left enabled, "this *)
(* select" would never "reach `else`".                                     *)
(***************************************************************************)
DrainedEnds ==
  \A s \in Sessions :
    session[s].live /\ ~session[s].accepting /\ Drained(s) ~> ~session[s].live

(***************************************************************************)
(* No peer parks what the node bounds in time: a stream not yet ruled on,  *)
(* a proven stream whatever it is doing (its refusals included), and an    *)
(* answered handler stream that says nothing.                              *)
(***************************************************************************)
BoundedWaitsEnd ==
  \A s \in Sessions : \A i \in Slots :
    /\ pipe[s][i].phase = "reading" ~> pipe[s][i].phase # "reading"
    /\ pipe[s][i].grant.path = "proven" ~> pipe[s][i].grant.path # "proven"
    /\ (/\ pipe[s][i].phase = "serving"
        /\ Handled(pipe[s][i]) /\ ~pipe[s][i].spoke)
       ~> (pipe[s][i].phase # "serving" \/ pipe[s][i].spoke)

(***************************************************************************)
(* Nothing lingers on the node against its will: not a condemned session,  *)
(* not a drained one, not a stream past what bounds it.                    *)
(***************************************************************************)
NothingLingers == CutEnds /\ DrainedEnds /\ BoundedWaitsEnd
=============================================================================
