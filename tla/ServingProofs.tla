--------------------------- MODULE ServingProofs ---------------------------
(***************************************************************************)
(* Proofs about the serving side for every node, every set of sessions and *)
(* every set of capabilities, in four parts: what the record of a          *)
(* session's chains says, the live cut, the witness every served stream    *)
(* has, and the pools.                                                     *)
(***************************************************************************)
EXTENDS Serving, FiniteSetTheorems, WellFoundedInduction, TLAPS
-----------------------------------------------------------------------------
(* The record of a session's chains *)

(***************************************************************************)
(* Everything read off a grant is of the kind the record keeps.            *)
(***************************************************************************)
LEMMA GrantParts ==
  ASSUME NEW grant \in Grants
  PROVE  /\ Ruled(grant) \subseteq Caps
         /\ grant.slip \subseteq Ruled(grant)
         /\ Ids(grant) \subseteq AllIds
         /\ Roots(grant) \subseteq Keys
         /\ Anchors(grant) \subseteq Keys
         /\ Expiries(grant) \subseteq Nat
<1>1. Ruled(grant) \subseteq Caps /\ grant.slip \subseteq Ruled(grant)
  BY DEF Grants, Ruled, AtMostOne
<1>2. \A cap \in Caps : cap.root \in Keys /\ cap.until \subseteq Nat
  BY ChainsAssumption
<1> QED BY <1>1, <1>2 DEF Ids, AllIds, Roots, Anchors, Expiries

(***************************************************************************)
(* A grant from any path but the rooted one rules on nothing.              *)
(***************************************************************************)
LEMMA UnruledParts ==
  ASSUME NEW grant \in Grants, grant.path # "rooted"
  PROVE  Ids(grant) = {} /\ Roots(grant) = {} /\ Anchors(grant) = {} /\ Expiries(grant) = {}
<1>1. Ruled(grant) = {} /\ grant.slip = {}
  BY DEF Grants, Ruled
<1> QED BY <1>1 DEF Ids, Roots, Anchors, Expiries

(***************************************************************************)
(* A set of instants that is not empty has an earliest one.                *)
(***************************************************************************)
LEMMA EarliestExists ==
  ASSUME NEW S \in SUBSET Nat, S # {}
  PROVE  \E t \in S : \A u \in S : t <= u
<1>1. PICK t \in S : \A u \in S : ~(<<u, t>> \in OpToRel(<, Nat))
  BY NatLessThanWellFounded, WFMin, Zenon
<1>2. \A u \in S : ~(u < t)
  BY <1>1 DEF OpToRel
<1> QED BY <1>2

(***************************************************************************)
(* The lease is the earliest of all expiries, in whatever order the        *)
(* streams bring them.                                                     *)
(***************************************************************************)
LEMMA EarliestUnion ==
  ASSUME NEW A \in SUBSET Nat, NEW B \in SUBSET Nat
  PROVE  Earliest(Earliest(A) \cup B) = Earliest(A \cup B)
<1>1. CASE A = {}
  BY <1>1 DEF Earliest
<1>2. CASE A # {}
  <2>1. PICK m \in A : \A u \in A : m <= u
    BY <1>2, EarliestExists
  <2>2. m \in Earliest(A) /\ m \in Nat
    BY <2>1 DEF Earliest
  <2>3. ASSUME NEW t \in Earliest(Earliest(A) \cup B)
        PROVE  t \in Earliest(A \cup B)
    <3>1. t <= m /\ t \in Nat
      BY <2>2, <2>3 DEF Earliest
    <3>2. \A u \in A : t <= u
      BY <2>1, <2>2, <3>1
    <3> QED BY <2>3, <3>2 DEF Earliest
  <2>4. ASSUME NEW t \in Earliest(A \cup B)
        PROVE  t \in Earliest(Earliest(A) \cup B)
    BY <2>4 DEF Earliest
  <2> QED BY <2>3, <2>4
<1> QED BY <1>1, <1>2

(***************************************************************************)
(* The lease has lapsed exactly when some expiry has.                      *)
(***************************************************************************)
LEMMA LapsedEarliest ==
  ASSUME NEW S \in SUBSET Nat, NEW t \in Nat
  PROVE  Lapsed(Earliest(S), t) <=> Lapsed(S, t)
<1>1. Lapsed(Earliest(S), t) => Lapsed(S, t)
  BY DEF Lapsed, Earliest
<1>2. ASSUME NEW u \in S, t > u
      PROVE  Lapsed(Earliest(S), t)
  <2>1. PICK m \in S : \A v \in S : m <= v
    BY <1>2, EarliestExists
  <2>2. m \in Earliest(S) /\ t > m
    BY <1>2, <2>1 DEF Earliest
  <2> QED BY <2>2 DEF Lapsed
<1> QED BY <1>1, <1>2 DEF Lapsed

(***************************************************************************)
(* The record after one more stream is a record, and its lease ends no     *)
(* later than it did.                                                      *)
(***************************************************************************)
LEMMA KeptRecord ==
  ASSUME NEW record \in Records, NEW peer \in Keys, NEW grant \in Grants
  PROVE  Kept(record, peer, grant) \in Records
<1>1. Earliest(record.lease \cup Expiries(grant)) \subseteq Nat
  BY GrantParts DEF Earliest, Records
<1>2. {peer} \in AtMostOne(Keys)
  BY DEF AtMostOne
<1>3. (record.proven \/ grant.path = "proven") \in BOOLEAN
  OBVIOUS
<1> QED BY <1>1, <1>2, <1>3, GrantParts DEF Kept, Records

\* One more stream only adds to a record and never moves its lease later.
LEMMA KeptShortens ==
  ASSUME NEW record \in Records, NEW peer \in Keys, NEW grant \in Grants
  PROVE  LET kept == Kept(record, peer, grant)
         IN  /\ record.ids \subseteq kept.ids
             /\ record.anchors \subseteq kept.anchors
             /\ \A t \in record.lease : \E u \in kept.lease : u <= t
<1> DEFINE S == record.lease \cup Expiries(grant)
<1>1. S \subseteq Nat
  BY GrantParts DEF Records
<1>2. ASSUME NEW t \in record.lease
      PROVE  \E u \in Earliest(S) : u <= t
  <2>1. PICK m \in S : \A v \in S : m <= v
    BY <1>1, EarliestExists
  <2> QED BY <2>1 DEF Earliest
<1> QED BY <1>2 DEF Kept
-----------------------------------------------------------------------------
(* The serving core and the live cut *)

(***************************************************************************)
(* A request's resolved name is one the node serves or one it was asked.   *)
(***************************************************************************)
LEMMA NameTyped ==
  ASSUME NEW o \in Offers
  PROVE  ResolveSingle(Node, o.name) \in Names
<1>1. CASE o.name \in Node.services \/ Cardinality(Node.services) # 1
  BY <1>1 DEF ResolveSingle, Names
<1>2. CASE ~(o.name \in Node.services \/ Cardinality(Node.services) # 1)
  <2>1. Node.services # {}
    BY <1>2, FS_EmptySet
  <2> QED BY <1>2, <2>1 DEF ResolveSingle, Names
<1> QED BY <1>1, <1>2

\* Admission rules on one of four paths.
LEMMA PathTyped ==
  ASSUME NEW name
  PROVE  PathOf(Node, name) \in {"public", "proven", "open", "rooted"}
  BY DEF PathOf

(***************************************************************************)
(* What admission reads of a request is a grant.                           *)
(***************************************************************************)
LEMMA GrantTyped ==
  ASSUME NEW name, NEW o \in Offers
  PROVE  GrantOf(name, o) \in Grants
<1>1. o.slip \in AtMostOne(Caps) /\ o.badge \in AtMostOne(Caps)
  BY ServingAssumption
<1>2. {} \in AtMostOne(Caps)
  BY DEF AtMostOne
<1> QED BY <1>1, <1>2, PathTyped DEF GrantOf, Grants, Ruled

\* A stream in flight is an entry of the table.
LEMMA StreamTyped ==
  ASSUME NEW phase \in InFlight, NEW name \in Names, NEW grant \in Grants
  PROVE  Stream(phase, name, grant) \in Pipes
  BY DEF Stream, Pipes

\* A free slot, and the grant it shows, are well typed.
LEMMA IdleTyped == Idle \in Pipes /\ NoGrant \in Grants /\ "none" \in Names
  BY DEF Idle, Pipes, NoGrant, Grants, AtMostOne, Ruled, Names

\* The empty record is a record.
LEMMA NothingTyped == Nothing \in Records
  BY DEF Nothing, Records, AtMostOne

\* Moving one stream keeps the table well typed.
LEMMA PutTyped ==
  ASSUME TypeOK, NEW s \in Sessions, NEW i \in Slots, NEW p \in Pipes, Put(s, i, p)
  PROVE  pipe' \in [Sessions -> [Slots -> Pipes]]
  BY DEF TypeOK, Put

(***************************************************************************)
(* Taking and releasing permits keeps the holders to the node's streams.   *)
(***************************************************************************)
LEMMA PermitsTyped ==
  ASSUME TypeOK, NEW s \in Sessions, NEW i \in Slots, NEW pools,
         permits' = Taken(<< s, i >>, pools) \/ permits' = Released(<< s, i >>, pools)
  PROVE  permits' \in [Pools -> SUBSET (Sessions \X Slots)]
<1>1. \A pool \in Pools : permits[pool] \subseteq Sessions \X Slots
  BY DEF TypeOK
<1>2. << s, i >> \in Sessions \X Slots
  OBVIOUS
<1>3. CASE permits' = Taken(<< s, i >>, pools)
  BY <1>1, <1>2, <1>3 DEF Taken
<1>4. CASE permits' = Released(<< s, i >>, pools)
  BY <1>1, <1>4 DEF Released
<1> QED BY <1>3, <1>4

\* A stream's end keeps the table and the holders well typed.
LEMMA LeaveTyped ==
  ASSUME TypeOK, NEW s \in Sessions, NEW i \in Slots, Leave(s, i)
  PROVE  /\ pipe' \in [Sessions -> [Slots -> Pipes]]
         /\ permits' \in [Pools -> SUBSET (Sessions \X Slots)]
  BY IdleTyped, PutTyped, PermitsTyped DEF Leave

\* Dropping a session keeps the types.
LEMMA DropTyped ==
  ASSUME TypeOK, NEW s \in Sessions, Drop(s), UNCHANGED env
  PROVE  TypeOK'
<1>1. [i \in Slots |-> Idle] \in [Slots -> Pipes]
  BY IdleTyped
<1>2. permits' \in [Pools -> SUBSET (Sessions \X Slots)]
  BY DEF TypeOK, Drop
<1> QED BY <1>1, <1>2, NothingTyped DEF TypeOK, Drop, Gone, env

\* Answering a stream keeps the table, the records and the history well typed.
LEMMA AnswerTyped ==
  ASSUME TypeOK, NEW s \in Sessions, NEW i \in Slots, NEW name \in Names,
         NEW grant \in Grants, Answer(s, i, name, grant)
  PROVE  /\ pipe' \in [Sessions -> [Slots -> Pipes]]
         /\ chains' \in [Sessions -> Records]
         /\ served' \in [Sessions -> SUBSET Grants]
<1>1. Stream("answering", name, grant) \in Pipes
  BY StreamTyped DEF InFlight
<1>2. Kept(chains[s], PeerOf[s], grant) \in Records
  BY KeptRecord, ServingAssumption DEF TypeOK
<1> QED BY <1>1, <1>2, PutTyped DEF TypeOK, Answer

\* Taking permits keeps the frames and the holders well typed.
LEMMA EnterTyped ==
  ASSUME TypeOK, NEW s \in Sessions, NEW i \in Slots, NEW grant, NEW more,
         Enter(s, i, grant, more)
  PROVE  /\ session' \in [Sessions -> [live : BOOLEAN, accepting : BOOLEAN, swept : BOOLEAN,
                                       public : BOOLEAN, detached : BOOLEAN]]
         /\ permits' \in [Pools -> SUBSET (Sessions \X Slots)]
  BY PermitsTyped DEF TypeOK, Enter
-----------------------------------------------------------------------------
\* The node starts well typed.
LEMMA InitTypeOK == Init => TypeOK
  BY IdleTyped, NothingTyped, ServingAssumption DEF Init, TypeOK, Gone

\* The steps of a session's own loop keep the types.
LEMMA SessionTypeOK ==
  ASSUME TypeOK, NEW s \in Sessions, SessionStep(s)
  PROVE  TypeOK'
<1>1. CASE AcceptSession(s)
  BY <1>1 DEF AcceptSession, TypeOK, Fresh, Gone, env
<1>2. CASE PeerLeaves(s)
  BY <1>2 DEF PeerLeaves, TypeOK, env
<1>3. CASE SessionDone(s)
  BY <1>3, DropTyped DEF SessionDone
<1>4. CASE SessionSweep(s)
  <2>1. CASE Condemned(s)
    BY <1>4, <2>1, DropTyped DEF SessionSweep
  <2>2. CASE ~Condemned(s)
    <3>1. /\ session' = [session EXCEPT ![s].swept = FALSE]
          /\ UNCHANGED <<pipe, permits, chains, served, env>>
      BY <1>4, <2>2 DEF SessionSweep
    <3> QED BY <3>1 DEF TypeOK, env
  <2> QED BY <2>1, <2>2
<1> QED BY <1>1, <1>2, <1>3, <1>4 DEF SessionStep

\* The steps of a stream that only move its place in the table.
LEMMA MoveTypeOK ==
  ASSUME TypeOK, NEW s \in Sessions, NEW i \in Slots,
         NEW p \in Pipes, Put(s, i, p),
         permits' \in [Pools -> SUBSET (Sessions \X Slots)],
         UNCHANGED <<session, chains, served, env>>
  PROVE  TypeOK'
  BY PutTyped DEF TypeOK, env

\* Every outcome of a request keeps the types.
LEMMA RequestTypeOK ==
  ASSUME TypeOK, NEW s \in Sessions, NEW i \in Slots, NEW o \in Offers,
         \/ RefuseAtGate(s, i, o) \/ RefuseInside(s, i, o)
         \/ OpenRaw(s, i, o) \/ AnswerHandler(s, i, o)
  PROVE  TypeOK'
<1> DEFINE name  == ResolveSingle(Node, o.name)
           grant == GrantOf(name, o)
<1>1. name \in Names /\ grant \in Grants
  BY NameTyped, GrantTyped
<1>2. \A phase \in InFlight : Stream(phase, name, grant) \in Pipes
  BY <1>1, StreamTyped
<1> HIDE DEF name, grant
<1>3. CASE RefuseAtGate(s, i, o)
  <2>1. Stream("refusing", "none", NoGrant) \in Pipes
    BY IdleTyped, StreamTyped DEF InFlight
  <2>2. permits' \in [Pools -> SUBSET (Sessions \X Slots)]
    BY <1>3 DEF RefuseAtGate, TypeOK
  <2> QED BY <1>3, <2>1, <2>2, MoveTypeOK DEF RefuseAtGate
<1>4. CASE RefuseInside(s, i, o)
  <2>1. Stream("refusing", name, grant) \in Pipes
    BY <1>2 DEF InFlight
  <2>2. /\ Enter(s, i, grant, {}) /\ Put(s, i, Stream("refusing", name, grant))
        /\ UNCHANGED <<chains, served, env>>
    BY <1>4 DEF RefuseInside, name, grant
  <2>3. pipe' \in [Sessions -> [Slots -> Pipes]]
    BY <2>1, <2>2, PutTyped
  <2> QED BY <2>2, <2>3, EnterTyped DEF TypeOK, env
<1>5. CASE OpenRaw(s, i, o)
  <2>1. Stream("opening", name, grant) \in Pipes
    BY <1>2 DEF InFlight
  <2>2. /\ Enter(s, i, grant, {"opens"}) /\ Put(s, i, Stream("opening", name, grant))
        /\ UNCHANGED <<chains, served, env>>
    BY <1>5 DEF OpenRaw, name, grant
  <2>3. pipe' \in [Sessions -> [Slots -> Pipes]]
    BY <2>1, <2>2, PutTyped
  <2> QED BY <2>2, <2>3, EnterTyped DEF TypeOK, env
<1>6. CASE AnswerHandler(s, i, o)
  <2>1. Enter(s, i, grant, {}) /\ Answer(s, i, name, grant) /\ UNCHANGED env
    BY <1>6 DEF AnswerHandler, name, grant
  <2> QED BY <1>1, <2>1, EnterTyped, AnswerTyped DEF TypeOK, env
<1> QED BY <1>3, <1>4, <1>5, <1>6

\* Every step of a stream keeps the types.
LEMMA StreamTypeOK ==
  ASSUME TypeOK, NEW s \in Sessions, NEW i \in Slots, StreamStep(s, i)
  PROVE  TypeOK'
<1> DEFINE p == pipe[s][i]
<1>1. p \in Pipes /\ p.name \in Names /\ p.grant \in Grants
  BY DEF TypeOK, Pipes
<1>2. CASE AcceptStream(s, i) \/ BadRequest(s, i)
  <2>1. \A phase \in InFlight : Stream(phase, "none", NoGrant) \in Pipes
    BY IdleTyped, StreamTyped
  <2>2. "reading" \in InFlight /\ "refusing" \in InFlight
    BY DEF InFlight
  <2>3. permits' \in [Pools -> SUBSET (Sessions \X Slots)]
    BY <1>2 DEF AcceptStream, BadRequest, TypeOK
  <2> QED BY <1>2, <2>1, <2>2, <2>3, MoveTypeOK DEF AcceptStream, BadRequest
<1>3. CASE ReadFails(s, i) \/ RefusalSent(s, i) \/ StreamEnds(s, i)
           \/ ProvenDeadline(s, i) \/ FirstTrafficTimeout(s, i)
  <2>1. Leave(s, i) /\ UNCHANGED <<session, chains, served, env>>
    BY <1>3 DEF ReadFails, RefusalSent, StreamEnds, ProvenDeadline, FirstTrafficTimeout
  <2> QED BY <2>1, LeaveTyped, IdleTyped, MoveTypeOK DEF Leave
<1>4. ASSUME NEW o \in Offers,
             \/ RefuseAtGate(s, i, o) \/ RefuseInside(s, i, o)
             \/ OpenRaw(s, i, o) \/ AnswerHandler(s, i, o)
      PROVE  TypeOK'
  BY <1>4, RequestTypeOK
<1>5. CASE RawOpened(s, i)
  <2>1. /\ Answer(s, i, p.name, p.grant) /\ UNCHANGED <<session, env>>
        /\ permits' = Released(<< s, i >>, {"opens"})
    BY <1>5 DEF RawOpened
  <2> QED BY <1>1, <2>1, AnswerTyped, PermitsTyped DEF TypeOK, env
<1>6. CASE RawRefused(s, i)
  <2>1. Stream("refusing", p.name, p.grant) \in Pipes
    BY <1>1, StreamTyped DEF InFlight
  <2>2. permits' \in [Pools -> SUBSET (Sessions \X Slots)]
    BY <1>6, PermitsTyped DEF RawRefused
  <2> QED BY <1>6, <2>1, <2>2, MoveTypeOK DEF RawRefused
<1>7. CASE Answered(s, i)
  <2>1. [p EXCEPT !.phase = "serving"] \in Pipes
    BY <1>1 DEF Pipes, InFlight
  <2>2. /\ Put(s, i, [p EXCEPT !.phase = "serving"])
        /\ UNCHANGED <<session, permits, chains, served, env>>
    BY <1>7 DEF Answered, Put
  <2>3. permits' \in [Pools -> SUBSET (Sessions \X Slots)]
    BY <2>2 DEF TypeOK
  <2> QED BY <2>1, <2>2, <2>3, MoveTypeOK
<1>8. CASE Traffic(s, i)
  <2>1. [p EXCEPT !.spoke = TRUE] \in Pipes
    BY <1>1 DEF Pipes
  <2>2. /\ Put(s, i, [p EXCEPT !.spoke = TRUE])
        /\ UNCHANGED <<session, permits, chains, served, env>>
    BY <1>8 DEF Traffic, Put
  <2>3. permits' \in [Pools -> SUBSET (Sessions \X Slots)]
    BY <2>2 DEF TypeOK
  <2> QED BY <2>1, <2>2, <2>3, MoveTypeOK
<1>9. CASE Detach(s, i)
  <2>1. /\ pipe' \in [Sessions -> [Slots -> Pipes]]
        /\ permits' \in [Pools -> SUBSET (Sessions \X Slots)]
    BY <1>9, LeaveTyped DEF Detach
  <2> QED BY <1>9, <2>1 DEF Detach, TypeOK, env
<1> QED BY <1>2, <1>3, <1>4, <1>5, <1>6, <1>7, <1>8, <1>9 DEF StreamStep

\* The sweep timer, a restart, the operator and the clock keep the types.
LEMMA NodeTypeOK ==
  ASSUME TypeOK, SweepTick \/ Restart \/ Environment
  PROVE  TypeOK'
<1>1. CASE SweepTick
  <2>1. \A s \in Sessions :
           [session[s] EXCEPT !.swept = @ \/ session[s].live]
             \in [live : BOOLEAN, accepting : BOOLEAN, swept : BOOLEAN,
                 public : BOOLEAN, detached : BOOLEAN]
    BY DEF TypeOK
  <2> QED BY <1>1, <2>1 DEF SweepTick, TypeOK, env
<1>2. CASE Restart
  BY <1>2, IdleTyped, NothingTyped DEF Restart, TypeOK, Gone, env
<1>3. CASE Environment
  <2>1. ASSUME NEW ids \in SUBSET AllIds, NEW keys \in SUBSET Keys, Revoke(ids, keys)
        PROVE  TypeOK'
    BY <2>1 DEF Revoke, TypeOK
  <2>2. ASSUME NEW root \in Keys, Repin(root)
        PROVE  TypeOK'
    BY <2>2 DEF Repin, TypeOK
  <2>3. CASE Tick
    BY <2>3 DEF Tick, TypeOK
  <2>4. ASSUME NEW name \in Node.services, Toggle(name)
        PROVE  TypeOK'
    BY <2>4 DEF Toggle, TypeOK
  <2>5. /\ \A id \in RecallIds : {id} \in SUBSET AllIds
        /\ \A key \in RecallKeys : {key} \in SUBSET Keys
        /\ Pins \subseteq Keys /\ Toggles \subseteq Node.services
    BY ServingAssumption
  <2> QED BY <1>3, <2>1, <2>2, <2>3, <2>4, <2>5 DEF Environment
<1> QED BY <1>1, <1>2, <1>3

(***************************************************************************)
(* Every frame, record and store keeps its shape, for every node.          *)
(***************************************************************************)
THEOREM ServingTypeOK == Spec => []TypeOK
<1>1. Init => TypeOK
  BY InitTypeOK
<1>2. TypeOK /\ [Next]_vars => TypeOK'
  <2>1. CASE UNCHANGED vars
    BY <2>1 DEF vars, TypeOK
  <2> QED BY <2>1, SessionTypeOK, StreamTypeOK, NodeTypeOK DEF Next
<1> QED BY <1>1, <1>2, PTL DEF Spec
-----------------------------------------------------------------------------
(***************************************************************************)
(* A session's frame holds everything of it: until it is accepted, and     *)
(* once it is dropped, there is nothing.                                   *)
(***************************************************************************)
Emptied ==
  \A s \in Sessions : ~session[s].live =>
    /\ session[s] = Gone
    /\ Drained(s)
    /\ chains[s] = Nothing
    /\ served[s] = {}

\* A stream in flight belongs to a live session.
LEMMA InFlightLive ==
  ASSUME Emptied, NEW s \in Sessions, NEW i \in Slots,
         \/ pipe[s][i].phase \in InFlight
         \/ pipe[s][i].grant.path = "proven"
         \/ session[s].accepting
  PROVE  session[s].live
  BY DEF Emptied, Drained, Idle, NoGrant, InFlight, Gone

\* Only a live session accepts, or has a sweep due.
LEMMA FlaggedLive ==
  ASSUME Emptied, NEW s \in Sessions, session[s].accepting \/ session[s].swept
  PROVE  session[s].live
  BY DEF Emptied, Gone

(***************************************************************************)
(* What any step of a stream does to its session: it moves one stream and  *)
(* leaves the record alone, or it answers Ok and writes the record.        *)
(***************************************************************************)
Answering == {"answering", "serving"}

Quiet(s, i) ==
  /\ UNCHANGED <<chains, served>>
  /\ \E p \in Pipes :
       /\ Put(s, i, p)
       /\ p.phase \in Answering => pipe[s][i].phase \in Answering /\ p.grant = pipe[s][i].grant

Answers(s, i) ==
  \E name \in Names : \E grant \in Grants :
    Answer(s, i, name, grant) /\ Recorded(s, grant)

SameSession(s) ==
  /\ session'[s].live = session[s].live
  /\ \A t \in Sessions \ {s} : session'[t] = session[t]

\* A step of a stream moves its own slot, and answers it at most once.
LEMMA StreamFrame ==
  ASSUME TypeOK, NEW s \in Sessions, NEW i \in Slots, StreamStep(s, i)
  PROVE  (Quiet(s, i) \/ Answers(s, i)) /\ SameSession(s) /\ UNCHANGED env
<1> DEFINE p == pipe[s][i]
<1>1. p \in Pipes /\ p.name \in Names /\ p.grant \in Grants
  BY DEF TypeOK, Pipes
<1>2. /\ Idle \in Pipes /\ Idle.phase \notin Answering
      /\ \A phase \in InFlight : \A name \in Names : \A grant \in Grants :
           Stream(phase, name, grant) \in Pipes /\ Stream(phase, name, grant).phase = phase
  BY IdleTyped, StreamTyped DEF Idle, Answering, Stream
<1>3. "none" \in Names /\ NoGrant \in Grants
  BY IdleTyped
<1>4. /\ {"reading", "refusing", "opening"} \subseteq InFlight
      /\ \A phase \in {"reading", "refusing", "opening"} : phase \notin Answering
  BY DEF InFlight, Answering
<1>5. CASE AcceptStream(s, i) \/ BadRequest(s, i) \/ \E o \in Offers : RefuseAtGate(s, i, o)
  <2>1. PICK phase \in {"reading", "refusing"} : Put(s, i, Stream(phase, "none", NoGrant))
    BY <1>5 DEF AcceptStream, BadRequest, RefuseAtGate
  <2>2. UNCHANGED <<session, chains, served, env>>
    BY <1>5 DEF AcceptStream, BadRequest, RefuseAtGate
  <2> QED BY <1>2, <1>3, <1>4, <2>1, <2>2 DEF Quiet, SameSession
<1>6. CASE \/ ReadFails(s, i) \/ RefusalSent(s, i) \/ StreamEnds(s, i)
           \/ ProvenDeadline(s, i) \/ FirstTrafficTimeout(s, i)
  <2>1. Put(s, i, Idle) /\ UNCHANGED <<session, chains, served, env>>
    BY <1>6 DEF ReadFails, RefusalSent, StreamEnds, ProvenDeadline, FirstTrafficTimeout, Leave
  <2> QED BY <1>2, <2>1 DEF Quiet, SameSession
<1>7. CASE RawRefused(s, i)
  <2>1. Put(s, i, Stream("refusing", p.name, p.grant)) /\ UNCHANGED <<session, chains, served, env>>
    BY <1>7 DEF RawRefused
  <2> QED BY <1>1, <1>2, <1>4, <2>1 DEF Quiet, SameSession
<1>8. CASE Answered(s, i) \/ Traffic(s, i)
  <2> DEFINE q == IF Answered(s, i) THEN [p EXCEPT !.phase = "serving"]
                                    ELSE [p EXCEPT !.spoke = TRUE]
  <2>1. Put(s, i, q) /\ p.phase \in Answering /\ UNCHANGED <<session, chains, served, env>>
    BY <1>8 DEF Answered, Traffic, Put, Answering
  <2>2. q \in Pipes /\ q.grant = p.grant
    BY <1>1 DEF Pipes, InFlight
  <2> HIDE DEF q
  <2> QED BY <2>1, <2>2 DEF Quiet, SameSession
<1>9. CASE RawOpened(s, i)
  <2>1. Answer(s, i, p.name, p.grant) /\ Recorded(s, p.grant) /\ UNCHANGED <<session, env>>
    BY <1>9 DEF RawOpened
  <2> QED BY <1>1, <2>1 DEF Answers, SameSession
<1>10. CASE Detach(s, i)
  <2>1. Put(s, i, Idle) /\ UNCHANGED <<chains, served, env>>
    BY <1>10 DEF Detach, Leave
  <2>2. SameSession(s)
    BY <1>10 DEF Detach, SameSession, TypeOK
  <2> QED BY <1>2, <2>1, <2>2 DEF Quiet
<1>11. ASSUME NEW o \in Offers, RefuseInside(s, i, o) \/ OpenRaw(s, i, o) \/ AnswerHandler(s, i, o)
       PROVE  (Quiet(s, i) \/ Answers(s, i)) /\ SameSession(s) /\ UNCHANGED env
  <2> DEFINE name  == ResolveSingle(Node, o.name)
             grant == GrantOf(name, o)
  <2>1. name \in Names /\ grant \in Grants
    BY NameTyped, GrantTyped
  <2>2. (\E more \in {{}, {"opens"}} : Enter(s, i, grant, more)) /\ UNCHANGED env
    BY <1>11 DEF RefuseInside, OpenRaw, AnswerHandler
  <2>3. \/ \E phase \in {"refusing", "opening"} :
              Put(s, i, Stream(phase, name, grant)) /\ UNCHANGED <<chains, served>>
        \/ Answer(s, i, name, grant) /\ Recorded(s, grant)
    BY <1>11 DEF RefuseInside, OpenRaw, AnswerHandler
  <2> HIDE DEF name, grant
  <2>4. SameSession(s)
    BY <2>2 DEF Enter, SameSession, TypeOK
  <2>5. Quiet(s, i) \/ Answers(s, i)
    BY <1>2, <1>4, <2>1, <2>3 DEF Quiet, Answers
  <2> QED BY <2>2, <2>4, <2>5
<1> QED BY <1>5, <1>6, <1>7, <1>8, <1>9, <1>10, <1>11 DEF StreamStep

\* A stream steps only in a live session.
LEMMA StreamLive ==
  ASSUME Emptied, NEW s \in Sessions, NEW i \in Slots, StreamStep(s, i)
  PROVE  session[s].live
  BY InFlightLive
  DEF StreamStep, AcceptStream, ReadFails, BadRequest, RefuseAtGate, RefuseInside, OpenRaw,
      AnswerHandler, RawOpened, RawRefused, RefusalSent, Answered, Traffic, StreamEnds,
      Detach, ProvenDeadline, FirstTrafficTimeout, InFlight
-----------------------------------------------------------------------------
\* Dropping a session leaves nothing of it behind.
LEMMA DropEmpties ==
  ASSUME TypeOK, Emptied, NEW s \in Sessions, Drop(s)
  PROVE  Emptied'
<1>1. ASSUME NEW t \in Sessions, t # s
      PROVE  /\ session'[t] = session[t] /\ pipe'[t] = pipe[t]
             /\ chains'[t] = chains[t] /\ served'[t] = served[t]
  BY <1>1 DEF Drop, TypeOK
<1>2. /\ session'[s] = Gone /\ pipe'[s] = [i \in Slots |-> Idle]
      /\ chains'[s] = Nothing /\ served'[s] = {}
  BY DEF Drop, TypeOK
<1> QED BY <1>1, <1>2 DEF Emptied, Drained, Gone

\* A step within a session that is live and stays live.
LEMMA LiveEmptied ==
  ASSUME TypeOK, Emptied, NEW s \in Sessions, session'[s].live,
         \A t \in Sessions \ {s} :
           /\ session'[t] = session[t] /\ pipe'[t] = pipe[t]
           /\ chains'[t] = chains[t] /\ served'[t] = served[t]
  PROVE  Emptied'
  BY DEF Emptied, Drained

\* Every step keeps a session that is gone empty.
LEMMA NextEmptied == TypeOK /\ Emptied /\ [Next]_vars => Emptied'
<1> SUFFICES ASSUME TypeOK, Emptied, [Next]_vars
             PROVE  Emptied'
  OBVIOUS
<1>1. ASSUME NEW s \in Sessions, SessionStep(s)
      PROVE  Emptied'
  <2>1. CASE AcceptSession(s)
    <3>1. session'[s].live
      BY <2>1 DEF AcceptSession, Fresh, Gone, TypeOK
    <3>2. \A t \in Sessions \ {s} : session'[t] = session[t]
      BY <2>1 DEF AcceptSession, TypeOK
    <3> QED BY <2>1, <3>1, <3>2, LiveEmptied DEF AcceptSession
  <2>2. CASE PeerLeaves(s)
    <3>1. session'[s].live
      <4>1. session[s].live
        BY <2>2, FlaggedLive DEF PeerLeaves
      <4>2. session'[s].live = session[s].live
        BY <2>2 DEF PeerLeaves, TypeOK
      <4> QED BY <4>1, <4>2
    <3>2. \A t \in Sessions \ {s} : session'[t] = session[t]
      BY <2>2 DEF PeerLeaves, TypeOK
    <3> QED BY <2>2, <3>1, <3>2, LiveEmptied DEF PeerLeaves
  <2>3. CASE SessionDone(s)
    BY <2>3, DropEmpties DEF SessionDone
  <2>4. CASE SessionSweep(s) /\ Condemned(s)
    BY <2>4, DropEmpties DEF SessionSweep
  <2>5. CASE SessionSweep(s) /\ ~Condemned(s)
    <3>1. /\ session' = [session EXCEPT ![s].swept = FALSE]
          /\ session[s].swept /\ UNCHANGED <<pipe, chains, served>>
      BY <2>5 DEF SessionSweep
    <3>2. session'[s].live
      <4>1. session[s].live
        BY <3>1, FlaggedLive
      <4>2. session'[s].live = session[s].live
        BY <3>1 DEF TypeOK
      <4> QED BY <4>1, <4>2
    <3>3. \A t \in Sessions \ {s} : session'[t] = session[t]
      BY <3>1 DEF TypeOK
    <3> QED BY <3>1, <3>2, <3>3, LiveEmptied
  <2> QED BY <1>1, <2>1, <2>2, <2>3, <2>4, <2>5 DEF SessionStep
<1>2. ASSUME NEW s \in Sessions, NEW i \in Slots, StreamStep(s, i)
      PROVE  Emptied'
  <2>1. (Quiet(s, i) \/ Answers(s, i)) /\ SameSession(s) /\ session'[s].live
    BY <1>2, StreamFrame, StreamLive DEF SameSession
  <2>2. \A t \in Sessions \ {s} :
           pipe'[t] = pipe[t] /\ chains'[t] = chains[t] /\ served'[t] = served[t]
    BY <2>1 DEF Quiet, Answers, Answer, Put, TypeOK
  <2> QED BY <2>1, <2>2, LiveEmptied DEF SameSession
<1>3. CASE SweepTick
  <2>1. \A s \in Sessions : /\ session'[s].live = session[s].live
                            /\ ~session[s].live => session'[s] = session[s]
    BY <1>3 DEF SweepTick, TypeOK
  <2> QED BY <1>3, <2>1 DEF SweepTick, Emptied, Drained
<1>4. CASE Restart
  BY <1>4 DEF Restart, Emptied, Drained
<1>5. CASE Environment
  BY <1>5 DEF Environment, Revoke, Repin, Tick, Toggle, Emptied, Drained
<1>6. CASE UNCHANGED vars
  BY <1>6 DEF vars, Emptied, Drained
<1> QED BY <1>1, <1>2, <1>3, <1>4, <1>5, <1>6 DEF Next

\* A session that is not live has nothing of its own, always.
LEMMA AlwaysEmptied == Spec => []Emptied
<1>1. Init => Emptied
  BY DEF Init, Emptied, Drained
<1>2. TypeOK /\ Emptied /\ [Next]_vars => Emptied'
  BY NextEmptied
<1> QED BY <1>1, <1>2, ServingTypeOK, PTL DEF Spec
-----------------------------------------------------------------------------
(***************************************************************************)
(* The record of a session is the union of what it was served on.          *)
(***************************************************************************)
ServedRecorded(s) ==
  \A i \in Slots : pipe[s][i].phase \in Answering => pipe[s][i].grant \in served[s]

\* The exactness of the records, split into its two parts.
LEMMA RecordParts ==
  RecordExact <=> \A s \in Sessions : (HasCuts => ExactRecord(s)) /\ ServedRecorded(s)
  BY DEF RecordExact, ServedRecorded, Answering

\* An empty record is exact for a session that served nothing.
LEMMA EmptyExact ==
  ASSUME NEW s \in Sessions, chains[s] = Nothing, served[s] = {}
  PROVE  ExactRecord(s)
<1>1. CapsOf(s) = {} /\ SlipsOf(s) = {} /\ \A paths : ~Takes(s, paths)
  BY DEF CapsOf, SlipsOf, Takes
<1> QED BY <1>1 DEF ExactRecord, Nothing, Earliest

\* A record that was exact is exact after one more stream is served.
LEMMA KeptExact ==
  ASSUME TypeOK, NEW s \in Sessions, NEW grant \in Grants, ExactRecord(s),
         chains' = [chains EXCEPT ![s] = Kept(@, PeerOf[s], grant)],
         served' = [served EXCEPT ![s] = @ \cup {grant}]
  PROVE  ExactRecord(s)'
<1> DEFINE kept == Kept(chains[s], PeerOf[s], grant)
<1>1. chains'[s] = kept /\ served'[s] = served[s] \cup {grant}
  BY DEF TypeOK
<1>2. /\ CapsOf(s)' = CapsOf(s) \cup Ruled(grant)
      /\ SlipsOf(s)' = SlipsOf(s) \cup grant.slip
  BY <1>1 DEF CapsOf, SlipsOf
<1>3. \A paths : Takes(s, paths)' <=> Takes(s, paths) \/ grant.path \in paths
  BY <1>1 DEF Takes
<1>4. kept.ids = UNION {cap.ids : cap \in CapsOf(s)'}
  BY <1>2 DEF ExactRecord, Kept, Ids
<1>5. kept.roots = {cap.root : cap \in CapsOf(s)'}
  BY <1>2 DEF ExactRecord, Kept, Roots
<1>6. kept.anchors = {cap.root : cap \in SlipsOf(s)'}
  BY <1>2 DEF ExactRecord, Kept, Anchors
<1>7. kept.peer = IF Takes(s, {"proven", "rooted"})' THEN {PeerOf[s]} ELSE {}
  BY <1>3 DEF ExactRecord, Kept
<1>8. kept.proven <=> Takes(s, {"proven"})'
  BY <1>3 DEF ExactRecord, Kept
<1>9. kept.lease = Earliest(UNION {cap.until : cap \in CapsOf(s)'})
  <2> DEFINE A == UNION {cap.until : cap \in CapsOf(s)}
             B == Expiries(grant)
  <2>1. CapsOf(s) \subseteq Caps
    BY GrantParts DEF CapsOf, TypeOK
  <2>2. A \in SUBSET Nat /\ B \in SUBSET Nat
    BY <2>1, GrantParts, ChainsAssumption
  <2>3. UNION {cap.until : cap \in CapsOf(s)'} = A \cup B
    BY <1>2 DEF Expiries
  <2>4. kept.lease = Earliest(Earliest(A) \cup B)
    BY DEF ExactRecord, Kept
  <2> QED BY <2>2, <2>3, <2>4, EarliestUnion
<1> HIDE DEF kept
<1> QED BY <1>1, <1>4, <1>5, <1>6, <1>7, <1>8, <1>9 DEF ExactRecord

\* A step that moves neither record nor history keeps the record exact.
LEMMA SameExact ==
  ASSUME NEW s \in Sessions, chains'[s] = chains[s], served'[s] = served[s]
  PROVE  ExactRecord(s)' <=> ExactRecord(s)
  BY DEF ExactRecord, CapsOf, SlipsOf, Takes

\* Every step of a stream keeps every record exact.
LEMMA StreamExact ==
  ASSUME TypeOK, RecordExact, NEW s \in Sessions, NEW i \in Slots,
         Quiet(s, i) \/ Answers(s, i)
  PROVE  RecordExact'
<1>1. ASSUME NEW t \in Sessions, t # s
      PROVE  (HasCuts => ExactRecord(t)') /\ ServedRecorded(t)'
  <2>1. pipe'[t] = pipe[t] /\ chains'[t] = chains[t] /\ served'[t] = served[t]
    BY <1>1 DEF Quiet, Answers, Answer, Put, TypeOK
  <2> QED BY <2>1, SameExact, RecordParts DEF ServedRecorded
<1>2. CASE Quiet(s, i)
  <2>1. PICK p \in Pipes :
          /\ Put(s, i, p)
          /\ p.phase \in Answering => pipe[s][i].phase \in Answering /\ p.grant = pipe[s][i].grant
    BY <1>2 DEF Quiet
  <2>2. \A j \in Slots : pipe'[s][j] = IF j = i THEN p ELSE pipe[s][j]
    BY <2>1 DEF Put, TypeOK
  <2>3. ServedRecorded(s)'
    BY <1>2, <2>1, <2>2, RecordParts DEF ServedRecorded, Quiet
  <2>4. HasCuts => ExactRecord(s)'
    BY <1>2, SameExact, RecordParts DEF Quiet
  <2> QED BY <1>1, <2>3, <2>4 DEF RecordExact, ServedRecorded, Answering
<1>3. CASE Answers(s, i)
  <2>1. PICK name \in Names, grant \in Grants : Answer(s, i, name, grant)
    BY <1>3 DEF Answers
  <2>2. \A j \in Slots :
          pipe'[s][j] = IF j = i THEN Stream("answering", name, grant) ELSE pipe[s][j]
    BY <2>1 DEF Answer, Put, TypeOK
  <2>3. served'[s] = served[s] \cup {grant}
    BY <2>1 DEF Answer, TypeOK
  <2>4. ServedRecorded(s)'
    BY <2>2, <2>3, RecordParts DEF ServedRecorded, Stream
  <2>5. HasCuts => ExactRecord(s)'
    BY <2>1, KeptExact, RecordParts DEF Answer
  <2> QED BY <1>1, <2>4, <2>5 DEF RecordExact, ServedRecorded, Answering
<1> QED BY <1>2, <1>3

\* Dropping a session keeps every record exact.
LEMMA DropExact ==
  ASSUME TypeOK, RecordExact, NEW s \in Sessions, Drop(s)
  PROVE  RecordExact'
<1>1. ASSUME NEW t \in Sessions, t # s
      PROVE  (HasCuts => ExactRecord(t)') /\ ServedRecorded(t)'
  <2>1. pipe'[t] = pipe[t] /\ chains'[t] = chains[t] /\ served'[t] = served[t]
    BY <1>1 DEF Drop, TypeOK
  <2> QED BY <2>1, SameExact, RecordParts DEF ServedRecorded
<1>2. ExactRecord(s)' /\ ServedRecorded(s)'
  <2>1. pipe'[s] = [i \in Slots |-> Idle] /\ chains'[s] = Nothing /\ served'[s] = {}
    BY DEF Drop, TypeOK
  <2>2. ServedRecorded(s)'
    BY <2>1 DEF ServedRecorded, Idle, Answering
  <2>3. ExactRecord(s)'
    <3>1. CapsOf(s)' = {} /\ SlipsOf(s)' = {} /\ \A paths : ~Takes(s, paths)'
      BY <2>1 DEF CapsOf, SlipsOf, Takes
    <3> QED BY <2>1, <3>1 DEF ExactRecord, Nothing, Earliest
  <2> QED BY <2>2, <2>3
<1> QED BY <1>1, <1>2 DEF RecordExact, ServedRecorded, Answering

\* The inductive invariant: the types, and the two facts about records and frames.
SInv == TypeOK /\ Emptied /\ RecordExact

\* Every step of the node keeps every record exact.
LEMMA NextExact == SInv /\ [Next]_vars => RecordExact'
<1> SUFFICES ASSUME TypeOK, RecordExact, [Next]_vars
             PROVE  RecordExact'
  BY DEF SInv
<1>1. ASSUME UNCHANGED <<pipe, chains, served>>
      PROVE  RecordExact'
  BY <1>1, SameExact DEF RecordExact
<1>2. ASSUME NEW s \in Sessions, SessionStep(s)
      PROVE  RecordExact'
  <2>1. Drop(s) \/ UNCHANGED <<pipe, chains, served>>
    BY <1>2 DEF SessionStep, AcceptSession, PeerLeaves, SessionDone, SessionSweep
  <2> QED BY <1>1, <2>1, DropExact
<1>3. ASSUME NEW s \in Sessions, NEW i \in Slots, StreamStep(s, i)
      PROVE  RecordExact'
  BY <1>3, StreamFrame, StreamExact
<1>4. CASE Restart
  <2>1. ASSUME NEW s \in Sessions
        PROVE  ExactRecord(s)' /\ ServedRecorded(s)'
    <3>1. pipe'[s] = [i \in Slots |-> Idle] /\ chains'[s] = Nothing /\ served'[s] = {}
      BY <1>4 DEF Restart
    <3>2. CapsOf(s)' = {} /\ SlipsOf(s)' = {} /\ \A paths : ~Takes(s, paths)'
      BY <3>1 DEF CapsOf, SlipsOf, Takes
    <3>3. ExactRecord(s)'
      BY <3>1, <3>2 DEF ExactRecord, Nothing, Earliest
    <3>4. ServedRecorded(s)'
      BY <3>1 DEF ServedRecorded, Idle, Answering
    <3> QED BY <3>3, <3>4
  <2> QED BY <2>1 DEF RecordExact, ServedRecorded, Answering
<1>5. CASE SweepTick \/ Environment \/ UNCHANGED vars
  BY <1>1, <1>5 DEF SweepTick, Environment, Revoke, Repin, Tick, Toggle, vars
<1> QED BY <1>2, <1>3, <1>4, <1>5 DEF Next

(***************************************************************************)
(* The serving side's inductive invariant.                                 *)
(***************************************************************************)
THEOREM ServingInvariant == Spec => []SInv
<1>1. Init => RecordExact
  <2> SUFFICES ASSUME Init PROVE RecordExact
    OBVIOUS
  <2>1. \A s \in Sessions : chains[s] = Nothing /\ served[s] = {}
    BY DEF Init
  <2>2. \A s \in Sessions : ExactRecord(s)
    BY <2>1, EmptyExact
  <2>3. \A s \in Sessions : ServedRecorded(s)
    BY DEF Init, ServedRecorded, Idle, Answering
  <2> QED BY <2>2, <2>3, RecordParts
<1>2. SInv /\ [Next]_vars => RecordExact'
  BY NextExact
<1>3. SInv <=> TypeOK /\ Emptied /\ RecordExact
  BY DEF SInv
<1> QED BY <1>1, <1>2, <1>3, ServingTypeOK, AlwaysEmptied, PTL DEF Spec

(***************************************************************************)
(* The record of every session is exactly what it was served on.           *)
(***************************************************************************)
THEOREM ServingRecordExact == Spec => []RecordExact
<1>1. SInv => RecordExact
  BY DEF SInv
<1> QED BY <1>1, ServingInvariant, PTL

-----------------------------------------------------------------------------
(***************************************************************************)
(* The cut's verdict on the record is the gate's on the grants it stands   *)
(* for: the heart of the live cut.                                         *)
(***************************************************************************)
LEMMA CutIsGate ==
  ASSUME TypeOK, NEW s \in Sessions, ExactRecord(s)
  PROVE  Cuts(chains[s], store, now)
           <=> \E grant \in served[s] : ~Standing(PeerOf[s], grant, store, now)
<1> DEFINE peer == PeerOf[s]
<1>1. \A grant \in served[s] : /\ grant \in Grants
                              /\ grant.slip \subseteq Ruled(grant)
                              /\ Ruled(grant) \subseteq Caps
                              /\ grant.path # "rooted" => Ruled(grant) = {}
  BY GrantParts DEF TypeOK, Grants
<1>2. (chains[s].ids \cap store.ids # {})
        <=> \E grant \in served[s] : \E cap \in Ruled(grant) : cap.ids \cap store.ids # {}
  BY DEF ExactRecord, CapsOf
<1>3. (chains[s].roots \cap store.keys # {})
        <=> \E grant \in served[s] : \E cap \in Ruled(grant) : cap.root \in store.keys
  BY DEF ExactRecord, CapsOf
<1>4. (\E anchor \in chains[s].anchors : anchor # store.pin)
        <=> \E grant \in served[s] : \E cap \in grant.slip : cap.root # store.pin
  BY DEF ExactRecord, SlipsOf
<1>5. (PeerKeys(chains[s]) \cap store.keys # {})
        <=> \E grant \in served[s] :
              \/ grant.path \in {"proven", "rooted"} /\ peer \in store.keys
              \/ grant.path = "proven" /\ Twin[peer] \in store.keys
  BY DEF ExactRecord, PeerKeys, Takes
<1>6. Lapsed(chains[s].lease, now)
        <=> \E grant \in served[s] : \E cap \in Ruled(grant) : Lapsed(cap.until, now)
  <2> DEFINE S == UNION {cap.until : cap \in CapsOf(s)}
  <2>1. CapsOf(s) \subseteq Caps
    BY GrantParts DEF CapsOf, TypeOK
  <2>2. S \in SUBSET Nat /\ now \in Nat
    BY <2>1, ChainsAssumption DEF TypeOK
  <2>3. Lapsed(chains[s].lease, now) <=> Lapsed(S, now)
    BY <2>2, LapsedEarliest DEF ExactRecord
  <2>4. Lapsed(S, now) <=> \E cap \in CapsOf(s) : Lapsed(cap.until, now)
    BY DEF Lapsed
  <2> QED BY <2>3, <2>4 DEF CapsOf
<1> QED BY <1>1, <1>2, <1>3, <1>4, <1>5, <1>6 DEF Cuts, Standing, Holds

(***************************************************************************)
(* No served stream escapes the cut.                                       *)
(***************************************************************************)
THEOREM StreamsDoNotEscape == Spec => []NoStreamEscapes
<1>1. SInv => NoStreamEscapes
  <2> SUFFICES ASSUME SInv, HasCuts, NEW s \in Sessions, NEW i \in Slots,
                      pipe[s][i].phase \in {"answering", "serving"},
                      ~Standing(PeerOf[s], pipe[s][i].grant, store, now)
               PROVE  Condemned(s)
    BY DEF NoStreamEscapes
  <2>1. pipe[s][i].grant \in served[s] /\ ExactRecord(s)
    BY DEF SInv, RecordExact
  <2> QED BY <2>1, CutIsGate DEF SInv, Condemned
<1> QED BY <1>1, ServingInvariant, PTL

(***************************************************************************)
(* No session is cut but for a grant it was served on and the gate would   *)
(* now refuse.                                                             *)
(***************************************************************************)
THEOREM CutsAreNotSpurious == Spec => []NoSpuriousCut
<1>1. SInv => NoSpuriousCut
  BY CutIsGate DEF SInv, RecordExact, NoSpuriousCut, Condemned
<1> QED BY <1>1, ServingInvariant, PTL

(***************************************************************************)
(* The cut judges a session by what each of its grants rested on, no more  *)
(* and no less.                                                            *)
(***************************************************************************)
THEOREM CutsAreExact == Spec => []CutIsExact
<1>1. NoStreamEscapes /\ NoSpuriousCut => CutIsExact
  BY DEF CutIsExact
<1> QED BY <1>1, StreamsDoNotEscape, CutsAreNotSpurious, PTL

(***************************************************************************)
(* A session of strangers alone is never cut.                              *)
(***************************************************************************)
THEOREM StrangersStay == Spec => []StrangersAreNotCut
<1>1. SInv => StrangersAreNotCut
  <2> SUFFICES ASSUME SInv, NEW s \in Sessions, HasCuts,
                      \A grant \in served[s] : OriginOf(grant.path) = "Open"
               PROVE  ~Cuts(chains[s], store, now)
    BY DEF StrangersAreNotCut, Condemned
  <2>1. ASSUME NEW grant \in served[s]
        PROVE  Standing(PeerOf[s], grant, store, now)
    <3>1. grant \in Grants /\ OriginOf(grant.path) = "Open"
      BY DEF SInv, TypeOK
    <3>2. grant.path \notin {"rooted", "proven"}
      BY <3>1 DEF OriginOf
    <3>3. Ruled(grant) = {} /\ grant.slip = {}
      BY <3>1, <3>2 DEF Grants, Ruled
    <3> QED BY <3>2, <3>3 DEF Standing
  <2> QED BY <2>1, CutIsGate DEF SInv, RecordExact
<1> QED BY <1>1, ServingInvariant, PTL
-----------------------------------------------------------------------------
(***************************************************************************)
(* A session's lease only shortens while it lives.                         *)
(***************************************************************************)
Shortens(s) ==
  session[s].live /\ session'[s].live =>
    /\ chains[s].ids \subseteq chains'[s].ids
    /\ chains[s].anchors \subseteq chains'[s].anchors
    /\ \A t \in chains[s].lease : \E u \in chains'[s].lease : u <= t

\* No step moves a living session's lease later or forgets what it recorded.
LEMMA NextShortens == TypeOK /\ [Next]_vars => \A s \in Sessions : Shortens(s)
<1> SUFFICES ASSUME TypeOK, [Next]_vars, NEW s \in Sessions
             PROVE  Shortens(s)
  OBVIOUS
<1>1. ASSUME chains'[s] = chains[s]
      PROVE  Shortens(s)
  <2>1. \A t \in chains[s].lease : t <= t
    BY DEF TypeOK, Records
  <2> QED BY <1>1, <2>1 DEF Shortens
<1>2. ASSUME ~session'[s].live
      PROVE  Shortens(s)
  BY <1>2 DEF Shortens
<1>3. ASSUME NEW t \in Sessions, Drop(t)
      PROVE  Shortens(s)
  <2>1. CASE t = s
    BY <1>2, <1>3, <2>1 DEF Drop, TypeOK, Gone
  <2>2. CASE t # s
    BY <1>1, <1>3, <2>2 DEF Drop, TypeOK
  <2> QED BY <2>1, <2>2
<1>4. ASSUME NEW t \in Sessions, SessionStep(t)
      PROVE  Shortens(s)
  <2>1. Drop(t) \/ UNCHANGED chains
    BY <1>4 DEF SessionStep, AcceptSession, PeerLeaves, SessionDone, SessionSweep
  <2> QED BY <1>1, <1>3, <2>1
<1>5. ASSUME NEW t \in Sessions, NEW i \in Slots, StreamStep(t, i)
      PROVE  Shortens(s)
  <2>1. CASE UNCHANGED chains
    BY <1>1, <2>1
  <2>2. CASE ~UNCHANGED chains
    <3>1. PICK name \in Names, grant \in Grants : Answer(t, i, name, grant)
      BY <1>5, <2>2, StreamFrame DEF Quiet, Answers
    <3>2. chains' = [chains EXCEPT ![t] = Kept(@, PeerOf[t], grant)]
      BY <2>2, <3>1 DEF Answer
    <3>3. CASE t # s
      BY <1>1, <3>2, <3>3 DEF TypeOK
    <3>4. CASE t = s
      <4>1. chains'[s] = Kept(chains[s], PeerOf[s], grant)
        BY <3>2, <3>4 DEF TypeOK
      <4>2. chains[s] \in Records /\ PeerOf[s] \in Keys
        BY ServingAssumption DEF TypeOK
      <4> QED BY <4>1, <4>2, KeptShortens DEF Shortens
    <3> QED BY <3>3, <3>4
  <2> QED BY <2>1, <2>2
<1>6. CASE Restart
  <2>1. ~session'[s].live
    BY <1>6 DEF Restart, Gone
  <2> QED BY <1>2, <2>1
<1>7. CASE SweepTick \/ Environment \/ UNCHANGED vars
  BY <1>1, <1>7 DEF SweepTick, Environment, Revoke, Repin, Tick, Toggle, vars
<1> QED BY <1>4, <1>5, <1>6, <1>7 DEF Next

\* A session's record only grows and its lease only shortens (LeaseOnlyShortens).
THEOREM LeasesShorten == Spec => LeaseOnlyShortens
<1>1. TypeOK /\ [Next]_vars =>
        [\A s \in Sessions :
           session[s].live /\ session'[s].live =>
             /\ chains[s].ids \subseteq chains'[s].ids
             /\ chains[s].anchors \subseteq chains'[s].anchors
             /\ \A t \in chains[s].lease : \E u \in chains'[s].lease : u <= t]_vars
  BY NextShortens DEF Shortens
<1> QED BY <1>1, ServingTypeOK, PTL DEF Spec, LeaseOnlyShortens
-----------------------------------------------------------------------------
(* No stream is served without the witness its route asks for, for every   *)
(* route table Exposer::prove lets through.                                *)

\* A handler's proof is minted when it is prepared; a raw source needs none.
Cleared(name, grant) ==
  Dispatches(name, grant) /\ (name \notin Node.raw => Mints(name, grant))

(***************************************************************************)
(* A stranger's stream reaches a raw source only by the unsafe overlay and *)
(* a handler only by the public one or an open base.                       *)
(***************************************************************************)
LEMMA StrangersReach ==
  ASSUME NEW name \in Node.services, OriginOf(PathOf(Node, name)) = "Open"
  PROVE  name \in CASE name \in Node.raw -> Node.unsafe
                    [] OTHER -> IF Node.open THEN Node.services ELSE Node.public
<1>1. Proves(Node)
  BY ServingAssumption
<1>2. CASE InOverlay(Node, name)
  <2>1. name \in Node.unsafe => name \in Node.raw
    BY <1>1 DEF Proves, ProvesUnsafe
  <2>2. name \in Node.public => name \notin Node.raw
    BY <1>1 DEF Proves, ProvesPublic, OpenSafe
  <2> QED BY <1>2, <2>1, <2>2 DEF InOverlay
<1>3. CASE ~InOverlay(Node, name)
  <2>1. Node.open /\ PathOf(Node, name) = "open"
    BY <1>3 DEF PathOf, OriginOf
  <2>2. Node.raw \subseteq Node.unsafe
    BY <1>1, <2>1 DEF Proves, ProvesOpenBase
  <2> QED BY <1>3, <2>1, <2>2 DEF InOverlay
<1> QED BY <1>2, <1>3

\* A proven-only name meets the ruling of proven keys and no other.
LEMMA ProvenPath ==
  ASSUME NEW name \in Node.proven
  PROVE  PathOf(Node, name) = "proven"
<1>1. name \notin Node.public
  BY ServingAssumption DEF Proves, ProvesPublic
<1>2. name \notin Node.unsafe
  BY ServingAssumption DEF Proves, ProvesUnsafe, Binds
<1> QED BY <1>1, <1>2 DEF PathOf, InOverlay

(***************************************************************************)
(* A delegation that compiles is never refused when it is made: the mint   *)
(* Served::delegate repeats accepts whatever the outer handler accepted.   *)
(***************************************************************************)
LEMMA DelegationKeeps ==
  ASSUME NEW outer, NEW inner, NEW origin,
         Compatible(outer, inner), Accepts(outer, origin)
  PROVE  Accepts(inner, origin)
<1>1. CASE inner = outer
  BY <1>1
<1>2. CASE outer = "Never" /\ inner = "OptIn"
  BY <1>2 DEF Accepts
<1> QED BY <1>1, <1>2 DEF Compatible

\* Nor does a longer chain reach further than one delegation.
LEMMA DelegationChains ==
  ASSUME NEW outer, NEW middle, NEW inner,
         Compatible(outer, middle), Compatible(middle, inner)
  PROVE  Compatible(outer, inner)
  BY DEF Compatible

(***************************************************************************)
(* What admission, dispatch and the handler's marker let through together  *)
(* may face the target.                                                    *)
(***************************************************************************)
LEMMA AdmittedWorthy ==
  ASSUME NEW s \in Sessions, NEW name, NEW o \in Offers, NEW phase,
         Admits(s, name, o), Cleared(name, GrantOf(name, o))
  PROVE  Worthy(s, Stream(phase, name, GrantOf(name, o)))
<1> DEFINE grant == GrantOf(name, o)
           p == Stream(phase, name, grant)
<1>1. p.name = name /\ p.grant = grant /\ grant.path = PathOf(Node, name)
  BY DEF Stream, GrantOf
<1>2. name \in Node.services /\ (name \in Node.member => IsMember(grant))
  BY DEF Cleared, Dispatches
<1>3. Handled(p) =>
        \A inner \in Markers : Compatible(Node.exposure[name], inner) =>
          Accepts(inner, OriginOf(grant.path))
  <2>1. Handled(p) => Accepts(Node.exposure[name], OriginOf(grant.path))
    BY <1>1 DEF Handled, Cleared, Mints
  <2> QED BY <2>1, DelegationKeeps
<1>4. OriginOf(grant.path) = "Open" =>
        name \in CASE name \in Node.raw -> Node.unsafe
                  [] OTHER -> IF Node.open THEN Node.services ELSE Node.public
  BY <1>1, <1>2, StrangersReach
<1>5. name \in Node.proven =>
        grant.path = "proven" /\ PeerProven /\ PeerOf[s] \in Known[name]
  BY <1>1, ProvenPath DEF Admits
<1>6. OriginOf(grant.path) = "Rooted" => PeerProven /\ grant.slip # {}
  <2>1. OriginOf(grant.path) = "Rooted" => grant.path = "rooted"
    BY <1>1, PathTyped DEF OriginOf
  <2> QED BY <2>1 DEF Admits, Covers
<1>7. Worthy(s, p)
  <2> HIDE DEF grant, p
  <2> QED BY <1>1, <1>2, <1>3, <1>4, <1>5, <1>6 DEF Worthy
<1> QED BY <1>7

\* Only what a stream asks for and was admitted on counts.
LEMMA SameWorthy ==
  ASSUME NEW s, NEW p, NEW q, p.name = q.name, p.grant = q.grant
  PROVE  Worthy(s, p) => Worthy(s, q)
  BY DEF Worthy, Handled
-----------------------------------------------------------------------------
\* The invariant, from admission on: an open in flight is worthy already.
Underway == {"opening", "answering", "serving"}

Fit(s, p) == p.phase \in Underway => Worthy(s, p)

AllFit == \A s \in Sessions : \A i \in Slots : Fit(s, pipe[s][i])

\* A free slot, and a stream at its start or its end, serve nobody.
LEMMA UnservedFit ==
  ASSUME NEW s
  PROVE  /\ Fit(s, Idle)
         /\ \A name, grant : \A phase \in {"reading", "refusing"} : Fit(s, Stream(phase, name, grant))
  BY DEF Fit, Idle, Stream, Underway

\* Every outcome of a request leaves a stream that fits.
LEMMA RequestFit ==
  ASSUME NEW s \in Sessions, NEW i \in Slots, NEW o \in Offers,
         \/ RefuseAtGate(s, i, o) \/ RefuseInside(s, i, o)
         \/ OpenRaw(s, i, o) \/ AnswerHandler(s, i, o)
  PROVE  \E p : Put(s, i, p) /\ Fit(s, p)
<1> DEFINE name  == ResolveSingle(Node, o.name)
           grant == GrantOf(name, o)
<1>1. CASE RefuseAtGate(s, i, o) \/ RefuseInside(s, i, o)
  BY <1>1, UnservedFit DEF RefuseAtGate, RefuseInside
<1>2. CASE OpenRaw(s, i, o)
  <2>1. Admits(s, name, o) /\ Cleared(name, grant) /\ Put(s, i, Stream("opening", name, grant))
    BY <1>2 DEF OpenRaw, Cleared
  <2>2. Worthy(s, Stream("opening", name, grant))
    BY <2>1, AdmittedWorthy
  <2> QED BY <2>1, <2>2 DEF Fit
<1>3. CASE AnswerHandler(s, i, o)
  <2>1. Admits(s, name, o) /\ Cleared(name, grant) /\ Put(s, i, Stream("answering", name, grant))
    BY <1>3 DEF AnswerHandler, Cleared, Answer
  <2>2. Worthy(s, Stream("answering", name, grant))
    BY <2>1, AdmittedWorthy
  <2> QED BY <2>1, <2>2 DEF Fit
<1> QED BY <1>1, <1>2, <1>3

\* Every step of a stream leaves one that fits.
LEMMA StreamFit ==
  ASSUME TypeOK, NEW s \in Sessions, NEW i \in Slots, Fit(s, pipe[s][i]), StreamStep(s, i)
  PROVE  \E p : Put(s, i, p) /\ Fit(s, p)
<1> DEFINE p == pipe[s][i]
<1>1. CASE AcceptStream(s, i) \/ BadRequest(s, i) \/ RawRefused(s, i)
  BY <1>1, UnservedFit DEF AcceptStream, BadRequest, RawRefused
<1>2. CASE \/ ReadFails(s, i) \/ RefusalSent(s, i) \/ StreamEnds(s, i) \/ Detach(s, i)
           \/ ProvenDeadline(s, i) \/ FirstTrafficTimeout(s, i)
  BY <1>2, UnservedFit
  DEF Leave, ReadFails, RefusalSent, StreamEnds, Detach, ProvenDeadline, FirstTrafficTimeout
<1>3. CASE \E o \in Offers : \/ RefuseAtGate(s, i, o) \/ RefuseInside(s, i, o)
                             \/ OpenRaw(s, i, o) \/ AnswerHandler(s, i, o)
  BY <1>3, RequestFit
<1>4. CASE RawOpened(s, i)
  <2> DEFINE q == Stream("answering", p.name, p.grant)
  <2>1. Put(s, i, q) /\ Worthy(s, p)
    BY <1>4 DEF RawOpened, Answer, Fit, Underway
  <2>2. q.name = p.name /\ q.grant = p.grant
    BY DEF Stream
  <2> HIDE DEF p, q
  <2>3. Worthy(s, q)
    BY <2>1, <2>2, SameWorthy
  <2> QED BY <2>1, <2>3 DEF Fit
<1>5. CASE Answered(s, i) \/ Traffic(s, i)
  <2> DEFINE q == IF Answered(s, i) THEN [p EXCEPT !.phase = "serving"]
                                    ELSE [p EXCEPT !.spoke = TRUE]
  <2>1. Put(s, i, q) /\ p.phase \in Underway
    BY <1>5 DEF Answered, Traffic, Put, Underway
  <2>2. q.name = p.name /\ q.grant = p.grant
    BY DEF TypeOK, Pipes
  <2>3. Worthy(s, p)
    BY <2>1 DEF Fit
  <2> HIDE DEF p, q
  <2>4. Worthy(s, q)
    BY <2>2, <2>3, SameWorthy
  <2> QED BY <2>1, <2>4 DEF Fit
<1> QED BY <1>1, <1>2, <1>3, <1>4, <1>5 DEF StreamStep

\* Every step of the node keeps every stream fit.
LEMMA NextFit == TypeOK /\ AllFit /\ [Next]_vars => AllFit'
<1> SUFFICES ASSUME TypeOK, AllFit, [Next]_vars
             PROVE  AllFit'
  OBVIOUS
<1>1. ASSUME UNCHANGED pipe
      PROVE  AllFit'
  BY <1>1 DEF AllFit, Fit, Worthy, Handled
<1>2. ASSUME NEW s \in Sessions, SessionStep(s)
      PROVE  AllFit'
  <2>1. CASE Drop(s)
    <3>1. \A t \in Sessions : \A j \in Slots :
            pipe'[t][j] = IF t = s THEN Idle ELSE pipe[t][j]
      BY <2>1 DEF Drop, TypeOK
    <3> QED BY <3>1, UnservedFit DEF AllFit
  <2>2. Drop(s) \/ UNCHANGED pipe
    BY <1>2 DEF SessionStep, AcceptSession, PeerLeaves, SessionDone, SessionSweep
  <2> QED BY <1>1, <2>1, <2>2
<1>3. ASSUME NEW s \in Sessions, NEW i \in Slots, StreamStep(s, i)
      PROVE  AllFit'
  <2>1. PICK p : Put(s, i, p) /\ Fit(s, p)
    BY <1>3, StreamFit DEF AllFit
  <2>2. \A t \in Sessions : \A j \in Slots :
          pipe'[t][j] = IF t = s /\ j = i THEN p ELSE pipe[t][j]
    BY <2>1 DEF Put, TypeOK
  <2> QED BY <2>1, <2>2 DEF AllFit
<1>4. CASE Restart
  <2>1. \A t \in Sessions : \A j \in Slots : pipe'[t][j] = Idle
    BY <1>4 DEF Restart
  <2> QED BY <2>1, UnservedFit DEF AllFit
<1>5. CASE SweepTick \/ Environment \/ UNCHANGED vars
  BY <1>1, <1>5 DEF SweepTick, Environment, Revoke, Repin, Tick, Toggle, vars
<1> QED BY <1>2, <1>3, <1>4, <1>5 DEF Next

(***************************************************************************)
(* Whatever path a stream came in on, and whatever the order of what other *)
(* streams, the operator and the clock did meanwhile, what serves it may   *)
(* face the witness it was minted.                                         *)
(***************************************************************************)
THEOREM WitnessesFit == Spec => []WitnessFits
<1>1. Init => AllFit
  BY UnservedFit DEF Init, AllFit
<1>2. TypeOK /\ AllFit /\ [Next]_vars => AllFit'
  BY NextFit
<1>3. AllFit => WitnessFits
  BY DEF AllFit, Fit, Underway, WitnessFits
<1> QED BY <1>1, <1>2, <1>3, ServingTypeOK, PTL DEF Spec
-----------------------------------------------------------------------------
(* The pools hold, for any number of sessions and streams and any size. *)

(***************************************************************************)
(* A set under its bound stays under it when it grows by one at most, and  *)
(* then only with room left.                                               *)
(***************************************************************************)
LEMMA RoomKept ==
  ASSUME NEW S, IsFiniteSet(S), NEW T, NEW x, NEW N \in Nat,
         Cardinality(S) <= N, T \subseteq S \cup {x},
         T \subseteq S \/ Cardinality(S) < N
  PROVE  Cardinality(T) <= N
<1>1. Cardinality(S) \in Nat
  BY FS_CardinalityType
<1>2. CASE T \subseteq S
  <2>1. IsFiniteSet(T) /\ Cardinality(T) <= Cardinality(S)
    BY <1>2, FS_Subset
  <2> QED BY <1>1, <2>1, FS_CardinalityType
<1>3. CASE Cardinality(S) < N
  <2>1. IsFiniteSet(S \cup {x}) /\ Cardinality(S \cup {x}) <= Cardinality(S) + 1
    BY <1>1, FS_AddElement
  <2>2. IsFiniteSet(T) /\ Cardinality(T) <= Cardinality(S \cup {x})
    BY <2>1, FS_Subset
  <2> QED BY <1>1, <1>3, <2>1, <2>2, FS_CardinalityType
<1> QED BY <1>2, <1>3

\* What the pools are counted over is finite.
LEMMA PoolsFinite ==
  ASSUME TypeOK
  PROVE  /\ IsFiniteSet(Live) /\ IsFiniteSet(Classified)
         /\ \A pool \in Pools : IsFiniteSet(permits[pool]) /\ Capacity[pool] \in Nat
<1>1. IsFiniteSet(Sessions) /\ IsFiniteSet(Sessions \X Slots)
  BY PoolAssumption, FS_Product
<1>2. /\ Live \subseteq Sessions /\ Classified \subseteq Sessions
      /\ \A pool \in Pools : permits[pool] \subseteq Sessions \X Slots
  BY DEF Live, Classified, TypeOK
<1>3. \A pool \in Pools : Capacity[pool] \in Nat
  BY PoolAssumption DEF Capacity, Pools
<1> QED BY <1>1, <1>2, <1>3, FS_Subset

(***************************************************************************)
(* The strengthening of the pools: a stream that was not ruled on holds    *)
(* nothing, so what it is later admitted with is all that it holds.        *)
(***************************************************************************)
Uses(p, pool) == IF pool = "opens" THEN p.phase = "opening" ELSE p.grant.path = pool

RecordsFit == \A s \in Sessions : Cardinality(chains[s].ids) <= MaxIds
PublicIsClassified == \A x \in OnPath("public") : session[x[1]].public
Unruled == \A s \in Sessions : \A i \in Slots :
             pipe[s][i].phase = "reading" => pipe[s][i].grant = NoGrant

Capped ==
  /\ Cardinality(Live) <= MaxSessions
  /\ Cardinality(Classified) <= PublicSessions
  /\ \A pool \in Pools :
       permits[pool] = InUse(pool) /\ Cardinality(permits[pool]) <= Capacity[pool]
  /\ RecordsFit
  /\ PublicIsClassified
  /\ Unruled

\* A stream is in a pool's set when it uses the pool.
LEMMA InUseUses ==
  ASSUME NEW pool
  PROVE  InUse(pool) = {x \in Sessions \X Slots : Uses(pipe[x[1]][x[2]], pool)}
  BY DEF InUse, Uses, InPhase, OnPath

\* A stream holds a permit exactly when it uses the pool.
LEMMA HoldsUsed ==
  ASSUME Capped, NEW s \in Sessions, NEW i \in Slots, NEW pool \in Pools
  PROVE  << s, i >> \in permits[pool] <=> Uses(pipe[s][i], pool)
  BY InUseUses DEF Capped

(***************************************************************************)
(* What a step of a stream does to the pools: it ends up with the permits  *)
(* of what it now uses and no other, takes one only where there is room    *)
(* for it, and classifies its session with the public one.                 *)
(***************************************************************************)
Settles(s, i, p) ==
  \A pool \in Pools :
    /\ permits'[pool] = IF Uses(p, pool) THEN permits[pool] \cup {<< s, i >>}
                                         ELSE permits[pool] \ {<< s, i >>}
    /\ Uses(p, pool) => Uses(pipe[s][i], pool) \/ HasRoom(pool)

Claims(s, i) ==
  /\ \E p \in Pipes :
       /\ Put(s, i, p) /\ Settles(s, i, p)
       /\ p.grant.path = "public" => session'[s].public
       /\ p.phase = "reading" => p.grant = NoGrant
  /\ session'[s].public => session[s].public \/ PublicRoom(s)
  /\ session[s].public => session'[s].public

\* A stream of the public path is in a classified session.
LEMMA SlotClassified ==
  ASSUME PublicIsClassified, NEW s \in Sessions, NEW i \in Slots,
         pipe[s][i].grant.path = "public"
  PROVE  session[s].public
<1>1. << s, i >> \in OnPath("public")
  BY DEF OnPath
<1> QED BY <1>1 DEF PublicIsClassified

\* A step that takes and gives back nothing, to a place that uses the same.
LEMMA MoveClaims ==
  ASSUME TypeOK, Capped, NEW s \in Sessions, NEW i \in Slots, NEW p \in Pipes,
         Put(s, i, p), session'[s].public = session[s].public, permits' = permits,
         p.grant = pipe[s][i].grant,
         p.phase # "opening", pipe[s][i].phase # "opening",
         p.phase = "reading" => p.grant = NoGrant
  PROVE  Claims(s, i)
<1>1. \A pool \in Pools : Uses(p, pool) <=> Uses(pipe[s][i], pool)
  BY DEF Uses
<1>2. Settles(s, i, p)
  BY <1>1, HoldsUsed DEF Settles
<1>3. p.grant.path = "public" => session'[s].public
  BY SlotClassified DEF Capped
<1> QED BY <1>2, <1>3 DEF Claims

\* The end of a stream.
LEMMA LeaveClaims ==
  ASSUME TypeOK, NEW s \in Sessions, NEW i \in Slots, Leave(s, i),
         session'[s].public = session[s].public
  PROVE  Claims(s, i)
<1>1. Idle \in Pipes /\ Idle.grant = NoGrant /\ NoGrant.path = "none" /\ Idle.phase = "idle"
  BY IdleTyped DEF Idle, NoGrant
<1>2. \A pool \in Pools : ~Uses(Idle, pool) /\ permits'[pool] = permits[pool] \ {<< s, i >>}
  BY <1>1 DEF Uses, Leave, Released, Pools
<1>3. Settles(s, i, Idle)
  BY <1>2 DEF Settles
<1> QED BY <1>1, <1>3 DEF Claims, Leave

\* The end of an open.
LEMMA OpenClaims ==
  ASSUME TypeOK, Capped, NEW s \in Sessions, NEW i \in Slots,
         pipe[s][i].phase = "opening", NEW p \in Pipes, Put(s, i, p),
         p.grant = pipe[s][i].grant, p.phase \in {"refusing", "answering"},
         permits' = Released(<< s, i >>, {"opens"}), UNCHANGED session
  PROVE  Claims(s, i)
<1>1. \A pool \in Pools :
         /\ Uses(p, pool) <=> pool # "opens" /\ Uses(pipe[s][i], pool)
         /\ permits'[pool] = IF pool = "opens" THEN permits[pool] \ {<< s, i >>} ELSE permits[pool]
  BY DEF Uses, Released
<1>2. Settles(s, i, p)
  BY <1>1, HoldsUsed DEF Settles
<1>3. p.grant.path = "public" => session'[s].public
  BY SlotClassified DEF Capped
<1> QED BY <1>2, <1>3 DEF Claims

\* A step that admits a stream.
LEMMA AdmitClaims ==
  ASSUME TypeOK, Capped, NEW s \in Sessions, NEW i \in Slots,
         pipe[s][i].phase = "reading", NEW name \in Names, NEW o \in Offers,
         NEW phase \in {"refusing", "opening", "answering"},
         Admits(s, name, o),
         Enter(s, i, GrantOf(name, o), IF phase = "opening" THEN {"opens"} ELSE {}),
         Put(s, i, Stream(phase, name, GrantOf(name, o))),
         phase = "opening" => HasRoom("opens")
  PROVE  Claims(s, i)
<1> DEFINE grant == GrantOf(name, o)
           p == Stream(phase, name, grant)
<1>1. grant \in Grants
  BY GrantTyped
<1>2. p \in Pipes /\ p.grant = grant /\ p.phase = phase
  BY <1>1, StreamTyped DEF InFlight, Stream
<1>3. grant.path \in {"public", "proven", "open", "rooted"}
  BY PathTyped DEF GrantOf
<1>4. /\ grant.path = "public" => PublicRoom(s)
      /\ grant.path = "proven" => HasRoom("proven")
  BY DEF Admits
<1>5. session'[s].public = (session[s].public \/ grant.path = "public")
  BY DEF Enter, TypeOK
<1> HIDE DEF p
<1>6. \A pool \in Pools : << s, i >> \notin permits[pool]
  <2>1. pipe[s][i].grant.path = "none"
    BY DEF Capped, Unruled, NoGrant
  <2> QED BY <2>1, HoldsUsed DEF Uses, Pools
<1>7. \A pool \in Pools :
         permits'[pool] = IF Uses(p, pool) THEN permits[pool] \cup {<< s, i >>} ELSE permits[pool]
  <2> SUFFICES ASSUME NEW pool \in Pools
               PROVE  permits'[pool] = IF Uses(p, pool) THEN permits[pool] \cup {<< s, i >>}
                                                        ELSE permits[pool]
    OBVIOUS
  <2>1. Uses(p, pool) <=> pool \in {grant.path} \cup IF phase = "opening" THEN {"opens"} ELSE {}
    BY <1>2, <1>3 DEF Uses
  <2>2. permits' = Taken(<< s, i >>, {grant.path} \cup IF phase = "opening" THEN {"opens"} ELSE {})
    BY DEF Enter
  <2> QED BY <2>1, <2>2 DEF Taken
<1>8. \A pool \in Pools : Uses(p, pool) => HasRoom(pool)
  BY <1>2, <1>4 DEF Uses, Pools, PublicRoom
<1>9. Settles(s, i, p)
  BY <1>6, <1>7, <1>8 DEF Settles
<1>10. Put(s, i, p)
  BY DEF p
<1> QED BY <1>2, <1>4, <1>5, <1>9, <1>10 DEF Claims, TypeOK

\* Every step of a stream claims its permits where there is room.
LEMMA StreamClaims ==
  ASSUME TypeOK, Capped, NEW s \in Sessions, NEW i \in Slots, StreamStep(s, i)
  PROVE  Claims(s, i)
<1> DEFINE p == pipe[s][i]
<1>1. p \in Pipes /\ p.name \in Names /\ p.grant \in Grants
  BY DEF TypeOK, Pipes
<1>2. "none" \in Names /\ NoGrant \in Grants /\ Idle.grant = NoGrant /\ Idle.phase = "idle"
  BY IdleTyped DEF Idle
<1>3. \A phase \in {"reading", "refusing", "answering"} : \A name \in Names : \A grant \in Grants :
        /\ Stream(phase, name, grant) \in Pipes
        /\ Stream(phase, name, grant).grant = grant
        /\ Stream(phase, name, grant).phase = phase
  BY StreamTyped DEF InFlight, Stream
<1>4. CASE AcceptStream(s, i) \/ BadRequest(s, i) \/ \E o \in Offers : RefuseAtGate(s, i, o)
  <2>1. PICK phase \in {"reading", "refusing"} : Put(s, i, Stream(phase, "none", NoGrant))
    BY <1>4 DEF AcceptStream, BadRequest, RefuseAtGate
  <2>2. UNCHANGED <<session, permits>>
    BY <1>4 DEF AcceptStream, BadRequest, RefuseAtGate
  <2>3. p.grant = NoGrant /\ p.phase # "opening"
    <3>1. CASE AcceptStream(s, i)
      BY <1>2, <3>1 DEF AcceptStream
    <3>2. CASE ~AcceptStream(s, i)
      BY <1>4, <3>2 DEF BadRequest, RefuseAtGate, Capped, Unruled
    <3> QED BY <3>1, <3>2
  <2> QED BY <1>2, <1>3, <2>1, <2>2, <2>3, MoveClaims
<1>5. CASE \/ ReadFails(s, i) \/ RefusalSent(s, i) \/ StreamEnds(s, i)
           \/ ProvenDeadline(s, i) \/ FirstTrafficTimeout(s, i)
  BY <1>5, LeaveClaims
  DEF ReadFails, RefusalSent, StreamEnds, ProvenDeadline, FirstTrafficTimeout
<1>6. CASE Detach(s, i)
  <2>1. Leave(s, i) /\ session'[s].public = session[s].public
    BY <1>6 DEF Detach, TypeOK
  <2> QED BY <2>1, LeaveClaims
<1>7. CASE RawRefused(s, i) \/ RawOpened(s, i)
  <2>1. PICK phase \in {"refusing", "answering"} : Put(s, i, Stream(phase, p.name, p.grant))
    BY <1>7 DEF RawRefused, RawOpened, Answer
  <2>2. /\ UNCHANGED session /\ p.phase = "opening"
        /\ permits' = Released(<< s, i >>, {"opens"})
    BY <1>7 DEF RawRefused, RawOpened
  <2> QED BY <1>1, <1>3, <2>1, <2>2, OpenClaims
<1>8. CASE Answered(s, i) \/ Traffic(s, i)
  <2> DEFINE q == IF Answered(s, i) THEN [p EXCEPT !.phase = "serving"]
                                    ELSE [p EXCEPT !.spoke = TRUE]
  <2>1. Put(s, i, q) /\ UNCHANGED <<session, permits>> /\ p.phase \in {"answering", "serving"}
    BY <1>8 DEF Answered, Traffic, Put
  <2>2. q \in Pipes /\ q.grant = p.grant /\ q.phase \notin {"opening", "reading"}
    BY <1>1, <1>8 DEF Pipes, InFlight, Answered, Traffic
  <2> HIDE DEF q
  <2> QED BY <2>1, <2>2, MoveClaims
<1>9. ASSUME NEW o \in Offers, RefuseInside(s, i, o) \/ OpenRaw(s, i, o) \/ AnswerHandler(s, i, o)
      PROVE  Claims(s, i)
  <2> DEFINE name == ResolveSingle(Node, o.name)
             grant == GrantOf(name, o)
  <2>1. name \in Names
    BY NameTyped
  <2>2. Admits(s, name, o) /\ p.phase = "reading"
    BY <1>9 DEF RefuseInside, OpenRaw, AnswerHandler
  <2>3. PICK phase \in {"refusing", "opening", "answering"} :
           /\ Put(s, i, Stream(phase, name, grant))
           /\ Enter(s, i, grant, IF phase = "opening" THEN {"opens"} ELSE {})
           /\ phase = "opening" => HasRoom("opens")
    <3>1. CASE RefuseInside(s, i, o)
      BY <3>1 DEF RefuseInside
    <3>2. CASE OpenRaw(s, i, o)
      BY <3>2 DEF OpenRaw
    <3>3. CASE AnswerHandler(s, i, o)
      BY <3>3 DEF AnswerHandler, Answer
    <3> QED BY <1>9, <3>1, <3>2, <3>3
  <2> HIDE DEF name
  <2> QED BY <2>1, <2>2, <2>3, AdmitClaims
<1> QED BY <1>4, <1>5, <1>6, <1>7, <1>8, <1>9 DEF StreamStep
-----------------------------------------------------------------------------
(***************************************************************************)
(* Each kind of step keeps the pools.                                      *)
(***************************************************************************)
\* What a dropped frame keeps of every pool: less, and still what is used.
Shrinks ==
  /\ Live' \subseteq Live /\ Classified' \subseteq Classified
  /\ \A pool \in Pools : permits'[pool] = InUse(pool)' /\ permits'[pool] \subseteq permits[pool]
  /\ PublicIsClassified'
  /\ Unruled'

\* A pool that shrinks holds.
LEMMA ShrinkingHolds ==
  ASSUME TypeOK, Capped, Shrinks, RecordsFit'
  PROVE  Capped'
<1>1. Cardinality(Live') <= MaxSessions /\ Cardinality(Classified') <= PublicSessions
  BY PoolsFinite, RoomKept, PoolAssumption DEF Shrinks, Capped
<1>2. \A pool \in Pools : Cardinality(permits'[pool]) <= Capacity[pool]
  BY PoolsFinite, RoomKept DEF Shrinks, Capped
<1> QED BY <1>1, <1>2 DEF Shrinks, Capped

\* Dropping a frame, or all of them, frees its permits and no other.
LEMMA DropShrinks ==
  ASSUME TypeOK, Capped, NEW S \in SUBSET Sessions,
         \A t \in Sessions \ S : session'[t] = session[t] /\ pipe'[t] = pipe[t],
         \A t \in S : session'[t] = Gone /\ pipe'[t] = [i \in Slots |-> Idle],
         \A pool \in Pools : permits'[pool] = {x \in permits[pool] : x[1] \notin S}
  PROVE  Shrinks
<1>1. \A t \in S : ~session'[t].live /\ ~session'[t].public
  BY DEF Gone
<1>2. \A t \in S : \A i \in Slots :
         pipe'[t][i].grant = NoGrant /\ pipe'[t][i].phase = "idle"
  BY DEF Idle
<1>3. Live' \subseteq Live /\ Classified' \subseteq Classified
  BY <1>1 DEF Live, Classified
<1>4. \A pool \in Pools : InUse(pool)' = {x \in InUse(pool) : x[1] \notin S}
  <2> SUFFICES ASSUME NEW pool \in Pools
               PROVE  InUse(pool)' = {x \in InUse(pool) : x[1] \notin S}
    OBVIOUS
  <2>1. \A t \in S : \A i \in Slots : pipe'[t][i].grant.path # pool /\ pipe'[t][i].phase # "opening"
    BY <1>2 DEF NoGrant, Pools
  <2>2. CASE pool = "opens"
    BY <2>1, <2>2 DEF InUse, InPhase
  <2>3. CASE pool # "opens"
    BY <2>1, <2>3 DEF InUse, OnPath
  <2> QED BY <2>2, <2>3
<1>5. \A pool \in Pools : permits'[pool] = InUse(pool)' /\ permits'[pool] \subseteq permits[pool]
  BY <1>4 DEF Capped
<1>6. PublicIsClassified'
  <2>1. \A x \in OnPath("public")' : x[1] \in Sessions \ S /\ x \in OnPath("public")
    BY <1>2 DEF OnPath, NoGrant
  <2> QED BY <2>1 DEF Capped, PublicIsClassified
<1>7. Unruled'
  <2>1. \A t \in Sessions : \A i \in Slots :
           pipe'[t][i] = pipe[t][i] \/ pipe'[t][i].grant = NoGrant
    BY <1>2
  <2> QED BY <2>1 DEF Capped, Unruled
<1> QED BY <1>3, <1>5, <1>6, <1>7 DEF Shrinks

\* A step that moves no stream and frees or takes no permit.
LEMMA StillShrinks ==
  ASSUME TypeOK, Capped, UNCHANGED <<pipe, permits>>,
         \A t \in Sessions : session'[t].live = session[t].live
                             /\ session'[t].public = session[t].public
  PROVE  Shrinks
<1>1. Live' = Live /\ Classified' = Classified
  BY DEF Live, Classified
<1>2. \A pool \in Pools : InUse(pool)' = InUse(pool)
  BY DEF InUse, OnPath, InPhase
<1>3. PublicIsClassified' /\ Unruled'
  BY DEF Capped, PublicIsClassified, Unruled, OnPath
<1> QED BY <1>1, <1>2, <1>3 DEF Shrinks, Capped

\* Dropping one session keeps the pools.
LEMMA DropHolds ==
  ASSUME TypeOK, Capped, NEW s \in Sessions, Drop(s)
  PROVE  Capped'
<1>1. \A t \in Sessions \ {s} :
         session'[t] = session[t] /\ pipe'[t] = pipe[t] /\ chains'[t] = chains[t]
  BY DEF Drop, TypeOK
<1>2. session'[s] = Gone /\ pipe'[s] = [i \in Slots |-> Idle] /\ chains'[s] = Nothing
  BY DEF Drop, TypeOK
<1>3. \A pool \in Pools : permits'[pool] = {x \in permits[pool] : x[1] \notin {s}}
  BY DEF Drop
<1>4. Shrinks
  BY <1>1, <1>2, <1>3, DropShrinks, {s} \in SUBSET Sessions
<1>5. Cardinality(Nothing.ids) <= MaxIds
  BY FS_EmptySet, ChainsAssumption DEF Nothing
<1>6. RecordsFit'
  BY <1>1, <1>2, <1>5 DEF RecordsFit, Capped
<1> QED BY <1>4, <1>6, ShrinkingHolds

\* A step of a session's own loop keeps the pools.
LEMMA SessionHolds ==
  ASSUME TypeOK, Emptied, Capped, NEW s \in Sessions, SessionStep(s)
  PROVE  Capped'
<1>1. CASE AcceptSession(s)
  <2>1. /\ \A t \in Sessions \ {s} : session'[t] = session[t]
        /\ session'[s] = Fresh
        /\ ~session[s].live /\ Cardinality(Live) < MaxSessions
        /\ UNCHANGED <<pipe, permits, chains>>
    BY <1>1 DEF AcceptSession, TypeOK
  <2>2. Live' \subseteq Live \cup {s} /\ Classified' \subseteq Classified
    BY <2>1 DEF Live, Classified, Fresh, Gone
  <2>3. Cardinality(Live') <= MaxSessions /\ Cardinality(Classified') <= PublicSessions
    BY <2>1, <2>2, RoomKept, PoolsFinite, PoolAssumption DEF Capped
  <2>4. /\ \A pool : InUse(pool)' = InUse(pool)
        /\ OnPath("public")' = OnPath("public")
    BY <2>1 DEF InUse, OnPath, InPhase
  <2>5. \A i \in Slots : pipe[s][i].grant.path = "none"
    BY <2>1 DEF Emptied, Drained, Idle, NoGrant
  <2>6. \A x \in OnPath("public") : x[1] \in Sessions \ {s}
    BY <2>5 DEF OnPath
  <2>7. PublicIsClassified'
    BY <2>1, <2>4, <2>6 DEF Capped, PublicIsClassified
  <2>8. RecordsFit' /\ Unruled'
    BY <2>1 DEF Capped, RecordsFit, Unruled
  <2> QED BY <2>1, <2>3, <2>4, <2>7, <2>8 DEF Capped
<1>2. CASE Drop(s)
  BY <1>2, DropHolds
<1>3. CASE \/ PeerLeaves(s)
           \/ /\ session' = [session EXCEPT ![s].swept = FALSE]
              /\ UNCHANGED <<pipe, permits, chains, served>>
  <2>1. /\ \A t \in Sessions \ {s} : session'[t] = session[t]
        /\ session'[s].live = session[s].live /\ session'[s].public = session[s].public
    <3>1. CASE PeerLeaves(s)
      BY <3>1 DEF PeerLeaves, TypeOK
    <3>2. CASE session' = [session EXCEPT ![s].swept = FALSE]
      BY <3>2 DEF TypeOK
    <3> QED BY <1>3, <3>1, <3>2
  <2>2. UNCHANGED <<pipe, permits, chains>>
    BY <1>3 DEF PeerLeaves
  <2>3. Shrinks
    BY <2>1, <2>2, StillShrinks
  <2>4. RecordsFit'
    BY <2>2 DEF RecordsFit, Capped
  <2> QED BY <2>3, <2>4, ShrinkingHolds
<1> QED BY <1>1, <1>2, <1>3 DEF SessionStep, SessionDone, SessionSweep

\* A record kept within its ceiling, or one that rules on nothing new.
LEMMA FitsKept ==
  ASSUME NEW record, Cardinality(record.ids) <= MaxIds,
         NEW grant \in Grants, Fits(record, grant), NEW peer
  PROVE  Cardinality(Kept(record, peer, grant).ids) <= MaxIds
<1>1. Kept(record, peer, grant).ids = record.ids \cup Ids(grant)
  BY DEF Kept
<1>2. CASE grant.path = "proven"
  <2>1. Ids(grant) = {}
    BY <1>2 DEF Grants, Ids
  <2> QED BY <1>1, <2>1
<1>3. CASE grant.path # "proven"
  BY <1>1, <1>3 DEF Fits
<1> QED BY <1>2, <1>3

(***************************************************************************)
(* A stream that ends up with the permits of what it uses leaves every     *)
(* pool with its users, and within its bound.                              *)
(***************************************************************************)
LEMMA SettledPool ==
  ASSUME TypeOK, Capped, NEW s \in Sessions, NEW i \in Slots, NEW p \in Pipes,
         Put(s, i, p), Settles(s, i, p), NEW pool \in Pools
  PROVE  permits'[pool] = InUse(pool)' /\ Cardinality(permits'[pool]) <= Capacity[pool]
<1>1. /\ pipe'[s][i] = p
      /\ \A t \in Sessions, j \in Slots : << t, j >> # << s, i >> => pipe'[t][j] = pipe[t][j]
  BY DEF Put, TypeOK
<1>2. InUse(pool)' = {x \in Sessions \X Slots : Uses(pipe'[x[1]][x[2]], pool)}
  BY DEF InUse, Uses, InPhase, OnPath
<1>3. permits[pool] = {x \in Sessions \X Slots : Uses(pipe[x[1]][x[2]], pool)}
  BY InUseUses DEF Capped
<1>4. ASSUME NEW x \in Sessions \X Slots
      PROVE  x \in permits'[pool] <=> Uses(pipe'[x[1]][x[2]], pool)
  <2>1. CASE x = << s, i >>
    BY <1>1, <2>1 DEF Settles
  <2>2. CASE x # << s, i >>
    <3>1. pipe'[x[1]][x[2]] = pipe[x[1]][x[2]]
      BY <1>1, <2>2
    <3>2. x \in permits'[pool] <=> x \in permits[pool]
      BY <2>2 DEF Settles
    <3> QED BY <1>3, <3>1, <3>2
  <2> QED BY <2>1, <2>2
<1>5. permits'[pool] \subseteq permits[pool] \cup {<< s, i >>}
  BY DEF Settles
<1>6. permits'[pool] \subseteq Sessions \X Slots
  BY <1>5 DEF TypeOK
<1>7. permits'[pool] \subseteq permits[pool] \/ Cardinality(permits[pool]) < Capacity[pool]
  <2>1. CASE Uses(p, pool) /\ ~Uses(pipe[s][i], pool)
    BY <2>1 DEF Settles, HasRoom
  <2>2. CASE Uses(p, pool) /\ Uses(pipe[s][i], pool)
    <3>1. << s, i >> \in permits[pool]
      BY <1>3, <2>2
    <3> QED BY <1>5, <3>1
  <2>3. CASE ~Uses(p, pool)
    BY <2>3 DEF Settles
  <2> QED BY <2>1, <2>2, <2>3
<1>8. Cardinality(permits'[pool]) <= Capacity[pool]
  BY <1>5, <1>7, RoomKept, PoolsFinite DEF Capped
<1> QED BY <1>2, <1>4, <1>6, <1>8

\* A step of a stream keeps the pools.
LEMMA StreamHolds ==
  ASSUME TypeOK, Capped, NEW s \in Sessions, NEW i \in Slots, StreamStep(s, i)
  PROVE  Capped'
<1>1. Claims(s, i) /\ SameSession(s) /\ (Quiet(s, i) \/ Answers(s, i))
  BY StreamClaims, StreamFrame
<1>2. PICK p \in Pipes : /\ Put(s, i, p) /\ Settles(s, i, p)
                         /\ p.grant.path = "public" => session'[s].public
                         /\ p.phase = "reading" => p.grant = NoGrant
  BY <1>1 DEF Claims
<1>3. /\ pipe'[s][i] = p
      /\ \A t \in Sessions, j \in Slots : << t, j >> # << s, i >> => pipe'[t][j] = pipe[t][j]
  BY <1>2 DEF Put, TypeOK
<1>4. Live' = Live
  BY <1>1 DEF Live, SameSession
<1>5. Cardinality(Classified') <= PublicSessions
  <2>1. Classified' \subseteq Classified \cup {s}
    BY <1>1 DEF Classified, SameSession
  <2>2. Classified' \subseteq Classified \/ Cardinality(Classified) < PublicSessions
    <3>1. CASE session'[s].public => session[s].public
      BY <1>1, <3>1 DEF Classified, SameSession
    <3>2. CASE ~(session'[s].public => session[s].public)
      BY <1>1, <3>2 DEF Claims, PublicRoom
    <3> QED BY <3>1, <3>2
  <2> QED BY <2>1, <2>2, RoomKept, PoolsFinite, PoolAssumption DEF Capped
<1>6. \A pool \in Pools :
         permits'[pool] = InUse(pool)' /\ Cardinality(permits'[pool]) <= Capacity[pool]
  BY <1>2, SettledPool
<1>7. PublicIsClassified'
  <2> SUFFICES ASSUME NEW t \in Sessions, NEW j \in Slots,
                      pipe'[t][j].grant.path = "public"
               PROVE  session'[t].public
    BY DEF PublicIsClassified, OnPath
  <2>1. CASE << t, j >> = << s, i >>
    BY <1>2, <1>3, <2>1
  <2>2. CASE << t, j >> # << s, i >>
    <3>1. session[t].public
      BY <1>3, <2>2, SlotClassified DEF Capped
    <3> QED BY <1>1, <3>1 DEF Claims, SameSession
  <2> QED BY <2>1, <2>2
<1>8. Unruled'
  BY <1>2, <1>3 DEF Capped, Unruled
<1>9. RecordsFit'
  <2>1. CASE UNCHANGED chains
    BY <2>1 DEF RecordsFit, Capped
  <2>2. CASE ~UNCHANGED chains
    <3>1. PICK name \in Names, grant \in Grants :
             Answer(s, i, name, grant) /\ Recorded(s, grant)
      BY <1>1, <2>2 DEF Quiet, Answers
    <3>2. /\ chains' = [chains EXCEPT ![s] = Kept(@, PeerOf[s], grant)]
          /\ Fits(chains[s], grant)
      BY <2>2, <3>1 DEF Answer, Recorded
    <3>3. Cardinality(Kept(chains[s], PeerOf[s], grant).ids) <= MaxIds
      BY <3>2, FitsKept DEF RecordsFit, Capped
    <3> QED BY <3>2, <3>3 DEF RecordsFit, Capped, TypeOK
  <2> QED BY <2>1, <2>2
<1> QED BY <1>4, <1>5, <1>6, <1>7, <1>8, <1>9 DEF Capped

\* The sweep timer, a restart, the operator and the clock keep the pools.
LEMMA NodeHolds ==
  ASSUME TypeOK, Capped, SweepTick \/ Restart \/ Environment \/ UNCHANGED vars
  PROVE  Capped'
<1>1. CASE Restart
  <2>1. /\ \A t \in Sessions : /\ session'[t] = Gone
                               /\ pipe'[t] = [i \in Slots |-> Idle]
                               /\ chains'[t] = Nothing
        /\ \A pool \in Pools : permits'[pool] = {}
    BY <1>1 DEF Restart
  <2>2. \A pool \in Pools : permits'[pool] = {x \in permits[pool] : x[1] \notin Sessions}
    BY <2>1 DEF TypeOK
  <2>3. Shrinks
    BY <2>1, <2>2, DropShrinks, Sessions \in SUBSET Sessions
  <2>4. Cardinality(Nothing.ids) <= MaxIds
    BY FS_EmptySet, ChainsAssumption DEF Nothing
  <2>5. RecordsFit'
    BY <2>1, <2>4 DEF RecordsFit
  <2> QED BY <2>3, <2>5, ShrinkingHolds
<1>2. CASE SweepTick \/ Environment \/ UNCHANGED vars
  <2>1. UNCHANGED <<pipe, permits, chains>>
    BY <1>2 DEF SweepTick, Environment, Revoke, Repin, Tick, Toggle, vars
  <2>2. \A t \in Sessions : session'[t].live = session[t].live
                           /\ session'[t].public = session[t].public
    <3>1. CASE SweepTick
      BY <3>1 DEF SweepTick, TypeOK
    <3>2. CASE Environment \/ UNCHANGED vars
      BY <3>2 DEF Environment, Revoke, Repin, Tick, Toggle, vars
    <3> QED BY <1>2, <3>1, <3>2
  <2>3. Shrinks
    BY <2>1, <2>2, StillShrinks
  <2>4. RecordsFit'
    BY <2>1 DEF RecordsFit, Capped
  <2> QED BY <2>3, <2>4, ShrinkingHolds
<1> QED BY <1>1, <1>2

(***************************************************************************)
(* A permit is held by exactly the streams it is meant for and no pool     *)
(* goes over its bound, for any number of sessions and streams: no path    *)
(* out of a stream leaks a permit, and none is given back early.           *)
(***************************************************************************)
THEOREM PoolsAreKept == Spec => []PoolsHold
<1>1. Init => Capped
  <2> SUFFICES ASSUME Init PROVE Capped
    OBVIOUS
  <2>1. Live = {} /\ Classified = {}
    BY DEF Init, Live, Classified, Gone
  <2>2. \A s \in Sessions : \A i \in Slots :
           pipe[s][i].grant.path = "none" /\ pipe[s][i].phase = "idle"
    BY DEF Init, Idle, NoGrant
  <2>3. \A pool \in Pools : permits[pool] = {} /\ InUse(pool) = {}
    BY <2>2, InUseUses DEF Init, Uses, Pools
  <2>4. \A s \in Sessions : chains[s].ids = {}
    BY DEF Init, Nothing
  <2>5. Cardinality({}) = 0
    BY FS_EmptySet
  <2>6. /\ 0 <= MaxSessions /\ 0 <= PublicSessions /\ 0 <= MaxIds
        /\ \A pool \in Pools : 0 <= Capacity[pool]
    BY PoolAssumption, ChainsAssumption DEF Capacity, Pools
  <2>7. RecordsFit
    BY <2>4, <2>5, <2>6 DEF RecordsFit
  <2>8. PublicIsClassified /\ Unruled
    BY <2>2 DEF PublicIsClassified, OnPath, Unruled
  <2> HIDE DEF Init
  <2> QED BY <2>1, <2>3, <2>5, <2>6, <2>7, <2>8 DEF Capped
<1>2. SInv /\ Capped /\ [Next]_vars => Capped'
  BY SessionHolds, StreamHolds, NodeHolds DEF SInv, Next
<1>3. SInv /\ Capped => PoolsHold
  <2>1. Emptied => Classified \subseteq Live
    BY DEF Emptied, Classified, Live, Gone
  <2> QED BY <2>1 DEF SInv, Capped, RecordsFit, PublicIsClassified, PoolsHold
<1> QED BY <1>1, <1>2, <1>3, ServingInvariant, PTL DEF Spec
=============================================================================
