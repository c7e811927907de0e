------------------------------ MODULE Chains ------------------------------
(***************************************************************************)
(* What a session remembers of the capabilities it was admitted on, and    *)
(* when that record ends it: AdmittedChains, Lease and Cuts::cuts of       *)
(* src/tunnel/cut.rs, beside the questions the gate (nauthy, external)     *)
(* asks the same store at admission.                                       *)
(*                                                                         *)
(* A capability is a record                                                *)
(*   ids        the revocation ids of its blocks                           *)
(*   root       the key it was issued under                                *)
(*   until      the instant it expires at, as a set: {} never expires      *)
(*   readable   whether that expiry can be read                            *)
(*   badge      a whole-node badge, which admits its holder to every name  *)
(*   names      the names a slip grants                                    *)
(*   authority  the foreign authority a slip is bound to, as a set         *)
(*   holders    the peer keys it is bound to                               *)
(* A grant is what one stream was admitted on: the path `admit` took, the  *)
(* slip presented and the foreign badge after it, both as sets of at most  *)
(* one capability and empty on every path but the rooted one.              *)
(***************************************************************************)
EXTENDS Naturals, FiniteSets

CONSTANTS
  Keys,      \* the keys that root capabilities or name peers
  Twin,      \* the sign twin of each key
  Caps,      \* the capabilities dialers hold
  MaxIds     \* MAX_SESSION_CHAIN_IDS

\* What an Option of S holds.
AtMostOne(S) == {{}} \cup {{x} : x \in S}

ASSUME ChainsAssumption ==
  /\ Twin \in [Keys -> Keys]
  /\ MaxIds \in Nat
  /\ \A cap \in Caps :
       /\ IsFiniteSet(cap.ids)
       /\ cap.root \in Keys
       /\ cap.until \subseteq Nat
       /\ cap.readable \in BOOLEAN
       /\ cap.badge \in BOOLEAN
       /\ cap.authority \in AtMostOne(Keys)
       /\ cap.holders \subseteq Keys

AllIds == UNION {cap.ids : cap \in Caps}

NoGrant == [path |-> "none", slip |-> {}, badge |-> {}]

Ruled(grant)    == grant.slip \cup grant.badge

Grants ==
  {grant \in [path : {"none", "public", "proven", "open", "rooted"},
              slip : AtMostOne(Caps), badge : AtMostOne(Caps)] :
     grant.path # "rooted" => Ruled(grant) = {}}

Ids(grant) == UNION {cap.ids : cap \in Ruled(grant)}

\* Mutant: the foreign badge goes unrecorded.
SlipRoots(grant) == {cap.root : cap \in grant.slip}

Roots(grant) == {cap.root : cap \in Ruled(grant)}
Anchors(grant) == {cap.root : cap \in grant.slip}
Expiries(grant) == UNION {cap.until : cap \in Ruled(grant)}

\* Mutant: the lease runs to the latest expiry.
LatestOf(S) == {t \in S : \A u \in S : u <= t}

\* The earliest instant of a set, as a set.
Earliest(S) == {t \in S : \A u \in S : t <= u}

\* A capability is good through its expiry instant.
Lapsed(until, now) == \E t \in until : now > t
-----------------------------------------------------------------------------
(* The record *)

Nothing == [ids |-> {}, roots |-> {}, anchors |-> {}, peer |-> {},
            proven |-> FALSE, lease |-> {}]

Records == [ids : SUBSET AllIds, roots : SUBSET Keys, anchors : SUBSET Keys,
            peer : AtMostOne(Keys), proven : BOOLEAN, lease : SUBSET Nat]

\* Mutant: the record has no ceiling.
FitsAnyway(chains, grant) ==
  grant.path = "proven" \/ \A cap \in Ruled(grant) : cap.readable

\* record_all refuses an expiry that cannot be read and a record past its
\* ceiling; record_proven refuses nothing.
Fits(chains, grant) ==
  \/ grant.path = "proven"
  \/ /\ \A cap \in Ruled(grant) : cap.readable
     /\ Cardinality(chains.ids \cup Ids(grant)) <= MaxIds

\* record_all and record_proven: a stream that ruled on nothing leaves
\* nothing, a proven one only its key.
Kept(chains, peer, grant) ==
  [ids     |-> chains.ids \cup Ids(grant),
   roots   |-> chains.roots \cup Roots(grant),
   anchors |-> chains.anchors \cup Anchors(grant),
   peer    |-> IF grant.path \in {"proven", "rooted"} THEN {peer} ELSE chains.peer,
   proven  |-> chains.proven \/ grant.path = "proven",
   lease   |-> Earliest(chains.lease \cup Expiries(grant))]

\* Mutant: every session is cut for its peer's sign twin.
PeerAndTwin(chains) == chains.peer \cup {Twin[k] : k \in chains.peer}

PeerKeys(chains) ==
  chains.peer \cup (IF chains.proven THEN {Twin[k] : k \in chains.peer} ELSE {})

(***************************************************************************)
(* Cuts::cuts over an oracle that is the node's own store: `store` holds   *)
(* the revoked ids, the revoked keys and the root the gate trusts.         *)
(***************************************************************************)
Cuts(chains, store, now) ==
  \/ chains.ids \cap store.ids # {}
  \/ chains.roots \cap store.keys # {}
  \/ \E anchor \in chains.anchors : anchor # store.pin
  \/ PeerKeys(chains) \cap store.keys # {}
  \/ Lapsed(chains.lease, now)
-----------------------------------------------------------------------------
(* The gate *)

Holds(cap, store, now) ==
  /\ cap.ids \cap store.ids = {}
  /\ cap.root \notin store.keys
  /\ ~Lapsed(cap.until, now)

\* What revocation, trust and time leave of a grant: the part of the gate's
\* ruling that may change after the stream is admitted.
Standing(peer, grant, store, now) ==
  /\ \A cap \in Ruled(grant) : Holds(cap, store, now)
  /\ \A cap \in grant.slip : cap.root = store.pin
  /\ grant.path \in {"proven", "rooted"} => peer \notin store.keys
  /\ grant.path = "proven" => Twin[peer] \notin store.keys

\* The part that does not change: the slip is the dialer's, it grants the
\* name, and a slip bound to a foreign authority comes with a badge of it.
Covers(peer, grant, name) ==
  /\ grant.slip # {}
  /\ \A cap \in Ruled(grant) : peer \in cap.holders
  /\ \A cap \in grant.slip :
       /\ cap.badge \/ name \in cap.names
       /\ cap.authority # {} =>
            \E badge \in grant.badge : badge.badge /\ {badge.root} = cap.authority

\* Admitted::is_member: the gate admitted the dialer on a whole-node badge.
IsMember(grant) == \E cap \in grant.slip : cap.badge
=============================================================================
