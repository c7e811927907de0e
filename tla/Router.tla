------------------------------- MODULE Router -------------------------------
(***************************************************************************)
(* Assembling a node: the verbs of Router and the target grammar of        *)
(* src/tunnel/router.rs, in any order, up to `expose`; and what the node   *)
(* then says of itself, Exposer::manifest and Services::catalog.           *)
(*                                                                         *)
(* Every verb takes the router by value and gives it back or fails, so one *)
(* refusal ends the assembly.                                              *)
(***************************************************************************)
EXTENDS Routes

CONSTANTS
  AllNames,   \* the names an operator may use
  Entries     \* the targets an operator may write, as the grammar sees them

\* An entry is a scheme, whether its tail is absent, sound or not sound for
\* that scheme, and whether it is marked +lossy.  A stdin that is a terminal
\* counts as not sound.
ASSUME RouterAssumption ==
  \A e \in Entries : e.tail \in {"none", "sound", "unsound"} /\ e.lossy \in BOOLEAN

VARIABLES
  node,     \* the router's table, overlays and gate, as Routes describes them
  phase     \* whether it is still assembled, was exposed, or failed

vars == <<node, phase>>

Bare(open) ==
  [services |-> {}, raw |-> {}, exposure |-> [name \in {} |-> "Never"],
   member |-> {}, proven |-> {}, public |-> {}, unsafe |-> {}, open |-> open]

Init ==
  /\ node \in {Bare(open) : open \in BOOLEAN}
  /\ phase = "assembling"
-----------------------------------------------------------------------------
(* The verbs *)

Fail == phase' = "failed" /\ UNCHANGED node

\* Router::bind: one policy on duplicates for every verb.
Bind(name, bound) ==
  /\ phase = "assembling"
  /\ IF name \in node.services
     THEN Fail
     ELSE node' = bound /\ UNCHANGED phase

WithHandler(name, marker) ==
  [node EXCEPT !.services = @ \cup {name},
               !.exposure = [n \in (node.services \ node.raw) \cup {name} |->
                               IF n = name THEN marker ELSE node.exposure[n]]]

WithRaw(name) == [node EXCEPT !.services = @ \cup {name}, !.raw = @ \cup {name}]

\* Mutant: a gated verb takes any handler.
BindGatedAny(name, marker, bound) == Bind(name, bound)

\* Router::bind_gated refuses a handler that answers proven keys alone.
BindGated(name, marker, bound) ==
  IF Accepts(marker, "Proven")
  THEN phase = "assembling" /\ Fail
  ELSE Bind(name, bound)

Service(name, marker) == BindGated(name, marker, WithHandler(name, marker))

MemberService(name, marker) ==
  BindGated(name, marker, [WithHandler(name, marker) EXCEPT !.member = @ \cup {name}])

\* Its type lets only a ProvenOnly handler through.
ProvenService(name) ==
  Bind(name, [WithHandler(name, "ProvenOnly") EXCEPT !.proven = @ \cup {name}])

RawStream(name) == Bind(name, WithRaw(name))

\* parse_target: every target has a scheme, and the set is closed.
Forwards == {"tcp", "unix"}
PathSources == {"file", "fifo"}
Argless == {"stdin", "echo"}

Parses(e) ==
  /\ e.lossy => e.scheme \in {"stdin", "fifo"}
  /\ \/ e.scheme \in Forwards \cup PathSources /\ e.tail = "sound"
     \/ e.scheme \in Argless /\ e.tail = "none"

ParsedTarget(name, e) ==
  IF e.scheme \in PathSources \cup {"stdin"}
  THEN WithRaw(name) ELSE WithHandler(name, "OptIn")

\* Router::parse: a forward, a raw source or the reflector, or a refusal.
Parse(name, e) ==
  IF Parses(e)
  THEN Bind(name, ParsedTarget(name, e))
  ELSE phase = "assembling" /\ Fail

\* A later declaration takes the place of an earlier one.
Public(names) ==
  /\ phase = "assembling"
  /\ node' = [node EXCEPT !.public = names]
  /\ UNCHANGED phase

PublicUnsafe(names) ==
  /\ phase = "assembling"
  /\ node' = [node EXCEPT !.unsafe = names]
  /\ UNCHANGED phase

\* The one door.
Expose ==
  /\ phase = "assembling"
  /\ phase' = IF Proves(node) THEN "exposed" ELSE "failed"
  /\ UNCHANGED node

Verb(name) ==
  \/ \E marker \in Markers : Service(name, marker) \/ MemberService(name, marker)
  \/ ProvenService(name)
  \/ RawStream(name)
  \/ \E e \in Entries : Parse(name, e)

Next ==
  \/ \E name \in AllNames : Verb(name)
  \/ \E names \in SUBSET AllNames : Public(names) \/ PublicUnsafe(names)
  \/ Expose

Spec == Init /\ [][Next]_vars
-----------------------------------------------------------------------------
(* What the node says of itself *)

\* Mutant: an opened raw source is shown as gated.
PostureOfSafe(table, name) ==
  IF table.open \/ name \in table.public THEN "Open" ELSE "Gated"

\* Services::catalog and Exposer::manifest apply one rule, the first to the
\* requests, the second to the overlays they were proved into.
Posture(table, name) ==
  IF table.open \/ name \in table.public \cup table.unsafe THEN "Open" ELSE "Gated"

(***************************************************************************)
(* Who a served name answers, by what `admit` and dispatch ask: a stranger *)
(* shows nothing, a known key is one a proven-only route recognizes, a     *)
(* guest holds a slip for the name, a member a badge.                      *)
(***************************************************************************)
Dialers == {"stranger", "known", "guest", "member"}

Answers(table, name, dialer) ==
  LET path == PathOf(table, name)
  IN  /\ path = "proven" => dialer = "known"
      /\ path = "rooted" => dialer \in {"guest", "member"}
      /\ name \in table.member => path = "rooted" /\ dialer = "member"
      /\ name \notin table.raw => Accepts(table.exposure[name], OriginOf(path))
-----------------------------------------------------------------------------
(* Properties *)

\* The type invariant: the shape of a router's table.
TypeOK ==
  /\ node \in [services : SUBSET AllNames, raw : SUBSET AllNames,
               exposure : UNION {[S -> Markers] : S \in SUBSET AllNames},
               member : SUBSET AllNames, proven : SUBSET AllNames,
               public : SUBSET AllNames, unsafe : SUBSET AllNames, open : BOOLEAN]
  /\ DOMAIN node.exposure = node.services \ node.raw
  /\ phase \in {"assembling", "exposed", "failed"}

(***************************************************************************)
(* Whatever verbs made it, in whatever order, a table only ever binds      *)
(* routes that Exposer::prove and `admit` were written for: a proven-only  *)
(* handler sits on a proven-only route and nowhere else, and a raw source  *)
(* has family access; its shape is TypeOK.                                 *)
(***************************************************************************)
OnlyBindable == TypeOK /\ Binds(node)

(***************************************************************************)
(* The posture a manifest or a catalog shows is the one a dialer faces: a  *)
(* service reads Open exactly when a stranger who shows nothing is served. *)
(***************************************************************************)
PostureIsFaced ==
  phase = "exposed" =>
    \A name \in node.services :
      Posture(node, name) = "Open" <=> Answers(node, name, "stranger")

(***************************************************************************)
(* An exposed node ships no dead route ("a route no dialer can reach"):    *)
(* every service answers somebody, the unsafe and member ones included.    *)
(***************************************************************************)
NoDeadRoute ==
  phase = "exposed" =>
    \A name \in node.services : \E dialer \in Dialers : Answers(node, name, dialer)

(***************************************************************************)
(* A route is one the node was written for, and one somebody can take.     *)
(***************************************************************************)
RoutesAreReal == OnlyBindable /\ NoDeadRoute

(***************************************************************************)
(* What opening never reaches: on no exposed node does a stranger reach a  *)
(* keyless handler, a member-only or proven-only route, or a raw source    *)
(* the operator did not name in the unsafe set.                            *)
(***************************************************************************)
StrangersAreKeptOut ==
  phase = "exposed" =>
    \A name \in node.services :
      Answers(node, name, "stranger") =>
        /\ name \notin node.member \cup node.proven
        /\ IF name \in node.raw THEN name \in node.unsafe
                                ELSE node.exposure[name] = "OptIn"
=============================================================================
