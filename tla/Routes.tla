------------------------------ MODULE Routes ------------------------------
(***************************************************************************)
(* The route table a node serves and the interlocks it is proved under     *)
(* before it arms: src/tunnel/router.rs, Exposer::prove in                 *)
(* src/tunnel/exposer.rs and the exposure markers of tightbeam-handler.    *)
(*                                                                         *)
(* A node's configuration is a record                                      *)
(*   services    the served names, each with one target                    *)
(*   raw         the names whose target is a raw byte source               *)
(*   exposure    the marker of each handler (a name that is not raw)       *)
(*   member      the names declared Access::Member                         *)
(*   proven      the names declared Access::ProvenOnly                     *)
(*   public      the requested safe overlay                                *)
(*   unsafe      the requested unsafe raw-stream overlay                   *)
(*   open        whether the base gate is Gate::Open                       *)
(***************************************************************************)
EXTENDS FiniteSets

Markers == {"Never", "OptIn", "ProvenOnly"}
Origins == {"Rooted", "Open", "Proven"}

\* open_policy::accepts: the witness origins each marker mints a proof from.
Accepts(marker, origin) ==
  origin \in CASE marker = "Never"      -> {"Rooted"}
               [] marker = "OptIn"      -> {"Rooted", "Open"}
               [] marker = "ProvenOnly" -> {"Proven"}

\* The markers a handler may hand its proof on to: the impls of Compatible,
\* which bound Served::delegate at compile time.
Compatible(outer, inner) ==
  inner = outer \/ (outer = "Never" /\ inner = "OptIn")

\* PublicUse::OPEN_SAFE, resolved through the target.
OpenSafe(node, name) == name \notin node.raw /\ node.exposure[name] = "OptIn"

\* What the bind verbs of Router let through: a proven-only route binds only
\* a ProvenOnly handler, every other route binds none, and a raw source is
\* bound with family access.
Binds(node) ==
  /\ node.raw \subseteq node.services
  /\ node.member \subseteq node.services \ node.raw
  /\ node.proven \subseteq (node.services \ node.raw) \ node.member
  /\ \A name \in node.services \ node.raw :
       name \in node.proven <=> Accepts(node.exposure[name], "Proven")

ProvesUnsafe(node) == node.unsafe \subseteq node.services \cap node.raw

ProvesPublic(node) ==
  /\ node.public \subseteq node.services
  /\ node.public \cap (node.proven \cup node.member) = {}
  /\ \A name \in node.public : OpenSafe(node, name)

\* Mutants: a member-only route passes under an open base, or a raw source
\* nobody named unsafe.
ProvesOpenBaseMembers(node) ==
  /\ node.proven = {}
  /\ \A name \in node.services \ node.raw : OpenSafe(node, name)
  /\ node.raw \subseteq node.unsafe

ProvesOpenBaseRaw(node) ==
  /\ node.proven = {}
  /\ \A name \in node.services \ node.raw : OpenSafe(node, name)
  /\ node.member = {}

\* The refusals of Exposer::prove under an open base.
ProvesOpenBase(node) ==
  /\ node.proven = {}
  /\ \A name \in node.services \ node.raw : OpenSafe(node, name)
  /\ node.raw \subseteq node.unsafe
  /\ node.member = {}

\* Exposer::prove: the one door every exposer comes through.
Proves(node) ==
  /\ ProvesUnsafe(node)
  /\ node.open => ProvesOpenBase(node)
  /\ node.member \cap node.unsafe = {}
  /\ ProvesPublic(node)

-----------------------------------------------------------------------------
\* How a request's name is read at admission.

\* resolve_single_service: a node with one service serves it to any name.
ResolveSingle(node, name) ==
  IF name \in node.services \/ Cardinality(node.services) # 1
  THEN name
  ELSE CHOOSE only \in node.services : TRUE

InOverlay(node, name) == name \in node.public \cup node.unsafe

\* Which of the three rulings of `admit` a name meets, the open base apart.
PathOf(node, name) ==
  CASE InOverlay(node, name)                              -> "public"
    [] ~InOverlay(node, name) /\ name \in node.proven     -> "proven"
    [] ~InOverlay(node, name) /\ name \notin node.proven  ->
         IF node.open THEN "open" ELSE "rooted"

\* The origin of the witness `admit` mints on each path.
OriginOf(path) ==
  CASE path \in {"public", "open"} -> "Open"
    [] path = "proven"             -> "Proven"
    [] path = "rooted"             -> "Rooted"
=============================================================================
