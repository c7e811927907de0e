----------------------------- MODULE MCServing -----------------------------
(***************************************************************************)
(* Small nodes for the model checker.  The keys: the node's own root, a    *)
(* second root it may come to trust, a foreign authority, and the peers.   *)
(***************************************************************************)
EXTENDS Serving, TLC

MCKeys == {"root", "root2", "foreign", "ann", "bob", "bobTwin"}
MCTwin == [k \in MCKeys |-> CASE k = "bob" -> "bobTwin" [] k = "bobTwin" -> "bob"
                              [] OTHER -> k]
MCPeerOf == [s \in Sessions |-> "bob"]

Cap(ids, root, until, badge, names, authority) ==
  [ids |-> ids, root |-> root, until |-> until, readable |-> TRUE, badge |-> badge,
   names |-> names, authority |-> authority, holders |-> {"ann", "bob"}]

Member  == Cap({"m", "k", "l", "n"}, "root", {}, TRUE, {}, {})
Short   == Cap({"m", "x"}, "root", {1}, FALSE, {"logs", "ops"}, {})
Bound   == Cap({"b"}, "root", {}, FALSE, {"web"}, {"foreign"})
Foreign == Cap({"f"}, "foreign", {0}, TRUE, {}, {})
Murky   == [Cap({"u"}, "root", {1}, FALSE, {"web"}, {}) EXCEPT !.readable = FALSE]
MCCaps  == {Member, Short, Bound, Foreign, Murky}

Ask(name, slip, badge) == [name |-> name, slip |-> slip, badge |-> badge, garbled |-> FALSE]

\* A gated node: a never-public handler, a member-only one, a raw source and
\* a route for keys the node knows.
GatedNode ==
  [services |-> {"web", "ops", "logs", "pair"}, raw |-> {"logs"},
   exposure |-> [n \in {"web", "ops", "pair"} |->
                   CASE n = "web" -> "Never" [] n = "ops" -> "OptIn" [] n = "pair" -> "ProvenOnly"],
   member |-> {"ops"}, proven |-> {"pair"}, public |-> {}, unsafe |-> {}, open |-> FALSE]

GatedKnown  == [n \in {"pair"} |-> {"bob"}]

\* The same beside a door open to strangers.
MixedNode ==
  [GatedNode EXCEPT !.services = @ \cup {"pub"}, !.public = {"pub"},
                    !.exposure = [n \in {"pub", "web", "ops", "pair"} |->
                                    IF n = "pub" THEN "OptIn" ELSE GatedNode.exposure[n]]]

\* Every path there is; what a session may be cut for (an expiry, an id, a
\* root, a peer); what a request may be refused for, before admission and after.
MixedOffers == {Ask("web", {Bound}, {Foreign}), Ask("web", {Bound}, {}),
                Ask("web", {Murky}, {}), Ask("logs", {Short}, {}),
                Ask("ops", {Short}, {}), Ask("ops", {Member}, {}),
                Ask("pub", {Foreign}, {}), Ask("pair", {Short}, {}),
                [Ask("web", {}, {}) EXCEPT !.garbled = TRUE]}

\* The requests that sessions contend with each other over.
PoolOffers == {Ask("pub", {Foreign}, {}), Ask("pair", {}, {})}

\* The sessions' peers are alike, and so are the streams of a session.
Alike == Permutations(Sessions) \cup Permutations(Slots)
=============================================================================
