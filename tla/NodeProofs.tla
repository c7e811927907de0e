----------------------------- MODULE NodeProofs -----------------------------
(***************************************************************************)
(* Proofs about what a node is made of and what it keeps: the assembly of  *)
(* its table, for any names, any entries and any sequence of verbs, and    *)
(* the cached copy of its disabled list, for any services and any number   *)
(* of writes.                                                              *)
(***************************************************************************)
EXTENDS Router, DisabledList, TLAPS

(***************************************************************************)
(* The assembly of a node                                                  *)
(***************************************************************************)

Tables ==
  [services : SUBSET AllNames, raw : SUBSET AllNames,
   exposure : UNION {[S -> Markers] : S \in SUBSET AllNames},
   member : SUBSET AllNames, proven : SUBSET AllNames,
   public : SUBSET AllNames, unsafe : SUBSET AllNames, open : BOOLEAN]

\* A table the verbs may hand to each other: its shape, and what bind lets in.
Sound(table) ==
  /\ table \in Tables
  /\ DOMAIN table.exposure = table.services \ table.raw
  /\ Binds(table)

(***************************************************************************)
(* The inductive invariant: an exposed table passed Exposer::prove, and no *)
(* verb changes it afterwards.                                             *)
(***************************************************************************)
IInv ==
  /\ Sound(node)
  /\ phase \in {"assembling", "exposed", "failed"}
  /\ phase = "exposed" => Proves(node)

-----------------------------------------------------------------------------
(* What each verb makes of a sound table *)

\* The table a handler was bound into: its parts, for the lemmas below.
LEMMA HandlerParts ==
  ASSUME Sound(node), NEW name \in AllNames \ node.services, NEW marker \in Markers
  PROVE  LET table == WithHandler(name, marker)
         IN  /\ table \in Tables
             /\ table.services = node.services \cup {name}
             /\ table.raw = node.raw /\ table.member = node.member
             /\ table.proven = node.proven
             /\ DOMAIN table.exposure = table.services \ table.raw
             /\ \A n \in table.services \ table.raw :
                  table.exposure[n] = IF n = name THEN marker ELSE node.exposure[n]
<1> DEFINE S == (node.services \ node.raw) \cup {name}
           exposure == [n \in S |-> IF n = name THEN marker ELSE node.exposure[n]]
<1>1. node \in Tables /\ node.raw \subseteq node.services
  BY DEF Sound, Binds
<1>2. PICK T \in SUBSET AllNames : node.exposure \in [T -> Markers]
  BY <1>1 DEF Tables
<1>3. T = node.services \ node.raw
  BY <1>2 DEF Sound
<1>4. exposure \in [S -> Markers] /\ S \in SUBSET AllNames
  BY <1>1, <1>2, <1>3 DEF Tables
<1>5. exposure \in UNION {[U -> Markers] : U \in SUBSET AllNames}
  BY <1>4
<1>6. WithHandler(name, marker) =
        [node EXCEPT !.services = @ \cup {name}, !.exposure = exposure]
  BY DEF WithHandler
<1>7. S = (node.services \cup {name}) \ node.raw
  BY <1>1
<1> HIDE DEF exposure
<1>8. DOMAIN exposure = S /\ \A n \in S : exposure[n] = IF n = name THEN marker ELSE node.exposure[n]
  BY DEF exposure
<1> QED BY <1>1, <1>5, <1>6, <1>7, <1>8 DEF Tables

\* An ungated handler under a new name (Router::service).
LEMMA ServiceSound ==
  ASSUME Sound(node), NEW name \in AllNames \ node.services, NEW marker \in Markers,
         ~Accepts(marker, "Proven")
  PROVE  Sound(WithHandler(name, marker))
  BY HandlerParts DEF Sound, Binds

\* The same under Access::Member (Router::member_service).
LEMMA MemberSound ==
  ASSUME Sound(node), NEW name \in AllNames \ node.services, NEW marker \in Markers,
         ~Accepts(marker, "Proven")
  PROVE  Sound([WithHandler(name, marker) EXCEPT !.member = @ \cup {name}])
<1> DEFINE table == WithHandler(name, marker)
           made == [table EXCEPT !.member = @ \cup {name}]
<1>1. /\ table \in Tables /\ DOMAIN table.exposure = table.services \ table.raw
      /\ Sound(table) /\ table.raw = node.raw /\ table.proven = node.proven
      /\ table.services = node.services \cup {name}
  BY HandlerParts, ServiceSound
<1>2. name \notin node.raw /\ name \notin node.proven
  BY DEF Sound, Binds
<1> HIDE DEF table
<1>3. /\ made \in Tables /\ made.services = table.services /\ made.raw = table.raw
      /\ made.exposure = table.exposure /\ made.proven = table.proven
      /\ made.member = table.member \cup {name}
  BY <1>1 DEF Tables
<1> HIDE DEF made
<1>4. Sound(made)
  BY <1>1, <1>2, <1>3 DEF Sound, Binds
<1> QED BY <1>4 DEF made, table

\* A proven-only handler, which no other verb accepts (Router::proven_service).
LEMMA ProvenSound ==
  ASSUME Sound(node), NEW name \in AllNames \ node.services
  PROVE  Sound([WithHandler(name, "ProvenOnly") EXCEPT !.proven = @ \cup {name}])
<1> DEFINE table == WithHandler(name, "ProvenOnly")
           made == [table EXCEPT !.proven = @ \cup {name}]
<1>1. /\ table \in Tables /\ DOMAIN table.exposure = table.services \ table.raw
      /\ table.raw = node.raw /\ table.proven = node.proven /\ table.member = node.member
      /\ table.services = node.services \cup {name}
      /\ \A n \in table.services \ table.raw :
           table.exposure[n] = IF n = name THEN "ProvenOnly" ELSE node.exposure[n]
  BY HandlerParts DEF Markers
<1>2. name \notin node.raw /\ name \notin node.member /\ name \notin node.proven
  BY DEF Sound, Binds
<1> HIDE DEF table
<1>3. /\ made \in Tables /\ made.services = table.services /\ made.raw = table.raw
      /\ made.exposure = table.exposure /\ made.member = table.member
      /\ made.proven = table.proven \cup {name}
  BY <1>1 DEF Tables
<1>4. Accepts("ProvenOnly", "Proven")
  BY DEF Accepts
<1> HIDE DEF made
<1>5. Sound(made)
  BY <1>1, <1>2, <1>3, <1>4 DEF Sound, Binds
<1> QED BY <1>5 DEF made, table

\* A raw source, whose route has no handler (Router::raw_stream).
LEMMA RawSound ==
  ASSUME Sound(node), NEW name \in AllNames \ node.services
  PROVE  Sound(WithRaw(name))
<1> DEFINE made == WithRaw(name)
<1>1. /\ made \in Tables /\ made.services = node.services \cup {name}
      /\ made.raw = node.raw \cup {name} /\ made.exposure = node.exposure
      /\ made.member = node.member /\ made.proven = node.proven
  BY DEF Sound, Tables, WithRaw
<1>2. name \notin node.proven /\ name \notin node.member
  BY DEF Sound, Binds
<1> HIDE DEF made
<1>3. Sound(made)
  BY <1>1, <1>2 DEF Sound, Binds
<1> QED BY <1>3 DEF made
-----------------------------------------------------------------------------
(* The inductive invariant *)

LEMMA InitSound == Init => IInv
<1> SUFFICES ASSUME NEW open \in BOOLEAN, node = Bare(open), phase = "assembling"
             PROVE  Sound(node)
  BY DEF Init, IInv
<1>1. [name \in {} |-> "Never"] \in [{} -> Markers]
  OBVIOUS
<1>2. Bare(open).exposure \in UNION {[S -> Markers] : S \in SUBSET AllNames}
  BY <1>1 DEF Bare
<1>3. Bare(open) \in Tables
  BY <1>2 DEF Bare, Tables
<1>4. Binds(Bare(open)) /\ DOMAIN Bare(open).exposure = {}
  BY DEF Binds, Bare
<1> QED BY <1>3, <1>4 DEF Sound, Bare

\* Router::bind leaves a sound table when what it was given is one.
LEMMA BindSound ==
  ASSUME IInv, NEW name, NEW bound, Bind(name, bound),
         name \notin node.services => Sound(bound)
  PROVE  IInv'
  BY DEF IInv, Bind, Fail, Sound

LEMMA FailSound ==
  ASSUME IInv, phase = "assembling", Fail
  PROVE  IInv'
  BY DEF IInv, Fail, Sound

\* The overlays are requests: any names may be asked for, and nothing of the
\* table moves (Router::public, Router::public_unsafe).
LEMMA OverlaySound ==
  ASSUME IInv, NEW names \in SUBSET AllNames,
         Public(names) \/ PublicUnsafe(names)
  PROVE  IInv'
<1>1. node \in Tables
  BY DEF IInv, Sound
<1>2. /\ node' \in Tables /\ node'.services = node.services /\ node'.raw = node.raw
      /\ node'.exposure = node.exposure /\ node'.member = node.member
      /\ node'.proven = node.proven /\ phase' = "assembling"
  BY <1>1 DEF Public, PublicUnsafe, Tables
<1>3. Sound(node')
  BY <1>2 DEF IInv, Sound, Binds
<1> QED BY <1>2, <1>3 DEF IInv

LEMMA VerbSound ==
  ASSUME IInv, NEW name \in AllNames, Verb(name)
  PROVE  IInv'
<1>1. Sound(node)
  BY DEF IInv
<1>2. CASE \E marker \in Markers : Service(name, marker)
  <2>1. PICK marker \in Markers : Service(name, marker)
    BY <1>2
  <2>2. CASE Accepts(marker, "Proven")
    BY <2>1, <2>2, FailSound DEF Service, BindGated
  <2>3. CASE ~Accepts(marker, "Proven")
    <3>1. Bind(name, WithHandler(name, marker))
      BY <2>1, <2>3 DEF Service, BindGated
    <3> QED BY <1>1, <2>3, <3>1, BindSound, ServiceSound
  <2> QED BY <2>2, <2>3
<1>3. CASE \E marker \in Markers : MemberService(name, marker)
  <2>1. PICK marker \in Markers : MemberService(name, marker)
    BY <1>3
  <2>2. CASE Accepts(marker, "Proven")
    BY <2>1, <2>2, FailSound DEF MemberService, BindGated
  <2>3. CASE ~Accepts(marker, "Proven")
    <3>1. Bind(name, [WithHandler(name, marker) EXCEPT !.member = @ \cup {name}])
      BY <2>1, <2>3 DEF MemberService, BindGated
    <3> QED BY <1>1, <2>3, <3>1, BindSound, MemberSound
  <2> QED BY <2>2, <2>3
<1>4. CASE ProvenService(name)
  BY <1>1, <1>4, BindSound, ProvenSound DEF ProvenService
<1>5. CASE RawStream(name)
  BY <1>1, <1>5, BindSound, RawSound DEF RawStream
<1>6. CASE \E e \in Entries : Parse(name, e)
  <2>1. PICK e \in Entries : Parse(name, e)
    BY <1>6
  <2>2. CASE ~Parses(e)
    BY <2>1, <2>2, FailSound DEF Parse
  <2>3. CASE Parses(e)
    <3>1. Bind(name, ParsedTarget(name, e))
      BY <2>1, <2>3 DEF Parse
    <3>2. "OptIn" \in Markers /\ ~Accepts("OptIn", "Proven")
      BY DEF Markers, Accepts
    <3>3. name \notin node.services => Sound(ParsedTarget(name, e))
      BY <1>1, <3>2, RawSound, ServiceSound DEF ParsedTarget
    <3> QED BY <3>1, <3>3, BindSound
  <2> QED BY <2>2, <2>3
<1> QED BY <1>2, <1>3, <1>4, <1>5, <1>6 DEF Verb

LEMMA NextSound == IInv /\ [Next]_vars => IInv'
<1> SUFFICES ASSUME IInv, [Next]_vars
             PROVE  IInv'
  OBVIOUS
<1>1. CASE \E name \in AllNames : Verb(name)
  BY <1>1, VerbSound
<1>2. CASE \E names \in SUBSET AllNames : Public(names) \/ PublicUnsafe(names)
  BY <1>2, OverlaySound
<1>3. CASE Expose
  BY <1>3 DEF IInv, Expose, Sound
<1>4. CASE UNCHANGED vars
  BY <1>4 DEF IInv, vars, Sound
<1> QED BY <1>1, <1>2, <1>3, <1>4 DEF Next

LEMMA RouterInvariant == Spec => []IInv
<1> QED BY InitSound, NextSound, PTL DEF Spec
-----------------------------------------------------------------------------
(* What an exposed node answers *)

\* Who `admit` and dispatch serve on a name of no overlay, a name of one, and
\* a proven-only name of none.
LEMMA PathFaced ==
  ASSUME NEW table, NEW name
  PROVE  /\ InOverlay(table, name) => PathOf(table, name) = "public"
         /\ ~InOverlay(table, name) /\ name \in table.proven
              => PathOf(table, name) = "proven"
         /\ ~InOverlay(table, name) /\ name \notin table.proven
              => PathOf(table, name) = IF table.open THEN "open" ELSE "rooted"
  BY DEF PathOf

\* A stranger is served exactly what was opened: the base or an overlay.
LEMMA StrangersFace ==
  ASSUME Binds(node), Proves(node), node \in Tables, NEW name \in node.services
  PROVE  Answers(node, name, "stranger") <=> node.open \/ InOverlay(node, name)
<1> DEFINE ruling == PathOf(node, name)
<1>1. CASE InOverlay(node, name)
  <2>1. ruling = "public" /\ OriginOf(ruling) = "Open"
    BY <1>1, PathFaced DEF OriginOf
  <2>2. name \notin node.member
    BY <1>1 DEF InOverlay, Proves, ProvesPublic
  <2>3. name \notin node.raw => node.exposure[name] = "OptIn"
    BY <1>1 DEF InOverlay, Proves, ProvesPublic, ProvesUnsafe, OpenSafe
  <2>4. Accepts("OptIn", "Open")
    BY DEF Accepts
  <2> HIDE DEF ruling
  <2>5. Answers(node, name, "stranger")
    BY <2>1, <2>2, <2>3, <2>4 DEF Answers, ruling
  <2> QED BY <1>1, <2>5
<1>2. CASE ~InOverlay(node, name) /\ node.open
  <2>1. name \notin node.proven /\ name \notin node.member
    BY <1>2 DEF Proves, ProvesOpenBase
  <2>2. ruling = "open" /\ OriginOf(ruling) = "Open"
    BY <1>2, <2>1, PathFaced DEF OriginOf
  <2>3. name \notin node.raw => node.exposure[name] = "OptIn"
    BY <1>2 DEF Proves, ProvesOpenBase, OpenSafe
  <2>4. Accepts("OptIn", "Open")
    BY DEF Accepts
  <2> HIDE DEF ruling
  <2>5. Answers(node, name, "stranger")
    BY <2>1, <2>2, <2>3, <2>4 DEF Answers, ruling
  <2> QED BY <1>2, <2>5
<1>3. CASE ~InOverlay(node, name) /\ ~node.open
  <2>1. ruling \in {"proven", "rooted"}
    BY <1>3, PathFaced
  <2>2. ~Answers(node, name, "stranger")
    BY <2>1 DEF Answers
  <2> QED BY <1>3, <2>2
<1> QED BY <1>1, <1>2, <1>3

\* Every route of an exposed node answers some kind of dialer.
LEMMA SomebodyFaces ==
  ASSUME Binds(node), Proves(node), node \in Tables,
         DOMAIN node.exposure = node.services \ node.raw,
         NEW name \in node.services
  PROVE  \E dialer \in Dialers : Answers(node, name, dialer)
<1> DEFINE ruling == PathOf(node, name)
<1>1. CASE node.open \/ InOverlay(node, name)
  BY <1>1, StrangersFace DEF Dialers
<1>2. CASE ~node.open /\ ~InOverlay(node, name) /\ name \in node.proven
  <2>1. ruling = "proven" /\ OriginOf(ruling) = "Proven"
    BY <1>2, PathFaced DEF OriginOf
  <2>2. name \notin node.raw /\ name \notin node.member
    BY <1>2 DEF Binds
  <2>3. Accepts(node.exposure[name], "Proven")
    BY <1>2, <2>2 DEF Binds
  <2> HIDE DEF ruling
  <2>4. Answers(node, name, "known")
    BY <2>1, <2>2, <2>3 DEF Answers, ruling
  <2> QED BY <2>4 DEF Dialers
<1>3. CASE ~node.open /\ ~InOverlay(node, name) /\ name \notin node.proven
  <2>1. ruling = "rooted" /\ OriginOf(ruling) = "Rooted"
    BY <1>3, PathFaced DEF OriginOf
  <2>2. name \notin node.raw => node.exposure[name] \in {"Never", "OptIn"}
    <3> SUFFICES ASSUME name \notin node.raw
                 PROVE  node.exposure[name] \in {"Never", "OptIn"}
      OBVIOUS
    <3>1. PICK S \in SUBSET AllNames : node.exposure \in [S -> Markers]
      BY DEF Tables
    <3>2. node.exposure[name] \in Markers
      BY <3>1
    <3>3. ~Accepts(node.exposure[name], "Proven")
      BY <1>3 DEF Binds
    <3>4. Accepts("ProvenOnly", "Proven")
      BY DEF Accepts
    <3> QED BY <3>2, <3>3, <3>4 DEF Markers
  <2>3. Accepts("Never", "Rooted") /\ Accepts("OptIn", "Rooted")
    BY DEF Accepts
  <2> HIDE DEF ruling
  <2>4. Answers(node, name, "member")
    BY <2>1, <2>2, <2>3 DEF Answers, ruling
  <2> QED BY <2>4 DEF Dialers
<1> QED BY <1>1, <1>2, <1>3
-----------------------------------------------------------------------------
(***************************************************************************)
(* Whatever verbs are called in whatever order, a table binds only routes  *)
(* that Exposer::prove was written for, and an exposed node has no route   *)
(* no dialer can reach (RoutesAreReal).                                    *)
(***************************************************************************)
THEOREM RouterRoutesAreReal == Spec => []RoutesAreReal
<1>1. IInv => RoutesAreReal
  <2> SUFFICES ASSUME IInv PROVE RoutesAreReal
    OBVIOUS
  <2>1. TypeOK /\ Binds(node)
    BY DEF IInv, Sound, Tables, TypeOK
  <2>2. NoDeadRoute
    BY SomebodyFaces DEF IInv, Sound, NoDeadRoute
  <2> QED BY <2>1, <2>2 DEF RoutesAreReal, OnlyBindable
<1> QED BY <1>1, RouterInvariant, PTL

(***************************************************************************)
(* The posture Exposer::manifest and Services::catalog show of a service   *)
(* is the one `admit` and dispatch give a stranger (PostureIsFaced).       *)
(***************************************************************************)
THEOREM RouterPostureIsFaced == Spec => []PostureIsFaced
<1>1. IInv => PostureIsFaced
  <2> SUFFICES ASSUME IInv, phase = "exposed", NEW name \in node.services
               PROVE  Posture(node, name) = "Open" <=> Answers(node, name, "stranger")
    BY DEF PostureIsFaced
  <2>1. Answers(node, name, "stranger") <=> node.open \/ InOverlay(node, name)
    BY StrangersFace DEF IInv, Sound
  <2>2. Posture(node, name) = "Open" <=> node.open \/ InOverlay(node, name)
    BY DEF Posture, InOverlay
  <2> QED BY <2>1, <2>2
<1> QED BY <1>1, RouterInvariant, PTL

(***************************************************************************)
(* A stranger reaches no keyless handler, no member-only or proven-only    *)
(* route and no raw source the operator did not name in the unsafe set     *)
(* (StrangersAreKeptOut): the refusals of Exposer::prove suffice.          *)
(***************************************************************************)
THEOREM RouterKeepsStrangersOut == Spec => []StrangersAreKeptOut
<1>1. IInv => StrangersAreKeptOut
  <2> SUFFICES ASSUME IInv, phase = "exposed", NEW name \in node.services,
                      Answers(node, name, "stranger")
               PROVE  /\ name \notin node.member \cup node.proven
                      /\ IF name \in node.raw THEN name \in node.unsafe
                                              ELSE node.exposure[name] = "OptIn"
    BY DEF StrangersAreKeptOut
  <2>1. node.open \/ InOverlay(node, name)
    BY StrangersFace DEF IInv, Sound
  <2>2. Binds(node) /\ Proves(node)
    BY DEF IInv, Sound
  <2>3. CASE InOverlay(node, name)
    BY <2>2, <2>3 DEF InOverlay, Binds, Proves, ProvesPublic, ProvesUnsafe, OpenSafe
  <2>4. CASE node.open
    BY <2>2, <2>4 DEF Binds, Proves, ProvesOpenBase, OpenSafe
  <2> QED BY <2>1, <2>3, <2>4
<1> QED BY <1>1, RouterInvariant, PTL
-----------------------------------------------------------------------------
(***************************************************************************)
(* The disabled list                                                       *)
(***************************************************************************)

\* No stamp is ahead of the clock, and a loader's handle is on an inode.
StampsArePast ==
  /\ list.stamp <= clock
  /\ hand.stamp <= clock
  /\ \A i \in Inodes : inode[i].stamp <= clock
  /\ loader \in {"opened", "loaded"} => hand.inode \in Inodes

(***************************************************************************)
(* When writers only replace the file, an inode is written once, at the    *)
(* instant it is named for, so that a stamp tells one inode from another;  *)
(* and what a loader read is what the inode of its handle holds.           *)
(***************************************************************************)
InodesAreFinal ==
  ~inPlace =>
    /\ \A i \in Inodes : i <= clock => inode[i].stamp = i
    /\ \A i \in path : i <= clock
    /\ loader \in {"opened", "loaded"} => hand.inode <= clock
    /\ loader = "loaded" => hand.names = inode[hand.inode].names

\* The inductive invariant.
ListInv == StampTellsTheTruth /\ StampsArePast /\ InodesAreFinal
-----------------------------------------------------------------------------
LEMMA ListInitHolds == ListInit => ListInv
<1> SUFFICES ASSUME ListInit PROVE ListInv
  OBVIOUS
<1>1. ListTypeOK
  BY DisabledAssumption DEF ListInit, ListTypeOK, Inodes, Nowhere, Empty, NotLoaded, Lists, Stamps
<1> QED BY <1>1, DisabledAssumption
        DEF ListInit, ListInv, StampTellsTheTruth, StampsArePast, InodesAreFinal, File,
            Inodes, Nowhere, Empty, NotLoaded

\* A write gives one inode new names, at an instant no stamp has reached.
LEMMA WriteHolds ==
  ASSUME ListInv, NEW i \in Inodes, NEW names \in SUBSET Services, Write(i, names),
         \/ path' = {i} /\ i = clock + 1
         \/ inPlace /\ i \in path /\ path' = path
  PROVE  ListInv'
<1>1. /\ ListTypeOK /\ clock \in Stamps /\ clock < MaxClock /\ clock' = clock + 1
      /\ inode \in [Inodes -> [names : Lists, stamp : Stamps]]
      /\ inode' = [inode EXCEPT ![i] = [names |-> names, stamp |-> clock + 1]]
      /\ UNCHANGED <<inPlace, list, loader, hand>>
  BY DEF ListInv, StampTellsTheTruth, ListTypeOK, Write
<1>2. /\ inode' \in [Inodes -> [names : Lists, stamp : Stamps]]
      /\ inode'[i] = [names |-> names, stamp |-> clock + 1]
      /\ \A j \in Inodes \ {i} : inode'[j] = inode[j]
      /\ clock' \in Stamps
  BY <1>1, DisabledAssumption DEF Lists, Stamps
<1>3. ListTypeOK'
  BY <1>1, <1>2, DisabledAssumption DEF ListTypeOK, Stamps
<1>4. StampsArePast'
  BY <1>1, <1>2, DisabledAssumption DEF ListInv, StampsArePast, ListTypeOK, Stamps
<1>5. CASE inPlace
  BY <1>1, <1>3, <1>4, <1>5 DEF ListInv, StampTellsTheTruth, InodesAreFinal
<1>6. CASE ~inPlace
  <2>1. path' = {i} /\ i = clock + 1
    BY <1>6
  <2>2. InodesAreFinal'
    BY <1>1, <1>2, <1>6, <2>1, DisabledAssumption
    DEF ListInv, InodesAreFinal, StampsArePast, ListTypeOK, Stamps, Inodes
  <2>3. \A f \in File' : list'.stamp # f.stamp
    <3>1. File' = {inode'[i]}
      BY <2>1 DEF File
    <3>2. list'.stamp <= clock /\ list'.stamp \in Nat /\ clock \in Nat
      BY <1>1, DisabledAssumption DEF ListInv, StampsArePast, ListTypeOK, Stamps
    <3> QED BY <1>2, <3>1, <3>2
  <2> QED BY <1>3, <1>4, <2>2, <2>3 DEF ListInv, StampTellsTheTruth
<1> QED BY <1>5, <1>6

\* Deleting the file takes a fact away from nobody.
LEMMA DeleteHolds ==
  ASSUME ListInv, Delete
  PROVE  ListInv'
  BY DEF ListInv, Delete, StampTellsTheTruth, ListTypeOK, StampsArePast, InodesAreFinal, File

(***************************************************************************)
(* What the list comes to hold is true of the file when, under the stamp   *)
(* of the inode the path names, it has that inode's names.                 *)
(***************************************************************************)
LEMMA ListHolds ==
  ASSUME ListInv, UNCHANGED disk,
         list' \in [names : Lists, stamp : Stamps, due : BOOLEAN], list'.stamp <= clock,
         hand' \in [inode : {0} \cup Inodes, names : Lists, stamp : Stamps],
         hand'.stamp <= clock,
         loader' \in {"down", "up", "stale"}, loader' = "stale" => ~list'.due,
         ~inPlace => \A f \in File :
           loader' \in {"up", "stale"} /\ list'.stamp = f.stamp => list'.names = f.names
  PROVE  ListInv'
  BY DEF ListInv, StampTellsTheTruth, ListTypeOK, StampsArePast, InodesAreFinal, File, disk

\* The parts of a load before its stamp (FileDisabledList::load).
LEMMA LoadHolds ==
  ASSUME ListInv, LoadOpen \/ LoadRead
  PROVE  ListInv'
<1>1. ListTypeOK /\ path \subseteq Inodes /\ clock \in Nat
  BY DisabledAssumption DEF ListInv, StampTellsTheTruth, ListTypeOK, Stamps
<1>2. CASE LoadOpen
  <2>1. PICK i \in path : hand' = [Empty EXCEPT !.inode = i]
    BY <1>2 DEF LoadOpen
  <2>2. hand' = [inode |-> i, names |-> {}, stamp |-> 0] /\ i \in Inodes
    BY <1>1, <2>1 DEF Empty
  <2>3. hand' \in [inode : {0} \cup Inodes, names : Lists, stamp : Stamps]
    BY <2>2, DisabledAssumption DEF Lists, Stamps
  <2>4. ListTypeOK'
    BY <1>1, <1>2, <2>3 DEF LoadOpen, disk, ListTypeOK
  <2> QED BY <1>1, <1>2, <2>2, <2>4
          DEF LoadOpen, disk, ListInv, StampTellsTheTruth, StampsArePast, InodesAreFinal, File
<1>3. CASE LoadRead
  <2>1. hand.inode \in Inodes /\ inode[hand.inode].names \in Lists
    BY <1>1, <1>3 DEF LoadRead, ListInv, StampsArePast, ListTypeOK
  <2>2. /\ hand' \in [inode : {0} \cup Inodes, names : Lists, stamp : Stamps]
        /\ hand'.inode = hand.inode /\ hand'.stamp = hand.stamp
        /\ hand'.names = inode[hand.inode].names
    BY <1>1, <1>3, <2>1 DEF LoadRead, ListTypeOK
  <2>3. ListTypeOK'
    BY <1>1, <1>3, <2>2 DEF LoadRead, disk, ListTypeOK
  <2> QED BY <1>3, <2>1, <2>2, <2>3
          DEF LoadRead, disk, ListInv, StampTellsTheTruth, StampsArePast, InodesAreFinal, File
<1> QED BY <1>2, <1>3

\* A load's stamp is that of the inode its names came from.
LEMMA StampHolds ==
  ASSUME ListInv, LoadStamp
  PROVE  ListInv'
<1> DEFINE i == hand.inode
<1>1. ListTypeOK /\ clock \in Nat /\ loader = "loaded" /\ UNCHANGED disk
  BY DisabledAssumption DEF ListInv, StampTellsTheTruth, ListTypeOK, Stamps, LoadStamp
<1>2. i \in Inodes /\ inode[i].stamp \in Stamps /\ inode[i].stamp <= clock
  BY <1>1 DEF ListInv, StampsArePast, ListTypeOK
<1>3. /\ list' = [names |-> hand.names, stamp |-> inode[i].stamp, due |-> TRUE]
      /\ loader' = "up" /\ hand' = Empty
  BY DEF LoadStamp, Loaded
<1>4. ASSUME ~inPlace, NEW f \in File, list'.stamp = f.stamp
      PROVE  list'.names = f.names
  <2>1. PICK j \in path : f = inode[j]
    BY DEF File
  <2>2. j \in Inodes /\ i <= clock /\ j <= clock
    BY <1>1, <1>4 DEF ListInv, InodesAreFinal, ListTypeOK
  <2>3. inode[i].stamp = i /\ inode[j].stamp = j
    BY <1>2, <1>4, <2>2 DEF ListInv, InodesAreFinal
  <2>4. i = j
    BY <1>3, <1>4, <2>1, <2>3
  <2> QED BY <1>1, <1>3, <1>4, <2>1, <2>4 DEF ListInv, InodesAreFinal
<1>5. /\ list' \in [names : Lists, stamp : Stamps, due : BOOLEAN] /\ list'.stamp <= clock
      /\ hand' \in [inode : {0} \cup Inodes, names : Lists, stamp : Stamps]
      /\ hand'.stamp <= clock
  BY <1>1, <1>2, <1>3, DisabledAssumption DEF ListTypeOK, Empty, Lists, Stamps
<1> QED BY <1>1, <1>3, <1>4, <1>5, ListHolds

\* A refresh installs what the path holds at its read, under the stamp of an
\* earlier stat: an older one, unless it is the same inode's.
LEMMA RefreshHolds ==
  ASSUME ListInv, ReadPath
  PROVE  ListInv'
<1>1. /\ ListTypeOK /\ clock \in Nat /\ UNCHANGED disk
      /\ loader = "stale" /\ loader' = "up" /\ hand' = Empty
  BY DisabledAssumption DEF ListInv, StampTellsTheTruth, ListTypeOK, Stamps, ReadPath, Settle
<1>2. PICK g \in File : list' = [list EXCEPT !.names = g.names, !.stamp = hand.stamp]
  BY DEF ReadPath, Settle
<1>3. g.names \in Lists /\ File = {g}
  BY <1>1 DEF ListTypeOK, File
<1>4. /\ list'.names = g.names /\ list'.stamp = hand.stamp
      /\ list' \in [names : Lists, stamp : Stamps, due : BOOLEAN]
  BY <1>1, <1>2, <1>3 DEF ListTypeOK
<1>5. /\ list'.stamp <= clock /\ hand'.stamp <= clock
      /\ hand' \in [inode : {0} \cup Inodes, names : Lists, stamp : Stamps]
  BY <1>1, <1>4, DisabledAssumption DEF ListInv, StampsArePast, Empty, Lists, Stamps
<1> QED BY <1>1, <1>3, <1>4, <1>5, ListHolds

\* What starts, ends or skips a refresh leaves the names and the stamp.
LEMMA StatHolds ==
  ASSUME ListInv, Elapse \/ StatKeeps \/ StatMoved \/ ReadFails
  PROVE  ListInv'
<1>1. ListTypeOK /\ clock \in Nat /\ UNCHANGED disk /\ loader \in {"up", "stale"}
  BY DisabledAssumption
  DEF ListInv, StampTellsTheTruth, ListTypeOK, Stamps, Elapse, StatKeeps, StatMoved, ReadFails, Settle
<1>2. /\ list' \in [names : Lists, stamp : Stamps, due : BOOLEAN]
      /\ list'.names = list.names /\ list'.stamp = list.stamp
      /\ loader' \in {"up", "stale"}
      /\ loader' = "stale" => ~list'.due
  BY <1>1 DEF ListTypeOK, Elapse, StatKeeps, StatMoved, ReadFails, Settle
<1>3. /\ hand' \in [inode : {0} \cup Inodes, names : Lists, stamp : Stamps]
      /\ hand'.stamp <= clock
  <2>1. CASE StatMoved
    <3>1. PICK i \in path : hand' = [Empty EXCEPT !.stamp = inode[i].stamp]
      BY <2>1 DEF StatMoved, File
    <3>2. inode[i].stamp \in Stamps /\ inode[i].stamp <= clock
      BY <1>1 DEF ListInv, StampsArePast, ListTypeOK
    <3> QED BY <3>1, <3>2 DEF Empty, Lists
  <2>2. CASE ~StatMoved
    <3>1. hand' \in {hand, Empty}
      BY <2>2 DEF Elapse, StatKeeps, ReadFails, Settle
    <3> QED BY <1>1, <3>1, DisabledAssumption
            DEF ListInv, StampsArePast, ListTypeOK, Empty, Lists, Stamps
  <2> QED BY <2>1, <2>2
<1>4. list.stamp <= clock
  BY DEF ListInv, StampsArePast
<1>5. ~inPlace => \A f \in File : list.stamp = f.stamp => list.names = f.names
  BY <1>1 DEF ListInv, StampTellsTheTruth
<1> QED BY <1>1, <1>2, <1>3, <1>4, <1>5, ListHolds

\* A start without a file, and the end of the node: nothing is vouched for.
LEMMA NothingVouched ==
  ASSUME ListInv, LoadAbsent \/ Restart
  PROVE  ListInv'
<1>1. ListTypeOK /\ clock \in Nat /\ UNCHANGED disk /\ hand' = Empty
  BY DisabledAssumption
  DEF ListInv, StampTellsTheTruth, ListTypeOK, Stamps, LoadAbsent, Loaded, Restart
<1>2. list' = NotLoaded
  BY DEF LoadAbsent, Loaded, Restart, NotLoaded
<1>3. loader' = "down" \/ (loader' = "up" /\ path = {})
  BY DEF LoadAbsent, Loaded, Restart
<1>4. /\ list' \in [names : Lists, stamp : Stamps, due : BOOLEAN] /\ list'.stamp <= clock
      /\ hand' \in [inode : {0} \cup Inodes, names : Lists, stamp : Stamps]
      /\ hand'.stamp <= clock
  BY <1>1, <1>2, DisabledAssumption DEF NotLoaded, Empty, Lists, Stamps
<1>5. loader' = "up" => File = {}
  BY <1>3 DEF File
<1> QED BY <1>1, <1>3, <1>4, <1>5, ListHolds

LEMMA ListNextHolds == ListInv /\ [ListNext]_listVars => ListInv'
<1> SUFFICES ASSUME ListInv, [ListNext]_listVars
             PROVE  ListInv'
  OBVIOUS
<1>1. CASE \E names \in SUBSET Services : Replace(names)
  <2>1. PICK names \in SUBSET Services : Replace(names)
    BY <1>1
  <2>2. clock + 1 \in Inodes
    BY <2>1, DisabledAssumption
    DEF ListInv, StampTellsTheTruth, ListTypeOK, Stamps, Inodes, Replace, Write
  <2> QED BY <2>1, <2>2, WriteHolds DEF Replace
<1>2. CASE \E names \in SUBSET Services : Edit(names)
  <2>1. PICK names \in SUBSET Services : Edit(names)
    BY <1>2
  <2>2. PICK i \in path : Write(i, names)
    BY <2>1 DEF Edit
  <2>3. i \in Inodes
    BY DEF ListInv, StampTellsTheTruth, ListTypeOK
  <2> QED BY <2>1, <2>2, <2>3, WriteHolds DEF Edit
<1>3. CASE Delete
  BY <1>3, DeleteHolds
<1>4. CASE Reader
  BY <1>4, LoadHolds, StampHolds, RefreshHolds, StatHolds, NothingVouched DEF Reader
<1>5. CASE UNCHANGED listVars
  BY <1>5 DEF listVars, ListInv, StampTellsTheTruth, ListTypeOK, StampsArePast, InodesAreFinal, File
<1> QED BY <1>1, <1>2, <1>3, <1>4, <1>5 DEF ListNext, Writers

LEMMA DisabledInvariant == ListSpec => []ListInv
<1> QED BY ListInitHolds, ListNextHolds, PTL DEF ListSpec
-----------------------------------------------------------------------------
(***************************************************************************)
(* A list that wears the file's stamp holds the file's names, however the  *)
(* file is replaced or deleted around a load or a refresh                  *)
(* (StampTellsTheTruth).                                                   *)
(***************************************************************************)
THEOREM StampsTellTheTruth == ListSpec => []StampTellsTheTruth
<1>1. ListInv => StampTellsTheTruth
  BY DEF ListInv
<1> QED BY <1>1, DisabledInvariant, PTL

(***************************************************************************)
(* A refresh of a running node ends with the names it had or with those    *)
(* the file has at that moment, never with fewer for want of an answer     *)
(* (FailsClosed).                                                          *)
(***************************************************************************)
THEOREM RefreshFailsClosed == ListSpec => FailsClosed
<1>1. ListInv /\ [ListNext]_listVars =>
        [loader = "stale" /\ loader' = "up" =>
           list'.names = list.names \/ \E f \in File : list'.names = f.names]_listVars
  <2> SUFFICES ASSUME ListInv, ListNext, loader = "stale", loader' = "up"
               PROVE  list'.names = list.names \/ \E f \in File : list'.names = f.names
    OBVIOUS
  <2>1. ReadPath \/ ReadFails
    BY DEF ListNext, Writers, Reader, Replace, Edit, Write, Delete, LoadAbsent, LoadOpen,
           LoadRead, LoadStamp, Elapse, StatKeeps, StatMoved, Restart
  <2>2. list \in [names : Lists, stamp : Stamps, due : BOOLEAN]
    BY DEF ListInv, StampTellsTheTruth, ListTypeOK
  <2> QED BY <2>1, <2>2 DEF ReadPath, ReadFails, Settle
<1> QED BY <1>1, DisabledInvariant, PTL DEF ListSpec, FailsClosed
=============================================================================
