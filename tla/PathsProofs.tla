----------------------------- MODULE PathsProofs -----------------------------
(***************************************************************************)
(* Proofs about the guarded open, for any objects at the path and any      *)
(* number of dials.                                                        *)
(***************************************************************************)
EXTENDS Paths, TLAPS

\* What was checked before serving is what the path's object is.
ShownIsChecked ==
  shown.found # Absent => (shown.served <=> TypeOf[shown.found] \in Accepted)

\* Why a dial was refused says what it found.
RefusedForCause ==
  \A d \in Dials :
    /\ dial[d].why = "open" /\ dial[d].found # Absent =>
         TypeOf[dial[d].found] \in {"symlink", "socket"}
    /\ dial[d].why = "type" => TypeOf[dial[d].found] \notin Accepted
    /\ dial[d].why # "none" => dial[d].phase = "refused"

\* A FIFO nobody has open is empty.
EmptyUnlessOpen == \A o \in Fifos : fifo[o].bytes > 0 => fifo[o].writer \/ Readers(o) # {}

(***************************************************************************)
(* A dial alone with its FIFO that met no writer has nothing to read, not  *)
(* even its end: it still waits.                                           *)
(***************************************************************************)
Unmet(d) == OnFifo(d) /\ ~dial[d].met /\ ~dial[d].shared

UnmetWait ==
  \A d \in Dials :
    /\ Unmet(d) => /\ ~fifo[dial[d].fd].writer
                   /\ fifo[dial[d].fd].bytes = 0
                   /\ dial[d].phase \in {"opened", "waiting"}
    /\ dial[d].phase = "opened" \/ Unmet(d) => ~dial[d].ready
    /\ OnFifo(d) /\ ~dial[d].shared => Readers(dial[d].fd) = {d}

IInv ==
  /\ OnlyWhatIsNamed /\ BannerAgrees /\ RestsWhenQuiet /\ NoInstantEnd
  /\ ShownIsChecked /\ RefusedForCause /\ EmptyUnlessOpen /\ UnmetWait

-----------------------------------------------------------------------------
(* The types TypeOK spells out, and what stays within them *)

Phases == {"idle", "opened", "waiting", "reading", "ended", "refused"}

DialType ==
  [phase : Phases, fd : Objects \cup {Absent}, ready : BOOLEAN, read : Nat,
   found : Objects \cup {Absent}, met : BOOLEAN, shared : BOOLEAN,
   why : {"none", "open", "type", "late"}]

FifoType == [bytes : Nat, writer : BOOLEAN]

\* What an action makes of a dial is a dial.
LEMMA DialTyped ==
  ASSUME NEW x \in DialType
  PROVE  /\ [x EXCEPT !.met = TRUE] \in DialType
         /\ [x EXCEPT !.shared = TRUE] \in DialType
         /\ [x EXCEPT !.read = @ + 1] \in DialType
         /\ [x EXCEPT !.phase = "ended", !.fd = Absent, !.ready = FALSE] \in DialType
         /\ \A b \in BOOLEAN : [x EXCEPT !.ready = b] \in DialType
         /\ \A b \in BOOLEAN : [x EXCEPT !.phase = "waiting", !.ready = b] \in DialType
<1>1. [x EXCEPT !.met = TRUE] \in DialType
  BY DEF DialType
<1>2. [x EXCEPT !.shared = TRUE] \in DialType
  BY DEF DialType
<1>3. [x EXCEPT !.read = @ + 1] \in DialType
  BY DEF DialType
<1>4. [x EXCEPT !.phase = "ended", !.fd = Absent, !.ready = FALSE] \in DialType
  BY DEF DialType, Phases
<1>5. \A b \in BOOLEAN : [x EXCEPT !.ready = b] \in DialType
  BY DEF DialType
<1>6. \A b \in BOOLEAN : [x EXCEPT !.phase = "waiting", !.ready = b] \in DialType
  BY DEF DialType, Phases
<1> QED BY <1>1, <1>2, <1>3, <1>4, <1>5, <1>6

\* What a writer makes of a FIFO is a FIFO.
LEMMA FifoHeld ==
  ASSUME NEW x \in FifoType
  PROVE  /\ [x EXCEPT !.writer = TRUE] \in FifoType
         /\ [x EXCEPT !.writer = FALSE] \in FifoType
         /\ [x EXCEPT !.writer = FALSE, !.bytes = 0] \in FifoType
         /\ [x EXCEPT !.writer = FALSE, !.bytes = @] \in FifoType
BY DEF FifoType

\* One dial changes.
LEMMA BecomeTyped ==
  ASSUME dial \in [Dials -> DialType], NEW d \in Dials, NEW new \in DialType, Become(d, new)
  PROVE  dial' \in [Dials -> DialType]
BY DEF Become

\* One FIFO changes.
LEMMA FifoTyped ==
  ASSUME fifo \in [Fifos -> FifoType], NEW o \in Fifos, NEW new \in FifoType,
         fifo' = [fifo EXCEPT ![o] = new]
  PROVE  fifo' \in [Fifos -> FifoType]
OBVIOUS

-----------------------------------------------------------------------------
(* The initial states and every step keep IInv *)

LEMMA InitIInv == Init => IInv
<1> SUFFICES ASSUME Init PROVE IInv
  OBVIOUS
<1> USE PathsAssumption DEF Init, Idle, Fifos, Types, Readers, OnFifo, Readable, Accepted
<1>1. OnlyWhatIsNamed
  BY DEF OnlyWhatIsNamed, TypeOK, Unmet
<1>2. BannerAgrees
  BY DEF BannerAgrees, TypeOK, Unmet
<1>3. RestsWhenQuiet
  BY DEF RestsWhenQuiet, TypeOK, Unmet
<1>4. NoInstantEnd
  BY DEF NoInstantEnd, TypeOK, Unmet
<1>5. ShownIsChecked
  BY DEF ShownIsChecked, TypeOK, Unmet
<1>6. RefusedForCause
  BY DEF RefusedForCause, TypeOK, Unmet
<1>7. EmptyUnlessOpen
  BY DEF EmptyUnlessOpen, TypeOK, Unmet
<1>8. UnmetWait
  BY DEF UnmetWait, TypeOK, Unmet
<1> QED BY <1>1, <1>2, <1>3, <1>4, <1>5, <1>6, <1>7, <1>8 DEF IInv

\* The operator puts something else at the path.
LEMMA ReplaceKeeps ==
  ASSUME IInv, Replace
  PROVE  IInv'
<1> USE PathsAssumption
    DEF IInv, OnlyWhatIsNamed, TypeOK, Fifos, Types, Readers, OnFifo, Readable, Accepted,
        Replace
<1>1. OnlyWhatIsNamed'
  OBVIOUS
<1>2. BannerAgrees'
  BY DEF BannerAgrees, ShownIsChecked, RefusedForCause
<1>3. RestsWhenQuiet'
  BY DEF RestsWhenQuiet
<1>4. NoInstantEnd'
  BY DEF NoInstantEnd, UnmetWait, Unmet
<1>5. ShownIsChecked'
  BY DEF ShownIsChecked
<1>6. RefusedForCause'
  BY DEF RefusedForCause
<1>7. EmptyUnlessOpen'
  BY DEF EmptyUnlessOpen
<1>8. UnmetWait'
  BY DEF UnmetWait, Unmet
<1> QED BY <1>1, <1>2, <1>3, <1>4, <1>5, <1>6, <1>7, <1>8 DEF IInv

\* The node checks the path and serves, or does not.
LEMMA ServeKeeps ==
  ASSUME IInv, Serve
  PROVE  IInv'
<1> USE PathsAssumption
    DEF IInv, OnlyWhatIsNamed, TypeOK, Fifos, Types, Readers, OnFifo, Readable, Accepted,
        Serve, Checked
<1>1. OnlyWhatIsNamed'
  OBVIOUS
<1>2. BannerAgrees'
  BY DEF BannerAgrees, ShownIsChecked, RefusedForCause
<1>3. RestsWhenQuiet'
  BY DEF RestsWhenQuiet
<1>4. NoInstantEnd'
  BY DEF NoInstantEnd, UnmetWait, Unmet
<1>5. ShownIsChecked'
  BY DEF ShownIsChecked
<1>6. RefusedForCause'
  BY DEF RefusedForCause
<1>7. EmptyUnlessOpen'
  BY DEF EmptyUnlessOpen
<1>8. UnmetWait'
  BY DEF UnmetWait, Unmet
<1> QED BY <1>1, <1>2, <1>3, <1>4, <1>5, <1>6, <1>7, <1>8 DEF IInv

\* A writer opens the FIFO.
LEMMA WriterOpensKeeps ==
  ASSUME IInv, NEW o \in Fifos, WriterOpens(o)
  PROVE  IInv'
<1> USE PathsAssumption
    DEF IInv, OnlyWhatIsNamed, TypeOK, Fifos, Types, Readers, OnFifo, Readable, Accepted,
        WriterOpens, Heard
<1>1. OnlyWhatIsNamed'
  <2>1. fifo' \in [Fifos -> FifoType]
    <3>1. [fifo[o] EXCEPT !.writer = TRUE] \in FifoType
      BY FifoHeld DEF FifoType
    <3> QED BY <3>1, FifoTyped DEF FifoType
  <2>2. dial' \in [Dials -> DialType]
    <3> SUFFICES ASSUME NEW e \in Dials PROVE dial'[e] \in DialType
      OBVIOUS
    <3>1. dial[e] \in DialType
      BY DEF DialType, Phases
    <3>2. [dial[e] EXCEPT !.met = TRUE] \in DialType
      BY <3>1, DialTyped
    <3> QED BY <3>1, <3>2
  <2>3. \A e \in Dials :
          /\ dial'[e].fd # Absent <=> dial'[e].phase \in {"opened", "waiting", "reading"}
          /\ dial'[e].fd # Absent => dial'[e].fd = dial'[e].found
          /\ dial'[e].phase = "waiting" => dial'[e].fd \in Fifos
    OBVIOUS
  <2>4. \A e \in Dials :
          dial'[e].phase \in {"waiting", "reading", "ended"} =>
            dial'[e].found \in Objects /\ TypeOf[dial'[e].found] \in Accepted
    OBVIOUS
  <2> QED BY <2>1, <2>2, <2>3, <2>4 DEF DialType, Phases, FifoType
<1>2. BannerAgrees'
  BY DEF BannerAgrees, ShownIsChecked, RefusedForCause
<1>3. RestsWhenQuiet'
  BY DEF RestsWhenQuiet
<1>4. NoInstantEnd'
  BY DEF NoInstantEnd, UnmetWait, Unmet
<1>5. ShownIsChecked'
  BY DEF ShownIsChecked
<1>6. RefusedForCause'
  BY DEF RefusedForCause
<1>7. EmptyUnlessOpen'
  BY DEF EmptyUnlessOpen
<1>8. UnmetWait'
  BY DEF UnmetWait, Unmet
<1> QED BY <1>1, <1>2, <1>3, <1>4, <1>5, <1>6, <1>7, <1>8 DEF IInv

\* A writer writes a byte to whoever has the FIFO open.
LEMMA WriterWritesKeeps ==
  ASSUME IInv, NEW o \in Fifos, WriterWrites(o)
  PROVE  IInv'
<1> USE PathsAssumption
    DEF IInv, OnlyWhatIsNamed, TypeOK, Fifos, Types, Readers, OnFifo, Readable, Accepted,
        WriterWrites, Heard
<1>1. OnlyWhatIsNamed'
  <2>1. fifo' \in [Fifos -> FifoType]
    BY DEF FifoType
  <2>2. dial' \in [Dials -> DialType]
    <3> SUFFICES ASSUME NEW e \in Dials PROVE dial'[e] \in DialType
      OBVIOUS
    <3>1. dial[e] \in DialType
      BY DEF DialType, Phases
    <3>2. \A b \in BOOLEAN : [dial[e] EXCEPT !.ready = b] \in DialType
      BY <3>1, DialTyped
    <3>3. (dial[e].phase # "opened") \in BOOLEAN
      OBVIOUS
    <3> QED BY <3>1, <3>2, <3>3
  <2>3. \A e \in Dials :
          /\ dial'[e].fd # Absent <=> dial'[e].phase \in {"opened", "waiting", "reading"}
          /\ dial'[e].fd # Absent => dial'[e].fd = dial'[e].found
          /\ dial'[e].phase = "waiting" => dial'[e].fd \in Fifos
    OBVIOUS
  <2>4. \A e \in Dials :
          dial'[e].phase \in {"waiting", "reading", "ended"} =>
            dial'[e].found \in Objects /\ TypeOf[dial'[e].found] \in Accepted
    OBVIOUS
  <2> QED BY <2>1, <2>2, <2>3, <2>4 DEF DialType, Phases, FifoType
<1>2. BannerAgrees'
  BY DEF BannerAgrees, ShownIsChecked, RefusedForCause
<1>3. RestsWhenQuiet'
  BY DEF RestsWhenQuiet
<1>4. NoInstantEnd'
  BY DEF NoInstantEnd, UnmetWait, Unmet
<1>5. ShownIsChecked'
  BY DEF ShownIsChecked
<1>6. RefusedForCause'
  BY DEF RefusedForCause
<1>7. EmptyUnlessOpen'
  BY DEF EmptyUnlessOpen
<1>8. UnmetWait'
  BY DEF UnmetWait, Unmet
<1> QED BY <1>1, <1>2, <1>3, <1>4, <1>5, <1>6, <1>7, <1>8 DEF IInv

\* The last writer leaves.
LEMMA WriterLeavesKeeps ==
  ASSUME IInv, NEW o \in Fifos, WriterLeaves(o)
  PROVE  IInv'
<1> USE PathsAssumption
    DEF IInv, OnlyWhatIsNamed, TypeOK, Fifos, Types, Readers, OnFifo, Readable, Accepted,
        WriterLeaves, Heard
<1>1. OnlyWhatIsNamed'
  <2>1. fifo' \in [Fifos -> FifoType]
    <3>1. fifo[o] \in FifoType
      BY DEF FifoType
    <3>2. CASE Readers(o) = {}
      <4>1. fifo' = [fifo EXCEPT ![o] = [fifo[o] EXCEPT !.writer = FALSE, !.bytes = 0]]
        BY <3>2
      <4>2. [fifo[o] EXCEPT !.writer = FALSE, !.bytes = 0] \in FifoType
        BY <3>1, FifoHeld
      <4> QED BY <4>1, <4>2, FifoTyped DEF FifoType
    <3>3. CASE Readers(o) # {}
      <4>1. fifo' = [fifo EXCEPT ![o] = [fifo[o] EXCEPT !.writer = FALSE, !.bytes = @]]
        BY <3>3
      <4>2. [fifo[o] EXCEPT !.writer = FALSE, !.bytes = @] \in FifoType
        BY <3>1, FifoHeld
      <4> QED BY <4>1, <4>2, FifoTyped DEF FifoType
    <3> QED BY <3>2, <3>3
  <2>2. dial' \in [Dials -> DialType]
    <3> SUFFICES ASSUME NEW e \in Dials PROVE dial'[e] \in DialType
      OBVIOUS
    <3>1. dial[e] \in DialType
      BY DEF DialType, Phases
    <3>2. \A b \in BOOLEAN : [dial[e] EXCEPT !.ready = b] \in DialType
      BY <3>1, DialTyped
    <3>3. (dial[e].phase # "opened") \in BOOLEAN
      OBVIOUS
    <3> QED BY <3>1, <3>2, <3>3
  <2>3. \A e \in Dials :
          /\ dial'[e].fd # Absent <=> dial'[e].phase \in {"opened", "waiting", "reading"}
          /\ dial'[e].fd # Absent => dial'[e].fd = dial'[e].found
          /\ dial'[e].phase = "waiting" => dial'[e].fd \in Fifos
    OBVIOUS
  <2>4. \A e \in Dials :
          dial'[e].phase \in {"waiting", "reading", "ended"} =>
            dial'[e].found \in Objects /\ TypeOf[dial'[e].found] \in Accepted
    OBVIOUS
  <2> QED BY <2>1, <2>2, <2>3, <2>4 DEF DialType, Phases, FifoType
<1>2. BannerAgrees'
  BY DEF BannerAgrees, ShownIsChecked, RefusedForCause
<1>3. RestsWhenQuiet'
  BY DEF RestsWhenQuiet
<1>4. NoInstantEnd'
  BY DEF NoInstantEnd, UnmetWait, Unmet
<1>5. ShownIsChecked'
  BY DEF ShownIsChecked
<1>6. RefusedForCause'
  BY DEF RefusedForCause
<1>7. EmptyUnlessOpen'
  BY DEF EmptyUnlessOpen
<1>8. UnmetWait'
  BY DEF UnmetWait, Unmet
<1> QED BY <1>1, <1>2, <1>3, <1>4, <1>5, <1>6, <1>7, <1>8 DEF IInv

\* open(2) fails.
LEMMA OpenFailsKeeps ==
  ASSUME IInv, NEW d \in Dials, OpenFails(d)
  PROVE  IInv'
<1> USE PathsAssumption
    DEF IInv, OnlyWhatIsNamed, TypeOK, Fifos, Types, Readers, OnFifo, Readable, Accepted,
        OpenFails, Become, Idle, Openable
<1>1. OnlyWhatIsNamed'
  <2>1. fifo' \in [Fifos -> FifoType]
    BY DEF FifoType
  <2>2. dial' \in [Dials -> DialType]
    BY DEF DialType, Phases
  <2>3. \A e \in Dials :
          /\ dial'[e].fd # Absent <=> dial'[e].phase \in {"opened", "waiting", "reading"}
          /\ dial'[e].fd # Absent => dial'[e].fd = dial'[e].found
          /\ dial'[e].phase = "waiting" => dial'[e].fd \in Fifos
    OBVIOUS
  <2>4. \A e \in Dials :
          dial'[e].phase \in {"waiting", "reading", "ended"} =>
            dial'[e].found \in Objects /\ TypeOf[dial'[e].found] \in Accepted
    OBVIOUS
  <2> QED BY <2>1, <2>2, <2>3, <2>4 DEF DialType, Phases, FifoType
<1>2. BannerAgrees'
  BY DEF BannerAgrees, ShownIsChecked, RefusedForCause
<1>3. RestsWhenQuiet'
  BY DEF RestsWhenQuiet
<1>4. NoInstantEnd'
  BY DEF NoInstantEnd, UnmetWait, Unmet
<1>5. ShownIsChecked'
  BY DEF ShownIsChecked
<1>6. RefusedForCause'
  BY DEF RefusedForCause
<1>7. EmptyUnlessOpen'
  BY DEF EmptyUnlessOpen
<1>8. UnmetWait'
  BY DEF UnmetWait, Unmet
<1> QED BY <1>1, <1>2, <1>3, <1>4, <1>5, <1>6, <1>7, <1>8 DEF IInv

\* open(2) succeeds: another dial may now share the FIFO.
LEMMA OpenKeeps ==
  ASSUME IInv, NEW d \in Dials, Open(d)
  PROVE  IInv'
<1> USE PathsAssumption DEF IInv, OnlyWhatIsNamed, TypeOK, Fifos, Types, Readers, OnFifo, Readable, Accepted
<1> DEFINE m == path \in Fifos /\ fifo[path].writer
           s == Readers(path) # {}
           new == [Idle EXCEPT !.phase = "opened", !.fd = path, !.found = path,
                               !.met = m, !.shared = s]
<1>1. path \in Objects /\ TypeOf[path] \notin {"symlink", "socket"}
  BY DEF Open, Openable
<1>2. /\ dial[d].fd = Absent /\ d \notin Readers(path)
      /\ UNCHANGED <<kind, path, fifo, shown>>
  <2>1. dial[d].fd = Absent
    BY DEF Open
  <2> QED BY <1>1, <2>1 DEF Open
<1>3. m \in BOOLEAN /\ s \in BOOLEAN
  OBVIOUS
<1>4. dial'[d] = new
  BY DEF Open
<1>5. \A e \in Dials \ {d} :
         dial'[e] = IF dial[e].fd = path THEN [dial[e] EXCEPT !.shared = TRUE] ELSE dial[e]
  BY DEF Open
<1>6. \A b, c \in BOOLEAN :
        [Idle EXCEPT !.phase = "opened", !.fd = path, !.found = path, !.met = b, !.shared = c]
          \in DialType
  BY <1>1 DEF Idle, DialType, Phases
<1>7. dial' \in [Dials -> DialType]
  <2>1. \A e \in Dials : dial[e] \in DialType /\ [dial[e] EXCEPT !.shared = TRUE] \in DialType
    <3>1. \A e \in Dials : dial[e] \in DialType
      BY DEF DialType, Phases
    <3> QED BY <3>1, DialTyped
  <2>2. new \in DialType
    BY <1>3, <1>6
  <2>3. dial' = [e \in Dials |-> dial'[e]]
    BY DEF Open
  <2> HIDE DEF new, s, m
  <2>4. \A e \in Dials : dial'[e] \in DialType
    BY <1>4, <1>5, <2>1, <2>2
  <2> QED BY <2>3, <2>4
<1>8. /\ dial'[d].phase = "opened" /\ dial'[d].fd = path /\ dial'[d].found = path
      /\ ~dial'[d].ready /\ dial'[d].why = "none"
      /\ dial'[d].met <=> m
      /\ dial'[d].shared <=> s
  <2> HIDE DEF s, m
  <2> QED BY <1>4, <1>3 DEF Idle
<1>9. \A e \in Dials \ {d} :
        /\ dial'[e].phase = dial[e].phase /\ dial'[e].fd = dial[e].fd
        /\ dial'[e].found = dial[e].found /\ dial'[e].ready = dial[e].ready
        /\ dial'[e].why = dial[e].why /\ dial'[e].met = dial[e].met
        /\ dial[e].shared => dial'[e].shared
        /\ dial[e].fd = path => dial'[e].shared
  <2>1. ASSUME NEW x \in DialType
        PROVE  LET y == [x EXCEPT !.shared = TRUE]
               IN  /\ y.phase = x.phase /\ y.fd = x.fd /\ y.found = x.found
                   /\ y.ready = x.ready /\ y.why = x.why /\ y.met = x.met /\ y.shared
    BY DEF DialType
  <2>2. \A e \in Dials : dial[e] \in DialType
    BY DEF DialType, Phases
  <2>3. ASSUME NEW e \in Dials \ {d}
        PROVE  \/ dial'[e] = dial[e] /\ dial[e].fd # path
               \/ dial'[e] = [dial[e] EXCEPT !.shared = TRUE]
    BY <1>5
  <2> SUFFICES ASSUME NEW e \in Dials \ {d}
               PROVE  /\ dial'[e].phase = dial[e].phase /\ dial'[e].fd = dial[e].fd
                      /\ dial'[e].found = dial[e].found /\ dial'[e].ready = dial[e].ready
                      /\ dial'[e].why = dial[e].why /\ dial'[e].met = dial[e].met
                      /\ dial[e].shared => dial'[e].shared
                      /\ dial[e].fd = path => dial'[e].shared
    OBVIOUS
  <2>4. CASE dial'[e] = dial[e] /\ dial[e].fd # path
    BY <2>4
  <2>5. CASE dial'[e] = [dial[e] EXCEPT !.shared = TRUE]
    BY <2>1, <2>2, <2>5
  <2> QED BY <2>3, <2>4, <2>5
<1> HIDE DEF new, s
<1>10. OnlyWhatIsNamed'
  BY <1>1, <1>2, <1>7, <1>8, <1>9 DEF DialType, Phases
<1>11. BannerAgrees'
  BY <1>2, <1>8, <1>9 DEF BannerAgrees
<1>12. RestsWhenQuiet'
  BY <1>2, <1>8, <1>9 DEF RestsWhenQuiet
<1>13. NoInstantEnd'
  BY <1>2, <1>8, <1>9 DEF NoInstantEnd
<1>14. ShownIsChecked'
  BY <1>2 DEF ShownIsChecked
<1>15. RefusedForCause'
  BY <1>2, <1>8, <1>9 DEF RefusedForCause
<1>16. EmptyUnlessOpen'
  BY <1>2, <1>8, <1>9 DEF EmptyUnlessOpen
<1>17. UnmetWait'
  <2>1. ASSUME NEW e \in Dials, dial'[e].fd \in Fifos, ~dial'[e].shared
        PROVE  {x \in Dials : dial'[x].fd = dial'[e].fd} = {e}
    <3>1. CASE e = d
      BY <1>2, <1>8, <1>9, <2>1, <3>1 DEF s
    <3>2. CASE e # d
      <4>1. dial[e].fd \in Fifos /\ ~dial[e].shared /\ dial[e].fd # path
        BY <1>9, <2>1, <3>2
      <4>2. Readers(dial[e].fd) = {e}
        BY <4>1 DEF UnmetWait
      <4> QED BY <1>8, <1>9, <3>2, <4>1, <4>2
    <3> QED BY <3>1, <3>2
  <2>2. ASSUME NEW e \in Dials, dial'[e].fd \in Fifos, ~dial'[e].shared, ~dial'[e].met
        PROVE  /\ ~fifo[dial'[e].fd].writer
               /\ fifo[dial'[e].fd].bytes = 0
               /\ dial'[e].phase \in {"opened", "waiting"}
               /\ ~dial'[e].ready
    <3>1. CASE e = d
      BY <1>8, <2>2, <3>1 DEF EmptyUnlessOpen, s
    <3>2. CASE e # d
      BY <1>9, <2>2, <3>2 DEF UnmetWait, Unmet
    <3> QED BY <3>1, <3>2
  <2>3. \A e \in Dials : dial'[e].phase = "opened" => ~dial'[e].ready
    BY <1>8, <1>9 DEF UnmetWait
  <2> QED BY <1>2, <2>1, <2>2, <2>3 DEF UnmetWait, Unmet
<1> QED BY <1>10, <1>11, <1>12, <1>13, <1>14, <1>15, <1>16, <1>17 DEF IInv

\* fstat finds a type the scheme does not name.
LEMMA StatRefusesKeeps ==
  ASSUME IInv, NEW d \in Dials, StatRefuses(d)
  PROVE  IInv'
<1> USE PathsAssumption
    DEF IInv, OnlyWhatIsNamed, TypeOK, Fifos, Types, Readers, OnFifo, Readable, Accepted,
        StatRefuses, Become, Stated, Refused, Idle, Closed
<1>1. OnlyWhatIsNamed'
  <2>1. fifo' \in [Fifos -> FifoType]
    BY DEF FifoType
  <2>2. dial' \in [Dials -> DialType]
    BY DEF DialType, Phases
  <2>3. \A e \in Dials :
          /\ dial'[e].fd # Absent <=> dial'[e].phase \in {"opened", "waiting", "reading"}
          /\ dial'[e].fd # Absent => dial'[e].fd = dial'[e].found
          /\ dial'[e].phase = "waiting" => dial'[e].fd \in Fifos
    OBVIOUS
  <2>4. \A e \in Dials :
          dial'[e].phase \in {"waiting", "reading", "ended"} =>
            dial'[e].found \in Objects /\ TypeOf[dial'[e].found] \in Accepted
    OBVIOUS
  <2> QED BY <2>1, <2>2, <2>3, <2>4 DEF DialType, Phases, FifoType
<1>2. BannerAgrees'
  BY DEF BannerAgrees, ShownIsChecked, RefusedForCause
<1>3. RestsWhenQuiet'
  BY DEF RestsWhenQuiet
<1>4. NoInstantEnd'
  BY DEF NoInstantEnd, UnmetWait, Unmet
<1>5. ShownIsChecked'
  BY DEF ShownIsChecked
<1>6. RefusedForCause'
  BY DEF RefusedForCause
<1>7. EmptyUnlessOpen'
  BY DEF EmptyUnlessOpen
<1>8. UnmetWait'
  BY DEF UnmetWait, Unmet
<1> QED BY <1>1, <1>2, <1>3, <1>4, <1>5, <1>6, <1>7, <1>8 DEF IInv

\* fstat finds a regular file.
LEMMA StatAcceptsKeeps ==
  ASSUME IInv, NEW d \in Dials, StatAccepts(d)
  PROVE  IInv'
<1> USE PathsAssumption
    DEF IInv, OnlyWhatIsNamed, TypeOK, Fifos, Types, Readers, OnFifo, Readable, Accepted,
        StatAccepts, Become, Stated
<1>1. OnlyWhatIsNamed'
  OBVIOUS
<1>2. BannerAgrees'
  BY DEF BannerAgrees, ShownIsChecked, RefusedForCause
<1>3. RestsWhenQuiet'
  BY DEF RestsWhenQuiet
<1>4. NoInstantEnd'
  BY DEF NoInstantEnd, UnmetWait, Unmet
<1>5. ShownIsChecked'
  BY DEF ShownIsChecked
<1>6. RefusedForCause'
  BY DEF RefusedForCause
<1>7. EmptyUnlessOpen'
  BY DEF EmptyUnlessOpen
<1>8. UnmetWait'
  BY DEF UnmetWait, Unmet
<1> QED BY <1>1, <1>2, <1>3, <1>4, <1>5, <1>6, <1>7, <1>8 DEF IInv

\* fstat finds a FIFO, and the reactor says how it stands.
LEMMA StatAcceptsFifoKeeps ==
  ASSUME IInv, NEW d \in Dials, StatAcceptsFifo(d)
  PROVE  IInv'
<1> USE PathsAssumption
    DEF IInv, OnlyWhatIsNamed, TypeOK, Fifos, Types, Readers, OnFifo, Readable, Accepted,
        StatAcceptsFifo, Become, Stated
<1>1. OnlyWhatIsNamed'
  <2>1. fifo' \in [Fifos -> FifoType]
    BY DEF FifoType
  <2>2. dial' \in [Dials -> DialType]
    <3>1. dial \in [Dials -> DialType]
      BY DEF DialType, Phases
    <3>2. Readable(dial[d].fd, dial[d].met) \in BOOLEAN
      OBVIOUS
    <3>3. [dial[d] EXCEPT !.phase = "waiting", !.ready = Readable(dial[d].fd, dial[d].met)] \in DialType
      BY <3>1, <3>2, DialTyped
    <3> QED BY <3>1, <3>3, BecomeTyped
  <2>3. \A e \in Dials :
          /\ dial'[e].fd # Absent <=> dial'[e].phase \in {"opened", "waiting", "reading"}
          /\ dial'[e].fd # Absent => dial'[e].fd = dial'[e].found
          /\ dial'[e].phase = "waiting" => dial'[e].fd \in Fifos
    OBVIOUS
  <2>4. \A e \in Dials :
          dial'[e].phase \in {"waiting", "reading", "ended"} =>
            dial'[e].found \in Objects /\ TypeOf[dial'[e].found] \in Accepted
    OBVIOUS
  <2> QED BY <2>1, <2>2, <2>3, <2>4 DEF DialType, Phases, FifoType
<1>2. BannerAgrees'
  BY DEF BannerAgrees, ShownIsChecked, RefusedForCause
<1>3. RestsWhenQuiet'
  <2> SUFFICES ASSUME NEW e \in Dials, dial'[e].phase \in {"waiting", "reading"},
                      dial'[e].fd \in Fifos, ~dial'[e].ready
               PROVE  ~(fifo[dial'[e].fd].bytes > 0
                        \/ (dial'[e].met /\ ~fifo[dial'[e].fd].writer))
    BY DEF RestsWhenQuiet
  <2>1. CASE e # d
    BY <2>1 DEF RestsWhenQuiet
  <2>2. CASE e = d
    <3>1. dial'[d].ready = Readable(dial[d].fd, dial[d].met)
      <4> DEFINE b == Readable(dial[d].fd, dial[d].met)
      <4>1. dial'[d] = [dial[d] EXCEPT !.phase = "waiting", !.ready = b]
        OBVIOUS
      <4> HIDE DEF b
      <4> QED BY <4>1
    <3>2. dial'[d].fd = dial[d].fd /\ dial'[d].met = dial[d].met
      OBVIOUS
    <3> QED BY <2>2, <3>1, <3>2
  <2> QED BY <2>1, <2>2
<1>4. NoInstantEnd'
  BY DEF NoInstantEnd, UnmetWait, Unmet
<1>5. ShownIsChecked'
  BY DEF ShownIsChecked
<1>6. RefusedForCause'
  BY DEF RefusedForCause
<1>7. EmptyUnlessOpen'
  BY DEF EmptyUnlessOpen
<1>8. UnmetWait'
  BY DEF UnmetWait, Unmet
<1> QED BY <1>1, <1>2, <1>3, <1>4, <1>5, <1>6, <1>7, <1>8 DEF IInv

\* The wait for a writer ends with one.
LEMMA WriterComesKeeps ==
  ASSUME IInv, NEW d \in Dials, WriterComes(d)
  PROVE  IInv'
<1> USE PathsAssumption
    DEF IInv, OnlyWhatIsNamed, TypeOK, Fifos, Types, Readers, OnFifo, Readable, Accepted,
        WriterComes, Become
<1>1. OnlyWhatIsNamed'
  OBVIOUS
<1>2. BannerAgrees'
  BY DEF BannerAgrees, ShownIsChecked, RefusedForCause
<1>3. RestsWhenQuiet'
  BY DEF RestsWhenQuiet
<1>4. NoInstantEnd'
  BY DEF NoInstantEnd, UnmetWait, Unmet
<1>5. ShownIsChecked'
  BY DEF ShownIsChecked
<1>6. RefusedForCause'
  BY DEF RefusedForCause
<1>7. EmptyUnlessOpen'
  BY DEF EmptyUnlessOpen
<1>8. UnmetWait'
  BY DEF UnmetWait, Unmet
<1> QED BY <1>1, <1>2, <1>3, <1>4, <1>5, <1>6, <1>7, <1>8 DEF IInv

\* The wait for a writer runs out.
LEMMA WriterLateKeeps ==
  ASSUME IInv, NEW d \in Dials, WriterLate(d)
  PROVE  IInv'
<1> USE PathsAssumption
    DEF IInv, OnlyWhatIsNamed, TypeOK, Fifos, Types, Readers, OnFifo, Readable, Accepted,
        WriterLate, Become, Refused, Idle, Closed
<1>1. OnlyWhatIsNamed'
  <2>1. fifo' \in [Fifos -> FifoType]
    BY DEF FifoType
  <2>2. dial' \in [Dials -> DialType]
    BY DEF DialType, Phases
  <2>3. \A e \in Dials :
          /\ dial'[e].fd # Absent <=> dial'[e].phase \in {"opened", "waiting", "reading"}
          /\ dial'[e].fd # Absent => dial'[e].fd = dial'[e].found
          /\ dial'[e].phase = "waiting" => dial'[e].fd \in Fifos
    OBVIOUS
  <2>4. \A e \in Dials :
          dial'[e].phase \in {"waiting", "reading", "ended"} =>
            dial'[e].found \in Objects /\ TypeOf[dial'[e].found] \in Accepted
    OBVIOUS
  <2> QED BY <2>1, <2>2, <2>3, <2>4 DEF DialType, Phases, FifoType
<1>2. BannerAgrees'
  BY DEF BannerAgrees, ShownIsChecked, RefusedForCause
<1>3. RestsWhenQuiet'
  BY DEF RestsWhenQuiet
<1>4. NoInstantEnd'
  BY DEF NoInstantEnd, UnmetWait, Unmet
<1>5. ShownIsChecked'
  BY DEF ShownIsChecked
<1>6. RefusedForCause'
  BY DEF RefusedForCause
<1>7. EmptyUnlessOpen'
  BY DEF EmptyUnlessOpen
<1>8. UnmetWait'
  BY DEF UnmetWait, Unmet
<1> QED BY <1>1, <1>2, <1>3, <1>4, <1>5, <1>6, <1>7, <1>8 DEF IInv

\* A read gets a byte of the FIFO.
LEMMA ReadBytesKeeps ==
  ASSUME IInv, NEW d \in Dials, ReadBytes(d)
  PROVE  IInv'
<1> USE PathsAssumption
    DEF IInv, OnlyWhatIsNamed, TypeOK, Fifos, Types, Readers, OnFifo, Readable, Accepted,
        ReadBytes, Reads
<1>1. OnlyWhatIsNamed'
  OBVIOUS
<1>2. BannerAgrees'
  BY DEF BannerAgrees, ShownIsChecked, RefusedForCause
<1>3. RestsWhenQuiet'
  BY DEF RestsWhenQuiet
<1>4. NoInstantEnd'
  BY DEF NoInstantEnd, UnmetWait, Unmet
<1>5. ShownIsChecked'
  BY DEF ShownIsChecked
<1>6. RefusedForCause'
  BY DEF RefusedForCause
<1>7. EmptyUnlessOpen'
  BY DEF EmptyUnlessOpen
<1>8. UnmetWait'
  BY DEF UnmetWait, Unmet
<1> QED BY <1>1, <1>2, <1>3, <1>4, <1>5, <1>6, <1>7, <1>8 DEF IInv

\* A read finds nothing, with a writer still there.
LEMMA ReadBlocksKeeps ==
  ASSUME IInv, NEW d \in Dials, ReadBlocks(d)
  PROVE  IInv'
<1> USE PathsAssumption
    DEF IInv, OnlyWhatIsNamed, TypeOK, Fifos, Types, Readers, OnFifo, Readable, Accepted,
        ReadBlocks, Reads, Become
<1>1. OnlyWhatIsNamed'
  <2>1. fifo' \in [Fifos -> FifoType]
    BY DEF FifoType
  <2>2. dial' \in [Dials -> DialType]
    <3>1. dial \in [Dials -> DialType]
      BY DEF DialType, Phases
    <3>2. [dial[d] EXCEPT !.ready = FALSE] \in DialType
      BY <3>1, DialTyped
    <3> QED BY <3>1, <3>2, BecomeTyped
  <2>3. \A e \in Dials :
          /\ dial'[e].fd # Absent <=> dial'[e].phase \in {"opened", "waiting", "reading"}
          /\ dial'[e].fd # Absent => dial'[e].fd = dial'[e].found
          /\ dial'[e].phase = "waiting" => dial'[e].fd \in Fifos
    OBVIOUS
  <2>4. \A e \in Dials :
          dial'[e].phase \in {"waiting", "reading", "ended"} =>
            dial'[e].found \in Objects /\ TypeOf[dial'[e].found] \in Accepted
    OBVIOUS
  <2> QED BY <2>1, <2>2, <2>3, <2>4 DEF DialType, Phases, FifoType
<1>2. BannerAgrees'
  BY DEF BannerAgrees, ShownIsChecked, RefusedForCause
<1>3. RestsWhenQuiet'
  BY DEF RestsWhenQuiet
<1>4. NoInstantEnd'
  BY DEF NoInstantEnd, UnmetWait, Unmet
<1>5. ShownIsChecked'
  BY DEF ShownIsChecked
<1>6. RefusedForCause'
  BY DEF RefusedForCause
<1>7. EmptyUnlessOpen'
  BY DEF EmptyUnlessOpen
<1>8. UnmetWait'
  BY DEF UnmetWait, Unmet
<1> QED BY <1>1, <1>2, <1>3, <1>4, <1>5, <1>6, <1>7, <1>8 DEF IInv

\* A read finds the end of the FIFO.
LEMMA ReadEndsKeeps ==
  ASSUME IInv, NEW d \in Dials, ReadEnds(d)
  PROVE  IInv'
<1> USE PathsAssumption
    DEF IInv, OnlyWhatIsNamed, TypeOK, Fifos, Types, Readers, OnFifo, Readable, Accepted,
        ReadEnds, Reads, Become, Ended, Closed
<1>1. OnlyWhatIsNamed'
  <2>1. fifo' \in [Fifos -> FifoType]
    BY DEF FifoType
  <2>2. dial' \in [Dials -> DialType]
    <3>1. dial \in [Dials -> DialType]
      BY DEF DialType, Phases
    <3>2. Ended(d) \in DialType
      BY <3>1, DialTyped DEF Ended
    <3> QED BY <3>1, <3>2, BecomeTyped
  <2>3. \A e \in Dials :
          /\ dial'[e].fd # Absent <=> dial'[e].phase \in {"opened", "waiting", "reading"}
          /\ dial'[e].fd # Absent => dial'[e].fd = dial'[e].found
          /\ dial'[e].phase = "waiting" => dial'[e].fd \in Fifos
    OBVIOUS
  <2>4. \A e \in Dials :
          dial'[e].phase \in {"waiting", "reading", "ended"} =>
            dial'[e].found \in Objects /\ TypeOf[dial'[e].found] \in Accepted
    OBVIOUS
  <2> QED BY <2>1, <2>2, <2>3, <2>4 DEF DialType, Phases, FifoType
<1>2. BannerAgrees'
  BY DEF BannerAgrees, ShownIsChecked, RefusedForCause
<1>3. RestsWhenQuiet'
  BY DEF RestsWhenQuiet
<1>4. NoInstantEnd'
  BY DEF NoInstantEnd, UnmetWait, Unmet
<1>5. ShownIsChecked'
  BY DEF ShownIsChecked
<1>6. RefusedForCause'
  BY DEF RefusedForCause
<1>7. EmptyUnlessOpen'
  BY DEF EmptyUnlessOpen
<1>8. UnmetWait'
  BY DEF UnmetWait, Unmet
<1> QED BY <1>1, <1>2, <1>3, <1>4, <1>5, <1>6, <1>7, <1>8 DEF IInv

\* A read of a regular file.
LEMMA ReadFileKeeps ==
  ASSUME IInv, NEW d \in Dials, ReadFile(d)
  PROVE  IInv'
<1> USE PathsAssumption
    DEF IInv, OnlyWhatIsNamed, TypeOK, Fifos, Types, Readers, OnFifo, Readable, Accepted,
        ReadFile, Reads, Become, Ended
<1>1. OnlyWhatIsNamed'
  <2>1. fifo' \in [Fifos -> FifoType]
    BY DEF FifoType
  <2>2. dial' \in [Dials -> DialType]
    <3>1. dial \in [Dials -> DialType]
      BY DEF DialType, Phases
    <3>2. Ended(d) \in DialType
      BY <3>1, DialTyped DEF Ended
    <3>3. [dial[d] EXCEPT !.read = @ + 1] \in DialType
      BY <3>1, DialTyped
    <3> QED BY <3>1, <3>2, <3>3, BecomeTyped
  <2>3. \A e \in Dials :
          /\ dial'[e].fd # Absent <=> dial'[e].phase \in {"opened", "waiting", "reading"}
          /\ dial'[e].fd # Absent => dial'[e].fd = dial'[e].found
          /\ dial'[e].phase = "waiting" => dial'[e].fd \in Fifos
    OBVIOUS
  <2>4. \A e \in Dials :
          dial'[e].phase \in {"waiting", "reading", "ended"} =>
            dial'[e].found \in Objects /\ TypeOf[dial'[e].found] \in Accepted
    OBVIOUS
  <2> QED BY <2>1, <2>2, <2>3, <2>4 DEF DialType, Phases, FifoType
<1>2. BannerAgrees'
  BY DEF BannerAgrees, ShownIsChecked, RefusedForCause
<1>3. RestsWhenQuiet'
  BY DEF RestsWhenQuiet
<1>4. NoInstantEnd'
  BY DEF NoInstantEnd, UnmetWait, Unmet
<1>5. ShownIsChecked'
  BY DEF ShownIsChecked
<1>6. RefusedForCause'
  BY DEF RefusedForCause
<1>7. EmptyUnlessOpen'
  BY DEF EmptyUnlessOpen
<1>8. UnmetWait'
  BY DEF UnmetWait, Unmet
<1> QED BY <1>1, <1>2, <1>3, <1>4, <1>5, <1>6, <1>7, <1>8 DEF IInv

\* The stream is dropped.
LEMMA DropKeeps ==
  ASSUME IInv, NEW d \in Dials, Drop(d)
  PROVE  IInv'
<1> USE PathsAssumption
    DEF IInv, OnlyWhatIsNamed, TypeOK, Fifos, Types, Readers, OnFifo, Readable, Accepted,
        Drop, Become, Idle, Closed
<1>1. OnlyWhatIsNamed'
  OBVIOUS
<1>2. BannerAgrees'
  BY DEF BannerAgrees, ShownIsChecked, RefusedForCause
<1>3. RestsWhenQuiet'
  BY DEF RestsWhenQuiet
<1>4. NoInstantEnd'
  BY DEF NoInstantEnd, UnmetWait, Unmet
<1>5. ShownIsChecked'
  BY DEF ShownIsChecked
<1>6. RefusedForCause'
  BY DEF RefusedForCause
<1>7. EmptyUnlessOpen'
  BY DEF EmptyUnlessOpen
<1>8. UnmetWait'
  BY DEF UnmetWait, Unmet
<1> QED BY <1>1, <1>2, <1>3, <1>4, <1>5, <1>6, <1>7, <1>8 DEF IInv

LEMMA NextIInv == IInv /\ [Next]_vars => IInv'
<1> SUFFICES ASSUME IInv, [Next]_vars PROVE IInv'
  OBVIOUS
<1>1. CASE UNCHANGED vars
  BY <1>1 DEF vars, IInv, OnlyWhatIsNamed, TypeOK, BannerAgrees, RestsWhenQuiet, NoInstantEnd,
              ShownIsChecked, RefusedForCause, EmptyUnlessOpen, UnmetWait, Unmet,
              Fifos, Readers, OnFifo, Readable, Accepted
<1>2. CASE Replace \/ Serve
  BY <1>2, ReplaceKeeps, ServeKeeps
<1>3. ASSUME NEW o \in Fifos, Writer(o)
      PROVE  IInv'
  BY <1>3, WriterOpensKeeps, WriterWritesKeeps, WriterLeavesKeeps DEF Writer
<1>4. ASSUME NEW d \in Dials, Opening(d)
      PROVE  IInv'
  BY <1>4, OpenFailsKeeps, OpenKeeps, StatRefusesKeeps, StatAcceptsKeeps, StatAcceptsFifoKeeps
     DEF Opening
<1>5. ASSUME NEW d \in Dials, Waiting(d)
      PROVE  IInv'
  BY <1>5, WriterComesKeeps, WriterLateKeeps DEF Waiting
<1>6. ASSUME NEW d \in Dials, Read(d)
      PROVE  IInv'
  BY <1>6, ReadBytesKeeps, ReadBlocksKeeps, ReadEndsKeeps, ReadFileKeeps DEF Read
<1>7. ASSUME NEW d \in Dials, Drop(d)
      PROVE  IInv'
  BY <1>7, DropKeeps
<1> QED BY <1>1, <1>2, <1>3, <1>4, <1>5, <1>6, <1>7 DEF Next
-----------------------------------------------------------------------------
(* The theorems, for any objects at the path and any number of dials *)

(***************************************************************************)
(* The properties and what they rest on: the verdict the node reached, why *)
(* a dial was refused, and what a dial that met no writer has before it.   *)
(***************************************************************************)
THEOREM PathsInvariant == Spec => []IInv
<1> QED BY InitIInv, NextIInv, PTL DEF Spec

(***************************************************************************)
(* A dial reads nothing but a file or a FIFO its scheme names, whatever is *)
(* swapped in at the path between its open and its read.                   *)
(***************************************************************************)
THEOREM OnlyNamedAreRead == Spec => []OnlyWhatIsNamed
<1>1. IInv => OnlyWhatIsNamed
  BY DEF IInv
<1> QED BY <1>1, PathsInvariant, PTL

(***************************************************************************)
(* check_open_path and the open of a dial reach the same verdict on the    *)
(* same object.                                                            *)
(***************************************************************************)
THEOREM BannersAgree == Spec => []BannerAgrees
<1>1. IInv => BannerAgrees
  BY DEF IInv
<1> QED BY <1>1, PathsInvariant, PTL

(***************************************************************************)
(* No reader rests with bytes, or the end, unread: NonblockingReader       *)
(* clears readiness on EAGAIN alone.                                       *)
(***************************************************************************)
THEOREM ReadersRestWhenQuiet == Spec => []RestsWhenQuiet
<1>1. IInv => RestsWhenQuiet
  BY DEF IInv
<1> QED BY <1>1, PathsInvariant, PTL

(***************************************************************************)
(* A dial alone with its FIFO does not end before it met a writer.         *)
(***************************************************************************)
THEOREM NoEndIsInstant == Spec => []NoInstantEnd
<1>1. IInv => NoInstantEnd
  BY DEF IInv
<1> QED BY <1>1, PathsInvariant, PTL
=============================================================================
