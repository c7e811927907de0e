-------------------------------- MODULE Paths --------------------------------
(***************************************************************************)
(* A `file:` or `fifo:` source (src/raw_stream.rs and                      *)
(* src/raw_stream/guarded.rs): the guarded open of every dial, the bounded *)
(* wait for a FIFO's writer, the readers, and the check made of the path   *)
(* when the node starts to serve it, while the operator replaces what is   *)
(* at the path between any two system calls.                               *)
(*                                                                         *)
(* The kernel's FIFO is external: its bytes, kept while any descriptor is  *)
(* open; its end, which a read reports whenever no writer is there; and    *)
(* its readiness, reported once, when something happens (AsyncFd).         *)
(***************************************************************************)
EXTENDS Naturals

CONSTANTS
  Dials,
  Objects,     \* what the operator may put at the path
  TypeOf,      \* "regular", "fifo", "symlink", "device", "directory", "socket"
  TargetOf,    \* the type a path resolves to, a symlink followed
  Absent,      \* nothing at the path
  FileLength,  \* how long the regular files are
  Room         \* what a FIFO's buffer holds

Types == {"regular", "fifo", "symlink", "device", "directory", "socket"}

ASSUME PathsAssumption ==
  /\ Absent \notin Objects
  /\ TypeOf \in [Objects -> Types]
  /\ TargetOf \in [Objects -> Types]
  /\ FileLength \in Nat /\ Room \in Nat

VARIABLES
  kind,    \* Kind: what the operator's scheme accepts; fixed
  path,    \* what is at the path
  fifo,    \* each FIFO: how much is unread, whether a writer has it open
  dial,    \* each dial: where its open or its read is
  shown    \* the object the node last checked before it served, and its verdict

vars == <<kind, path, fifo, dial, shown>>

Fifos == {o \in Objects : TypeOf[o] = "fifo"}

(***************************************************************************)
(* `fd` is the object behind the dial's descriptor, Absent for none;       *)
(* `ready` is the readiness AsyncFd remembers.  History: the object it     *)
(* found, why it was refused, whether a writer had the FIFO open since the *)
(* dial opened it, whether another dial had it open too.                   *)
(***************************************************************************)
Idle == [phase |-> "idle", fd |-> Absent, ready |-> FALSE, read |-> 0,
         found |-> Absent, why |-> "none", met |-> FALSE, shared |-> FALSE]

Init ==
  /\ kind \in {"file", "fifo"}
  /\ path \in Objects \cup {Absent}
  /\ fifo = [o \in Fifos |-> [bytes |-> 0, writer |-> FALSE]]
  /\ dial = [d \in Dials |-> Idle]
  /\ shown = [found |-> Absent, served |-> FALSE]

Accepted == IF kind = "file" THEN {"regular", "fifo"} ELSE {"fifo"}

Readers(o) == {d \in Dials : dial[d].fd = o}
OnFifo(d)  == dial[d].fd \in Fifos

\* What poll(2) says of a dial's FIFO: bytes, or writers that came and went.
Readable(o, met) == fifo[o].bytes > 0 \/ (met /\ ~fifo[o].writer)

Become(d, new) == dial' = [dial EXCEPT ![d] = new]

\* A descriptor is closed; a FIFO nobody has open keeps nothing.
Closed(d) ==
  [o \in Fifos |->
     IF Readers(o) = {d} /\ ~fifo[o].writer THEN [fifo[o] EXCEPT !.bytes = 0]
                                            ELSE fifo[o]]

\* The reactor hears of FIFO `o`, and what `Event` says of each dial on it.
Heard(o, Event(_)) ==
  [d \in Dials |-> IF dial[d].fd = o THEN Event(dial[d]) ELSE dial[d]]
-----------------------------------------------------------------------------
(* The operator and the FIFO's writer *)

Replace ==
  /\ path' \in Objects \cup {Absent}
  /\ path' # path
  /\ UNCHANGED <<kind, fifo, dial, shown>>

WriterOpens(o) ==
  /\ path = o /\ ~fifo[o].writer
  /\ fifo' = [fifo EXCEPT ![o].writer = TRUE]
  /\ dial' = Heard(o, LAMBDA x : [x EXCEPT !.met = TRUE])
  /\ UNCHANGED <<kind, path, shown>>

WriterWrites(o) ==
  /\ fifo[o].writer /\ fifo[o].bytes < Room
  /\ Readers(o) # {}
  /\ fifo' = [fifo EXCEPT ![o].bytes = @ + 1]
  /\ dial' = Heard(o, LAMBDA x : [x EXCEPT !.ready = x.phase # "opened"])
  /\ UNCHANGED <<kind, path, shown>>

WriterLeaves(o) ==
  /\ fifo[o].writer
  /\ fifo' = [fifo EXCEPT ![o].writer = FALSE,
                          ![o].bytes = IF Readers(o) = {} THEN 0 ELSE @]
  /\ dial' = Heard(o, LAMBDA x : [x EXCEPT !.ready = x.phase # "opened"])
  /\ UNCHANGED <<kind, path, shown>>
-----------------------------------------------------------------------------
(* The node *)

\* Mutant: the check follows a symlink.
CheckedFollowing == path = Absent \/ TargetOf[path] \in Accepted

\* check_open_path, made of an entry opened to strangers: lstat, and nothing
\* there is allowed.
Checked == path = Absent \/ TypeOf[path] \in Accepted

Serve ==
  /\ shown' = [found |-> path, served |-> Checked]
  /\ UNCHANGED <<kind, path, fifo, dial>>

Refused(d, why) == [Idle EXCEPT !.phase = "refused", !.found = dial[d].found, !.why = why]

\* open(2): a symlink is ELOOP under O_NOFOLLOW, a socket is ENXIO.
Openable == path # Absent /\ TypeOf[path] \notin {"symlink", "socket"}

OpenFails(d) ==
  /\ dial[d].phase = "idle"
  /\ ~Openable
  /\ Become(d, [Idle EXCEPT !.phase = "refused", !.found = path, !.why = "open"])
  /\ UNCHANGED <<kind, path, fifo, shown>>

Open(d) ==
  /\ dial[d].phase = "idle"
  /\ Openable
  /\ dial' = [e \in Dials |->
                CASE e = d -> [Idle EXCEPT !.phase = "opened", !.fd = path, !.found = path,
                                 !.met = path \in Fifos /\ fifo[path].writer,
                                 !.shared = Readers(path) # {}]
                  [] e \in Readers(path) \ {d} -> [dial[e] EXCEPT !.shared = TRUE]
                  [] OTHER -> dial[e]]
  /\ UNCHANGED <<kind, path, fifo, shown>>

\* Mutant: the path is asked again, not the descriptor.
StatedPath(d) == IF path = Absent THEN "device" ELSE TypeOf[path]

\* fstat of the descriptor that will be read.
Stated(d) == TypeOf[dial[d].fd]

StatRefuses(d) ==
  /\ dial[d].phase = "opened"
  /\ Stated(d) \notin Accepted
  /\ Become(d, Refused(d, "type"))
  /\ fifo' = Closed(d)
  /\ UNCHANGED <<kind, path, shown>>

StatAccepts(d) ==
  /\ dial[d].phase = "opened"
  /\ Stated(d) \in Accepted \ {"fifo"}
  /\ Become(d, [dial[d] EXCEPT !.phase = "reading"])
  /\ UNCHANGED <<kind, path, fifo, shown>>

\* Mutant: a FIFO is handed back with no wait.
StatAcceptsFifoAtOnce(d) ==
  /\ dial[d].phase = "opened"
  /\ Stated(d) = "fifo"
  /\ OnFifo(d)
  /\ Become(d, [dial[d] EXCEPT !.phase = "reading", !.ready = TRUE])
  /\ UNCHANGED <<kind, path, fifo, shown>>

\* A FIFO is registered with the reactor, which reports how it stands.
StatAcceptsFifo(d) ==
  /\ dial[d].phase = "opened"
  /\ Stated(d) = "fifo"
  /\ OnFifo(d)
  /\ Become(d, [dial[d] EXCEPT !.phase = "waiting",
                               !.ready = Readable(dial[d].fd, dial[d].met)])
  /\ UNCHANGED <<kind, path, fifo, shown>>

\* Mutant: the wait uses up the readiness it waited for.
WriterComesOnce(d) ==
  /\ dial[d].phase = "waiting" /\ dial[d].ready
  /\ Become(d, [dial[d] EXCEPT !.phase = "reading", !.ready = FALSE])
  /\ UNCHANGED <<kind, path, fifo, shown>>

\* NonblockingReader::readable, whose readiness is retained.
WriterComes(d) ==
  /\ dial[d].phase = "waiting" /\ dial[d].ready
  /\ Become(d, [dial[d] EXCEPT !.phase = "reading"])
  /\ UNCHANGED <<kind, path, fifo, shown>>

\* RAW_STREAM_OPEN_TIMEOUT, which loses the tie to the writer.
WriterLate(d) ==
  /\ dial[d].phase = "waiting" /\ ~dial[d].ready
  /\ Become(d, Refused(d, "late"))
  /\ fifo' = Closed(d)
  /\ UNCHANGED <<kind, path, shown>>

Reads(d) == dial[d].phase = "reading"

\* Mutant: readiness is cleared by a read that got something.
ReadBytesClearing(d) ==
  /\ Reads(d) /\ OnFifo(d) /\ dial[d].ready
  /\ fifo[dial[d].fd].bytes > 0
  /\ Become(d, [dial[d] EXCEPT !.ready = FALSE])
  /\ fifo' = [fifo EXCEPT ![dial[d].fd].bytes = @ - 1]
  /\ UNCHANGED <<kind, path, shown>>

\* NonblockingReader::poll_read: bytes; EAGAIN, which alone clears the
\* readiness; or the end.
ReadBytes(d) ==
  /\ Reads(d) /\ OnFifo(d) /\ dial[d].ready
  /\ fifo[dial[d].fd].bytes > 0
  /\ fifo' = [fifo EXCEPT ![dial[d].fd].bytes = @ - 1]
  /\ UNCHANGED <<kind, path, dial, shown>>

ReadBlocks(d) ==
  /\ Reads(d) /\ OnFifo(d) /\ dial[d].ready
  /\ fifo[dial[d].fd].bytes = 0 /\ fifo[dial[d].fd].writer
  /\ Become(d, [dial[d] EXCEPT !.ready = FALSE])
  /\ UNCHANGED <<kind, path, fifo, shown>>

Ended(d) == [dial[d] EXCEPT !.phase = "ended", !.fd = Absent, !.ready = FALSE]

ReadEnds(d) ==
  /\ Reads(d) /\ OnFifo(d) /\ dial[d].ready
  /\ fifo[dial[d].fd].bytes = 0 /\ ~fifo[dial[d].fd].writer
  /\ Become(d, Ended(d))
  /\ fifo' = Closed(d)
  /\ UNCHANGED <<kind, path, shown>>

\* RegularFileReader::poll_read, which never waits; a device, were one
\* read, would give bytes too.
ReadFile(d) ==
  /\ Reads(d) /\ ~OnFifo(d)
  /\ Become(d, IF dial[d].read < FileLength
               THEN [dial[d] EXCEPT !.read = @ + 1]
               ELSE Ended(d))
  /\ UNCHANGED <<kind, path, fifo, shown>>

\* The stream is dropped wherever it is, or is over and dialed again.
Drop(d) ==
  /\ dial[d].phase # "idle"
  /\ Become(d, Idle)
  /\ fifo' = Closed(d)
  /\ UNCHANGED <<kind, path, shown>>
-----------------------------------------------------------------------------
Read(d) == ReadBytes(d) \/ ReadBlocks(d) \/ ReadEnds(d) \/ ReadFile(d)

Opening(d) ==
  OpenFails(d) \/ Open(d) \/ StatRefuses(d) \/ StatAccepts(d) \/ StatAcceptsFifo(d)

Waiting(d) == WriterComes(d) \/ WriterLate(d)

Writer(o) == WriterOpens(o) \/ WriterWrites(o) \/ WriterLeaves(o)

Next ==
  \/ Replace \/ Serve
  \/ \E o \in Fifos : Writer(o)
  \/ \E d \in Dials : Opening(d) \/ Waiting(d) \/ Read(d) \/ Drop(d)

Spec == Init /\ [][Next]_vars

\* The task that opens and reads is polled, and the timer of its wait fires.
FairSpec ==
  /\ Spec
  /\ \A d \in Dials :
       WF_vars(Waiting(d)) /\ WF_vars(Read(d))
-----------------------------------------------------------------------------
(* Properties *)

(***************************************************************************)
(* The type invariant, with what a dial's phase says of its descriptor: it *)
(* has one while it opens, waits and reads, and the object it read from is *)
(* the one it found at the path.                                           *)
(***************************************************************************)
TypeOK ==
  /\ kind \in {"file", "fifo"}
  /\ path \in Objects \cup {Absent}
  /\ fifo \in [Fifos -> [bytes : Nat, writer : BOOLEAN]]
  /\ dial \in [Dials -> [phase : {"idle", "opened", "waiting", "reading", "ended", "refused"},
                         fd : Objects \cup {Absent}, ready : BOOLEAN, read : Nat,
                         found : Objects \cup {Absent}, met : BOOLEAN, shared : BOOLEAN,
                         why : {"none", "open", "type", "late"}]]
  /\ shown \in [found : Objects \cup {Absent}, served : BOOLEAN]
  /\ \A d \in Dials :
       /\ dial[d].fd # Absent <=> dial[d].phase \in {"opened", "waiting", "reading"}
       /\ dial[d].fd # Absent => dial[d].fd = dial[d].found
       /\ dial[d].phase = "waiting" => OnFifo(d)

(***************************************************************************)
(* Only what the scheme names is ever read: whatever the operator swaps    *)
(* in while a dial opens, the object its bytes come from is a regular file *)
(* or a FIFO (a FIFO alone for `fifo:`), was the path's own last           *)
(* component, and never a device, a directory, a socket or a symlink.      *)
(* What a dial keeps stays within TypeOK.                                  *)
(***************************************************************************)
OnlyWhatIsNamed ==
  /\ TypeOK
  /\ \A d \in Dials :
       dial[d].phase \in {"waiting", "reading", "ended"} =>
         dial[d].found \in Objects /\ TypeOf[dial[d].found] \in Accepted

(***************************************************************************)
(* The banner and the guard agree: an object the node checked and served   *)
(* is never refused a dial for what it is, and one it would not serve is   *)
(* never opened ("the serve-time twin of that type guard").  A FIFO with   *)
(* no writer may still be refused.                                         *)
(***************************************************************************)
BannerAgrees ==
  \A d \in Dials :
    shown.found # Absent /\ dial[d].found = shown.found =>
      IF shown.served THEN dial[d].why \notin {"open", "type"}
                      ELSE dial[d].phase \notin {"waiting", "reading", "ended"}

(***************************************************************************)
(* A reader rests only while there is nothing to read: the reactor reports *)
(* a change once, so readiness dropped with bytes, or the end, still there *)
(* would park the dial for good.                                           *)
(***************************************************************************)
RestsWhenQuiet ==
  \A d \in Dials :
    dial[d].phase \in {"waiting", "reading"} /\ OnFifo(d) /\ ~dial[d].ready =>
      ~Readable(dial[d].fd, dial[d].met)

(***************************************************************************)
(* The peer of a `fifo:` gets "real bytes, not the instant EOF a           *)
(* writer-less nonblocking FIFO would read as": a stream that ends has met *)
(* a writer since it was opened, unless it shared the FIFO with another    *)
(* dial, "effectively single-consumer-at-a-time" (Source::Path).           *)
(***************************************************************************)
NoInstantEnd ==
  \A d \in Dials :
    dial[d].phase = "ended" /\ dial[d].found \in Fifos =>
      dial[d].met \/ dial[d].shared

(***************************************************************************)
(* No dial hangs: a wait for a writer ends within its bound, and a FIFO    *)
(* whose writer left is read to its end.                                   *)
(***************************************************************************)
DialsSettle ==
  \A d \in Dials :
    /\ dial[d].phase = "waiting" ~> dial[d].phase # "waiting"
    /\ Reads(d) ~> ~Reads(d) \/ (OnFifo(d) /\ fifo[dial[d].fd].writer)
=============================================================================
