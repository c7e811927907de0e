-------------------------------- MODULE Stdio --------------------------------
(***************************************************************************)
(* The stdio bridge: Connector::pipe_stdio of src/tunnel/connector.rs and  *)
(* pipe_stdio_bridge and stdin_chunks of src/lib.rs.  The bridges of a     *)
(* process share one thread that reads stdin and hands it over in chunks;  *)
(* each pumps them to its own peer, and its peer's output to stdout.       *)
(*                                                                         *)
(* A chunk, and a piece of a peer's output, is its place in its stream,    *)
(* counted from 1; chunk 0 is a read error.                                *)
(***************************************************************************)
EXTENDS Naturals, Sequences, SequencesExt

CONSTANTS
  Bridges,    \* the calls of pipe_stdio, each admitted by its peer
  \* Bounds:
  MaxChunks,  \* how many chunks stdin gives
  MaxSaid     \* how many pieces a peer says

ASSUME StdioAssumption == MaxChunks \in Nat /\ MaxSaid \in Nat

VARIABLES
  stdin,     \* fd 0: how many chunks were written to it, and its end
  spent,     \* history: the chunks that bridges held when they ended
  thread,    \* the stdin thread: where it is, how many chunks it has read
  channel,   \* the chunk in flight, in a channel of capacity 1
  lock,      \* the bridges at the channel's mutex, the holder first
  bridge,    \* each call of pipe_stdio_bridge
  peer       \* each bridge's stream, as its peer uses it

stdioVars == <<stdin, spent, thread, channel, lock, bridge, peer>>

(***************************************************************************)
(* A bridge holds the chunk it is writing (hand) and what its copy read    *)
(* from the peer and stdout has not taken (held).  History: the chunks it  *)
(* wrote (got), and the pieces stdout took (shown).                        *)
(***************************************************************************)
Fresh == [phase |-> "idle", hand |-> <<>>, held |-> <<>>, read |-> 0,
          got |-> <<>>, shown |-> <<>>]

Quiet == [said |-> 0, end |-> "open"]

StdioInit ==
  /\ stdin = [typed |-> 0, end |-> "open"]
  /\ spent = {}
  /\ thread = [at |-> "absent", taken |-> 0]
  /\ channel = <<>>
  /\ lock = <<>>
  /\ bridge = [b \in Bridges |-> Fresh]
  /\ peer = [b \in Bridges |-> Quiet]

Error == 0
Pumps(b) == bridge[b].phase = "pumping"
Copies(b) == bridge[b].phase \in {"pumping", "draining"}
-----------------------------------------------------------------------------
(* The user and the peers *)

Type ==
  /\ stdin.end = "open" /\ stdin.typed < MaxChunks
  /\ stdin' = [stdin EXCEPT !.typed = @ + 1]
  /\ UNCHANGED <<spent, thread, channel, lock, bridge, peer>>

CloseStdin ==
  /\ stdin.end = "open"
  /\ \E end \in {"eof", "broken"} : stdin' = [stdin EXCEPT !.end = end]
  /\ UNCHANGED <<spent, thread, channel, lock, bridge, peer>>

Reached(b) == bridge[b].phase \in {"waiting", "pumping", "draining"}

PeerSays(b) ==
  /\ Reached(b)
  /\ peer[b].end = "open" /\ peer[b].said < MaxSaid
  /\ peer' = [peer EXCEPT ![b].said = @ + 1]
  /\ UNCHANGED <<spent, stdin, thread, channel, lock, bridge>>

PeerCloses(b) ==
  /\ Reached(b)
  /\ peer[b].end = "open"
  /\ \E end \in {"closed", "lost"} : peer' = [peer EXCEPT ![b].end = end]
  /\ UNCHANGED <<spent, stdin, thread, channel, lock, bridge>>
-----------------------------------------------------------------------------
(* The stdin thread *)

ThreadReads ==
  /\ thread.at = "reading"
  /\ thread.taken < stdin.typed
  /\ thread' = [at |-> "sending", taken |-> thread.taken + 1]
  /\ UNCHANGED <<spent, stdin, channel, lock, bridge, peer>>

\* The end of input closes the channel; a read error is sent first.
ThreadEnds ==
  /\ thread.at = "reading"
  /\ thread.taken = stdin.typed
  /\ stdin.end # "open"
  /\ thread' = [thread EXCEPT !.at = IF stdin.end = "eof" THEN "gone" ELSE "failing"]
  /\ UNCHANGED <<spent, stdin, channel, lock, bridge, peer>>

\* blocking_send: a full channel holds the thread back.
ThreadSends ==
  /\ thread.at \in {"sending", "failing"}
  /\ channel = <<>>
  /\ channel' = IF thread.at = "sending" THEN <<thread.taken>> ELSE <<Error>>
  /\ thread' = [thread EXCEPT !.at = IF @ = "sending" THEN "reading" ELSE "gone"]
  /\ UNCHANGED <<spent, stdin, lock, bridge, peer>>
-----------------------------------------------------------------------------
(* A bridge *)

Holds(b) == lock # <<>> /\ lock[1] = b

\* A bridge that goes gives up the mutex, or its place in the line for it.
Unlock(b) ==
  IF Reached(b)
  THEN \E i \in DOMAIN lock : lock[i] = b /\ lock' = RemoveAt(lock, i)
  ELSE UNCHANGED lock

\* A bridge ends, or its future is dropped: what it holds goes with it.
Over(b, phase) ==
  /\ bridge' = [bridge EXCEPT ![b].phase = phase, ![b].hand = <<>>, ![b].held = <<>>]
  /\ Unlock(b)
  /\ spent' = spent \cup Range(bridge[b].hand)
  /\ UNCHANGED <<stdin, thread, channel, peer>>

\* stdin_chunks: the first call starts the thread, and every call shares it.
Start(b) ==
  /\ bridge[b].phase = "idle"
  /\ bridge' = [bridge EXCEPT ![b].phase = "waiting"]
  /\ lock' = Append(lock, b)
  /\ thread' = [thread EXCEPT !.at = IF @ = "absent" THEN "reading" ELSE @]
  /\ UNCHANGED <<spent, stdin, channel, peer>>

\* The thread does not start: the next call tries again.
StartFails(b) ==
  /\ bridge[b].phase = "idle"
  /\ thread.at = "absent"
  /\ Over(b, "failed")

Enter(b) ==
  /\ bridge[b].phase = "waiting"
  /\ Holds(b)
  /\ bridge' = [bridge EXCEPT ![b].phase = "pumping"]
  /\ UNCHANGED <<spent, stdin, thread, channel, lock, peer>>

Receive(b) ==
  /\ Pumps(b) /\ bridge[b].hand = <<>>
  /\ channel # <<>> /\ channel[1] # Error
  /\ bridge' = [bridge EXCEPT ![b].hand = channel]
  /\ channel' = <<>>
  /\ UNCHANGED <<spent, stdin, thread, lock, peer>>

ReceiveError(b) ==
  /\ Pumps(b) /\ bridge[b].hand = <<>>
  /\ channel = <<Error>>
  /\ channel' = <<>>
  /\ bridge' = [bridge EXCEPT ![b].phase = "failed", ![b].held = <<>>]
  /\ Unlock(b)
  /\ spent' = spent \cup Range(bridge[b].hand)
  /\ UNCHANGED <<stdin, thread, peer>>

WriteChunk(b) ==
  /\ Pumps(b) /\ bridge[b].hand # <<>>
  /\ bridge' = [bridge EXCEPT ![b].got = @ \o bridge[b].hand, ![b].hand = <<>>]
  /\ UNCHANGED <<spent, stdin, thread, channel, lock, peer>>

\* The write, or the shutdown of the write half, fails: the peer takes no
\* more, or its session is gone.
WriteFails(b) ==
  /\ Pumps(b)
  /\ bridge[b].hand # <<>> \/ (channel = <<>> /\ thread.at = "gone")
  /\ Over(b, "failed")

\* The upstream arm wins: the write half is shut, the downstream copy is
\* dropped with what it holds, and a new copy drains the peer.
HalfClose(b) ==
  /\ Pumps(b) /\ bridge[b].hand = <<>>
  /\ channel = <<>> /\ thread.at = "gone"
  /\ bridge' = [bridge EXCEPT ![b].phase = "draining", ![b].held = <<>>]
  /\ UNCHANGED <<spent, stdin, thread, channel, lock, peer>>

CopyReads(b) ==
  /\ Copies(b)
  /\ bridge[b].read < peer[b].said
  /\ bridge' = [bridge EXCEPT ![b].read = @ + 1, ![b].held = Append(@, bridge[b].read + 1)]
  /\ UNCHANGED <<spent, stdin, thread, channel, lock, peer>>

\* stdout takes what the copy holds; a write in progress makes it wait.
CopyWrites(b) ==
  /\ Copies(b)
  /\ bridge[b].held # <<>>
  /\ bridge' = [bridge EXCEPT ![b].shown = @ \o bridge[b].held, ![b].held = <<>>]
  /\ UNCHANGED <<spent, stdin, thread, channel, lock, peer>>

\* Mutant: the bridge waits for both sides.
FinishBoth(b) ==
  /\ bridge[b].phase = "draining"
  /\ peer[b].end = "closed"
  /\ bridge[b].read = peer[b].said /\ bridge[b].held = <<>>
  /\ Over(b, "done")

\* Mutant: the bridge ends at the peer's end, whatever stdout has taken.
FinishUnflushed(b) ==
  /\ Copies(b)
  /\ peer[b].end = "closed"
  /\ bridge[b].read = peer[b].said
  /\ Over(b, "done")

\* The downstream copy ends: the service is done.
Finish(b) ==
  /\ Copies(b)
  /\ peer[b].end = "closed"
  /\ bridge[b].read = peer[b].said /\ bridge[b].held = <<>>
  /\ Over(b, "done")

\* The read fails; a reset may overtake what the peer had said.
ReadFails(b) ==
  /\ Copies(b)
  /\ peer[b].end = "lost"
  /\ Over(b, "failed")

Drop(b) ==
  /\ Reached(b)
  /\ Over(b, "dropped")
-----------------------------------------------------------------------------
Upstream(b) == Receive(b) \/ ReceiveError(b) \/ WriteChunk(b) \/ WriteFails(b) \/ HalfClose(b)

Downstream(b) == CopyReads(b) \/ CopyWrites(b) \/ Finish(b) \/ ReadFails(b)

Thread == ThreadReads \/ ThreadEnds \/ ThreadSends

Peer(b) == PeerSays(b) \/ PeerCloses(b)

StdioNext ==
  \/ Type \/ CloseStdin \/ Thread
  \/ \E b \in Bridges :
       \/ Peer(b) \/ Start(b) \/ StartFails(b) \/ Enter(b) \/ Drop(b)
       \/ Upstream(b) \/ Downstream(b)

StdioSpec == StdioInit /\ [][StdioNext]_stdioVars

\* A bridge is polled, and stdout takes what it is given.
FairStdioSpec ==
  StdioSpec /\ \A b \in Bridges : WF_stdioVars(Enter(b)) /\ WF_stdioVars(Downstream(b))
-----------------------------------------------------------------------------
(* Properties *)

Chunks == 1..MaxChunks
Hands == {<<>>} \cup {<<c>> : c \in Chunks}
Phases == {"idle", "waiting", "pumping", "draining", "done", "failed", "dropped"}

\* The type invariant: shapes, and whoever runs holds the mutex.
StdioTypeOK ==
  /\ stdin \in [typed : 0..MaxChunks, end : {"open", "eof", "broken"}]
  /\ spent \subseteq 1..thread.taken
  /\ thread \in [at : {"absent", "reading", "sending", "failing", "gone"},
                 taken : 0..stdin.typed]
  /\ channel \in Hands \cup {<<Error>>}
  /\ bridge \in [Bridges -> [phase : Phases, hand : Hands, held : Seq(Nat), read : Nat,
                             got : Seq(Chunks), shown : Seq(Nat)]]
  /\ peer \in [Bridges -> [said : 0..MaxSaid, end : {"open", "closed", "lost"}]]
  /\ \A b \in Bridges :
       /\ Copies(b) => Holds(b)
       /\ bridge[b].read <= peer[b].said
       /\ ~Pumps(b) => bridge[b].hand = <<>>
       /\ ~Copies(b) => bridge[b].held = <<>>
  /\ lock \in Seq(Bridges) /\ IsInjective(lock)
  /\ Range(lock) = {b \in Bridges : Reached(b)}

Ahead(S, T) == \A c \in S, d \in T : c < d

\* Where a chunk that was read may be: in a bridge's hand, in the channel, in
\* the thread's, and with a peer.
InHand == UNION {Range(bridge[b].hand) : b \in Bridges}
InChannel == Range(channel) \ {Error}
InThread == IF thread.at = "sending" THEN {thread.taken} ELSE {}
InFlight == InHand \cup InChannel \cup InThread
Given(b) == Range(bridge[b].got)

(***************************************************************************)
(* "A chunk read after a bridge ends waits in the channel for the next     *)
(* one": what the thread read is with one peer or on its way to one, once  *)
(* and in order, whoever came and went; a bridge that ends takes with it   *)
(* at most the chunk it was writing.                                       *)
(***************************************************************************)
InputIsKept ==
  /\ 1..thread.taken = (UNION {Given(b) : b \in Bridges}) \cup InFlight \cup spent
  /\ Ahead(spent, InFlight)
  /\ \A b \in Bridges :
       /\ Ahead(Given(b), InFlight)
       /\ Given(b) \cap spent = {}
       /\ \A i, j \in DOMAIN bridge[b].got : i < j => bridge[b].got[i] < bridge[b].got[j]

(***************************************************************************)
(* "The chunks are never split between two": what one peer was given lies  *)
(* wholly before or wholly after what another was given.                   *)
(***************************************************************************)
NeverSplit ==
  \A a, b \in Bridges : a # b => Ahead(Given(a), Given(b)) \/ Ahead(Given(b), Given(a))

(***************************************************************************)
(* stdin has one reader and one taker at a time: whoever runs holds the    *)
(* mutex (StdioTypeOK), what was read goes to one peer whole (NeverSplit)  *)
(* and in order, and none of it is dropped between two (InputIsKept).      *)
(***************************************************************************)
OneTaker == StdioTypeOK /\ InputIsKept /\ NeverSplit

Said(b) == [k \in 1..peer[b].said |-> k]

(***************************************************************************)
(* "Copy any final bytes to stdout, then return": while stdin stays open,  *)
(* stdout has been shown what the peer said so far, without a gap, and all *)
(* of it when the bridge is done.                                          *)
(***************************************************************************)
NothingSkippedWhileOpen ==
  stdin.end = "open" =>
    \A b \in Bridges :
      /\ IsPrefix(bridge[b].shown, Said(b))
      /\ bridge[b].phase = "done" => bridge[b].shown = Said(b)

(***************************************************************************)
(* Bytes keep to their bridge both ways: what is typed goes to one peer,   *)
(* what a peer says is shown without a gap.                                *)
(***************************************************************************)
BytesKeepToTheirBridge == OneTaker /\ NothingSkippedWhileOpen

(***************************************************************************)
(* "A stdio bridge is done when the SERVICE is done", whatever stdin is    *)
(* doing: a bridge that runs ends once its peer's half does.               *)
(***************************************************************************)
DoneWithTheService ==
  \A b \in Bridges :
    Copies(b) /\ peer[b].end # "open" ~> ~Copies(b)
-----------------------------------------------------------------------------
(* What the comments say and the code does not do *)

(***************************************************************************)
(* "A clean end half-closes toward the peer, then the peer's remaining     *)
(* output still drains to stdout so nothing it still had to say is lost."  *)
(***************************************************************************)
NothingSaidIsLost ==
  \A b \in Bridges : bridge[b].phase = "done" => bridge[b].shown = Said(b)
=============================================================================
