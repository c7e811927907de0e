------------------------------- MODULE Stream -------------------------------
(***************************************************************************)
(* One stream from end to end: a local client, the dialer that carries it  *)
(* (request_service of src/tunnel/connector.rs), the host that serves it   *)
(* (serve_request and serve_ready of src/tunnel/admit.rs) through a        *)
(* handler, and the local service behind that.  Each end writes its frame, *)
(* reads the other's, and then splices (src/lib.rs): two copies joined, of *)
(* which the first to fail takes the other down.                           *)
(*                                                                         *)
(* What admission rules is Serving's; here the host answers as it likes.   *)
(* A dropped writer ends its stream as a clean close, because "the         *)
(* transport has no reset"; a lost session or a broken local socket does   *)
(* not.                                                                    *)
(***************************************************************************)
EXTENDS Wire, Integers

CONSTANTS
  Dials,        \* what may be dialed: a handler, a magic, a request, and
                \* what the client has to say
  ServiceSays,  \* what the service has to say
  Detail        \* the detail of a refusal

Handlers == {"forward", "typed", "echo", "source"}

ASSUME StreamAssumption ==
  /\ \A d \in Dials :
       /\ d.handler \in Handlers
       /\ d.magic \in Seq(Nat) /\ Len(d.magic) = 4
       /\ d.request \in [service : Seq(Nat),
                         capability : Seq(Seq(Nat)), membership : Seq(Seq(Nat))]
       /\ Len(d.request.capability) <= 1 /\ Len(d.request.membership) <= 1
       /\ d.client \in Seq(Nat)
  /\ ServiceSays \in Seq(Nat) /\ Detail \in Seq(Nat)

VARIABLES
  dial,    \* which of Dials this is
  pipe,    \* the six directions bytes go in
  dialer,  \* the dialer: where it is, what it has left to write, its outcome
  host,    \* the host: where it is, what is left to write, what it was asked, its answer
  copy,    \* the copies of the two splices
  moved,   \* FirstTraffic
  said,    \* history: how much the client and the service have said
  broken   \* history: something failed, or was dropped, before its end

vars == <<dial, pipe, dialer, host, copy, moved, said, broken>>

Tunnel == {"up", "down"}
Local  == {"cin", "cout", "sin", "sout"}   \* of the client, of the service
Pipes  == Tunnel \cup Local \cup {"sink"}
Copies == {"dialUp", "dialDown", "hostUp", "hostDown"}

Empty == [bytes |-> <<>>, end |-> "open", taken |-> TRUE]

Init ==
  /\ dial \in Dials
  /\ pipe = [p \in Pipes |-> Empty]
  /\ dialer = [at |-> "writing", told |-> "nothing",
               left |-> RequestFrame(dial.magic, dial.request).bytes]
  /\ host = [at |-> "reading", left |-> <<>>, asked |-> <<>>, ruled |-> "nothing"]
  /\ copy = [c \in Copies |-> "idle"]
  /\ moved = FALSE
  /\ said = [client |-> 0, service |-> 0]
  /\ broken = FALSE

From == [dialUp |-> "cin", dialDown |-> "down", hostUp |-> "up", hostDown |-> "sout"]

\* Echo copies the stream back; a raw source discards what its peer sends.
To == [dialUp |-> "up", dialDown |-> "cout", hostDown |-> "down",
       hostUp |-> CASE dial.handler = "echo"   -> "down"
                    [] dial.handler = "source" -> "sink"
                    [] OTHER                   -> "sin"]

Writes(end) == IF end = "dialer" THEN {"up", "cout"} ELSE {"down", To["hostUp"]}
Reads(end)  == IF end = "dialer" THEN {"cin", "down"} ELSE {"up", "sout"}
CopiesOf(end) ==
  IF end = "dialer" THEN {"dialUp", "dialDown"} ELSE {"hostUp", "hostDown"}

(***************************************************************************)
(* An end is over and drops its halves.  A socket dropped with bytes unread *)
(* may reset, so `local` is how its local writer ends.                     *)
(***************************************************************************)
Dropped(end, local) ==
  [p \in Pipes |->
     CASE p \in Reads(end) -> [pipe[p] EXCEPT !.taken = FALSE, !.bytes = <<>>]
       [] p \in Writes(end) /\ pipe[p].end = "open" ->
            [pipe[p] EXCEPT !.end = IF p \in Tunnel THEN "fin" ELSE local]
       [] OTHER -> pipe[p]]

Drop(end) == \E local \in {"fin", "cut"} : pipe' = Dropped(end, local)

\* A write succeeds while the pipe is up, though nobody may ever read it, and
\* may fail once its reader is gone or its pipe was cut.
Takes(p) == pipe[p].end = "open"
Stops(p) == pipe[p].end = "cut" \/ ~pipe[p].taken

Put(p, byte) ==
  [pipe EXCEPT ![p].bytes = IF pipe[p].taken THEN Append(@, byte) ELSE @]

Leave(p, b) == [pipe EXCEPT ![p].bytes = b]
-----------------------------------------------------------------------------
(* The client and the service *)

Says(who, p, script) ==
  /\ pipe[p].end = "open"
  /\ said[who] < Len(script)
  /\ said' = [said EXCEPT ![who] = @ + 1]
  /\ pipe' = Put(p, script[said[who] + 1])
  /\ UNCHANGED <<dial, dialer, host, copy, moved, broken>>

Ends(p) ==
  /\ pipe[p].end = "open"
  /\ pipe' = [pipe EXCEPT ![p].end = "fin"]
  /\ UNCHANGED <<dial, dialer, host, copy, moved, said, broken>>

\* It goes away, both directions at once.
Goes(out, in) ==
  /\ pipe[in].taken
  /\ pipe' = [pipe EXCEPT ![out].end = "cut", ![in].taken = FALSE]
  /\ broken' = TRUE
  /\ UNCHANGED <<dial, dialer, host, copy, moved, said>>

Connected == copy["hostUp"] # "idle" /\ dial.handler # "echo"

Client  == Says("client", "cin", dial.client) \/ Ends("cin") \/ Goes("cin", "cout")
Service ==
  /\ Connected
  /\ \/ Says("service", "sout", ServiceSays) \/ Ends("sout")
     \/ dial.handler # "source" /\ Goes("sout", "sin")

SessionLost ==
  /\ \E p \in Tunnel : pipe[p].end # "cut"
  /\ pipe' = [p \in Pipes |->
                IF p \in Tunnel THEN [pipe[p] EXCEPT !.end = "cut"] ELSE pipe[p]]
  /\ broken' = TRUE
  /\ UNCHANGED <<dial, dialer, host, copy, moved, said>>
-----------------------------------------------------------------------------
(* The dialer: request_service *)

DialerOver(told) ==
  /\ dialer' = [at |-> "over", left |-> <<>>, told |-> told]
  /\ broken' = TRUE
  /\ Drop("dialer")
  /\ UNCHANGED <<dial, host, copy, moved, said>>

DialerWrites ==
  /\ dialer.at = "writing" /\ dialer.left # <<>>
  /\ Takes("up")
  /\ pipe' = Put("up", Head(dialer.left))
  /\ dialer' = [dialer EXCEPT !.left = Tail(@)]
  /\ UNCHANGED <<dial, host, copy, moved, said, broken>>

DialerWriteFails ==
  /\ dialer.at = "writing"
  /\ \/ dialer.left # <<>> /\ Stops("up")
     \/ dialer.left = <<>> /\ ~RequestFrame(dial.magic, dial.request).whole
  /\ DialerOver("broken")

DialerWaits ==
  /\ dialer.at = "writing" /\ dialer.left = <<>>
  /\ RequestFrame(dial.magic, dial.request).whole
  /\ dialer' = [dialer EXCEPT !.at = "awaiting"]
  /\ UNCHANGED <<dial, pipe, host, copy, moved, said, broken>>

DialerTold ==
  LET answer == ReadResponse(pipe["down"].bytes) IN
  /\ dialer.at = "awaiting"
  /\ IF answer.read = "done" /\ answer.value = "ok"
     THEN /\ dialer' = [dialer EXCEPT !.at = "carrying", !.told = "ok"]
          /\ pipe' = Leave("down", answer.rest)
          /\ copy' = [copy EXCEPT !["dialUp"] = "run", !["dialDown"] = "run"]
          /\ UNCHANGED <<dial, host, moved, said, broken>>
     ELSE \/ answer.read = "done" /\ DialerOver(answer.value)
          \/ /\ \/ answer.read = "bad"
                \/ answer.read = "more" /\ pipe["down"].end = "fin"
                \/ pipe["down"].end = "cut"
             /\ DialerOver("broken")
-----------------------------------------------------------------------------
(* The host: serve_request and serve_ready *)

HostOver(at) ==
  /\ host' = [host EXCEPT !.at = at, !.left = <<>>]
  /\ broken' = TRUE
  /\ Drop("host")
  /\ UNCHANGED <<dial, dialer, copy, moved, said>>

HostAnswers(asked, answer, rest) ==
  /\ host' = [at |-> "answering", left |-> ResponseFrame(answer, Detail),
              asked |-> asked, ruled |-> answer]
  /\ pipe' = Leave("up", rest)
  /\ UNCHANGED <<dial, dialer, copy, moved, said, broken>>

\* A version mismatch is answered; a foreign or broken frame is not.
HostReads ==
  LET request == ReadRequest(pipe["up"].bytes) IN
  /\ host.at = "reading"
  /\ \/ /\ request.read = "done"
        /\ \E answer \in {"ok"} \cup Classes :
             HostAnswers(<<request.value>>, answer, request.rest)
     \/ request.read = "version" /\ HostAnswers(<<>>, "badRequest", <<>>)
     \/ /\ \/ request.read \in {"foreign", "bad"}
           \/ request.read = "more" /\ pipe["up"].end = "fin"
           \/ pipe["up"].end = "cut"
        /\ HostOver("over")

RequestTimesOut == host.at = "reading" /\ HostOver("over")

HostWrites ==
  /\ host.at = "answering" /\ host.left # <<>>
  /\ Takes("down")
  /\ pipe' = Put("down", Head(host.left))
  /\ host' = [host EXCEPT !.left = Tail(@)]
  /\ UNCHANGED <<dial, dialer, copy, moved, said, broken>>

HostWriteFails ==
  /\ host.at = "answering" /\ host.left # <<>> /\ Stops("down")
  /\ HostOver("over")

HostRefused ==
  /\ host.at = "answering" /\ host.left = <<>> /\ host.ruled # "ok"
  /\ HostOver("over")

HostOks ==
  /\ host.at = "answering" /\ host.left = <<>> /\ host.ruled = "ok"
  /\ host' = [host EXCEPT !.at = IF dial.handler = "typed" THEN "framing" ELSE "connecting"]
  /\ UNCHANGED <<dial, pipe, dialer, copy, moved, said, broken>>

\* Serve::serve reads its one frame; its first byte is traffic.
FrameBegins ==
  /\ host.at = "framing" /\ ~moved /\ pipe["up"].bytes # <<>>
  /\ moved' = TRUE
  /\ UNCHANGED <<dial, pipe, dialer, host, copy, said, broken>>

FrameRead ==
  LET frame == ReadFrame(pipe["up"].bytes) IN
  /\ host.at = "framing" /\ (moved \/ pipe["up"].bytes = <<>>)
  /\ \/ /\ frame.read = "done"
        /\ pipe' = Leave("up", frame.rest)
        /\ host' = [host EXCEPT !.at = "connecting"]
        /\ UNCHANGED <<dial, dialer, copy, moved, said, broken>>
     \/ /\ \/ frame.read \in {"tooLong", "done"}    \* or its grammar rejects it
           \/ frame.read = "more" /\ pipe["up"].end = "fin"
           \/ pipe["up"].end = "cut"
        /\ HostOver("over")

\* The dial of a forward's endpoint; other handlers have nothing to dial.
HostConnects ==
  /\ host.at = "connecting"
  /\ host' = [host EXCEPT !.at = "serving"]
  /\ copy' = [copy EXCEPT !["hostUp"] = "run",
                          !["hostDown"] = IF dial.handler = "echo" THEN "done" ELSE "run"]
  /\ UNCHANGED <<dial, pipe, dialer, moved, said, broken>>

ConnectFails ==
  host.at = "connecting" /\ dial.handler \in {"forward", "typed"} /\ HostOver("over")

FirstTrafficFires ==
  /\ host.at \in {"framing", "connecting", "serving"}
  /\ dial.handler # "source"
  /\ ~moved
  /\ HostOver("silenced")
-----------------------------------------------------------------------------
(* The copies *)

Carries(end) == IF end = "dialer" THEN dialer.at = "carrying" ELSE host.at = "serving"
Running(end, c) == Carries(end) /\ c \in CopiesOf(end) /\ copy[c] = "run"

\* Mutant: only what the peer sends is traffic.
CrossesUp(c) == c = "hostUp"

\* A byte crossed the stream at the host, one way or the other (Watched).
Crosses(c) == c \in {"hostUp", "hostDown"}

CopyMoves(end, c) ==
  /\ Running(end, c)
  /\ pipe[From[c]].bytes # <<>>
  /\ Takes(To[c])
  /\ LET put == Put(To[c], Head(pipe[From[c]].bytes))
     IN pipe' = [put EXCEPT ![From[c]].bytes = Tail(@)]
  /\ moved' = (moved \/ Crosses(c))
  /\ UNCHANGED <<dial, dialer, host, copy, said, broken>>

\* Mutant: the end of one direction is not passed on.
CopyEndsUnsaid(end, c) ==
  /\ Running(end, c)
  /\ pipe[From[c]].bytes = <<>> /\ pipe[From[c]].end = "fin"
  /\ copy' = [copy EXCEPT ![c] = "done"]
  /\ UNCHANGED <<dial, pipe, dialer, host, moved, said, broken>>

\* The copy ends and shuts its writer down: the half-close goes on.
CopyEnds(end, c) ==
  /\ Running(end, c)
  /\ pipe[From[c]].bytes = <<>> /\ pipe[From[c]].end = "fin"
  /\ Takes(To[c])
  /\ copy' = [copy EXCEPT ![c] = "done"]
  /\ pipe' = [pipe EXCEPT ![To[c]].end = "fin"]
  /\ UNCHANGED <<dial, dialer, host, moved, said, broken>>

\* One copy fails, and try_join drops the other where it is.
CopyFails(end, c) ==
  /\ Running(end, c)
  /\ \/ pipe[From[c]].end = "cut"
     \/ /\ Stops(To[c])
        /\ pipe[From[c]].bytes # <<>> \/ pipe[From[c]].end = "fin"
  /\ IF end = "dialer" THEN DialerOver("ok") ELSE HostOver("over")

\* Mutant: the splice is over with the first of its copies.
EitherDone(end) == \E c \in CopiesOf(end) : copy[c] = "done"

BothDone(end) == \A c \in CopiesOf(end) : copy[c] = "done"

Joins(end) ==
  /\ Carries(end)
  /\ BothDone(end)
  /\ Drop(end)
  /\ IF end = "dialer"
     THEN dialer' = [dialer EXCEPT !.at = "over"] /\ UNCHANGED host
     ELSE host' = [host EXCEPT !.at = "over"] /\ UNCHANGED dialer
  /\ UNCHANGED <<dial, copy, moved, said, broken>>

Splice(end) ==
  Joins(end) \/ \E c \in Copies : CopyMoves(end, c) \/ CopyEnds(end, c) \/ CopyFails(end, c)

Dialer == DialerWrites \/ DialerWriteFails \/ DialerWaits \/ DialerTold
Frames == HostReads \/ HostWrites \/ HostWriteFails \/ HostRefused \/ HostOks
Handler == FrameBegins \/ FrameRead \/ HostConnects \/ ConnectFails

Next ==
  \/ Client \/ Service \/ SessionLost
  \/ Dialer \/ Frames \/ Handler \/ RequestTimesOut \/ FirstTrafficFires
  \/ Splice("dialer") \/ Splice("host")

Spec == Init /\ [][Next]_vars

(***************************************************************************)
(* Each end's task is polled, and each of the two copies it joins.  The    *)
(* two deadlines are not needed and nothing is assumed of them, of the     *)
(* client, of the service or of the session.                               *)
(***************************************************************************)
FairSpec ==
  /\ Spec
  /\ WF_vars(Dialer) /\ WF_vars(Frames) /\ WF_vars(Handler)
  /\ \A end \in {"dialer", "host"} :
       /\ WF_vars(Joins(end))
       /\ \A c \in Copies : WF_vars(CopyMoves(end, c) \/ CopyEnds(end, c) \/ CopyFails(end, c))
-----------------------------------------------------------------------------
(* Properties *)

Prefix(s, n) == SubSeq(s, 1, n)

\* Where what the client hears comes from, and how much of it was said.
Speaker == IF dial.handler = "echo"
           THEN [out |-> "cin", said |-> Prefix(dial.client, said.client)]
           ELSE [out |-> "sout", said |-> Prefix(ServiceSays, said.service)]

\* What the client says after the frame of a typed service, and how much of
\* it was said.
FrameSize   == IF dial.handler = "typed" /\ dial.client # <<>>
               THEN 1 + Head(dial.client) ELSE 0
Payload     == SubSeq(dial.client, FrameSize + 1, Len(dial.client))
PayloadSaid == said.client - FrameSize

Shape ==
  /\ pipe \in [Pipes -> [bytes : Seq(Nat), end : {"open", "fin", "cut"}, taken : BOOLEAN]]
  /\ dialer.at \in {"writing", "awaiting", "carrying", "over"}
  /\ dialer.told \in {"nothing", "ok", "broken"} \cup Classes
  /\ host.at \in {"reading", "answering", "framing", "connecting", "serving",
                  "silenced", "over"}
  /\ host.ruled \in {"nothing", "ok"} \cup Classes
  /\ copy \in [Copies -> {"idle", "run", "done"}]
  /\ moved \in BOOLEAN /\ broken \in BOOLEAN

(***************************************************************************)
(* The frames and the payload never mix: whatever the client hears is a    *)
(* run of what was said to it from the first byte on, whatever the service *)
(* hears is the client's payload from its first byte, and no byte of a     *)
(* request, an answer or a typed service's frame is among them.  What the  *)
(* model keeps stays within its shape.                                     *)
(***************************************************************************)
PayloadIsUntouched ==
  /\ Shape
  /\ IsPrefix(pipe["cout"].bytes, Speaker.said)
  /\ IsPrefix(pipe["sin"].bytes, Payload)

(***************************************************************************)
(* A clean end is the whole truth: unless something failed, a side that    *)
(* sees its input end has been given everything the other side said before *)
(* it ended, and half-closing one direction takes nothing from the other.  *)
(***************************************************************************)
CleanEndIsWhole ==
  ~broken =>
    /\ pipe["cout"].end = "fin" =>
         pipe[Speaker.out].end = "fin" /\ pipe["cout"].bytes = Speaker.said
    /\ pipe["sin"].end = "fin" =>
         pipe["cin"].end = "fin" /\ Len(pipe["sin"].bytes) = PayloadSaid

(***************************************************************************)
(* What is carried arrives, in its order, and all of it before its end.    *)
(***************************************************************************)
PayloadArrives == PayloadIsUntouched /\ CleanEndIsWhole

(***************************************************************************)
(* The dialer's outcome is the host's ruling, never a class made up from a *)
(* frame cut short; the host rules on the request as it was written; a     *)
(* dialer of another version is told so and a foreign one is told nothing. *)
(***************************************************************************)
AnswersAreUnderstood ==
  /\ dialer.told \in {"ok"} \cup Classes => dialer.told = host.ruled
  /\ host.asked # <<>> => dial.magic = Magic /\ host.asked = <<dial.request>>
  /\ host.asked = <<>> => host.ruled \in {"nothing", "badRequest"}
  /\ host.ruled # "nothing" =>
       Prefix(dial.magic, 2) = Identity /\ dial.magic[3] \notin Capitals

(***************************************************************************)
(* The first-traffic deadline "can only ever fire on a stream where        *)
(* nothing has been said in either direction": neither side has been given *)
(* a byte, and none is on its way to the peer.                             *)
(***************************************************************************)
SilenceCutsNothing ==
  host.at = "silenced" =>
    /\ pipe["cout"].bytes = <<>> /\ pipe["sin"].bytes = <<>>
    /\ dialer.at = "carrying" => pipe["down"].bytes = <<>>

DialerDone == dialer.at = "over"
HostDone   == host.at \in {"over", "silenced"}

Finished == pipe["cin"].end # "open" /\ (pipe["sout"].end # "open" \/ dial.handler = "echo")

(***************************************************************************)
(* Nothing is left parked, and no timer is needed for it: both ends end    *)
(* once the client and the service have finished, however each of them did *)
(* and with one direction half-closed or not, or once the host refuses;    *)
(* and an end whose peer goes before it closed its direction ends at once. *)
(***************************************************************************)
CallEnds ==
  /\ Finished \/ host.ruled \in Classes ~> DialerDone /\ HostDone
  /\ pipe["down"].end = "cut" /\ copy["dialDown"] # "done" ~> DialerDone
  /\ pipe["up"].end = "cut" /\ copy["hostUp"] # "done" ~> HostDone
=============================================================================
