------------------------------- MODULE Forward -------------------------------
(***************************************************************************)
(* The dialing side of the tunnel (src/tunnel/connector.rs): a preflighted *)
(* port forward, Connector::preflight and PortForward::run, beside streams *)
(* opened on sessions the caller holds, Connector::open_on.  All of them   *)
(* send the same request, with the same credentials.                       *)
(*                                                                         *)
(* A forward is ONE task: its select polls the listener, the retry timer,  *)
(* the session's end and the pipes, and a pipe moves only when it is       *)
(* polled there.                                                           *)
(***************************************************************************)
EXTENDS Naturals, FiniteSets, Sequences, SequencesExt

CONSTANTS
  Conns,        \* the local connections; one that is over may come again
  Calls,        \* the calls of open_on
  Peers,        \* whoever may be at the other end of a session
  Dial,         \* the peer the connector dials
  MaxPipes,     \* MAX_PIPES
  PeerStreams   \* how many streams the peer grants at once

\* "Above a QUIC peer's usual concurrent-stream limit".
ASSUME ForwardAssumption ==
  /\ IsFiniteSet(Conns)
  /\ Dial \in Peers
  /\ PeerStreams \in Nat \ {0}
  /\ MaxPipes \in Nat /\ PeerStreams <= MaxPipes

VARIABLES
  dialer,    \* fixed: whether it presents a credential, whether peers are proven
  stage,     \* where preflight and then run are
  session,   \* the forward's session, and who is at its other end
  backlog,   \* the kernel's queue of connections not yet accepted
  paused,    \* whether an accept failed and the retry timer runs
  pipe,      \* each local connection
  call,      \* each call of open_on, and the session it was handed
  sent       \* history: who was sent the connector's request

vars == <<dialer, stage, session, backlog, paused, pipe, call, sent>>

Unused == [phase |-> "idle", claims |-> Dial, is |-> Dial]

Init ==
  /\ dialer \in [credential : BOOLEAN, proven : BOOLEAN]
  /\ stage = "dialing"
  /\ session = [state |-> "none", is |-> Dial]
  /\ backlog = <<>>
  /\ paused = FALSE
  /\ pipe = [c \in Conns |-> "away"]
  /\ call = [k \in Calls |-> Unused]
  /\ sent = {}

\* Who may be at the end of a session whose peer() is `id`: on a transport
\* that proves its peers nobody else.
AtTheEndOf(id) == IF dialer.proven THEN {id} ELSE Peers

\* Request::write_checked.
MaySend == dialer.credential => dialer.proven

Up == session.state = "up"

\* The pipes the forward holds, and the streams that count at the peer.
Held == {c \in Conns : pipe[c] \in {"opening", "asking", "carrying", "ended"}}
Streams == {c \in Conns : pipe[c] \in {"asking", "carrying", "ended"}}
Room == Cardinality(Streams) < PeerStreams

Move(c, from, to) == pipe[c] \in from /\ pipe' = [pipe EXCEPT ![c] = to]
-----------------------------------------------------------------------------
(* Preflight *)

Connect ==
  /\ stage = "dialing"
  /\ \E is \in AtTheEndOf(Dial) : session' = [state |-> "up", is |-> is]
  /\ stage' = "probing"
  /\ UNCHANGED <<dialer, backlog, paused, pipe, call, sent>>

\* The probe's stream opens and the checked writer sends the request.
ProbeAsks ==
  /\ stage = "probing" /\ Up /\ MaySend
  /\ sent' = sent \cup {session.is}
  /\ stage' = "probed"
  /\ UNCHANGED <<dialer, session, backlog, paused, pipe, call>>

\* The probe is admitted, its stream dropped, the local port bound.
Bind ==
  /\ stage = "probed" /\ Up
  /\ stage' = "running"
  /\ UNCHANGED <<dialer, session, backlog, paused, pipe, call, sent>>

\* Unreached, unproven, refused, or the port is taken: the session goes with
\* the error.
PreflightFails ==
  /\ dialer \in [credential : BOOLEAN, proven : BOOLEAN]
  /\ stage \in {"dialing", "probing", "probed"}
  /\ stage' = "refused"
  /\ session' = [session EXCEPT !.state = "none"]
  /\ UNCHANGED <<dialer, backlog, paused, pipe, call, sent>>

\* The host closes the session, or the network path to it fails.
SessionCloses ==
  /\ Up
  /\ session' = [session EXCEPT !.state = "closed"]
  /\ UNCHANGED <<dialer, stage, backlog, paused, pipe, call, sent>>
-----------------------------------------------------------------------------
(* The forward's loop *)

\* The kernel completes a local connection, whether or not it is accepted.
Arrive(c) ==
  /\ stage = "running"
  /\ Move(c, {"away"}, "queued")
  /\ backlog' = Append(backlog, c)
  /\ UNCHANGED <<dialer, stage, session, paused, call, sent>>

\* The guard of the accept arm.
Accepting ==
  /\ stage = "running"
  /\ ~paused
  /\ Cardinality(Held) < MaxPipes
  /\ backlog # <<>>

Accept ==
  /\ Accepting
  /\ pipe' = [pipe EXCEPT ![Head(backlog)] = "opening"]
  /\ backlog' = Tail(backlog)
  /\ UNCHANGED <<dialer, stage, session, paused, call, sent>>

\* Out of descriptors, say: some kernels keep the connection queued, some
\* drop it.
AcceptFails ==
  /\ Accepting
  /\ paused' = TRUE
  /\ \/ UNCHANGED <<backlog, pipe>>
     \/ /\ pipe' = [pipe EXCEPT ![Head(backlog)] = "away"]
        /\ backlog' = Tail(backlog)
  /\ UNCHANGED <<dialer, stage, session, call, sent>>

Retry ==
  /\ stage = "running" /\ paused
  /\ paused' = FALSE
  /\ UNCHANGED <<dialer, stage, session, backlog, pipe, call, sent>>

\* The session is gone: run returns, and drops its pipes and the listener.
RunEnds ==
  /\ stage = "running"
  /\ session.state = "closed"
  /\ stage' = "over"
  /\ pipe' = [c \in Conns |-> "away"]
  /\ backlog' = <<>>
  /\ UNCHANGED <<dialer, session, paused, call, sent>>
-----------------------------------------------------------------------------
(* The pipes: `forward` and request_service *)

\* Mutant: the stream is opened in the accept arm, which polls nothing else.
PolledBetweenOpens(c) ==
  stage = "running" /\ \A d \in Conns \ {c} : pipe[d] # "opening"

\* The select polls every pipe, whatever another one waits for.
Polled(c) == stage = "running"

\* The open resolves once the peer has a stream to grant.
Asks(c) ==
  /\ Polled(c) /\ Up /\ Room /\ MaySend
  /\ Move(c, {"opening"}, "asking")
  /\ sent' = sent \cup {session.is}
  /\ UNCHANGED <<dialer, stage, session, backlog, paused, call>>

Admitted(c) ==
  /\ Polled(c) /\ Up
  /\ Move(c, {"asking"}, "carrying")
  /\ UNCHANGED <<dialer, stage, session, backlog, paused, call, sent>>

\* The client and the service have both said all they had to say.
SidesEnd(c) ==
  /\ Move(c, {"carrying"}, "ended")
  /\ UNCHANGED <<dialer, stage, session, backlog, paused, call, sent>>

\* The splice returns, and the stream goes back to the peer.
Release(c) ==
  /\ Polled(c)
  /\ Move(c, {"ended"}, "away")
  /\ UNCHANGED <<dialer, stage, session, backlog, paused, call, sent>>

\* The open, the request or the splice fails, or the host refuses.
Fails(c) ==
  /\ Polled(c)
  /\ Move(c, {"opening", "asking", "carrying", "ended"}, "away")
  /\ UNCHANGED <<dialer, stage, session, backlog, paused, call, sent>>
-----------------------------------------------------------------------------
(* Connector::open_on, for ServiceSession too *)

Step(k, from, to) == call[k].phase = from /\ call' = [call EXCEPT ![k].phase = to]

\* The caller hands over a session to whoever it likes.
Call(k) ==
  /\ call[k].phase = "idle"
  /\ \E claims \in Peers : \E is \in AtTheEndOf(claims) :
       call' = [call EXCEPT ![k] = [phase |-> "handed", claims |-> claims, is |-> is]]
  /\ UNCHANGED <<dialer, stage, session, backlog, paused, pipe, sent>>

\* Mutant: any session will do.
ReachesAnyone(k) == TRUE

ReachesDial(k) == call[k].claims = Dial

CallWrongPeer(k) ==
  /\ ~ReachesDial(k)
  /\ Step(k, "handed", "wrong")
  /\ UNCHANGED <<dialer, stage, session, backlog, paused, pipe, sent>>

CallAsks(k) ==
  /\ ReachesDial(k) /\ MaySend
  /\ Step(k, "handed", "asking")
  /\ sent' = sent \cup {call[k].is}
  /\ UNCHANGED <<dialer, stage, session, backlog, paused, pipe>>

CallAdmitted(k) ==
  /\ Step(k, "asking", "admitted")
  /\ UNCHANGED <<dialer, stage, session, backlog, paused, pipe, sent>>

CallFails(k) ==
  /\ ReachesDial(k)
  /\ Step(k, "handed", "failed") \/ Step(k, "asking", "failed")
  /\ UNCHANGED <<dialer, stage, session, backlog, paused, pipe, sent>>

Preflight == Connect \/ ProbeAsks \/ Bind \/ PreflightFails

Run ==
  \/ Accept \/ AcceptFails \/ Retry \/ RunEnds
  \/ \E c \in Conns : \/ Arrive(c) \/ Asks(c) \/ Admitted(c) \/ SidesEnd(c)
                      \/ Release(c) \/ Fails(c)

OpenOn ==
  \E k \in Calls : \/ Call(k) \/ CallWrongPeer(k) \/ CallAsks(k)
                   \/ CallAdmitted(k) \/ CallFails(k)

Next == Preflight \/ SessionCloses \/ Run \/ OpenOn

Spec == Init /\ [][Next]_vars

(***************************************************************************)
(* The select takes every arm that stays ready, the timer fires, and an    *)
(* accept does not fail for ever.  Nothing is assumed of the peer, the     *)
(* clients or the service: no answer, no end.                              *)
(***************************************************************************)
Fairness ==
  /\ WF_vars(Retry)
  /\ SF_vars(Accept)
  /\ WF_vars(RunEnds)
  /\ \A c \in Conns : WF_vars(Asks(c)) /\ WF_vars(Release(c))

FairSpec == Spec /\ Fairness
-----------------------------------------------------------------------------
(* Properties *)

\* The type invariant: a connection is in the backlog exactly while it is
\* queued, and a forward that does not run holds nothing.
TypeOK ==
  /\ dialer \in [credential : BOOLEAN, proven : BOOLEAN]
  /\ stage \in {"dialing", "probing", "probed", "refused", "running", "over"}
  /\ session \in [state : {"none", "up", "closed"}, is : Peers]
  /\ pipe \in [Conns -> {"away", "queued", "opening", "asking", "carrying", "ended"}]
  /\ call \in [Calls -> [phase : {"idle", "handed", "wrong", "asking", "admitted", "failed"},
                         claims : Peers, is : Peers]]
  /\ paused \in BOOLEAN
  /\ sent \subseteq Peers
  /\ backlog \in Seq(Conns)
  /\ IsInjective(backlog)
  /\ Range(backlog) = {c \in Conns : pipe[c] = "queued"}
  /\ Cardinality(Held) <= MaxPipes
  /\ stage # "running" => Held = {} /\ backlog = <<>>

(***************************************************************************)
(* The connector's credentials reach the peer they were meant for and      *)
(* nobody else ("a session to anyone else would hand that peer a grant it  *)
(* could replay"), by any of its ways to send a request: neither a session *)
(* to another peer nor one that only claims to reach this one gets them.   *)
(***************************************************************************)
CredentialsStayHome ==
  /\ TypeOK
  /\ dialer.credential => sent \subseteq {Dial}

Waits(c) == pipe[c] \in {"queued", "opening"}

(***************************************************************************)
(* No connection holds up the rest: one whose two sides ended gives its    *)
(* stream back though others wait for one; "every stream the peer grants   *)
(* can be used", whatever waits at the cap or behind a failed accept; and  *)
(* a forward whose session ended is over, instead of accepting connections *)
(* that could only fail.                                                   *)
(***************************************************************************)
ForwardGoesOn ==
  /\ \A c \in Conns :
       /\ pipe[c] = "ended" ~> pipe[c] # "ended"
       /\ (Waits(c) /\ Room) ~> (~Waits(c) \/ ~Room \/ session.state = "closed")
  /\ (stage = "running" /\ session.state = "closed") ~> stage = "over"
=============================================================================
