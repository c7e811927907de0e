------------------------------- MODULE Seat -------------------------------
(***************************************************************************)
(* The `stdin:` seat (src/raw_stream/seat.rs): one reader, lent to one     *)
(* dial at a time, given back by the guard that holds it however its       *)
(* splice ends, and handed straight to a waiting dial of another peer when *)
(* the holder has stopped reading.                                         *)
(*                                                                         *)
(* A "dial" is one stream that calls Seat::claim.  The stall gauge is the  *)
(* module Meter's; here `stalled` is what Meter::preemptible answers, and  *)
(* it may change at any moment while a splice runs.                        *)
(***************************************************************************)
CONSTANTS
  Dials,    \* the streams that ask for the seat
  Peers,    \* the peers behind them
  PeerOf,   \* the peer of each dial
  Nobody,   \* the seat names no dial / the source has no owner
  Ended     \* the owner of a source that has ended

ASSUME PeerAssumption ==
  /\ PeerOf \in [Dials -> Peers]
  /\ Nobody \notin Dials
  /\ Ended \notin Dials
  /\ Nobody # Ended

VARIABLES
  cell,       \* the seat's Cell: its state and the dial it names
  phase,      \* where each dial's claim stands
  lent,       \* whether the dial's SeatReader still has the reader
  grant,      \* what lies undelivered in the dial's hand-off channel
  preempted,  \* whether the dial was told to end its splice
  stalled     \* what the dial's Meter answers to `preemptible`

vars == <<cell, phase, lent, grant, preempted, stalled>>

Armed      == [state |-> "armed",   dial |-> Nobody]
Spent      == [state |-> "spent",   dial |-> Nobody]
Held(d)    == [state |-> "held",    dial |-> d]
Handing(d) == [state |-> "handing", dial |-> d]

Free(d)      == phase[d] \in {"idle", "refusedHeld", "refusedSpent"}
Listening(d) == phase[d] = "waiting"

(***************************************************************************)
(* The type invariant, with what a claim's phase says of its other state:  *)
(* only a guard holds the reader, only a serve is displaced or judged, and *)
(* only a dial that waits has something in its channel.                    *)
(***************************************************************************)
TypeOK ==
  /\ cell \in {Armed, Spent} \cup {Held(d) : d \in Dials}
                             \cup {Handing(d) : d \in Dials}
  /\ phase \in [Dials -> {"idle", "waiting", "seated", "serving",
                          "refusedHeld", "refusedSpent"}]
  /\ lent \in [Dials -> BOOLEAN]
  /\ grant \in [Dials -> {"none", "reader", "spent"}]
  /\ preempted \in [Dials -> BOOLEAN]
  /\ stalled \in [Dials -> BOOLEAN]
  /\ \A d \in Dials :
       /\ lent[d] => phase[d] \in {"seated", "serving"}
       /\ phase[d] = "seated" => lent[d]
       /\ preempted[d] \/ stalled[d] => phase[d] = "serving"
       /\ grant[d] # "none" => Listening(d)

Init ==
  /\ cell = Armed
  /\ phase = [d \in Dials |-> "idle"]
  /\ lent = [d \in Dials |-> FALSE]
  /\ grant = [d \in Dials |-> "none"]
  /\ preempted = [d \in Dials |-> FALSE]
  /\ stalled = [d \in Dials |-> FALSE]
-----------------------------------------------------------------------------
(***************************************************************************)
(* Seat::take, one action per arm.                                         *)
(***************************************************************************)
TakeArmed(d) ==
  /\ Free(d)
  /\ cell = Armed
  /\ cell' = Held(d)
  /\ phase' = [phase EXCEPT ![d] = "seated"]
  /\ lent' = [lent EXCEPT ![d] = TRUE]
  /\ UNCHANGED <<grant, preempted, stalled>>

RefuseSpent(d) ==
  /\ Free(d)
  /\ cell = Spent
  /\ phase' = [phase EXCEPT ![d] = "refusedSpent"]
  /\ UNCHANGED <<cell, lent, grant, preempted, stalled>>

\* Mutant: a peer may displace itself.
MayDisplaceAny(d, h) == stalled[h]

MayDisplace(d, h) == PeerOf[h] # PeerOf[d] /\ stalled[h]

RefuseHeld(d) ==
  /\ Free(d)
  /\ \/ cell.state = "handing"
     \/ cell.state = "held" /\ ~MayDisplace(d, cell.dial)
  /\ phase' = [phase EXCEPT ![d] = "refusedHeld"]
  /\ UNCHANGED <<cell, lent, grant, preempted, stalled>>

Displace(d) ==
  /\ Free(d)
  /\ cell.state = "held"
  /\ MayDisplace(d, cell.dial)
  /\ preempted' = [preempted EXCEPT ![cell.dial] = TRUE]
  /\ cell' = Handing(d)
  /\ phase' = [phase EXCEPT ![d] = "waiting"]
  /\ UNCHANGED <<lent, grant, stalled>>
-----------------------------------------------------------------------------
(***************************************************************************)
(* Seat::put_back.  A reader coming back goes to the dial that waits for   *)
(* it, if that dial still listens, and to the seat otherwise; a reader at  *)
(* end of input retires the seat and tells the dial that waits.  A seat    *)
(* nobody holds keeps what it has.                                         *)
(***************************************************************************)
HandsOn == cell.state = "handing" /\ Listening(cell.dial)

PutBackReading ==
  IF HandsOn
  THEN /\ cell' = Held(cell.dial)
       /\ grant' = [grant EXCEPT ![cell.dial] = "reader"]
  ELSE /\ cell' = IF cell.state \in {"held", "handing"} THEN Armed ELSE cell
       /\ UNCHANGED grant

\* Mutant: the dial that waits is not told the source ended.
PutBackUntold ==
  /\ cell' = IF cell.state \in {"held", "handing"} THEN Spent ELSE cell
  /\ UNCHANGED grant

PutBackEnded ==
  /\ cell' = IF cell.state \in {"held", "handing"} THEN Spent ELSE cell
  /\ grant' = IF HandsOn THEN [grant EXCEPT ![cell.dial] = "spent"] ELSE grant

(***************************************************************************)
(* The read that reaches end of input, or fails, spends the seat at once,  *)
(* while the splice that made it goes on.                                  *)
(***************************************************************************)
ReadEnds(d) ==
  /\ phase[d] = "serving"
  /\ lent[d]
  /\ lent' = [lent EXCEPT ![d] = FALSE]
  /\ PutBackEnded
  /\ UNCHANGED <<phase, preempted, stalled>>

\* Dropping a Seated or the serve over it drops the SeatReader.
DropSeated(d) ==
  /\ phase' = [phase EXCEPT ![d] = "idle"]
  /\ lent' = [lent EXCEPT ![d] = FALSE]
  /\ preempted' = [preempted EXCEPT ![d] = FALSE]
  /\ stalled' = [stalled EXCEPT ![d] = FALSE]
  /\ IF lent[d] THEN PutBackReading ELSE UNCHANGED <<cell, grant>>

StartServe(d) ==
  /\ phase[d] = "seated"
  /\ phase' = [phase EXCEPT ![d] = "serving"]
  /\ UNCHANGED <<cell, lent, grant, preempted, stalled>>

\* The splice ends on its own, fails, or its stream is refused or dropped.
LetGo(d) == phase[d] \in {"seated", "serving"} /\ DropSeated(d)

\* Mutant: a holder that reads again ignores that it was displaced.
DisplacedIfStalled(d) ==
  phase[d] = "serving" /\ preempted[d] /\ stalled[d] /\ DropSeated(d)

\* The serve's select sees the displacement.
Displaced(d) == phase[d] = "serving" /\ preempted[d] /\ DropSeated(d)
-----------------------------------------------------------------------------
(***************************************************************************)
(* The dial that waits: Seat::claim after Take::Waiting.                   *)
(***************************************************************************)
ReceiveReader(d) ==
  /\ Listening(d)
  /\ grant[d] = "reader"
  /\ grant' = [grant EXCEPT ![d] = "none"]
  /\ lent' = [lent EXCEPT ![d] = TRUE]
  /\ phase' = [phase EXCEPT ![d] = "seated"]
  /\ UNCHANGED <<cell, preempted, stalled>>

ReceiveSpent(d) ==
  /\ Listening(d)
  /\ grant[d] = "spent"
  /\ grant' = [grant EXCEPT ![d] = "none"]
  /\ phase' = [phase EXCEPT ![d] = "refusedSpent"]
  /\ UNCHANGED <<cell, lent, preempted, stalled>>

\* The wait outlives its bound; a grant already sent is received instead.
TimesOut(d) ==
  /\ Listening(d)
  /\ grant[d] = "none"
  /\ phase' = [phase EXCEPT ![d] = "refusedHeld"]
  /\ UNCHANGED <<cell, lent, grant, preempted, stalled>>

\* Mutant: the reader in a dropped channel is lost with it.
CancelledLosing(d) ==
  /\ Listening(d)
  /\ phase' = [phase EXCEPT ![d] = "idle"]
  /\ grant' = [grant EXCEPT ![d] = "none"]
  /\ UNCHANGED <<cell, lent, preempted, stalled>>

\* The stream is dropped while it waits (its session ended).  A reader that
\* lies in the dropped channel comes back through its guard.
Cancelled(d) ==
  /\ Listening(d)
  /\ phase' = [phase EXCEPT ![d] = "idle"]
  /\ grant' = [grant EXCEPT ![d] = "none"]
  /\ cell' = IF grant[d] = "reader" THEN Armed ELSE cell
  /\ UNCHANGED <<lent, preempted, stalled>>
-----------------------------------------------------------------------------
\* The holder's peer stops taking bytes for a whole stall window, or takes
\* enough again.
Stalls(d) ==
  /\ phase[d] = "serving"
  /\ ~stalled[d]
  /\ stalled' = [stalled EXCEPT ![d] = TRUE]
  /\ UNCHANGED <<cell, phase, lent, grant, preempted>>

Recovers(d) ==
  /\ stalled[d]
  /\ stalled' = [stalled EXCEPT ![d] = FALSE]
  /\ UNCHANGED <<cell, phase, lent, grant, preempted>>

Next ==
  \E d \in Dials :
    \/ TakeArmed(d) \/ RefuseSpent(d) \/ RefuseHeld(d) \/ Displace(d)
    \/ StartServe(d) \/ ReadEnds(d) \/ LetGo(d) \/ Displaced(d)
    \/ ReceiveReader(d) \/ ReceiveSpent(d) \/ TimesOut(d) \/ Cancelled(d)
    \/ Stalls(d) \/ Recovers(d)

Spec == Init /\ [][Next]_vars

(***************************************************************************)
(* A serve told to end is polled again by the task that runs every stream, *)
(* and so is a claim whose channel has an answer.  Nothing is assumed of   *)
(* the peers, of the source, or of the timer that bounds the wait.         *)
(***************************************************************************)
FairSpec ==
  /\ Spec
  /\ \A d \in Dials : /\ WF_vars(Displaced(d))
                      /\ WF_vars(ReceiveReader(d))
                      /\ WF_vars(ReceiveSpent(d))
-----------------------------------------------------------------------------
(* Properties *)

Holders == {d \in Dials : lent[d] \/ grant[d] = "reader"}

(***************************************************************************)
(* The reader is in exactly one place: the armed seat, one guard, or one   *)
(* undelivered grant; only end of input retires it.  The claim of the      *)
(* comment on Cell: "at most one peer reads" and "the reader is never      *)
(* dropped while it can still be read".                                    *)
(***************************************************************************)
ReaderInOnePlace ==
  /\ cell \in {Armed, Spent} => Holders = {}
  /\ cell \notin {Armed, Spent} => \E h \in Dials : Holders = {h}
  /\ \A d \in Dials : ~(lent[d] /\ grant[d] = "reader")

(***************************************************************************)
(* The seat always knows whom to displace: the dial a held cell names has  *)
(* the reader, and while a hand-off is in flight the dial that has it is   *)
(* another peer's and has been told to stop.                               *)
(***************************************************************************)
SeatKnowsItsHolder ==
  /\ cell.state = "held" => Holders = {cell.dial}
  /\ cell.state = "handing" =>
       \E h \in Dials : /\ Holders = {h}
                        /\ lent[h] /\ preempted[h] /\ phase[h] = "serving"
                        /\ PeerOf[h] # PeerOf[cell.dial]

(***************************************************************************)
(* The reader is never lost, never lent twice, and always within reach of  *)
(* the peer that may take it over.                                         *)
(***************************************************************************)
ReaderIsAccountedFor == ReaderInOnePlace /\ SeatKnowsItsHolder

(***************************************************************************)
(* A dial told "end of input" was told the truth, and one that waits waits *)
(* for something: an answer in its channel or the hand-off the seat holds. *)
(***************************************************************************)
AnswersAreTrue ==
  \A d \in Dials :
    /\ phase[d] = "refusedSpent" \/ grant[d] = "spent" => cell = Spent
    /\ Listening(d) => grant[d] # "none" \/ cell = Handing(d)

(***************************************************************************)
(* A dial that displaced a holder is answered without the help of the      *)
(* ten-second bound: the comment on Seat::claim that "the wait is one wake *)
(* in practice".                                                           *)
(***************************************************************************)
WaitEnds == \A d \in Dials : Listening(d) ~> ~Listening(d)

Owner ==
  IF cell = Armed THEN Nobody
  ELSE IF cell = Spent THEN Ended
  ELSE CHOOSE h \in Dials : h \in Holders

Source == INSTANCE SingleSource WITH owner <- Owner

(***************************************************************************)
(* The seat implements the single-owner source: a reader is lent, given    *)
(* back, handed to another peer's dial or ended, and nothing else.         *)
(***************************************************************************)
ImplementsSource == Source!Spec
=============================================================================
