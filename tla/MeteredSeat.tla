----------------------------- MODULE MeteredSeat -----------------------------
(***************************************************************************)
(* The `stdin:` seat with the gauge it judges its holder by                *)
(* (src/raw_stream/seat.rs): Seated::serve wraps the writer toward the     *)
(* holder's peer in a Metered, every write is recorded, and Seat::take     *)
(* asks Meter::preemptible when another peer dials.                        *)
(*                                                                         *)
(* Seat alone lets `stalled` change at any moment; here it is what the     *)
(* gauge answers.  At most one dial serves at a time, so one gauge stands  *)
(* for the one each Seated carries: it is new when a serve starts.  Its    *)
(* clock starts then too, for the gauge only ever takes differences.       *)
(***************************************************************************)
EXTENDS Seat, Integers

CONSTANTS StallWindow, StallClear, StallMinBytes, MaxTake, MaxTime

ASSUME MeterAssumption ==
  /\ StallWindow \in Nat \ {0} /\ StallClear \in Nat \ {0}
  /\ StallMinBytes \in Nat \ {0} /\ MaxTake \in Nat \ {0}
  /\ MaxTime \in Nat

VARIABLES now, writer, window, taken, waited

gauge == <<now, writer, window, taken, waited>>

Gauge == INSTANCE Meter

mvars == <<cell, phase, lent, grant, preempted, stalled, gauge>>

Serving == {d \in Dials : phase[d] = "serving"}

MInit == Init /\ Gauge!Init

\* Meter::default
Renewed ==
  /\ now' = 0
  /\ writer' = Gauge!Unrefused
  /\ window' = {}
  /\ taken' = [t \in 0..MaxTime |-> 0]
  /\ waited' = {}

\* A serve starts with a new gauge, and takes it along when it ends.
Serve(d)  == StartServe(d) /\ Renewed
Ends(d)   == LetGo(d) /\ Renewed
Yields(d) == Displaced(d) /\ Renewed

\* Seat::claim, and what the lent reader does, write nothing to the peer.
Claims(d) ==
  /\ \/ TakeArmed(d) \/ RefuseSpent(d) \/ RefuseHeld(d) \/ Displace(d)
     \/ ReceiveReader(d) \/ ReceiveSpent(d) \/ TimesOut(d) \/ Cancelled(d)
     \/ ReadEnds(d)
  /\ UNCHANGED gauge

\* Mutant: every dial is judged by the one gauge.
JudgedAlike ==
  /\ stalled' = [d \in Dials |-> Gauge!Preemptible']
  /\ UNCHANGED <<cell, phase, lent, grant, preempted>>

\* What the seat would be told now, were another peer to dial.
Judged ==
  /\ stalled' = [d \in Dials |-> d \in Serving /\ Gauge!Preemptible']
  /\ UNCHANGED <<cell, phase, lent, grant, preempted>>

\* Metered::poll_write, for a write that waits or one that takes bytes.
Refuses == Serving # {} /\ Gauge!RecordPending /\ Judged

Accepts ==
  /\ Serving # {}
  /\ \E b \in 1..MaxTake : Gauge!RecordTaken(b)
  /\ Judged

Passes == Serving # {} /\ Gauge!Tick /\ Judged

MNext ==
  \/ \E d \in Dials : Serve(d) \/ Ends(d) \/ Yields(d) \/ Claims(d)
  \/ Refuses \/ Accepts \/ Passes

MSpec == MInit /\ [][MNext]_mvars

\* The fairness of Seat: the task that runs every stream polls it.
MFairSpec ==
  /\ MSpec
  /\ \A d \in Dials : /\ WF_mvars(Yields(d))
                      /\ WF_mvars(ReceiveReader(d) /\ UNCHANGED gauge)
                      /\ WF_mvars(ReceiveSpent(d) /\ UNCHANGED gauge)
-----------------------------------------------------------------------------
(* Properties *)

\* The serve that reads, and may be displaced by another peer's dial.
Reading == {d \in Serving : lent[d]}

\* The step gives no viewer up, or refuses one, without cause.
ForCause ==
  /\ Gauge!TypeOK
  /\ \A h \in Dials :
       ~preempted[h] /\ preempted'[h] => Gauge!StarvedItsSource
  /\ \A d \in Dials, h \in Reading :
       /\ Free(d) /\ phase'[d] = "refusedHeld" /\ phase[d] # "refusedHeld"
       /\ cell = Held(h) /\ PeerOf[h] # PeerOf[d]
       => ~Gauge!Stuck

(***************************************************************************)
(* The seat changes peers for cause, and always for cause.  A dial is told *)
(* to end only when its peer starved the source: over the last stall       *)
(* window it took fewer bytes than restart one and was never free of       *)
(* refusals for a whole clear period.  And a dial of another peer is never *)
(* refused the seat in favour of a holder that refused every byte for a    *)
(* whole window, unless somebody is already taking it over.  An idle       *)
(* source, whose writer never waits, is thus never taken from its viewer.  *)
(* All along the gauge keeps its shape.                                    *)
(***************************************************************************)
DisplacedForCause == [][ForCause]_mvars

(***************************************************************************)
(* The seat with its gauge is the seat: what the gauge answers between any *)
(* two steps of the seat is one of the changes Seat allows of it.          *)
(***************************************************************************)
ImplementsSeat == Spec
=============================================================================
