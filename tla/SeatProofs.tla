----------------------------- MODULE SeatProofs -----------------------------
(***************************************************************************)
(* Proofs about the seat for every set of dials and peers.  The inductive  *)
(* invariant is the conjunction of the seat's own invariants: none of them *)
(* is inductive alone, because a hand-off moves the reader on the strength *)
(* of what the cell, the phases and the channels say together.             *)
(***************************************************************************)
EXTENDS MeteredSeat, TLAPS

IInv == TypeOK /\ ReaderInOnePlace /\ SeatKnowsItsHolder /\ AnswersAreTrue

(***************************************************************************)
(* The seat starts armed, with nobody in it.                               *)
(***************************************************************************)
LEMMA InitIInv == Init => IInv
  BY PeerAssumption
  DEF Init, IInv, TypeOK, ReaderInOnePlace, SeatKnowsItsHolder, AnswersAreTrue,
      Holders, Armed, Spent, Held, Handing, Listening

(***************************************************************************)
(* A cell is one of the four shapes, and its shape says whom it names.     *)
(***************************************************************************)
LEMMA CellShapes ==
  ASSUME TypeOK
  PROVE  \/ cell = Armed
         \/ cell = Spent
         \/ cell.state = "held" /\ cell.dial \in Dials /\ cell = Held(cell.dial)
         \/ cell.state = "handing" /\ cell.dial \in Dials /\ cell = Handing(cell.dial)
  BY DEF TypeOK, Armed, Spent, Held, Handing

(***************************************************************************)
(* Every arm of Seat::take keeps the invariant.                            *)
(***************************************************************************)
LEMMA TakeIInv ==
  ASSUME IInv, NEW d \in Dials,
         TakeArmed(d) \/ RefuseSpent(d) \/ RefuseHeld(d) \/ Displace(d)
  PROVE  IInv'
<1> USE PeerAssumption
<1>1. CASE TakeArmed(d)
  BY <1>1 DEF IInv, TypeOK, ReaderInOnePlace, SeatKnowsItsHolder, AnswersAreTrue,
      Holders, Armed, Spent, Held, Handing, Listening, Free, TakeArmed
<1>2. CASE RefuseSpent(d)
  BY <1>2 DEF IInv, TypeOK, ReaderInOnePlace, SeatKnowsItsHolder, AnswersAreTrue,
      Holders, Armed, Spent, Held, Handing, Listening, Free, RefuseSpent
<1>3. CASE RefuseHeld(d)
  BY <1>3 DEF IInv, TypeOK, ReaderInOnePlace, SeatKnowsItsHolder, AnswersAreTrue,
      Holders, Armed, Spent, Held, Handing, Listening, Free, RefuseHeld
<1>4. CASE Displace(d)
  BY <1>4 DEF IInv, TypeOK, ReaderInOnePlace, SeatKnowsItsHolder, AnswersAreTrue,
      Holders, Armed, Spent, Held, Handing, Listening, Free, Displace, MayDisplace
<1> QED BY <1>1, <1>2, <1>3, <1>4

(***************************************************************************)
(* A reader given back while it can still be read leaves the invariant     *)
(* whole, whoever drops the guard and whether or not a dial waits.         *)
(***************************************************************************)
LEMMA DropIInv ==
  ASSUME IInv, NEW d \in Dials, phase[d] \in {"seated", "serving"}, DropSeated(d)
  PROVE  IInv'
<1> USE PeerAssumption
<1>1. CASE ~lent[d]
  BY <1>1 DEF IInv, TypeOK, ReaderInOnePlace, SeatKnowsItsHolder, AnswersAreTrue,
      Holders, Armed, Spent, Held, Handing, Listening, DropSeated
<1>2. CASE lent[d] /\ ~HandsOn
  BY <1>2 DEF IInv, TypeOK, ReaderInOnePlace, SeatKnowsItsHolder, AnswersAreTrue,
      Holders, Armed, Spent, Held, Handing, Listening, DropSeated, PutBackReading, HandsOn
<1>3. CASE lent[d] /\ HandsOn
  BY <1>3 DEF IInv, TypeOK, ReaderInOnePlace, SeatKnowsItsHolder, AnswersAreTrue,
      Holders, Armed, Spent, Held, Handing, Listening, DropSeated, PutBackReading, HandsOn
<1> QED BY <1>1, <1>2, <1>3

(***************************************************************************)
(* Every step of a serve keeps the invariant: its start, the read that     *)
(* ends the input, its own end and its displacement.                       *)
(***************************************************************************)
LEMMA ServeIInv ==
  ASSUME IInv, NEW d \in Dials,
         StartServe(d) \/ ReadEnds(d) \/ LetGo(d) \/ Displaced(d)
  PROVE  IInv'
<1> USE PeerAssumption
<1>1. CASE StartServe(d)
  BY <1>1 DEF IInv, TypeOK, ReaderInOnePlace, SeatKnowsItsHolder, AnswersAreTrue,
      Holders, Armed, Spent, Held, Handing, Listening, StartServe
<1>2. CASE ReadEnds(d)
  BY <1>2 DEF IInv, TypeOK, ReaderInOnePlace, SeatKnowsItsHolder, AnswersAreTrue,
      Holders, Armed, Spent, Held, Handing, Listening, ReadEnds, PutBackEnded, HandsOn
<1>3. CASE LetGo(d) \/ Displaced(d)
  BY <1>3, DropIInv DEF LetGo, Displaced
<1> QED BY <1>1, <1>2, <1>3

(***************************************************************************)
(* Every way a waiting dial stops waiting keeps the invariant: an answer,  *)
(* the timer, or the end of its stream with the reader still undelivered.  *)
(***************************************************************************)
LEMMA WaitIInv ==
  ASSUME IInv, NEW d \in Dials,
         ReceiveReader(d) \/ ReceiveSpent(d) \/ TimesOut(d) \/ Cancelled(d)
  PROVE  IInv'
<1> USE PeerAssumption
<1>1. CASE ReceiveReader(d)
  BY <1>1 DEF IInv, TypeOK, ReaderInOnePlace, SeatKnowsItsHolder, AnswersAreTrue,
      Holders, Armed, Spent, Held, Handing, Listening, ReceiveReader
<1>2. CASE ReceiveSpent(d)
  BY <1>2 DEF IInv, TypeOK, ReaderInOnePlace, SeatKnowsItsHolder, AnswersAreTrue,
      Holders, Armed, Spent, Held, Handing, Listening, ReceiveSpent
<1>3. CASE TimesOut(d)
  BY <1>3 DEF IInv, TypeOK, ReaderInOnePlace, SeatKnowsItsHolder, AnswersAreTrue,
      Holders, Armed, Spent, Held, Handing, Listening, TimesOut
<1>4. CASE Cancelled(d)
  BY <1>4 DEF IInv, TypeOK, ReaderInOnePlace, SeatKnowsItsHolder, AnswersAreTrue,
      Holders, Armed, Spent, Held, Handing, Listening, Cancelled
<1> QED BY <1>1, <1>2, <1>3, <1>4

(***************************************************************************)
(* What the stall gauge answers moves nothing.                             *)
(***************************************************************************)
LEMMA GaugeIInv ==
  ASSUME IInv, NEW d \in Dials, Stalls(d) \/ Recovers(d)
  PROVE  IInv'
<1>1. UNCHANGED <<ReaderInOnePlace, SeatKnowsItsHolder, AnswersAreTrue>>
  BY DEF ReaderInOnePlace, SeatKnowsItsHolder, AnswersAreTrue, Holders, Listening,
      Armed, Spent, Held, Handing, Stalls, Recovers
<1>2. TypeOK'
  <2>1. CASE Stalls(d)
    BY <2>1 DEF IInv, TypeOK, Armed, Spent, Held, Handing, Listening, Stalls
  <2>2. CASE Recovers(d)
    BY <2>2 DEF IInv, TypeOK, Armed, Spent, Held, Handing, Listening, Recovers
  <2> QED BY <2>1, <2>2
<1> QED BY <1>1, <1>2 DEF IInv

\* Every step of the seat keeps the invariant.
LEMMA NextIInv == IInv /\ [Next]_vars => IInv'
<1>1. ASSUME IInv, NEW d \in Dials,
             TakeArmed(d) \/ RefuseSpent(d) \/ RefuseHeld(d) \/ Displace(d)
      PROVE  IInv'
  BY <1>1, TakeIInv
<1>2. ASSUME IInv, NEW d \in Dials,
             StartServe(d) \/ ReadEnds(d) \/ LetGo(d) \/ Displaced(d)
      PROVE  IInv'
  BY <1>2, ServeIInv
<1>3. ASSUME IInv, NEW d \in Dials,
             ReceiveReader(d) \/ ReceiveSpent(d) \/ TimesOut(d) \/ Cancelled(d)
      PROVE  IInv'
  BY <1>3, WaitIInv
<1>4. ASSUME IInv, NEW d \in Dials, Stalls(d) \/ Recovers(d)
      PROVE  IInv'
  BY <1>4, GaugeIInv
<1>5. CASE UNCHANGED vars
  BY <1>5 DEF vars, IInv, TypeOK, ReaderInOnePlace, SeatKnowsItsHolder, AnswersAreTrue,
      Holders, Armed, Spent, Held, Handing, Listening
<1> QED BY <1>1, <1>2, <1>3, <1>4, <1>5 DEF Next

(***************************************************************************)
(* The seat's invariant: the types, and what each claim's phase says of    *)
(* the rest of its state.                                                  *)
(***************************************************************************)
THEOREM SeatInvariant == Spec => []IInv
<1>1. Init => IInv
  BY InitIInv
<1>2. IInv /\ [Next]_vars => IInv'
  BY NextIInv
<1> QED BY <1>1, <1>2, PTL DEF Spec

\* The seat and the claims keep their types (TypeOK), for every set of dials.
THEOREM SeatTypeOK == Spec => []TypeOK
<1>1. IInv => TypeOK
  BY DEF IInv
<1> QED BY <1>1, SeatInvariant, PTL

(***************************************************************************)
(* The reader is never lost and never lent twice, whatever dials do, and   *)
(* the cell always names the dial that may be displaced: the one it hands  *)
(* off from is another peer's, reading, and told to stop.                  *)
(***************************************************************************)
THEOREM ReaderIsAccounted == Spec => []ReaderIsAccountedFor
<1>1. IInv => ReaderIsAccountedFor
  BY DEF IInv, ReaderIsAccountedFor
<1> QED BY <1>1, SeatInvariant, PTL

(***************************************************************************)
(* No dial is told the input ended before it did, and none waits for an    *)
(* answer nobody owes it.                                                  *)
(***************************************************************************)
THEOREM SeatAnswersTruly == Spec => []AnswersAreTrue
<1>1. IInv => AnswersAreTrue
  BY DEF IInv
<1> QED BY <1>1, SeatInvariant, PTL
-----------------------------------------------------------------------------
(***************************************************************************)
(* What the source's owner is, read off the cell and the guards.           *)
(***************************************************************************)
LEMMA OwnerOf ==
  ASSUME IInv
  PROVE  /\ cell = Armed => Owner = Nobody
         /\ cell = Spent => Owner = Ended
         /\ \A h \in Dials : Holders = {h} => Owner = h
<1>1. Armed # Spent
  BY DEF Armed, Spent
<1>2. ASSUME NEW h \in Dials, Holders = {h}
      PROVE  Owner = h
  <2>1. cell # Armed /\ cell # Spent
    BY <1>2 DEF IInv, ReaderInOnePlace
  <2> QED BY <1>2, <2>1 DEF Owner
<1> QED BY <1>1, <1>2 DEF Owner

\* Whoever has the reader is the only one who has it.
LEMMA HolderHolds ==
  ASSUME IInv, NEW d \in Dials, lent[d] \/ grant[d] = "reader"
  PROVE  Holders = {d} /\ cell # Armed /\ cell # Spent
<1>1. d \in Holders
  BY DEF Holders
<1>2. cell # Armed /\ cell # Spent
  BY <1>1 DEF IInv, ReaderInOnePlace
<1>3. PICK h \in Dials : Holders = {h}
  BY <1>2 DEF IInv, ReaderInOnePlace
<1> QED BY <1>1, <1>2, <1>3

(***************************************************************************)
(* A step that moves neither the reader nor the end of input is none of    *)
(* the source's.                                                           *)
(***************************************************************************)
LEMMA OwnerKept ==
  ASSUME UNCHANGED <<cell, lent, grant>>
  PROVE  Owner' = Owner
  BY DEF Owner, Holders, Armed, Spent

(***************************************************************************)
(* A reader put back is given back or handed to another peer's dial.       *)
(***************************************************************************)
LEMMA DropImplements ==
  ASSUME IInv, IInv', NEW d \in Dials, DropSeated(d)
  PROVE  Source!Next \/ Owner' = Owner
<1> USE PeerAssumption
<1>1. CASE ~lent[d]
  <2>1. lent' = lent /\ cell' = cell /\ grant' = grant
    BY <1>1 DEF DropSeated, IInv, TypeOK
  <2> QED BY <2>1, OwnerKept
<1>2. CASE lent[d] /\ ~HandsOn
  <2>1. Owner = d
    BY <1>2, HolderHolds, OwnerOf
  <2>2. cell' = Armed
    BY <1>2, HolderHolds, CellShapes DEF DropSeated, PutBackReading, IInv
  <2>3. Owner' = Nobody
    BY <2>2 DEF Owner, Armed
  <2> QED BY <2>1, <2>3 DEF Source!Next, Source!GiveBack
<1>3. CASE lent[d] /\ HandsOn
  <2>1. Owner = d
    BY <1>3, HolderHolds, OwnerOf
  <2>2. cell.dial \in Dials /\ PeerOf[d] # PeerOf[cell.dial]
    BY <1>3, HolderHolds, CellShapes DEF IInv, SeatKnowsItsHolder, HandsOn, Armed, Spent
  <2>3. grant'[cell.dial] = "reader"
    BY <1>3, <2>2 DEF DropSeated, PutBackReading, IInv, TypeOK
  <2>4. Owner' = cell.dial
    BY <2>2, <2>3 DEF Owner, IInv, ReaderInOnePlace, Holders, Armed, Spent
  <2> QED BY <2>1, <2>2, <2>4 DEF Source!Next, Source!HandOn
<1> QED BY <1>1, <1>2, <1>3

\* Every step of the seat is a step of the single-owner source, or none.
LEMMA NextImplements ==
  ASSUME IInv, IInv', [Next]_vars
  PROVE  [Source!Next]_Owner
<1> USE PeerAssumption
<1>1. ASSUME NEW d \in Dials, TakeArmed(d)
      PROVE  Source!Next
  <2>1. Owner = Nobody
    BY <1>1, OwnerOf DEF TakeArmed
  <2>2. lent'[d] /\ cell' # Armed' /\ cell' # Spent'
    BY <1>1 DEF TakeArmed, Held, Armed, Spent, IInv, TypeOK
  <2>3. Owner' = d
    BY <2>2 DEF Owner, IInv, ReaderInOnePlace, Holders, Armed, Spent
  <2> QED BY <2>1, <2>3 DEF Source!Next, Source!Lend
<1>2. ASSUME NEW d \in Dials,
             \/ RefuseSpent(d) \/ RefuseHeld(d) \/ StartServe(d) \/ TimesOut(d)
             \/ Stalls(d) \/ Recovers(d)
      PROVE  Owner' = Owner
  BY <1>2, OwnerKept DEF RefuseSpent, RefuseHeld, StartServe, TimesOut, Stalls, Recovers
<1>3. ASSUME NEW d \in Dials, Displace(d)
      PROVE  Owner' = Owner
  BY <1>3 DEF Displace, Owner, Holders, Handing, Armed, Spent
<1>4. ASSUME NEW d \in Dials, ReadEnds(d)
      PROVE  Source!Next
  <2>1. Owner = d
    BY <1>4, HolderHolds, OwnerOf DEF ReadEnds
  <2>2. cell' = Spent
    BY <1>4, HolderHolds, CellShapes DEF ReadEnds, PutBackEnded, IInv
  <2>3. Owner' = Ended
    BY <2>2 DEF Owner, Armed, Spent
  <2> QED BY <2>1, <2>3 DEF Source!Next, Source!End
<1>5. ASSUME NEW d \in Dials, LetGo(d) \/ Displaced(d)
      PROVE  Source!Next \/ Owner' = Owner
  BY <1>5, DropImplements DEF LetGo, Displaced
<1>6. ASSUME NEW d \in Dials, ReceiveReader(d)
      PROVE  Owner' = Owner
  <2>1. Holders' = Holders /\ cell' = cell
    BY <1>6 DEF ReceiveReader, Holders, IInv, TypeOK
  <2> QED BY <2>1 DEF Owner, Armed, Spent
<1>7. ASSUME NEW d \in Dials, ReceiveSpent(d)
      PROVE  Owner' = Owner
  BY <1>7 DEF ReceiveSpent, Owner, Armed, Spent, IInv, AnswersAreTrue
<1>8. ASSUME NEW d \in Dials, Cancelled(d)
      PROVE  Source!Next \/ Owner' = Owner
  <2>1. CASE grant[d] = "reader"
    <3>1. Owner = d
      BY <2>1, HolderHolds, OwnerOf
    <3>2. Owner' = Nobody
      BY <1>8, <2>1 DEF Cancelled, Owner, Armed
    <3> QED BY <3>1, <3>2 DEF Source!Next, Source!GiveBack
  <2>2. CASE grant[d] # "reader"
    <3>1. Holders' = Holders /\ cell' = cell
      BY <1>8, <2>2 DEF Cancelled, Holders, IInv, TypeOK
    <3> QED BY <3>1 DEF Owner, Armed, Spent
  <2> QED BY <2>1, <2>2
<1>9. CASE UNCHANGED vars
  BY <1>9, OwnerKept DEF vars
<1> QED BY <1>1, <1>2, <1>3, <1>4, <1>5, <1>6, <1>7, <1>8, <1>9 DEF Next

(***************************************************************************)
(* The seat implements the single-owner source, for every set of dials.    *)
(***************************************************************************)
THEOREM SeatImplementsSource == Spec => ImplementsSource
<1>1. Init => Source!Init
  BY DEF Init, Source!Init, Owner
<1>2. IInv /\ IInv' /\ [Next]_vars => [Source!Next]_Owner
  BY NextImplements
<1> QED BY <1>1, <1>2, SeatInvariant, PTL DEF Spec, ImplementsSource, Source!Spec
-----------------------------------------------------------------------------
(* One serve at a time *)

Busy(d) == phase[d] \in {"seated", "serving"}

(***************************************************************************)
(* At most one dial is seated, and it has the reader until the source      *)
(* ends: what lets one gauge stand for the one each Seated carries.        *)
(***************************************************************************)
Alone ==
  \A d \in Dials : Busy(d) => /\ \A e \in Dials : Busy(e) => e = d
                              /\ lent[d] \/ cell = Spent

\* A reader nobody's serve has leaves no dial seated, but for a source that
\* has ended.
LEMMA NobodyBusy ==
  ASSUME IInv, Alone, NEW d \in Dials, ~Busy(d),
         cell = Armed \/ grant[d] = "reader"
  PROVE  \A e \in Dials : ~Busy(e)
<1> SUFFICES ASSUME NEW e \in Dials, Busy(e) PROVE FALSE
  OBVIOUS
<1>1. cell # Spent
  <2>1. CASE cell = Armed
    BY <2>1 DEF Armed, Spent
  <2>2. CASE grant[d] = "reader"
    BY <2>2 DEF IInv, ReaderInOnePlace, Holders
  <2> QED BY <2>1, <2>2
<1>2. lent[e] /\ e \in Holders /\ e # d
  BY <1>1 DEF Alone, Holders
<1>3. Holders # {} /\ (grant[d] = "reader" => d \in Holders)
  BY <1>2 DEF Holders
<1> QED BY <1>2, <1>3 DEF IInv, ReaderInOnePlace

LEMMA AloneHolds ==
  ASSUME IInv, Alone, [Next]_vars
  PROVE  Alone'
<1>1. ASSUME NEW d \in Dials, TakeArmed(d) \/ ReceiveReader(d)
      PROVE  Alone'
  <2>1. \A e \in Dials : ~Busy(e)
    BY <1>1, NobodyBusy DEF TakeArmed, ReceiveReader, Free, Listening, Busy
  <2>2. lent'[d] /\ \A e \in Dials : phase'[e] = IF e = d THEN "seated" ELSE phase[e]
    BY <1>1 DEF TakeArmed, ReceiveReader, IInv, TypeOK
  <2> QED BY <2>1, <2>2 DEF Alone, Busy
<1>2. ASSUME NEW d \in Dials,
             \/ RefuseSpent(d) \/ RefuseHeld(d) \/ Displace(d) \/ ReceiveSpent(d)
             \/ TimesOut(d)
      PROVE  Alone'
  <2>1. /\ lent' = lent /\ \A e \in Dials : Busy(e)' => Busy(e)
    BY <1>2 DEF RefuseSpent, RefuseHeld, Displace, ReceiveSpent, TimesOut, Busy, IInv, TypeOK
  <2>2. cell' = cell \/ cell # Spent
    BY <1>2 DEF RefuseSpent, RefuseHeld, Displace, ReceiveSpent, TimesOut, Spent
  <2> QED BY <2>1, <2>2 DEF Alone
<1>3. ASSUME NEW d \in Dials, StartServe(d) \/ Stalls(d) \/ Recovers(d)
      PROVE  Alone'
  <2>1. /\ lent' = lent /\ cell' = cell /\ \A e \in Dials : Busy(e)' => Busy(e)
    BY <1>3 DEF StartServe, Stalls, Recovers, Busy, IInv, TypeOK
  <2> QED BY <2>1 DEF Alone
<1>4. ASSUME NEW d \in Dials, ReadEnds(d)
      PROVE  Alone'
  <2>1. cell' = Spent /\ phase' = phase
    BY <1>4, HolderHolds, CellShapes DEF ReadEnds, PutBackEnded, IInv
  <2> QED BY <2>1 DEF Alone, Busy, Spent
<1>5. ASSUME NEW d \in Dials, LetGo(d) \/ Displaced(d)
      PROVE  Alone'
  <2>1. Busy(d) /\ phase' = [phase EXCEPT ![d] = "idle"]
    BY <1>5 DEF LetGo, Displaced, DropSeated, Busy
  <2>2. \A e \in Dials : ~Busy(e)'
    BY <2>1 DEF Alone, Busy, IInv, TypeOK
  <2> QED BY <2>2 DEF Alone
<1>6. ASSUME NEW d \in Dials, Cancelled(d)
      PROVE  Alone'
  <2>1. lent' = lent /\ \A e \in Dials : Busy(e)' => Busy(e)
    BY <1>6 DEF Cancelled, Busy, IInv, TypeOK
  <2>2. CASE grant[d] = "reader"
    <3>1. \A e \in Dials : ~Busy(e)
      BY <1>6, <2>2, NobodyBusy DEF Cancelled, Listening, Busy
    <3> QED BY <2>1, <3>1 DEF Alone
  <2>3. CASE grant[d] # "reader"
    BY <1>6, <2>1, <2>3 DEF Cancelled, Alone
  <2> QED BY <2>2, <2>3
<1>7. CASE UNCHANGED vars
  BY <1>7 DEF vars, Alone, Busy
<1> QED BY <1>1, <1>2, <1>3, <1>4, <1>5, <1>6, <1>7 DEF Next
-----------------------------------------------------------------------------
(* The seat with its gauge is the seat *)

\* What the gauge answers while one dial serves is a step of that dial's.
LEMMA JudgedIsSeat ==
  ASSUME IInv, Alone, Judged
  PROVE  [Next]_vars
<1>1. /\ \A d \in Dials : stalled'[d] = (d \in Serving /\ Gauge!Preemptible')
      /\ stalled' = [d \in Dials |-> stalled'[d]]
      /\ UNCHANGED <<cell, phase, lent, grant, preempted>>
  BY DEF Judged
<1>2. stalled \in [Dials -> BOOLEAN] /\ \A d \in Dials : stalled[d] => d \in Serving
  BY DEF IInv, TypeOK, Serving
<1>3. CASE \A d \in Dials : stalled'[d] = stalled[d]
  BY <1>1, <1>2, <1>3 DEF vars
<1>4. ASSUME NEW s \in Dials, stalled'[s] # stalled[s]
      PROVE  Next
  <2>1. s \in Serving
    BY <1>1, <1>2, <1>4
  <2>2. \A d \in Dials \ {s} : d \notin Serving
    BY <2>1 DEF Serving, Alone, Busy
  <2>3. stalled'[s] \in BOOLEAN /\ \A d \in Dials \ {s} : stalled'[d] = stalled[d]
    BY <1>1, <1>2, <2>2
  <2>4. stalled' = [stalled EXCEPT ![s] = ~stalled[s]]
    BY <1>1, <1>2, <1>4, <2>3
  <2>5. CASE stalled[s]
    BY <1>1, <2>1, <2>4, <2>5 DEF Recovers, Next
  <2>6. CASE ~stalled[s]
    BY <1>1, <2>1, <2>4, <2>6 DEF Stalls, Next, Serving
  <2> QED BY <1>2, <2>5, <2>6
<1> QED BY <1>3, <1>4

LEMMA MeteredIsSeat ==
  ASSUME IInv, Alone, [MNext]_mvars
  PROVE  [Next]_vars
<1>1. ASSUME NEW d \in Dials, Serve(d) \/ Ends(d) \/ Yields(d) \/ Claims(d)
      PROVE  Next
  BY <1>1 DEF Serve, Ends, Yields, Claims, Next
<1>2. CASE Refuses \/ Accepts \/ Passes
  BY <1>2, JudgedIsSeat DEF Refuses, Accepts, Passes
<1>3. CASE UNCHANGED mvars
  BY <1>3 DEF mvars, vars
<1> QED BY <1>1, <1>2, <1>3 DEF MNext

LEMMA MeteredInvariant == MSpec => [](IInv /\ Alone)
<1>1. MInit => IInv /\ Alone
  BY InitIInv DEF MInit, Init, Alone, Busy
<1>2. IInv /\ Alone /\ [MNext]_mvars => IInv' /\ Alone'
  BY MeteredIsSeat, NextIInv, AloneHolds
<1> QED BY <1>1, <1>2, PTL DEF MSpec

(***************************************************************************)
(* The seat that judges its holder by the gauge is the seat whose verdicts *)
(* may change at any moment of a serve: whatever is proved of the one      *)
(* holds of the other.                                                     *)
(***************************************************************************)
THEOREM MeteredSeatIsTheSeat == MSpec => ImplementsSeat
<1>1. MInit => Init
  BY DEF MInit
<1>2. IInv /\ Alone /\ [MNext]_mvars => [Next]_vars
  BY MeteredIsSeat
<1> QED BY <1>1, <1>2, MeteredInvariant, PTL DEF MSpec, ImplementsSeat, Spec
-----------------------------------------------------------------------------
(* What the gauge remembers *)

\* Bytes are only ever added.
Rising == \A s, t \in 0..now : s <= t => taken[s] <= taken[t]

(***************************************************************************)
(* What the writer's state tells of the ticks so far: a refused writer     *)
(* waits, a clear one waited last when it was cleared, by bytes taken.     *)
(***************************************************************************)
Told ==
  /\ waited \subseteq 0..now
  /\ taken[now] <= Gauge!Before(now) + StallMinBytes
  /\ writer = Gauge!Unrefused <=> window = {}
  /\ writer = Gauge!Unrefused => waited = {}
  /\ writer = Gauge!Refused => now \in waited
  /\ writer.state = "clear" =>
       /\ writer.since \in waited
       /\ \A t \in waited : t <= writer.since
       /\ Gauge!Before(writer.since) < taken[writer.since]

(***************************************************************************)
(* A window counts the bytes taken after the tick it opened on, and none   *)
(* could have opened earlier: the writer was free, or bytes were taken.    *)
(***************************************************************************)
Opened ==
  \A w \in window :
    /\ w.opened <= now
    /\ taken[now] - taken[w.opened] <= w.taken
    /\ \A from \in 0..(w.opened - 1) :
         \/ \E t \in from..(w.opened - 1) : t \notin waited
         \/ Gauge!Before(from) < taken[w.opened]

\* Every clear period since an open window opened has a refusal in it.
Covered ==
  Gauge!WindowOpen =>
    \A w \in window : \A t \in w.opened..(now - StallClear) :
      waited \cap (t..(t + StallClear)) # {}

GaugeInv == Gauge!TypeOK /\ Rising /\ Told /\ Opened /\ Covered

\* A gauge that is new.
New ==
  /\ now = 0 /\ writer = Gauge!Unrefused /\ window = {}
  /\ taken = [t \in 0..MaxTime |-> 0] /\ waited = {}

LEMMA NewHolds ==
  ASSUME New
  PROVE  GaugeInv
<1>1. MaxTime \in Nat /\ StallMinBytes \in Nat /\ 0 \in 0..MaxTime
  BY MeterAssumption
<1>2. Gauge!TypeOK
  BY <1>1 DEF New, Gauge!TypeOK
<1>3. Gauge!Before(0) = 0 /\ taken[0] = 0
  BY <1>1 DEF New, Gauge!Before
<1>4. Gauge!Unrefused.state = "unrefused" /\ Gauge!Unrefused # Gauge!Refused
  BY DEF Gauge!Unrefused, Gauge!Refused
<1>5. Rising
  BY <1>3 DEF New, Rising
<1>6. Told
  BY <1>1, <1>3, <1>4 DEF New, Told
<1>7. Opened /\ Covered
  BY DEF New, Opened, Covered, Gauge!WindowOpen
<1> QED BY <1>2, <1>5, <1>6, <1>7 DEF GaugeInv

\* The shapes the steps of the gauge speak of.
LEMMA GaugeShapes ==
  ASSUME GaugeInv
  PROVE  /\ MaxTime \in Nat /\ StallWindow \in Nat \ {0} /\ StallClear \in Nat \ {0}
         /\ StallMinBytes \in Nat \ {0} /\ MaxTake \in Nat \ {0}
         /\ now \in Nat /\ now <= MaxTime /\ waited \subseteq 0..now
         /\ \A t \in 0..MaxTime : taken[t] \in Nat
         /\ taken = [t \in 0..MaxTime |-> taken[t]]
         /\ \A t \in 0..MaxTime : Gauge!Before(t) \in Nat
         /\ \/ writer = Gauge!Unrefused \/ writer = Gauge!Refused
            \/ writer.state = "clear" /\ writer.since \in 0..MaxTime
               /\ writer = Gauge!ClearSince(writer.since)
         /\ \A w \in window : /\ window = {w} /\ w = Gauge!Window(w.opened, w.taken)
                              /\ w.opened \in Nat /\ w.opened <= now
                              /\ w.taken \in Nat /\ w.taken < StallMinBytes
<1>1. /\ MaxTime \in Nat /\ StallWindow \in Nat \ {0} /\ StallClear \in Nat \ {0}
      /\ StallMinBytes \in Nat \ {0} /\ MaxTake \in Nat \ {0}
  BY MeterAssumption
<1>2. now \in Nat /\ now <= MaxTime /\ waited \subseteq 0..now
  BY <1>1 DEF GaugeInv, Gauge!TypeOK, Told
<1>3. taken \in [0..MaxTime -> Nat]
  BY DEF GaugeInv, Gauge!TypeOK
<1>4. \A t \in 0..MaxTime : Gauge!Before(t) \in Nat
  <2> SUFFICES ASSUME NEW t \in 0..MaxTime PROVE Gauge!Before(t) \in Nat
    OBVIOUS
  <2>1. t # 0 => t - 1 \in 0..MaxTime
    BY <1>1
  <2> QED BY <1>3, <2>1 DEF Gauge!Before
<1>5. \/ writer = Gauge!Unrefused \/ writer = Gauge!Refused
      \/ writer.state = "clear" /\ writer.since \in 0..MaxTime
         /\ writer = Gauge!ClearSince(writer.since)
  BY DEF GaugeInv, Gauge!TypeOK, Gauge!ClearSince
<1>6. ASSUME NEW w \in window
      PROVE  /\ window = {w} /\ w = Gauge!Window(w.opened, w.taken)
             /\ w.opened \in Nat /\ w.opened <= now
             /\ w.taken \in Nat /\ w.taken < StallMinBytes
  <2>1. PICK t \in 0..MaxTime, b \in 0..(StallMinBytes - 1) : window = {Gauge!Window(t, b)}
    BY <1>6 DEF GaugeInv, Gauge!TypeOK
  <2>2. w = Gauge!Window(t, b) /\ w.opened = t /\ w.taken = b
    BY <1>6, <2>1 DEF Gauge!Window
  <2>3. t \in Nat /\ b \in Nat /\ b < StallMinBytes
    BY <1>1
  <2> QED BY <1>6, <2>1, <2>2, <2>3 DEF GaugeInv, Opened
<1> QED BY <1>1, <1>2, <1>3, <1>4, <1>5, <1>6

LEMMA Earlier ==
  ASSUME GaugeInv, NEW s \in 0..now, NEW t \in 0..now, s <= t
  PROVE  Gauge!Before(s) <= taken[t]
<1>1. now \in Nat /\ \A u \in 0..now : taken[u] \in Nat
  BY GaugeShapes
<1>2. CASE s = 0
  BY <1>1, <1>2 DEF Gauge!Before
<1>3. CASE s # 0
  <2>1. s - 1 \in 0..now /\ s - 1 <= t
    BY <1>1, <1>3
  <2>2. taken[s - 1] <= taken[t]
    BY <2>1 DEF GaugeInv, Rising
  <2> QED BY <1>3, <2>2 DEF Gauge!Before
<1> QED BY <1>2, <1>3

LEMMA EarlierStill ==
  ASSUME GaugeInv, NEW s \in 0..now, NEW t \in 0..now, s <= t
  PROVE  Gauge!Before(s) <= Gauge!Before(t)
<1>1. now \in Nat
  BY GaugeShapes
<1>2. CASE s = t
  BY <1>1, <1>2, GaugeShapes
<1>3. CASE s # t
  <2>1. t - 1 \in 0..now /\ s <= t - 1 /\ t # 0
    BY <1>1, <1>3
  <2>2. Gauge!Before(s) <= taken[t - 1]
    BY <2>1, Earlier
  <2> QED BY <2>1, <2>2 DEF Gauge!Before
<1> QED BY <1>2, <1>3

LEMMA TickHolds ==
  ASSUME GaugeInv, Gauge!Tick
  PROVE  GaugeInv'
<1>1. PICK next \in Nat : next = now + 1
  BY GaugeShapes
<1>2. /\ now' = next /\ next = now + 1 /\ next \in 0..MaxTime /\ now \in 0..MaxTime /\ now \in Nat
      /\ taken' = [taken EXCEPT ![next] = taken[now]]
      /\ writer' = writer /\ window' = window
      /\ waited' = IF writer = Gauge!Refused THEN waited \cup {next} ELSE waited
  BY <1>1, GaugeShapes DEF Gauge!Tick
<1>3. /\ taken' \in [0..MaxTime -> Nat] /\ taken'[next] = taken[now]
      /\ \A t \in 0..now : taken'[t] = taken[t]
  BY <1>2 DEF GaugeInv, Gauge!TypeOK
<1>4. /\ Gauge!Before(next)' = taken[now]
      /\ \A t \in 0..now : Gauge!Before(t)' = Gauge!Before(t)
  BY <1>2, <1>3 DEF Gauge!Before
<1>5. Gauge!TypeOK'
  <2>1. waited' \subseteq 0..MaxTime
    BY <1>2 DEF GaugeInv, Gauge!TypeOK
  <2> QED BY <1>2, <1>3, <2>1 DEF GaugeInv, Gauge!TypeOK, Gauge!Unrefused, Gauge!Refused,
          Gauge!ClearSince, Gauge!Window
<1>6. Rising'
  BY <1>2, <1>3 DEF GaugeInv, Rising
<1>7. Told'
  <2>1. waited' \subseteq 0..next /\ (writer = Gauge!Refused => next \in waited')
    BY <1>2, GaugeShapes
  <2>2. taken'[next] <= Gauge!Before(next)' + StallMinBytes
    BY <1>2, <1>3, <1>4, GaugeShapes
  <2>3. writer = Gauge!Unrefused => window = {} /\ waited' = {}
    BY <1>2 DEF GaugeInv, Told, Gauge!Unrefused, Gauge!Refused
  <2>4. ASSUME writer.state = "clear"
        PROVE  /\ writer.since \in waited'
               /\ \A t \in waited' : t <= writer.since
               /\ Gauge!Before(writer.since)' < taken'[writer.since]
    <3>1. waited' = waited
      BY <1>2, <2>4 DEF Gauge!Refused
    <3>2. writer.since \in waited /\ writer.since \in 0..now
      BY <2>4, GaugeShapes DEF GaugeInv, Told
    <3> QED BY <1>2, <1>3, <1>4, <2>4, <3>1, <3>2 DEF GaugeInv, Told
  <2>5. window = {} => writer = Gauge!Unrefused
    BY DEF GaugeInv, Told
  <2>6. /\ (writer' = Gauge!Unrefused) <=> (window' = {})
        /\ writer' = Gauge!Unrefused => waited' = {}
        /\ writer' = Gauge!Refused => now' \in waited'
    BY <1>2, <2>1, <2>3, <2>5
  <2>7. waited' \subseteq 0..now' /\ taken'[now'] <= (Gauge!Before(now))' + StallMinBytes
    BY <1>2, <2>1, <2>2 DEF Gauge!Before
  <2>8. writer'.state = "clear" =>
          /\ writer'.since \in waited'
          /\ \A t \in waited' : t <= writer'.since
          /\ (Gauge!Before(writer.since))' < taken'[writer'.since]
    BY <1>2, <2>4 DEF Gauge!Before
  <2> QED BY <2>6, <2>7, <2>8 DEF Told, Gauge!Unrefused, Gauge!Refused
<1>8. Opened'
  <2> SUFFICES ASSUME NEW w \in window
               PROVE  /\ w.opened <= next
                      /\ taken'[next] - taken'[w.opened] <= w.taken
                      /\ \A from \in 0..(w.opened - 1) :
                           \/ \E t \in from..(w.opened - 1) : t \notin waited'
                           \/ Gauge!Before(from)' < taken'[w.opened]
    BY <1>2 DEF Opened
  <2>1. w.opened \in 0..now
    BY <1>2, GaugeShapes
  <2>2. /\ taken[now] - taken[w.opened] <= w.taken
        /\ \A from \in 0..(w.opened - 1) :
             \/ \E t \in from..(w.opened - 1) : t \notin waited
             \/ Gauge!Before(from) < taken[w.opened]
    BY DEF GaugeInv, Opened
  <2>3. ASSUME NEW from \in 0..(w.opened - 1), NEW t \in from..(w.opened - 1), t \notin waited
        PROVE  t \notin waited'
    <3>1. t # next
      BY <1>2, <2>1
    <3> QED BY <1>2, <2>3, <3>1
  <2>4. \A from \in 0..(w.opened - 1) : from \in 0..now
    BY <1>2, <2>1
  <2> QED BY <1>2, <1>3, <1>4, <2>1, <2>2, <2>3, <2>4
<1>9. Covered'
  <2> SUFFICES ASSUME Gauge!WindowOpen', NEW w \in window, NEW t \in w.opened..(next - StallClear)
               PROVE  waited' \cap (t..(t + StallClear)) # {}
    BY <1>2 DEF Covered
  <2>1. /\ window # {} /\ (writer = Gauge!Refused \/ writer.state = "clear")
        /\ writer # Gauge!Refused => next - writer.since < StallClear
    BY <1>2 DEF Gauge!WindowOpen
  <2>2. /\ StallClear \in Nat \ {0} /\ w.opened \in Nat /\ waited \subseteq 0..now
        /\ waited \subseteq waited'
    BY <1>2, GaugeShapes
  <2>3. CASE t = next - StallClear
    <3>1. CASE writer = Gauge!Refused
      BY <1>2, <2>2, <2>3, <3>1
    <3>2. CASE writer # Gauge!Refused
      <4>1. writer.since \in waited /\ next - writer.since < StallClear
        BY <2>1, <3>2 DEF GaugeInv, Told
      <4>2. writer.since \in t..(t + StallClear)
        BY <1>2, <2>2, <2>3, <4>1
      <4> QED BY <2>2, <4>1, <4>2
    <3> QED BY <3>1, <3>2
  <2>4. CASE t # next - StallClear
    <3>1. Gauge!WindowOpen
      <4>1. writer.state = "clear" => writer.since \in 0..now
        BY <2>2 DEF GaugeInv, Told
      <4> QED BY <1>2, <2>1, <2>2, <4>1 DEF Gauge!WindowOpen
    <3>2. t \in w.opened..(now - StallClear)
      BY <1>2, <2>2, <2>4
    <3> QED BY <2>2, <3>1, <3>2 DEF GaugeInv, Covered
  <2> QED BY <2>3, <2>4
<1> QED BY <1>5, <1>6, <1>7, <1>8, <1>9 DEF GaugeInv

\* A refusal opens a window now only if none that is open could stand for it.
LEMMA PendingHolds ==
  ASSUME GaugeInv, Gauge!RecordPending
  PROVE  GaugeInv'
<1>1. /\ now' = now /\ taken' = taken /\ writer # Gauge!Refused
      /\ writer' = Gauge!Refused /\ waited' = waited \cup {now}
      /\ window' = IF Gauge!WindowOpen THEN window ELSE {Gauge!Window(now, 0)}
  BY DEF Gauge!RecordPending
<1>2. /\ now \in Nat /\ now \in 0..MaxTime /\ StallClear \in Nat \ {0} /\ 0 \in 0..(StallMinBytes - 1)
      /\ waited \subseteq 0..now /\ \A t \in 0..now : taken[t] \in Nat
  BY GaugeShapes
<1>3. /\ Gauge!Refused.state = "refused" /\ Gauge!Refused # Gauge!Unrefused
      /\ Gauge!Window(now, 0).opened = now /\ Gauge!Window(now, 0).taken = 0
  BY DEF Gauge!Refused, Gauge!Unrefused, Gauge!Window
<1>4. Gauge!TypeOK'
  <2>1. waited' \subseteq 0..MaxTime
    <3>1. waited \subseteq 0..MaxTime /\ now \in 0..MaxTime
      BY DEF GaugeInv, Gauge!TypeOK
    <3> QED BY <1>1, <3>1
  <2>2. window' \in {{}} \cup {{Gauge!Window(t, b)} : t \in 0..MaxTime, b \in 0..(StallMinBytes - 1)}
    BY <1>1, <1>2 DEF GaugeInv, Gauge!TypeOK
  <2> QED BY <1>1, <2>1, <2>2 DEF GaugeInv, Gauge!TypeOK, Gauge!Unrefused, Gauge!Refused,
          Gauge!ClearSince, Gauge!Window
<1>5. Rising'
  BY <1>1 DEF GaugeInv, Rising
<1>6. Told'
  <2>1. (Gauge!Before(now))' = Gauge!Before(now)
    BY <1>1 DEF Gauge!Before
  <2>2. window' # {}
    BY <1>1 DEF Gauge!WindowOpen
  <2>3. waited' \subseteq 0..now' /\ now' \in waited'
    BY <1>1, <1>2
  <2> QED BY <1>1, <1>3, <2>1, <2>2, <2>3 DEF GaugeInv, Told, Gauge!Unrefused, Gauge!Refused
<1>7. ASSUME NEW from \in 0..(now - 1), ~Gauge!WindowOpen
      PROVE  \/ \E t \in from..(now - 1) : t \notin waited
             \/ Gauge!Before(from) < taken[now]
  <2>1. CASE writer = Gauge!Unrefused
    <3>1. waited = {} /\ from \in from..(now - 1)
      BY <1>2, <2>1 DEF GaugeInv, Told
    <3> QED BY <3>1
  <2>2. CASE writer.state = "clear"
    <3>1. PICK since \in 0..now : since = writer.since
      BY <1>2, <2>2 DEF GaugeInv, Told
    <3>2. (\A t \in waited : t <= since) /\ Gauge!Before(since) < taken[since]
      BY <2>2, <3>1 DEF GaugeInv, Told
    <3>3. window # {} /\ since < now
      <4>1. window # {}
        BY <2>2 DEF GaugeInv, Told, Gauge!Unrefused
      <4>2. ~(now - since < StallClear)
        BY <1>7, <2>2, <3>1, <4>1 DEF Gauge!WindowOpen
      <4> QED BY <1>2, <4>1, <4>2
    <3>4. CASE from <= since
      <4>1. Gauge!Before(from) <= Gauge!Before(since)
        BY <1>2, <3>3, <3>4, EarlierStill
      <4>2. taken[since] <= taken[now]
        BY <1>2, <3>3 DEF GaugeInv, Rising
      <4>3. /\ Gauge!Before(from) \in Nat /\ Gauge!Before(since) \in Nat
            /\ taken[since] \in Nat /\ taken[now] \in Nat
        BY <1>2, GaugeShapes
      <4> QED BY <3>2, <4>1, <4>2, <4>3
    <3>5. CASE ~(from <= since)
      <4>1. from \in from..(now - 1) /\ from \notin waited
        BY <1>2, <3>2, <3>5
      <4> QED BY <4>1
    <3> QED BY <3>4, <3>5
  <2> QED BY <1>1, <2>1, <2>2, GaugeShapes
<1>8. Opened'
  <2>1. CASE Gauge!WindowOpen
    <3> SUFFICES ASSUME NEW w \in window
                 PROVE  /\ w.opened <= now
                        /\ taken[now] - taken[w.opened] <= w.taken
                        /\ \A from \in 0..(w.opened - 1) :
                             \/ \E t \in from..(w.opened - 1) : t \notin waited'
                             \/ (Gauge!Before(from))' < taken[w.opened]
      BY <1>1, <2>1 DEF Opened
    <3>1. w.opened \in 0..now
      BY <1>2, GaugeShapes
    <3>2. ASSUME NEW from \in 0..(w.opened - 1), NEW t \in from..(w.opened - 1)
          PROVE  t # now
      BY <1>2, <3>1
    <3>3. \A from \in 0..(w.opened - 1) : (Gauge!Before(from))' = Gauge!Before(from)
      BY <1>1 DEF Gauge!Before
    <3> QED BY <1>1, <3>2, <3>3 DEF GaugeInv, Opened
  <2>2. CASE ~Gauge!WindowOpen
    <3>1. \A from \in 0..(now - 1) : (Gauge!Before(from))' = Gauge!Before(from)
      BY <1>1 DEF Gauge!Before
    <3>2. \A from \in 0..(now - 1) : \A t \in from..(now - 1) : t # now
      BY <1>2
    <3>3. \A from \in 0..(now - 1) :
             \/ \E t \in from..(now - 1) : t \notin waited'
             \/ (Gauge!Before(from))' < taken[now]
      BY <1>1, <1>7, <2>2, <3>1, <3>2
    <3>4. now <= now /\ taken[now] - taken[now] <= 0
      BY <1>2
    <3> QED BY <1>1, <1>3, <2>2, <3>3, <3>4 DEF Opened, Gauge!Window
  <2> QED BY <2>1, <2>2
<1>9. Covered'
  <2> SUFFICES ASSUME NEW w \in window', NEW t \in w.opened..(now - StallClear)
               PROVE  waited' \cap (t..(t + StallClear)) # {}
    BY <1>1 DEF Covered
  <2>1. CASE Gauge!WindowOpen
    BY <1>1, <2>1 DEF GaugeInv, Covered
  <2>2. CASE ~Gauge!WindowOpen
    <3>1. w.opened = now
      BY <1>1, <1>3, <2>2
    <3> QED BY <1>2, <3>1
  <2> QED BY <2>1, <2>2
<1> QED BY <1>4, <1>5, <1>6, <1>8, <1>9 DEF GaugeInv

\* What a window becomes: it counts the bytes, or restarts on this tick.
LEMMA CreditedIs ==
  ASSUME GaugeInv, NEW w \in window, NEW b \in Nat
  PROVE  \/ w.taken + b < StallMinBytes
            /\ Gauge!Credited(w, b) = Gauge!Window(w.opened, w.taken + b)
         \/ Gauge!Credited(w, b) = Gauge!Window(now, 0)
<1>1. w.taken \in Nat /\ StallMinBytes \in Nat
  BY GaugeShapes
<1> QED BY <1>1 DEF Gauge!Credited

(***************************************************************************)
(* Bytes that are taken are counted in the window they fall in, and a      *)
(* window restarts only on a tick on which bytes were taken.               *)
(***************************************************************************)
LEMMA TakenHolds ==
  ASSUME GaugeInv, NEW b \in 1..MaxTake, Gauge!RecordTaken(b)
  PROVE  GaugeInv'
<1>1. /\ now' = now /\ waited' = waited
      /\ writer' = IF writer = Gauge!Refused THEN Gauge!ClearSince(now) ELSE writer
      /\ window' = {Gauge!Credited(w, b) : w \in window}
      /\ taken' = [taken EXCEPT ![now] = Gauge!Counted(b)]
  BY DEF Gauge!RecordTaken
<1>2. PICK max \in Nat, most \in Nat : max = MaxTake /\ most = StallMinBytes /\ most >= 1
  BY GaugeShapes
<1>3. /\ now \in Nat /\ now \in 0..MaxTime /\ MaxTime \in Nat /\ now <= MaxTime
      /\ StallClear \in Nat \ {0} /\ b \in Nat /\ b >= 1
      /\ waited \subseteq 0..now /\ waited \subseteq 0..MaxTime
  <2>1. b \in Nat /\ b >= 1
    <3>1. b \in 1..max
      BY <1>2
    <3> QED BY <3>1
  <2>2. waited \subseteq 0..MaxTime /\ now \in 0..MaxTime
    BY DEF GaugeInv, Gauge!TypeOK
  <2>3. /\ now \in Nat /\ MaxTime \in Nat /\ now <= MaxTime /\ StallClear \in Nat \ {0}
        /\ waited \subseteq 0..now
    BY GaugeShapes
  <2> QED BY <2>1, <2>2, <2>3
<1>4. PICK before \in Nat, old \in Nat, new \in Nat :
        /\ before = Gauge!Before(now) /\ old = taken[now] /\ new = Gauge!Counted(b)
        /\ before <= old /\ old <= before + most
        /\ old <= new /\ new <= old + b /\ new <= before + most /\ before < new
  <2>1. PICK before \in Nat, old \in Nat :
          /\ before = Gauge!Before(now) /\ old = taken[now]
          /\ before <= old /\ old <= before + most
    <3>1. Gauge!Before(now) \in Nat /\ taken[now] \in Nat
      BY <1>3, GaugeShapes
    <3>2. Gauge!Before(now) <= taken[now]
      BY <1>3, Earlier
    <3>3. taken[now] <= Gauge!Before(now) + most
      BY <1>2 DEF GaugeInv, Told
    <3> QED BY <3>1, <3>2, <3>3
  <2>2. Gauge!Counted(b) = IF old + b > before + most THEN before + most ELSE old + b
    BY <1>2, <2>1 DEF Gauge!Counted
  <2>3. PICK new \in Nat : new = IF old + b > before + most THEN before + most ELSE old + b
    BY <1>3
  <2> QED BY <1>2, <1>3, <2>1, <2>2, <2>3
<1>5. /\ taken' \in [0..MaxTime -> Nat] /\ taken'[now] = new
      /\ \A t \in 0..MaxTime : t # now => taken'[t] = taken[t]
  BY <1>1, <1>3, <1>4 DEF GaugeInv, Gauge!TypeOK
<1>6. \A t \in 0..now : (Gauge!Before(t))' = Gauge!Before(t)
  <2> SUFFICES ASSUME NEW t \in 0..now PROVE (Gauge!Before(t))' = Gauge!Before(t)
    OBVIOUS
  <2>1. CASE t = 0
    BY <2>1 DEF Gauge!Before
  <2>2. CASE t # 0
    <3>1. t - 1 \in 0..MaxTime /\ t - 1 # now
      BY <1>3, <2>2
    <3> QED BY <1>5, <2>2, <3>1 DEF Gauge!Before
  <2> QED BY <2>1, <2>2
<1>7. (Gauge!Before(now))' = before
  <2>1. PICK here \in 0..now : here = now
    BY <1>3
  <2>2. (Gauge!Before(now))' = (Gauge!Before(here))'
    BY <1>1, <2>1 DEF Gauge!Before
  <2> QED BY <1>4, <1>6, <2>1, <2>2
<1>8. \A w \in window : /\ w.opened \in 0..now /\ w.opened \in 0..MaxTime /\ w.taken \in Nat
                        /\ w.taken < most /\ window' = {Gauge!Credited(w, b)}
  <2>1. ASSUME NEW w \in window
        PROVE  /\ w.opened \in Nat /\ w.opened <= now /\ window = {w}
               /\ w.taken \in Nat /\ w.taken < most
    BY <1>2, GaugeShapes
  <2>2. ASSUME NEW w \in window
        PROVE  w.opened \in 0..now /\ w.opened \in 0..MaxTime
    BY <1>3, <2>1
  <2>3. ASSUME NEW w \in window
        PROVE  window' = {Gauge!Credited(w, b)}
    BY <1>1, <2>1
  <2> QED BY <2>1, <2>2, <2>3
<1>9. \A u \in window' : \E w \in window :
        \/ /\ u.opened = w.opened /\ u.taken = w.taken + b /\ w.taken + b < most
           /\ u = Gauge!Window(w.opened, w.taken + b)
        \/ u.opened = now /\ u.taken = 0 /\ u = Gauge!Window(now, 0)
  <2> SUFFICES ASSUME NEW w \in window, NEW u, u = Gauge!Credited(w, b)
               PROVE  \/ /\ u.opened = w.opened /\ u.taken = w.taken + b /\ w.taken + b < most
                         /\ u = Gauge!Window(w.opened, w.taken + b)
                      \/ u.opened = now /\ u.taken = 0 /\ u = Gauge!Window(now, 0)
    BY <1>1
  <2>1. \/ w.taken + b < most /\ u = Gauge!Window(w.opened, w.taken + b)
        \/ u = Gauge!Window(now, 0)
    BY <1>2, <1>3, CreditedIs
  <2> QED BY <2>1 DEF Gauge!Window
<1>10. Gauge!TypeOK'
  <2>1. writer' \in {Gauge!Unrefused, Gauge!Refused}
                     \cup {Gauge!ClearSince(t) : t \in 0..MaxTime}
    BY <1>1, <1>3 DEF GaugeInv, Gauge!TypeOK
  <2>2. window' \in {{}} \cup {{Gauge!Window(t, n)} : t \in 0..MaxTime, n \in 0..(most - 1)}
    <3>1. CASE window = {}
      BY <1>1, <3>1
    <3>2. ASSUME NEW w \in window
          PROVE  \E t \in 0..MaxTime, n \in 0..(most - 1) : window' = {Gauge!Window(t, n)}
      <4>1. CASE Gauge!Credited(w, b) = Gauge!Window(now, 0)
        <5>1. 0 \in 0..(most - 1)
          BY <1>2
        <5> QED BY <1>3, <1>8, <4>1, <5>1
      <4>2. CASE /\ w.taken + b < most
                 /\ Gauge!Credited(w, b) = Gauge!Window(w.opened, w.taken + b)
        <5>1. PICK n \in Nat : n = w.taken + b
          BY <1>3, <1>8
        <5>2. n \in 0..(most - 1)
          BY <4>2, <5>1
        <5> QED BY <1>8, <4>2, <5>1, <5>2
      <4> QED BY <1>2, <1>3, <4>1, <4>2, CreditedIs
    <3> QED BY <3>1, <3>2
  <2>3. now' \in 0..MaxTime /\ waited' \subseteq 0..MaxTime
    BY <1>1, <1>3
  <2>4. window' \in {{}} \cup {{Gauge!Window(t, n)} : t \in 0..MaxTime,
                                                     n \in 0..(StallMinBytes - 1)}
    BY <1>2, <2>2
  <2> QED BY <1>5, <2>1, <2>3, <2>4
          DEF Gauge!TypeOK, Gauge!Unrefused, Gauge!Refused, Gauge!ClearSince, Gauge!Window
<1>11. Rising'
  <2> SUFFICES ASSUME NEW s \in 0..now, NEW t \in 0..now, s <= t
               PROVE  taken'[s] <= taken'[t]
    BY <1>1 DEF Rising
  <2>1. s \in 0..MaxTime /\ t \in 0..MaxTime /\ taken[s] <= taken[t] /\ taken[s] \in Nat
    <3>1. s \in 0..MaxTime /\ t \in 0..MaxTime
      BY <1>3
    <3>2. taken[s] <= taken[t]
      BY DEF GaugeInv, Rising
    <3> QED BY <3>1, <3>2, GaugeShapes
  <2>2. CASE t # now
    <3>1. s # now
      BY <1>3, <2>2
    <3> QED BY <1>5, <2>1, <2>2, <3>1
  <2>3. CASE t = now /\ s # now
    BY <1>4, <1>5, <2>1, <2>3
  <2>4. CASE t = now /\ s = now
    BY <1>4, <1>5, <2>4
  <2> QED BY <2>2, <2>3, <2>4
<1>12. Told'
  <2>1. taken'[now] <= (Gauge!Before(now))' + most
    BY <1>4, <1>5, <1>7
  <2>2. /\ (writer' = Gauge!Unrefused) <=> (window' = {})
        /\ writer' = Gauge!Unrefused => waited' = {}
        /\ writer' # Gauge!Refused
    <3>1. (writer = Gauge!Unrefused) <=> (window = {})
      BY DEF GaugeInv, Told
    <3>2. writer = Gauge!Unrefused => waited = {}
      BY DEF GaugeInv, Told
    <3>3. (window' = {}) <=> (window = {})
      BY <1>1
    <3> QED BY <1>1, <3>1, <3>2, <3>3
            DEF Gauge!Unrefused, Gauge!Refused, Gauge!ClearSince
  <2>3. ASSUME writer'.state = "clear"
        PROVE  /\ writer'.since \in waited'
               /\ \A t \in waited' : t <= writer'.since
               /\ (Gauge!Before(writer.since))' < taken'[writer'.since]
    <3>1. CASE writer = Gauge!Refused
      <4>1. writer'.since = now /\ now \in waited
        BY <1>1, <3>1 DEF GaugeInv, Told, Gauge!ClearSince
      <4>2. \A t \in waited : t <= now
        BY <1>3
      <4>3. (Gauge!Before(writer.since))' = before
        <5>1. (Gauge!Before(writer.since))' = (Gauge!Before(now))'
          BY <1>1, <4>1 DEF Gauge!Before
        <5> QED BY <1>7, <5>1
      <4> QED BY <1>1, <1>4, <1>5, <4>1, <4>2, <4>3
    <3>2. CASE writer # Gauge!Refused
      <4>1. PICK since \in 0..now :
              /\ since = writer.since /\ writer' = writer /\ since \in waited
              /\ \A t \in waited : t <= since
              /\ Gauge!Before(since) < taken[since]
        BY <1>1, <1>3, <2>3, <3>2 DEF GaugeInv, Told
      <4>2. (Gauge!Before(writer.since))' = Gauge!Before(since)
        <5>1. (Gauge!Before(writer.since))' = (Gauge!Before(since))'
          BY <4>1 DEF Gauge!Before
        <5> QED BY <1>6, <5>1
      <4>3. Gauge!Before(since) < taken'[since]
        <5>1. since \in 0..MaxTime /\ Gauge!Before(since) \in Nat /\ taken[since] \in Nat
          BY <1>3, GaugeShapes
        <5>2. CASE since = now
          BY <1>4, <1>5, <5>2
        <5>3. CASE since # now
          BY <1>5, <4>1, <5>1, <5>3
        <5> QED BY <5>2, <5>3
      <4> QED BY <1>1, <4>1, <4>2, <4>3
    <3> QED BY <3>1, <3>2
  <2> QED BY <1>1, <1>2, <1>3, <2>1, <2>2, <2>3 DEF Told, Gauge!Unrefused, Gauge!Refused
<1>13. Opened'
  <2> SUFFICES ASSUME NEW u \in window'
               PROVE  /\ u.opened <= now
                      /\ taken'[now] - taken'[u.opened] <= u.taken
                      /\ \A from \in 0..(u.opened - 1) :
                           \/ \E t \in from..(u.opened - 1) : t \notin waited
                           \/ (Gauge!Before(from))' < taken'[u.opened]
    BY <1>1 DEF Opened
  <2>1. CASE u.opened = now /\ u.taken = 0
    <3>1. taken'[now] - taken'[now] <= 0 /\ now <= now
      BY <1>3, <1>4, <1>5
    <3>2. ASSUME NEW from \in 0..(now - 1)
          PROVE  (Gauge!Before(from))' < taken'[now]
      <4>1. from \in 0..now /\ from <= now
        BY <1>3
      <4>2. Gauge!Before(from) <= before /\ Gauge!Before(from) \in Nat
        <5>1. now \in 0..now /\ from \in 0..MaxTime
          BY <1>3
        <5> QED BY <1>4, <4>1, <5>1, EarlierStill, GaugeShapes
      <4> QED BY <1>4, <1>5, <1>6, <4>1, <4>2
    <3> QED BY <2>1, <3>1, <3>2
  <2>2. ASSUME NEW w \in window, u.opened = w.opened, u.taken = w.taken + b
        PROVE  /\ u.opened <= now
               /\ taken'[now] - taken'[u.opened] <= u.taken
               /\ \A from \in 0..(u.opened - 1) :
                    \/ \E t \in from..(u.opened - 1) : t \notin waited
                    \/ (Gauge!Before(from))' < taken'[u.opened]
    <3>1. PICK at \in Nat, seen \in Nat, was \in Nat :
            /\ at = w.opened /\ at <= now /\ seen = w.taken
            /\ was = taken[at] /\ old - was <= seen
            /\ at = now => taken'[at] = new /\ was = old
            /\ at # now => taken'[at] = was
      <4>1. /\ w.opened \in Nat /\ w.opened <= now /\ w.opened \in 0..MaxTime
            /\ w.taken \in Nat /\ taken[w.opened] \in Nat
        BY <1>3, <1>8, GaugeShapes
      <4>2. taken[now] - taken[w.opened] <= w.taken
        BY DEF GaugeInv, Opened
      <4>3. /\ w.opened = now => taken'[w.opened] = new /\ taken[w.opened] = old
            /\ w.opened # now => taken'[w.opened] = taken[w.opened]
            /\ old - taken[w.opened] <= w.taken
        BY <1>4, <1>5, <4>1, <4>2
      <4> QED BY <4>1, <4>3
    <3>2. PICK is \in Nat : /\ is = taken'[at] /\ was <= is
                            /\ (at = now => is = new) /\ (at # now => is = was)
      BY <1>4, <3>1
    <3>3. new - is <= seen + b
      BY <1>3, <1>4, <3>1, <3>2
    <3>4. ASSUME NEW from \in 0..(at - 1)
          PROVE  \/ \E t \in from..(at - 1) : t \notin waited
                 \/ (Gauge!Before(from))' < is
      <4>1. from \in 0..now
        BY <1>3, <3>1
      <4>2. \/ \E t \in from..(at - 1) : t \notin waited
            \/ Gauge!Before(from) < was
        BY <3>1 DEF GaugeInv, Opened
      <4>3. Gauge!Before(from) \in Nat /\ (Gauge!Before(from))' = Gauge!Before(from)
        <5>1. from \in 0..MaxTime
          BY <1>3, <4>1
        <5> QED BY <1>6, <4>1, <5>1, GaugeShapes
      <4> QED BY <3>2, <4>2, <4>3
    <3> QED BY <1>5, <2>2, <3>1, <3>3, <3>4, <3>2
  <2> QED BY <1>9, <2>1, <2>2
<1>14. Covered'
  <2> SUFFICES ASSUME Gauge!WindowOpen', NEW u \in window', NEW t \in u.opened..(now - StallClear)
               PROVE  waited \cap (t..(t + StallClear)) # {}
    BY <1>1 DEF Covered
  <2>1. Gauge!WindowOpen
    <3>1. window # {}
      BY <1>1
    <3>2. writer = Gauge!Refused \/ writer' = writer
      BY <1>1
    <3> QED BY <1>1, <3>1, <3>2 DEF Gauge!WindowOpen, Gauge!Refused
  <2>2. CASE u.opened = now
    BY <1>3, <2>2
  <2>3. ASSUME NEW w \in window, u.opened = w.opened
        PROVE  waited \cap (t..(t + StallClear)) # {}
    BY <2>1, <2>3 DEF GaugeInv, Covered
  <2> QED BY <1>9, <2>2, <2>3
<1> QED BY <1>10, <1>11, <1>12, <1>13, <1>14 DEF GaugeInv
-----------------------------------------------------------------------------
(* What the gauge's verdict means *)

\* A window that was open for its whole time starved the source all along.
LEMMA PreemptibleStarved ==
  ASSUME GaugeInv, Gauge!Preemptible
  PROVE  Gauge!StarvedItsSource
<1>1. PICK w \in window : now - w.opened >= StallWindow
  BY DEF Gauge!Preemptible
<1>2. PICK opened \in Nat, count \in Nat, span \in Nat, most \in Nat :
        /\ opened = w.opened /\ count = w.taken /\ count < most
        /\ span = StallWindow /\ span >= 1 /\ most = StallMinBytes
  BY GaugeShapes
<1>3. PICK first \in Nat : first = now - span /\ opened <= first /\ first <= now
  BY <1>1, <1>2, GaugeShapes
<1>4. now >= StallWindow
  BY <1>2, <1>3, GaugeShapes
<1>5. Gauge!TakenIn(now - StallWindow + 1, now) < StallMinBytes
  <2>1. /\ now \in 0..now /\ first \in 0..now /\ opened \in 0..now /\ now \in Nat
        /\ first \in 0..MaxTime /\ opened \in 0..MaxTime /\ now \in 0..MaxTime
    BY <1>3, GaugeShapes
  <2>2. PICK all \in Nat, early \in Nat, at \in Nat :
          all = taken[now] /\ early = taken[first] /\ at = taken[opened]
    BY <2>1, GaugeShapes
  <2>3. at <= early /\ all - at <= count
    BY <1>2, <1>3, <2>1, <2>2 DEF GaugeInv, Rising, Opened
  <2>4. Gauge!Before(now - StallWindow + 1) = early
    <3>1. now - StallWindow + 1 # 0 /\ (now - StallWindow + 1) - 1 = first
      BY <1>2, <1>3, <2>1
    <3> QED BY <2>2, <3>1 DEF Gauge!Before
  <2> QED BY <1>2, <2>2, <2>3, <2>4 DEF Gauge!TakenIn
<1>6. ASSUME NEW t \in (now - StallWindow)..(now - StallClear)
      PROVE  waited \cap (t..(t + StallClear)) # {}
  <2>1. t \in w.opened..(now - StallClear)
    BY <1>2, <1>3, GaugeShapes
  <2> QED BY <2>1 DEF GaugeInv, Covered, Gauge!Preemptible
<1> QED BY <1>4, <1>5, <1>6 DEF Gauge!StarvedItsSource

\* A writer refused for a whole window has a window open that long.
LEMMA StuckIsPreemptible ==
  ASSUME GaugeInv, Gauge!Stuck
  PROVE  Gauge!Preemptible
<1>1. PICK w \in window : TRUE
  BY DEF GaugeInv, Told, Gauge!Stuck, Gauge!Refused, Gauge!Unrefused
<1>2. Gauge!WindowOpen
  BY <1>1 DEF Gauge!Stuck, Gauge!WindowOpen
<1>3. PICK opened \in Nat, span \in Nat :
        opened = w.opened /\ opened <= now /\ span = StallWindow
  BY GaugeShapes
<1>4. PICK first \in Nat : first = now - span /\ first <= now
  BY <1>3, GaugeShapes DEF Gauge!Stuck
<1>5. /\ now \in Nat /\ first \in 0..now /\ opened \in 0..now /\ now \in 0..now
      /\ first \in 0..MaxTime /\ opened \in 0..MaxTime /\ now \in 0..MaxTime
  BY <1>3, <1>4, GaugeShapes
<1>6. ~(first < opened)
  <2> SUFFICES ASSUME first < opened PROVE FALSE
    OBVIOUS
  <2>1. first \in 0..(opened - 1) /\ first..(opened - 1) \subseteq first..now
    BY <1>3, <1>5
  <2>2. first..now \subseteq waited /\ taken[now] - Gauge!Before(first) = 0
    BY <1>3, <1>4 DEF Gauge!Stuck, Gauge!TakenIn
  <2>3. Gauge!Before(first) < taken[opened]
    BY <1>3, <2>1, <2>2 DEF GaugeInv, Opened
  <2>4. taken[opened] <= taken[now]
    BY <1>3, <1>5 DEF GaugeInv, Rising
  <2>5. taken[opened] \in Nat /\ taken[now] \in Nat /\ Gauge!Before(first) \in Nat
    BY <1>5, GaugeShapes
  <2> QED BY <2>2, <2>3, <2>4, <2>5
<1>7. now - w.opened >= StallWindow
  BY <1>3, <1>4, <1>5, <1>6
<1> QED BY <1>2, <1>7 DEF Gauge!Preemptible
-----------------------------------------------------------------------------
(* The verdicts the seat acts on *)

\* The dial that serves, and no other, is judged by what the gauge says now.
Verdicts == \A d \in Dials : stalled[d] <=> d \in Serving /\ Gauge!Preemptible

MInv == IInv /\ Alone /\ GaugeInv /\ Verdicts

LEMMA RenewedHolds ==
  ASSUME Renewed
  PROVE  GaugeInv' /\ ~Gauge!Preemptible'
<1>1. New'
  BY DEF Renewed, New, Gauge!Unrefused
<1>2. GaugeInv'
  BY <1>1, NewHolds, PTL
<1>3. ~Gauge!Preemptible'
  BY DEF Renewed, Gauge!Preemptible
<1> QED BY <1>2, <1>3

LEMMA GaugeKept ==
  ASSUME GaugeInv, UNCHANGED gauge
  PROVE  GaugeInv' /\ (Gauge!Preemptible' <=> Gauge!Preemptible)
  BY DEF gauge, GaugeInv, Gauge!TypeOK, Rising, Told, Opened, Covered, Gauge!Before,
     Gauge!WindowOpen, Gauge!Preemptible, Gauge!Unrefused, Gauge!Refused,
     Gauge!ClearSince, Gauge!Window

LEMMA MNextHolds == MInv /\ [MNext]_mvars => MInv'
<1> SUFFICES ASSUME MInv, [MNext]_mvars PROVE MInv'
  OBVIOUS
<1>1. IInv' /\ Alone'
  BY MeteredIsSeat, NextIInv, AloneHolds DEF MInv
<1>2. /\ TypeOK /\ Alone /\ GaugeInv /\ stalled \in [Dials -> BOOLEAN]
      /\ phase \in [Dials -> {"idle", "waiting", "seated", "serving",
                              "refusedHeld", "refusedSpent"}]
      /\ \A d \in Dials : stalled[d] <=> d \in Serving /\ Gauge!Preemptible
  BY DEF MInv, IInv, TypeOK, Verdicts
<1>3. ASSUME NEW d \in Dials, Serve(d)
      PROVE  GaugeInv' /\ Verdicts'
  <2>1. Busy(d) /\ d \notin Serving /\ \A e \in Serving : Busy(e) /\ e \in Dials
    BY <1>3 DEF Serve, StartServe, Busy, Serving
  <2>2. Serving = {}
    BY <1>2, <2>1 DEF Alone
  <2>3. \A e \in Dials : ~stalled'[e]
    BY <1>2, <1>3, <2>2 DEF Serve, StartServe
  <2> QED BY <1>3, <2>3, RenewedHolds DEF Serve, Verdicts
<1>4. ASSUME NEW d \in Dials, Ends(d) \/ Yields(d)
      PROVE  GaugeInv' /\ Verdicts'
  <2>1. Busy(d) /\ DropSeated(d) /\ Renewed
    BY <1>4 DEF Ends, Yields, LetGo, Displaced, Busy
  <2>2. \A e \in Dials : e # d => e \notin Serving
    BY <1>2, <2>1 DEF Alone, Busy, Serving
  <2>3. \A e \in Dials : ~stalled'[e]
    BY <1>2, <2>1, <2>2 DEF DropSeated
  <2> QED BY <2>1, <2>3, RenewedHolds DEF Verdicts
<1>5. ASSUME NEW d \in Dials, Claims(d)
      PROVE  GaugeInv' /\ Verdicts'
  <2>1. UNCHANGED <<gauge, stalled>>
    BY <1>5 DEF Claims, TakeArmed, RefuseSpent, RefuseHeld, Displace, ReceiveReader,
       ReceiveSpent, TimesOut, Cancelled, ReadEnds
  <2>2. \A e \in Dials : (phase'[e] = "serving") <=> (phase[e] = "serving")
    BY <1>2, <1>5 DEF Claims, TakeArmed, RefuseSpent, RefuseHeld, Displace, ReceiveReader,
       ReceiveSpent, TimesOut, Cancelled, ReadEnds, Free, Listening
  <2>3. GaugeInv' /\ (Gauge!Preemptible' <=> Gauge!Preemptible)
    BY <1>2, <2>1, GaugeKept
  <2> QED BY <1>2, <2>1, <2>2, <2>3 DEF Verdicts, Serving
<1>6. CASE Refuses \/ Accepts \/ Passes
  <2>1. GaugeInv'
    BY <1>2, <1>6, PendingHolds, TakenHolds, TickHolds DEF Refuses, Accepts, Passes
  <2>2. Judged
    BY <1>6 DEF Refuses, Accepts, Passes
  <2>3. Serving' = Serving
    BY <2>2 DEF Judged, Serving
  <2>4. \A d \in Dials : stalled'[d] <=> d \in Serving /\ Gauge!Preemptible'
    BY <2>2 DEF Judged
  <2>5. Verdicts'
    BY <2>3, <2>4 DEF Verdicts
  <2> QED BY <1>1, <2>1, <2>5 DEF MInv
<1>7. CASE UNCHANGED mvars
  <2>1. GaugeInv' /\ (Gauge!Preemptible' <=> Gauge!Preemptible)
    BY <1>2, <1>7, GaugeKept DEF mvars
  <2>2. Serving' = Serving /\ stalled' = stalled
    BY <1>7 DEF mvars, Serving
  <2>3. Verdicts'
    BY <1>2, <2>1, <2>2 DEF Verdicts
  <2> QED BY <1>1, <2>1, <2>3 DEF MInv
<1> QED BY <1>1, <1>3, <1>4, <1>5, <1>6, <1>7 DEF MNext, MInv

LEMMA JudgedInvariant == MSpec => []MInv
<1>1. MInit => MInv
  <2> SUFFICES ASSUME MInit PROVE MInv
    OBVIOUS
  <2>1. IInv /\ Alone
    BY InitIInv DEF MInit, Init, Alone, Busy
  <2>2. New
    BY DEF MInit, Gauge!Init, New
  <2>3. Verdicts
    BY DEF MInit, Init, Verdicts, Serving
  <2> QED BY <2>1, <2>2, <2>3, NewHolds DEF MInv
<1> QED BY <1>1, MNextHolds, PTL DEF MSpec

(***************************************************************************)
(* A holder is displaced only for having starved its source, and nobody is *)
(* kept waiting by a holder that takes nothing: for every set of dials and *)
(* peers, every window, clear period and restart of the gauge, and writes  *)
(* of any size.                                                            *)
(***************************************************************************)
THEOREM HoldersAreDisplacedForCause == MSpec => DisplacedForCause
<1>1. MInv /\ [MNext]_mvars => [ForCause]_mvars
  <2> SUFFICES ASSUME MInv, MNext PROVE ForCause
    BY DEF mvars
  <2>1. ASSUME NEW h \in Dials, ~preempted[h], preempted'[h]
        PROVE  Gauge!StarvedItsSource
    <3>1. PICK d \in Dials : Displace(d)
      <4>1. preempted \in [Dials -> BOOLEAN]
        BY DEF MInv, IInv, TypeOK
      <4> QED BY <2>1, <4>1
          DEF MNext, Serve, Ends, Yields, Claims, Refuses, Accepts, Passes, Judged,
              StartServe, LetGo, Displaced, DropSeated, TakeArmed, RefuseSpent, RefuseHeld,
              ReceiveReader, ReceiveSpent, TimesOut, Cancelled, ReadEnds
    <3>2. cell.dial = h /\ stalled[h]
      BY <2>1, <3>1 DEF Displace, MayDisplace, MInv, IInv, TypeOK
    <3> QED BY <3>2, PreemptibleStarved DEF MInv, Verdicts
  <2>2. ASSUME NEW d \in Dials, NEW h \in Reading, Free(d), phase'[d] = "refusedHeld",
               phase[d] # "refusedHeld", cell = Held(h), PeerOf[h] # PeerOf[d]
        PROVE  ~Gauge!Stuck
    <3>1. RefuseHeld(d)
      <4>1. phase \in [Dials -> {"idle", "waiting", "seated", "serving",
                                 "refusedHeld", "refusedSpent"}]
        BY DEF MInv, IInv, TypeOK
      <4> QED BY <2>2, <4>1
          DEF MNext, Serve, Ends, Yields, Claims, Refuses, Accepts, Passes, Judged,
              StartServe, LetGo, Displaced, DropSeated, TakeArmed, RefuseSpent, Displace,
              ReceiveReader, ReceiveSpent, TimesOut, Cancelled, ReadEnds, Free, Listening,
              RefuseHeld
    <3>2. cell.state = "held" /\ cell.dial = h /\ h \in Serving /\ h \in Dials
      BY <2>2 DEF Held, Reading, Serving
    <3>3. ~stalled[h]
      BY <2>2, <3>1, <3>2 DEF RefuseHeld, MayDisplace
    <3> QED BY <3>2, <3>3, StuckIsPreemptible DEF MInv, Verdicts
  <2> QED BY <2>1, <2>2 DEF ForCause, MInv, GaugeInv
<1> QED BY <1>1, JudgedInvariant, PTL DEF MSpec, DisplacedForCause
=============================================================================
