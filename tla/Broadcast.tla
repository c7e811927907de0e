----------------------------- MODULE Broadcast -----------------------------
(***************************************************************************)
(* What a lossy source promises its viewers, whatever buffers it: one      *)
(* source, fed byte after byte; every viewer joins at the live edge, is    *)
(* moved only forward, past what it lost and over what it is given, and    *)
(* hears the end only once the source ended and nothing is left to give.   *)
(***************************************************************************)
EXTENDS Integers

CONSTANT Viewers

VARIABLES
  fed,     \* how many bytes the source has given
  over,    \* whether its end was announced
  place    \* how far each viewer is, -1 while it is away

Away == -1

Init ==
  /\ fed = 0
  /\ over = FALSE
  /\ place = [v \in Viewers |-> Away]

Feed ==
  /\ ~over
  /\ fed' \in Nat
  /\ fed' > fed
  /\ UNCHANGED <<over, place>>

Finish ==
  /\ over' = TRUE
  /\ UNCHANGED <<fed, place>>

Join(v) ==
  /\ place[v] = Away
  /\ place' = [place EXCEPT ![v] = fed]
  /\ UNCHANGED <<fed, over>>

Give(v) ==
  /\ place[v] # Away
  /\ \E further \in (place[v] + 1)..fed : place' = [place EXCEPT ![v] = further]
  /\ UNCHANGED <<fed, over>>

Leave(v) ==
  /\ place' = [place EXCEPT ![v] = Away]
  /\ UNCHANGED <<fed, over>>

Next == Feed \/ Finish \/ \E v \in Viewers : Join(v) \/ Give(v) \/ Leave(v)

Spec == Init /\ [][Next]_<<fed, over, place>>
=============================================================================
