--------------------------- MODULE SingleSource ---------------------------
(***************************************************************************)
(* What the `stdin:` seat promises, without saying how: one byte source    *)
(* that at most one dial owns at a time.  A dial gets it when nobody has   *)
(* it, gives it back, or loses it to a dial of ANOTHER peer; once the      *)
(* source has ended nobody owns it again.                                  *)
(***************************************************************************)
CONSTANTS
  Dials,    \* the streams that ask for the source
  Peers,    \* the peers behind them
  PeerOf,   \* the peer of each dial
  Nobody,   \* the owner while the source is free
  Ended     \* the owner once the source has ended

VARIABLE owner

Init == owner = Nobody

Lend(d) == owner = Nobody /\ owner' = d

GiveBack == owner \in Dials /\ owner' = Nobody

HandOn(e) ==
  /\ owner \in Dials
  /\ PeerOf[owner] # PeerOf[e]
  /\ owner' = e

End == owner \in Dials /\ owner' = Ended

Next ==
  \/ \E d \in Dials : Lend(d) \/ HandOn(d)
  \/ GiveBack
  \/ End

Spec == Init /\ [][Next]_owner
=============================================================================
