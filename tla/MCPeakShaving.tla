---------------------------- MODULE MCPeakShaving ----------------------------
EXTENDS PeakShaving

\* Role bindings: what the steered device's profile maps at a boot.
FeedBound == {{"charge", "sell"}}
FeedOrGridBound == {{"charge", "sell"}, {"charge", "gridOn", "gridA"}}
Rebound == {{"charge"}, {}}

\* Samples that report every register, or may miss one.
AllRead == {Registers}
ChargeMayMiss == {Registers, Registers \ {"charge"}}
GridAMayMiss == {Registers, Registers \ {"gridA"}}

(***************************************************************************)
(* Bounds of the steering run, which has two kinds of plant.  Where the    *)
(* grid's pair of registers is bound, its current may be missing from a    *)
(* sample, and settings, restarts and a queued tick are not explored       *)
(* further: ticks are serialized, so a queued one behaves as one requested *)
(* the moment the running one ends.  Where it is not, every sample is      *)
(* whole.  A plant does not turn into the other kind.                      *)
(***************************************************************************)
SteeringBounds ==
  IF "gridA" \in bound THEN depth <= 1 /\ restarts = 0 /\ config = "export"
  ELSE \A r \in Registers : sample = Blank \/ sample[r] # Empty
SamePlant == bound' = bound
=============================================================================
