----------------------------- MODULE MCRgbdSync -----------------------------
(* Small instances of the synchronizer: any frames with small stamps, and a *)
(* steady camera for much longer.                                           *)
EXTENDS RgbdSyncProperties

\* Bound: the largest stamp of frames that come in any order.
SmallStamp == 6

AnyFrame ==
  /\ rgb <= SmallStamp /\ depth <= SmallStamp
  /\ \E stamp \in 0..SmallStamp : OnRgb(stamp) \/ OnDepth(stamp)

SteadyFrame ==
  /\ steady
  /\ \E stamp \in {Count(rgb) * Period, Count(depth) * Period + MaxDelta} \cap Stamps :
       OnRgb(stamp) \/ OnDepth(stamp)
  /\ steady'

MCSpec == Init /\ [][AnyFrame \/ SteadyFrame]_vars

=============================================================================
