--------------------------- MODULE MCEscrowClaim ---------------------------
(* Instances of EscrowClaim for TLC: two processes, so that claims and      *)
(* keeper ticks race over one database, and fewer boxes than claims, so     *)
(* that a box given back by one claim reaches another.                      *)
EXTENDS EscrowClaim, TLC

CONSTANTS p1, p2, o1, o2, c1, c2, c3, b1, b2

OneProc    == {p1}
TwoProcs   == {p1, p2}
OneOrder   == {o1}
TwoOrders  == {o1, o2}
TwoCalls   == {c1, c2}
ThreeCalls == {c1, c2, c3}
OneBox     == {b1}
TwoBoxes   == {b1, b2}

Symmetries == Permutations(TwoProcs) \cup Permutations(TwoOrders)
                \cup Permutations(ThreeCalls) \cup Permutations(TwoBoxes)
=============================================================================
