----------------------------- MODULE MCPrepaid -----------------------------
(* An instance of Prepaid for TLC: one account that cannot pay for every    *)
(* request at its highest price, two keys and three calls, so that a retry  *)
(* meets a hold that is open, closed or left by a crash.                    *)
EXTENDS Prepaid, TLC

CONSTANTS a1, t1, r1, r2, x1, x2, i1, c1, c2, c3

OneAccount     == {a1}
OneTopUp       == {t1}
TwoRequests    == {r1, r2}
TwoRefunds     == {x1, x2}
OneInvoice     == {i1}
ThreeCalls     == {c1, c2, c3}
TopUpOwner     == [t \in OneTopUp |-> a1]
RequestOwner   == [r \in TwoRequests |-> a1]
TopUpWorths    == {1, 3}
QuotedPrices   == {1, 2}
MeasuredPrices == {0, 1, 3}
NotMeasured    == -1

Symmetric == Permutations(ThreeCalls) \cup Permutations(TwoRequests)
               \cup Permutations(TwoRefunds)
=============================================================================
