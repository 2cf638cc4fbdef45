---------------------------- MODULE MCSettlement ----------------------------
(* Instances of Settlement for TLC: two transfers whose amounts range over  *)
(* half the price, the price, and so their sums over partial, exact and     *)
(* overpaid; a depth of two blocks makes "confirming" and "confirmed"       *)
(* different answers of one wallet.                                         *)
EXTENDS Settlement, TLC

CONSTANTS t1, t2, p1, p2

BothTxs   == {t1, t2}
OneTx     == {t1}
OneProc   == {p1}
TwoProcs  == {p1, p2}
Amounts   == {1, 2}
FullOnly  == {2}
HalfOnly  == {1}

Symmetries == Permutations(BothTxs) \cup Permutations(TwoProcs)
=============================================================================
