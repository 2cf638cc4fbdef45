--------------------------- MODULE MCPayingAgent ---------------------------
(* Calls, invoices and usage windows for the model checker. *)
EXTENDS PayingAgent, TLC

CONSTANTS c1, c2, i1, i2, i3, day, amount

TwoCalls      == {c1, c2}
ThreeInvoices == {i1, i2, i3}
TwoWindows    == {day, amount}
Quotas        == [w \in TwoWindows |-> IF w = day THEN 2 ELSE 1]
BothModes     == BOOLEAN
OneOrTwo      == 1..2

Symmetry == Permutations(Calls) \cup Permutations(Invoices)
=============================================================================
