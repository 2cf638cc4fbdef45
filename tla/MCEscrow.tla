------------------------------ MODULE MCEscrow ------------------------------
(* Instances of Escrow for TLC.  Time is scaled: an expiry of 1..2 blocks   *)
(* and a dispute window of 2 stand for 4000..10000000 and 14400.  The       *)
(* amounts are small and WordSize keeps the code's ratio of 2^64 to         *)
(* MaxAmount * FeeLimit (about 0.41), so the dearest order wraps its fee.   *)
(* Accounts are not declared symmetric, because the run checks liveness.    *)
EXTENDS Escrow

CONSTANTS a1, a2, a3, a4

Parties == {a1, a2, a3, a4}

(* Each set holds an accepted value or two and a rejected one.               *)
TriedFees        == {4999, 5000}
TriedExpirations == {0, 1}
TriedAmounts     == {5, 16, 17}
TriedValues      == {0, 5, 16}
=============================================================================
