---------------------------- MODULE MCEscrowSync ----------------------------
(* Instances of EscrowSync for TLC: two boxes, so that a cancelled one is   *)
(* replaced while answers about it are still under way, and two polls.      *)
EXTENDS EscrowSync

CONSTANTS b1, b2, p1, p2

TwoBoxes  == {b1, b2}
TwoPolls  == {p1, p2}
OnePoll   == {p1}
BothSinks == {TRUE, FALSE}
=============================================================================
