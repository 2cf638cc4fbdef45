-------------------------- MODULE MCWebhookOutbox --------------------------
(* Instances of WebhookOutbox for TLC: more rows than a batch holds, so     *)
(* that a claim leaves rows behind, and a low ceiling, so that a row is     *)
(* parked, revived and parked again.                                        *)
EXTENDS WebhookOutbox, TLC

CONSTANTS e1, e2, e3, w1, w2

Rows       == {e1, e2}
ThreeRows  == {e1, e2, e3}
OneRow     == {e1}
OneWorker  == {w1}
TwoWorkers == {w1, w2}
=============================================================================
