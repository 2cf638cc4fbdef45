--------------------------- MODULE DeliveryPromise ---------------------------
(***************************************************************************)
(* What the webhook outbox promises of each event, without leases, batches *)
(* or backoff: an event that is owed to the merchant stays owed until it   *)
(* is acknowledged, which takes an acceptance by the merchant first, or    *)
(* parked.  A parked event may be owed again; an acknowledged one may only *)
(* be forgotten.  The merchant may accept an event more than once.         *)
(***************************************************************************)
CONSTANTS Events

VARIABLES
  phase,      \* per event: "none", "owed", "acknowledged" or "parked"
  accepted    \* events the merchant has accepted at least once

promiseVars == <<phase, accepted>>

PromiseInit ==
  /\ phase = [e \in Events |-> "none"]
  /\ accepted = {}

Moves(e, from, to) ==
  /\ phase[e] \in from
  /\ phase' = [phase EXCEPT ![e] = to]

Owe(e)         == Moves(e, {"none", "parked"}, "owed") /\ UNCHANGED accepted
Park(e)        == Moves(e, {"owed"}, "parked") /\ UNCHANGED accepted
Forget(e)      == Moves(e, {"acknowledged"}, "none") /\ UNCHANGED accepted

Accept(e) ==
  /\ phase[e] = "owed"
  /\ accepted' = accepted \cup {e}
  /\ UNCHANGED phase

Acknowledge(e) ==
  /\ e \in accepted
  /\ Moves(e, {"owed"}, "acknowledged")
  /\ UNCHANGED accepted

PromiseNext ==
  \E e \in Events :
     Owe(e) \/ Accept(e) \/ Acknowledge(e) \/ Park(e) \/ Forget(e)

PromiseSpec == PromiseInit /\ [][PromiseNext]_promiseVars
=============================================================================
