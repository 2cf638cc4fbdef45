---------------------------- MODULE WebhookOutbox ----------------------------
(***************************************************************************)
(* Delivery of the webhook_outbox rows: WebhookDeliveryWorker over the     *)
(* claim, mark, reschedule and prune statements of SqliteInvoiceStore.     *)
(* Each statement is one transaction; a POST, and any number of steps of   *)
(* others, lie between a worker's claim and its mark.                      *)
(*                                                                         *)
(* The clock is abstracted to what the claim compares it with: ripe[e]     *)
(* says that next_attempt_at has come, leased[e] that lease_until has not  *)
(* passed.  Both may change at any time, because nothing in the code ties  *)
(* the lease (60 s) to the time a batch takes (20 rows at up to 10 s).     *)
(***************************************************************************)
EXTENDS Integers, Sequences, FiniteSets, SequencesExt

CONSTANTS
  Events,        \* delivery ids
  Workers,       \* delivery workers over one database
  Batch,         \* batchSize
  MaxAttempts,   \* attempts before a row is parked
  MaxEnqueues,   \* bound: enqueues
  MaxCrashes     \* bound: crashes

ASSUME OutboxAssumption ==
  /\ IsFiniteSet(Events)
  /\ Batch \in Nat \ {0}
  /\ MaxAttempts \in Nat \ {0}
  /\ MaxEnqueues \in Nat
  /\ MaxCrashes \in Nat

VARIABLES
  status,      \* per event: the row's status, "absent" without a row
  attempts,    \* per event: attempts of the row
  ripe,        \* per event: next_attempt_at <= now
  leased,      \* per event: lease_until >= now
  batch,       \* per worker: claimed rows not yet marked, in order
  answer,      \* per worker: outcome of the POST of its first row
  up,          \* per worker: its process is running
  got,         \* events the merchant has accepted at least once
  fails,       \* per event: failed POSTs since it was enqueued
  enqueues, crashes

row   == <<status, attempts, ripe, leased>>
world == <<got, fails, enqueues, crashes>>
vars  == <<row, batch, answer, up, world>>

RowStatuses == {"pending", "delivering", "delivered", "dead"}
Claimed     == [id : Events, attempts : Nat]

-----------------------------------------------------------------------------
(* The sink's side: upsertOutboxSync.                                      *)

\* Faulty variant: a revived row keeps its attempts.
EnqueueKeepingAttempts(e) ==
  /\ enqueues < MaxEnqueues
  /\ enqueues' = enqueues + 1
  /\ IF status[e] \in {"absent", "dead"}
     THEN /\ status' = [status EXCEPT ![e] = "pending"]
          /\ ripe' = [ripe EXCEPT ![e] = TRUE]
          /\ leased' = [leased EXCEPT ![e] = FALSE]
          /\ fails' = [fails EXCEPT ![e] = 0]
          /\ UNCHANGED attempts
     ELSE UNCHANGED <<row, fails>>
  /\ UNCHANGED <<batch, answer, up, got, crashes>>

\* A replayed event changes nothing unless its row is absent or dead.
Enqueue(e) ==
  /\ enqueues < MaxEnqueues
  /\ enqueues' = enqueues + 1
  /\ IF status[e] \in {"absent", "dead"}
     THEN /\ status' = [status EXCEPT ![e] = "pending"]
          /\ attempts' = [attempts EXCEPT ![e] = 0]
          /\ ripe' = [ripe EXCEPT ![e] = TRUE]
          /\ leased' = [leased EXCEPT ![e] = FALSE]
          /\ fails' = [fails EXCEPT ![e] = 0]
     ELSE UNCHANGED <<row, fails>>
  /\ UNCHANGED <<batch, answer, up, got, crashes>>

-----------------------------------------------------------------------------
(* The worker's side.                                                      *)

\* Faulty variant: rows of a dead process are not reclaimed.
DuePendingOnly == {e \in Events : ripe[e] /\ status[e] = "pending"}

Due == {e \in Events : /\ ripe[e]
                       /\ \/ status[e] = "pending"
                          \/ status[e] = "delivering" /\ ~leased[e]}

\* claimDueOutbox's transaction: lease the due rows, at most Batch.
Take(w, ids) ==
  /\ ids \subseteq Due /\ ids # {}
  /\ Cardinality(ids) <= Batch
  /\ Cardinality(ids) < Batch => ids = Due
  /\ status' = [e \in Events |-> IF e \in ids THEN "delivering" ELSE status[e]]
  /\ leased' = [e \in Events |-> IF e \in ids THEN TRUE ELSE leased[e]]
  /\ \E order \in SetToSeqs(ids) :
       batch' = [batch EXCEPT ![w] =
                   @ \o [i \in 1..Len(order) |->
                          [id |-> order[i], attempts |-> attempts[order[i]]]]]
  /\ UNCHANGED <<attempts, ripe, answer, up, world>>

\* Faulty variant: overlapping ticks of one worker are not collapsed.
TickReentrant(w) ==
  /\ up[w]
  /\ Len(batch[w]) <= Batch
  /\ \E ids \in SUBSET Due : Take(w, ids)

\* tick(): the ticking flag is a batch that is not finished.
Tick(w) ==
  /\ up[w]
  /\ batch[w] = <<>>
  /\ \E ids \in SUBSET Due : Take(w, ids)

\* deliverOnce: the merchant accepts or not; an acceptance whose answer is
\* late, lost or not 2xx is a failure to the worker.
Post(w, accepts, succeeds) ==
  /\ up[w]
  /\ batch[w] # <<>>
  /\ answer[w] = "none"
  /\ succeeds => accepts
  /\ LET e == Head(batch[w]).id IN
     /\ got' = IF accepts THEN got \cup {e} ELSE got
     /\ fails' = IF succeeds \/ fails[e] = MaxAttempts THEN fails
                 ELSE [fails EXCEPT ![e] = @ + 1]
  /\ answer' = [answer EXCEPT ![w] = IF succeeds THEN "ok" ELSE "failed"]
  /\ UNCHANGED <<row, batch, up, enqueues, crashes>>

\* One statement by primary key: it touches no row once it is pruned, and
\* looks at neither the status nor the lease.
Write(e, s, more) ==
  /\ status' = [status EXCEPT ![e] = IF @ = "absent" THEN @ ELSE s]
  /\ attempts' = [attempts EXCEPT ![e] =
                    IF status[e] = "absent" THEN @ ELSE @ + more]
  /\ leased' = [leased EXCEPT ![e] = FALSE]

NextRow(w) ==
  /\ batch' = [batch EXCEPT ![w] = Tail(@)]
  /\ answer' = [answer EXCEPT ![w] = "none"]

markDelivered(w) ==
  /\ answer[w] = "ok"
  /\ Write(Head(batch[w]).id, "delivered", 0)
  /\ NextRow(w)
  /\ UNCHANGED <<ripe, up, world>>

\* Faulty variant: off by one attempt.
ParkedTooEarly(claim) == claim.attempts + 2 >= MaxAttempts

\* The worker counts from the attempts it read when it claimed the row.
Exhausted(claim) == claim.attempts + 1 >= MaxAttempts

markDead(w) ==
  /\ answer[w] = "failed"
  /\ Exhausted(Head(batch[w]))
  /\ Write(Head(batch[w]).id, "dead", 1)
  /\ NextRow(w)
  /\ UNCHANGED <<ripe, up, world>>

reschedule(w) ==
  /\ answer[w] = "failed"
  /\ ~Exhausted(Head(batch[w]))
  /\ Write(Head(batch[w]).id, "pending", 1)
  /\ ripe' = [ripe EXCEPT ![Head(batch[w]).id] = FALSE]
  /\ NextRow(w)
  /\ UNCHANGED <<up, world>>

Mark(w) == markDelivered(w) \/ markDead(w) \/ reschedule(w)

-----------------------------------------------------------------------------
(* Time, housekeeping and crashes.                                         *)

Ripen(e) ==
  /\ ~ripe[e]
  /\ ripe' = [ripe EXCEPT ![e] = TRUE]
  /\ UNCHANGED <<status, attempts, leased, batch, answer, up, world>>

LeaseExpires(e) ==
  /\ leased[e]
  /\ leased' = [leased EXCEPT ![e] = FALSE]
  /\ UNCHANGED <<status, attempts, ripe, batch, answer, up, world>>

\* pruneDeliveredOutbox deletes delivered rows.
Prune(e) ==
  /\ status[e] = "delivered"
  /\ status' = [status EXCEPT ![e] = "absent"]
  /\ attempts' = [attempts EXCEPT ![e] = 0]
  /\ ripe' = [ripe EXCEPT ![e] = FALSE]
  /\ UNCHANGED <<leased, batch, answer, up, world>>

\* A process dies, or a store error rejects tick()'s promise: what the
\* worker had claimed stays "delivering" until the lease runs out.
Crash(w) ==
  /\ up[w]
  /\ crashes < MaxCrashes
  /\ crashes' = crashes + 1
  /\ up' = [up EXCEPT ![w] = FALSE]
  /\ batch' = [batch EXCEPT ![w] = <<>>]
  /\ answer' = [answer EXCEPT ![w] = "none"]
  /\ UNCHANGED <<row, got, fails, enqueues>>

Restart(w) ==
  /\ ~up[w]
  /\ up' = [up EXCEPT ![w] = TRUE]
  /\ UNCHANGED <<row, batch, answer, world>>

Init ==
  /\ status = [e \in Events |-> "absent"]
  /\ attempts = [e \in Events |-> 0]
  /\ ripe = [e \in Events |-> FALSE]
  /\ leased = [e \in Events |-> FALSE]
  /\ batch = [w \in Workers |-> <<>>]
  /\ answer = [w \in Workers |-> "none"]
  /\ up = [w \in Workers |-> TRUE]
  /\ got = {}
  /\ fails = [e \in Events |-> 0]
  /\ enqueues = 0
  /\ crashes = 0

Posting(w) == \E accepts, succeeds \in BOOLEAN : Post(w, accepts, succeeds)

Next ==
  \/ \E e \in Events : Enqueue(e) \/ Ripen(e) \/ LeaseExpires(e) \/ Prune(e)
  \/ \E w \in Workers :
       Tick(w) \/ Posting(w) \/ Mark(w) \/ Crash(w) \/ Restart(w)

Spec == Init /\ [][Next]_vars

\* The interval fires, a POST ends by its timeout, marks are written, time
\* passes and a crashed process is restarted.  Nothing is assumed of the
\* merchant, nor that anything is enqueued or pruned.
Fairness ==
  /\ \A w \in Workers : WF_vars(Tick(w)) /\ WF_vars(Posting(w))
                        /\ WF_vars(Mark(w)) /\ WF_vars(Restart(w))
  /\ \A e \in Events : WF_vars(Ripen(e)) /\ WF_vars(LeaseExpires(e))

FairSpec == Spec /\ Fairness

-----------------------------------------------------------------------------
(* Properties.                                                             *)

\* Every variable keeps its type; attempts never pass the ceiling, and a
\* worker that is down holds no batch.
TypeOK ==
  /\ status \in [Events -> RowStatuses \cup {"absent"}]
  /\ attempts \in [Events -> 0..MaxAttempts]
  /\ ripe \in [Events -> BOOLEAN]
  /\ leased \in [Events -> BOOLEAN]
  /\ batch \in [Workers -> Seq(Claimed)]
  /\ answer \in [Workers -> {"none", "ok", "failed"}]
  /\ up \in [Workers -> BOOLEAN]
  /\ \A w \in Workers : batch[w] = <<>> => answer[w] = "none"
  /\ \A w \in Workers : ~up[w] => batch[w] = <<>>
  /\ got \subseteq Events
  /\ fails \in [Events -> 0..MaxAttempts]
  /\ enqueues \in 0..MaxEnqueues
  /\ crashes \in 0..MaxCrashes

\* delivery-worker.ts:143-157: attempts count failures that happened, and a
\* row is parked only when MaxAttempts POSTs since the event was enqueued
\* really failed, at the merchant or in an acceptance whose answer was lost,
\* across crashes, restarts and revivals.  It holds of a single worker.
AttemptsAreReal ==
  \A e \in Events :
    /\ attempts[e] <= fails[e]
    /\ status[e] = "dead" => attempts[e] = MaxAttempts

\* outbox-types.ts:4-8: a row on disk is never lost.  Whatever the merchant
\* answers, and although a crash leaves rows claimed by nobody, every row
\* that is enqueued is in the end delivered (and perhaps pruned) or parked
\* where the operator is told of it, and stays so.
EveryRowSettles ==
  \A e \in Events : <>[](status[e] \in {"absent", "delivered", "dead"})

\* tests/delivery-worker.test.ts:182, "never re-delivers an already-
\* delivered row": delivered is the end of a row, but for its pruning.
DeliveredIsFinal ==
  [][\A e \in Events : status[e] = "delivered" =>
       status'[e] \in {"delivered", "absent"}]_vars

Phase == [e \in Events |->
            CASE status[e] = "absent"    -> "none"
              [] status[e] = "delivered" -> "acknowledged"
              [] status[e] = "dead"      -> "parked"
              [] OTHER                   -> "owed"]

Promise == INSTANCE DeliveryPromise WITH phase <- Phase, accepted <- got

\* A single worker, however often it crashes and wherever its leases run
\* out, keeps the promise: no acknowledgement without an acceptance, no
\* acknowledged row that is sent again, nothing dropped on the way.
ImplementsPromise == Promise!PromiseSpec
=============================================================================
