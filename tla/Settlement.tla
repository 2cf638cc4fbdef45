----------------------------- MODULE Settlement -----------------------------
(***************************************************************************)
(* From a DERO transfer to an "invoice.completed" row in the webhook       *)
(* outbox: one invoice on the integrated-address rail of the bridge.  Each *)
(* process polls wallet and daemon (PaymentMonitor), the engine's event    *)
(* handlers (InvoiceEngine, webhookSink present) and OutboxWebhookSink     *)
(* write the SQLite store the processes share.                             *)
(*                                                                         *)
(* Granularity.  The store is synchronous under its async signatures, so a *)
(* handler runs to its first await inside the emit, and all continuations  *)
(* of one timer or RPC callback drain before the next one of that process. *)
(* work[p] is that queue.  One task is one transaction: an entry of a      *)
(* wallet's answer, a payment that crossed the depth, or what runs between *)
(* two awaits.  Another process, or a crash, can come between two tasks.   *)
(*                                                                         *)
(* Left out: escrow invoices (decideStatus answers misrouted_to_base), the *)
(* wallet scan floor (every transfer is mined after the invoice's anchor)  *)
(* and the delivery of the rows (module WebhookOutbox).                    *)
(***************************************************************************)
EXTENDS Integers, Sequences, FiniteSets, SequencesExt

CONSTANTS
  Procs,        \* engine processes sharing one database
  Txs,          \* transfers that may carry the invoice's payment id
  NoTx,         \* the absent triggeringTxid of a terminal event
  Values,       \* amounts of a transfer
  Price,        \* invoice.amount
  Depth,        \* invoice.requiredConfirmations
  MaxHeight,    \* bound: the chain stops growing at this height
  MaxPolls,     \* bound: overlapping poll() calls of one process
  MaxCrashes,   \* bound: crashes
  Expires       \* whether the TTL may pass

ASSUME SettlementAssumption ==
  /\ NoTx \notin Txs
  /\ IsFiniteSet(Txs)
  /\ Values \subseteq Nat \ {0}
  /\ Price \in Nat \ {0}
  /\ Depth \in Nat \ {0}
  /\ MaxHeight \in Nat
  /\ MaxPolls \in Nat
  /\ MaxCrashes \in Nat
  /\ Expires \in BOOLEAN

VARIABLES
  height,    \* the daemon's topoheight
  mined,     \* topoheight of each transfer, 0 while it is not on the chain
  value,     \* amount of each transfer
  late,      \* expiresAt has passed
  invoice,   \* the stored invoice: status, payments, amount_received
  outbox,    \* webhook_outbox rows in the order of their insertion
  up,        \* per process: running
  tracked,   \* per process: the monitor has the invoice in trackedInvoices
  copy,      \* per process: TrackedInvoice.invoice
  seen,      \* per process: TrackedInvoice.seenTxids
  polls,     \* per process: wallet queries in flight
  work,      \* per process: continuations to run
  crashes

chain   == <<height, mined, value>>
store   == <<invoice, outbox>>
monitor == <<tracked, copy, seen>>
vars    == <<chain, late, store, up, monitor, polls, work, crashes>>

Active    == {"pending", "confirming", "partial"}
Terminal  == {"completed", "expired"}
Statuses  == Active \cup Terminal
Invoices  == [status : Statuses,
              paid : [Txs -> {"none", "confirming", "confirmed"}],
              received : Nat]

Stored(inv)    == {t \in Txs : inv.paid[t] # "none"}
Confirmed(inv) == {t \in Txs : inv.paid[t] = "confirmed"}

\* A sum of amounts is the number of their units.
Units(S) == UNION {{t} \X (1..value[t]) : t \in S}
Total(S) == Cardinality(Units(S))

Confirmations(t, tip) ==
  IF mined[t] = 0 \/ tip < mined[t] THEN 0 ELSE tip - mined[t] + 1

Deep(t, tip) == Confirmations(t, tip) >= Depth

-----------------------------------------------------------------------------
(* The outbox: deriveDiscriminator and upsertOutboxSync.  A row is its id. *)

\* Faulty variants: every payment.* event under one id; a terminal id that
\* forgets the final amount.
PaymentRowWithoutTx(t) == [event |-> "payment.detected", total |-> 0,
                           tx |-> NoTx]

PaymentRow(t) == [event |-> "payment.detected", total |-> 0, tx |-> t]

StatusRowWithoutAmount(s, total, t) ==
  IF s \in Terminal
  THEN [event |-> s, total |-> 0, tx |-> NoTx]
  ELSE [event |-> s, total |-> total, tx |-> t]

StatusRow(s, total, t) ==
  [event |-> s, total |-> total, tx |-> IF s \in Terminal THEN NoTx ELSE t]

\* No row is dead here, so a known id is left alone.
Upsert(rows, r) == IF Contains(rows, r) THEN rows ELSE Append(rows, r)

-----------------------------------------------------------------------------
(* What the sink computes.                                                 *)

\* Faulty variants: one confirmed payment is enough; a status the schema
\* does not know.
DecideOnFirstConfirmed(inv) ==
  IF inv.received >= Price
  THEN IF Confirmed(inv) # {} THEN "completed" ELSE "confirming"
  ELSE IF inv.received > 0 THEN "partial" ELSE "pending"

DecideOverpaid(inv) ==
  IF inv.received > Price THEN "overpaid"
  ELSE IF inv.received = Price
  THEN IF Stored(inv) = Confirmed(inv) THEN "completed" ELSE "confirming"
  ELSE IF inv.received > 0 THEN "partial" ELSE "pending"

decideStatus(inv) ==
  IF inv.received >= Price
  THEN IF Stored(inv) # {} /\ Stored(inv) = Confirmed(inv)
       THEN "completed" ELSE "confirming"
  ELSE IF inv.received > 0 THEN "partial" ELSE "pending"

\* Faulty variant: adds the amount although the insert was ignored.
RecordAdding(inv, t, tip) ==
  LET level == IF Deep(t, tip) THEN "confirmed" ELSE "confirming"
  IN  [inv EXCEPT !.paid[t] = IF @ = "none" THEN level ELSE @,
                  !.received = @ + value[t]]

\* applyPaymentWithOutbox: INSERT OR IGNORE, then the sum of what is stored.
Record(inv, t, tip) ==
  LET level == IF Deep(t, tip) THEN "confirmed" ELSE "confirming"
      paid  == [inv.paid EXCEPT ![t] = IF @ = "none" THEN level ELSE @]
  IN  [inv EXCEPT !.paid = paid,
                  !.received = Total({u \in Txs : paid[u] # "none"})]

\* updatePayment(status: "confirmed").
Confirm(inv, t) ==
  IF t \in Stored(inv) THEN [inv EXCEPT !.paid[t] = "confirmed"] ELSE inv

-----------------------------------------------------------------------------
(* Continuations.                                                          *)

Task(op, t, inv, tip) == [op |-> op, tx |-> t, read |-> inv, tip |-> tip]

\* createInvoice's invoice.
Fresh == [status |-> "pending", paid |-> [t \in Txs |-> "none"],
          received |-> 0]

DetectTask(t, q)   == Task("detect", t, q.copy, q.tip)
CrossTask(t)       == Task("cross", t, Fresh, 0)
CompleteTask(t)    == Task("complete", t, Fresh, 0)
SettleTask(t, inv) == Task("settle", t, inv, 0)
ConfirmTask(t)     == Task("confirm", t, Fresh, 0)
RefreshTask        == Task("refresh", NoTx, Fresh, 0)
ExpireTask         == Task("expire", NoTx, Fresh, 0)

Idle(p) == up[p] /\ work[p] = <<>>
Next1(p, op) == up[p] /\ work[p] # <<>> /\ Head(work[p]).op = op

Polls == [copy : Invoices, tip : 1..(MaxHeight + 1)]
Tasks == [op : {"detect", "cross", "complete", "settle", "confirm",
                "refresh", "expire"},
          tx : Txs \cup {NoTx}, read : Invoices, tip : 0..(MaxHeight + 1)]

\* Payments of the polled copy that have reached the depth at its tip.
Crossed(inv, tip) ==
  {t \in Txs : inv.paid[t] = "confirming" /\ Deep(t, tip)}

\* invoiceCompleted is advisory: it stops the tracking of an invoice that
\* the store already says is completed.
ReportCompletion(p, complete) ==
  tracked' = [tracked EXCEPT ![p] =
                @ /\ ~(complete /\ invoice.status = "completed")]

\* The detections still to come in this run of p.
MoreDetections(p) == \E i \in DOMAIN Tail(work[p]) :
                       Tail(work[p])[i].op = "detect"

\* paymentDetected, for an unseen entry.  The row commits with the payment,
\* and the handlers of the last detection leave the monitor its copy.
DetectStep(p) ==
  LET task == Head(work[p])
      t    == task.tx
  IN  /\ Next1(p, "detect")
      /\ seen' = [seen EXCEPT ![p] = @ \cup {t}]
      /\ invoice' = Record(invoice, t, task.tip)
      /\ outbox' = Upsert(outbox, PaymentRow(t))
      /\ work' = [work EXCEPT ![p] =
                    Tail(@) \o (IF MoreDetections(p)
                                THEN <<SettleTask(t, invoice')>>
                                ELSE <<SettleTask(t, invoice'), RefreshTask>>)]
      /\ ReportCompletion(p, /\ task.read.received + value[t] >= Price
                             /\ Deep(t, task.tip))
      /\ UNCHANGED <<chain, late, up, copy, polls, crashes>>

\* Faulty variant: a payment that crosses the depth settles nothing.
ReportConfirmedOnly(p) ==
  LET t == Head(work[p]).tx
  IN  /\ invoice' = Confirm(invoice, t)
      /\ work' = [work EXCEPT ![p] = Tail(@)]

\* paymentConfirmed.
ReportConfirmed(p) ==
  LET t == Head(work[p]).tx
  IN  /\ invoice' = Confirm(invoice, t)
      /\ work' = [work EXCEPT ![p] = Append(Tail(@), ConfirmTask(t))]

\* A payment is reported that crossed the depth; what the monitor's copy
\* says of the others decided whether the invoice is reported complete too.
CrossStep(p) ==
  /\ Next1(p, "cross") \/ Next1(p, "complete")
  /\ ReportConfirmed(p)
  /\ ReportCompletion(p, Head(work[p]).op = "complete")
  /\ UNCHANGED <<chain, late, outbox, up, copy, seen, polls, crashes>>

\* reconcileStatus after its await: the status is decided from the invoice
\* read before it and written without looking at the stored one again.
SettleStep(p) ==
  /\ Next1(p, "settle")
  /\ LET task == Head(work[p])
         new  == decideStatus(task.read)
     IN  IF new = task.read.status
         THEN UNCHANGED store
         ELSE /\ invoice' = [invoice EXCEPT !.status = new]
              /\ outbox' = Upsert(outbox,
                             StatusRow(new, task.read.received, task.tx))
  /\ work' = [work EXCEPT ![p] = Tail(@)]
  /\ UNCHANGED <<chain, late, up, monitor, polls, crashes>>

\* The paymentConfirmed handler reaching reconcileStatus: it rereads the
\* invoice and decides one await later.
ConfirmStep(p) ==
  /\ Next1(p, "confirm")
  /\ work' = [work EXCEPT ![p] =
                Append(Tail(@), SettleTask(Head(@).tx, invoice))]
  /\ UNCHANGED <<chain, late, store, up, monitor, polls, crashes>>

\* The paymentDetected handler handing the stored invoice to the monitor.
RefreshStep(p) ==
  /\ Next1(p, "refresh")
  /\ copy' = [copy EXCEPT ![p] = IF tracked[p] THEN invoice ELSE @]
  /\ work' = [work EXCEPT ![p] = Tail(@)]
  /\ UNCHANGED <<chain, late, store, up, tracked, seen, polls, crashes>>

\* onInvoiceExpired: the payments were checked before the await.
ExpireStep(p) ==
  /\ Next1(p, "expire")
  /\ invoice' = [invoice EXCEPT !.status = "expired"]
  /\ outbox' = Upsert(outbox, StatusRow("expired", invoice.received, NoTx))
  /\ tracked' = [tracked EXCEPT ![p] = FALSE]
  /\ work' = [work EXCEPT ![p] = Tail(@)]
  /\ UNCHANGED <<chain, late, up, copy, seen, polls, crashes>>

-----------------------------------------------------------------------------
(* The monitor's poll.                                                     *)

\* poll() after the daemon answered: past the TTL it only reports the
\* expiry, and the handler gives the monitor a fresh copy of a paid invoice.
ReportExpiry(p) ==
  /\ late
  /\ IF Stored(invoice) # {} \/ invoice.received > 0
     THEN copy' = [copy EXCEPT ![p] = invoice] /\ UNCHANGED work
     ELSE work' = [work EXCEPT ![p] = <<ExpireTask>>] /\ UNCHANGED copy
  /\ UNCHANGED polls

QueryWallet(p) ==
  /\ ~late
  /\ Len(polls[p]) < MaxPolls
  /\ polls' = [polls EXCEPT ![p] =
                 Append(@, [copy |-> copy[p], tip |-> height])]
  /\ UNCHANGED <<copy, work>>

StartPoll(p) ==
  /\ Idle(p)
  /\ tracked[p]
  /\ copy[p].status \notin Terminal
  /\ ReportExpiry(p) \/ QueryWallet(p)
  /\ UNCHANGED <<chain, late, store, up, tracked, seen, crashes>>

OnChain == {t \in Txs : mined[t] > 0}

\* What pollInvoice finds in the entries of the wallet's answer to q, against
\* the copy of the invoice it took before it asked.
Entries(p, q) ==
  {DetectTask(t, q) : t \in OnChain \ seen[p]}
    \cup {CrossTask(t) : t \in seen[p] \cap Crossed(q.copy, q.tip)}

\* The payments of inv that have reached the depth at tip, the last of which
\* completes it.
Reported(inv, tip) ==
  {IF inv.received >= Price /\ Stored(inv) \ {t} \subseteq Confirmed(inv)
   THEN CompleteTask(t) ELSE CrossTask(t) : t \in Crossed(inv, tip)}

\* What checkConfirmationUpdates finds after the entries: it reads the
\* monitor's copy again, which another poll may have refreshed since.
Crossings(p, q) == Reported(copy[p], q.tip)

\* pollInvoice after the wallet answered, in the order of its entries.
Answer(p, i) ==
  /\ Idle(p)
  /\ \E entries \in SetToSeqs(Entries(p, polls[p][i])),
        crossed \in SetToSeqs(Crossings(p, polls[p][i])) :
       work' = [work EXCEPT ![p] = entries \o crossed]
  /\ polls' = [polls EXCEPT ![p] = RemoveAt(@, i)]
  /\ UNCHANGED <<chain, late, store, up, monitor, crashes>>

AnswerPoll(p) == \E i \in DOMAIN polls[p] : Answer(p, i)

\* The wallet RPC fails: poll() emits an error and goes on.
FailPoll(p) ==
  /\ Idle(p)
  /\ \E i \in DOMAIN polls[p] :
       polls' = [polls EXCEPT ![p] = RemoveAt(@, i)]
  /\ UNCHANGED <<chain, late, store, up, monitor, work, crashes>>

\* Faulty variant: the timer expires a paid invoice too.
CheckExpiredUnaware(p) ==
  /\ Idle(p)
  /\ late
  /\ invoice.status \in Active
  /\ work' = [work EXCEPT ![p] = <<ExpireTask>>]
  /\ UNCHANGED <<chain, late, store, up, monitor, polls, crashes>>

\* The engine's 30 second timer, up to onInvoiceExpired's write.
checkExpiredInvoices(p) ==
  /\ Idle(p)
  /\ late
  /\ invoice.status \in Active
  /\ Stored(invoice) = {} /\ invoice.received = 0
  /\ work' = [work EXCEPT ![p] = <<ExpireTask>>]
  /\ UNCHANGED <<chain, late, store, up, monitor, polls, crashes>>

-----------------------------------------------------------------------------
(* The world around the processes.                                         *)

\* A block takes in some of the transfers.  Bound: a transfer is mined only
\* where the bounded chain can still bury it Depth deep.
Block(new) ==
  /\ height < MaxHeight
  /\ new \subseteq Txs \ OnChain
  /\ new # {} => height + Depth <= MaxHeight
  /\ height' = height + 1
  /\ mined' = [t \in Txs |-> IF t \in new THEN height + 1 ELSE mined[t]]
  /\ UNCHANGED <<value, late, store, up, monitor, polls, work, crashes>>

PassTtl ==
  /\ Expires /\ ~late
  /\ late' = TRUE
  /\ UNCHANGED <<chain, store, up, monitor, polls, work, crashes>>

Crash(p) ==
  /\ up[p]
  /\ crashes < MaxCrashes
  /\ crashes' = crashes + 1
  /\ up' = [up EXCEPT ![p] = FALSE]
  /\ tracked' = [tracked EXCEPT ![p] = FALSE]
  /\ seen' = [seen EXCEPT ![p] = {}]
  /\ polls' = [polls EXCEPT ![p] = <<>>]
  /\ work' = [work EXCEPT ![p] = <<>>]
  /\ UNCHANGED <<chain, late, store, copy>>

\* engine.start(): active invoices are tracked from their stored rows.
Start(p) ==
  /\ ~up[p]
  /\ up' = [up EXCEPT ![p] = TRUE]
  /\ tracked' = [tracked EXCEPT ![p] = invoice.status \in Active]
  /\ copy' = [copy EXCEPT ![p] = invoice]
  /\ seen' = [seen EXCEPT ![p] = Stored(invoice)]
  /\ UNCHANGED <<chain, late, store, polls, work, crashes>>

\* createInvoice has stored the invoice and its process tracks it; the
\* other processes are not started yet.
Init ==
  /\ height = 1
  /\ mined = [t \in Txs |-> 0]
  /\ value \in [Txs -> Values]
  /\ late = FALSE
  /\ invoice = Fresh
  /\ outbox = <<>>
  /\ \E creator \in Procs : up = [p \in Procs |-> p = creator]
  /\ tracked = up
  /\ copy = [p \in Procs |-> Fresh]
  /\ seen = [p \in Procs |-> {}]
  /\ polls = [p \in Procs |-> <<>>]
  /\ work = [p \in Procs |-> <<>>]
  /\ crashes = 0

Continue(p) ==
  \/ DetectStep(p) \/ CrossStep(p)
  \/ SettleStep(p) \/ ConfirmStep(p) \/ RefreshStep(p) \/ ExpireStep(p)

Next ==
  \/ \E p \in Procs :
       \/ Continue(p)
       \/ StartPoll(p) \/ AnswerPoll(p) \/ FailPoll(p)
       \/ checkExpiredInvoices(p)
       \/ Crash(p) \/ Start(p)
  \/ \E new \in SUBSET Txs : Block(new)
  \/ PassTtl

Spec == Init /\ [][Next]_vars

\* Timers fire, queued continuations run, a crashed process is restarted,
\* blocks come, and a wallet that is asked again and again answers again
\* and again (polls may fail in between).
Fairness ==
  /\ WF_vars(Block({}))
  /\ \A p \in Procs :
       /\ WF_vars(Continue(p))
       /\ WF_vars(StartPoll(p))
       /\ SF_vars(AnswerPoll(p))
       /\ WF_vars(checkExpiredInvoices(p))
       /\ WF_vars(Start(p))

FairSpec == Spec /\ Fairness

-----------------------------------------------------------------------------
(* Properties.                                                             *)

\* Every variable keeps its type; a status is one the schema knows, a
\* process that is down holds nothing, and the monitor of a lone process
\* never loses sight of a payment that its own copy of the invoice lists.
TypeOK ==
  /\ height \in 1..(MaxHeight + 1)
  /\ mined \in [Txs -> 0..MaxHeight]
  /\ value \in [Txs -> Values]
  /\ late \in BOOLEAN
  /\ invoice \in Invoices
  /\ outbox \in Seq([event : {"payment.detected"} \cup Statuses,
                     total : Nat, tx : Txs \cup {NoTx}])
  /\ up \in [Procs -> BOOLEAN]
  /\ tracked \in [Procs -> BOOLEAN]
  /\ copy \in [Procs -> Invoices]
  /\ seen \in [Procs -> SUBSET Txs]
  /\ polls \in [Procs -> Seq(Polls)]
  /\ work \in [Procs -> Seq(Tasks)]
  /\ crashes \in 0..MaxCrashes
  /\ \A p \in Procs :
       /\ Len(polls[p]) <= MaxPolls
       /\ ~up[p] => ~tracked[p] /\ polls[p] = <<>> /\ work[p] = <<>>
       /\ Procs = {p} /\ tracked[p] => Stored(copy[p]) \subseteq seen[p]

\* bridge/README.md:19, "one writer of the money": amount_received is the
\* sum of the stored payments whoever detects them, and however often.
ReceivedIsSum == invoice.received = Total(Stored(invoice))

\* "Ship" is only ever said of money that is buried: whatever process
\* decided it, from however old a snapshot and an even older daemon height,
\* a completed status and a completed row mean that transfers at the
\* required depth on the real chain cover the price.  (A block stays where
\* it is: a reorg of the bridge's chain is not modelled.)
ShipOnlyOnConfirmedFunds ==
  (\/ invoice.status = "completed"
   \/ \E i \in DOMAIN outbox : outbox[i].event = "completed")
    => Total({t \in Txs : Deep(t, height)}) >= Price

\* outbox-types.ts:4-8, "in the same transaction": at no point, between no
\* two awaits and after no crash, is there a stored payment or a status
\* without its row.
EverythingAnnounced ==
  /\ \A t \in Stored(invoice) : \E i \in DOMAIN outbox :
       outbox[i].event = "payment.detected" /\ outbox[i].tx = t
  /\ invoice.status # "pending" => \E i \in DOMAIN outbox :
       outbox[i].event = invoice.status

\* A merchant who follows the rows in order ends up knowing the status: the
\* last status row is the status.  What could break it is a later edge that
\* collapses onto the id of an earlier one, so that a status which comes
\* back is never announced again.  It holds of a single process.
MerchantUpToDate ==
  LET said == {i \in DOMAIN outbox : outbox[i].event # "payment.detected"}
  IN  IF said = {} THEN invoice.status = "pending"
      ELSE \E i \in said : /\ outbox[i].event = invoice.status
                           /\ \A j \in said : j <= i

\* invoice-engine.ts:777-781, "never expire a funded invoice out from under
\* an in-flight settlement", although the check and the write are separated
\* by awaits.  It holds of a single process.
ExpiryIsPaymentAware ==
  [][(invoice'.status = "expired" /\ invoice.status # "expired")
       => Stored(invoice) = {}]_vars

Paid == Total(OnChain) >= Price

\* Once the price is on the chain, and as long as the TTL has not passed
\* and nothing crashed, the invoice completes: failed polls, overlapping
\* polls and stale copies only delay it.
PaidInvoiceCompletes ==
  (Paid /\ ~late /\ crashes = 0)
    ~> (invoice.status = "completed" \/ late \/ crashes > 0)

\* What the code says of a paid invoice.  invoice-engine.ts:779-781: past
\* the TTL, "keep tracking it so confirmations keep accruing";
\* ARCHITECTURE.md:56: "a crash never drops a "paid" notification".
FundedInvoiceCompletes ==
  (invoice.status = "confirming") ~> (invoice.status = "completed")

\* bridge/README.md:63: "The terminal event (invoice.completed /
\* invoice.expired) carries the authoritative final amount", so the status
\* and the amount no longer move once it is out.
TerminalIsFinal ==
  [][invoice.status \in Terminal => UNCHANGED invoice]_vars
=============================================================================
