----------------------------- MODULE EscrowSync -----------------------------
(***************************************************************************)
(* How the chain's word on an escrow box reaches its invoice: the polls of *)
(* EscrowManager, the event handlers of the invoice engine, the re-quote   *)
(* of a cancelled box, the teardown after a payment on the wrong rail, and *)
(* the reload after a crash.  One invoice, one process.                    *)
(*                                                                         *)
(* A poll asks the daemon and reconciles when the answer comes; setInterval *)
(* does not wait for the poll before, so answers may arrive out of order.  *)
(* An event handler runs on a synchronous store and drains within the      *)
(* callback that emitted it: reconcile and its handler are one step.  The  *)
(* teardown awaits the wallet between its read and its write.              *)
(*                                                                         *)
(* A box is known by its scid; a claim (module EscrowClaim) is one step.   *)
(* Deposit makes balance and price agree (Escrow!Custody), so the branch   *)
(* of reconcile for an amount that differs is left out.                    *)
(***************************************************************************)
EXTENDS Integers, FiniteSets

CONSTANTS
  Boxes,       \* scids
  Polls,       \* bound: pollEscrows() calls in flight
  Budget,      \* config.escrowMaxAutoRequotes
  Sinks,       \* whether a webhook sink is configured (the bridge path)
  MaxCrashes,  \* bound: crashes
  None

ASSUME EscrowSyncAssumption ==
  /\ None \notin Boxes
  /\ Budget \in Nat \ {0}
  /\ Sinks \subseteq BOOLEAN
  /\ MaxCrashes \in Nat

VARIABLES
  bridge,    \* a webhook sink is configured
  chain,     \* per box: its status on the chain, "absent" before its claim
  invoice,   \* invoice.status
  blob,      \* invoice.escrow: scid, escrowStatus and requoteCount
  received,  \* the integrated address got a payment
  marker,    \* metadata.__escrowMisroutedToBase
  record,    \* per box: status of the manager's record, "none" without one
  tracked,   \* boxes in the manager's map
  poll,      \* per poll: the box and the answer under way
  teardown,  \* the CancelUnfunded under way, with the invoice it read
  up,
  crashes,
  requotes,  \* history: automatic re-quotes
  cut        \* history: boxes a teardown took out of the poller

store == <<invoice, blob, received, marker>>
memory == <<record, tracked, poll, teardown, up>>
history == <<requotes, cut>>
vars == <<bridge, chain, store, memory, crashes, history>>

Active == {"await", "funded", "disputed"}
SellerPaid == {"released", "expired", "arbSeller"}
BuyerPaid == {"refunded", "arbBuyer"}
Settled == SellerPaid \cup BuyerPaid
BoxStatuses == Active \cup Settled \cup {"cancelled"}

Idle == [box |-> None, answer |-> "none"]
Quote == [box |-> None, status |-> "quoted", count |-> 0]
NoTeardown == [box |-> None, copy |-> Quote, open |-> FALSE]

-----------------------------------------------------------------------------
(* The chain, as escrow.bas moves a box.                                   *)

Edges ==
  {<<"await", "funded">>, <<"await", "cancelled">>,
   <<"funded", "disputed">>, <<"funded", "released">>,
   <<"funded", "refunded">>, <<"funded", "expired">>,
   <<"disputed", "refunded">>, <<"disputed", "arbSeller">>,
   <<"disputed", "arbBuyer">>}

ChainStep(b) ==
  /\ \E s \in BoxStatuses :
       /\ <<chain[b], s>> \in Edges
       /\ chain' = [chain EXCEPT ![b] = s]
  /\ UNCHANGED <<bridge, store, memory, crashes, history>>

-----------------------------------------------------------------------------
(* The engine.                                                             *)

\* A proven buyer is bound to a fresh box.  The claim clears the re-quote
\* counters; it does not look at the invoice's own status.
Claim(b) ==
  /\ up /\ blob.status = "quoted" /\ chain[b] = "absent"
  /\ chain' = [chain EXCEPT ![b] = "await"]
  /\ blob' = [box |-> b, status |-> "await", count |-> 0]
  /\ record' = [record EXCEPT ![b] = "await"]
  /\ tracked' = tracked \cup {b}
  /\ UNCHANGED <<bridge, invoice, received, marker, poll, teardown, up,
                 crashes, history>>

InvoiceStatus(s) ==
  IF s \in SellerPaid THEN "completed"
  ELSE IF s \in BuyerPaid THEN "refunded"
  ELSE IF s = "disputed" THEN "disputed" ELSE "escrow_funded"

\* The invoice is looked up by the box; an event of a box that has been
\* replaced finds none.
UpdateInvoiceEscrow(b, s) ==
  /\ IF blob.box = b
     THEN /\ blob' = [blob EXCEPT !.status = s,
                        !.count = IF s = "funded" THEN 0 ELSE @]
          /\ invoice' = InvoiceStatus(s)
     ELSE UNCHANGED <<blob, invoice>>
  /\ UNCHANGED requotes

\* Faulty variant: any cancel is taken for the current binding's.
RequoteAnyBox(b) ==
  IF invoice \in {"completed", "expired"} \/ received
  THEN UNCHANGED <<blob, invoice, requotes>>
  ELSE /\ blob' = [box |-> None, status |-> "quoted",
                   count |-> blob.count + 1]
       /\ requotes' = requotes + 1
       /\ UNCHANGED invoice

\* Faulty variant: the counter runs down, and is not given a budget.
RequoteCountsDown(b) ==
  IF blob.box # b \/ invoice \in {"completed", "expired"} \/ received
  THEN UNCHANGED <<blob, invoice, requotes>>
  ELSE /\ blob' = [box |-> None, status |-> "quoted",
                   count |-> blob.count - 1]
       /\ requotes' = requotes + 1
       /\ UNCHANGED invoice

\* lastRequoteAt is set and cleared together with requoteCount, so the
\* cooldown can hold a re-quote back only while the count is above zero.
RequoteCancelledEscrow(b) ==
  IF blob.box # b \/ invoice \in {"completed", "expired"} \/ received
  THEN UNCHANGED <<blob, invoice, requotes>>
  ELSE IF blob.count >= Budget
  THEN invoice' = "expired" /\ UNCHANGED <<blob, requotes>>
  ELSE /\ blob' = [box |-> None, status |-> "quoted",
                   count |-> blob.count + 1]
       /\ requotes' = requotes + 1
       /\ UNCHANGED invoice

-----------------------------------------------------------------------------
(* The manager.                                                            *)

\* Faulty variant: a disputed box is not asked about.
PollAsksUndisputed(p, b) ==
  /\ up /\ poll[p] = Idle
  /\ b \in tracked /\ record[b] \in Active \ {"disputed"}
  /\ poll' = [poll EXCEPT ![p] = [box |-> b, answer |-> chain[b]]]
  /\ UNCHANGED <<bridge, chain, store, record, tracked, teardown, up,
                 crashes, history>>

PollAsks(p, b) ==
  /\ up /\ poll[p] = Idle
  /\ b \in tracked /\ record[b] \in Active
  /\ poll' = [poll EXCEPT ![p] = [box |-> b, answer |-> chain[b]]]
  /\ UNCHANGED <<bridge, chain, store, record, tracked, teardown, up,
                 crashes, history>>

\* What reconcile emits for a change from prev to s, and its handler.
Handle(b, prev, s) ==
  IF s = "cancelled" THEN RequoteCancelledEscrow(b)
  ELSE IF s \in Settled \cup {"disputed"} \/ (s = "funded" /\ prev = "await")
  THEN UpdateInvoiceEscrow(b, s)
  ELSE UNCHANGED <<blob, invoice, requotes>>

\* The answer is compared with the record as it is now, which a later
\* answer may have moved on, or which may have left the map.
PollReconciles(p) ==
  LET b == poll[p].box
      s == poll[p].answer
  IN /\ up /\ poll[p] # Idle
     /\ poll' = [poll EXCEPT ![p] = Idle]
     /\ record' = [record EXCEPT ![b] = s]
     /\ IF s = record[b] THEN UNCHANGED <<blob, invoice, requotes>>
                         ELSE Handle(b, record[b], s)
     /\ UNCHANGED <<bridge, chain, received, marker, tracked, teardown, up,
                    crashes, cut>>

\* The daemon does not answer.
PollFails(p) ==
  /\ up /\ poll[p] # Idle
  /\ poll' = [poll EXCEPT ![p] = Idle]
  /\ UNCHANGED <<bridge, chain, store, record, tracked, teardown, up,
                 crashes, history>>

-----------------------------------------------------------------------------
(* A payment on the integrated address.                                    *)

Detected ==
  /\ up /\ ~received
  /\ invoice \notin {"completed", "refunded", "expired"}
  /\ received' = TRUE
  /\ invoice' = "misrouted_to_base"
  /\ UNCHANGED <<bridge, chain, record, tracked, poll, up, crashes, history>>

\* With a sink the handler returns after the sink's write.
MisrouteBySink ==
  /\ bridge
  /\ Detected
  /\ UNCHANGED <<blob, marker, teardown>>

\* Faulty variant: the teardown begins without its audit marker.
TeardownUnmarked ==
  /\ ~bridge
  /\ Detected
  /\ IF blob.status \in {"await"}
     THEN teardown' = [box |-> blob.box, copy |-> blob,
                       open |-> chain[blob.box] = "await"]
     ELSE UNCHANGED teardown
  /\ UNCHANGED <<blob, marker>>

\* Without one the escrow is torn down: a quote at once, a deployed box
\* after the wallet has sent CancelUnfunded; a funded one is left alone.
TeardownBegins ==
  /\ ~bridge
  /\ Detected
  /\ marker' = TRUE
  /\ \/ /\ blob.status \in {"funded", "disputed"}
        /\ UNCHANGED <<blob, teardown>>
     \/ /\ blob.box = None
        /\ blob' = [blob EXCEPT !.status = "cancelled"]
        /\ UNCHANGED teardown
     \/ /\ blob.status = "await"
        /\ teardown' = [box |-> blob.box, copy |-> blob,
                        open |-> chain[blob.box] = "await"]
        /\ UNCHANGED blob

\* The wallet has sent the transaction, which the chain may still refuse;
\* the whole escrow blob as it was read is written back.
TeardownAccepted ==
  /\ up /\ teardown.open
  /\ tracked' = tracked \ {teardown.box}
  /\ blob' = [teardown.copy EXCEPT !.status = "cancelled"]
  /\ teardown' = NoTeardown
  /\ cut' = cut \cup {teardown.box}
  /\ UNCHANGED <<bridge, chain, invoice, received, marker, record, poll, up,
                 crashes, requotes>>

TeardownRefused ==
  /\ up /\ teardown.box # None
  /\ teardown' = NoTeardown
  /\ UNCHANGED <<bridge, chain, store, record, tracked, poll, up, crashes,
                 history>>

-----------------------------------------------------------------------------
(* The rest of the process.                                                *)

\* Neither a paid invoice nor one with a live box expires with its TTL.
ExpireUnpaid ==
  /\ up /\ ~received
  /\ invoice \in {"pending", "escrow_funded", "disputed"}
  /\ blob.status \notin Active
  /\ invoice' = "expired"
  /\ UNCHANGED <<bridge, chain, blob, received, marker, memory, crashes,
                 history>>

Crash ==
  /\ up /\ crashes < MaxCrashes
  /\ up' = FALSE
  /\ crashes' = crashes + 1
  /\ record' = [b \in Boxes |-> "none"]
  /\ tracked' = {}
  /\ poll' = [p \in Polls |-> Idle]
  /\ teardown' = NoTeardown
  /\ UNCHANGED <<bridge, chain, store, history>>

\* Faulty variant: only boxes that can still be funded or paid out by the
\* seller are reloaded.
RestartWithoutDisputes ==
  /\ ~up
  /\ up' = TRUE
  /\ IF blob.box # None /\ blob.status \in {"await", "funded"}
     THEN /\ tracked' = {blob.box}
          /\ record' = [record EXCEPT ![blob.box] = blob.status]
     ELSE UNCHANGED <<tracked, record>>
  /\ UNCHANGED <<bridge, chain, store, poll, teardown, crashes, history>>

\* rehydrateEscrows: the stored binding goes back into the poller.
Restart ==
  /\ ~up
  /\ up' = TRUE
  /\ IF blob.box # None /\ blob.status \in Active
     THEN /\ tracked' = {blob.box}
          /\ record' = [record EXCEPT ![blob.box] = blob.status]
     ELSE UNCHANGED <<tracked, record>>
  /\ UNCHANGED <<bridge, chain, store, poll, teardown, crashes, history>>

Init ==
  /\ bridge \in Sinks
  /\ chain = [b \in Boxes |-> "absent"]
  /\ invoice = "pending" /\ blob = Quote
  /\ received = FALSE /\ marker = FALSE
  /\ record = [b \in Boxes |-> "none"] /\ tracked = {}
  /\ poll = [p \in Polls |-> Idle] /\ teardown = NoTeardown
  /\ up = TRUE /\ crashes = 0 /\ requotes = 0 /\ cut = {}

Next ==
  \/ \E b \in Boxes : ChainStep(b) \/ Claim(b)
  \/ \E p \in Polls, b \in Boxes : PollAsks(p, b)
  \/ \E p \in Polls : PollReconciles(p) \/ PollFails(p)
  \/ MisrouteBySink \/ TeardownBegins
  \/ TeardownAccepted \/ TeardownRefused
  \/ ExpireUnpaid
  \/ Crash \/ Restart

Spec == Init /\ [][Next]_vars

Asked(b) == \E p \in Polls : PollAsks(p, b)
Answered(b) == \E p \in Polls : poll[p].box = b /\ PollReconciles(p)

\* The timer goes on polling every record, the daemon does not fail for
\* ever, and a process that died is started again.
Fairness ==
  /\ \A b \in Boxes : SF_vars(Asked(b)) /\ SF_vars(Answered(b))
  /\ WF_vars(Restart)

FairSpec == Spec /\ Fairness

-----------------------------------------------------------------------------
Blobs == [box : Boxes \cup {None}, status : BoxStatuses \cup {"quoted"},
          count : Nat]

TypeOK ==
  /\ bridge \in BOOLEAN
  /\ chain \in [Boxes -> BoxStatuses \cup {"absent"}]
  /\ invoice \in {"pending", "escrow_funded", "disputed", "completed",
                  "refunded", "misrouted_to_base", "expired"}
  /\ blob \in Blobs
  /\ received \in BOOLEAN /\ marker \in BOOLEAN /\ up \in BOOLEAN
  /\ record \in [Boxes -> BoxStatuses \cup {"none"}]
  /\ tracked \subseteq Boxes
  /\ poll \in [Polls -> [box : Boxes \cup {None},
                        answer : BoxStatuses \cup {"none"}]]
  /\ teardown \in [box : Boxes \cup {None}, copy : Blobs, open : BOOLEAN]
  /\ crashes \in 0 .. MaxCrashes /\ requotes \in Nat
  /\ cut \subseteq Boxes

\* What the invoice says of money is what the box it names has done, with
\* answers out of order, replaced boxes, teardowns and restarts: completed
\* when the seller was paid, refunded when the buyer was, escrow_funded or
\* disputed only after a deposit.
OutcomeIsTrue ==
  /\ invoice = "completed" =>
       blob.box # None /\ chain[blob.box] \in SellerPaid
  /\ invoice = "refunded" =>
       blob.box # None /\ chain[blob.box] \in BuyerPaid
  /\ invoice \in {"escrow_funded", "disputed"} =>
       /\ blob.box # None
       /\ chain[blob.box] \in Settled \cup {"funded", "disputed"}

\* DERO in the invoice's box is never out of sight: the running process
\* has the box in its poller as active, whatever was restarted or answered
\* late, unless a teardown has cut it off (see the README).
MoneyIsWatched ==
  LET b == blob.box IN
  up /\ b \in Boxes \ cut
     /\ chain[b] \in {"funded", "disputed"}
  => b \in tracked /\ record[b] \in Active

Misrouted == received => invoice = "misrouted_to_base" \/ marker

\* Without a sink a payment on the wrong rail stays visible, as the status
\* or as the marker, whatever the escrow rail settles afterwards.
MisrouteStaysVisible == ~bridge => Misrouted

\* The same with and without a sink.
MisrouteNeverHidden == Misrouted

\* The automatic re-quotes of an invoice stay within the budget.
RequotesBounded == requotes <= Budget

\* In the end the invoice says, and goes on saying, how its box settled, and
\* a box that was cancelled is replaced while the invoice can be paid.
ChainReachesInvoice ==
  \A b \in Boxes :
    /\ (blob.box = b /\ chain[b] \in Settled)
         ~> [](\/ invoice = "completed" /\ chain[b] \in SellerPaid
               \/ invoice = "refunded" /\ chain[b] \in BuyerPaid
               \/ b \in cut)
    /\ (blob.box = b /\ chain[b] = "cancelled")
         ~> (blob.box # b \/ received \/ invoice = "expired")
=============================================================================
