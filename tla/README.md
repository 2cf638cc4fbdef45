# DeroPay verification

TLA+ models, TLC runs and TLAPS proofs for the money-carrying core of DeroPay
(`packages/dero-pay`): the escrow contract, the path from a DERO transfer to
the word "completed", the delivery of that word to a merchant, the claim that
binds an escrow box to an order, the way the chain's word on a box reaches the
invoice, the prepaid ledger and its metered proxy, and pay-per-request over both
x402 rails, contract and invoice. Paths below are relative to the repository's
root; line numbers refer to the modelled commit.

## 1. The system

DeroPay lets a merchant take DERO without a custodian. The TypeScript SDK
(`packages/dero-pay/src`) polls the merchant's own wallet and daemon, keeps
invoices in SQLite, and pushes signed webhooks. Three DVM-BASIC contracts
(`packages/dero-pay/contracts`) hold or route money on the chain. The apps,
templates and plugins of the monorepo are deployments and user interfaces
around the SDK.

| component | state it keeps | operations | module |
|---|---|---|---|
| escrow box (`contracts/escrow.bas`) | status, parties, terms, ledger, clocks, the DERO held | Initialize, Bind, Deposit, ConfirmDelivery, RefundBuyer, ClaimAfterExpiry, Dispute, Arbitrate, RefundAfterDisputeTimeout, CancelUnfunded, Pause, Unpause, TransferOwnership, ClaimOwnership | `Escrow` |
| payment monitor (`src/monitor`) | tracked invoices: a copy, seen txids | track, poll, pollInvoice, confirmation checks, untrack | `Settlement` |
| invoice engine, bridge path (`src/server/invoice-engine.ts`) | listeners, timers | start, createInvoice, the monitor's handlers, checkExpiredInvoices | `Settlement` |
| webhook sink (`src/webhook/outbox-sink.ts`) | none: writes through the store | onPaymentDetected, onPaymentConfirmed, onInvoiceExpired | `Settlement` |
| SQLite store, invoices (`src/store/sqlite.ts`) | invoices, payments, webhook_outbox | apply*WithOutbox, updatePayment, claimDueOutbox, mark, reschedule, prune | `Settlement`, `WebhookOutbox` |
| delivery worker (`src/webhook/delivery-worker.ts`) | the claimed batch, ticking flag | tick, deliver | `WebhookOutbox` |
| payout bridge (`src/bridge`) | the processes above in one | start, stop, crash | Start/Restart/Crash of both |
| escrow claim (`src/escrow/manager.ts`, `keeper.ts`, `inventory-store.ts`, `claim-guard.ts`, engine `claimEscrowInvoice`) | per-process escrow records; box inventory; claim rows; invoice | createEscrow, claimEscrow, take, release, confirmMinted, refill, reset | `EscrowClaim` |
| escrow reconciliation (`manager.pollEscrows`, `reconcile`, the engine's escrow handlers) | escrow records, the invoice's status and escrow blob | poll, reconcile, re-quote, teardown, expiry, rehydrate | `EscrowSync` |
| prepaid ledger (`src/prepaid`, `sqlite.ts` 966-1306) | accounts, holds, transactions | credit, reserve, capture, release, refund, resolveHold | `Prepaid` |
| metered proxy (`src/prepaid/proxy.ts`) | a hold per request in flight | reserve, forward, capture or release, stream, cancel | `Prepaid` |
| x402 client (`src/x402/paying-fetch.ts`, `policy.ts`) | attempts in flight, the spending window | payingFetch, reserve, commit, release | `X402Exact` |
| x402 facilitator (`apps/facilitator`) | a receipt per order | /verify, /settle | `X402Exact` |
| x402 server (`src/x402/next.ts`, `receipt.ts`) | one-time-use markers | withX402, verifyX402Receipt, consume | `X402Exact` |
| x402 contract (`contracts/x402-pay.bas`) | one key per order | Pay, Withdraw | `X402Exact` (Pay) |
| x402 invoice rail (`src/next/x402.ts`, `payment-receipts.ts`, `sqlite.ts` 798-964) | used receipt ids, window counters | guard, issue, reserve usage | `PayingAgent` |
| paying agent (`src/agent/paying-fetch.ts`, `credentials.ts`) | attempt in flight, pending payments, cached receipt, credential ledger | payingFetch, pay, wait, redeem, retry | `PayingAgent` |
| router contract (`payment-router.bas`) | splits, order ids | Pay, Withdraw, UpdateMerchant | not modelled |
| memory store, RPC clients, handlers, React, apps, templates, plugins | see section 8 | | not modelled |

**How they interact.** The engine is an event emitter: the monitor's `poll`
awaits two RPCs (daemon height, wallet transfers) and then emits into engine
handlers, which run up to their first `await` inside the emit. The handlers
call the sink, the sink calls the store. The store is SQLite through
`better-sqlite3`: each call is synchronous and atomic, but sits behind an
`async` signature, so each `await` on it is a point where another handler of
the same process may run and where a crash may fall. Several processes can
share the database file; they share no memory. The delivery worker reads the
outbox rows that the sink wrote and POSTs them. Escrow adds the chain: the
manager deploys and binds boxes through the wallet RPC, whose failure does not
say whether the transaction was broadcast; it then polls each box it knows and
emits the changes into engine handlers, which write the invoice. The metered
proxy calls the ledger before and after an upstream it awaits. On the x402
contract rail four parties meet: a client that pays on the chain, a server that
asks a facilitator whether the payment is final, and the receipt that the
facilitator signs and the server burns. On the invoice rail the page's own guard
opens an invoice per challenge; the agent pays it, polls it and exchanges it for
a receipt, which the guard checks against its store.

**What is hard.** (a) State read before an await and written after it
(`reconcileStatus`, the expiry handler, `claimEscrowInvoice`); (b) polls that
overlap, because `setInterval` does not wait for an async callback, and answer
out of order with old copies; (c) a crash between two store calls; (d) two
processes on one database; (e) rows claimed by a worker that died, or whose
lease ran out while its POST was still in flight; (f) money arithmetic in
wrapping 64-bit words; (g) windows on block heights that must neither overlap
nor leave a gap; (h) RPCs that fail after they took effect. `PROJECT.json`
lists each of these under "hazards" at the line where it bites.

**What makes each component correct.**

- *Escrow box*: the ledger equals the DERO held; each party's position is
  exactly what the status says; nobody can freeze or redirect a deposit; terms
  do not move after Bind; the remedies partition time; money is never locked.
- *Settlement*: the recorded amount is the sum of distinct transfers; goods
  ship only on money that is buried; every stored change has its outbox row;
  the merchant who follows the rows knows the status; a paid invoice does not
  expire and does complete.
- *Outbox*: rows are neither lost nor re-sent after an acknowledgement; a row
  is parked only after POSTs that failed; every row settles.
- *Escrow claim*: one box per order and one order per box; the invoice shows a
  box bound with its own terms; an order does not stay unclaimable.
- *Escrow reconciliation*: what an invoice says of money is what its box did;
  a funded box is polled; the chain's outcome reaches the invoice and stays.
- *Prepaid*: the running balances equal the rows; the upstream works once per
  key; who was served is charged and who was not is not; an open hold has a
  reason.
- *x402 invoice rail*: a payment is not lost from sight while it can be redeemed;
  the handler runs for paid invoices, once each where receipts are single use;
  no window is overdrawn.
- *x402 contract rail*: concurrent calls share one payment; spending stays
  under the window's cap; a page is served for a final payment only; a payment
  runs the handler once while a receipt that ran it is valid.

## 2. Modules

| module | what it is |
|---|---|
| `EscrowTrust` | abstract: one offer, one payment of its price, one exit of that price |
| `Escrow` | `escrow.bas`; implements `EscrowTrust` (`Trust == INSTANCE EscrowTrust WITH ...`) |
| `Escrow_proofs` | the inductive invariant of `Escrow`, its theorems, and the refinement |
| `Settlement` | monitor, engine handlers, expiry timer, sink and invoice tables |
| `Settlement_proofs` | its inductive invariants and theorems, for any number of processes and for a lone one |
| `DeliveryPromise` | abstract: an owed event stays owed until acknowledged or parked |
| `WebhookOutbox` | delivery worker and outbox table; with one worker implements `DeliveryPromise` |
| `WebhookOutbox_proofs` | a single worker: its inductive invariant, theorems, and the refinement |
| `EscrowClaim` | claim of a quote, box inventory, keeper, claim rows, Bind on the chain |
| `EscrowClaim_proofs` | its inductive invariant and theorems |
| `EscrowSync` | polls, reconcile, event handlers, re-quote, teardown, expiry and rehydration of one invoice |
| `EscrowSync_proofs` | its inductive invariant and theorems |
| `Prepaid` | the ledger's transactions and the life of a metered call |
| `Prepaid_proofs` | the sums behind the books, the inductive invariant, the theorems |
| `X402Exact` | client, policy, contract, facilitator and server of the x402 contract rail |
| `X402Exact_proofs` | its inductive invariant and theorems |
| `PayingAgent` | the agent of the invoice rail and the guard of the page it pays for |
| `PayingAgent_proofs` | its inductive invariant and theorems |
| `MC...` | model values and small sets of each; the `.cfg` files choose among them |

In each module the definitions named "faulty variant" are not part of the
specification. Each is the code with one plausible mistake (a dropped guard, a
missing reset), kept so that every property can be shown to notice it.

**Escrow.** One action per contract function that writes, taken by any signer,
the zero `SIGNER()` of an anonymous call included. A call that returns 1 is
reverted by the chain, so a guard is the conjunction of the lines that jump to
the failure label and a rejected call is a stuttering step. `held` is the DERO
the chain keeps for the contract and `net` each account's position; neither is
visible to the contract, whose own ledger is `escrowBalance`. The guards of the
four timed remedies are operators of their own (`DisputeOpen`, `ClaimOpen`,
`RulingOpen`, `TimeoutOpen`), since `OneRemedyAtATime` compares them: a call is
accepted when its guard holds, as nothing after the guards can refuse it. `Fee` wraps at
`WordSize`, as Uint64 products do.

**Settlement.** One invoice on the integrated-address rail, and the processes
that share its database. The granularity is the code's own: an `await` on the
synchronous store yields only to microtasks, so inside one process the
continuations of one timer or RPC callback drain before the next callback
starts. `work[p]` is that queue. A task is one transaction or what runs between
two awaits, and another process or a crash may fall between two tasks, the
entries of one wallet answer included. `StartPoll` captures the monitor's copy
and the daemon's height that the answer will be read with, possibly several
polls later. `Answer` is `pollInvoice` finding its work. The loop over the
entries (`Entries`) uses the copy captured before the wallet was asked: an unseen
entry is a `DetectStep`, which inserts the payment, sums, writes its row and
queues the settling from the snapshot that the code reads at that point; a seen
one that has crossed the depth by that copy is a `CrossStep`, which stores the
confirmation and queues the reread. The check after the loop (`Crossings`) reads
the monitor's copy anew (`payment-monitor.ts:314`), which an overlapping poll may
have refreshed, so a payment may be reported twice, once or by the check alone,
and only the check reports the invoice complete. `SettleStep` decides from the
snapshot and writes without looking again. Blocks are never orphaned here, so a
stored height is never wrong.

**WebhookOutbox.** One action per SQL statement, and one for a POST. Time is
abstracted to what the claim statement compares: whether `next_attempt_at` has
come (`ripe`) and whether `lease_until` has not (`leased`). Both may change at
any time, because nothing ties the 60 s lease to the length of a batch of 20
POSTs of up to 10 s each. `got` and `fails` are what really happened at the
merchant and are read by no action's guard.

**EscrowClaim.** A call of `claimEscrowInvoice` is a record with a program
counter; one step per await that somebody else can fall into. `Quiet(p)` says
that no step of process p is between microtasks, so the steps between two RPCs
of one process run to the next RPC before another call of that process starts;
other processes and crashes interleave with them. `sent` is the set of Bind
transactions broadcast, `bound` what the chain made of them (the first mined
wins, as `escrow.bas` line 30 guards). The keeper's tick is four database or
daemon steps and the mints of a refill. `Outcome` says what an RPC did and what
its caller learns: an error may hide that the transaction went out, which
`hidden` counts and `MaxFaults` bounds. `sure` keeps the Binds that claimEscrow
did not see fail; it is read by properties only.

**EscrowSync.** The chain moves boxes along the edges that `Escrow` allows. A
poll is two steps, the question (`PollAsks`, which fixes the answer) and
`PollReconciles`, so answers of overlapping polls come in any order. The store
is synchronous and a handler drains within the callback that emitted it, so
`reconcile` and its handler are one step; `createEscrowQuote` does no I/O. The
teardown of a misrouted payment awaits the wallet between its read and the
write of the whole blob: `teardown` holds the copy it read. A successful claim
is one step here (`EscrowClaim` has its inside). The branch of `reconcile` for a
funded amount that differs is left out, as `Escrow!Custody` makes the amounts
agree. `cut` marks boxes a teardown took out of the poller: the wallet accepted
`CancelUnfunded`, which may still lose to a `Deposit` on the chain; such a box is
untracked until a restart, and `MoneyIsWatched` and `ChainReachesInvoice` leave
it aside.

**Prepaid.** Each method of the store is one SQLite transaction and one step.
A row is kept under its reference, which is what the code makes unique; a
replay of a stored row writes nothing. A call moves through `call[c].at`:
reserved, answered or streaming, served, refused, failed (the handler threw),
crashed or thrown: the event sink and the constructor of the adapter's headers
stand outside every `try` (`proxy.ts:278`, `310-312`, and `150` within `capCharge`),
so their throw rejects the request and leaves the hold open. `Capture` is the ledger call with what it does when the operator was
faster; `StreamAborts` and `StreamFinalizes` are the two callers of `finalize`,
of which the first decides. `closedBy` is history.

**X402Exact.** A call's order is named by the call that leads its attempt, since
every unpaid probe gets a new order id. The client's steps are its awaits; the
policy's ledger is a sequence with a time and a state per entry, pruned from
the front. A request in flight walks through verify, the facilitator's cache,
the chain and the server's check; it may be duplicated, and its sender may have
left. A payment is "sent" until the stable height buries it. `/verify` and `/settle`
each ask the daemon twice, for the contract (`Verify`, `SettleReads`) and for the
stable height (`VerifyDepth`, `SettleSigns`); `Orphan` takes the block out of the
chain in between, after which the height that was read says nothing (`DeepEnough`).
`raced` keeps the orders this happened to at `/settle`. The check of the receipt
(`Check`) and the marker (`Unlock`) are two steps, as each reads the clock.

**PayingAgent.** One page of one price. `call[c]` is one `payingFetch` and `attempt`
the promise that concurrent calls share; `phase` is how often the page has been
asked. A receipt is named by its invoice, as `payment-receipts.ts:199` derives its
id. The guard verifies a receipt (`Verify`), awaits its engine, and then answers in
one step (`Admit`), because its store is synchronous, with the mark of the receipt
before the reservation of its windows, in the code's order: a request that a full
window refuses has used its receipt up. The mark reads the clock again and drops
the marks that have expired, so the window may close between the two steps. Three
clocks are sets: `lapsed` (the challenge's `expiresAt`), `closed` (the receipt's
window) and `Roll` (a usage window ends). An answer is lost (`Lost`) once it is
given; a request lost earlier leaves the same state. The wallet may answer, refuse, or lose its answer
after a `Transfer`; the invoice side is `Settlement` seen from outside.

## 3. Runs

| run | question | result |
|---|---|---|
| `escrow` | every call by every account at every height; is a deposit ever locked for good | all invariants, both action properties, the refinement and `FundsNeverLocked` hold |
| `settlement` | one process, overlapping and failing polls, a crash, a TTL | types, `MerchantUpToDate`, `ExpiryIsPaymentAware`, `PaidInvoiceCompletes` hold |
| `settlement_shared` | two processes over one database | `ReceivedIsSum`, `ShipOnlyOnConfirmedFunds`, `EverythingAnnounced` hold |
| `outbox` | one worker, a crash, leases that run out at any time | types, `AttemptsAreReal`, `ImplementsPromise`, `EveryRowSettles` hold |
| `claim` | two processes, two orders, refused RPCs, a crash or an error that hides a broadcast | all six invariants hold |
| `prepaid` | top-ups, refunds, operator decisions, duplicate and retried calls, streams, uncaught throws, crashes | all five invariants hold |
| `escrow_sync` | two boxes in turn, overlapping polls, re-quotes, a misrouted payment, a crash | three invariants and `ChainReachesInvoice` hold |
| `x402_exact` | three calls for two pages, lost answers, duplicated headers, orphaned blocks, expiring receipts | three invariants and `OneUnlockPerTtl` hold |
| `paying_agent` | two calls of one payer, late and expired invoices, single-use receipts, full windows | all three invariants hold |
| `crash_between_edges` | a crash never drops a "paid" | violated |
| `requote_cap` | automatic re-quotes stay within the budget | violated |
| `misroute_bridge` | a misrouted payment is never hidden, bridge path included | violated |

What the passing runs leave aside on purpose: `MerchantUpToDate` and
`ExpiryIsPaymentAware` hold of one process only (a second one can expire the
invoice between the first one's check and write), and so does the promise of
the outbox; `ShipOnlyOnConfirmedFunds` is what survives any number of them.
`OneUnlockPerTtl` and `OneRunPerPayment` speak of the time a receipt is open
(disagreements 12 and 13), and `BoxServesOneOrder` and `ShownBoxIsOwn` except the
Binds that an error hid (disagreement 8).
`MisrouteStaysVisible`, `FundedNeverPaused`, `RolesSound`, `TermsFrozen` and
`ServedOnlyIfPaid` are proved and not run.

### Disagreements between code and text

Three are runs:

1. `crash_between_edges`. The payment's `confirmed` and the invoice's
   `completed` are separate writes (`invoice-engine.ts:720` and the sink). After
   a crash between them no edge is left to produce the second, although
   `ARCHITECTURE.md:56` says a crash never drops a "paid" notification.
2. `requote_cap`. `invoice-engine.ts:1427-1428` caps the automatic re-quotes per
   invoice, but a box can be cancelled only after a claim, and every successful
   claim clears both counters (lines 1068-1069), so the cap and the cooldown
   always read zero. Lines 1065-1067 give the reason for the reset; the two
   intentions cannot both hold.
3. `misroute_bridge`. With a webhook sink `paymentDetected` returns
   (`invoice-engine.ts:661-667`) before the branch that tears the escrow down
   and stores the marker, so the box's next event overwrites
   `misrouted_to_base`; line 1518 says a later settlement can never hide it.

The others can be seen by changing a constant of a run or asking one more
question of a module, and are described here rather than run:

4. `x402/paying-fetch.ts:162` releases the reservation for any error of the wallet
   call, so a `Pay` that was broadcast and whose answer was lost is not counted in
   the window, and the deposits on the chain can exceed the cap;
   `rpc/wallet-rpc.ts:68-69` asks that the absence of a refusal be treated as
   possible acceptance. `agent/paying-fetch.ts:348-351` does the same.
5. With `Expires = TRUE`, `FundedInvoiceCompletes` of `Settlement` fails:
   `payment-monitor.ts:231` reports the expiry of a tracked invoice and skips
   its poll, so confirmations never accrue again, although
   `invoice-engine.ts:780-781` says they do.
6. With two transfers in one wallet answer, `TerminalIsFinal` of `Settlement`
   fails: `outbox-sink.ts:114` writes the status that an older snapshot decided.
7. With two workers, `DeliveredIsFinal` of `WebhookOutbox` fails: the marks of
   `sqlite.ts:1778` and `1818` update by id without looking at the row, and a
   worker whose lease ran out puts a delivered row back.
8. `BoxServesOneOrder` of `EscrowClaim` over `sent` instead of `sure` fails:
   `manager.ts:468` takes any failed Bind for a refusal, also one that
   `rpc/wallet-rpc.ts:41-66` calls ambiguous. The keeper pools the box again
   unless the hidden Bind has been mined by then, and a second order is handed
   it. The chain honours only the first Bind, so the box shown for the second
   order may carry the terms of the first.
9. `BindingsStick` of `EscrowClaim` fails as it stands: `invoice-engine.ts:1050`
   stores `deploy_failed` over the whole blob without the compare-and-set of the
   success path.
10. In `PayingAgent` a call may time out, its invoice complete, its challenge
    expire, and the next call then pays again, although the receipt could still
    be issued: `agent/paying-fetch.ts:319-323` drops a pending payment by the
    clock alone. Lines 279-280 say that a completed invoice is redeemed by a later
    call rather than paid again, and 176-177 that the same demand is never paid
    twice. `PaidIsTracked` therefore speaks of challenges that live.

11. A throw of the event sink or of `new Headers` leaves a hold open with the
    process alive (`ProxyThrows`, `CapChargeThrows`), and a streamed call that throws
    there has been served without a charge. `apps/x402-example/README.md:100`
    speaks of holds left by an unclean exit. `OpenHoldIsExplained` counts these
    calls with the ones that died, and `ServiceIsCharged` is of calls that came to
    their end.
12. A block orphaned between the two questions of `/settle` can be settled:
    `settle.ts:79-82` says that a payment which may vanish is not, but it compares
    the stable height with a height read before (`ServedOnlyIfPaid` excepts these
    orders). And `settle.ts:107-109` and `receipts/store.ts:28-30` rule out a second
    unlock by one payment, while the facilitator signs a new receipt once the old
    one has expired, which finds the marker expired too. `next.ts:35-37` says once
    within the lifetime, but a receipt that expires between its check and its
    marker runs the handler again. `OneUnlockPerTtl` says what is left: one run as
    long as a receipt that ran the handler is valid.
13. On the invoice rail a single-use receipt that is verified before its window
    closes and marked after it may run the handler again, as `sqlite.ts:800-802`
    has dropped its mark by a second reading of the clock (`next/x402.ts:137-161`).

Also seen, and not run: a process that dies while it holds a claim row leaves
the quote unclaimable, since the reconciler that `manager.ts:431` mentions was
removed (`invoice-engine.ts:395-398`); of two calls for one quote in one tick
of one process, the loser deletes the manager record of the winner; a success
that loses its compare-and-set returns an invoice that shows a box the store
does not have; overlapping polls may show a completed invoice as disputed until
the next answer corrects it; a box that goes from awaiting to released between
two polls skips the amount check; a re-quote dropped by its cooldown is not
tried again; two invoices opened under one top-up key and both paid credit only
the first (`prepaid/handlers.ts:207`); after a dropped connection the caller's next call pays again; on the invoice rail
a single-use receipt that a full window refuses (429) is used up, and an agent
that restarts forgets its pending payments.

## 4. Bounds

- *Escrow.* Four accounts, the fewest for a seller, an arbitrator, a buyer and
  an owner who is none of them, with every coincidence among them still tried.
  Expiry of 1 and a window of 2 stand for 4000..10000000 and 14400: the code only
  compares sums of heights, so what matters is that both ends of both windows
  fall inside `MaxHeight`. `WordSize` keeps the ratio of 2^64 to the dearest price
  times the fee limit (about 0.41), so that the largest order wraps its fee.
  Rejected arguments (fee 5000, expiry 0, price 17) are tried next to accepted
  ones. No symmetry, as the run checks liveness; `RoomToSettle` asks only of
  deposits whose last window the chain still reaches.
- *Settlement.* Amounts of half the price and the price give partial, exact and
  overpaid sums from two transfers; with two processes (2.85 million states) all
  transfers are of half the price and no TTL passes, which still meets partial and
  exact sums, and the theorems of section 6 cover every other amount and expiry.
  `Depth` 2 makes detection and confirmation
  different answers of the wallet. `MaxPolls` 2 overlaps two polls and lets
  their answers come in either order. A transfer is mined only where the chain
  can still bury it (a bound of `Block`), else liveness would fail at the edge.
- *WebhookOutbox.* Three rows and a batch of two, so a claim leaves one behind;
  `MaxAttempts` 2 so that a row is rescheduled, parked, and with `MaxEnqueues` 4
  revived.
- *EscrowClaim.* Two processes, orders, calls and boxes: two calls may meet on
  one order, and a box given back by one may reach the other. `TargetReady` and
  `RefillBelow` 1 let the pool be empty, full and refilled. The re-quote budget
  may be part spent at the start, because the cancel path, not modelled here,
  draws on it too. `MaxFaults` 1: one crash, or one error that hides a broadcast.
- *EscrowSync.* Two boxes, so that an event of the replaced one can be late;
  two polls in flight, so that answers cross; a budget of 1, so that a re-quote
  is allowed and refused; one crash; with and without a sink.
- *Prepaid.* One account, top-up and invoice, two request references, three
  calls and two refunds: two calls may meet on one key and a third on the other;
  top-ups of 3, prices of 1 and 2 and measures below, at and above them (see
  `MCPrepaid`), so that a balance is short, exact and left over.
- *X402Exact.* Two calls for a page of price 1 and one for a page of price 2
  under a cap of 2: alone each fits, together they do not. Two requests in
  flight duplicate a header; a window and a lifetime of 1 and a clock up to 2 let
  entries, receipts and markers run out. `Rough` names the call whose header is
  copied and whose block may be orphaned: one is enough, as orders share neither
  receipt nor marker, and the theorems have no such bound on it. Calls of one page and requests are
  symmetric.

- *PayingAgent.* Two calls and three invoices: the calls share a payment, one of
  them is refused its receipt and pays again, and an expired or lapsed invoice
  still leaves one to pay. Credentials for one and for two payments, so that the
  cap is met; windows of two requests and of one, so that one is full before the
  other. Calls and invoices are symmetric.

`CHECK_DEADLOCK FALSE` is said of every run but `escrow`: a completed invoice, a
settled outbox, a claim or a call that has returned have nothing left to do, and
chain and clock stop at their bounds. The escrow contract can always be called,
and its run checks deadlock.

## 5. Fairness

- *Escrow.* Blocks come; the seller claims what has vested; a buyer whose
  dispute was not answered takes the timeout refund. The last two are the
  parties' own interest. Nothing is assumed of the arbitrator or the owner.
- *Settlement.* Timers fire, queued continuations run, a crashed process is
  restarted, blocks come: weak fairness. The wallet's answer gets strong
  fairness, as polls may fail for any finite time and the next one is a new
  enabling. Nothing is assumed of the TTL or of senders.
- *WebhookOutbox.* The interval fires, a POST ends by its timeout, time passes,
  and a crashed process restarts. Nothing is assumed of the merchant.
- *EscrowSync.* Strong fairness of asking about a box and of reconciling its
  answer: the daemon may fail for any finite time, and a crash drops polls. A
  process that died is started again. Nothing is assumed of the chain, of
  claims or of the payer.
- *EscrowClaim*, *Prepaid*, *X402Exact* and *PayingAgent* state safety only.

## 6. Proofs

`Escrow_proofs` proves, for any set of accounts, any fees, prices and terms and
any word size, that every behaviour of `Escrow!Spec` keeps the type invariant,
`Custody`, `ExactPositions`, `OneRemedyAtATime`, `RolesSound` and
`FundedNeverPaused`, never rewrites the terms (`TermsFrozen`), gives the owner no
lever (`OwnerHasNoPrincipalLever`) and implements `EscrowTrust`. The assumptions
are `AccountsAssumption` (the zero address and the absent key are no account) and
`NumbersAssumption` (the parameters are natural numbers); in particular nothing
is assumed of the size of a price or of `WordSize`.

None of the invariants is inductive alone. `ExactPositions` speaks of the terms
and the buyer, so it needs that these are set when a box is funded
(`KeysMatchStatus`: an installed box has an owner, a bound one its parties, a
funded or settled one its buyer); a settlement pays out of the ledger, so it
needs `Custody`; `Pause` is only harmless given `FundedNeverPaused`, and so is it
that a deadline leaves no gap in which neither remedy is open.
`IInv` is the conjunction. The lemmas are arithmetic (`FeeBounds`: a wrapped fee
is still at most the balance; `CreditTwice`, `RefundIsWhole`,
`DepositIsThePrice`) and the two shared money moves (`PaySellerEffect`,
`PayBuyerEffect`), so that each settlement function is one application of
`SettleToSeller` or `SettleToBuyer`. The refinement maps settlement to `Release`
or `Return`, `Deposit` to `Pay`, `Bind` to `MakeOffer`, `CancelUnfunded` to
`Void`, and every other call to a stutter.

`Settlement_proofs` proves, for any set of processes, transfers, amounts, price
and depth, any number of overlapping polls and any crashes, `TypeOK`,
`ReceivedIsSum`, `ShipOnlyOnConfirmedFunds` and `EverythingAnnounced`, from
`SettlementAssumption` alone. What makes them inductive is that a snapshot is
never ahead of the chain (`SnapshotInv`): whatever was stored, read, copied or
captured says of a transfer only what the chain has since gone on from; what is
called confirmed is buried, and every received amount is the total of the
payments beside it. A status decided from the oldest snapshot is therefore still
true of the chain, although it may no longer be the status that the store would
decide. `SeenInv` adds that a lone process has seen every stored payment. A total
is a cardinality, so that it needs no recursion: a larger set of transfers has at
least the total of a smaller one.

Two properties hold of a lone process only and are proved with `Procs = {p}` as
an assumption. For `ExpiryIsPaymentAware`, `ExpireInv` says that an expiry under
way is alone in the queue, with nothing paid: the timer looks only when the queue
is empty, and no detection runs before it. For `MerchantUpToDate`, `LoneInv` says
that the amounts of the status rows only grow, and that at one amount no
confirming row follows a completed one (`RowsInv`), that a snapshot read later
holds at least what one read earlier does (`ReadsInv`), and that no row says more
than the store or a queued snapshot (`AboveInv`). A status that comes back
therefore comes with another amount or another transfer, and its identifier
cannot collapse onto an older row. None of these is an invariant of
two processes, as section 3 says.

`Prepaid_proofs` proves `TypeOK`, `BooksBalance`, `OneUpstreamCallPerKey`,
`ServiceIsCharged` and `OpenHoldIsExplained` for any accounts, references, calls
and prices, under `PrepaidAssumption` and finite sets of references. A total is
the cardinality of a set of units, so that sums need no recursion: the lemmas say
what one changed row does to a total. `PrepaidInv` adds that a call which has
passed its reservation has a hold (`RequestInv`) and who closed a hold
(`ClosedInv`); that a balance stays natural follows from the books, as the sum of
open holds covers the hold being closed.

`WebhookOutbox_proofs` proves, for one worker and any events, batch size and
ceiling of attempts, `TypeOK`, `AttemptsAreReal`, `DeliveredIsFinal` and that the
module implements `DeliveryPromise`. `Workers = {w}` is an assumption of each
of these theorems, as they are false of two. `OutboxInv` says that a batch holds each of its
rows once, that these rows are "delivering" with the attempts the worker read,
and that an "ok" was accepted and a "failed" is a failure not yet counted; from it
each mark acknowledges, parks or keeps owing, and everything else is an
acceptance or a stutter. `NeverDropped` is of any number of workers: however
their leases, marks and crashes interleave, a row is delivered, or leaves the
table, only once the merchant has accepted its event (`AcceptedInv`).

`EscrowSync_proofs` proves `TypeOK`, `OutcomeIsTrue`, `MoneyIsWatched` and
`MisrouteStaysVisible` for any boxes, polls and budget. `SyncInv` says that a
stored status, a record and an answer under way are states from which the chain
has only gone on, that only the bound box can hold money, and that a teardown's
copy names the binding it may still write over.

`X402Exact_proofs` proves `TypeOK`, `ConcurrentCallsShareOnePayment`,
`SpendUnderCap`, `ServedOnlyIfPaid` and `OneUnlockPerTtl` for any calls,
pages, prices, cap and clock. `ExactInv` says that one call leads per page, that
a request past the check of `/settle` has a final payment or one orphaned during
that check, and how the expiries of receipts, of the cache and of the markers are
ordered: a receipt that ran the handler and is valid has its marker. For the cap, `SpendInv`
says that a call whose amount counts still has its entry in the ledger, and that
a call at the wallet has its reservation. `prune()` drops entries from the front
only, up to the first that counts, so it never drops one that counts
(`CountedLive`, `PrunedKeeps`); what `reserve()` adds up then covers everything
that counts, and the test before the append is enough (`Reserved`).

`PayingAgent_proofs` proves `TypeOK`, `PaidIsTracked` and `OneRunPerPayment` for any
calls, invoices, caps and windows. `AgentInv` says that nothing is pending while an
attempt pays and its own invoice is while it settles, so that a pending payment
is never written over; that an invoice completes by being paid; and that a
receipt which has run the handler is marked until it expires, so a request that
was verified earlier finds the mark as long as the window is open.

`EscrowClaim_proofs` proves `TypeOK`, `BoxServesOneOrder`, `GateNeverOpen`,
`NoBoxLeaks`, `ShownBoxIsOwn` and `HeldRowIsInHand` for any processes, orders,
calls and boxes and any number of hidden broadcasts. `ClaimInv` follows an id: it
belongs to one order (`IdInv`), one call works on it under its row until the quote
is over (`RowInv`), a box in hand is nobody else's and no Bind of it that went out
was seen to succeed (`InHandInv`), so the one that does is the first (`SentInv`).

Only model-checked: the liveness properties `FundsNeverLocked`,
`PaidInvoiceCompletes`, `EveryRowSettles` and `ChainReachesInvoice`, which the
prover does not treat. Every invariant and every action property of a passing
run, and both refinements, are theorems; where a theorem assumes more than its
module does (a lone process, one worker), it says so above.

## 7. Plan

Done, in the order of what a mistake costs: custody (`Escrow`), the word
"completed" (`Settlement`), its delivery (`WebhookOutbox`), which box an order
gets (`EscrowClaim`), how the box's outcome reaches the invoice (`EscrowSync`),
money held for an API's customers (`Prepaid`), and pay-per-request
(`X402Exact`, `PayingAgent`).

## 8. Not modelled

- *Memory store*: a twin of the SQLite store for tests, without outbox.
- *Wallet and daemon RPC clients*: request and response; their failures are the
  lost polls, refused mints and unanswered Binds of the models.
- *Signing and HTTP of webhooks*: one POST with two outcomes and a lost answer.
- *Payment router*: each call is one guarded transaction without a history.
- *Prepaid top-up handler*: its credit is `Prepaid!CreditPrepaid` and its invoice
  `Settlement`'s; the two are not composed.
- *HTTP handlers, React hooks, wallet connectors, widget*: no state of their own.
- *Apps, templates, plugins*: deployments and integrations around the SDK.
- Inside the modelled parts: the scan floor of `track()` and the loop over
  several invoices (each is independent), escrow invoices on the base rail
  (`misrouted_to_base`), the legacy dispatcher path that the bridge does not
  use, store errors other than a crash, the party and amount checks of a claim
  (they only throw), the MCP twins of both paying clients, payment links and metering tables.
