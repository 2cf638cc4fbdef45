----------------------------- MODULE X402Exact -----------------------------
(***************************************************************************)
(* Pay per request over x402's dero-exact rail: the paying client and its  *)
(* spending policy, the Pay entry of the contract, the facilitator, and    *)
(* the server that unlocks a page against a signed receipt, with its       *)
(* one-time-use ledger configured.                                         *)
(*                                                                         *)
(* Every unpaid probe is answered with a new order id, so the order of an  *)
(* attempt is named by the call that leads it.  The client deposits what   *)
(* the challenge asks and asks again for the same page: the checks of      *)
(* amount, payer, resource and contract always agree and are left out.  A  *)
(* header may reach the server twice, or after its sender has given up.    *)
(* /verify and /settle each ask the daemon twice, for the contract and     *)
(* then for the stable height, and a reorg may fall between the answers.   *)
(* The receipt's check and its reservation each read the clock.            *)
(***************************************************************************)
EXTENDS Integers, Sequences, FiniteSetsExt

CONSTANTS
  Calls,     \* payingFetch() calls, each made at most once
  Pages,     \* method:url keys
  PageOf,    \* the page a call asks for
  Price,     \* maxAmountRequired of a page
  Reqs,      \* bound: paid requests in flight
  Rough,     \* bound: calls whose headers are copied and blocks orphaned
  Cap,       \* maxAtomicPerWindow.amountAtomic
  Window,    \* maxAtomicPerWindow.windowSeconds
  Ttl,       \* receiptTtlSeconds
  MaxClock,  \* bound: time
  None

ASSUME X402Assumption ==
  /\ PageOf \in [Calls -> Pages] /\ Price \in [Pages -> Nat \ {0}]
  /\ Cap \in Nat /\ Window \in Nat \ {0} /\ Ttl \in Nat \ {0}
  /\ MaxClock \in Nat /\ None \notin Calls /\ Rough \subseteq Calls

VARIABLES
  clock,
  stage,     \* per call: how far it is
  ledger,    \* SpendPolicy.ledger, oldest entry first
  at, hold,  \* per entry: its time and its state
  chain,     \* per order: "none", "sent" (in no block or in one that may be
             \* orphaned), "final"
  req,       \* per request in flight: order, stage, receipt, client
             \* waiting, whether the block it read has been orphaned since
  cache,     \* the facilitator's receipt of an order: its expiry, 0 without
  consumed,  \* one-time-use marker of an order: its expiry, 0 without
  ran,       \* history: the latest expiry of the receipts of an order that
             \* ran the handler, 0 without
  raced      \* history: orders orphaned between two reads of /settle

client == <<stage, ledger, at, hold>>
server == <<cache, consumed, ran>>
vars == <<clock, client, chain, req, server, raced>>

Leading == {"probing", "paying", "settling"}
Free == [order |-> None, stage |-> "free", exp |-> 0, waits |-> FALSE,
         old |-> FALSE]
Fresh(c, w) == [order |-> c, stage |-> "verify", exp |-> 0, waits |-> w,
                old |-> FALSE]
Amount(c) == Price[PageOf[c]]

\* A sum of amounts is the number of their units.
Units(C) == UNION {{c} \X (1 .. Amount(c)) : c \in C}
Total(C) == Cardinality(Units(C))

-----------------------------------------------------------------------------
(* The spending policy.                                                    *)

\* Faulty variant: a reservation is forgotten with its window.
LiveAnyState(i) == at[ledger[i]] >= clock - Window

Live(i) == hold[ledger[i]] = "reserved" \/ at[ledger[i]] >= clock - Window

\* Entries go from the front, up to the first that still counts.
Pruned ==
  LET live == {i \in DOMAIN ledger : Live(i)}
  IN IF live = {} THEN << >> ELSE SubSeq(ledger, Min(live), Len(ledger))

Spent ==
  Total({c \in Calls : /\ hold[c] # "released"
                       /\ \E i \in DOMAIN Pruned : Pruned[i] = c})

-----------------------------------------------------------------------------
(* The client.                                                             *)

\* The attempt is over, for the caller and for those who share it.
Ended(c, outcome) ==
  stage' = [d \in Calls |->
              IF d = c \/ (stage[d] = "joined" /\ PageOf[d] = PageOf[c])
              THEN outcome ELSE stage[d]]

\* Faulty variant: every call makes an attempt of its own.
CallAlone(c) ==
  /\ stage[c] = "idle"
  /\ stage' = [stage EXCEPT ![c] = "probing"]
  /\ UNCHANGED <<clock, ledger, at, hold, chain, req, server, raced>>

\* A call for a page that another call is after shares its attempt.
Call(c) ==
  /\ stage[c] = "idle"
  /\ stage' = [stage EXCEPT ![c] =
       IF \E d \in Calls : PageOf[d] = PageOf[c] /\ stage[d] \in Leading
       THEN "joined" ELSE "probing"]
  /\ UNCHANGED <<clock, ledger, at, hold, chain, req, server, raced>>

\* The 402 has come: spending authority is reserved, or refused.
Challenged(c) ==
  /\ stage[c] = "probing"
  /\ IF Spent + Amount(c) <= Cap
     THEN /\ ledger' = Append(Pruned, c)
          /\ at' = [at EXCEPT ![c] = clock]
          /\ hold' = [hold EXCEPT ![c] = "reserved"]
          /\ stage' = [stage EXCEPT ![c] = "paying"]
     ELSE /\ ledger' = Pruned
          /\ Ended(c, "failed")
          /\ UNCHANGED <<at, hold>>
  /\ UNCHANGED <<clock, chain, req, server, raced>>

\* The wallet has broadcast Pay(merchant, order).
Broadcast(c) ==
  /\ stage[c] = "paying" /\ chain[c] = "none"
  /\ chain' = [chain EXCEPT ![c] = "sent"]
  /\ UNCHANGED <<clock, client, req, server, raced>>

WalletAnswers(c) ==
  /\ stage[c] = "paying" /\ chain[c] # "none"
  /\ hold' = [hold EXCEPT ![c] = "committed"]
  /\ stage' = [stage EXCEPT ![c] = "settling"]
  /\ UNCHANGED <<clock, ledger, at, chain, req, server, raced>>

\* The wallet refuses, or its answer to a broadcast is lost.
WalletThrows(c) ==
  /\ stage[c] = "paying"
  /\ hold' = [hold EXCEPT ![c] = "released"]
  /\ Ended(c, "failed")
  /\ UNCHANGED <<clock, ledger, at, chain, req, server, raced>>

Asking(c) == \E r \in Reqs : req[r].order = c /\ req[r].waits

\* The paid request, and after each 402 the same header again.
Replay(c) ==
  /\ stage[c] = "settling" /\ ~Asking(c)
  /\ \E r \in Reqs :
       /\ req[r] = Free
       /\ req' = [req EXCEPT ![r] = Fresh(c, TRUE)]
  /\ UNCHANGED <<clock, client, chain, server, raced>>

\* settleTimeoutMs is over: rejected, and never paid again.
GiveUp(c) ==
  /\ stage[c] = "settling" /\ ~Asking(c)
  /\ Ended(c, "failed")
  /\ UNCHANGED <<clock, ledger, at, hold, chain, req, server, raced>>

-----------------------------------------------------------------------------
(* The facilitator and the server.                                         *)

MoveTo(r, s, e) ==
  req' = [req EXCEPT ![r] = [@ EXCEPT !.stage = s, !.exp = e,
                                      !.old = FALSE]]

Refuse(r) == MoveTo(r, "refused", 0)

\* getSC: the payment is there once it is mined.
Seen(o) == {chain[o] # "none"} \cup {chain[o] = "final"}

\* getStableHeight, against the height that getSC answered: deep enough if
\* that block is final, and perhaps if it is a block of the chain no more.
DeepEnough(r) == {chain[req[r].order] = "final"} \cup {req[r].old}

\* /verify, its first and its second question.
Verify(r) ==
  /\ req[r].stage = "verify"
  /\ \E seen \in Seen(req[r].order) :
       IF seen THEN MoveTo(r, "verifying", 0) ELSE Refuse(r)
  /\ UNCHANGED <<clock, client, chain, server, raced>>

VerifyDepth(r) ==
  /\ req[r].stage = "verifying"
  /\ \E deep \in DeepEnough(r) :
       IF deep THEN MoveTo(r, "settle", 0) ELSE Refuse(r)
  /\ UNCHANGED <<clock, client, chain, server, raced>>

\* /settle: a cached receipt is handed out while it is valid.
SettleLooks(r) ==
  LET e == cache[req[r].order] IN
  /\ req[r].stage = "settle"
  /\ IF e > clock THEN MoveTo(r, "check", e) ELSE MoveTo(r, "onchain", 0)
  /\ UNCHANGED <<clock, client, chain, server, raced>>

\* Otherwise the chain is asked, twice, and a new receipt signed.
SettleReads(r) ==
  /\ req[r].stage = "onchain"
  /\ \E seen \in Seen(req[r].order) :
       IF seen THEN MoveTo(r, "depth", 0) ELSE Refuse(r)
  /\ UNCHANGED <<clock, client, chain, server, raced>>

\* Faulty variant: the lifetime is added twice.
SignsTwiceTheTtl(r) ==
  LET o == req[r].order IN
  /\ req[r].stage = "depth"
  /\ MoveTo(r, "check", clock + 2 * Ttl)
  /\ cache' = [cache EXCEPT ![o] = clock + 2 * Ttl]
  /\ UNCHANGED <<clock, client, chain, consumed, ran, raced>>

SettleSigns(r) ==
  LET o == req[r].order IN
  /\ req[r].stage = "depth"
  /\ \E deep \in DeepEnough(r) :
       IF deep
       THEN /\ MoveTo(r, "check", clock + Ttl)
            /\ cache' = [cache EXCEPT ![o] = clock + Ttl]
       ELSE Refuse(r) /\ UNCHANGED cache
  /\ UNCHANGED <<clock, client, chain, consumed, ran, raced>>

\* verifyX402Receipt.
Check(r) ==
  /\ req[r].stage = "check"
  /\ IF req[r].exp > clock THEN MoveTo(r, "reserve", req[r].exp) ELSE Refuse(r)
  /\ UNCHANGED <<clock, client, chain, server, raced>>

\* The handler runs for order o against a receipt that expires at e.
Runs(o, e) == ran' = [ran EXCEPT ![o] = Max({@, e})]

\* Faulty variant: the marker is dropped as soon as it is set.
UnlockUnmarked(r) ==
  /\ req[r].stage = "reserve"
  /\ MoveTo(r, "ok", 0)
  /\ Runs(req[r].order, req[r].exp)
  /\ UNCHANGED <<clock, client, chain, cache, consumed, raced>>

\* ConsumedReceiptLedger.consume, which takes a marker that has expired by
\* now for none, and the handler.
Unlock(r) ==
  LET o == req[r].order IN
  /\ req[r].stage = "reserve"
  /\ IF consumed[o] <= clock
     THEN /\ MoveTo(r, "ok", 0)
          /\ consumed' = [consumed EXCEPT ![o] = req[r].exp]
          /\ Runs(o, req[r].exp)
     ELSE Refuse(r) /\ UNCHANGED <<consumed, ran>>
  /\ UNCHANGED <<clock, client, chain, cache, raced>>

Respond(r) ==
  /\ req[r].stage \in {"ok", "refused"}
  /\ req' = [req EXCEPT ![r] = Free]
  /\ IF req[r].waits /\ req[r].stage = "ok"
     THEN Ended(req[r].order, "served")
     ELSE UNCHANGED stage
  /\ UNCHANGED <<clock, ledger, at, hold, chain, server, raced>>

-----------------------------------------------------------------------------
(* The network, the chain and time.                                        *)

\* The connection breaks: the fetch throws, the server goes on.
Disconnect(r) ==
  /\ req[r].waits
  /\ req' = [req EXCEPT ![r] = [@ EXCEPT !.waits = FALSE]]
  /\ Ended(req[r].order, "failed")
  /\ UNCHANGED <<clock, ledger, at, hold, chain, server, raced>>

Duplicate(r) ==
  /\ req[r].stage # "free" /\ req[r].order \in Rough
  /\ \E s \in Reqs :
       /\ req[s] = Free
       /\ req' = [req EXCEPT ![s] = Fresh(req[r].order, FALSE)]
  /\ UNCHANGED <<clock, client, chain, server, raced>>

Between(stages, c) ==
  {r \in Reqs : req[r].order = c /\ req[r].stage \in stages}

\* The block is orphaned: its payment is to be mined again, and whoever has
\* read its height goes on with that.
Orphan(c) ==
  /\ c \in Rough /\ chain[c] = "sent"
  /\ Between({"verifying", "depth"}, c) # {}
  /\ req' = [r \in Reqs |->
               [req[r] EXCEPT !.old =
                  @ \/ r \in Between({"verifying", "depth"}, c)]]
  /\ raced' = IF Between({"depth"}, c) # {} THEN raced \cup {c} ELSE raced
  /\ UNCHANGED <<clock, client, chain, server>>

Finalize(c) ==
  /\ chain[c] = "sent"
  /\ chain' = [chain EXCEPT ![c] = "final"]
  /\ UNCHANGED <<clock, client, req, server, raced>>

Tick ==
  /\ clock < MaxClock
  /\ clock' = clock + 1
  /\ UNCHANGED <<client, chain, req, server, raced>>

Init ==
  /\ clock = 0
  /\ stage = [c \in Calls |-> "idle"] /\ ledger = << >>
  /\ at = [c \in Calls |-> 0] /\ hold = [c \in Calls |-> "none"]
  /\ chain = [c \in Calls |-> "none"]
  /\ req = [r \in Reqs |-> Free]
  /\ cache = [c \in Calls |-> 0] /\ consumed = [c \in Calls |-> 0]
  /\ ran = [c \in Calls |-> 0] /\ raced = {}

Next ==
  \/ \E c \in Calls :
       \/ Call(c) \/ Challenged(c) \/ Broadcast(c) \/ WalletAnswers(c)
       \/ WalletThrows(c) \/ Replay(c) \/ GiveUp(c)
       \/ Orphan(c) \/ Finalize(c)
  \/ \E r \in Reqs :
       \/ Verify(r) \/ VerifyDepth(r) \/ SettleLooks(r) \/ SettleReads(r)
       \/ SettleSigns(r) \/ Check(r) \/ Unlock(r)
       \/ Respond(r) \/ Disconnect(r) \/ Duplicate(r)
  \/ Tick

Spec == Init /\ [][Next]_vars

-----------------------------------------------------------------------------
Expiries == 0 .. MaxClock + Ttl

CallStages == Leading \cup {"idle", "joined", "served", "failed"}
Stages == {"free", "verify", "verifying", "settle", "onchain", "depth",
           "check", "reserve", "ok", "refused"}

ClientTypeOK ==
  /\ stage \in [Calls -> CallStages]
  /\ ledger \in Seq(Calls)
  /\ at \in [Calls -> 0 .. MaxClock]
  /\ hold \in [Calls -> {"none", "reserved", "committed", "released"}]

RequestTypeOK ==
  req \in [Reqs -> [order : Calls \cup {None}, stage : Stages,
                   exp : Expiries, waits : BOOLEAN, old : BOOLEAN]]

ServerTypeOK ==
  /\ cache \in [Calls -> Expiries] /\ consumed \in [Calls -> Expiries]
  /\ ran \in [Calls -> Expiries]

TypeOK ==
  /\ clock \in 0 .. MaxClock
  /\ chain \in [Calls -> {"none", "sent", "final"}]
  /\ raced \subseteq Calls
  /\ ClientTypeOK /\ RequestTypeOK /\ ServerTypeOK

\* Two calls for a page that are under way together have not both paid.
ConcurrentCallsShareOnePayment ==
  \A c, d \in Calls :
    c # d /\ PageOf[c] = PageOf[d] /\ {stage[c], stage[d]} \subseteq Leading
    => chain[c] = "none" \/ chain[d] = "none"

InWindow(c) == at[c] >= clock - Window

\* What the policy has let through, the payments still at the wallet
\* however old and the payments reserved within the window and made since,
\* is under the cap, although entries are dropped from the front of the
\* ledger only.
SpendUnderCap ==
  Total({c \in Calls : hold[c] = "reserved"
                         \/ (hold[c] = "committed" /\ InWindow(c))}) <= Cap

\* The handler has run for an order only against a payment that no reorg
\* can take back, unless its block was orphaned while /settle stood between
\* the contract and the stable height.
ServedOnlyIfPaid ==
  \A c \in Calls : ran[c] > 0 => chain[c] = "final" \/ c \in raced

\* A payment runs the handler once within the lifetime of its receipt: as
\* long as a receipt that ran it is valid, neither that receipt nor another
\* of the same payment runs it again, whatever the copies of the header,
\* their schedules, and wherever time stands when a marker is cleaned up.
OneUnlockPerTtl ==
  [][\A r \in Reqs :
       req[r].stage = "reserve" /\ req'[r].stage = "ok"
       => ran[req[r].order] <= clock]_vars
=============================================================================
