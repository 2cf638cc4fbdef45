------------------------------- MODULE Escrow -------------------------------
(***************************************************************************)
(* The pre-minted escrow box of packages/dero-pay/contracts/escrow.bas:    *)
(* one DERO smart contract per order.  Every function of the contract that *)
(* writes its store is one action, taken by a signer.  A call that returns *)
(* 1 (or panics on a missing key) is reverted by the chain, attached DERO  *)
(* included, so a rejected call is a stuttering step and a guard below is  *)
(* the conjunction of the lines that jump to 200.  All functions but       *)
(* Deposit reject attached DERO; only Deposit takes a value here.          *)
(*                                                                         *)
(* held is the DERO the chain holds for the contract, net what each        *)
(* account has received from the box minus what it has put in.             *)
(***************************************************************************)
EXTENDS Integers

CONSTANTS
  Accounts,        \* identifiable (ringsize 2) addresses
  Anonymous,       \* the zero SIGNER() of a call made at ringsize > 2
  Unset,           \* a key the store does not hold
  Fees,            \* feeBasisPoints arguments callers try
  Expirations,     \* blockExpiration arguments callers try
  Amounts,         \* expectedAmount arguments callers try
  Values,          \* DEROVALUE() callers attach to Deposit
  MinExpiration,   \* 4000 in the code
  MaxExpiration,   \* 10000000 in the code
  DisputeWindow,   \* 14400 in the code
  MaxAmount,       \* 2^53 - 1 in the code
  WordSize,        \* 2^64: Uint64 products wrap
  MaxHeight        \* bound: the chain stops growing at this height

ASSUME AccountsAssumption ==
  /\ Anonymous \notin Accounts
  /\ Unset \notin Accounts \cup {Anonymous}

ASSUME NumbersAssumption ==
  /\ Fees \subseteq Nat
  /\ Expirations \subseteq Nat
  /\ Amounts \subseteq Nat
  /\ Values \subseteq Nat
  /\ MinExpiration \in Nat
  /\ MaxExpiration \in Nat
  /\ DisputeWindow \in Nat
  /\ MaxAmount \in Nat
  /\ WordSize \in Nat \ {0}
  /\ MaxHeight \in Nat

Signers == Accounts \cup {Anonymous}

FeeLimit   == 5000
BasisWhole == 10000

VARIABLES
  height,            \* BLOCK_HEIGHT()
  held,              \* DERO the chain holds for the contract
  net,               \* per account: received from the box minus paid into it
  status, owner, pendingOwner, paused, bound,
  seller, arbitrator, feeBasisPoints, blockExpiration, expectedAmount,
  buyer, escrowBalance, depositHeight,
  disputeHeight, arbitrateResult

ownership == <<owner, pendingOwner>>
terms     == <<bound, seller, arbitrator, feeBasisPoints, blockExpiration,
               expectedAmount>>
deposit   == <<buyer, depositHeight>>
dispute   == <<disputeHeight, arbitrateResult>>
money     == <<held, net, escrowBalance>>

vars == <<height, money, status, paused, ownership, terms, deposit, dispute>>

Open     == {"await"}
Funded   == {"funded", "disputed"}
Released == {"confirmed", "expired"}
Settled  == {"confirmed", "refunded", "expired", "arbitrated", "cancelled"}
Statuses == {"uninstalled"} \cup Open \cup Funded \cup Settled

-----------------------------------------------------------------------------
(* Money leaving the box.                                                  *)

\* balance * feeBasisPoints / 10000 in Uint64: the product wraps.
Fee(balance, bps) == ((balance * bps) % WordSize) \div BasisWhole

Credit(positions, to, amount) == [positions EXCEPT ![to] = @ + amount]

\* Faulty variant: the ledger is not cleared after the sends.
PaySellerKeepingLedger ==
  LET fee    == Fee(escrowBalance, feeBasisPoints)
      payout == escrowBalance - fee
  IN  /\ net' = Credit(Credit(net, seller, payout), owner, fee)
      /\ held' = held - (payout + fee)
      /\ UNCHANGED escrowBalance

\* The two sends shared by ConfirmDelivery, ClaimAfterExpiry and
\* Arbitrate(1).  A zero leg is skipped by the code and adds nothing here.
PaySeller ==
  LET fee    == Fee(escrowBalance, feeBasisPoints)
      payout == escrowBalance - fee
  IN  /\ net' = Credit(Credit(net, seller, payout), owner, fee)
      /\ held' = held - (payout + fee)
      /\ escrowBalance' = 0

PayBuyer ==
  /\ net' = Credit(net, buyer, escrowBalance)
  /\ held' = held - escrowBalance
  /\ escrowBalance' = 0

-----------------------------------------------------------------------------
(* Minting, binding, funding.                                              *)

Init ==
  /\ height = 0
  /\ held = 0
  /\ net = [a \in Accounts |-> 0]
  /\ status = "uninstalled"
  /\ owner = Unset
  /\ pendingOwner = Unset
  /\ paused = FALSE
  /\ bound = FALSE
  /\ seller = Unset
  /\ arbitrator = Unset
  /\ feeBasisPoints = 0
  /\ blockExpiration = 0
  /\ expectedAmount = 0
  /\ buyer = Unset
  /\ escrowBalance = 0
  /\ depositHeight = 0
  /\ disputeHeight = 0
  /\ arbitrateResult = Unset

\* Faulty variant: without the ringsize guard of line 5.
InitializeByAnyone(s) ==
  /\ owner = Unset
  /\ owner' = s
  /\ status' = "await"
  /\ bound' = FALSE
  /\ paused' = FALSE
  /\ UNCHANGED <<height, money, pendingOwner, seller, arbitrator,
                 feeBasisPoints, blockExpiration, expectedAmount, deposit,
                 dispute>>

Initialize(s) ==
  /\ s \in Accounts
  /\ owner = Unset
  /\ owner' = s
  /\ status' = "await"
  /\ bound' = FALSE
  /\ paused' = FALSE
  /\ UNCHANGED <<height, money, pendingOwner, seller, arbitrator,
                 feeBasisPoints, blockExpiration, expectedAmount, deposit,
                 dispute>>

\* Faulty variant: without the one-shot guard of line 30.
BindTwice(s, sel, arb, bps, expiration, amount) ==
  /\ s = owner
  /\ bps < FeeLimit
  /\ MinExpiration <= expiration /\ expiration <= MaxExpiration
  /\ amount # 0 /\ amount <= MaxAmount
  /\ arb # sel
  /\ seller' = sel
  /\ arbitrator' = arb
  /\ feeBasisPoints' = bps
  /\ blockExpiration' = expiration
  /\ expectedAmount' = amount
  /\ escrowBalance' = 0
  /\ bound' = TRUE
  /\ UNCHANGED <<height, held, net, status, paused, ownership, deposit,
                 dispute>>

\* Guarded by the owner and the one-shot flag only: neither the status nor
\* the pause is consulted.
Bind(s, sel, arb, bps, expiration, amount) ==
  /\ s = owner
  /\ ~bound
  /\ bps < FeeLimit
  /\ MinExpiration <= expiration
  /\ expiration <= MaxExpiration
  /\ amount # 0
  /\ amount <= MaxAmount
  /\ arb # sel
  /\ seller' = sel
  /\ arbitrator' = arb
  /\ feeBasisPoints' = bps
  /\ blockExpiration' = expiration
  /\ expectedAmount' = amount
  /\ escrowBalance' = 0
  /\ bound' = TRUE
  /\ UNCHANGED <<height, held, net, status, paused, ownership, deposit,
                 dispute>>

\* What every accepted deposit writes besides the money it keeps.
Capture(s) ==
  /\ buyer' = s
  /\ escrowBalance' = expectedAmount
  /\ status' = "funded"
  /\ depositHeight' = height
  /\ UNCHANGED <<height, paused, ownership, terms, dispute>>

\* Faulty variants: the change is kept; the arbitrator may fund (line 45).
DepositKeepingChange(s, value) ==
  /\ s \in Accounts /\ ~paused /\ bound /\ status = "await" /\ value # 0
  /\ s # seller /\ s # arbitrator
  /\ value >= expectedAmount
  /\ held' = held + value
  /\ net' = Credit(net, s, 0 - value)
  /\ Capture(s)

DepositByArbitrator(s, value) ==
  /\ s \in Accounts /\ ~paused /\ bound /\ status = "await" /\ value # 0
  /\ s # seller
  /\ value >= expectedAmount
  /\ held' = held + expectedAmount
  /\ net' = Credit(net, s, 0 - expectedAmount)
  /\ Capture(s)

\* The only entry of money; a payment above the price is sent back at once.
Deposit(s, value) ==
  /\ s \in Accounts
  /\ ~paused
  /\ bound
  /\ status = "await"
  /\ value # 0
  /\ s # seller
  /\ s # arbitrator
  /\ value >= expectedAmount
  /\ LET change == value - expectedAmount
     IN  /\ held' = held + value - change
         /\ net' = Credit(Credit(net, s, 0 - value), s, change)
  /\ Capture(s)

-----------------------------------------------------------------------------
(* The timed remedies, and when each is open to whom.                      *)

DisputeOpen(s) ==
  /\ ~paused
  /\ status = "funded"
  /\ height <= depositHeight + blockExpiration
  /\ s = buyer

\* Faulty variant: the boundary block belongs to both windows.
ClaimOpenOnBoundary(s) ==
  /\ ~paused /\ status = "funded" /\ s = seller
  /\ height >= depositHeight + blockExpiration

ClaimOpen(s) ==
  /\ ~paused
  /\ status = "funded"
  /\ s = seller
  /\ height > depositHeight + blockExpiration

RulingOpen(s) ==
  /\ ~paused
  /\ status = "disputed"
  /\ s = arbitrator
  /\ height < disputeHeight + DisputeWindow

\* The buyer's way out when the arbitrator never answers; not pause-gated.
TimeoutOpen(s) ==
  /\ status = "disputed"
  /\ s = buyer
  /\ height >= disputeHeight + DisputeWindow

-----------------------------------------------------------------------------
(* Settlement.                                                             *)

ConfirmDelivery(s) ==
  /\ ~paused
  /\ status = "funded"
  /\ s = buyer
  /\ PaySeller
  /\ status' = "confirmed"
  /\ UNCHANGED <<height, paused, ownership, terms, deposit, dispute>>

\* Faulty variant: the owner may refund too (what O15 removed).
RefundByOwnerToo(s) ==
  /\ ~paused
  /\ status = "funded"
  /\ s \in {seller, owner}
  /\ PayBuyer
  /\ status' = "refunded"
  /\ UNCHANGED <<height, paused, ownership, terms, deposit, dispute>>

RefundBuyer(s) ==
  /\ ~paused
  /\ status = "funded"
  /\ s = seller
  /\ PayBuyer
  /\ status' = "refunded"
  /\ UNCHANGED <<height, paused, ownership, terms, deposit, dispute>>

ClaimAfterExpiry(s) ==
  /\ ClaimOpen(s)
  /\ PaySeller
  /\ status' = "expired"
  /\ UNCHANGED <<height, paused, ownership, terms, deposit, dispute>>

Dispute(s) ==
  /\ DisputeOpen(s)
  /\ status' = "disputed"
  /\ disputeHeight' = height
  /\ UNCHANGED <<height, money, paused, ownership, terms, deposit,
                 arbitrateResult>>

Arbitrate(s, releaseToSeller) ==
  /\ RulingOpen(s)
  /\ IF releaseToSeller THEN PaySeller ELSE PayBuyer
  /\ arbitrateResult' = releaseToSeller
  /\ status' = "arbitrated"
  /\ UNCHANGED <<height, paused, ownership, terms, deposit, disputeHeight>>

RefundAfterDisputeTimeout(s) ==
  /\ TimeoutOpen(s)
  /\ PayBuyer
  /\ status' = "refunded"
  /\ UNCHANGED <<height, paused, ownership, terms, deposit, dispute>>

\* Faulty variant: without the status guard of line 20.
CancelAnyBox(s) ==
  /\ owner # Unset
  /\ s = owner \/ (bound /\ s = seller)
  /\ status' = "cancelled"
  /\ UNCHANGED <<height, money, paused, ownership, terms, deposit, dispute>>

\* EXISTS("seller") is bound: Bind is the only writer of both.
CancelUnfunded(s) ==
  /\ status = "await"
  /\ \/ s = owner
     \/ bound /\ s = seller
  /\ status' = "cancelled"
  /\ UNCHANGED <<height, money, paused, ownership, terms, deposit, dispute>>

-----------------------------------------------------------------------------
(* The owner's levers.                                                     *)

\* Faulty variant: without the status guard of line 25.
PauseAnyBox(s) ==
  /\ s = owner
  /\ paused' = TRUE
  /\ UNCHANGED <<height, money, status, ownership, terms, deposit, dispute>>

Pause(s) ==
  /\ s = owner
  /\ status = "await"
  /\ paused' = TRUE
  /\ UNCHANGED <<height, money, status, ownership, terms, deposit, dispute>>

Unpause(s) ==
  /\ s = owner
  /\ paused' = FALSE
  /\ UNCHANGED <<height, money, status, ownership, terms, deposit, dispute>>

TransferOwnership(s, newOwner) ==
  /\ s = owner
  /\ status = "await"
  /\ pendingOwner' = newOwner
  /\ UNCHANGED <<height, money, status, paused, owner, terms, deposit,
                 dispute>>

ClaimOwnership(s) ==
  /\ s \in Accounts
  /\ s = pendingOwner
  /\ owner' = s
  /\ pendingOwner' = Unset
  /\ UNCHANGED <<height, money, status, paused, terms, deposit, dispute>>

-----------------------------------------------------------------------------
Settle(s) ==
  \/ ConfirmDelivery(s)
  \/ RefundBuyer(s)
  \/ ClaimAfterExpiry(s)
  \/ \E release \in BOOLEAN : Arbitrate(s, release)
  \/ RefundAfterDisputeTimeout(s)
  \/ CancelUnfunded(s)

Call(s) ==
  \/ Initialize(s)
  \/ \E sel, arb \in Accounts, bps \in Fees, expiration \in Expirations,
        amount \in Amounts : Bind(s, sel, arb, bps, expiration, amount)
  \/ \E value \in Values : Deposit(s, value)
  \/ Dispute(s)
  \/ Settle(s)
  \/ Pause(s)
  \/ Unpause(s)
  \/ \E newOwner \in Accounts : TransferOwnership(s, newOwner)
  \/ ClaimOwnership(s)

\* The chain mines a block.
Tick ==
  /\ height < MaxHeight
  /\ height' = height + 1
  /\ UNCHANGED <<money, status, paused, ownership, terms, deposit, dispute>>

Next ==
  \/ \E s \in Signers : Call(s)
  \/ Tick

Spec == Init /\ [][Next]_vars

\* Blocks keep coming, the seller claims what has vested, and a buyer whose
\* dispute went unanswered takes the timeout refund.  Nothing is assumed of
\* the arbitrator, of the owner, or of a buyer who does not dispute.
Fairness ==
  /\ WF_vars(Tick)
  /\ WF_vars(\E s \in Accounts : ClaimAfterExpiry(s))
  /\ WF_vars(\E s \in Accounts : RefundAfterDisputeTimeout(s))

FairSpec == Spec /\ Fairness

-----------------------------------------------------------------------------
(* Properties.                                                             *)

\* Every variable keeps its type; addresses stored as identities are real.
TypeOK ==
  /\ height \in Nat
  /\ held \in Nat
  /\ net \in [Accounts -> Int]
  /\ status \in Statuses
  /\ owner \in Accounts \cup {Unset}
  /\ pendingOwner \in Accounts \cup {Unset}
  /\ paused \in BOOLEAN
  /\ bound \in BOOLEAN
  /\ seller \in Accounts \cup {Unset}
  /\ arbitrator \in Accounts \cup {Unset}
  /\ feeBasisPoints \in 0..(FeeLimit - 1)
  /\ blockExpiration \in Nat
  /\ expectedAmount \in Nat
  /\ buyer \in Accounts \cup {Unset}
  /\ escrowBalance \in Nat
  /\ depositHeight \in Nat
  /\ disputeHeight \in Nat
  /\ arbitrateResult \in BOOLEAN \cup {Unset}

\* Custody: the contract's own ledger (escrowBalance) is exactly the DERO
\* the chain holds for it, the full price while the order is open and
\* nothing before the deposit and after settlement.  The settlement
\* functions compute what they send from the ledger, so any drift either
\* strands DERO in the box or asks the chain for more than it has.
Custody ==
  /\ held = escrowBalance
  /\ escrowBalance = IF status \in Funded THEN expectedAmount ELSE 0

\* The positions a finished order leaves the parties in.
Flat == [a \in Accounts |-> 0]
Paid(b) == Credit(Flat, b, 0 - expectedAmount)
Sold(b, s, o) ==
  LET fee == Fee(expectedAmount, feeBasisPoints)
  IN  Credit(Credit(Paid(b), s, expectedAmount - fee), o, fee)

SellerPaid ==
  status \in Released \/ (status = "arbitrated" /\ arbitrateResult = TRUE)

\* Every DERO is where the status says it is, account by account and at
\* every point of the order's life, whichever parties coincide: a funded
\* box holds the buyer's price and nobody else's money, a refunded one has
\* left everyone whole (change from an overpaid deposit included), and a
\* released one has moved the price from the buyer to the seller and one
\* fee sink, without a rounding or wrapping loss.
ExactPositions ==
  IF SellerPaid
  THEN \E o \in Accounts : net = Sold(buyer, seller, o)
  ELSE net = IF status \in Funded THEN Paid(buyer) ELSE Flat

\* A funded box has a real buyer who is neither the seller nor the
\* arbitrator, two distinct parties on the other side, and an owner: no
\* refund can go to the zero address and nobody judges their own dispute.
RolesSound ==
  status \in Funded =>
    /\ bound
    /\ {buyer, seller, arbitrator, owner} \subseteq Accounts
    /\ buyer # seller
    /\ buyer # arbitrator
    /\ seller # arbitrator

\* escrow.bas:243-245, "A funded box can NEVER be paused": pausing would
\* freeze the buyer's remedies while the seller's claim keeps vesting.
FundedNeverPaused == (status \in Funded) => ~paused

\* The terms a buyer funds are the terms the box settles under: nothing
\* rewrites them after Bind, and the buyer and the deposit height (the
\* origin of the expiry clock) are written once.
TermsFrozen ==
  [][/\ bound => UNCHANGED terms
     /\ buyer # Unset => UNCHANGED deposit]_vars

\* escrow.bas:104-112 (O15): the owner keeps no lever on the principal of a
\* funded box.  A call signed by the owner, when the owner is not also a
\* party of the order, neither moves money nor changes the status.
OwnerHasNoPrincipalLever ==
  [][\A s \in Accounts :
       (/\ status \in Funded
        /\ s = owner
        /\ s \notin {buyer, seller, arbitrator}
        /\ Call(s))
         => UNCHANGED <<held, net, status>>]_vars

\* escrow.bas:125-127 and 169-172: the windows partition time.  In a funded
\* box the buyer's Dispute and the seller's ClaimAfterExpiry are never both
\* open and never both closed, at any height; in a disputed one the same
\* holds of the arbitrator's ruling and the buyer's timeout refund.  Two
\* parties can therefore never race in a block, and no block is dead.
OneRemedyAtATime ==
  /\ status = "funded" => (DisputeOpen(buyer) <=> ~ClaimOpen(seller))
  /\ status = "disputed" => (RulingOpen(arbitrator) <=> ~TimeoutOpen(buyer))

\* The bounded chain must reach the far end of the deposit's last window.
RoomToSettle ==
  depositHeight + blockExpiration + DisputeWindow + 1 <= MaxHeight

\* escrow.bas:208-213, the "guaranteed liveness escape": a deposit is never
\* locked for good.  With blocks coming, a funded box settles although the
\* arbitrator and the owner may never act again.
FundsNeverLocked ==
  (status \in Funded /\ RoomToSettle) ~> (status \in Settled)

-----------------------------------------------------------------------------
(* The box implements the one-shot trust of EscrowTrust.                   *)

Phase ==
  IF status \in Funded THEN "holding"
  ELSE IF status = "cancelled" THEN "void"
  ELSE IF status \in {"uninstalled", "await"} THEN "open"
  ELSE IF SellerPaid THEN "released" ELSE "returned"

Terms == [seller |-> seller, price |-> expectedAmount,
          fee |-> Fee(expectedAmount, feeBasisPoints)]

Trust == INSTANCE EscrowTrust
           WITH NoOne <- Unset, phase <- Phase,
                offers <- IF bound THEN {Terms} ELSE {},
                payer <- buyer, position <- net

\* Whatever is paused, disputed, arbitrated, timed out or handed to another
\* owner along the way, an order is one offer, one payment of its price and
\* one exit of that price.
ImplementsTrust == Trust!TrustSpec
=============================================================================
