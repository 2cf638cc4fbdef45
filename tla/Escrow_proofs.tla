--------------------------- MODULE Escrow_proofs ---------------------------
(***************************************************************************)
(* What Escrow guarantees for every set of accounts, every fee, price and  *)
(* window, and every word size.  The inductive invariant is IInv: the      *)
(* checked invariants plus the facts that tie the owner key, the bound     *)
(* flag and the buyer key to the status.                                   *)
(***************************************************************************)
EXTENDS Escrow, TLAPS

\* The store's keys and the status agree: the owner key exists exactly when
\* the box is installed, terms exist exactly when it is bound, and a buyer
\* exists exactly when a deposit was once accepted.
KeysMatchStatus ==
  /\ owner = Unset <=> status = "uninstalled"
  /\ owner = Unset => pendingOwner = Unset
  /\ status = "uninstalled" => ~bound
  /\ bound => /\ seller \in Accounts
              /\ arbitrator \in Accounts
              /\ seller # arbitrator
              /\ expectedAmount # 0
  /\ IF status \in {"uninstalled", "await", "cancelled"}
     THEN buyer = Unset
     ELSE /\ bound
          /\ buyer \in Accounts
          /\ buyer # seller
          /\ buyer # arbitrator

IInv ==
  /\ TypeOK
  /\ KeysMatchStatus
  /\ Custody
  /\ ExactPositions
  /\ FundedNeverPaused

-----------------------------------------------------------------------------
(* Arithmetic of the fee and of positions.                                 *)

\* The fee is at most the balance it is taken from, wrapped or not, so
\* "payout = balance - fee" cannot underflow.
LEMMA FeeBounds ==
  ASSUME NEW balance \in Nat, NEW bps \in 0..(FeeLimit - 1)
  PROVE  /\ Fee(balance, bps) \in Nat
         /\ Fee(balance, bps) <= balance
<1> DEFINE product == balance * bps
<1> DEFINE word == product % WordSize
<1>1. product \in Nat /\ product <= balance * BasisWhole
  <2>1. bps \in Nat /\ bps <= BasisWhole
    BY DEF FeeLimit, BasisWhole
  <2>2. \A b, x, y \in Nat : x <= y => b * x <= b * y
    OBVIOUS
  <2>3. QED
    BY <2>1, <2>2 DEF BasisWhole
<1>2. word \in Nat /\ word <= product
  <2> HIDE DEF product
  <2>1. \A p \in Nat, w \in Nat \ {0} : p % w \in Nat /\ p % w <= p
    OBVIOUS
  <2>2. QED
    BY <1>1, <2>1, NumbersAssumption
<1>3. word \div BasisWhole \in Nat /\ word \div BasisWhole <= balance
  <2> HIDE DEF word
  <2>1. word \in Nat /\ word <= balance * 10000
    BY <1>1, <1>2 DEF BasisWhole
  <2>2. QED
    BY <2>1 DEF BasisWhole
<1>4. QED
  BY <1>3 DEF Fee

\* Crediting an account gives a position for every account.
LEMMA CreditType ==
  ASSUME NEW f \in [Accounts -> Int], NEW a \in Accounts, NEW x \in Int
  PROVE  Credit(f, a, x) \in [Accounts -> Int]
BY DEF Credit

\* Two credits of one account add up, and a credit of nothing is nothing.
LEMMA CreditTwice ==
  ASSUME NEW f \in [Accounts -> Int], NEW a \in Accounts,
         NEW x \in Int, NEW y \in Int
  PROVE  Credit(Credit(f, a, x), a, y) = Credit(f, a, x + y)
<1> DEFINE once  == Credit(f, a, x)
<1> DEFINE twice == Credit(once, a, y)
<1> DEFINE both  == Credit(f, a, x + y)
<1>1. once \in [Accounts -> Int]
  BY CreditType
<1>2. twice \in [Accounts -> Int] /\ both \in [Accounts -> Int]
  <2>1. twice \in [Accounts -> Int]
    BY <1>1, CreditType
  <2>2. x + y \in Int
    OBVIOUS
  <2>3. both \in [Accounts -> Int]
    BY <2>2, CreditType
  <2>4. QED
    BY <2>1, <2>3
<1>3. ASSUME NEW c \in Accounts
      PROVE  twice[c] = both[c]
  <2>1. once[c] = IF c = a THEN f[c] + x ELSE f[c]
    BY DEF Credit
  <2>2. twice[c] = IF c = a THEN once[c] + y ELSE once[c]
    BY <1>1 DEF Credit
  <2>3. both[c] = IF c = a THEN f[c] + (x + y) ELSE f[c]
    BY DEF Credit
  <2>4. QED
    BY <2>1, <2>2, <2>3
<1>4. QED
  BY <1>2, <1>3

\* A credit of nothing changes nothing.
LEMMA CreditZero ==
  ASSUME NEW f \in [Accounts -> Int], NEW a \in Accounts
  PROVE  Credit(f, a, 0) = f
BY DEF Credit

\* The position of nobody having moved money is a position.
LEMMA FlatType == Flat \in [Accounts -> Int]
BY DEF Flat

\* A deposit with its change leaves the depositor down by the price, and a
\* refund of the price makes the depositor whole.
LEMMA RefundIsWhole ==
  ASSUME NEW b \in Accounts, expectedAmount \in Nat
  PROVE  Credit(Paid(b), b, expectedAmount) = Flat
<1>1. Credit(Paid(b), b, expectedAmount)
        = Credit(Flat, b, (0 - expectedAmount) + expectedAmount)
  BY FlatType, CreditTwice DEF Paid
<1>2. (0 - expectedAmount) + expectedAmount = 0
  OBVIOUS
<1>3. QED
  BY <1>1, <1>2, FlatType, CreditZero

\* A depositor who gets the change back has paid exactly the price.
LEMMA DepositIsThePrice ==
  ASSUME NEW b \in Accounts, NEW value \in Nat, expectedAmount \in Nat
  PROVE  Credit(Credit(Flat, b, 0 - value), b, value - expectedAmount)
           = Paid(b)
<1>1. /\ 0 - value \in Int
      /\ value - expectedAmount \in Int
      /\ (0 - value) + (value - expectedAmount) = 0 - expectedAmount
  OBVIOUS
<1>2. QED
  BY <1>1, FlatType, CreditTwice DEF Paid

-----------------------------------------------------------------------------
(* The steps that preserve IInv, settlement first.                         *)

\* What the shared money moves do to a funded box: the chain's balance and
\* the ledger reach zero together and the positions are the sold, or the
\* flat, ones.
LEMMA PaySellerEffect ==
  ASSUME IInv, status \in Funded, PaySeller
  PROVE  /\ held' = 0
         /\ escrowBalance' = 0
         /\ net' \in [Accounts -> Int]
         /\ net' = Sold(buyer, seller, owner)
<1> DEFINE fee == Fee(expectedAmount, feeBasisPoints)
<1>1. /\ escrowBalance = expectedAmount
      /\ held = expectedAmount
      /\ expectedAmount \in Nat
      /\ feeBasisPoints \in 0..(FeeLimit - 1)
      /\ {buyer, seller, owner} \subseteq Accounts
      /\ net = Paid(buyer)
  BY DEF IInv, TypeOK, KeysMatchStatus, Custody, ExactPositions, SellerPaid,
         Funded, Released
<1>2. fee \in Nat /\ fee <= expectedAmount
  BY <1>1, FeeBounds
<1>3. /\ net' = Credit(Credit(net, seller, expectedAmount - fee), owner, fee)
      /\ held' = held - ((expectedAmount - fee) + fee)
      /\ escrowBalance' = 0
  BY <1>1 DEF PaySeller
<1>4. net' = Sold(buyer, seller, owner)
  BY <1>1, <1>3 DEF Sold
<1>5. held' = 0
  <2> HIDE DEF fee
  <2>1. QED
    BY <1>1, <1>2, <1>3
<1>6. net' \in [Accounts -> Int]
  <2> HIDE DEF fee
  <2>1. expectedAmount - fee \in Int /\ fee \in Int
    BY <1>1, <1>2
  <2>2. net \in [Accounts -> Int]
    BY DEF IInv, TypeOK
  <2>3. Credit(net, seller, expectedAmount - fee) \in [Accounts -> Int]
    BY <1>1, <2>1, <2>2, CreditType
  <2>4. QED
    BY <1>1, <1>3, <2>1, <2>3, CreditType
<1>7. QED
  BY <1>3, <1>4, <1>5, <1>6

\* What a refund does to ledger, custody and positions.
LEMMA PayBuyerEffect ==
  ASSUME IInv, status \in Funded, PayBuyer
  PROVE  /\ held' = 0
         /\ escrowBalance' = 0
         /\ net' = Flat
<1>1. /\ escrowBalance = expectedAmount
      /\ held = expectedAmount
      /\ expectedAmount \in Nat
      /\ buyer \in Accounts
      /\ net = Paid(buyer)
  BY DEF IInv, TypeOK, KeysMatchStatus, Custody, ExactPositions, SellerPaid,
         Funded, Released
<1>2. net' = Flat
  BY <1>1, RefundIsWhole DEF PayBuyer
<1>3. QED
  BY <1>1, <1>2 DEF PayBuyer

Untouched ==
  UNCHANGED <<height, paused, ownership, terms, deposit, disputeHeight>>

\* Any settlement that pays the seller keeps the invariant.
LEMMA SettleToSeller ==
  ASSUME IInv, status \in Funded, PaySeller, Untouched,
         arbitrateResult' \in BOOLEAN \cup {Unset},
         \/ status' \in Released
         \/ status' = "arbitrated" /\ arbitrateResult' = TRUE
  PROVE  IInv'
<1>1. /\ held' = 0
      /\ escrowBalance' = 0
      /\ net' \in [Accounts -> Int]
      /\ net' = Sold(buyer, seller, owner)
  BY PaySellerEffect
<1>2. owner \in Accounts
  BY DEF IInv, TypeOK, KeysMatchStatus, Funded
<1>3. TypeOK'
  BY <1>1 DEF IInv, TypeOK, Untouched, ownership, terms, deposit, Statuses,
              Settled, Released
<1>4. KeysMatchStatus'
  BY DEF IInv, KeysMatchStatus, Untouched, ownership, terms, deposit, Funded,
         Released
<1>5. Custody'
  BY <1>1 DEF Custody, Funded, Released
<1>6. ExactPositions'
  <2>1. SellerPaid'
    BY DEF SellerPaid
  <2>2. net' = Sold(buyer, seller, owner)'
    BY <1>1 DEF Untouched, terms, deposit, ownership, Sold, Paid
  <2>3. owner' \in Accounts
    BY <1>2 DEF Untouched, ownership
  <2>4. \E o \in Accounts : net' = Sold(buyer, seller, o)'
    BY <1>1, <1>2 DEF Untouched, terms, deposit, ownership, Sold, Paid
  <2>5. QED
    BY <2>1, <2>4 DEF ExactPositions
<1>7. FundedNeverPaused'
  BY DEF FundedNeverPaused, Funded, Released
<1>8. QED
  BY <1>3, <1>4, <1>5, <1>6, <1>7 DEF IInv

\* Any settlement that refunds the buyer keeps the invariant.
LEMMA SettleToBuyer ==
  ASSUME IInv, status \in Funded, PayBuyer, Untouched,
         arbitrateResult' \in BOOLEAN \cup {Unset},
         \/ status' = "refunded"
         \/ status' = "arbitrated" /\ arbitrateResult' = FALSE
  PROVE  IInv'
<1>1. held' = 0 /\ escrowBalance' = 0 /\ net' = Flat
  BY PayBuyerEffect
<1>2. TypeOK'
  BY <1>1, FlatType DEF IInv, TypeOK, Untouched, ownership, terms, deposit,
                        Statuses, Settled
<1>3. KeysMatchStatus'
  BY DEF IInv, KeysMatchStatus, Untouched, ownership, terms, deposit, Funded
<1>4. Custody'
  BY <1>1 DEF Custody, Funded
<1>5. ExactPositions'
  <2>1. ~ SellerPaid'
    BY DEF SellerPaid, Released
  <2>2. status' \notin Funded /\ Flat' = Flat
    BY DEF Funded, Flat
  <2>3. QED
    BY <1>1, <2>1, <2>2 DEF ExactPositions
<1>6. FundedNeverPaused'
  BY DEF FundedNeverPaused, Funded
<1>7. QED
  BY <1>2, <1>3, <1>4, <1>5, <1>6 DEF IInv

\* A step that leaves the money alone and keeps the status on the same side
\* of the deposit keeps the positions exact.
LEMMA MoneyAlone ==
  ASSUME IInv, UNCHANGED <<held, net, buyer>>,
         escrowBalance' = escrowBalance,
         \/ status \in Funded /\ status' \in Funded /\ UNCHANGED terms
         \/ /\ status \in {"uninstalled", "await", "cancelled"}
            /\ status' \in {"uninstalled", "await", "cancelled"}
  PROVE  Custody' /\ ExactPositions'
<1>1. CASE status \in Funded /\ status' \in Funded /\ UNCHANGED terms
  BY <1>1 DEF IInv, Custody, ExactPositions, SellerPaid, Released, Funded,
              Paid, Flat, terms
<1>2. CASE /\ status \in {"uninstalled", "await", "cancelled"}
           /\ status' \in {"uninstalled", "await", "cancelled"}
  BY <1>2 DEF IInv, Custody, ExactPositions, SellerPaid, Released, Funded,
              Flat
<1>3. QED
  BY <1>1, <1>2

-----------------------------------------------------------------------------
(* Induction.                                                              *)

\* A box that is not yet installed satisfies the invariant.
LEMMA InitIInv == Init => IInv
<1> SUFFICES ASSUME Init PROVE IInv
  OBVIOUS
<1>1. TypeOK
  <2>1. net \in [Accounts -> Int]
    BY DEF Init
  <2>2. feeBasisPoints \in 0..(FeeLimit - 1)
    BY DEF Init, FeeLimit
  <2>3. QED
    BY <2>1, <2>2 DEF Init, TypeOK, Statuses
<1>2. KeysMatchStatus
  BY DEF Init, KeysMatchStatus
<1>3. Custody /\ ExactPositions /\ FundedNeverPaused
  BY DEF Init, Custody, ExactPositions, SellerPaid, Released, Funded, Flat,
         FundedNeverPaused
<1>4. QED
  BY <1>1, <1>2, <1>3 DEF IInv

\* Every call, by any signer, keeps the invariant.
LEMMA CallIInv ==
  ASSUME IInv, NEW s \in Signers, Call(s)
  PROVE  IInv'
<1> USE AccountsAssumption
<1>1. CASE Initialize(s)
  <2>1. TypeOK'
    BY <1>1 DEF Initialize, IInv, TypeOK, money, deposit, dispute, Statuses,
                Open
  <2>2. KeysMatchStatus'
    BY <1>1 DEF Initialize, IInv, TypeOK, KeysMatchStatus, money, deposit,
                dispute
  <2>3. Custody' /\ ExactPositions'
    <3>1. status = "uninstalled"
      BY <1>1 DEF Initialize, IInv, KeysMatchStatus
    <3>2. QED
      BY <1>1, <3>1, MoneyAlone DEF Initialize, money, deposit
  <2>4. FundedNeverPaused'
    BY <1>1 DEF Initialize, FundedNeverPaused
  <2>5. QED
    BY <2>1, <2>2, <2>3, <2>4 DEF IInv
<1>2. ASSUME NEW sel \in Accounts, NEW arb \in Accounts, NEW bps \in Fees,
             NEW expiration \in Expirations, NEW amount \in Amounts,
             Bind(s, sel, arb, bps, expiration, amount)
      PROVE  IInv'
  <2>1. status \in {"await", "cancelled"}
    BY <1>2 DEF Bind, IInv, TypeOK, KeysMatchStatus, Signers, Statuses, Open,
                Funded, Settled
  <2>2. TypeOK'
    BY <1>2, NumbersAssumption
       DEF Bind, IInv, TypeOK, ownership, deposit, dispute, FeeLimit
  <2>3. KeysMatchStatus'
    BY <1>2, <2>1 DEF Bind, IInv, KeysMatchStatus, ownership, deposit
  <2>4. Custody' /\ ExactPositions'
    <3>1. escrowBalance' = escrowBalance
      BY <1>2, <2>1 DEF Bind, IInv, Custody, Funded
    <3>2. QED
      BY <1>2, <2>1, <3>1, MoneyAlone DEF Bind, deposit
  <2>5. FundedNeverPaused'
    BY <1>2 DEF Bind, IInv, FundedNeverPaused
  <2>6. QED
    BY <2>2, <2>3, <2>4, <2>5 DEF IInv
<1>3. ASSUME NEW value \in Values, Deposit(s, value)
      PROVE  IInv'
  <2>1. /\ s \in Accounts
        /\ net = Flat
        /\ held = 0
        /\ value \in Nat
        /\ expectedAmount \in Nat
    BY <1>3, NumbersAssumption
       DEF Deposit, IInv, TypeOK, Custody, ExactPositions, SellerPaid,
           Released, Funded
  <2>2. net' = Paid(s) /\ held' = expectedAmount
    BY <1>3, <2>1, DepositIsThePrice DEF Deposit
  <2>3. net' \in [Accounts -> Int]
    <3>1. 0 - expectedAmount \in Int
      BY <2>1
    <3>2. QED
      BY <2>1, <2>2, <3>1, FlatType, CreditType DEF Paid
  <2>4. TypeOK'
    BY <1>3, <2>1, <2>2, <2>3
       DEF Deposit, Capture, IInv, TypeOK, ownership, terms, dispute,
           Statuses, Funded
  <2>5. KeysMatchStatus'
    BY <1>3, <2>1 DEF Deposit, Capture, IInv, KeysMatchStatus, ownership,
                      terms
  <2>6. Custody'
    BY <1>3, <2>2 DEF Deposit, Capture, Custody, Funded, terms
  <2>7. ExactPositions'
    BY <1>3, <2>2 DEF Deposit, Capture, ExactPositions, SellerPaid, Released,
                      Funded, terms, Paid, Flat
  <2>8. FundedNeverPaused'
    BY <1>3 DEF Deposit, Capture, FundedNeverPaused, Funded
  <2>9. QED
    BY <2>4, <2>5, <2>6, <2>7, <2>8 DEF IInv
<1>4. CASE Dispute(s)
  <2>1. TypeOK'
    BY <1>4 DEF Dispute, IInv, TypeOK, money, ownership, terms, deposit,
                Statuses, Funded
  <2>2. KeysMatchStatus'
    BY <1>4 DEF Dispute, DisputeOpen, IInv, KeysMatchStatus, ownership, terms,
                deposit
  <2>3. Custody' /\ ExactPositions'
    BY <1>4, MoneyAlone DEF Dispute, DisputeOpen, money, deposit, Funded
  <2>4. FundedNeverPaused'
    BY <1>4 DEF Dispute, DisputeOpen, FundedNeverPaused
  <2>5. QED
    BY <2>1, <2>2, <2>3, <2>4 DEF IInv
<1>5. CASE ConfirmDelivery(s)
  BY <1>5, SettleToSeller
     DEF ConfirmDelivery, Funded, Released, Untouched, ownership, terms,
         deposit, dispute, IInv, TypeOK
<1>6. CASE RefundBuyer(s)
  BY <1>6, SettleToBuyer
     DEF RefundBuyer, Funded, Untouched, ownership, terms, deposit, dispute,
         IInv, TypeOK
<1>7. CASE ClaimAfterExpiry(s)
  BY <1>7, SettleToSeller
     DEF ClaimAfterExpiry, ClaimOpen, Funded, Released, Untouched, ownership,
         terms, deposit, dispute, IInv, TypeOK
<1>8. ASSUME NEW release \in BOOLEAN, Arbitrate(s, release)
      PROVE  IInv'
  <2>1. Untouched /\ status \in Funded
    BY <1>8 DEF Arbitrate, RulingOpen, Untouched, Funded
  <2>2. CASE release = TRUE
    BY <1>8, <2>1, <2>2, SettleToSeller DEF Arbitrate
  <2>3. CASE release = FALSE
    BY <1>8, <2>1, <2>3, SettleToBuyer DEF Arbitrate
  <2>4. QED
    BY <2>2, <2>3
<1>9. CASE RefundAfterDisputeTimeout(s)
  BY <1>9, SettleToBuyer
     DEF RefundAfterDisputeTimeout, TimeoutOpen, Funded, Untouched,
         ownership, terms, deposit, dispute, IInv, TypeOK
<1>10. CASE CancelUnfunded(s)
  <2>1. TypeOK'
    BY <1>10 DEF CancelUnfunded, IInv, TypeOK, money, ownership, terms,
                 deposit, dispute, Statuses, Settled
  <2>2. KeysMatchStatus'
    BY <1>10 DEF CancelUnfunded, IInv, KeysMatchStatus, ownership, terms,
                 deposit
  <2>3. Custody' /\ ExactPositions'
    BY <1>10, MoneyAlone DEF CancelUnfunded, money, deposit
  <2>4. FundedNeverPaused'
    BY <1>10 DEF CancelUnfunded, FundedNeverPaused, Funded
  <2>5. QED
    BY <2>1, <2>2, <2>3, <2>4 DEF IInv
<1>11. CASE \/ Pause(s)
            \/ Unpause(s)
            \/ \E newOwner \in Accounts : TransferOwnership(s, newOwner)
            \/ ClaimOwnership(s)
  <2> USE DEF Pause, Unpause, TransferOwnership, ClaimOwnership
  <2>1. UNCHANGED <<height, money, status, terms, deposit, dispute>>
    BY <1>11
  <2>2. TypeOK'
    BY <1>11, <2>1 DEF IInv, TypeOK, money, terms, deposit, dispute,
                       ownership, Signers
  <2>3. KeysMatchStatus'
    BY <1>11, <2>1 DEF IInv, TypeOK, KeysMatchStatus, terms, deposit,
                       ownership, Signers
  <2>4. Custody' /\ ExactPositions'
    BY <2>1 DEF IInv, Custody, ExactPositions, SellerPaid, Sold, Paid, Flat,
                money, terms, deposit, dispute
  <2>5. FundedNeverPaused'
    BY <1>11, <2>1 DEF IInv, FundedNeverPaused, Funded
  <2>6. QED
    BY <2>2, <2>3, <2>4, <2>5 DEF IInv
<1>12. QED
  BY <1>1, <1>2, <1>3, <1>4, <1>5, <1>6, <1>7, <1>8, <1>9, <1>10, <1>11
     DEF Call, Settle

\* Every step of the box keeps the invariant.
LEMMA NextIInv == IInv /\ [Next]_vars => IInv'
<1> SUFFICES ASSUME IInv, [Next]_vars PROVE IInv'
  OBVIOUS
<1>1. ASSUME NEW s \in Signers, Call(s) PROVE IInv'
  BY <1>1, CallIInv
<1>2. CASE Tick
  BY <1>2 DEF Tick, IInv, TypeOK, KeysMatchStatus, Custody, ExactPositions,
              FundedNeverPaused, SellerPaid, Sold, Paid, Flat, money,
              ownership, terms, deposit, dispute
<1>3. CASE UNCHANGED vars
  BY <1>3 DEF vars, IInv, TypeOK, KeysMatchStatus, Custody, ExactPositions,
              FundedNeverPaused, SellerPaid, Sold, Paid, Flat, money,
              ownership, terms, deposit, dispute
<1>4. QED
  BY <1>1, <1>2, <1>3 DEF Next

\* The inductive invariant holds in every behaviour of the box.
THEOREM Inductive == Spec => []IInv
BY InitIInv, NextIInv, PTL DEF Spec

-----------------------------------------------------------------------------
(* The invariants.                                                         *)

\* Type correctness: in particular no identity the contract stores is the
\* zero address.
THEOREM TypeCorrect == Spec => []TypeOK
<1>1. IInv => TypeOK
  BY DEF IInv
<1>2. QED
  BY <1>1, Inductive, PTL

\* The contract's ledger is the DERO the chain holds for it, at every step.
THEOREM CustodyHolds == Spec => []Custody
<1>1. IInv => Custody
  BY DEF IInv
<1>2. QED
  BY <1>1, Inductive, PTL

\* Conservation, account by account: no behaviour loses, duplicates or
\* misdirects the price of an order, for any fee, price and word size.
THEOREM PositionsExact == Spec => []ExactPositions
<1>1. IInv => ExactPositions
  BY DEF IInv
<1>2. QED
  BY <1>1, Inductive, PTL

\* A box that holds a deposit cannot be frozen by its owner.
THEOREM NeverPausedWhileFunded == Spec => []FundedNeverPaused
<1>1. IInv => FundedNeverPaused
  BY DEF IInv
<1>2. QED
  BY <1>1, Inductive, PTL

\* The deadlines never overlap and leave no gap, at any height and for any
\* windows: the comparisons are complementary, and what else the guards ask,
\* the pause above all, cannot fail in a funded box.
THEOREM RemediesAlternate == Spec => []OneRemedyAtATime
<1>1. IInv => OneRemedyAtATime
  <2> SUFFICES ASSUME IInv PROVE OneRemedyAtATime
    OBVIOUS
  <2>1. /\ height \in Nat /\ depositHeight \in Nat /\ blockExpiration \in Nat
        /\ disputeHeight \in Nat /\ DisputeWindow \in Nat
    BY NumbersAssumption DEF IInv, TypeOK
  <2>2. status \in Funded => ~paused
    BY DEF IInv, FundedNeverPaused
  <2> QED
    BY <2>1, <2>2 DEF OneRemedyAtATime, DisputeOpen, ClaimOpen, RulingOpen,
                      TimeoutOpen, Funded
<1>2. QED
  BY <1>1, Inductive, PTL

\* The parties of a funded box are real and distinct.
THEOREM RolesAreSound == Spec => []RolesSound
<1>1. IInv => RolesSound
  BY DEF IInv, TypeOK, KeysMatchStatus, RolesSound, Funded
<1>2. QED
  BY <1>1, Inductive, PTL

-----------------------------------------------------------------------------
(* The action properties.                                                  *)

\* The terms and the buyer of an order are written once.
THEOREM TermsAreFrozen == Spec => TermsFrozen
<1> DEFINE Frozen == /\ bound => UNCHANGED terms
                     /\ buyer # Unset => UNCHANGED deposit
<1>1. ASSUME IInv, [Next]_vars PROVE [Frozen]_vars
  <2>1. ASSUME NEW s \in Signers, Call(s) PROVE Frozen
    <3>1. CASE Initialize(s)
      BY <1>1, <3>1 DEF Initialize, IInv, KeysMatchStatus, deposit
    <3>2. ASSUME NEW sel, NEW arb, NEW bps, NEW expiration, NEW amount,
                 Bind(s, sel, arb, bps, expiration, amount)
          PROVE  Frozen
      BY <3>2 DEF Bind
    <3>3. ASSUME NEW value \in Values, Deposit(s, value) PROVE Frozen
      BY <1>1, <3>3 DEF Deposit, Capture, IInv, KeysMatchStatus
    <3>4. CASE Dispute(s) \/ Settle(s)
      BY <3>4 DEF Dispute, Settle, ConfirmDelivery, RefundBuyer,
                  ClaimAfterExpiry, Arbitrate, RefundAfterDisputeTimeout,
                  CancelUnfunded
    <3>5. CASE \/ Pause(s)
               \/ Unpause(s)
               \/ \E newOwner \in Accounts : TransferOwnership(s, newOwner)
               \/ ClaimOwnership(s)
      BY <3>5 DEF Pause, Unpause, TransferOwnership, ClaimOwnership
    <3>6. QED
      BY <2>1, <3>1, <3>2, <3>3, <3>4, <3>5 DEF Call
  <2>2. CASE Tick
    BY <2>2 DEF Tick
  <2>3. QED
    BY <1>1, <2>1, <2>2 DEF Next
<1>2. QED
  BY <1>1, Inductive, PTL DEF Spec, TermsFrozen

\* The owner of a funded box who is not a party of the order cannot move its
\* money or change its status by any call.
THEOREM OwnerHasNoLever == Spec => OwnerHasNoPrincipalLever
<1> DEFINE NoLever ==
      \A s \in Accounts :
        (/\ status \in Funded
         /\ s = owner
         /\ s \notin {buyer, seller, arbitrator}
         /\ Call(s))
          => UNCHANGED <<held, net, status>>
<1>1. ASSUME IInv, [Next]_vars PROVE [NoLever]_vars
  <2> SUFFICES ASSUME NEW s \in Accounts,
                      status \in Funded,
                      s = owner,
                      s \notin {buyer, seller, arbitrator},
                      Call(s)
               PROVE  UNCHANGED <<held, net, status>>
    OBVIOUS
  <2>1. /\ ~ Initialize(s)
        /\ \A value \in Values : ~ Deposit(s, value)
        /\ ~ Pause(s)
        /\ \A newOwner \in Accounts : ~ TransferOwnership(s, newOwner)
    BY AccountsAssumption
       DEF Initialize, Deposit, Pause, TransferOwnership, Funded
  <2>2. /\ ~ Dispute(s)
        /\ ~ Settle(s)
    BY DEF Dispute, DisputeOpen, Settle, ConfirmDelivery, RefundBuyer,
           ClaimAfterExpiry, ClaimOpen, Arbitrate, RulingOpen,
           RefundAfterDisputeTimeout, TimeoutOpen, CancelUnfunded, Funded
  <2>3. \A sel, arb, bps, expiration, amount :
          ~ Bind(s, sel, arb, bps, expiration, amount)
    BY <1>1 DEF Bind, IInv, KeysMatchStatus, Funded
  <2>4. Unpause(s) \/ ClaimOwnership(s)
    BY <2>1, <2>2, <2>3 DEF Call
  <2>5. QED
    BY <2>4 DEF Unpause, ClaimOwnership, money
<1>2. QED
  BY <1>1, Inductive, PTL DEF Spec, OwnerHasNoPrincipalLever

-----------------------------------------------------------------------------
(* The refinement.                                                         *)

Offered == IF bound THEN {Terms} ELSE {}

\* The abstract view of a box that holds a deposit.
LEMMA HoldingView ==
  ASSUME IInv, status \in Funded
  PROVE  /\ Phase = "holding"
         /\ Terms \in Offered
         /\ {seller, buyer, owner} \subseteq Accounts
         /\ escrowBalance = expectedAmount
BY DEF IInv, KeysMatchStatus, TypeOK, Custody, Funded, Phase, Offered

\* Paying the seller, or the buyer, out of a funded box is the trust's
\* Release, or Return.
LEMMA SellerIsRelease ==
  ASSUME IInv, status \in Funded, PaySeller, Phase' = "released",
         UNCHANGED <<terms, buyer>>
  PROVE  Trust!TrustNext
<1>1. /\ Phase = "holding"
      /\ Terms \in Offered
      /\ owner \in Accounts
      /\ escrowBalance = expectedAmount
  BY HoldingView
<1>2. Offered' = Offered
  BY DEF Offered, Terms, terms, Fee
<1>3. net' = Trust!Give(Trust!Give(net, Terms.seller,
                                   Terms.price - Terms.fee),
                        owner, Terms.fee)
  BY <1>1 DEF PaySeller, Trust!Give, Credit, Terms
<1>4. Trust!Release(owner, Terms)
  BY <1>1, <1>2, <1>3 DEF Trust!Release, Offered
<1>5. QED
  BY <1>1, <1>4 DEF Trust!TrustNext, Offered

\* A refund is a Return of the abstract trust.
LEMMA BuyerIsReturn ==
  ASSUME IInv, status \in Funded, PayBuyer, Phase' = "returned",
         UNCHANGED <<terms, buyer>>
  PROVE  Trust!TrustNext
<1>1. /\ Phase = "holding"
      /\ Terms \in Offered
      /\ escrowBalance = expectedAmount
  BY HoldingView
<1>2. Offered' = Offered
  BY DEF Offered, Terms, terms, Fee
<1>3. net' = Trust!Give(net, buyer, Terms.price)
  BY <1>1 DEF PayBuyer, Trust!Give, Credit, Terms
<1>4. Trust!Return(Terms)
  BY <1>1, <1>2, <1>3 DEF Trust!Return, Offered
<1>5. QED
  BY <1>1, <1>4 DEF Trust!TrustNext, Offered

\* Every call of the contract is one step of the trust, or none.
LEMMA CallRefines ==
  ASSUME IInv, NEW s \in Signers, Call(s)
  PROVE  [Trust!TrustNext]_(Trust!trustVars)
<1> USE AccountsAssumption
<1> DEFINE Same == UNCHANGED <<Phase, Offered, buyer, net>>
<1>1. Same => UNCHANGED Trust!trustVars
  BY DEF Trust!trustVars, Offered
<1>2. CASE Initialize(s)
  <2>1. /\ status = "uninstalled"
        /\ ~bound
        /\ status' = "await"
        /\ ~bound'
        /\ UNCHANGED <<buyer, net>>
    BY <1>2 DEF Initialize, IInv, KeysMatchStatus, money, deposit
  <2>2. Same
    BY <2>1 DEF Phase, Offered, Funded
  <2>3. QED
    BY <1>1, <2>2
<1>3. ASSUME NEW sel \in Accounts, NEW arb \in Accounts, NEW bps \in Fees,
             NEW expiration \in Expirations, NEW amount \in Amounts,
             Bind(s, sel, arb, bps, expiration, amount)
      PROVE  Trust!TrustNext
  <2>1. /\ ~bound
        /\ bound'
        /\ Terms' = [seller |-> sel, price |-> amount,
                     fee |-> Fee(amount, bps)]
        /\ UNCHANGED <<buyer, net>>
    BY <1>3 DEF Bind, Terms, Fee, deposit
  <2>2. Phase' = Phase
    BY <1>3 DEF Bind, Phase, SellerPaid, Funded, Released, dispute
  <2>3. amount \in Nat \ {0} /\ bps \in 0..(FeeLimit - 1)
    BY <1>3, NumbersAssumption DEF Bind, FeeLimit
  <2>4. Fee(amount, bps) \in Nat /\ Fee(amount, bps) <= amount
    BY <2>3, FeeBounds
  <2>5. Terms' \in Trust!Offers
    BY <2>1, <2>3, <2>4 DEF Trust!Offers
  <2>6. Trust!MakeOffer(Terms')
    BY <2>1, <2>2, <2>5 DEF Trust!MakeOffer
  <2>7. QED
    BY <2>1, <2>6 DEF Trust!TrustNext
<1>4. ASSUME NEW value \in Values, Deposit(s, value)
      PROVE  Trust!TrustNext
  <2>1. /\ s \in Accounts
        /\ s # seller
        /\ status = "await"
        /\ status' = "funded"
        /\ bound
        /\ buyer' = s
        /\ UNCHANGED terms
    BY <1>4 DEF Deposit, Capture
  <2>2. /\ Phase = "open"
        /\ Phase' = "holding"
        /\ Offered' = Offered
    BY <2>1 DEF Phase, Offered, Funded, Terms, terms, Fee
  <2>3. net = Flat /\ net' = Paid(s)
    <3>1. /\ net = Flat
          /\ value \in Nat
          /\ expectedAmount \in Nat
      BY <1>4, <2>1, NumbersAssumption
         DEF IInv, TypeOK, ExactPositions, SellerPaid, Released, Funded
    <3>2. QED
      BY <1>4, <2>1, <3>1, DepositIsThePrice DEF Deposit
  <2>4. net' = Trust!Give(net, s, 0 - Terms.price)
    BY <2>3 DEF Trust!Give, Paid, Credit, Terms
  <2>5. s # Terms.seller
    BY <2>1 DEF Terms
  <2>6. Trust!Pay(s, Terms)
    BY <2>1, <2>2, <2>4, <2>5 DEF Trust!Pay, Offered
  <2>7. QED
    BY <2>1, <2>6 DEF Trust!TrustNext
<1>5. CASE Dispute(s)
  <2>1. Same
    BY <1>5 DEF Dispute, DisputeOpen, Phase, Funded, Offered, Terms, Fee,
                terms, deposit, money
  <2>2. QED
    BY <1>1, <2>1
<1>6. CASE ConfirmDelivery(s) \/ ClaimAfterExpiry(s)
  <2>1. /\ status \in Funded
        /\ PaySeller
        /\ status' \in Released
        /\ UNCHANGED <<terms, deposit>>
    BY <1>6 DEF ConfirmDelivery, ClaimAfterExpiry, ClaimOpen, Funded, Released
  <2>2. Phase' = "released"
    BY <2>1 DEF Phase, SellerPaid, Funded, Released
  <2>3. QED
    BY <2>1, <2>2, SellerIsRelease DEF deposit
<1>7. CASE RefundBuyer(s) \/ RefundAfterDisputeTimeout(s)
  <2>1. /\ status \in Funded
        /\ PayBuyer
        /\ status' = "refunded"
        /\ UNCHANGED <<terms, deposit>>
    BY <1>7 DEF RefundBuyer, RefundAfterDisputeTimeout, TimeoutOpen, Funded
  <2>2. Phase' = "returned"
    BY <2>1 DEF Phase, SellerPaid, Funded, Released
  <2>3. QED
    BY <2>1, <2>2, BuyerIsReturn DEF deposit
<1>8. ASSUME NEW release \in BOOLEAN, Arbitrate(s, release)
      PROVE  Trust!TrustNext
  <2>1. /\ status \in Funded
        /\ status' = "arbitrated"
        /\ arbitrateResult' = release
        /\ UNCHANGED <<terms, deposit>>
    BY <1>8 DEF Arbitrate, RulingOpen, Funded
  <2>2. CASE release = TRUE
    <3>1. Phase' = "released"
      BY <2>1, <2>2 DEF Phase, SellerPaid, Funded, Released
    <3>2. QED
      BY <1>8, <2>1, <2>2, <3>1, SellerIsRelease DEF Arbitrate, deposit
  <2>3. CASE release = FALSE
    <3>1. Phase' = "returned"
      BY <2>1, <2>3 DEF Phase, SellerPaid, Funded, Released
    <3>2. QED
      BY <1>8, <2>1, <2>3, <3>1, BuyerIsReturn DEF Arbitrate, deposit
  <2>4. QED
    BY <2>2, <2>3
<1>9. CASE CancelUnfunded(s)
  <2>1. Phase = "open" /\ Phase' = "void"
    BY <1>9 DEF CancelUnfunded, Phase, Funded
  <2>2. UNCHANGED <<Offered, buyer, net>>
    BY <1>9 DEF CancelUnfunded, Offered, Terms, Fee, terms, deposit, money
  <2>3. QED
    BY <2>1, <2>2 DEF Trust!TrustNext, Trust!Void, Offered
<1>10. CASE \/ Pause(s)
            \/ Unpause(s)
            \/ \E newOwner \in Accounts : TransferOwnership(s, newOwner)
            \/ ClaimOwnership(s)
  <2>1. UNCHANGED <<money, status, terms, deposit, dispute>>
    BY <1>10 DEF Pause, Unpause, TransferOwnership, ClaimOwnership
  <2>2. Same
    BY <2>1 DEF Phase, SellerPaid, Offered, Terms, Fee, money, terms, deposit,
                dispute
  <2>3. QED
    BY <1>1, <2>2
<1>11. QED
  BY <1>2, <1>3, <1>4, <1>5, <1>6, <1>7, <1>8, <1>9, <1>10 DEF Call, Settle

\* The box implements the one-shot trust, for every value of the constants.
THEOREM Refinement == Spec => ImplementsTrust
<1>1. Init => Trust!TrustInit
  BY DEF Init, Trust!TrustInit, Phase, Funded
<1>2. IInv /\ [Next]_vars => [Trust!TrustNext]_(Trust!trustVars)
  <2> SUFFICES ASSUME IInv, [Next]_vars
               PROVE  [Trust!TrustNext]_(Trust!trustVars)
    OBVIOUS
  <2>1. ASSUME NEW s \in Signers, Call(s)
        PROVE  [Trust!TrustNext]_(Trust!trustVars)
    BY <2>1, CallRefines
  <2>2. CASE Tick \/ UNCHANGED vars
    <3>1. UNCHANGED <<money, status, terms, deposit, dispute>>
      BY <2>2 DEF Tick, vars
    <3>2. UNCHANGED Trust!trustVars
      BY <3>1 DEF Trust!trustVars, Phase, SellerPaid, Terms, Fee, money,
                  terms, deposit, dispute
    <3>3. QED
      BY <3>2
  <2>3. QED
    BY <2>1, <2>2 DEF Next
<1>3. QED
  BY <1>1, <1>2, Inductive, PTL DEF Spec, ImplementsTrust, Trust!TrustSpec
=============================================================================
