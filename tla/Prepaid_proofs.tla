--------------------------- MODULE Prepaid_proofs ---------------------------
(***************************************************************************)
(* Proofs about Prepaid for any accounts, references, calls and amounts.   *)
(* A total counts units, so that its laws follow from the theorems on      *)
(* cardinalities and need no induction over the rows.                      *)
(***************************************************************************)
EXTENDS Prepaid, FiniteSetTheorems, TLAPS

-----------------------------------------------------------------------------
(* The laws of totals.                                                     *)

\* A unit of f is a key of f with a number up to its amount.
LEMMA UnitOf ==
  ASSUME NEW S, NEW f \in [S -> Nat], NEW u
  PROVE  u \in Units(f) <=> \E y \in S : u \in {y} \X (1 .. f[y])
  BY DEF Units

\* Changing the amount of one row changes the total by the difference.
LEMMA TotalUpdate ==
  ASSUME NEW S, NEW f \in [S -> Nat], IsFiniteSet(Units(f)),
         NEW x \in S, NEW v \in Nat, NEW g \in [S -> Nat],
         g[x] = v, \A y \in S \ {x} : g[y] = f[y]
  PROVE  /\ IsFiniteSet(Units(g))
         /\ Total(f) \in Nat
         /\ Total(g) = Total(f) - f[x] + v
<1> DEFINE Old  == {x} \X (1 .. f[x])
           New  == {x} \X (1 .. v)
           Rest == Units(f) \ Old
<1>1. Units(f) = Rest \cup Old /\ Rest \cap Old = {}
  <2>1. Old \subseteq Units(f)
    BY DEF Units
  <2> QED BY <2>1
<1>2. Units(g) = Rest \cup New
  <2>1. ASSUME NEW u \in Units(g) PROVE u \in Rest \cup New
    <3>1. PICK y \in S : u \in {y} \X (1 .. g[y])
      BY <2>1, UnitOf
    <3>2. CASE y = x
      BY <3>1, <3>2
    <3>3. CASE y # x
      <4>1. u \in {y} \X (1 .. f[y])
        BY <3>1, <3>3
      <4>2. u \in Units(f)
        BY <4>1, UnitOf
      <4>3. u \notin Old
        BY <3>3, <4>1
      <4> QED BY <4>2, <4>3
    <3> QED BY <3>2, <3>3
  <2>2. ASSUME NEW u \in Rest PROVE u \in Units(g)
    <3>1. PICK y \in S : u \in {y} \X (1 .. f[y])
      BY <2>2, UnitOf
    <3>2. y # x
      BY <2>2, <3>1
    <3>3. u \in {y} \X (1 .. g[y])
      BY <3>1, <3>2
    <3> QED BY <3>3, UnitOf
  <2>3. ASSUME NEW u \in New PROVE u \in Units(g)
    BY <2>3, UnitOf
  <2> QED BY <2>1, <2>2, <2>3
<1>3. Rest \cap New = {}
  <2>1. ASSUME NEW u \in Rest, u \in New PROVE FALSE
    <3>1. PICK y \in S : u \in {y} \X (1 .. f[y])
      BY <2>1, UnitOf
    <3>2. y = x
      BY <2>1, <3>1
    <3> QED BY <2>1, <3>1, <3>2
  <2> QED BY <2>1
<1>4. IsFiniteSet(Rest) /\ IsFiniteSet(Old) /\ Cardinality(Old) = f[x]
      /\ Cardinality(Rest) \in Nat
  <2>1. IsFiniteSet({x}) /\ Cardinality({x}) = 1
    BY FS_Singleton
  <2>2. IsFiniteSet(1 .. f[x]) /\ Cardinality(1 .. f[x]) = f[x]
    BY FS_Interval
  <2>3. IsFiniteSet(Old) /\ Cardinality(Old) = 1 * f[x]
    BY <2>1, <2>2, FS_Product
  <2>4. IsFiniteSet(Rest)
    BY FS_Subset
  <2> QED BY <2>3, <2>4, FS_CardinalityType
<1>5. IsFiniteSet(New) /\ Cardinality(New) = v
  <2>1. IsFiniteSet({x}) /\ Cardinality({x}) = 1
    BY FS_Singleton
  <2>2. IsFiniteSet(1 .. v) /\ Cardinality(1 .. v) = v
    BY FS_Interval
  <2>3. IsFiniteSet(New) /\ Cardinality(New) = 1 * v
    BY <2>1, <2>2, FS_Product
  <2> QED BY <2>3
<1>6. Total(f) = Cardinality(Rest) + f[x]
  <2>1. Cardinality(Rest \cup Old)
          = Cardinality(Rest) + Cardinality(Old) - Cardinality(Rest \cap Old)
    BY <1>4, FS_Union
  <2>2. Cardinality(Rest \cap Old) = 0
    BY <1>1, FS_EmptySet
  <2>3. Cardinality(Units(f)) = Cardinality(Rest \cup Old)
    BY <1>1
  <2> HIDE DEF Rest, Old
  <2> QED BY <1>4, <2>1, <2>2, <2>3 DEF Total
<1>7. IsFiniteSet(Units(g)) /\ Total(g) = Cardinality(Rest) + v
  <2>1. /\ IsFiniteSet(Rest \cup New)
        /\ Cardinality(Rest \cup New)
          = Cardinality(Rest) + Cardinality(New) - Cardinality(Rest \cap New)
    BY <1>4, <1>5, FS_Union
  <2>2. Cardinality(Rest \cap New) = 0
    BY <1>3, FS_EmptySet
  <2> QED BY <1>2, <1>4, <1>5, <2>1, <2>2 DEF Total
<1> QED BY <1>4, <1>6, <1>7

\* Rows without an amount add up to nothing.
LEMMA TotalOfNothing ==
  ASSUME NEW S, NEW f \in [S -> Nat], \A y \in S : f[y] = 0
  PROVE  IsFiniteSet(Units(f)) /\ Total(f) = 0
<1>1. Units(f) = {}
  BY DEF Units
<1> QED BY <1>1, FS_EmptySet DEF Total

-----------------------------------------------------------------------------
(* The books.                                                              *)

\* The rows of every total stay finitely many units, and only a captured
\* hold has a charge; with these the books are an inductive invariant.
Finite ==
  /\ \A a \in Accounts : /\ IsFiniteSet(Units(OpenAmount(a)))
                         /\ IsFiniteSet(Units(ChargeAmount(a)))
                         /\ IsFiniteSet(Units(TopUpAmount(a)))
                         /\ IsFiniteSet(Units(RefundAmount(a)))
  /\ \A r \in Requests : IsFiniteSet(Units(RefundOf(r)))

ChargedOnCapture ==
  \A r \in Requests : hold[r].state # "captured" => hold[r].captured = 0

BooksInv == LedgerTypeOK /\ Finite /\ ChargedOnCapture /\ BooksBalance

\* The amounts of holds and accounts are natural numbers.
LEMMA AmountTypes ==
  ASSUME LedgerTypeOK
  PROVE  /\ \A a \in Accounts : /\ OpenAmount(a) \in [Requests -> Nat]
                                /\ ChargeAmount(a) \in [Requests -> Nat]
                                /\ TopUpAmount(a) \in [TopUps -> Nat]
                                /\ RefundAmount(a) \in [Refunds -> Nat]
         /\ \A r \in Requests : RefundOf(r) \in [Refunds -> Nat]
  BY DEF LedgerTypeOK, OpenAmount, ChargeAmount, TopUpAmount, RefundAmount,
         RefundOf, HoldRow

\* What a change of one hold row does to the totals of an account.
LEMMA HoldTotals ==
  ASSUME LedgerTypeOK, Finite, NEW r \in Requests, NEW h \in HoldRow,
         hold' = [hold EXCEPT ![r] = h], NEW a \in Accounts
  PROVE  /\ OpenAmount(a)' \in [Requests -> Nat]
         /\ ChargeAmount(a)' \in [Requests -> Nat]
         /\ IsFiniteSet(Units(OpenAmount(a)'))
         /\ IsFiniteSet(Units(ChargeAmount(a)'))
         /\ Total(OpenAmount(a)) \in Nat
         /\ Total(ChargeAmount(a)) \in Nat
         /\ Total(OpenAmount(a)') \in Nat
         /\ Total(OpenAmount(a)')
              = Total(OpenAmount(a)) - OpenAmount(a)[r] + OpenAmount(a)'[r]
         /\ Total(ChargeAmount(a)')
              = Total(ChargeAmount(a)) - ChargeAmount(a)[r]
                  + ChargeAmount(a)'[r]
<1>1. hold \in [Requests -> HoldRow] /\ hold' \in [Requests -> HoldRow]
  BY DEF LedgerTypeOK, HoldRow
<1>2. /\ OpenAmount(a) \in [Requests -> Nat]
      /\ OpenAmount(a)' \in [Requests -> Nat]
      /\ \A q \in Requests \ {r} : OpenAmount(a)'[q] = OpenAmount(a)[q]
  BY <1>1 DEF OpenAmount, HoldRow
<1>3. /\ ChargeAmount(a) \in [Requests -> Nat]
      /\ ChargeAmount(a)' \in [Requests -> Nat]
      /\ \A q \in Requests \ {r} : ChargeAmount(a)'[q] = ChargeAmount(a)[q]
  BY <1>1 DEF ChargeAmount, HoldRow
<1>4. /\ IsFiniteSet(Units(OpenAmount(a)))
      /\ IsFiniteSet(Units(ChargeAmount(a)))
  BY DEF Finite
<1>5. /\ IsFiniteSet(Units(OpenAmount(a)'))
      /\ Total(OpenAmount(a)) \in Nat
      /\ Total(OpenAmount(a)')
           = Total(OpenAmount(a)) - OpenAmount(a)[r] + OpenAmount(a)'[r]
  <2>1. OpenAmount(a)'[r] \in Nat
    BY <1>2
  <2> QED BY <1>2, <1>4, <2>1, TotalUpdate
<1>6. /\ IsFiniteSet(Units(ChargeAmount(a)'))
      /\ Total(ChargeAmount(a)) \in Nat
      /\ Total(ChargeAmount(a)')
           = Total(ChargeAmount(a)) - ChargeAmount(a)[r]
               + ChargeAmount(a)'[r]
  <2>1. ChargeAmount(a)'[r] \in Nat
    BY <1>3
  <2> QED BY <1>3, <1>4, <2>1, TotalUpdate
<1>7. Total(OpenAmount(a)') \in Nat
  BY <1>5, FS_CardinalityType DEF Total
<1> QED BY <1>2, <1>3, <1>5, <1>6, <1>7

\* A top-up adds the same to the credits and to the balance.
LEMMA CreditBooks ==
  ASSUME BooksInv, NEW t \in TopUps, NEW i \in Invoices,
         NEW amount \in Worths, CreditPrepaid(t, i, amount)
  PROVE  BooksInv'
<1> USE PrepaidAssumption
<1>1. amount \in Nat /\ TopUpAccount[t] \in Accounts
  OBVIOUS
<1>2. LedgerTypeOK'
  BY <1>1 DEF BooksInv, LedgerTypeOK, CreditPrepaid, HoldRow
<1>3. ASSUME NEW a \in Accounts
      PROVE  /\ OpenAmount(a)' = OpenAmount(a)
             /\ ChargeAmount(a)' = ChargeAmount(a)
             /\ RefundAmount(a)' = RefundAmount(a)
  BY DEF CreditPrepaid, OpenAmount, ChargeAmount, RefundAmount
<1>4. ASSUME NEW r \in Requests PROVE RefundOf(r)' = RefundOf(r)
  BY DEF CreditPrepaid, RefundOf
<1>5. ASSUME NEW a \in Accounts
      PROVE  /\ IsFiniteSet(Units(TopUpAmount(a)'))
             /\ Total(TopUpAmount(a)) \in Nat
             /\ Total(TopUpAmount(a)')
                  = Total(TopUpAmount(a))
                      + (IF TopUpAccount[t] = a THEN amount ELSE 0)
  <2> DEFINE v == IF TopUpAccount[t] = a THEN amount ELSE 0
  <2>1. /\ TopUpAmount(a) \in [TopUps -> Nat]
        /\ IsFiniteSet(Units(TopUpAmount(a)))
    BY AmountTypes DEF BooksInv, Finite
  <2>2. /\ TopUpAmount(a)' \in [TopUps -> Nat]
        /\ TopUpAmount(a)'[t] = v /\ TopUpAmount(a)[t] = 0 /\ v \in Nat
        /\ \A u \in TopUps \ {t} : TopUpAmount(a)'[u] = TopUpAmount(a)[u]
    BY <1>1, <1>2 DEF BooksInv, LedgerTypeOK, CreditPrepaid, TopUpAmount
  <2> QED BY <2>1, <2>2, TotalUpdate
<1>6. Finite'
  BY <1>3, <1>4, <1>5 DEF BooksInv, Finite
<1>7. ChargedOnCapture'
  BY DEF BooksInv, ChargedOnCapture, CreditPrepaid
<1>8. BooksBalance'
  <2>1. ASSUME NEW a \in Accounts
        PROVE  /\ reserved'[a] = Total(OpenAmount(a)')
               /\ available'[a] + reserved'[a] + Total(ChargeAmount(a)')
                    = Total(TopUpAmount(a)') + Total(RefundAmount(a)')
    <3>1. available'[a]
            = available[a] + (IF TopUpAccount[t] = a THEN amount ELSE 0)
      BY <1>1 DEF BooksInv, LedgerTypeOK, CreditPrepaid
    <3>2. /\ available[a] \in Nat /\ reserved[a] \in Nat
          /\ reserved'[a] = reserved[a]
      BY DEF BooksInv, LedgerTypeOK, CreditPrepaid
    <3>3. /\ Total(ChargeAmount(a)) \in Nat
          /\ Total(RefundAmount(a)) \in Nat
      BY FS_CardinalityType DEF BooksInv, Finite, Total
    <3> QED BY <1>1, <1>3, <1>5, <3>1, <3>2, <3>3 DEF BooksInv, BooksBalance
  <2>2. ASSUME NEW r \in Requests
        PROVE  Total(RefundOf(r)') <= hold'[r].captured
    BY <1>4 DEF BooksInv, BooksBalance, CreditPrepaid
  <2> QED BY <2>1, <2>2 DEF BooksBalance
<1> QED BY <1>2, <1>6, <1>7, <1>8 DEF BooksInv

\* A refund adds the same to the refunds and to the balance.
LEMMA RefundBooks ==
  ASSUME BooksInv, NEW x \in Refunds, NEW r \in Requests,
         NEW amount \in Worths, RefundPrepaid(x, r, amount)
  PROVE  BooksInv'
<1> USE PrepaidAssumption
<1>1. amount \in Nat /\ RequestAccount[r] \in Accounts /\ r # None
  OBVIOUS
<1>2. LedgerTypeOK'
  BY <1>1 DEF BooksInv, LedgerTypeOK, RefundPrepaid, HoldRow
<1>3. ASSUME NEW a \in Accounts
      PROVE  /\ OpenAmount(a)' = OpenAmount(a)
             /\ ChargeAmount(a)' = ChargeAmount(a)
             /\ TopUpAmount(a)' = TopUpAmount(a)
  BY DEF RefundPrepaid, OpenAmount, ChargeAmount, TopUpAmount
<1>4. ASSUME NEW a \in Accounts
      PROVE  /\ IsFiniteSet(Units(RefundAmount(a)'))
             /\ Total(RefundAmount(a)) \in Nat
             /\ Total(RefundAmount(a)')
                  = Total(RefundAmount(a))
                      + (IF RequestAccount[r] = a THEN amount ELSE 0)
  <2> DEFINE v == IF RequestAccount[r] = a THEN amount ELSE 0
  <2>1. /\ RefundAmount(a) \in [Refunds -> Nat]
        /\ IsFiniteSet(Units(RefundAmount(a)))
    BY AmountTypes DEF BooksInv, Finite
  <2>2. /\ RefundAmount(a)' \in [Refunds -> Nat]
        /\ RefundAmount(a)'[x] = v /\ RefundAmount(a)[x] = 0 /\ v \in Nat
        /\ \A y \in Refunds \ {x} : RefundAmount(a)'[y] = RefundAmount(a)[y]
    BY <1>1, <1>2 DEF BooksInv, LedgerTypeOK, RefundPrepaid, RefundAmount
  <2> QED BY <2>1, <2>2, TotalUpdate
<1>5. ASSUME NEW q \in Requests
      PROVE  /\ IsFiniteSet(Units(RefundOf(q)'))
             /\ Total(RefundOf(q)) \in Nat
             /\ Total(RefundOf(q)')
                  = Total(RefundOf(q)) + (IF q = r THEN amount ELSE 0)
  <2> DEFINE v == IF q = r THEN amount ELSE 0
  <2>1. RefundOf(q) \in [Refunds -> Nat] /\ IsFiniteSet(Units(RefundOf(q)))
    BY AmountTypes DEF BooksInv, Finite
  <2>2. /\ RefundOf(q)' \in [Refunds -> Nat]
        /\ RefundOf(q)'[x] = v /\ RefundOf(q)[x] = 0 /\ v \in Nat
        /\ \A y \in Refunds \ {x} : RefundOf(q)'[y] = RefundOf(q)[y]
    BY <1>1, <1>2 DEF BooksInv, LedgerTypeOK, RefundPrepaid, RefundOf
  <2> QED BY <2>1, <2>2, TotalUpdate
<1>6. Finite'
  BY <1>3, <1>4, <1>5 DEF BooksInv, Finite
<1>7. ChargedOnCapture'
  BY DEF BooksInv, ChargedOnCapture, RefundPrepaid
<1>8. BooksBalance'
  <2>1. ASSUME NEW a \in Accounts
        PROVE  /\ reserved'[a] = Total(OpenAmount(a)')
               /\ available'[a] + reserved'[a] + Total(ChargeAmount(a)')
                    = Total(TopUpAmount(a)') + Total(RefundAmount(a)')
    <3>1. available'[a]
            = available[a] + (IF RequestAccount[r] = a THEN amount ELSE 0)
      BY <1>1 DEF BooksInv, LedgerTypeOK, RefundPrepaid
    <3>2. /\ available[a] \in Nat /\ reserved[a] \in Nat
          /\ reserved'[a] = reserved[a]
      BY DEF BooksInv, LedgerTypeOK, RefundPrepaid
    <3>3. /\ Total(ChargeAmount(a)) \in Nat
          /\ Total(TopUpAmount(a)) \in Nat
      BY FS_CardinalityType DEF BooksInv, Finite, Total
    <3> QED BY <1>1, <1>3, <1>4, <3>1, <3>2, <3>3 DEF BooksInv, BooksBalance
  <2>2. ASSUME NEW q \in Requests
        PROVE  Total(RefundOf(q)') <= hold'[q].captured
    BY <1>1, <1>5 DEF BooksInv, BooksBalance, RefundPrepaid
  <2> QED BY <2>1, <2>2 DEF BooksBalance
<1> QED BY <1>2, <1>6, <1>7, <1>8 DEF BooksInv

InReserve(h) == IF h.state = "open" THEN h.reserved ELSE 0

\* One hold row changes while it is not captured: when the account's reserve
\* moves by what the row holds, and nothing is won or lost with the charge,
\* the books stay right.
LEMMA HoldBooks ==
  ASSUME BooksInv, NEW r \in Requests, NEW h \in HoldRow,
         NEW av \in Nat, NEW rv \in Int,
         UNCHANGED <<topUp, refund>>,
         hold' = [hold EXCEPT ![r] = h],
         available' = [available EXCEPT ![RequestAccount[r]] = av],
         reserved' = [reserved EXCEPT ![RequestAccount[r]] = rv],
         hold[r].state # "captured",
         h.state # "captured" => h.captured = 0,
         rv = reserved[RequestAccount[r]] - InReserve(hold[r]) + InReserve(h),
         av + rv + h.captured
           = available[RequestAccount[r]] + reserved[RequestAccount[r]]
  PROVE  BooksInv'
<1> USE PrepaidAssumption
<1> DEFINE acc == RequestAccount[r]
<1>1. acc \in Accounts /\ h.captured \in Nat /\ h.reserved \in Nat
  BY DEF HoldRow
<1>2. /\ hold[r].captured = 0 /\ hold[r] \in HoldRow
      /\ hold' \in [Requests -> HoldRow] /\ hold'[r] = h
      /\ \A q \in Requests \ {r} : hold'[q] = hold[q]
  BY DEF BooksInv, LedgerTypeOK, ChargedOnCapture
<1>3. ASSUME NEW a \in Accounts
      PROVE  /\ IsFiniteSet(Units(OpenAmount(a)'))
             /\ IsFiniteSet(Units(ChargeAmount(a)'))
             /\ Total(OpenAmount(a)') \in Nat
             /\ Total(OpenAmount(a)) \in Nat
             /\ Total(ChargeAmount(a)) \in Nat
             /\ Total(OpenAmount(a)')
                  = Total(OpenAmount(a)) +
                      (IF a = acc THEN InReserve(h) - InReserve(hold[r])
                                  ELSE 0)
             /\ Total(ChargeAmount(a)')
                  = Total(ChargeAmount(a))
                      + (IF a = acc THEN h.captured ELSE 0)
  <2>1. /\ OpenAmount(a)[r] = (IF a = acc THEN InReserve(hold[r]) ELSE 0)
        /\ OpenAmount(a)'[r] = (IF a = acc THEN InReserve(h) ELSE 0)
        /\ ChargeAmount(a)[r] = 0
        /\ ChargeAmount(a)'[r] = (IF a = acc THEN h.captured ELSE 0)
    BY <1>2 DEF OpenAmount, ChargeAmount, InReserve
  <2>2. InReserve(h) \in Nat /\ InReserve(hold[r]) \in Nat
    BY <1>2 DEF InReserve, HoldRow
  <2>3. LedgerTypeOK /\ Finite
    BY DEF BooksInv
  <2>4. /\ IsFiniteSet(Units(OpenAmount(a)'))
        /\ IsFiniteSet(Units(ChargeAmount(a)'))
        /\ Total(OpenAmount(a)) \in Nat
        /\ Total(ChargeAmount(a)) \in Nat
        /\ Total(OpenAmount(a)') \in Nat
        /\ Total(OpenAmount(a)')
             = Total(OpenAmount(a)) - OpenAmount(a)[r] + OpenAmount(a)'[r]
        /\ Total(ChargeAmount(a)')
             = Total(ChargeAmount(a)) - ChargeAmount(a)[r]
                 + ChargeAmount(a)'[r]
    BY <2>3, HoldTotals
  <2> QED BY <1>1, <2>1, <2>2, <2>4
<1>4. ASSUME NEW a \in Accounts
      PROVE  /\ TopUpAmount(a)' = TopUpAmount(a)
             /\ RefundAmount(a)' = RefundAmount(a)
             /\ Total(TopUpAmount(a)) \in Nat
             /\ Total(RefundAmount(a)) \in Nat
  <2>1. Total(TopUpAmount(a)) \in Nat /\ Total(RefundAmount(a)) \in Nat
    BY FS_CardinalityType DEF BooksInv, Finite, Total
  <2> QED BY <2>1 DEF TopUpAmount, RefundAmount
<1>5. ASSUME NEW q \in Requests PROVE RefundOf(q)' = RefundOf(q)
  BY DEF RefundOf
<1>6. /\ available \in [Accounts -> Nat] /\ reserved \in [Accounts -> Nat]
      /\ \A a \in Accounts : reserved[a] = Total(OpenAmount(a))
  BY DEF BooksInv, LedgerTypeOK, BooksBalance
<1>7. rv \in Nat
  <2>1. rv = Total(OpenAmount(acc)')
    <3>1. InReserve(h) \in Nat /\ InReserve(hold[r]) \in Nat
      BY <1>2 DEF InReserve, HoldRow
    <3> QED BY <1>1, <1>3, <1>6, <3>1
  <2> QED BY <1>1, <1>3, <2>1
<1>8. LedgerTypeOK'
  BY <1>1, <1>2, <1>6, <1>7 DEF BooksInv, LedgerTypeOK
<1>9. Finite'
  BY <1>3, <1>4, <1>5 DEF BooksInv, Finite
<1>10. ChargedOnCapture'
  BY <1>2 DEF BooksInv, ChargedOnCapture
<1>11. BooksBalance'
  <2>1. ASSUME NEW a \in Accounts
        PROVE  /\ reserved'[a] = Total(OpenAmount(a)')
               /\ available'[a] + reserved'[a] + Total(ChargeAmount(a)')
                    = Total(TopUpAmount(a)') + Total(RefundAmount(a)')
    <3>1. InReserve(h) \in Nat /\ InReserve(hold[r]) \in Nat
      BY <1>2 DEF InReserve, HoldRow
    <3>2. available[a] + reserved[a] + Total(ChargeAmount(a))
            = Total(TopUpAmount(a)) + Total(RefundAmount(a))
      BY DEF BooksInv, BooksBalance
    <3>3. CASE a = acc
      <4>1. available'[a] = av /\ reserved'[a] = rv
        BY <1>1, <1>6, <3>3
      <4>2. /\ Total(OpenAmount(a)')
                 = Total(OpenAmount(a)) + InReserve(h) - InReserve(hold[r])
            /\ Total(ChargeAmount(a)')
                 = Total(ChargeAmount(a)) + h.captured
        BY <1>3, <3>1, <3>3
      <4> QED BY <1>1, <1>3, <1>4, <1>6, <1>7, <3>1, <3>2, <3>3, <4>1, <4>2
    <3>4. CASE a # acc
      <4>1. available'[a] = available[a] /\ reserved'[a] = reserved[a]
        BY <1>1, <1>6, <3>4
      <4> QED BY <1>3, <1>4, <1>6, <3>2, <3>4, <4>1
    <3> QED BY <3>3, <3>4
  <2>2. ASSUME NEW q \in Requests
        PROVE  Total(RefundOf(q)') <= hold'[q].captured
    <3>1. Total(RefundOf(q)) <= hold[q].captured
      BY DEF BooksInv, BooksBalance
    <3>2. Total(RefundOf(q)) \in Nat
      BY FS_CardinalityType DEF BooksInv, Finite, Total
    <3> QED BY <1>1, <1>2, <1>5, <3>1, <3>2
  <2> QED BY <2>1, <2>2 DEF BooksBalance
<1> QED BY <1>8, <1>9, <1>10, <1>11 DEF BooksInv

\* Opening a hold moves its amount from the balance.
LEMMA OpenHoldBooks ==
  ASSUME BooksInv, NEW r \in Requests, NEW price \in Prices,
         OpenHold(r, price), UNCHANGED <<topUp, refund>>
  PROVE  BooksInv'
<1> USE PrepaidAssumption
<1> DEFINE acc == RequestAccount[r]
           h  == [state |-> "open", reserved |-> price, captured |-> 0]
           av == available[acc] - price
           rv == reserved[acc] + price
<1>1. acc \in Accounts /\ price \in Nat
  OBVIOUS
<1>2. /\ available[acc] \in Nat /\ reserved[acc] \in Nat
      /\ price <= available[acc]
  BY <1>1 DEF BooksInv, LedgerTypeOK, OpenHold
<1>3. h \in HoldRow /\ av \in Nat /\ rv \in Int
  BY <1>1, <1>2 DEF HoldRow, HoldStates
<1>4. /\ hold' = [hold EXCEPT ![r] = h]
      /\ available' = [available EXCEPT ![acc] = av]
      /\ reserved' = [reserved EXCEPT ![acc] = rv]
      /\ hold[r].state # "captured"
  BY <1>1 DEF OpenHold
<1>5. rv = reserved[acc] - InReserve(hold[r]) + InReserve(h)
  <2>1. InReserve(hold[r]) = 0 /\ InReserve(h) = price
    BY DEF OpenHold, InReserve
  <2> QED BY <1>1, <1>2, <2>1
<1>6. av + rv + h.captured = available[acc] + reserved[acc]
  BY <1>1, <1>2
<1>7. h.state # "captured" => h.captured = 0
  OBVIOUS
<1> HIDE DEF h, av, rv
<1> QED BY <1>3, <1>4, <1>5, <1>6, <1>7, HoldBooks

\* A capture splits its hold into the charge and the rest.
LEMMA CaptureHoldBooks ==
  ASSUME BooksInv, NEW r \in Requests, NEW amount \in Nat, NEW who,
         CaptureHold(r, amount, who), UNCHANGED <<topUp, refund>>
  PROVE  BooksInv'
<1> USE PrepaidAssumption
<1> DEFINE acc == RequestAccount[r]
           h  == [state |-> "captured", reserved |-> hold[r].reserved,
                  captured |-> amount]
           av == available[acc] + hold[r].reserved - amount
           rv == reserved[acc] - hold[r].reserved
<1>1. acc \in Accounts /\ hold \in [Requests -> HoldRow] /\ hold[r] \in HoldRow
  BY DEF BooksInv, LedgerTypeOK
<1>2. /\ available[acc] \in Nat /\ reserved[acc] \in Nat
      /\ hold[r].reserved \in Nat /\ amount <= hold[r].reserved
  BY <1>1 DEF BooksInv, LedgerTypeOK, CaptureHold, HoldRow
<1>3. h \in HoldRow /\ av \in Nat /\ rv \in Int
  BY <1>1, <1>2 DEF HoldRow, HoldStates
<1>4. /\ hold' = [hold EXCEPT ![r] = h]
      /\ available' = [available EXCEPT ![acc] = av]
      /\ reserved' = [reserved EXCEPT ![acc] = rv]
      /\ hold[r].state = "open"
  BY <1>1 DEF CaptureHold
<1>5. h.state = "captured" /\ h.captured = amount
  BY <1>1 DEF HoldRow
<1>6. rv = reserved[acc] - InReserve(hold[r]) + InReserve(h)
  <2>1. InReserve(hold[r]) = hold[r].reserved /\ InReserve(h) = 0
    BY <1>4, <1>5 DEF InReserve
  <2> QED BY <1>2, <2>1
<1>7. av + rv + h.captured = available[acc] + reserved[acc]
  BY <1>2, <1>5
<1> HIDE DEF h, av, rv
<1> QED BY <1>3, <1>4, <1>5, <1>6, <1>7, HoldBooks

\* A release puts the whole hold back on the balance.
LEMMA ReleaseHoldBooks ==
  ASSUME BooksInv, NEW r \in Requests, NEW who,
         ReleaseHold(r, who), UNCHANGED <<topUp, refund>>
  PROVE  BooksInv'
<1> USE PrepaidAssumption
<1> DEFINE acc == RequestAccount[r]
           h  == [state |-> "released", reserved |-> hold[r].reserved,
                  captured |-> hold[r].captured]
           av == available[acc] + hold[r].reserved
           rv == reserved[acc] - hold[r].reserved
<1>1. acc \in Accounts /\ hold \in [Requests -> HoldRow] /\ hold[r] \in HoldRow
  BY DEF BooksInv, LedgerTypeOK
<1>2. /\ available[acc] \in Nat /\ reserved[acc] \in Nat
      /\ hold[r].reserved \in Nat
  BY <1>1 DEF BooksInv, LedgerTypeOK, HoldRow
<1>3. h \in HoldRow /\ av \in Nat /\ rv \in Int
  BY <1>1, <1>2 DEF HoldRow, HoldStates
<1>4. /\ hold' = [hold EXCEPT ![r] = h]
      /\ available' = [available EXCEPT ![acc] = av]
      /\ reserved' = [reserved EXCEPT ![acc] = rv]
      /\ hold[r].state = "open"
  <2>1. [hold[r] EXCEPT !.state = "released"] = h
    BY <1>1 DEF HoldRow
  <2> HIDE DEF h
  <2> QED BY <1>1, <2>1 DEF ReleaseHold
<1>5. h.state = "released" /\ h.captured = 0
  BY <1>1, <1>4 DEF HoldRow, BooksInv, ChargedOnCapture
<1>6. rv = reserved[acc] - InReserve(hold[r]) + InReserve(h)
  <2>1. InReserve(hold[r]) = hold[r].reserved /\ InReserve(h) = 0
    BY <1>4, <1>5 DEF InReserve
  <2> QED BY <1>2, <2>1
<1>7. av + rv + h.captured = available[acc] + reserved[acc]
  BY <1>2, <1>5
<1> HIDE DEF h, av, rv
<1> QED BY <1>3, <1>4, <1>5, <1>6, <1>7, HoldBooks

\* A step that writes neither balance nor row keeps the books.
LEMMA QuietBooks ==
  ASSUME BooksInv, UNCHANGED <<balance, rows>>
  PROVE  BooksInv'
<1>1. \A a \in Accounts : /\ OpenAmount(a)' = OpenAmount(a)
                          /\ ChargeAmount(a)' = ChargeAmount(a)
                          /\ TopUpAmount(a)' = TopUpAmount(a)
                          /\ RefundAmount(a)' = RefundAmount(a)
  BY DEF balance, rows, OpenAmount, ChargeAmount, TopUpAmount, RefundAmount
<1>2. \A r \in Requests : RefundOf(r)' = RefundOf(r)
  BY DEF balance, rows, RefundOf
<1>3. LedgerTypeOK' /\ ChargedOnCapture'
  BY DEF BooksInv, LedgerTypeOK, ChargedOnCapture, balance, rows
<1>4. Finite'
  BY <1>1, <1>2 DEF BooksInv, Finite
<1>5. BooksBalance'
  BY <1>1, <1>2 DEF BooksInv, BooksBalance, balance, rows
<1> QED BY <1>3, <1>4, <1>5 DEF BooksInv

\* The capture of a call charges an amount the row can bear, or nothing.
LEMMA CaptureBooks ==
  ASSUME BooksInv, NEW c \in Calls, call[c].request \in Requests,
         NEW m \in Measures \cup {Unknown}, Capture(c, m),
         UNCHANGED <<topUp, refund>>
  PROVE  BooksInv'
<1> USE PrepaidAssumption
<1> DEFINE r == call[c].request
           amount == CapCharge(m, hold[r].reserved)
<1>1. amount \in Nat
  BY DEF CapCharge, BooksInv, LedgerTypeOK, HoldRow
<1>2. CASE CaptureHold(r, amount, "proxy")
  BY <1>1, <1>2, CaptureHoldBooks
<1>3. CASE UNCHANGED <<balance, hold, closedBy>>
  BY <1>3, QuietBooks DEF rows
<1> QED BY <1>2, <1>3 DEF Capture

-----------------------------------------------------------------------------
(* The calls.                                                              *)

\* A call that is under way, or ended after its reservation, has a request;
\* a call that has one found its hold absent, and nothing makes it absent
\* again.
WorkStages == {"reserved", "answered", "streaming", "finishing"}
LostStages == {"crashed", "thrown"}

RequestInv ==
  /\ \A c \in Calls :
       /\ call[c].at = "new" => ~HasHold(c) /\ call[c].outcome = "none"
       /\ call[c].at \in WorkStages \cup LostStages \cup {"served", "failed"}
            => HasHold(c)
       /\ call[c].at = "reserved" => call[c].outcome = "none"
       /\ call[c].at \in {"streaming", "finishing", "served"}
            => call[c].outcome = "ok"
       /\ HasHold(c) => hold[call[c].request].state # "absent"

\* Who closed a hold, and with what ground.
ClosedInv ==
  \A r \in Requests :
    /\ hold[r].state \in {"captured", "released"} => closedBy[r] # "nobody"
    /\ hold[r].state = "released" /\ closedBy[r] = "proxy" =>
         \E c \in Calls : call[c].request = r /\ call[c].outcome = "error"

\* An open hold has a call that did not get to close it, and only the
\* operator closes the hold of a call that did not.
Explained ==
  \A r \in Requests : hold[r].state = "open" =>
    \E c \in Calls : /\ call[c].request = r
                     /\ call[c].at \in WorkStages \cup LostStages

InHand ==
  \A c \in Calls : call[c].at \in WorkStages \cup LostStages =>
    \/ hold[call[c].request].state = "open"
    \/ closedBy[call[c].request] = "operator"

CallInv == /\ CallTypeOK
           /\ RequestInv
           /\ ClosedInv
           /\ OneUpstreamCallPerKey
           /\ ServiceIsCharged
           /\ Explained /\ InHand

\* Every step of the ledger and of a call keeps the books.
LEMMA BooksStep ==
  ASSUME BooksInv, CallTypeOK, RequestInv, [Next]_vars
  PROVE  BooksInv'
<1> USE PrepaidAssumption
<1>1. ASSUME NEW t \in TopUps, NEW i \in Invoices, NEW w \in Worths,
             CreditPrepaid(t, i, w)
      PROVE  BooksInv'
  BY <1>1, CreditBooks
<1>2. ASSUME NEW x \in Refunds, NEW r \in Requests, NEW w \in Worths,
             RefundPrepaid(x, r, w)
      PROVE  BooksInv'
  BY <1>2, RefundBooks
<1>3. ASSUME NEW r \in Requests, ResolveHold(r)
      PROVE  BooksInv'
  <2>1. CASE ReleaseHold(r, "operator")
    BY <1>3, <2>1, ReleaseHoldBooks DEF ResolveHold
  <2>2. ASSUME NEW amount \in 0 .. hold[r].reserved,
               CaptureHold(r, amount, "operator")
        PROVE  BooksInv'
    <3>1. amount \in Nat
      BY DEF BooksInv, LedgerTypeOK, HoldRow
    <3> QED BY <1>3, <2>2, <3>1, CaptureHoldBooks DEF ResolveHold
  <2> QED BY <1>3, <2>1, <2>2 DEF ResolveHold
<1>4. ASSUME NEW c \in Calls, CallStep(c)
      PROVE  BooksInv'
  <2>1. ASSUME NEW r \in Requests, NEW price \in Prices, Reserve(c, r, price)
        PROVE  BooksInv'
    <3>1. CASE OpenHold(r, price)
      BY <2>1, <3>1, OpenHoldBooks DEF Reserve
    <3>2. CASE UNCHANGED <<balance, hold>>
      BY <2>1, <3>2, QuietBooks DEF Reserve, rows
    <3> QED BY <2>1, <3>1, <3>2 DEF Reserve
  <2>2. CASE UpstreamFails(c) \/ UpstreamAnswers(c) \/ UpstreamStreams(c)
    BY <2>2, QuietBooks DEF UpstreamFails, UpstreamAnswers, UpstreamStreams,
         Answer
  <2>3. CASE ProxyReleases(c)
    <3>1. call[c].request \in Requests
      BY <2>3 DEF ProxyReleases, RequestInv, HasHold, CallTypeOK, WorkStages
    <3>2. CASE ReleaseHold(call[c].request, "proxy")
      BY <2>3, <3>1, <3>2, ReleaseHoldBooks DEF ProxyReleases
    <3>3. CASE UNCHANGED <<balance, hold, closedBy>>
      BY <2>3, <3>3, QuietBooks DEF ProxyReleases, rows
    <3> QED BY <2>3, <3>2, <3>3 DEF ProxyReleases
  <2>4. ASSUME NEW m \in Measures \cup {Unknown},
               ProxyCaptures(c, m) \/ StreamFinalizes(c, m)
        PROVE  BooksInv'
    <3>1. call[c].request \in Requests
      BY <2>4 DEF ProxyCaptures, StreamFinalizes, RequestInv, HasHold,
           CallTypeOK, WorkStages
    <3> QED BY <2>4, <3>1, CaptureBooks DEF ProxyCaptures, StreamFinalizes
  <2>5. CASE \/ StreamEnds(c) \/ Crash(c) \/ ProxyThrows(c)
           \/ \E m \in Measures \cup {Unknown} : CapChargeThrows(c, m)
    BY <2>5, QuietBooks DEF StreamEnds, Crash, ProxyThrows, CapChargeThrows
  <2>6. CASE StreamAborts(c)
    <3>1. call[c].request \in Requests
      BY <2>6 DEF StreamAborts, RequestInv, HasHold, CallTypeOK, WorkStages
    <3> QED BY <2>6, <3>1, CaptureBooks DEF StreamAborts
  <2> QED BY <1>4, <2>1, <2>2, <2>3, <2>4, <2>5, <2>6 DEF CallStep
<1>5. CASE UNCHANGED vars
  BY <1>5, QuietBooks DEF vars
<1> QED BY <1>1, <1>2, <1>3, <1>4, <1>5 DEF Next, LedgerStep

\* What the calls know is kept by the steps that do not move a call.
LEMMA CallsByLedger ==
  ASSUME LedgerTypeOK, CallInv, LedgerStep
  PROVE  CallInv'
<1> USE PrepaidAssumption
<1>1. CASE UNCHANGED <<hold, call, closedBy>>
  BY <1>1 DEF CallInv, CallTypeOK, RequestInv, ClosedInv, HasHold,
       OneUpstreamCallPerKey, ServiceIsCharged, Explained, InHand
<1>2. ASSUME NEW r \in Requests, NEW h \in HoldRow,
             hold[r].state = "open", hold' = [hold EXCEPT ![r] = h],
             h.state \in {"captured", "released"},
             closedBy' = [closedBy EXCEPT ![r] = "operator"],
             UNCHANGED call
      PROVE  CallInv'
  <2>1. /\ hold'[r].state \in {"captured", "released"}
        /\ closedBy'[r] = "operator"
        /\ \A q \in Requests \ {r} : /\ hold'[q] = hold[q]
                                     /\ closedBy'[q] = closedBy[q]
    BY <1>2 DEF CallInv, CallTypeOK, LedgerTypeOK
  <2>2. CallTypeOK'
    BY <1>2 DEF CallInv, CallTypeOK
  <2>3. \A c \in Calls : HasHold(c) => call[c].request \in Requests
    BY DEF CallInv, CallTypeOK, HasHold
  <2>4. RequestInv'
    BY <1>2, <2>1, <2>3 DEF CallInv, RequestInv, HasHold
  <2>5. ClosedInv'
    BY <1>2, <2>1 DEF CallInv, ClosedInv
  <2>6. OneUpstreamCallPerKey'
    BY <1>2 DEF CallInv, OneUpstreamCallPerKey, HasHold
  <2>7. ServiceIsCharged'
    <3>1. \A c \in Calls :
            call[c].outcome = "ok" /\ call[c].at \in {"served", "failed"}
              => HasHold(c)
      BY DEF CallInv, RequestInv
    <3> QED BY <1>2, <2>1, <2>3, <3>1 DEF CallInv, ServiceIsCharged
  <2>8. Explained'
    BY <1>2, <2>1 DEF CallInv, Explained
  <2>9. InHand'
    <3>1. \A c \in Calls : call[c].at \in WorkStages \cup LostStages =>
                           call[c].request \in Requests
      BY <2>3 DEF CallInv, RequestInv
    <3> QED BY <1>2, <2>1, <3>1 DEF CallInv, InHand
  <2> QED BY <2>2, <2>4, <2>5, <2>6, <2>7, <2>8, <2>9 DEF CallInv
<1>3. ASSUME NEW r \in Requests, ResolveHold(r)
      PROVE  CallInv'
  <2>1. hold[r] \in HoldRow
    BY DEF LedgerTypeOK
  <2>2. CASE ReleaseHold(r, "operator")
    <3> DEFINE h == [hold[r] EXCEPT !.state = "released"]
    <3>1. h \in HoldRow /\ h.state = "released"
      BY <2>1 DEF HoldRow, HoldStates
    <3>2. hold' = [hold EXCEPT ![r] = h] /\ hold[r].state = "open"
          /\ closedBy' = [closedBy EXCEPT ![r] = "operator"]
      BY <2>1, <2>2 DEF ReleaseHold, LedgerTypeOK
    <3> HIDE DEF h
    <3> QED BY <1>2, <1>3, <3>1, <3>2 DEF ResolveHold
  <2>3. ASSUME NEW amount \in 0 .. hold[r].reserved,
               CaptureHold(r, amount, "operator")
        PROVE  CallInv'
    <3> DEFINE h == [state |-> "captured", reserved |-> hold[r].reserved,
                     captured |-> amount]
    <3>1. h \in HoldRow /\ h.state = "captured"
      BY <2>1 DEF HoldRow, HoldStates
    <3>2. hold' = [hold EXCEPT ![r] = h] /\ hold[r].state = "open"
          /\ closedBy' = [closedBy EXCEPT ![r] = "operator"]
      BY <2>3 DEF CaptureHold
    <3> HIDE DEF h
    <3> QED BY <1>2, <1>3, <3>1, <3>2 DEF ResolveHold
  <2> QED BY <1>3, <2>2, <2>3 DEF ResolveHold
<1> QED BY <1>1, <1>3 DEF LedgerStep, CreditPrepaid, RefundPrepaid

\* A call that moves on without touching a hold, on the way or by dying,
\* takes what it knows along.
LEMMA CallsByMove ==
  ASSUME LedgerTypeOK, CallInv, NEW c \in Calls, NEW stage, NEW outcome,
         MoveTo(c, stage, outcome), UNCHANGED <<hold, closedBy>>,
         stage \in WorkStages \cup LostStages,
         stage # "reserved",
         call[c].at \in WorkStages,
         outcome \in {"none", "ok", "error"},
         call[c].outcome # "none" => outcome = call[c].outcome,
         stage \in {"streaming", "finishing"} => outcome = "ok"
  PROVE  CallInv'
<1>1. /\ call'[c] = [at |-> stage, request |-> call[c].request,
                     outcome |-> outcome]
      /\ \A d \in Calls \ {c} : call'[d] = call[d]
  BY DEF MoveTo, CallInv, CallTypeOK
<1>2. /\ call'[c].at = stage /\ call'[c].request = call[c].request
      /\ call'[c].outcome = outcome
      /\ \A d \in Calls : call'[d].request = call[d].request
  BY <1>1
<1>3. CallTypeOK'
  BY <1>1 DEF CallInv, CallTypeOK, MoveTo, WorkStages, LostStages, Stages
<1>4. HasHold(c) /\ stage \notin {"new", "served", "failed"}
  BY DEF CallInv, RequestInv, WorkStages, LostStages
<1>5. RequestInv'
  BY <1>1, <1>2, <1>4 DEF CallInv, RequestInv, HasHold, WorkStages, LostStages
<1>6. ClosedInv'
  BY <1>1, <1>2 DEF CallInv, ClosedInv
<1>7. OneUpstreamCallPerKey'
  BY <1>2 DEF CallInv, OneUpstreamCallPerKey, HasHold
<1>8. ServiceIsCharged'
  BY <1>1, <1>2, <1>4 DEF CallInv, ServiceIsCharged
<1>9. Explained'
  BY <1>1, <1>2 DEF CallInv, Explained
<1>10. InHand'
  BY <1>1, <1>2 DEF CallInv, InHand
<1> QED BY <1>3, <1>5, <1>6, <1>7, <1>8, <1>9, <1>10 DEF CallInv

\* A call that decides its hold, or finds it decided, is over.
LEMMA CallsByClosing ==
  ASSUME LedgerTypeOK, CallInv, NEW c \in Calls, NEW stage,
         call[c].at \in WorkStages, call[c].outcome \in {"ok", "error"},
         MoveTo(c, stage, call[c].outcome),
         call[c].outcome = "ok" => stage \in {"served", "failed"},
         call[c].outcome = "error" => stage \in {"refused", "failed"},
         NEW h \in HoldRow,
         \/ /\ hold[call[c].request].state = "open"
            /\ hold' = [hold EXCEPT ![call[c].request] = h]
            /\ h.state = IF call[c].outcome = "ok" THEN "captured"
                         ELSE "released"
            /\ closedBy' = [closedBy EXCEPT ![call[c].request] = "proxy"]
         \/ /\ hold[call[c].request].state # "open"
            /\ UNCHANGED <<hold, closedBy>>
  PROVE  CallInv'
<1> DEFINE r == call[c].request
           out == call[c].outcome
<1>1. /\ call'[c] = [at |-> stage, request |-> r, outcome |-> out]
      /\ \A d \in Calls \ {c} : call'[d] = call[d]
  BY DEF MoveTo, CallInv, CallTypeOK
<1>2. /\ call'[c].at = stage /\ call'[c].request = r /\ call'[c].outcome = out
      /\ \A d \in Calls : /\ call'[d].request = call[d].request
                          /\ call'[d].outcome = call[d].outcome
  BY <1>1
<1>3. r \in Requests /\ HasHold(c)
  BY DEF CallInv, RequestInv, HasHold, CallTypeOK
<1>4. stage \in {"served", "failed", "refused"}
  OBVIOUS
<1>5. /\ \A q \in Requests \ {r} : /\ hold'[q] = hold[q]
                                   /\ closedBy'[q] = closedBy[q]
      /\ \/ /\ hold[r].state = "open"
            /\ hold'[r].state = IF out = "ok" THEN "captured" ELSE "released"
            /\ closedBy'[r] = "proxy"
         \/ /\ hold[r].state # "open"
            /\ hold' = hold /\ closedBy' = closedBy
  BY <1>3 DEF CallInv, CallTypeOK, LedgerTypeOK
<1>6. CallTypeOK'
  BY <1>1, <1>3, <1>4 DEF CallInv, CallTypeOK, MoveTo, Stages
<1>7. \A d \in Calls : HasHold(d) => call[d].request \in Requests
  BY DEF CallInv, CallTypeOK, HasHold
<1>8. \A d \in Calls : d # c /\ HasHold(d) => call[d].request # r
  BY DEF CallInv, OneUpstreamCallPerKey
<1> HIDE DEF r, out
<1>9. RequestInv'
  <2>1. ASSUME NEW d \in Calls PROVE (HasHold(d) =>
                 hold[call[d].request].state # "absent")'
    BY <1>2, <1>5, <1>7 DEF CallInv, RequestInv, HasHold
  <2>2. out # "error" => stage # "refused"
    BY <1>2 DEF out
  <2>3. /\ stage = "served" => out = "ok"
        /\ stage \notin {"new", "reserved"}
    BY DEF out
  <2>4. HasHold(c)'
    BY <1>2, <1>3 DEF HasHold
  <2> QED BY <1>1, <1>2, <1>4, <2>1, <2>3, <2>4
             DEF CallInv, RequestInv, HasHold, WorkStages, LostStages
<1>10. ClosedInv'
  <2> SUFFICES ASSUME NEW q \in Requests
      PROVE /\ hold'[q].state \in {"captured", "released"}
                 => closedBy'[q] # "nobody"
            /\ hold'[q].state = "released" /\ closedBy'[q] = "proxy" =>
                 \E d \in Calls : call'[d].request = q
                                  /\ call'[d].outcome = "error"
    BY DEF ClosedInv
  <2>1. CASE hold'[q] = hold[q] /\ closedBy'[q] = closedBy[q]
    BY <1>2, <2>1 DEF CallInv, ClosedInv
  <2>2. CASE q = r /\ closedBy'[q] = "proxy"
             /\ hold'[q].state = IF out = "ok" THEN "captured" ELSE "released"
    <3>1. out \in {"ok", "error"}
      BY DEF out
    <3> QED BY <1>2, <2>2, <3>1
  <2> QED BY <1>5, <2>1, <2>2
<1>11. OneUpstreamCallPerKey'
  BY <1>2 DEF CallInv, OneUpstreamCallPerKey, HasHold
<1>12. ServiceIsCharged'
  <2>1. ASSUME NEW d \in Calls, call'[d].outcome = "ok",
               call'[d].at \in {"served", "failed"}
        PROVE  \/ hold'[call'[d].request].state = "captured"
               \/ closedBy'[call'[d].request] = "operator"
    <3>1. CASE d # c
      <4>1. call'[d] = call[d] /\ HasHold(d) /\ call[d].request # r
        BY <1>1, <1>8, <2>1, <3>1 DEF CallInv, RequestInv
      <4>2. /\ hold'[call[d].request] = hold[call[d].request]
            /\ closedBy'[call[d].request] = closedBy[call[d].request]
        BY <1>5, <1>7, <4>1
      <4> QED BY <2>1, <4>1, <4>2 DEF CallInv, ServiceIsCharged
    <3>2. CASE d = c
      <4>1. out = "ok"
        BY <1>2, <2>1, <3>2
      <4>2. CASE hold[r].state = "open"
        BY <1>2, <1>5, <3>2, <4>1, <4>2
      <4>3. CASE hold[r].state # "open"
        <5>1. hold[r].state # "absent"
          BY <1>3 DEF CallInv, RequestInv, r
        <5>2. hold[r].state \in {"captured", "released"}
          BY <1>3, <4>3, <5>1 DEF LedgerTypeOK, HoldRow, HoldStates
        <5>3. closedBy[r] \in {"proxy", "operator"}
          BY <1>3, <5>2 DEF CallInv, CallTypeOK, ClosedInv
        <5>4. CASE hold[r].state = "released" /\ closedBy[r] = "proxy"
          <6>1. PICK e \in Calls : call[e].request = r
                                   /\ call[e].outcome = "error"
            BY <1>3, <5>4 DEF CallInv, ClosedInv
          <6>2. e = c
            BY <1>3, <1>8, <6>1 DEF HasHold, r
          <6> QED BY <4>1, <6>1, <6>2 DEF out
        <5> QED BY <1>2, <1>5, <3>2, <4>3, <5>2, <5>3, <5>4
      <4> QED BY <4>2, <4>3
    <3> QED BY <3>1, <3>2
  <2>2. ASSUME NEW q \in Requests, hold'[q].state = "captured",
               closedBy'[q] = "proxy"
        PROVE  \E d \in Calls : call'[d].request = q
                                /\ call'[d].outcome = "ok"
    <3>1. CASE hold'[q] = hold[q] /\ closedBy'[q] = closedBy[q]
      BY <1>2, <2>2, <3>1 DEF CallInv, ServiceIsCharged
    <3>2. CASE q = r
               /\ hold'[q].state = IF out = "ok" THEN "captured"
                                   ELSE "released"
      BY <1>2, <2>2, <3>2
    <3> QED BY <1>5, <3>1, <3>2
  <2> QED BY <2>1, <2>2 DEF ServiceIsCharged
<1>13. Explained'
  <2> SUFFICES ASSUME NEW q \in Requests, hold'[q].state = "open"
      PROVE  \E d \in Calls : /\ call'[d].request = q
                              /\ call'[d].at \in WorkStages \cup LostStages
    BY DEF Explained
  <2>1. q # r /\ hold'[q] = hold[q]
    BY <1>5
  <2>2. PICK d \in Calls : /\ call[d].request = q
                           /\ call[d].at \in WorkStages \cup LostStages
    BY <2>1 DEF CallInv, Explained
  <2>3. d # c
    BY <2>1, <2>2 DEF r
  <2> QED BY <1>1, <2>2, <2>3
<1>14. InHand'
  <2> SUFFICES ASSUME NEW d \in Calls,
                      call'[d].at \in WorkStages \cup LostStages
      PROVE  \/ hold'[call'[d].request].state = "open"
             \/ closedBy'[call'[d].request] = "operator"
    BY DEF InHand
  <2>1. d # c
    BY <1>2, <1>4 DEF WorkStages, LostStages
  <2>2. call'[d] = call[d] /\ HasHold(d) /\ call[d].request # r
    BY <1>1, <1>8, <2>1 DEF CallInv, RequestInv
  <2>3. /\ hold'[call[d].request] = hold[call[d].request]
        /\ closedBy'[call[d].request] = closedBy[call[d].request]
    BY <1>5, <1>7, <2>2
  <2> QED BY <2>2, <2>3 DEF CallInv, InHand
<1> QED BY <1>6, <1>9, <1>10, <1>11, <1>12, <1>13, <1>14 DEF CallInv

\* A call that reserves is the first one of its key.
LEMMA CallsByReserve ==
  ASSUME LedgerTypeOK, CallInv, NEW c \in Calls, NEW r \in Requests,
         NEW price \in Prices, Reserve(c, r, price)
  PROVE  CallInv'
<1> USE PrepaidAssumption
<1>1. /\ call[c].at = "new" /\ UNCHANGED closedBy
      /\ call[c].outcome = "none" /\ call[c].request = None
      /\ \A d \in Calls : HasHold(d) => call[d].request \in Requests
  BY DEF Reserve, CallInv, CallTypeOK, RequestInv, HasHold
<1>2. CASE /\ OpenHold(r, price)
           /\ call' = [call EXCEPT ![c] =
                [at |-> "reserved", request |-> r, outcome |-> "none"]]
  <2>1. /\ call'[c] = [at |-> "reserved", request |-> r, outcome |-> "none"]
        /\ call' \in [Calls -> [at : Stages,
              request : Requests \cup {None},
              outcome : {"none", "ok", "error"}]]
        /\ \A d \in Calls \ {c} : call'[d] = call[d]
    BY <1>2 DEF CallInv, CallTypeOK, Stages
  <2>2. /\ hold[r].state = "absent" /\ hold'[r].state = "open"
        /\ \A q \in Requests \ {r} : hold'[q] = hold[q]
    BY <1>2 DEF OpenHold, LedgerTypeOK
  <2>3. \A d \in Calls : call[d].request # r
    BY <2>2 DEF CallInv, RequestInv, HasHold
  <2>4. CallTypeOK'
    BY <1>1, <2>1 DEF CallInv, CallTypeOK
  <2>5. RequestInv'
    <3>1. \A d \in Calls \ {c} :
            HasHold(d) => hold'[call[d].request] = hold[call[d].request]
      BY <1>1, <2>2, <2>3
    <3>2. call'[c].at = "reserved" /\ call'[c].request = r
          /\ call'[c].outcome = "none" /\ r # None
      BY <2>1
    <3> QED BY <2>1, <2>2, <3>1, <3>2
               DEF CallInv, RequestInv, HasHold, WorkStages, LostStages
  <2>6. ClosedInv'
    BY <1>1, <2>1, <2>2 DEF CallInv, ClosedInv
  <2>7. OneUpstreamCallPerKey'
    BY <2>1, <2>3 DEF CallInv, OneUpstreamCallPerKey, HasHold
  <2>8. ServiceIsCharged'
    <3>1. \A d \in Calls :
            call[d].outcome = "ok" /\ call[d].at \in {"served", "failed"}
              => HasHold(d)
      BY DEF CallInv, RequestInv
    <3> QED BY <1>1, <2>1, <2>2, <2>3, <3>1 DEF CallInv, ServiceIsCharged
  <2>9. Explained'
    <3>1. call'[c].at = "reserved" /\ call'[c].request = r
      BY <2>1
    <3>2. ASSUME NEW q \in Requests \ {r}, hold'[q].state = "open"
          PROVE  \E d \in Calls : /\ call'[d].request = q
                                  /\ call'[d].at \in
                                       WorkStages \cup LostStages
      <4>1. hold[q].state = "open"
        BY <2>2, <3>2
      <4>2. PICK d \in Calls : /\ call[d].request = q
                               /\ call[d].at \in WorkStages \cup LostStages
        BY <4>1 DEF CallInv, Explained
      <4>3. d # c
        BY <1>1, <4>2
      <4> QED BY <2>1, <4>2, <4>3
    <3> QED BY <3>1, <3>2 DEF Explained, WorkStages
  <2>10. InHand'
    <3> SUFFICES ASSUME NEW d \in Calls,
                        call'[d].at \in WorkStages \cup LostStages
        PROVE  \/ hold'[call'[d].request].state = "open"
               \/ closedBy'[call'[d].request] = "operator"
      BY DEF InHand
    <3>1. CASE d = c
      BY <2>1, <2>2, <3>1
    <3>2. CASE d # c
      <4>1. call'[d] = call[d] /\ HasHold(d) /\ call[d].request # r
        BY <2>1, <2>3, <3>2 DEF CallInv, RequestInv
      <4>2. hold'[call[d].request] = hold[call[d].request]
        BY <1>1, <2>2, <4>1
      <4> QED BY <1>1, <4>1, <4>2 DEF CallInv, InHand
    <3> QED BY <3>1, <3>2
  <2> QED BY <2>4, <2>5, <2>6, <2>7, <2>8, <2>9, <2>10 DEF CallInv
<1>3. CASE UNCHANGED hold /\ MoveTo(c, "refused", call[c].outcome)
  <2>1. /\ call'[c] = [at |-> "refused", request |-> None, outcome |-> "none"]
        /\ \A d \in Calls \ {c} : call'[d] = call[d]
    BY <1>1, <1>3 DEF MoveTo, CallInv, CallTypeOK
  <2>2. \A d \in Calls : call'[d].request = call[d].request
                         /\ call'[d].outcome = call[d].outcome
    BY <1>1, <2>1
  <2>3. CallTypeOK'
    BY <1>1, <1>3 DEF MoveTo, CallInv, CallTypeOK, Stages
  <2>4. RequestInv'
    BY <1>3, <2>1 DEF CallInv, RequestInv, HasHold, WorkStages, LostStages
  <2>5. ClosedInv'
    BY <1>1, <1>3, <2>2 DEF CallInv, ClosedInv
  <2>6. OneUpstreamCallPerKey'
    BY <2>2 DEF CallInv, OneUpstreamCallPerKey, HasHold
  <2>7. ServiceIsCharged'
    BY <1>1, <1>3, <2>1, <2>2 DEF CallInv, ServiceIsCharged
  <2>8. Explained'
    BY <1>1, <1>3, <2>1 DEF CallInv, Explained, WorkStages, LostStages
  <2>9. InHand'
    BY <1>1, <1>3, <2>1 DEF CallInv, InHand, WorkStages, LostStages
  <2> QED BY <2>3, <2>4, <2>5, <2>6, <2>7, <2>8, <2>9 DEF CallInv
<1> QED BY <1>2, <1>3 DEF Reserve

\* The capture of a call, by its measure or because its stream broke.
LEMMA CallsByCapture ==
  ASSUME LedgerTypeOK, CallInv, NEW c \in Calls,
         NEW m \in Measures \cup {Unknown}, Capture(c, m),
         call[c].at \in WorkStages, call[c].outcome = "ok"
  PROVE  CallInv'
<1> USE PrepaidAssumption
<1> DEFINE r == call[c].request
           amount == CapCharge(m, hold[r].reserved)
           h == [state |-> "captured", reserved |-> hold[r].reserved,
                 captured |-> amount]
<1>1. r \in Requests /\ hold[r] \in HoldRow
  BY DEF CallInv, RequestInv, HasHold, CallTypeOK, LedgerTypeOK
<1>2. h \in HoldRow /\ h.state = "captured"
  <2>1. amount \in Nat
    BY <1>1 DEF CapCharge, HoldRow
  <2> QED BY <1>1, <2>1 DEF HoldRow, HoldStates
<1>3. CASE /\ CaptureHold(r, amount, "proxy")
           /\ MoveTo(c, "served", "ok")
  <2>1. /\ hold[r].state = "open" /\ hold' = [hold EXCEPT ![r] = h]
        /\ closedBy' = [closedBy EXCEPT ![r] = "proxy"]
    BY <1>3 DEF CaptureHold
  <2> HIDE DEF h, amount
  <2> QED BY <1>2, <1>3, <2>1, CallsByClosing
<1>4. ASSUME hold[r].state # "open", UNCHANGED <<hold, closedBy>>,
             NEW stage \in {"served", "failed"}, MoveTo(c, stage, "ok")
      PROVE  CallInv'
  <2> HIDE DEF h, amount
  <2> QED BY <1>2, <1>4, CallsByClosing
<1> QED BY <1>3, <1>4 DEF Capture

\* Every step of a metered call keeps what is known of the calls.
LEMMA CallsByCall ==
  ASSUME LedgerTypeOK, CallInv, NEW c \in Calls, CallStep(c)
  PROVE  CallInv'
<1> USE PrepaidAssumption
<1>1. ASSUME NEW r \in Requests, NEW price \in Prices, Reserve(c, r, price)
      PROVE  CallInv'
  BY <1>1, CallsByReserve
<1>2. ASSUME NEW stage, NEW outcome, Answer(c, outcome, stage),
             \/ stage = "answered" /\ outcome = "error"
             \/ stage \in {"answered", "streaming"} /\ outcome = "ok"
      PROVE  CallInv'
  <2>1. /\ call[c].at = "reserved" /\ call[c].outcome = "none"
        /\ MoveTo(c, stage, outcome) /\ UNCHANGED <<hold, closedBy>>
    BY <1>2 DEF Answer, CallInv, RequestInv, rows
  <2>2. /\ stage \in WorkStages \cup LostStages /\ stage # "reserved"
        /\ call[c].at \in WorkStages
        /\ outcome \in {"none", "ok", "error"}
        /\ stage \in {"streaming", "finishing"} => outcome = "ok"
    BY <1>2, <2>1 DEF WorkStages
  <2> QED BY <2>1, <2>2, CallsByMove
<1>3. CASE UpstreamFails(c) \/ UpstreamAnswers(c) \/ UpstreamStreams(c)
  <2>1. CASE Answer(c, "error", "answered")
    BY <1>2, <2>1
  <2>2. CASE Answer(c, "ok", "answered")
    BY <1>2, <2>2
  <2>3. CASE Answer(c, "ok", "streaming")
    BY <1>2, <2>3
  <2> QED BY <1>3, <2>1, <2>2, <2>3
             DEF UpstreamFails, UpstreamAnswers, UpstreamStreams
<1>4. CASE ProxyReleases(c)
  <2> DEFINE r == call[c].request
             h == [hold[r] EXCEPT !.state = "released"]
             s == IF hold[r].state = "captured" THEN "failed" ELSE "refused"
  <2>1. /\ call[c].at \in WorkStages /\ call[c].outcome = "error"
        /\ MoveTo(c, s, call[c].outcome)
        /\ r \in Requests /\ hold[r] \in HoldRow
    BY <1>4 DEF ProxyReleases, CallInv, RequestInv, HasHold, CallTypeOK,
         LedgerTypeOK, WorkStages
  <2>2. /\ h \in HoldRow /\ h.state = "released"
        /\ s \in {"refused", "failed"}
    BY <2>1 DEF HoldRow, HoldStates
  <2>3. CASE ReleaseHold(r, "proxy")
    <3>1. /\ hold[r].state = "open" /\ hold' = [hold EXCEPT ![r] = h]
          /\ closedBy' = [closedBy EXCEPT ![r] = "proxy"]
      BY <2>1, <2>3 DEF ReleaseHold, LedgerTypeOK
    <3> HIDE DEF h, s
    <3> QED BY <2>1, <2>2, <3>1, CallsByClosing
  <2>4. CASE hold[r].state # "open" /\ UNCHANGED <<balance, hold, closedBy>>
    <3> HIDE DEF h, s
    <3> QED BY <2>1, <2>2, <2>4, CallsByClosing
  <2> QED BY <1>4, <2>3, <2>4 DEF ProxyReleases
<1>5. ASSUME NEW m \in Measures \cup {Unknown},
             ProxyCaptures(c, m) \/ StreamFinalizes(c, m)
      PROVE  CallInv'
  <2>1. call[c].at \in WorkStages /\ call[c].outcome = "ok" /\ Capture(c, m)
    BY <1>5 DEF ProxyCaptures, StreamFinalizes, CallInv, RequestInv,
         WorkStages
  <2> QED BY <2>1, CallsByCapture
<1>6. CASE StreamAborts(c)
  <2>1. call[c].at \in WorkStages /\ call[c].outcome = "ok"
        /\ Capture(c, Unknown)
    BY <1>6 DEF StreamAborts, CallInv, RequestInv, WorkStages
  <2> QED BY <2>1, CallsByCapture
<1>7. CASE StreamEnds(c)
  <2>1. /\ call[c].at = "streaming" /\ call[c].outcome = "ok"
        /\ MoveTo(c, "finishing", call[c].outcome)
    BY <1>7 DEF StreamEnds, CallInv, RequestInv
  <2> QED BY <1>7, <2>1, CallsByMove
          DEF StreamEnds, WorkStages, LostStages, rows
<1>8. CASE Crash(c)
  <2>1. /\ call[c].at \in WorkStages
        /\ call[c].outcome \in {"none", "ok", "error"}
        /\ MoveTo(c, "crashed", call[c].outcome)
    BY <1>8 DEF Crash, CallInv, CallTypeOK, WorkStages
  <2> QED BY <1>8, <2>1, CallsByMove DEF Crash, WorkStages, LostStages, rows
<1>9. CASE ProxyThrows(c) \/ \E m \in Measures \cup {Unknown} :
                               CapChargeThrows(c, m)
  <2>1. /\ call[c].at \in WorkStages
        /\ call[c].outcome \in {"none", "ok", "error"}
        /\ MoveTo(c, "thrown", call[c].outcome)
        /\ UNCHANGED <<hold, closedBy>>
    BY <1>9 DEF ProxyThrows, CapChargeThrows, CallInv, CallTypeOK, WorkStages,
         rows
  <2> QED BY <2>1, CallsByMove DEF WorkStages, LostStages
<1> QED BY <1>1, <1>3, <1>4, <1>5, <1>6, <1>7, <1>8, <1>9 DEF CallStep

-----------------------------------------------------------------------------
(* The theorems.                                                           *)

PrepaidInv == BooksInv /\ CallInv

\* PrepaidInv holds at the start and every step keeps it.
THEOREM PrepaidInductive == Spec => []PrepaidInv
<1> USE PrepaidAssumption
<1>1. Init => PrepaidInv
  <2> SUFFICES ASSUME Init PROVE PrepaidInv
    OBVIOUS
  <2>1. LedgerTypeOK
    BY DEF Init, LedgerTypeOK, HoldRow, HoldStates
  <2>2. ChargedOnCapture
    BY DEF Init, ChargedOnCapture
  <2>3. /\ \A a \in Accounts : /\ \A r \in Requests : OpenAmount(a)[r] = 0
                                                   /\ ChargeAmount(a)[r] = 0
                               /\ \A t \in TopUps : TopUpAmount(a)[t] = 0
                               /\ \A x \in Refunds : RefundAmount(a)[x] = 0
        /\ \A r \in Requests : \A x \in Refunds : RefundOf(r)[x] = 0
    BY DEF Init, OpenAmount, ChargeAmount, TopUpAmount, RefundAmount, RefundOf
  <2>4. /\ \A a \in Accounts :
             /\ IsFiniteSet(Units(OpenAmount(a))) /\ Total(OpenAmount(a)) = 0
             /\ IsFiniteSet(Units(ChargeAmount(a)))
             /\ Total(ChargeAmount(a)) = 0
             /\ IsFiniteSet(Units(TopUpAmount(a)))
             /\ Total(TopUpAmount(a)) = 0
             /\ IsFiniteSet(Units(RefundAmount(a)))
             /\ Total(RefundAmount(a)) = 0
        /\ \A r \in Requests :
             IsFiniteSet(Units(RefundOf(r))) /\ Total(RefundOf(r)) = 0
    <3>1. ASSUME NEW a \in Accounts
          PROVE  /\ IsFiniteSet(Units(OpenAmount(a)))
                 /\ Total(OpenAmount(a)) = 0
                 /\ IsFiniteSet(Units(ChargeAmount(a)))
                 /\ Total(ChargeAmount(a)) = 0
                 /\ IsFiniteSet(Units(TopUpAmount(a)))
                 /\ Total(TopUpAmount(a)) = 0
                 /\ IsFiniteSet(Units(RefundAmount(a)))
                 /\ Total(RefundAmount(a)) = 0
      <4>1. IsFiniteSet(Units(OpenAmount(a))) /\ Total(OpenAmount(a)) = 0
        <5>1. OpenAmount(a) \in [Requests -> Nat]
          BY <2>1, AmountTypes
        <5>2. \A y \in Requests : OpenAmount(a)[y] = 0
          BY <2>3
        <5> QED BY <5>1, <5>2, TotalOfNothing
      <4>2. IsFiniteSet(Units(ChargeAmount(a))) /\ Total(ChargeAmount(a)) = 0
        <5>1. ChargeAmount(a) \in [Requests -> Nat]
          BY <2>1, AmountTypes
        <5>2. \A y \in Requests : ChargeAmount(a)[y] = 0
          BY <2>3
        <5> QED BY <5>1, <5>2, TotalOfNothing
      <4>3. IsFiniteSet(Units(TopUpAmount(a))) /\ Total(TopUpAmount(a)) = 0
        <5>1. TopUpAmount(a) \in [TopUps -> Nat]
          BY <2>1, AmountTypes
        <5>2. \A y \in TopUps : TopUpAmount(a)[y] = 0
          BY <2>3
        <5> QED BY <5>1, <5>2, TotalOfNothing
      <4>4. IsFiniteSet(Units(RefundAmount(a))) /\ Total(RefundAmount(a)) = 0
        <5>1. RefundAmount(a) \in [Refunds -> Nat]
          BY <2>1, AmountTypes
        <5>2. \A y \in Refunds : RefundAmount(a)[y] = 0
          BY <2>3
        <5> QED BY <5>1, <5>2, TotalOfNothing
      <4> QED BY <4>1, <4>2, <4>3, <4>4
    <3>2. ASSUME NEW r \in Requests
          PROVE  IsFiniteSet(Units(RefundOf(r))) /\ Total(RefundOf(r)) = 0
      <4>1. RefundOf(r) \in [Refunds -> Nat]
        BY <2>1, AmountTypes
      <4>2. \A y \in Refunds : RefundOf(r)[y] = 0
        BY <2>3
      <4> QED BY <4>1, <4>2, TotalOfNothing
    <3> QED BY <3>1, <3>2
  <2>5. Finite /\ BooksBalance
    BY <2>4 DEF Init, Finite, BooksBalance
  <2>6. CallInv
    BY DEF Init, CallInv, CallTypeOK, RequestInv, ClosedInv, HasHold, Stages,
         WorkStages, LostStages, OneUpstreamCallPerKey, ServiceIsCharged,
         Explained, InHand
  <2> QED BY <2>1, <2>2, <2>5, <2>6 DEF PrepaidInv, BooksInv
<1>2. PrepaidInv /\ [Next]_vars => PrepaidInv'
  <2> SUFFICES ASSUME PrepaidInv, [Next]_vars PROVE PrepaidInv'
    OBVIOUS
  <2>1. BooksInv'
    BY BooksStep DEF PrepaidInv, CallInv
  <2>2. LedgerTypeOK /\ CallInv
    BY DEF PrepaidInv, BooksInv
  <2>3. CASE LedgerStep
    BY <2>1, <2>2, <2>3, CallsByLedger DEF PrepaidInv
  <2>4. ASSUME NEW c \in Calls, CallStep(c) PROVE PrepaidInv'
    BY <2>1, <2>2, <2>4, CallsByCall DEF PrepaidInv
  <2>5. CASE UNCHANGED vars
    <3>1. CallInv'
      BY <2>2, <2>5 DEF vars, rows, balance, CallInv, CallTypeOK, RequestInv,
           ClosedInv, HasHold, OneUpstreamCallPerKey, ServiceIsCharged,
           Explained, InHand
    <3> QED BY <2>1, <3>1 DEF PrepaidInv
  <2> QED BY <2>3, <2>4, <2>5 DEF Next
<1> QED BY <1>1, <1>2, PTL DEF Spec

\* No balance goes below zero and every row keeps its type.
THEOREM PrepaidTypeCorrect == Spec => []TypeOK
<1>1. PrepaidInv => TypeOK
  BY DEF PrepaidInv, BooksInv, CallInv, TypeOK
<1> QED BY <1>1, PrepaidInductive, PTL

\* The running totals of every account are what its rows add up to, and no
\* charge is refunded beyond its amount.
THEOREM BooksAlwaysBalance == Spec => []BooksBalance
<1>1. PrepaidInv => BooksBalance
  BY DEF PrepaidInv, BooksInv
<1> QED BY <1>1, PrepaidInductive, PTL

\* Duplicates, retries, crashes and operators included, one Idempotency-Key
\* reaches the upstream at most once.
THEOREM UpstreamOncePerKey == Spec => []OneUpstreamCallPerKey
<1>1. PrepaidInv => OneUpstreamCallPerKey
  BY DEF PrepaidInv, CallInv
<1> QED BY <1>1, PrepaidInductive, PTL

\* Unless the operator decided, an answer is charged and a charge answered.
THEOREM ChargeForService == Spec => []ServiceIsCharged
<1>1. PrepaidInv => ServiceIsCharged
  BY DEF PrepaidInv, CallInv
<1> QED BY <1>1, PrepaidInductive, PTL

\* A hold stays open only for a call that is under way, died or threw, and
\* of the last two the operator alone closes it.
THEOREM OpenHoldsExplained == Spec => []OpenHoldIsExplained
<1>1. PrepaidInv => OpenHoldIsExplained
  BY DEF PrepaidInv, CallInv, OpenHoldIsExplained, Explained, InHand,
     WorkStages, LostStages
<1> QED BY <1>1, PrepaidInductive, PTL
=============================================================================
