---------------------------- MODULE EscrowTrust ----------------------------
(***************************************************************************)
(* What an escrow box promises, with no heights, disputes, arbitrators,    *)
(* pauses or owner keys: a price is offered once, one payer who is not the *)
(* seller pays exactly that price, and the price then leaves exactly once, *)
(* either back to the payer whole or to the seller less the fee that was   *)
(* fixed with the offer.  Escrow implements this (see Escrow!Trust).       *)
(***************************************************************************)
EXTENDS Integers

CONSTANTS
  Accounts,   \* the parties
  NoOne       \* no payer yet

VARIABLES
  phase,      \* "open", "holding", "released", "returned" or "void"
  offers,     \* at most one: the seller, the price and the fee
  payer,      \* who paid, or NoOne
  position    \* per account: received minus paid

trustVars == <<phase, offers, payer, position>>

Give(p, to, amount) == [p EXCEPT ![to] = @ + amount]

Offers == {o \in [seller : Accounts, price : Nat \ {0}, fee : Nat] :
             o.fee <= o.price}

TrustInit ==
  /\ phase = "open"
  /\ offers = {}
  /\ payer = NoOne
  /\ position = [a \in Accounts |-> 0]

\* The terms, written once.
MakeOffer(o) ==
  /\ o \in Offers
  /\ offers = {}
  /\ offers' = {o}
  /\ UNCHANGED <<phase, payer, position>>

Pay(b, o) ==
  /\ phase = "open"
  /\ b # o.seller
  /\ phase' = "holding"
  /\ payer' = b
  /\ position' = Give(position, b, 0 - o.price)
  /\ UNCHANGED offers

Release(feeSink, o) ==
  /\ phase = "holding"
  /\ phase' = "released"
  /\ position' = Give(Give(position, o.seller, o.price - o.fee),
                      feeSink, o.fee)
  /\ UNCHANGED <<offers, payer>>

Return(o) ==
  /\ phase = "holding"
  /\ phase' = "returned"
  /\ position' = Give(position, payer, o.price)
  /\ UNCHANGED <<offers, payer>>

Void ==
  /\ phase = "open"
  /\ phase' = "void"
  /\ UNCHANGED <<offers, payer, position>>

TrustNext ==
  \/ \E o \in offers' : MakeOffer(o)
  \/ \E o \in offers :
       \/ \E a \in Accounts : Pay(a, o) \/ Release(a, o)
       \/ Return(o)
  \/ Void

TrustSpec == TrustInit /\ [][TrustNext]_trustVars
=============================================================================
