------------------------------ MODULE Prepaid ------------------------------
(***************************************************************************)
(* The prepaid ledger of SqliteInvoiceStore and the metered proxy that     *)
(* spends from it: a request reserves its worst price, calls the upstream  *)
(* and then captures what was used or releases the hold.                   *)
(*                                                                         *)
(* Every statement of the ledger is one SQLite transaction, so it is one   *)
(* step here; between two of them a proxied call awaits the upstream, and  *)
(* other calls, a retry under the same Idempotency-Key, a crash and the    *)
(* operator's resolveHold may come in.                                     *)
(*                                                                         *)
(* Rows are kept under the reference the code makes unique: a top-up and a *)
(* request reference is a hash of the account and its Idempotency-Key, so  *)
(* it has one account.  A replay of a stored row writes nothing and is no  *)
(* step.  Checks of text, of the allow-list and of sizes only refuse.      *)
(***************************************************************************)
EXTENDS Integers, FiniteSets

CONSTANTS
  Accounts,        \* wallet addresses
  TopUps,          \* references of credits
  Requests,        \* references of holds
  Refunds,         \* references of refunds
  Invoices,        \* relatedReference of a credit
  TopUpAccount,    \* the account of each top-up reference
  RequestAccount,  \* the account of each request reference
  Calls,           \* calls of meteredProxy, retries included
  Worths,          \* amounts of top-ups and refunds
  Prices,          \* amounts an adapter quotes
  Measures,        \* what an adapter measures, or Unknown
  Unknown,         \* a measure that failed, or none configured
  None

ASSUME PrepaidAssumption ==
  /\ TopUpAccount \in [TopUps -> Accounts]
  /\ RequestAccount \in [Requests -> Accounts]
  /\ Worths \subseteq Nat \ {0}
  /\ Prices \subseteq Nat \ {0}
  /\ Measures \subseteq Nat
  /\ Unknown \notin Nat
  /\ None \notin Requests
  /\ None \notin Invoices

VARIABLES
  available,  \* per account: prepaid_accounts.available_atomic
  reserved,   \* per account: prepaid_accounts.reserved_atomic
  topUp,      \* per reference: the TOP_UP row, amount 0 without one
  hold,       \* per reference: the prepaid_holds row and its CHARGE row
  refund,     \* per reference: the REFUND row, amount 0 without one
  call,       \* per call: how far it is
  closedBy    \* history: who closed the hold of a request

balance == <<available, reserved>>
rows    == <<topUp, hold, refund>>
vars    == <<balance, rows, call, closedBy>>

HoldStates == {"absent", "open", "captured", "released"}
Stages == {"new", "reserved", "answered", "streaming", "finishing",
           "served", "refused", "failed", "crashed", "thrown"}

HoldRow == [state : HoldStates, reserved : Nat, captured : Nat]

\* An amount stands for that many atomic units; a total counts the units of
\* every row of f.
Units(f) == UNION {{x} \X (1 .. f[x]) : x \in DOMAIN f}
Total(f) == Cardinality(Units(f))

OpenAmount(a) ==
  [r \in Requests |-> IF hold[r].state = "open" /\ RequestAccount[r] = a
                      THEN hold[r].reserved ELSE 0]
ChargeAmount(a) ==
  [r \in Requests |-> IF RequestAccount[r] = a THEN hold[r].captured ELSE 0]
TopUpAmount(a) ==
  [t \in TopUps |-> IF TopUpAccount[t] = a THEN topUp[t].amount ELSE 0]
RefundAmount(a) ==
  [x \in Refunds |-> IF /\ refund[x].charge \in Requests
                        /\ RequestAccount[refund[x].charge] = a
                     THEN refund[x].amount ELSE 0]
RefundOf(r) ==
  [x \in Refunds |-> IF refund[x].charge = r THEN refund[x].amount ELSE 0]

-----------------------------------------------------------------------------
(* The statements of the store.                                            *)

\* An invoice may back one top-up only, whatever the reference.
CreditPrepaid(t, i, amount) ==
  /\ topUp[t].amount = 0
  /\ \A u \in TopUps : topUp[u].invoice # i
  /\ topUp' = [topUp EXCEPT ![t] = [amount |-> amount, invoice |-> i]]
  /\ available' = [available EXCEPT ![TopUpAccount[t]] = @ + amount]
  /\ UNCHANGED <<reserved, hold, refund, call, closedBy>>

\* Faulty variant: the balance is not looked at.
OpenHoldUncovered(r, amount) ==
  LET a == RequestAccount[r] IN
  /\ hold[r].state = "absent"
  /\ available' = [available EXCEPT ![a] = @ - amount]
  /\ reserved' = [reserved EXCEPT ![a] = @ + amount]
  /\ hold' = [hold EXCEPT
       ![r] = [state |-> "open", reserved |-> amount, captured |-> 0]]

OpenHold(r, amount) ==
  LET a == RequestAccount[r] IN
  /\ hold[r].state = "absent"
  /\ available[a] >= amount
  /\ available' = [available EXCEPT ![a] = @ - amount]
  /\ reserved' = [reserved EXCEPT ![a] = @ + amount]
  /\ hold' = [hold EXCEPT
       ![r] = [state |-> "open", reserved |-> amount, captured |-> 0]]

\* Faulty variant: only the charge leaves the reserve, the rest stays in it.
CaptureHoldKeepingRest(r, amount, who) ==
  LET a == RequestAccount[r] IN
  /\ hold[r].state = "open"
  /\ amount <= hold[r].reserved
  /\ available' = available
  /\ reserved' = [reserved EXCEPT ![a] = @ - amount]
  /\ hold' = [hold EXCEPT
       ![r] = [state |-> "captured", reserved |-> hold[r].reserved,
               captured |-> amount]]
  /\ closedBy' = [closedBy EXCEPT ![r] = who]

CaptureHold(r, amount, who) ==
  LET a == RequestAccount[r] IN
  /\ hold[r].state = "open"
  /\ amount <= hold[r].reserved
  /\ available' = [available EXCEPT ![a] = @ + hold[r].reserved - amount]
  /\ reserved' = [reserved EXCEPT ![a] = @ - hold[r].reserved]
  /\ hold' = [hold EXCEPT
       ![r] = [state |-> "captured", reserved |-> hold[r].reserved,
               captured |-> amount]]
  /\ closedBy' = [closedBy EXCEPT ![r] = who]

ReleaseHold(r, who) ==
  LET a == RequestAccount[r] IN
  /\ hold[r].state = "open"
  /\ available' = [available EXCEPT ![a] = @ + hold[r].reserved]
  /\ reserved' = [reserved EXCEPT ![a] = @ - hold[r].reserved]
  /\ hold' = [hold EXCEPT ![r] = [@ EXCEPT !.state = "released"]]
  /\ closedBy' = [closedBy EXCEPT ![r] = who]

\* A charge row exists for a capture of more than nothing.
RefundPrepaid(x, r, amount) ==
  /\ refund[x].amount = 0
  /\ hold[r].captured > 0
  /\ Total(RefundOf(r)) + amount <= hold[r].captured
  /\ refund' = [refund EXCEPT ![x] = [amount |-> amount, charge |-> r]]
  /\ available' = [available EXCEPT ![RequestAccount[r]] = @ + amount]
  /\ UNCHANGED <<reserved, topUp, hold, call, closedBy>>

\* The operator decides an open hold by hand; the hold may be a live call's.
ResolveHold(r) ==
  /\ \/ ReleaseHold(r, "operator")
     \/ \E amount \in 0 .. hold[r].reserved :
          CaptureHold(r, amount, "operator")
  /\ UNCHANGED <<topUp, refund, call>>

-----------------------------------------------------------------------------
(* One call of the proxy.                                                  *)

MoveTo(c, stage, outcome) ==
  call' = [call EXCEPT ![c] = [at |-> stage, request |-> call[c].request,
                               outcome |-> outcome]]

\* Faulty variant: an existing hold is taken for one's own.
ReserveJoining(c, r, price) ==
  /\ call[c].at = "new"
  /\ \/ /\ OpenHold(r, price)
        /\ call' = [call EXCEPT ![c] =
             [at |-> "reserved", request |-> r, outcome |-> "none"]]
     \/ /\ hold[r].state = "open" /\ hold[r].reserved = price
        /\ call' = [call EXCEPT ![c] =
             [at |-> "reserved", request |-> r, outcome |-> "none"]]
        /\ UNCHANGED <<balance, hold>>
  /\ UNCHANGED <<topUp, refund, closedBy>>

\* reservePrepaid and the answers that follow at once: 402 when the balance
\* is short, 409 when the reference was used before, whatever its price.
Reserve(c, r, price) ==
  /\ call[c].at = "new"
  /\ \/ /\ OpenHold(r, price)
        /\ call' = [call EXCEPT ![c] =
             [at |-> "reserved", request |-> r, outcome |-> "none"]]
     \/ /\ \/ hold[r].state # "absent"
           \/ available[RequestAccount[r]] < price
        /\ MoveTo(c, "refused", call[c].outcome)
        /\ UNCHANGED <<balance, hold>>
  /\ UNCHANGED <<topUp, refund, closedBy>>

Answer(c, outcome, stage) ==
  /\ call[c].at = "reserved"
  /\ MoveTo(c, stage, outcome)
  /\ UNCHANGED <<balance, rows, closedBy>>

\* A bad upstream address, a header function or a fetch that throws, or a
\* status that is not ok.
UpstreamFails(c) == Answer(c, "error", "answered")

\* An answer to be measured, or a stream nothing can meter.
UpstreamAnswers(c) == Answer(c, "ok", "answered")

\* A metered stream goes to the client before anything is captured.
UpstreamStreams(c) == Answer(c, "ok", "streaming")

\* Faulty variant: a call the upstream refused is answered with its hold
\* still open.
ProxyForgetsHold(c) ==
  /\ call[c].at = "answered" /\ call[c].outcome = "error"
  /\ MoveTo(c, "refused", call[c].outcome)
  /\ UNCHANGED <<balance, rows, closedBy>>

\* The answer follows the release, which throws on a captured hold.
ProxyReleases(c) ==
  LET r == call[c].request IN
  /\ call[c].at = "answered" /\ call[c].outcome = "error"
  /\ \/ ReleaseHold(r, "proxy")
     \/ hold[r].state # "open" /\ UNCHANGED <<balance, hold, closedBy>>
  /\ MoveTo(c, IF hold[r].state = "captured" THEN "failed" ELSE "refused",
            call[c].outcome)
  /\ UNCHANGED <<topUp, refund>>

\* An unknown measure, or one over the reserve, charges the reserve.
CapCharge(measured, reservedAtomic) ==
  IF measured = Unknown \/ measured > reservedAtomic
  THEN reservedAtomic ELSE measured

\* ledger.capture as the proxy calls it: it throws when somebody else has
\* released the hold, or captured it for another amount.
Capture(c, measured) ==
  LET r == call[c].request
      amount == CapCharge(measured, hold[r].reserved)
  IN \/ /\ CaptureHold(r, amount, "proxy")
        /\ MoveTo(c, "served", "ok")
     \/ /\ hold[r].state # "open"
        /\ LET same == hold[r].state = "captured"
                         /\ hold[r].captured = amount
           IN  MoveTo(c, IF same THEN "served" ELSE "failed", "ok")
        /\ UNCHANGED <<balance, hold, closedBy>>

\* The answer is returned only after the capture.
ProxyCaptures(c, measured) ==
  /\ call[c].at = "answered" /\ call[c].outcome = "ok"
  /\ Capture(c, measured)
  /\ UNCHANGED <<topUp, refund>>

\* The last chunk was read; meter.finish() is awaited.
StreamEnds(c) ==
  /\ call[c].at = "streaming"
  /\ MoveTo(c, "finishing", call[c].outcome)
  /\ UNCHANGED <<balance, rows, closedBy>>

StreamFinalizes(c, measured) ==
  /\ call[c].at = "finishing"
  /\ Capture(c, measured)
  /\ UNCHANGED <<topUp, refund>>

\* Faulty variant: a cancelled stream gives the reserve back.
StreamAbortsFree(c) ==
  /\ call[c].at \in {"streaming", "finishing"}
  /\ ReleaseHold(call[c].request, "proxy")
  /\ MoveTo(c, "served", call[c].outcome)
  /\ UNCHANGED <<topUp, refund>>

\* Cancelled, or broken while reading: the whole reserve is charged.  The
\* first of finalize's callers decides; the other only awaits it.
StreamAborts(c) ==
  /\ call[c].at \in {"streaming", "finishing"}
  /\ Capture(c, Unknown)
  /\ UNCHANGED <<topUp, refund>>

\* The event sink throws, or the adapter's headers are no headers: nothing
\* catches it, the request is rejected and the hold stays in the store.
ProxyThrows(c) ==
  /\ call[c].at = "reserved"
  /\ MoveTo(c, "thrown", call[c].outcome)
  /\ UNCHANGED <<balance, rows, closedBy>>

\* The event sink throws on being told of a measure over the reserve, before
\* the capture.
CapChargeThrows(c, measured) ==
  /\ \/ call[c].at = "answered" /\ call[c].outcome = "ok"
     \/ call[c].at = "finishing"
  /\ measured # Unknown /\ measured > hold[call[c].request].reserved
  /\ MoveTo(c, "thrown", call[c].outcome)
  /\ UNCHANGED <<balance, rows, closedBy>>

\* The process of a call dies; the hold stays in the store.
Crash(c) ==
  /\ call[c].at \in {"reserved", "answered", "streaming", "finishing"}
  /\ MoveTo(c, "crashed", call[c].outcome)
  /\ UNCHANGED <<balance, rows, closedBy>>

-----------------------------------------------------------------------------
Init ==
  /\ available = [a \in Accounts |-> 0]
  /\ reserved = [a \in Accounts |-> 0]
  /\ topUp = [t \in TopUps |-> [amount |-> 0, invoice |-> None]]
  /\ hold = [r \in Requests |->
       [state |-> "absent", reserved |-> 0, captured |-> 0]]
  /\ refund = [x \in Refunds |-> [amount |-> 0, charge |-> None]]
  /\ call = [c \in Calls |->
       [at |-> "new", request |-> None, outcome |-> "none"]]
  /\ closedBy = [r \in Requests |-> "nobody"]

LedgerStep ==
  \/ \E t \in TopUps, i \in Invoices, amount \in Worths :
       CreditPrepaid(t, i, amount)
  \/ \E x \in Refunds, r \in Requests, amount \in Worths :
       RefundPrepaid(x, r, amount)
  \/ \E r \in Requests : ResolveHold(r)

CallStep(c) ==
  \/ \E r \in Requests, price \in Prices : Reserve(c, r, price)
  \/ UpstreamFails(c) \/ UpstreamAnswers(c) \/ UpstreamStreams(c)
  \/ ProxyReleases(c) \/ ProxyThrows(c)
  \/ \E m \in Measures \cup {Unknown} :
       ProxyCaptures(c, m) \/ StreamFinalizes(c, m) \/ CapChargeThrows(c, m)
  \/ StreamEnds(c) \/ StreamAborts(c)
  \/ Crash(c)

Next == LedgerStep \/ \E c \in Calls : CallStep(c)

Spec == Init /\ [][Next]_vars

-----------------------------------------------------------------------------
LedgerTypeOK ==
  /\ available \in [Accounts -> Nat]
  /\ reserved \in [Accounts -> Nat]
  /\ topUp \in [TopUps -> [amount : Nat, invoice : Invoices \cup {None}]]
  /\ hold \in [Requests -> HoldRow]
  /\ refund \in [Refunds -> [amount : Nat, charge : Requests \cup {None}]]

CallTypeOK ==
  /\ call \in [Calls -> [at : Stages, request : Requests \cup {None},
                         outcome : {"none", "ok", "error"}]]
  /\ closedBy \in [Requests -> {"nobody", "proxy", "operator"}]

\* The rows and balances have the values the schema and the code give them;
\* no statement takes a balance below zero.
TypeOK == LedgerTypeOK /\ CallTypeOK

\* What an account may still spend and what is held for it are exactly what
\* its rows say: reserved is the sum of the open holds; what was credited and
\* refunded is what is available, held or charged; and however refunds are
\* spread over references, a charge gives back no more than it took.  The
\* balances are running totals that five statements update, in any order.
BooksBalance ==
  /\ \A a \in Accounts :
       /\ reserved[a] = Total(OpenAmount(a))
       /\ available[a] + reserved[a] + Total(ChargeAmount(a))
            = Total(TopUpAmount(a)) + Total(RefundAmount(a))
  /\ \A r \in Requests : Total(RefundOf(r)) <= hold[r].captured

HasHold(c) == call[c].request # None

\* Under one Idempotency-Key at most one call ever passes the reservation,
\* through concurrent duplicates, crashes, operators and retries: the
\* upstream works at most once for one key.
OneUpstreamCallPerKey ==
  \A c, d \in Calls :
    c # d /\ HasHold(c) => call[c].request # call[d].request

\* Service and charge agree unless the operator decided the hold: a call that
\* came to its end with an answer of the upstream is charged, and the proxy
\* charges nobody without one.
ServiceIsCharged ==
  /\ \A c \in Calls :
       call[c].outcome = "ok" /\ call[c].at \in {"served", "failed"} =>
         \/ hold[call[c].request].state = "captured"
         \/ closedBy[call[c].request] = "operator"
  /\ \A r \in Requests :
       hold[r].state = "captured" /\ closedBy[r] = "proxy" =>
         \E c \in Calls : call[c].request = r /\ call[c].outcome = "ok"

\* What listOpenHolds shows is what the operator has to decide: an open hold
\* has a call that is under way, or one that died or threw before it closed
\* the hold; and of a call that died or threw nobody but the operator closes
\* the hold, although the key is tried again.
OpenHoldIsExplained ==
  /\ \A r \in Requests : hold[r].state = "open" =>
       \E c \in Calls :
         /\ call[c].request = r
         /\ call[c].at \in {"reserved", "answered", "streaming", "finishing",
                            "crashed", "thrown"}
  /\ \A c \in Calls : call[c].at \in {"crashed", "thrown"} =>
       \/ hold[call[c].request].state = "open"
       \/ closedBy[call[c].request] = "operator"
=============================================================================
