---------------------------- MODULE PayingAgent ----------------------------
(***************************************************************************)
(* Pay per request over the invoice rail: the agent that pays a challenge, *)
(* waits for the invoice and redeems it for a receipt, and the route guard *)
(* that opens a page against the receipt, once if configured so, within    *)
(* its usage windows.                                                      *)
(*                                                                         *)
(* One page of one price, so every call has the same key for payments in   *)
(* flight, pending payments and cached receipts, and a spending cap is a   *)
(* number of payments.  A receipt is named by its invoice, as its jti is.  *)
(* The guard verifies a receipt, awaits its engine, and only then marks    *)
(* the receipt used and books it, against a second reading of the clock;   *)
(* the answer reaches the agent later, or not.  Time is what the code      *)
(* compares: whether a challenge has expired and whether the window of a   *)
(* receipt has closed.                                                     *)
(***************************************************************************)
EXTENDS Integers, FiniteSets

CONSTANTS
  Calls,     \* payingFetch() calls of one payer
  Invoices,  \* bound: invoices that challenges open
  Caps,      \* payments the credential allows
  Windows,   \* usage windows of the route: receipts per day, amount
  Quota,     \* requests each window allows
  Modes,     \* whether receipts are single use
  None

ASSUME PayingAgentAssumption ==
  /\ None \notin Invoices /\ IsFiniteSet(Invoices)
  /\ Caps \subseteq Nat
  /\ Quota \in [Windows -> Nat]
  /\ Modes \subseteq BOOLEAN

VARIABLES
  singleUse,  \* enforceSingleUseReceipts
  cap,        \* the spending limit of the credential, in payments
  status,     \* per invoice: its status, "none" before its challenge
  lapsed,     \* invoices past expiresAt
  closed,     \* invoices past the window of their receipt
  burned,     \* used_receipt_jtis
  used,       \* per window: requests reserved in it
  call,       \* per call: how far it is
  attempt,    \* the attempt in flight, shared by the calls "obtaining"
  pending,    \* pendingPayments: paid and not redeemed
  cache,      \* receiptCache
  hold,       \* per invoice: the reservation of its payment
  sent,       \* history: invoices the wallet has paid
  redeemed,   \* history: invoices the agent got a receipt for
  runs        \* history: per invoice, runs of the handler

server  == <<status, lapsed, closed, burned, used, runs>>
agent   == <<call, attempt, pending, cache, hold, redeemed>>
config  == <<singleUse, cap>>
vars    == <<config, server, agent, sent>>

NoAttempt == [at |-> "none", invoice |-> None]
State(at, phase, token, answer, invoice) ==
  [at |-> at, phase |-> phase, token |-> token, answer |-> answer,
   invoice |-> invoice]
Idle == State("idle", "first", None, "none", None)
Ended(outcome) == State(outcome, "first", None, "none", None)

-----------------------------------------------------------------------------
(* The guard.                                                              *)

Valid(t) == t # None /\ status[t] = "completed" /\ t \notin closed

Answer(c, kind, i) ==
  call' = [call EXCEPT ![c] = State("answered", @.phase, @.token, kind, i)]

\* Rows whose receipt has expired by now are removed first.
Mark(t) == burned' = IF singleUse THEN (burned \ closed) \cup {t} ELSE burned

HasRoom(w) == used[w] < Quota[w]

\* No receipt, or one that does not verify: a challenge with a new invoice.
Challenge(c) ==
  /\ call[c].at = "asking" /\ ~Valid(call[c].token)
  /\ \E i \in Invoices :
       /\ status[i] = "none"
       /\ status' = [status EXCEPT ![i] = "open"]
       /\ Answer(c, "402", i)
  /\ UNCHANGED <<config, lapsed, closed, burned, used, runs,
                 attempt, pending, cache, hold, redeemed, sent>>

\* A receipt that verifies; the engine is awaited.
Verify(c) ==
  /\ call[c].at = "asking" /\ Valid(call[c].token)
  /\ call' = [call EXCEPT ![c] = [@ EXCEPT !.at = "verified"]]
  /\ UNCHANGED <<config, server, attempt, pending, cache, hold, redeemed,
                 sent>>

\* Faulty variant: single use is not remembered.
AdmitUnmarked(c) ==
  LET t == call[c].token IN
  /\ call[c].at = "verified"
  /\ IF \A w \in Windows : HasRoom(w)
     THEN /\ Answer(c, "200", None)
          /\ used' = [w \in Windows |-> used[w] + 1]
          /\ runs' = [runs EXCEPT ![t] = @ + 1]
     ELSE Answer(c, "429", None) /\ UNCHANGED <<used, runs>>
  /\ UNCHANGED <<config, status, lapsed, closed, burned, attempt, pending,
                 cache, hold, redeemed, sent>>

\* Faulty variant: the last request of a window is let through twice.
AdmitOverQuota(c) ==
  LET t == call[c].token IN
  /\ call[c].at = "verified"
  /\ Mark(t)
  /\ IF singleUse /\ t \in burned \ closed
     THEN Answer(c, "409", None) /\ UNCHANGED <<used, runs>>
     ELSE IF \A w \in Windows : used[w] <= Quota[w]
     THEN /\ Answer(c, "200", None)
          /\ used' = [w \in Windows |-> used[w] + 1]
          /\ runs' = [runs EXCEPT ![t] = @ + 1]
     ELSE Answer(c, "429", None) /\ UNCHANGED <<used, runs>>
  /\ UNCHANGED <<config, status, lapsed, closed, attempt, pending, cache,
                 hold, redeemed, sent>>

\* A verified receipt: marked used, then booked in every window or in none,
\* then the handler runs.
Admit(c) ==
  LET t == call[c].token IN
  /\ call[c].at = "verified"
  /\ Mark(t)
  /\ IF singleUse /\ t \in burned \ closed
     THEN Answer(c, "409", None) /\ UNCHANGED <<used, runs>>
     ELSE IF \A w \in Windows : HasRoom(w)
     THEN /\ Answer(c, "200", None)
          /\ used' = [w \in Windows |-> used[w] + 1]
          /\ runs' = [runs EXCEPT ![t] = @ + 1]
     ELSE Answer(c, "429", None) /\ UNCHANGED <<used, runs>>
  /\ UNCHANGED <<config, status, lapsed, closed, attempt, pending, cache,
                 hold, redeemed, sent>>

-----------------------------------------------------------------------------
(* One call of the agent.                                                  *)

Asks(c, phase, t) ==
  call' = [call EXCEPT ![c] = State("asking", phase, t, "none", None)]

Ends(c, outcome) == call' = [call EXCEPT ![c] = Ended(outcome)]

\* A cached receipt is sent along until it expires.
Start(c) ==
  /\ call[c].at = "idle"
  /\ cache' = IF cache \in closed THEN None ELSE cache
  /\ Asks(c, "first", cache')
  /\ UNCHANGED <<config, server, attempt, pending, hold, redeemed, sent>>

Got(c, kind, phases) ==
  /\ call[c].at = "answered" /\ call[c].answer = kind
  /\ call[c].phase \in phases

\* 200, 429, and a 409 to the second receipt are the caller's.
Returns(c) ==
  /\ \/ Got(c, "200", {"first", "paid", "again"})
     \/ Got(c, "429", {"first", "paid", "again"})
     \/ Got(c, "409", {"again"})
  /\ Ends(c, IF call[c].answer = "200" THEN "served" ELSE "refused")
  /\ UNCHANGED <<config, server, attempt, pending, cache, hold, redeemed,
                 sent>>

\* A 409 to a cached receipt, or to one that another caller was faster with:
\* the receipt is dropped and the page asked for bare.
ReceiptSpent(c) ==
  /\ \/ Got(c, "409", {"first"}) /\ Asks(c, "bare", None)
     \/ Got(c, "409", {"paid"}) /\ Asks(c, "bareAgain", None)
  /\ cache' = None
  /\ UNCHANGED <<config, server, attempt, pending, hold, redeemed, sent>>

\* A 402 although a receipt was presented.
Rejected(c) ==
  /\ Got(c, "402", {"paid", "again"})
  /\ cache' = None
  /\ Ends(c, "rejected")
  /\ UNCHANGED <<config, server, attempt, pending, hold, redeemed, sent>>

Spent == Cardinality({i \in Invoices : hold[i] \in {"reserved", "committed"}})

Waits(c) == call' = [call EXCEPT ![c] = [@ EXCEPT !.at = "obtaining"]]

Unlapsed == IF pending \in lapsed THEN None ELSE pending

\* The challenge is handled: by sharing the attempt in flight, by resuming a
\* payment that is pending, or by a new payment if the policy allows it.
Obtain(c) ==
  /\ Got(c, "402", {"first", "bare", "bareAgain"})
  /\ cache' = IF call[c].phase = "bare" \/ call[c].token # None
              THEN None ELSE cache
  /\ \/ /\ attempt # NoAttempt
        /\ Waits(c)
        /\ UNCHANGED <<attempt, pending, hold>>
     \/ /\ attempt = NoAttempt /\ Unlapsed # None
        /\ pending' = Unlapsed
        /\ Waits(c)
        /\ attempt' = [at |-> "settling", invoice |-> Unlapsed]
        /\ UNCHANGED hold
     \/ /\ attempt = NoAttempt /\ Unlapsed = None
        /\ pending' = None
        /\ IF Spent < cap
           THEN /\ Waits(c)
                /\ attempt' = [at |-> "paying", invoice |-> call[c].invoice]
                /\ hold' = [hold EXCEPT ![call[c].invoice] = "reserved"]
           ELSE Ends(c, "failed") /\ UNCHANGED <<attempt, hold>>
  /\ UNCHANGED <<config, server, redeemed, sent>>

\* The connection breaks before or after the request was served.
Lost(c) ==
  /\ call[c].at \in {"asking", "answered"}
  /\ Ends(c, "failed")
  /\ UNCHANGED <<config, server, attempt, pending, cache, hold, redeemed,
                 sent>>

-----------------------------------------------------------------------------
(* The attempt.                                                            *)

Fails ==
  /\ attempt' = NoAttempt
  /\ call' = [c \in Calls |-> IF call[c].at = "obtaining"
                              THEN Ended("failed")
                              ELSE call[c]]

\* The wallet has put the transfer on the chain.
Transfer ==
  /\ attempt.at = "paying" /\ attempt.invoice \notin sent
  /\ sent' = sent \cup {attempt.invoice}
  /\ UNCHANGED <<config, server, agent>>

WalletAnswers ==
  /\ attempt.at = "paying" /\ attempt.invoice \in sent
  /\ hold' = [hold EXCEPT ![attempt.invoice] = "committed"]
  /\ pending' = attempt.invoice
  /\ attempt' = [attempt EXCEPT !.at = "settling"]
  /\ UNCHANGED <<config, server, call, cache, redeemed, sent>>

\* The wallet refuses, or its answer to a broadcast is lost.
WalletThrows ==
  /\ attempt.at = "paying"
  /\ hold' = [hold EXCEPT ![attempt.invoice] = "released"]
  /\ Fails
  /\ UNCHANGED <<config, server, pending, cache, redeemed, sent>>

SeesCompleted ==
  /\ attempt.at = "settling" /\ status[attempt.invoice] = "completed"
  /\ attempt' = [attempt EXCEPT !.at = "issuing"]
  /\ UNCHANGED <<config, server, call, pending, cache, hold, redeemed,
                 sent>>

\* Terminal: the error names the transfer that needs reconciliation.
SeesExpired ==
  /\ attempt.at = "settling" /\ status[attempt.invoice] = "expired"
  /\ pending' = None
  /\ Fails
  /\ UNCHANGED <<config, server, cache, hold, redeemed, sent>>

\* Faulty variant: the pending payment goes with the attempt.
DeadlineForgets ==
  /\ attempt.at = "settling"
  /\ pending' = None
  /\ Fails
  /\ UNCHANGED <<config, server, cache, hold, redeemed, sent>>

\* settleTimeoutMs is over; a later call resumes the wait.
Deadline ==
  /\ attempt.at = "settling"
  /\ Fails
  /\ UNCHANGED <<config, server, pending, cache, hold, redeemed, sent>>

\* /receipts/issue refuses once the window has closed, or is not heard.
IssueFails ==
  /\ attempt.at = "issuing"
  /\ Fails
  /\ UNCHANGED <<config, server, pending, cache, hold, redeemed, sent>>

\* Every call of the attempt presents the one receipt.
Issue ==
  LET i == attempt.invoice IN
  /\ attempt.at = "issuing" /\ i \notin closed
  /\ pending' = None /\ cache' = i
  /\ redeemed' = redeemed \cup {i}
  /\ attempt' = NoAttempt
  /\ call' = [c \in Calls |->
       IF call[c].at = "obtaining"
       THEN State("asking",
                  IF call[c].phase = "bareAgain" THEN "again" ELSE "paid",
                  i, "none", None)
       ELSE call[c]]
  /\ UNCHANGED <<config, server, hold, sent>>

-----------------------------------------------------------------------------
(* Invoices (module Settlement) and time.                                  *)

Completes(i) ==
  /\ status[i] = "open" /\ i \in sent
  /\ status' = [status EXCEPT ![i] = "completed"]
  /\ UNCHANGED <<config, lapsed, closed, burned, used, runs, agent, sent>>

Expires(i) ==
  /\ status[i] = "open" /\ i \in lapsed
  /\ status' = [status EXCEPT ![i] = "expired"]
  /\ UNCHANGED <<config, lapsed, closed, burned, used, runs, agent, sent>>

Lapse(i) ==
  /\ status[i] # "none" /\ i \notin lapsed
  /\ lapsed' = lapsed \cup {i}
  /\ UNCHANGED <<config, status, closed, burned, used, runs, agent, sent>>

Close(i) ==
  /\ status[i] = "completed" /\ i \notin closed
  /\ closed' = closed \cup {i}
  /\ UNCHANGED <<config, status, lapsed, burned, used, runs, agent, sent>>

\* The next window begins.
Roll(w) ==
  /\ used[w] > 0
  /\ used' = [used EXCEPT ![w] = 0]
  /\ UNCHANGED <<config, status, lapsed, closed, burned, runs, agent,
                 sent>>

Init ==
  /\ singleUse \in Modes /\ cap \in Caps
  /\ status = [i \in Invoices |-> "none"]
  /\ lapsed = {} /\ closed = {} /\ burned = {}
  /\ used = [w \in Windows |-> 0]
  /\ call = [c \in Calls |-> Idle]
  /\ attempt = NoAttempt /\ pending = None /\ cache = None
  /\ hold = [i \in Invoices |-> "none"]
  /\ sent = {} /\ redeemed = {}
  /\ runs = [i \in Invoices |-> 0]

CallStep(c) ==
  \/ Challenge(c) \/ Verify(c) \/ Admit(c)
  \/ Start(c) \/ Returns(c) \/ ReceiptSpent(c) \/ Rejected(c)
  \/ Obtain(c) \/ Lost(c)

AttemptStep ==
  \/ Transfer \/ WalletAnswers \/ WalletThrows
  \/ SeesCompleted \/ SeesExpired \/ Deadline
  \/ IssueFails \/ Issue

WorldStep ==
  \/ \E i \in Invoices : Completes(i) \/ Expires(i) \/ Lapse(i) \/ Close(i)
  \/ \E w \in Windows : Roll(w)

Next == (\E c \in Calls : CallStep(c)) \/ AttemptStep \/ WorldStep

Spec == Init /\ [][Next]_vars

-----------------------------------------------------------------------------
InvoiceOrNone == Invoices \cup {None}

CallStates ==
  [at : {"idle", "asking", "verified", "answered", "obtaining", "served",
         "refused", "rejected", "failed"},
   phase : {"first", "bare", "paid", "bareAgain", "again"},
   token : InvoiceOrNone,
   answer : {"none", "200", "402", "409", "429"},
   invoice : InvoiceOrNone]

ServerTypeOK ==
  /\ singleUse \in BOOLEAN /\ cap \in Nat
  /\ status \in [Invoices -> {"none", "open", "completed", "expired"}]
  /\ lapsed \subseteq Invoices /\ closed \subseteq Invoices
  /\ burned \subseteq Invoices
  /\ used \in [Windows -> Nat]
  /\ \A w \in Windows : used[w] <= Quota[w]
  /\ runs \in [Invoices -> Nat]

AgentTypeOK ==
  /\ call \in [Calls -> CallStates]
  /\ attempt \in [at : {"none", "paying", "settling", "issuing"},
                  invoice : InvoiceOrNone]
  /\ pending \in InvoiceOrNone /\ cache \in InvoiceOrNone
  /\ hold \in [Invoices -> {"none", "reserved", "committed", "released"}]
  /\ sent \subseteq Invoices /\ redeemed \subseteq Invoices

TypeOK == ServerTypeOK /\ AgentTypeOK

Settled(i) == i \in redeemed \/ status[i] = "expired"

\* A payment the wallet has confirmed is never out of the agent's sight
\* while its challenge lives: it is redeemed, pending, or reported as
\* expired, whatever attempts timed out, answers were lost and calls shared
\* it.  So at most one payment at a time waits for its receipt.
PaidIsTracked ==
  \A i \in Invoices :
    hold[i] = "committed" => Settled(i) \/ pending = i \/ i \in lapsed

\* The handler runs for a receipt only if its invoice was paid and
\* completed, and where receipts are single use once as long as the window
\* of the receipt is open, also when several calls present one receipt and
\* the agent pays again after a 409.  A request that was verified before the
\* window closed and is marked after it may run the handler once more.
OneRunPerPayment ==
  \A i \in Invoices :
    /\ runs[i] > 0 => i \in sent /\ status[i] = "completed"
    /\ singleUse /\ i \notin closed => runs[i] <= 1
=============================================================================
