------------------------ MODULE PayingAgent_proofs ------------------------
(***************************************************************************)
(* Type correctness of PayingAgent and its two safety invariants, for any  *)
(* calls, invoices, caps, windows and quotas.                              *)
(*                                                                         *)
(* What makes them inductive: the attempt in flight is about an invoice,   *)
(* nothing is pending while it pays and its own invoice is pending while   *)
(* it settles (AttemptInv), so a pending payment is never written over;    *)
(* an invoice completes by being paid and stays completed (PaidInv), so    *)
(* that a verified receipt stays paid (VerifiedInv); and a receipt that    *)
(* has run the handler is marked until it expires (UseInv).                *)
(***************************************************************************)
EXTENDS PayingAgent, TLAPS

AttemptInv ==
  /\ attempt.at # "none" => attempt.invoice \in Invoices
  /\ attempt.at = "paying" => pending = None
  /\ attempt.at \in {"settling", "issuing"} => pending = attempt.invoice
  /\ \A c \in Calls :
       call[c].at = "answered" /\ call[c].answer = "402"
       => call[c].invoice \in Invoices

PaidInv ==
  \A i \in Invoices :
    /\ status[i] = "completed" => i \in sent
    /\ runs[i] > 0 => status[i] = "completed"

VerifiedInv ==
  \A c \in Calls :
    call[c].at = "verified" =>
      call[c].token \in Invoices /\ status[call[c].token] = "completed"

UseInv ==
  \A i \in Invoices :
    singleUse /\ i \notin closed =>
      /\ runs[i] <= 1
      /\ runs[i] > 0 => i \in burned

AgentInv ==
  TypeOK /\ AttemptInv /\ PaidIsTracked /\ PaidInv /\ VerifiedInv /\ UseInv

USE DEF InvoiceOrNone, NoAttempt, Ended

-----------------------------------------------------------------------------
(* The states of a call.                                                   *)

\* A call that asks, has its answer or has ended.
LEMMA CallState ==
  ASSUME NEW a \in {"asking", "answered", "served", "refused", "rejected",
                    "failed"},
         NEW p \in {"first", "bare", "paid", "bareAgain", "again"},
         NEW t \in InvoiceOrNone,
         NEW k \in {"none", "200", "402", "409", "429"},
         NEW i \in InvoiceOrNone
  PROVE  /\ State(a, p, t, k, i) \in CallStates
         /\ State(a, p, t, k, i).at = a
         /\ State(a, p, t, k, i).answer = k
         /\ State(a, p, t, k, i).invoice = i
BY DEF State, CallStates

\* A call that had asked has its answer.
LEMMA AnsweredState ==
  ASSUME NEW s \in CallStates, NEW i \in InvoiceOrNone,
         NEW k \in {"200", "402", "409", "429"}
  PROVE  State("answered", s.phase, s.token, k, i) \in CallStates
BY DEF State, CallStates

-----------------------------------------------------------------------------
(* The guard.                                                              *)

\* A new challenge names an invoice that nobody has seen.
LEMMA ChallengeStep ==
  ASSUME AgentInv, NEW c \in Calls, Challenge(c)
  PROVE  AgentInv'
<1>1. PICK i \in Invoices :
        /\ status[i] = "none"
        /\ status' = [status EXCEPT ![i] = "open"]
        /\ Answer(c, "402", i)
  BY DEF Challenge
<1>2. UNCHANGED <<config, lapsed, closed, burned, used, runs, attempt,
                  pending, cache, hold, redeemed, sent>>
  BY DEF Challenge
<1> DEFINE s == State("answered", call[c].phase, call[c].token, "402", i)
<1>0. /\ call' = [call EXCEPT ![c] = s] /\ s \in CallStates
      /\ s.invoice = i /\ s.at = "answered"
  <2>1. call[c] \in CallStates
    BY DEF AgentInv, TypeOK, AgentTypeOK
  <2>2. s \in CallStates
    BY <2>1, AnsweredState
  <2>3. s.invoice = i /\ s.at = "answered"
    BY DEF State
  <2> QED  BY <1>1, <2>2, <2>3 DEF Answer
<1> HIDE DEF s
<1>3. TypeOK'
  BY <1>1, <1>2, <1>0 DEF AgentInv, TypeOK, ServerTypeOK, AgentTypeOK, config
<1>4. AttemptInv'
  BY <1>1, <1>2, <1>0 DEF AgentInv, AttemptInv, TypeOK, AgentTypeOK
<1>5. PaidIsTracked'
  BY <1>1, <1>2 DEF AgentInv, PaidIsTracked, Settled, TypeOK, ServerTypeOK
<1>6. PaidInv' /\ UseInv'
  BY <1>1, <1>2 DEF AgentInv, PaidInv, UseInv, TypeOK, ServerTypeOK, config
<1>7. VerifiedInv'
  BY <1>1, <1>0 DEF AgentInv, VerifiedInv, TypeOK, ServerTypeOK, AgentTypeOK
<1> QED  BY <1>3, <1>4, <1>5, <1>6, <1>7 DEF AgentInv

\* A receipt that verifies is of an invoice that was paid.
LEMMA VerifyStep ==
  ASSUME AgentInv, NEW c \in Calls, Verify(c)
  PROVE  AgentInv'
<1> DEFINE t == call[c].token
           s == [call[c] EXCEPT !.at = "verified"]
<1>1. /\ t \in Invoices /\ status[t] = "completed"
      /\ call' = [call EXCEPT ![c] = s]
      /\ UNCHANGED <<config, server, attempt, pending, cache, hold, redeemed,
                     sent>>
  BY DEF Verify, Valid, AgentInv, TypeOK, AgentTypeOK, CallStates
<1>2. s \in CallStates /\ s.at = "verified" /\ s.token = t
  BY DEF AgentInv, TypeOK, AgentTypeOK, CallStates
<1> HIDE DEF s, t
<1>3. TypeOK'
  BY <1>1, <1>2 DEF AgentInv, TypeOK, ServerTypeOK, AgentTypeOK, config,
     server
<1>4. AttemptInv' /\ VerifiedInv'
  BY <1>1, <1>2 DEF AgentInv, AttemptInv, VerifiedInv, TypeOK, AgentTypeOK,
     server
<1>5. PaidIsTracked' /\ PaidInv' /\ UseInv'
  BY <1>1 DEF AgentInv, PaidIsTracked, Settled, PaidInv, UseInv, config,
     server
<1> QED  BY <1>3, <1>4, <1>5 DEF AgentInv

\* A receipt passes the mark once as long as it lives, and its windows only
\* with room in each.
LEMMA AdmitStep ==
  ASSUME AgentInv, NEW c \in Calls, Admit(c)
  PROVE  AgentInv'
<1> DEFINE t == call[c].token
<1>1. /\ t \in Invoices /\ status[t] = "completed"
      /\ Mark(t)
      /\ UNCHANGED <<config, status, lapsed, closed, attempt, pending, cache,
                     hold, redeemed, sent>>
  BY DEF Admit, AgentInv, VerifiedInv
<1>2. PICK kind \in {"200", "409", "429"} : Answer(c, kind, None)
  BY DEF Admit
<1>3. \/ UNCHANGED <<used, runs>>
      \/ /\ ~(singleUse /\ t \in burned \ closed)
         /\ \A w \in Windows : HasRoom(w)
         /\ used' = [w \in Windows |-> used[w] + 1]
         /\ runs' = [runs EXCEPT ![t] = @ + 1]
  BY DEF Admit
<1>4. burned' \subseteq Invoices
  BY <1>1 DEF Mark, AgentInv, TypeOK, ServerTypeOK
<1>5. /\ used' \in [Windows -> Nat] /\ runs' \in [Invoices -> Nat]
      /\ \A w \in Windows : used'[w] <= Quota[w]
  BY <1>1, <1>3, PayingAgentAssumption DEF HasRoom, AgentInv, TypeOK,
     ServerTypeOK
<1> DEFINE s == State("answered", call[c].phase, call[c].token, kind, None)
<1>0. /\ call' = [call EXCEPT ![c] = s] /\ s \in CallStates
      /\ s.answer # "402" /\ s.at = "answered"
  <2>1. call[c] \in CallStates
    BY DEF AgentInv, TypeOK, AgentTypeOK
  <2>2. s \in CallStates
    BY <2>1, AnsweredState
  <2>3. s.answer = kind /\ s.at = "answered"
    BY DEF State
  <2> QED  BY <1>2, <2>2, <2>3 DEF Answer
<1> HIDE DEF s
<1>6. call' \in [Calls -> CallStates]
  BY <1>0 DEF AgentInv, TypeOK, AgentTypeOK
<1>7. TypeOK'
  BY <1>1, <1>4, <1>5, <1>6 DEF AgentInv, TypeOK, ServerTypeOK, AgentTypeOK,
     config
<1>8. AttemptInv'
  BY <1>1, <1>0 DEF AgentInv, AttemptInv, TypeOK, AgentTypeOK
<1>9. PaidIsTracked'
  BY <1>1 DEF AgentInv, PaidIsTracked, Settled
<1>10. PaidInv'
  BY <1>1, <1>3 DEF AgentInv, PaidInv, TypeOK, ServerTypeOK
<1>11. UseInv'
  <2> SUFFICES ASSUME NEW i \in Invoices, singleUse, i \notin closed
               PROVE  runs'[i] <= 1 /\ (runs'[i] > 0 => i \in burned')
    BY <1>1 DEF UseInv, config
  <2>1. burned' = (burned \ closed) \cup {t}
    BY <1>1 DEF Mark
  <2>2. /\ runs[i] \in Nat /\ runs[i] <= 1
        /\ runs[i] > 0 => i \in burned
    BY DEF AgentInv, UseInv, TypeOK, ServerTypeOK
  <2>3. CASE i # t
    BY <1>3, <2>1, <2>2, <2>3 DEF AgentInv, TypeOK, ServerTypeOK
  <2>4. CASE i = t
    BY <1>1, <1>3, <2>1, <2>2, <2>4 DEF AgentInv, TypeOK, ServerTypeOK
  <2> QED  BY <2>3, <2>4
<1>12. VerifiedInv'
  BY <1>1, <1>0 DEF AgentInv, VerifiedInv, TypeOK, AgentTypeOK
<1> QED  BY <1>7, <1>8, <1>9, <1>10, <1>11, <1>12 DEF AgentInv

-----------------------------------------------------------------------------
(* One call of the agent.                                                  *)

\* The steps of a call that neither pay nor settle.
LEMMA CallStepKeeps ==
  ASSUME AgentInv, NEW c \in Calls,
         \/ Start(c) \/ Returns(c) \/ ReceiptSpent(c) \/ Rejected(c)
         \/ Lost(c)
  PROVE  AgentInv'
<1>1. UNCHANGED <<config, server, attempt, pending, hold, redeemed, sent>>
  BY DEF Start, Returns, ReceiptSpent, Rejected, Lost
<1>2. cache' \in Invoices \cup {None}
  BY DEF Start, Returns, ReceiptSpent, Rejected, Lost, AgentInv, TypeOK,
     AgentTypeOK
<1> DEFINE Becomes(s) == /\ call' = [call EXCEPT ![c] = s]
                         /\ s \in CallStates
                         /\ s.at \notin {"answered", "verified"}
<1>3. PICK s : Becomes(s)
  <2>1. CASE Start(c)
    <3>1. call' = [call EXCEPT
                     ![c] = State("asking", "first", cache', "none", None)]
      BY <2>1 DEF Start, Asks
    <3>2. Becomes(State("asking", "first", cache', "none", None))
      BY <1>2, <3>1, CallState
    <3> QED  BY <3>2
  <2>2. CASE Returns(c)
    <3>1. PICK o \in {"served", "refused"} :
            call' = [call EXCEPT ![c] = State(o, "first", None, "none", None)]
      BY <2>2 DEF Returns, Ends
    <3>2. Becomes(State(o, "first", None, "none", None))
      BY <3>1, CallState
    <3> QED  BY <3>2
  <2>3. CASE ReceiptSpent(c)
    <3>1. PICK p \in {"bare", "bareAgain"} :
            call' = [call EXCEPT
                       ![c] = State("asking", p, None, "none", None)]
      BY <2>3 DEF ReceiptSpent, Asks
    <3>2. Becomes(State("asking", p, None, "none", None))
      BY <3>1, CallState
    <3> QED  BY <3>2
  <2>4. CASE Rejected(c) \/ Lost(c)
    <3>1. PICK o \in {"rejected", "failed"} :
            call' = [call EXCEPT ![c] = State(o, "first", None, "none", None)]
      BY <2>4 DEF Rejected, Lost, Ends
    <3>2. Becomes(State(o, "first", None, "none", None))
      BY <3>1, CallState
    <3> QED  BY <3>2
  <2> QED  BY <2>1, <2>2, <2>3, <2>4
<1>4. TypeOK'
  BY <1>1, <1>2, <1>3 DEF AgentInv, TypeOK, ServerTypeOK, AgentTypeOK,
     config, server
<1>5. AttemptInv'
  BY <1>1, <1>3 DEF AgentInv, AttemptInv, TypeOK, AgentTypeOK
<1>6. PaidIsTracked' /\ PaidInv' /\ UseInv'
  BY <1>1 DEF AgentInv, PaidIsTracked, Settled, PaidInv, UseInv, config,
     server
<1>7. VerifiedInv'
  BY <1>1, <1>3 DEF AgentInv, VerifiedInv, TypeOK, AgentTypeOK, server
<1> QED  BY <1>4, <1>5, <1>6, <1>7 DEF AgentInv

\* A new attempt pays only where nothing unexpired is pending.
LEMMA ObtainStep ==
  ASSUME AgentInv, NEW c \in Calls, Obtain(c)
  PROVE  AgentInv'
<1>1. /\ call[c].at = "answered" /\ call[c].answer = "402"
      /\ call[c].invoice \in Invoices
      /\ UNCHANGED <<config, server, redeemed, sent>>
      /\ cache' \in Invoices \cup {None}
  BY DEF Obtain, Got, AgentInv, AttemptInv, TypeOK, AgentTypeOK
<1> DEFINE Becomes(s) == /\ call' = [call EXCEPT ![c] = s]
                         /\ s \in CallStates
                         /\ s.at \notin {"answered", "verified"}
<1>2. PICK s : Becomes(s)
  <2>1. CASE Waits(c)
    <3>1. Becomes([call[c] EXCEPT !.at = "obtaining"])
      BY <2>1 DEF Waits, AgentInv, TypeOK, AgentTypeOK, CallStates
    <3> QED  BY <3>1
  <2>2. CASE Ends(c, "failed")
    <3>1. Becomes(Ended("failed"))
      BY <2>2, CallState DEF Ends
    <3> QED  BY <3>1
  <2> QED  BY <2>1, <2>2 DEF Obtain
<1>3. /\ Unlapsed \in Invoices \cup {None}
      /\ Unlapsed # None => pending = Unlapsed
  BY DEF Unlapsed, AgentInv, TypeOK, AgentTypeOK
<1>4. \/ UNCHANGED <<attempt, pending, hold>>
      \/ /\ attempt' = [at |-> "settling", invoice |-> pending]
         /\ pending # None /\ UNCHANGED <<pending, hold>>
      \/ /\ Unlapsed = None /\ attempt = NoAttempt /\ pending' = None
         /\ attempt' = [at |-> "paying", invoice |-> call[c].invoice]
         /\ hold' = [hold EXCEPT ![call[c].invoice] = "reserved"]
      \/ /\ Unlapsed = None /\ attempt = NoAttempt /\ pending' = None
         /\ UNCHANGED <<attempt, hold>>
  BY <1>3 DEF Obtain
<1>5. AgentTypeOK'
  BY <1>1, <1>2, <1>4 DEF AgentInv, TypeOK, AgentTypeOK
<1>6. ServerTypeOK'
  BY <1>1 DEF AgentInv, TypeOK, ServerTypeOK, config, server
<1>7. AttemptInv'
  BY <1>1, <1>2, <1>4 DEF AgentInv, AttemptInv, TypeOK, AgentTypeOK
<1>8. PaidIsTracked'
  <2> SUFFICES ASSUME NEW i \in Invoices, hold'[i] = "committed"
               PROVE  Settled(i)' \/ pending' = i \/ i \in lapsed'
    BY DEF PaidIsTracked
  <2>1. hold[i] = "committed"
    BY <1>1, <1>4 DEF AgentInv, TypeOK, AgentTypeOK
  <2>2. Settled(i) \/ pending = i \/ i \in lapsed
    BY <2>1 DEF AgentInv, PaidIsTracked
  <2>3. Unlapsed = None /\ pending = i => i \in lapsed
    BY PayingAgentAssumption DEF Unlapsed
  <2> QED  BY <1>1, <1>4, <2>2, <2>3 DEF Settled, server
<1>9. PaidInv' /\ UseInv'
  BY <1>1 DEF AgentInv, PaidInv, UseInv, config, server
<1>10. VerifiedInv'
  BY <1>1, <1>2 DEF AgentInv, VerifiedInv, TypeOK, AgentTypeOK, server
<1> QED  BY <1>5, <1>6, <1>7, <1>8, <1>9, <1>10 DEF AgentInv, TypeOK

-----------------------------------------------------------------------------
(* The attempt.                                                            *)

\* An attempt that fails takes its callers with it and no invoice.
LEMMA FailsEffect ==
  ASSUME AgentInv, Fails
  PROVE  /\ call' \in [Calls -> CallStates]
         /\ attempt' = NoAttempt
         /\ \A c \in Calls : call'[c].at \in {"answered", "verified"} =>
                            call'[c] = call[c]
<1>1. \A c \in Calls : call'[c] = IF call[c].at = "obtaining"
                                  THEN Ended("failed")
                                  ELSE call[c]
  BY DEF Fails
<1>2. Ended("failed") \in CallStates /\ Ended("failed").at = "failed"
  BY CallState
<1> QED  BY <1>1, <1>2 DEF Fails, AgentInv, TypeOK, AgentTypeOK

\* Wherever an attempt fails, what it paid stays pending or is expired.
LEMMA FailStep ==
  ASSUME AgentInv, WalletThrows \/ SeesExpired \/ Deadline \/ IssueFails
  PROVE  AgentInv'
<1>1. Fails /\ UNCHANGED <<config, server, cache, redeemed, sent>>
  BY DEF WalletThrows, SeesExpired, Deadline, IssueFails
<1>2. /\ call' \in [Calls -> CallStates] /\ attempt' = NoAttempt
      /\ \A c \in Calls : call'[c].at \in {"answered", "verified"} =>
                            call'[c] = call[c]
  BY <1>1, FailsEffect
<1>3. \/ /\ hold' = [hold EXCEPT ![attempt.invoice] = "released"]
         /\ attempt.at = "paying" /\ pending' = pending
      \/ /\ attempt.at = "settling" /\ status[attempt.invoice] = "expired"
         /\ pending' = None /\ hold' = hold
      \/ UNCHANGED <<pending, hold>>
  BY DEF WalletThrows, SeesExpired, Deadline, IssueFails
<1>4. TypeOK'
  BY <1>1, <1>2, <1>3 DEF AgentInv, TypeOK, ServerTypeOK, AgentTypeOK,
     config, server
<1>5. AttemptInv'
  BY <1>1, <1>2 DEF AgentInv, AttemptInv
<1>6. PaidIsTracked'
  <2> SUFFICES ASSUME NEW i \in Invoices, hold'[i] = "committed"
               PROVE  Settled(i)' \/ pending' = i \/ i \in lapsed'
    BY DEF PaidIsTracked
  <2>1. hold[i] = "committed"
    BY <1>3 DEF AgentInv, TypeOK, AgentTypeOK
  <2>2. Settled(i) \/ pending = i \/ i \in lapsed
    BY <2>1 DEF AgentInv, PaidIsTracked
  <2>3. attempt.at = "settling" => pending = attempt.invoice
    BY DEF AgentInv, AttemptInv
  <2> QED  BY <1>1, <1>3, <2>2, <2>3 DEF Settled, server
<1>7. PaidInv' /\ UseInv' /\ VerifiedInv'
  BY <1>1, <1>2 DEF AgentInv, PaidInv, UseInv, VerifiedInv, config, server
<1> QED  BY <1>4, <1>5, <1>6, <1>7 DEF AgentInv

\* A payment goes from the wallet to the pending ones.
LEMMA PayStep ==
  ASSUME AgentInv, Transfer \/ WalletAnswers \/ SeesCompleted
  PROVE  AgentInv'
<1>1. UNCHANGED <<config, server, call, cache, redeemed>>
      /\ sent \subseteq sent' /\ attempt.at # "none"
      /\ attempt.invoice \in Invoices
  BY DEF Transfer, WalletAnswers, SeesCompleted, agent, AgentInv, AttemptInv
<1>2. sent' \subseteq Invoices
  BY <1>1 DEF Transfer, WalletAnswers, SeesCompleted, AgentInv, TypeOK,
     AgentTypeOK
<1>3. \/ UNCHANGED <<attempt, pending, hold>>
      \/ /\ attempt.at = "paying"
         /\ attempt' = [attempt EXCEPT !.at = "settling"]
         /\ pending' = attempt.invoice
         /\ hold' = [hold EXCEPT ![attempt.invoice] = "committed"]
      \/ /\ attempt.at = "settling"
         /\ attempt' = [attempt EXCEPT !.at = "issuing"]
         /\ UNCHANGED <<pending, hold>>
  BY DEF Transfer, WalletAnswers, SeesCompleted, agent
<1>4. TypeOK'
  BY <1>1, <1>2, <1>3 DEF AgentInv, TypeOK, ServerTypeOK, AgentTypeOK,
     config, server
<1>5. AttemptInv'
  BY <1>1, <1>3 DEF AgentInv, AttemptInv, TypeOK, AgentTypeOK
<1>6. PaidIsTracked'
  <2> SUFFICES ASSUME NEW i \in Invoices, hold'[i] = "committed"
               PROVE  Settled(i)' \/ pending' = i \/ i \in lapsed'
    BY DEF PaidIsTracked
  <2>1. CASE UNCHANGED <<pending, hold>>
    BY <1>1, <2>1 DEF AgentInv, PaidIsTracked, Settled, server
  <2>2. CASE /\ attempt.at = "paying" /\ pending' = attempt.invoice
             /\ hold' = [hold EXCEPT ![attempt.invoice] = "committed"]
    <3>1. CASE i = attempt.invoice
      BY <2>2, <3>1
    <3>2. CASE i # attempt.invoice
      <4>1. hold[i] = "committed" /\ pending # i
        BY <2>2, <3>2, PayingAgentAssumption DEF AgentInv, AttemptInv, TypeOK,
           AgentTypeOK
      <4> QED  BY <1>1, <4>1 DEF AgentInv, PaidIsTracked, Settled, server
    <3> QED  BY <3>1, <3>2
  <2> QED  BY <1>3, <2>1, <2>2
<1>7. PaidInv' /\ UseInv' /\ VerifiedInv'
  BY <1>1 DEF AgentInv, PaidInv, UseInv, VerifiedInv, config, server
<1> QED  BY <1>4, <1>5, <1>6, <1>7 DEF AgentInv

\* The receipt takes the place of the pending payment.
LEMMA IssueStep ==
  ASSUME AgentInv, Issue
  PROVE  AgentInv'
<1> DEFINE i == attempt.invoice
<1>1. /\ i \in Invoices /\ pending = i
      /\ pending' = None /\ cache' = i /\ redeemed' = redeemed \cup {i}
      /\ attempt' = NoAttempt
      /\ UNCHANGED <<config, server, hold, sent>>
  BY DEF Issue, AgentInv, AttemptInv
<1> DEFINE s(c) ==
      State("asking",
            IF call[c].phase = "bareAgain" THEN "again" ELSE "paid",
            i, "none", None)
<1>2. \A c \in Calls :
        call'[c] = IF call[c].at = "obtaining" THEN s(c) ELSE call[c]
  BY DEF Issue
<1>3. /\ call' \in [Calls -> CallStates]
      /\ \A c \in Calls : call'[c].at \in {"answered", "verified"} =>
                            call'[c] = call[c]
  <2>1. ASSUME NEW c \in Calls
        PROVE  s(c) \in CallStates /\ s(c).at = "asking"
    BY <1>1, CallState
  <2>2. call' = [c \in Calls |-> call'[c]]
    BY DEF Issue
  <2> QED  BY <1>2, <2>1, <2>2 DEF AgentInv, TypeOK, AgentTypeOK
<1>4. TypeOK'
  BY <1>1, <1>3 DEF AgentInv, TypeOK, ServerTypeOK, AgentTypeOK, config,
     server
<1>5. AttemptInv'
  BY <1>1, <1>3 DEF AgentInv, AttemptInv
<1>6. PaidIsTracked'
  BY <1>1 DEF AgentInv, PaidIsTracked, Settled, server
<1>7. PaidInv' /\ UseInv' /\ VerifiedInv'
  BY <1>1, <1>3 DEF AgentInv, PaidInv, UseInv, VerifiedInv, config, server
<1> QED  BY <1>4, <1>5, <1>6, <1>7 DEF AgentInv

-----------------------------------------------------------------------------
(* Invoices and time.                                                      *)

\* What the world does keeps a settled payment settled.
LEMMA WorldKeeps ==
  ASSUME AgentInv, WorldStep
  PROVE  AgentInv'
<1>1. UNCHANGED <<config, burned, runs, agent, sent>>
  BY DEF WorldStep, Completes, Expires, Lapse, Close, Roll
<1>2. /\ lapsed \subseteq lapsed' /\ lapsed' \subseteq Invoices
      /\ closed \subseteq closed' /\ closed' \subseteq Invoices
  BY DEF WorldStep, Completes, Expires, Lapse, Close, Roll, AgentInv, TypeOK,
     ServerTypeOK
<1>3. /\ used' \in [Windows -> Nat]
      /\ \A w \in Windows : used'[w] <= Quota[w]
  BY PayingAgentAssumption DEF WorldStep, Completes, Expires, Lapse, Close,
     Roll, AgentInv, TypeOK, ServerTypeOK
<1>4. \/ status' = status
      \/ \E i \in Invoices :
           /\ status[i] = "open"
           /\ \/ status' = [status EXCEPT ![i] = "completed"] /\ i \in sent
              \/ status' = [status EXCEPT ![i] = "expired"]
  BY DEF WorldStep, Completes, Expires, Lapse, Close, Roll
<1>5. TypeOK'
  BY <1>1, <1>2, <1>3, <1>4 DEF AgentInv, TypeOK, ServerTypeOK, AgentTypeOK,
     config, agent
<1>6. AttemptInv'
  BY <1>1 DEF AgentInv, AttemptInv, agent
<1>7. PaidIsTracked'
  BY <1>1, <1>2, <1>4 DEF AgentInv, PaidIsTracked, Settled, TypeOK,
     ServerTypeOK, agent
<1>8. PaidInv'
  BY <1>1, <1>4 DEF AgentInv, PaidInv, TypeOK, ServerTypeOK
<1>9. UseInv'
  BY <1>1, <1>2 DEF AgentInv, UseInv, config
<1>10. VerifiedInv'
  BY <1>1, <1>4 DEF AgentInv, VerifiedInv, TypeOK, ServerTypeOK, agent
<1> QED  BY <1>5, <1>6, <1>7, <1>8, <1>9, <1>10 DEF AgentInv

-----------------------------------------------------------------------------
\* The inductive invariant.
THEOREM AgentInductive == Spec => []AgentInv
<1>1. Init => AgentInv
  <2> SUFFICES ASSUME Init PROVE AgentInv
    OBVIOUS
  <2>1. TypeOK
    BY PayingAgentAssumption DEF Init, TypeOK, ServerTypeOK, AgentTypeOK,
       CallStates, Idle, State
  <2>2. AttemptInv /\ PaidIsTracked /\ PaidInv /\ VerifiedInv /\ UseInv
    BY DEF Init, AttemptInv, PaidIsTracked, PaidInv, VerifiedInv, UseInv,
       Idle, State
  <2> QED  BY <2>1, <2>2 DEF AgentInv
<1>2. AgentInv /\ [Next]_vars => AgentInv'
  <2> SUFFICES ASSUME AgentInv, [Next]_vars PROVE AgentInv'
    OBVIOUS
  <2>1. ASSUME NEW c \in Calls, CallStep(c) PROVE AgentInv'
    BY <2>1, ChallengeStep, VerifyStep, AdmitStep, CallStepKeeps, ObtainStep
       DEF CallStep
  <2>2. CASE AttemptStep
    BY <2>2, FailStep, PayStep, IssueStep DEF AttemptStep
  <2>3. CASE WorldStep
    BY <2>3, WorldKeeps
  <2>4. CASE UNCHANGED vars
    BY <2>4 DEF vars, config, server, agent, AgentInv, TypeOK, ServerTypeOK,
       AgentTypeOK, AttemptInv, PaidIsTracked, Settled, PaidInv, VerifiedInv,
       UseInv
  <2> QED  BY <2>1, <2>2, <2>3, <2>4 DEF Next
<1> QED  BY <1>1, <1>2, PTL DEF Spec

\* No window holds more requests than it allows, and payments, receipts and
\* marks are of invoices.
THEOREM AgentTypeCorrect == Spec => []TypeOK
<1>1. AgentInv => TypeOK
  BY DEF AgentInv
<1> QED  BY <1>1, AgentInductive, PTL

\* A payment that left the wallet is redeemed, reported or pending as long
\* as its challenge lives.
THEOREM PaymentsTracked == Spec => []PaidIsTracked
<1>1. AgentInv => PaidIsTracked
  BY DEF AgentInv
<1> QED  BY <1>1, AgentInductive, PTL

\* The handler runs for paid invoices, and where receipts are single use
\* once each while the window of the receipt is open.
THEOREM RunsArePaid == Spec => []OneRunPerPayment
<1>1. AgentInv => OneRunPerPayment
  BY DEF AgentInv, PaidInv, UseInv, OneRunPerPayment
<1> QED  BY <1>1, AgentInductive, PTL
=============================================================================
