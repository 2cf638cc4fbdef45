----------------------- MODULE WebhookOutbox_proofs -----------------------
(***************************************************************************)
(* One worker keeps the outbox's promise, for any events, batch size,      *)
(* ceiling of attempts, enqueues and crashes.  Two do not: a worker whose  *)
(* lease ran out may mark a row of the other, so that the facts below      *)
(* assume that there is one, but for the last part, which is of any        *)
(* number: no event is acknowledged or forgotten without an acceptance.    *)
(*                                                                         *)
(* The invariant: what the worker has claimed is "delivering", each row    *)
(* once, with the attempts it read (BatchInv); a row that may still be     *)
(* sent has attempts left, and a parked one has none (AttemptsInv); and    *)
(* an answer is about the first row of the batch (AnswerInv).              *)
(***************************************************************************)
EXTENDS WebhookOutbox, FiniteSetTheorems, TLAPS

BatchInv(w) ==
  /\ \A i \in 1 .. Len(batch[w]) :
       /\ status[batch[w][i].id] = "delivering"
       /\ batch[w][i].attempts = attempts[batch[w][i].id]
  /\ \A i, j \in 1 .. Len(batch[w]) :
       i # j => batch[w][i].id # batch[w][j].id

AttemptsInv ==
  /\ AttemptsAreReal
  /\ \A e \in Events :
       status[e] \in {"pending", "delivering"} => attempts[e] < MaxAttempts

AnswerInv(w) ==
  batch[w] # <<>> =>
    /\ answer[w] = "ok" => Head(batch[w]).id \in got
    /\ answer[w] = "failed" =>
         attempts[Head(batch[w]).id] < fails[Head(batch[w]).id]

OutboxInv(w) == TypeOK /\ BatchInv(w) /\ AttemptsInv /\ AnswerInv(w)

-----------------------------------------------------------------------------
\* What a worker with a batch works on: a claimed row that is "delivering".
LEMMA HeadIsClaimed ==
  ASSUME NEW w \in Workers, OutboxInv(w), batch[w] # <<>>
  PROVE  /\ batch[w] \in Seq(Claimed) /\ Len(batch[w]) \in Nat \ {0}
         /\ Head(batch[w]) = batch[w][1]
         /\ Head(batch[w]).id \in Events
         /\ status[Head(batch[w]).id] = "delivering"
         /\ Head(batch[w]).attempts = attempts[Head(batch[w]).id]
<1>1. batch[w] \in Seq(Claimed)
  BY DEF OutboxInv, TypeOK
<1>2. Len(batch[w]) \in Nat \ {0} /\ Head(batch[w]) = batch[w][1]
      /\ batch[w][1] \in Claimed
  BY <1>1
<1> QED  BY <1>1, <1>2 DEF OutboxInv, BatchInv, Claimed

\* What a batch holds are rows on disk, each marked as in hand.
LEMMA BatchIsClaimed ==
  ASSUME NEW w \in Workers, OutboxInv(w)
  PROVE  /\ batch[w] \in Seq(Claimed)
         /\ \A i \in 1 .. Len(batch[w]) :
              /\ batch[w][i].id \in Events
              /\ status[batch[w][i].id] = "delivering"
<1>1. batch[w] \in Seq(Claimed)
  BY DEF OutboxInv, TypeOK
<1>2. \A i \in 1 .. Len(batch[w]) : batch[w][i] \in Claimed
  BY <1>1
<1> QED  BY <1>1, <1>2 DEF OutboxInv, BatchInv, Claimed

\* The rest of a batch is still claimed and does not hold its first row.
LEMMA TailIsClaimed ==
  ASSUME NEW w \in Workers, OutboxInv(w), batch[w] # <<>>
  PROVE  /\ Tail(batch[w]) \in Seq(Claimed)
         /\ \A i \in 1 .. Len(Tail(batch[w])) :
              /\ Tail(batch[w])[i].id \in Events
              /\ Tail(batch[w])[i].id # Head(batch[w]).id
              /\ status[Tail(batch[w])[i].id] = "delivering"
              /\ Tail(batch[w])[i].attempts = attempts[Tail(batch[w])[i].id]
         /\ \A i, j \in 1 .. Len(Tail(batch[w])) :
              i # j => Tail(batch[w])[i].id # Tail(batch[w])[j].id
<1>1. /\ batch[w] \in Seq(Claimed) /\ Len(batch[w]) \in Nat \ {0}
      /\ Head(batch[w]) = batch[w][1]
  BY HeadIsClaimed
<1>2. /\ Tail(batch[w]) \in Seq(Claimed)
      /\ Len(Tail(batch[w])) = Len(batch[w]) - 1
      /\ \A i \in 1 .. Len(Tail(batch[w])) :
           Tail(batch[w])[i] = batch[w][i + 1]
  BY <1>1
<1>3. \A i \in 1 .. Len(Tail(batch[w])) :
        i + 1 \in 1 .. Len(batch[w]) /\ i + 1 # 1
  BY <1>1, <1>2
<1>4. \A i \in 1 .. Len(batch[w]) : batch[w][i] \in Claimed
  BY <1>1
<1> QED  BY <1>1, <1>2, <1>3, <1>4 DEF OutboxInv, BatchInv, Claimed

\* The claims a worker makes on rows taken in some order.
Claims(order) == [i \in 1..Len(order) |->
                   [id |-> order[i], attempts |-> attempts[order[i]]]]

\* The batch of a claim holds each of its rows once, as it found them.
LEMMA TakenBatch ==
  ASSUME NEW ids \in SUBSET Events, NEW order \in SetToSeqs(ids),
         attempts \in [Events -> 0 .. MaxAttempts]
  PROVE  /\ Claims(order) \in Seq(Claimed)
         /\ \A i \in 1 .. Len(Claims(order)) :
              /\ Claims(order)[i].id \in ids
              /\ Claims(order)[i].attempts = attempts[Claims(order)[i].id]
         /\ \A i, j \in 1 .. Len(Claims(order)) :
              i # j => Claims(order)[i].id # Claims(order)[j].id
<1> DEFINE n == Cardinality(ids)
<1>1. n \in Nat
  BY OutboxAssumption, FS_Subset, FS_CardinalityType
<1>2. /\ order \in [1 .. n -> ids]
      /\ \A i, j \in 1 .. n : i # j => order[i] # order[j]
  BY DEF SetToSeqs
<1> HIDE DEF n
<1>3. Len(order) = n
  BY <1>1, <1>2
<1>4. \A i \in 1 .. n : /\ Claims(order)[i] \in Claimed
                        /\ Claims(order)[i].id = order[i]
                        /\ Claims(order)[i].attempts = attempts[order[i]]
  BY <1>2, <1>3, OutboxAssumption DEF Claimed, Claims
<1>5. Claims(order) \in Seq(Claimed) /\ Len(Claims(order)) = n
  BY <1>1, <1>3, <1>4 DEF Claims
<1>6. \A i \in 1 .. n : order[i] \in ids
  BY <1>2
<1> QED  BY <1>2, <1>4, <1>5, <1>6

-----------------------------------------------------------------------------
(* One lemma per kind of step, for the only worker.                        *)

\* A new or revived row starts with all its attempts ahead.
LEMMA EnqueueStep ==
  ASSUME NEW w, Workers = {w}, OutboxInv(w), NEW e \in Events, Enqueue(e)
  PROVE  OutboxInv(w)'
<1>1. w \in Workers /\ UNCHANGED <<batch, answer, up, got, crashes>>
  BY DEF Enqueue
<1>2. CASE status[e] \in {"absent", "dead"}
  <2>1. /\ enqueues < MaxEnqueues /\ enqueues' = enqueues + 1
        /\ status' = [status EXCEPT ![e] = "pending"]
        /\ attempts' = [attempts EXCEPT ![e] = 0]
        /\ ripe' = [ripe EXCEPT ![e] = TRUE]
        /\ leased' = [leased EXCEPT ![e] = FALSE]
        /\ fails' = [fails EXCEPT ![e] = 0]
    BY <1>2 DEF Enqueue
  <2>2. TypeOK'
    BY <1>1, <2>1, OutboxAssumption DEF OutboxInv, TypeOK, RowStatuses
  <2>3. \A i \in 1 .. Len(batch[w]) :
          batch[w][i].id # e /\ batch[w][i].id \in Events
    BY <1>1, <1>2, BatchIsClaimed
  <2>4. BatchInv(w)'
    BY <1>1, <2>1, <2>3 DEF OutboxInv, BatchInv, TypeOK
  <2>5. AttemptsInv'
    BY <2>1, OutboxAssumption DEF OutboxInv, AttemptsInv, AttemptsAreReal,
       TypeOK
  <2>6. batch[w] # <<>> =>
          Head(batch[w]).id # e /\ Head(batch[w]).id \in Events
    BY <1>1, <1>2, HeadIsClaimed
  <2>7. AnswerInv(w)'
    BY <1>1, <2>1, <2>6 DEF OutboxInv, AnswerInv, TypeOK
  <2> QED  BY <2>2, <2>4, <2>5, <2>7 DEF OutboxInv
<1>3. CASE status[e] \notin {"absent", "dead"}
  <2>1. UNCHANGED <<row, fails>> /\ enqueues' \in 0 .. MaxEnqueues
    BY <1>3, OutboxAssumption DEF Enqueue, OutboxInv, TypeOK
  <2> QED  BY <1>1, <2>1 DEF row, OutboxInv, TypeOK, BatchInv, AttemptsInv,
              AttemptsAreReal, AnswerInv
<1> QED  BY <1>2, <1>3

\* A claim takes due rows only, which nobody has in hand.
LEMMA TickStep ==
  ASSUME NEW w, Workers = {w}, OutboxInv(w), Tick(w)
  PROVE  OutboxInv(w)'
<1>1. w \in Workers /\ up[w] /\ batch[w] = <<>>
  BY DEF Tick
<1>2. PICK ids \in SUBSET Due : Take(w, ids)
  BY DEF Tick
<1>3. ids \in SUBSET Events
  BY DEF Due
<1>4. /\ status' = [e \in Events |->
                      IF e \in ids THEN "delivering" ELSE status[e]]
      /\ leased' = [e \in Events |-> IF e \in ids THEN TRUE ELSE leased[e]]
      /\ UNCHANGED <<attempts, ripe, answer, up, world>>
  BY <1>2 DEF Take
<1>5. PICK order \in SetToSeqs(ids) :
        batch' = [batch EXCEPT ![w] = @ \o Claims(order)]
  BY <1>2 DEF Take, Claims
<1> DEFINE b == Claims(order)
<1>6. /\ b \in Seq(Claimed)
      /\ \A i \in 1 .. Len(b) :
           b[i].id \in ids /\ b[i].attempts = attempts[b[i].id]
      /\ \A i, j \in 1 .. Len(b) : i # j => b[i].id # b[j].id
  <2>1. attempts \in [Events -> 0 .. MaxAttempts]
    BY DEF OutboxInv, TypeOK
  <2> QED  BY <1>3, <2>1, TakenBatch
<1>7. batch' = [batch EXCEPT ![w] = @ \o b]
  BY <1>5
<1> HIDE DEF b
<1>8. batch' = [batch EXCEPT ![w] = b] /\ batch'[w] = b
  BY <1>1, <1>6, <1>7 DEF OutboxInv, TypeOK
<1>9. TypeOK'
  <2>1. /\ status' \in [Events -> RowStatuses \cup {"absent"}]
        /\ leased' \in [Events -> BOOLEAN]
    BY <1>4 DEF OutboxInv, TypeOK, RowStatuses
  <2>2. /\ batch' \in [Workers -> Seq(Claimed)]
        /\ \A v \in Workers : batch'[v] = <<>> => answer'[v] = "none"
        /\ \A v \in Workers : ~up'[v] => batch'[v] = <<>>
    BY <1>1, <1>4, <1>6, <1>8 DEF OutboxInv, TypeOK
  <2> QED  BY <1>4, <2>1, <2>2 DEF OutboxInv, TypeOK, world
<1>10. BatchInv(w)'
  BY <1>3, <1>4, <1>6, <1>8 DEF BatchInv
<1>11. AttemptsInv'
  <2>1. \A d \in ids : d \in Events /\ status[d] \in {"pending", "delivering"}
    BY DEF Due
  <2> QED  BY <1>4, <2>1 DEF OutboxInv, AttemptsInv, AttemptsAreReal, world
<1>12. AnswerInv(w)'
  BY <1>1, <1>4 DEF OutboxInv, AnswerInv, TypeOK
<1> QED  BY <1>9, <1>10, <1>11, <1>12 DEF OutboxInv

\* An answer is remembered with what the merchant did.
LEMMA PostStep ==
  ASSUME NEW w, Workers = {w}, OutboxInv(w),
         NEW accepts \in BOOLEAN, NEW succeeds \in BOOLEAN,
         Post(w, accepts, succeeds)
  PROVE  OutboxInv(w)'
<1> DEFINE e == Head(batch[w]).id
<1>1. /\ w \in Workers /\ batch[w] # <<>> /\ e \in Events
      /\ status[e] = "delivering"
  BY HeadIsClaimed DEF Post
<1>2. /\ (succeeds => accepts)
      /\ got' = IF accepts THEN got \cup {e} ELSE got
      /\ fails' = IF succeeds \/ fails[e] = MaxAttempts THEN fails
                  ELSE [fails EXCEPT ![e] = @ + 1]
      /\ answer' = [answer EXCEPT ![w] = IF succeeds THEN "ok" ELSE "failed"]
      /\ UNCHANGED <<row, batch, up, enqueues, crashes>>
  BY DEF Post
<1> HIDE DEF e
<1>3. attempts[e] < MaxAttempts /\ attempts[e] <= fails[e]
      /\ attempts[e] \in Nat /\ fails[e] \in Nat
  BY <1>1 DEF OutboxInv, AttemptsInv, AttemptsAreReal, TypeOK
<1>4. /\ fails' \in [Events -> 0 .. MaxAttempts]
      /\ \A d \in Events : fails[d] <= fails'[d]
      /\ ~succeeds => attempts[e] < fails'[e]
  BY <1>1, <1>2, <1>3, OutboxAssumption DEF OutboxInv, TypeOK
<1>5. TypeOK'
  BY <1>1, <1>2, <1>4 DEF OutboxInv, TypeOK, row
<1>6. BatchInv(w)'
  BY <1>2 DEF OutboxInv, BatchInv, row
<1>7. AttemptsInv'
  <2> SUFFICES ASSUME NEW d \in Events
               PROVE  /\ attempts'[d] <= fails'[d]
                      /\ status'[d] = "dead" => attempts'[d] = MaxAttempts
                      /\ status'[d] \in {"pending", "delivering"}
                         => attempts'[d] < MaxAttempts
    BY DEF AttemptsInv, AttemptsAreReal
  <2>1. /\ attempts[d] \in Nat /\ fails[d] \in Nat /\ fails'[d] \in Nat
        /\ attempts[d] <= fails[d] /\ fails[d] <= fails'[d]
    BY <1>4 DEF OutboxInv, TypeOK, AttemptsInv, AttemptsAreReal
  <2> QED  BY <1>2, <2>1 DEF OutboxInv, AttemptsInv, AttemptsAreReal, row
<1>8. AnswerInv(w)'
  BY <1>1, <1>2, <1>4 DEF OutboxInv, AnswerInv, TypeOK, row, e
<1> QED  BY <1>5, <1>6, <1>7, <1>8 DEF OutboxInv

\* A mark changes the first row of the batch and drops it.
LEMMA MarkStep ==
  ASSUME NEW w, Workers = {w}, OutboxInv(w), Mark(w)
  PROVE  OutboxInv(w)'
<1> DEFINE e == Head(batch[w]).id
           rest == Tail(batch[w])
<1>1. w \in Workers /\ answer[w] # "none" /\ batch[w] # <<>>
  BY DEF Mark, markDelivered, markDead, reschedule, OutboxInv, TypeOK
<1>2. /\ e \in Events /\ status[e] = "delivering"
      /\ Head(batch[w]).attempts = attempts[e]
  BY <1>1, HeadIsClaimed
<1>3. /\ rest \in Seq(Claimed)
      /\ \A i \in 1 .. Len(rest) :
           /\ rest[i].id \in Events /\ rest[i].id # e
           /\ status[rest[i].id] = "delivering"
           /\ rest[i].attempts = attempts[rest[i].id]
      /\ \A i, j \in 1 .. Len(rest) : i # j => rest[i].id # rest[j].id
  BY <1>1, TailIsClaimed
<1>4. PICK s \in {"delivered", "dead", "pending"}, more \in {0, 1} :
        /\ Write(e, s, more)
        /\ s = "delivered" => more = 0
        /\ s # "delivered" => more = 1 /\ answer[w] = "failed"
        /\ s = "dead" => attempts[e] + 1 >= MaxAttempts
        /\ s = "pending" => ~(attempts[e] + 1 >= MaxAttempts)
  BY <1>2 DEF Mark, markDelivered, markDead, reschedule, Exhausted
<1>5. /\ batch' = [batch EXCEPT ![w] = rest]
      /\ answer' = [answer EXCEPT ![w] = "none"]
      /\ UNCHANGED <<up, world>>
  BY DEF Mark, markDelivered, markDead, reschedule, NextRow
<1>6. ripe' \in [Events -> BOOLEAN]
  BY <1>2 DEF Mark, markDelivered, markDead, reschedule, OutboxInv, TypeOK
<1> HIDE DEF e, rest
<1>7. /\ status' = [status EXCEPT ![e] = s]
      /\ attempts' = [attempts EXCEPT ![e] = @ + more]
      /\ leased' = [leased EXCEPT ![e] = FALSE]
  BY <1>2, <1>4 DEF Write, OutboxInv, TypeOK
<1>8. /\ attempts[e] \in Nat /\ attempts[e] < MaxAttempts
      /\ attempts[e] <= fails[e] /\ fails[e] \in Nat
      /\ s # "delivered" => attempts[e] < fails[e]
  BY <1>1, <1>2, <1>4 DEF OutboxInv, AttemptsInv, AttemptsAreReal, AnswerInv,
     TypeOK, e
<1>9. TypeOK'
  <2>1. /\ status' \in [Events -> RowStatuses \cup {"absent"}]
        /\ attempts' \in [Events -> 0 .. MaxAttempts]
        /\ leased' \in [Events -> BOOLEAN]
    BY <1>2, <1>7, <1>8, OutboxAssumption DEF OutboxInv, TypeOK, RowStatuses
  <2>2. /\ batch' \in [Workers -> Seq(Claimed)]
        /\ answer' \in [Workers -> {"none", "ok", "failed"}]
        /\ \A v \in Workers : batch'[v] = <<>> => answer'[v] = "none"
        /\ \A v \in Workers : ~up'[v] => batch'[v] = <<>>
    BY <1>1, <1>3, <1>5 DEF OutboxInv, TypeOK
  <2> QED  BY <1>5, <1>6, <2>1, <2>2 DEF OutboxInv, TypeOK, world
<1>10. batch'[w] = rest
  BY <1>1, <1>5 DEF OutboxInv, TypeOK
<1>11. BatchInv(w)'
  BY <1>3, <1>7, <1>10 DEF BatchInv, OutboxInv, TypeOK
<1>12. AttemptsInv'
  BY <1>2, <1>5, <1>7, <1>8, <1>4, OutboxAssumption DEF OutboxInv,
     AttemptsInv, AttemptsAreReal, TypeOK, world
<1>13. AnswerInv(w)'
  BY <1>1, <1>5 DEF AnswerInv, OutboxInv, TypeOK
<1> QED  BY <1>9, <1>11, <1>12, <1>13 DEF OutboxInv

\* Time and pruning leave claimed rows alone.
LEMMA HousekeepingStep ==
  ASSUME NEW w, Workers = {w}, OutboxInv(w), NEW e \in Events,
         Ripen(e) \/ LeaseExpires(e) \/ Prune(e)
  PROVE  OutboxInv(w)'
<1>1. w \in Workers /\ UNCHANGED <<batch, answer, up, world>>
  BY DEF Ripen, LeaseExpires, Prune
<1>2. /\ ripe' \in [Events -> BOOLEAN] /\ leased' \in [Events -> BOOLEAN]
      /\ \/ UNCHANGED <<status, attempts>>
         \/ /\ status[e] = "delivered"
            /\ status' = [status EXCEPT ![e] = "absent"]
            /\ attempts' = [attempts EXCEPT ![e] = 0]
  BY DEF Ripen, LeaseExpires, Prune, OutboxInv, TypeOK
<1>3. TypeOK'
  <2>1. /\ status' \in [Events -> RowStatuses \cup {"absent"}]
        /\ attempts' \in [Events -> 0 .. MaxAttempts]
    <3>1. CASE UNCHANGED <<status, attempts>>
      BY <3>1 DEF OutboxInv, TypeOK
    <3>2. CASE /\ status' = [status EXCEPT ![e] = "absent"]
               /\ attempts' = [attempts EXCEPT ![e] = 0]
      BY <3>2, OutboxAssumption DEF OutboxInv, TypeOK
    <3> QED  BY <1>2, <3>1, <3>2
  <2> QED  BY <1>1, <1>2, <2>1 DEF OutboxInv, TypeOK, world
<1>4. BatchInv(w)'
  <2>1. \A i \in 1 .. Len(batch[w]) :
          /\ status'[batch[w][i].id] = status[batch[w][i].id]
          /\ attempts'[batch[w][i].id] = attempts[batch[w][i].id]
    BY <1>1, <1>2, BatchIsClaimed DEF OutboxInv, TypeOK
  <2> QED  BY <1>1, <2>1 DEF OutboxInv, BatchInv
<1>5. AttemptsInv'
  <2>1. fails' = fails /\ fails \in [Events -> 0 .. MaxAttempts]
    BY <1>1 DEF OutboxInv, TypeOK, world
  <2>2. CASE UNCHANGED <<status, attempts>>
    BY <2>1, <2>2 DEF OutboxInv, AttemptsInv, AttemptsAreReal
  <2>3. CASE /\ status' = [status EXCEPT ![e] = "absent"]
             /\ attempts' = [attempts EXCEPT ![e] = 0]
    BY <2>1, <2>3, OutboxAssumption DEF OutboxInv, AttemptsInv,
       AttemptsAreReal, TypeOK
  <2> QED  BY <1>2, <2>2, <2>3
<1>6. AnswerInv(w)'
  <2>1. batch[w] # <<>> =>
          /\ Head(batch[w]).id \in Events
          /\ status[Head(batch[w]).id] = "delivering"
    BY <1>1, HeadIsClaimed
  <2>2. batch[w] # <<>> =>
          attempts'[Head(batch[w]).id] = attempts[Head(batch[w]).id]
    BY <1>2, <2>1 DEF OutboxInv, TypeOK
  <2> QED  BY <1>1, <2>2 DEF OutboxInv, AnswerInv, world
<1> QED  BY <1>3, <1>4, <1>5, <1>6 DEF OutboxInv

\* A worker that dies forgets its batch; one that starts has none.
LEMMA ProcessStep ==
  ASSUME NEW w, Workers = {w}, OutboxInv(w), Crash(w) \/ Restart(w)
  PROVE  OutboxInv(w)'
<1>1. /\ w \in Workers /\ UNCHANGED <<row, got, fails, enqueues>>
      /\ crashes' \in 0 .. MaxCrashes /\ up' \in [Workers -> BOOLEAN]
  <2>1. CASE Crash(w)
    BY <2>1, OutboxAssumption DEF Crash, OutboxInv, TypeOK
  <2>2. CASE Restart(w)
    BY <2>2 DEF Restart, row, world, OutboxInv, TypeOK
  <2> QED  BY <2>1, <2>2
<1>2. \/ /\ batch' = [batch EXCEPT ![w] = <<>>]
         /\ answer' = [answer EXCEPT ![w] = "none"]
      \/ batch[w] = <<>> /\ up'[w] /\ UNCHANGED <<batch, answer>>
  BY DEF Crash, Restart, OutboxInv, TypeOK
<1>3. /\ batch' \in [Workers -> Seq(Claimed)]
      /\ answer' \in [Workers -> {"none", "ok", "failed"}]
      /\ batch'[w] = <<>> /\ answer'[w] = "none"
  <2>1. CASE /\ batch' = [batch EXCEPT ![w] = <<>>]
             /\ answer' = [answer EXCEPT ![w] = "none"]
    BY <1>1, <2>1 DEF OutboxInv, TypeOK
  <2>2. CASE batch[w] = <<>> /\ up'[w] /\ UNCHANGED <<batch, answer>>
    BY <1>1, <2>2 DEF OutboxInv, TypeOK
  <2> QED  BY <1>2, <2>1, <2>2
<1>4. TypeOK'
  BY <1>1, <1>3 DEF OutboxInv, TypeOK, row
<1>5. BatchInv(w)' /\ AnswerInv(w)'
  BY <1>3 DEF BatchInv, AnswerInv
<1>6. AttemptsInv'
  BY <1>1 DEF OutboxInv, AttemptsInv, AttemptsAreReal, row
<1> QED  BY <1>4, <1>5, <1>6 DEF OutboxInv

-----------------------------------------------------------------------------
\* The inductive invariant of the only worker.
THEOREM OutboxInductive ==
  ASSUME NEW w, Workers = {w}
  PROVE  Spec => []OutboxInv(w)
<1>1. Init => OutboxInv(w)
  BY OutboxAssumption DEF Init, OutboxInv, TypeOK, RowStatuses, BatchInv,
     AttemptsInv, AttemptsAreReal, AnswerInv
<1>2. OutboxInv(w) /\ [Next]_vars => OutboxInv(w)'
  <2> SUFFICES ASSUME OutboxInv(w), [Next]_vars PROVE OutboxInv(w)'
    OBVIOUS
  <2>1. ASSUME NEW e \in Events,
               Enqueue(e) \/ Ripen(e) \/ LeaseExpires(e) \/ Prune(e)
        PROVE  OutboxInv(w)'
    BY <2>1, EnqueueStep, HousekeepingStep
  <2>2. ASSUME Tick(w) \/ Posting(w) \/ Mark(w) \/ Crash(w) \/ Restart(w)
        PROVE  OutboxInv(w)'
    BY <2>2, TickStep, PostStep, MarkStep, ProcessStep DEF Posting
  <2>3. CASE UNCHANGED vars
    BY <2>3 DEF vars, row, world, OutboxInv, TypeOK, BatchInv, AttemptsInv,
       AttemptsAreReal, AnswerInv
  <2> QED  BY <2>1, <2>2, <2>3 DEF Next
<1> QED  BY <1>1, <1>2, PTL DEF Spec

\* Attempts stay under the ceiling, and a batch holds claims only.
THEOREM OutboxTypeCorrect ==
  ASSUME NEW w, Workers = {w}
  PROVE  Spec => []TypeOK
<1>1. OutboxInv(w) => TypeOK
  BY DEF OutboxInv
<1> QED  BY <1>1, OutboxInductive, PTL

\* A row is parked only after as many failures as it has attempts.
THEOREM AttemptsAlwaysReal ==
  ASSUME NEW w, Workers = {w}
  PROVE  Spec => []AttemptsAreReal
<1>1. OutboxInv(w) => AttemptsAreReal
  BY DEF OutboxInv, AttemptsInv
<1> QED  BY <1>1, OutboxInductive, PTL

-----------------------------------------------------------------------------
(* The worker implements the promise: each of its steps owes, accepts,     *)
(* acknowledges, parks or forgets one event, or changes nothing there.     *)

\* What a row's status means to the promise.
Meaning(s) == CASE s = "absent"    -> "none"
                [] s = "delivered" -> "acknowledged"
                [] s = "dead"      -> "parked"
                [] OTHER           -> "owed"

\* Phase reads each row's meaning.
LEMMA PhaseIsMeaning == Phase = [e \in Events |-> Meaning(status[e])]
  BY DEF Phase, Meaning

\* A row's step is a step of its phase.
LEMMA PhaseStep ==
  ASSUME TypeOK, NEW e \in Events, NEW s,
         status' = [status EXCEPT ![e] = s]
  PROVE  /\ Phase[e] = Meaning(status[e])
         /\ Phase' = [Phase EXCEPT ![e] = Meaning(s)]
<1>1. Phase' = [d \in Events |-> Meaning(status'[d])]
  BY DEF Phase, Meaning
<1>2. \A d \in Events : status'[d] = IF d = e THEN s ELSE status[d]
  BY DEF TypeOK
<1>3. [Phase EXCEPT ![e] = Meaning(s)]
        = [d \in Events |-> IF d = e THEN Meaning(s) ELSE Meaning(status[d])]
  BY PhaseIsMeaning
<1>4. Phase[e] = Meaning(status[e])
  BY PhaseIsMeaning
<1> QED  BY <1>1, <1>2, <1>3, <1>4

\* No row changes its meaning: a stutter, or an acceptance.
LEMMA PhaseKept ==
  ASSUME \A d \in Events : Meaning(status'[d]) = Meaning(status[d])
  PROVE  Phase' = Phase
<1>1. Phase' = [d \in Events |-> Meaning(status'[d])]
  BY DEF Phase, Meaning
<1> QED  BY <1>1, PhaseIsMeaning

\* Owing, forgetting, and time, which the promise does not see.
LEMMA EventStepRefines ==
  ASSUME NEW w, Workers = {w}, OutboxInv(w), NEW e \in Events,
         Enqueue(e) \/ Ripen(e) \/ LeaseExpires(e) \/ Prune(e)
  PROVE  [Promise!PromiseNext]_(Promise!promiseVars)
<1>1. got' = got /\ TypeOK
  BY DEF Enqueue, Ripen, LeaseExpires, Prune, world, OutboxInv
<1>2. CASE status' = status
  BY <1>1, <1>2, PhaseKept DEF Promise!promiseVars
<1>3. CASE /\ status[e] \in {"absent", "dead"}
           /\ status' = [status EXCEPT ![e] = "pending"]
  <2>1. Meaning(status[e]) \in {"none", "parked"}
    BY <1>3 DEF Meaning
  <2>2. Meaning("pending") = "owed"
    BY DEF Meaning
  <2>3. Promise!Owe(e)
    BY <1>1, <1>3, <2>1, <2>2, PhaseStep DEF Promise!Owe, Promise!Moves
  <2> QED  BY <2>3 DEF Promise!PromiseNext
<1>4. CASE /\ status[e] = "delivered"
           /\ status' = [status EXCEPT ![e] = "absent"]
  <2>1. Promise!Forget(e)
    BY <1>1, <1>4, PhaseStep DEF Meaning, Promise!Forget, Promise!Moves
  <2> QED  BY <2>1 DEF Promise!PromiseNext
<1> QED  BY <1>2, <1>3, <1>4 DEF Enqueue, Ripen, LeaseExpires, Prune, row

\* A claim, a crash and a restart are not seen; a POST may be accepted.
LEMMA WorkStepRefines ==
  ASSUME NEW w, Workers = {w}, OutboxInv(w),
         Tick(w) \/ Posting(w) \/ Crash(w) \/ Restart(w)
  PROVE  [Promise!PromiseNext]_(Promise!promiseVars)
<1>1. CASE Tick(w)
  <2>1. PICK ids \in SUBSET Due : Take(w, ids)
    BY <1>1 DEF Tick
  <2>2. \A d \in ids : status[d] \in {"pending", "delivering"}
    BY DEF Due
  <2>3. got' = got
        /\ \A d \in Events :
             status'[d] = IF d \in ids THEN "delivering" ELSE status[d]
    BY <2>1 DEF Take, world
  <2>4. Phase' = Phase
    BY <2>2, <2>3, PhaseKept DEF Meaning
  <2> QED  BY <2>3, <2>4 DEF Promise!promiseVars
<1>2. CASE Posting(w)
  <2>1. PICK accepts, succeeds \in BOOLEAN : Post(w, accepts, succeeds)
    BY <1>2 DEF Posting
  <2> DEFINE e == Head(batch[w]).id
  <2>2. e \in Events /\ status[e] = "delivering"
    BY <2>1, HeadIsClaimed DEF Post
  <2>3. got' = IF accepts THEN got \cup {e} ELSE got
    BY <2>1 DEF Post
  <2>4. Phase' = Phase
    BY <2>1, PhaseKept DEF Post, row
  <2>5. Phase[e] = "owed"
    BY <2>2, PhaseIsMeaning DEF Meaning
  <2>6. Promise!Accept(e) \/ got' = got
    BY <2>3, <2>4, <2>5 DEF Promise!Accept
  <2> QED  BY <2>2, <2>4, <2>6 DEF Promise!PromiseNext, Promise!promiseVars
<1>3. CASE Crash(w) \/ Restart(w)
  <2>1. status' = status /\ got' = got
    BY <1>3 DEF Crash, Restart, row, world
  <2> QED  BY <2>1, PhaseKept DEF Promise!promiseVars
<1> QED  BY <1>1, <1>2, <1>3

\* A mark acknowledges what the merchant accepted, parks or keeps owing.
LEMMA MarkRefines ==
  ASSUME NEW w, Workers = {w}, OutboxInv(w), Mark(w)
  PROVE  [Promise!PromiseNext]_(Promise!promiseVars)
<1> DEFINE e == Head(batch[w]).id
<1>1. w \in Workers /\ answer[w] # "none" /\ batch[w] # <<>> /\ TypeOK
  BY DEF Mark, markDelivered, markDead, reschedule, OutboxInv, TypeOK
<1>2. e \in Events /\ status[e] = "delivering" /\ got' = got
  BY <1>1, HeadIsClaimed DEF Mark, markDelivered, markDead, reschedule, world
<1>3. answer[w] = "ok" => e \in got
  BY <1>1 DEF OutboxInv, AnswerInv
<1> HIDE DEF e
<1>4. CASE markDelivered(w)
  <2>1. status' = [status EXCEPT ![e] = "delivered"] /\ e \in got
    BY <1>2, <1>3, <1>4 DEF markDelivered, Write, e
  <2>2. Promise!Acknowledge(e)
    BY <1>1, <1>2, <2>1, PhaseStep
       DEF Meaning, Promise!Acknowledge, Promise!Moves
  <2> QED  BY <1>2, <2>2 DEF Promise!PromiseNext
<1>5. CASE markDead(w)
  <2>1. status' = [status EXCEPT ![e] = "dead"]
    BY <1>2, <1>5 DEF markDead, Write, e
  <2>2. Promise!Park(e)
    BY <1>1, <1>2, <2>1, PhaseStep DEF Meaning, Promise!Park, Promise!Moves
  <2> QED  BY <1>2, <2>2 DEF Promise!PromiseNext
<1>6. CASE reschedule(w)
  <2>1. status' = [status EXCEPT ![e] = "pending"]
    BY <1>2, <1>6 DEF reschedule, Write, e
  <2>2. \A d \in Events : Meaning(status'[d]) = Meaning(status[d])
    BY <1>1, <1>2, <2>1 DEF Meaning, TypeOK
  <2> QED  BY <1>2, <2>2, PhaseKept DEF Promise!promiseVars
<1> QED  BY <1>4, <1>5, <1>6 DEF Mark

\* No acknowledgement without an acceptance, no acknowledged event sent or
\* parked again, nothing dropped: the only worker implements the promise.
THEOREM OutboxRefinesPromise ==
  ASSUME NEW w, Workers = {w}
  PROVE  Spec => ImplementsPromise
<1>1. Init => Promise!PromiseInit
  BY DEF Init, Phase, Promise!PromiseInit
<1>2. OutboxInv(w) /\ [Next]_vars
      => [Promise!PromiseNext]_(Promise!promiseVars)
  <2> SUFFICES ASSUME OutboxInv(w), [Next]_vars
               PROVE  [Promise!PromiseNext]_(Promise!promiseVars)
    OBVIOUS
  <2>1. ASSUME NEW e \in Events,
               Enqueue(e) \/ Ripen(e) \/ LeaseExpires(e) \/ Prune(e)
        PROVE  [Promise!PromiseNext]_(Promise!promiseVars)
    BY <2>1, EventStepRefines
  <2>2. ASSUME Tick(w) \/ Posting(w) \/ Mark(w) \/ Crash(w) \/ Restart(w)
        PROVE  [Promise!PromiseNext]_(Promise!promiseVars)
    BY <2>2, WorkStepRefines, MarkRefines
  <2>3. CASE UNCHANGED vars
    <3>1. status' = status /\ got' = got
      BY <2>3 DEF vars, row, world
    <3> QED  BY <3>1, PhaseKept DEF Promise!promiseVars
  <2> QED  BY <2>1, <2>2, <2>3 DEF Next
<1> QED  BY <1>1, <1>2, OutboxInductive, PTL
          DEF Spec, ImplementsPromise, Promise!PromiseSpec

\* What the merchant has acknowledged is never sent again by a claim or a
\* mark, nor parked: the row stays delivered until it is pruned.
THEOREM DeliveredStays ==
  ASSUME NEW w, Workers = {w}
  PROVE  Spec => DeliveredIsFinal
<1>1. OutboxInv(w) /\ [Next]_vars
      => [\A e \in Events : status[e] = "delivered" =>
            status'[e] \in {"delivered", "absent"}]_vars
  <2> SUFFICES ASSUME OutboxInv(w), Next,
                      NEW e \in Events, status[e] = "delivered"
               PROVE  status'[e] \in {"delivered", "absent"}
    OBVIOUS
  <2>1. TypeOK /\ w \in Workers
    BY DEF OutboxInv
  <2>2. ASSUME NEW d \in Events,
               Enqueue(d) \/ Ripen(d) \/ LeaseExpires(d) \/ Prune(d)
        PROVE  status'[e] \in {"delivered", "absent"}
    BY <2>1, <2>2 DEF Enqueue, Ripen, LeaseExpires, Prune, row, TypeOK
  <2>3. CASE Tick(w)
    BY <2>3 DEF Tick, Take, Due
  <2>4. CASE Mark(w)
    <3>1. batch[w] # <<>>
      BY <2>1, <2>4 DEF Mark, markDelivered, markDead, reschedule, TypeOK
    <3>2. Head(batch[w]).id # e
      BY <2>1, <3>1, HeadIsClaimed
    <3> QED  BY <2>1, <2>4, <3>2 DEF Mark, markDelivered, markDead,
                reschedule, Write, TypeOK
  <2>5. CASE Posting(w) \/ Crash(w) \/ Restart(w)
    BY <2>5 DEF Posting, Post, Crash, Restart, row
  <2> QED  BY <2>2, <2>3, <2>4, <2>5 DEF Next
<1> QED  BY <1>1, OutboxInductive, PTL DEF Spec, DeliveredIsFinal
-----------------------------------------------------------------------------
(* What any number of workers keep.  They may count attempts twice, revive *)
(* and re-send a row of one another, so that neither the ceiling nor the   *)
(* batches above hold of them; but only an acceptance marks a row          *)
(* delivered, and only a delivered row leaves the disk.                    *)

\* An answer is about the first row of its worker's batch, and "ok" or
\* "delivered" says that the merchant has accepted that row's event.
AcceptedInv ==
  /\ status \in [Events -> RowStatuses \cup {"absent"}]
  /\ attempts \in [Events -> Nat]
  /\ batch \in [Workers -> Seq(Claimed)]
  /\ answer \in [Workers -> {"none", "ok", "failed"}]
  /\ \A v \in Workers : answer[v] # "none" => batch[v] # <<>>
  /\ \A v \in Workers : answer[v] = "ok" => Head(batch[v]).id \in got
  /\ \A e \in Events : status[e] = "delivered" => e \in got

\* The row a worker works on is one of the table's.
LEMMA HeadIsEvent ==
  ASSUME AcceptedInv, NEW w \in Workers, batch[w] # <<>>
  PROVE  Head(batch[w]).id \in Events /\ Tail(batch[w]) \in Seq(Claimed)
<1>1. batch[w] \in Seq(Claimed)
  BY DEF AcceptedInv
<1>2. Head(batch[w]) \in Claimed
  BY <1>1
<1> QED  BY <1>1, <1>2 DEF Claimed

\* Enqueues, time and pruning make no row delivered.
LEMMA EventStepAccepted ==
  ASSUME AcceptedInv, NEW e \in Events,
         Enqueue(e) \/ Ripen(e) \/ LeaseExpires(e) \/ Prune(e)
  PROVE  AcceptedInv'
<1>1. UNCHANGED <<batch, answer, got>>
  BY DEF Enqueue, Ripen, LeaseExpires, Prune, world
<1>2. \/ UNCHANGED <<status, attempts>>
      \/ /\ \/ status' = [status EXCEPT ![e] = "pending"]
            \/ status' = [status EXCEPT ![e] = "absent"]
         /\ attempts' = [attempts EXCEPT ![e] = 0]
  BY DEF Enqueue, Ripen, LeaseExpires, Prune, row
<1>3. /\ status' \in [Events -> RowStatuses \cup {"absent"}]
      /\ attempts' \in [Events -> Nat]
      /\ \A d \in Events : status'[d] = "delivered" => d \in got
  <2>1. CASE UNCHANGED <<status, attempts>>
    BY <2>1 DEF AcceptedInv
  <2>2. ASSUME NEW s \in {"pending", "absent"},
               status' = [status EXCEPT ![e] = s],
               attempts' = [attempts EXCEPT ![e] = 0]
        PROVE  /\ status' \in [Events -> RowStatuses \cup {"absent"}]
               /\ attempts' \in [Events -> Nat]
               /\ \A d \in Events : status'[d] = "delivered" => d \in got
    BY <2>2 DEF AcceptedInv, RowStatuses
  <2> QED  BY <1>2, <2>1, <2>2
<1> QED  BY <1>1, <1>3 DEF AcceptedInv

\* A claim adds rows to an empty batch and makes them "delivering".
LEMMA TickAccepted ==
  ASSUME AcceptedInv, NEW w \in Workers, Tick(w)
  PROVE  AcceptedInv'
<1>1. PICK ids \in SUBSET Due : Take(w, ids)
  BY DEF Tick
<1>2. ids \in SUBSET Events /\ batch[w] = <<>> /\ answer[w] = "none"
  BY DEF Due, Tick, AcceptedInv
<1>3. /\ status' = [e \in Events |->
                      IF e \in ids THEN "delivering" ELSE status[e]]
      /\ UNCHANGED <<attempts, answer, got>>
  BY <1>1 DEF Take, world
<1>4. PICK order \in SetToSeqs(ids) :
        batch' = [batch EXCEPT ![w] = @ \o Claims(order)]
  BY <1>1 DEF Take, Claims
<1>5. Claims(order) \in Seq(Claimed)
  <2>1. IsFiniteSet(ids)
    BY <1>2, OutboxAssumption, FS_Subset
  <2> DEFINE n == Cardinality(ids)
  <2>2. n \in Nat
    BY <2>1, FS_CardinalityType
  <2>3. order \in [1 .. n -> ids]
    BY DEF SetToSeqs
  <2> HIDE DEF n
  <2>4. Len(order) = n
    BY <2>2, <2>3
  <2>5. \A i \in 1 .. n : attempts[order[i]] \in Nat /\ order[i] \in Events
    BY <1>2, <2>3 DEF AcceptedInv
  <2> QED  BY <2>2, <2>4, <2>5 DEF Claims, Claimed
<1> DEFINE b == Claims(order)
<1>6. b \in Seq(Claimed) /\ batch' = [batch EXCEPT ![w] = @ \o b]
  BY <1>4, <1>5
<1> HIDE DEF b
<1>7. /\ batch' \in [Workers -> Seq(Claimed)]
      /\ \A v \in Workers : v # w => batch'[v] = batch[v]
  BY <1>6 DEF AcceptedInv
<1> QED  BY <1>2, <1>3, <1>7 DEF AcceptedInv, RowStatuses

\* A success is an acceptance; a mark drops the row it writes.
LEMMA WorkAccepted ==
  ASSUME AcceptedInv, NEW w \in Workers,
         Posting(w) \/ Mark(w) \/ Crash(w) \/ Restart(w)
  PROVE  AcceptedInv'
<1> DEFINE e == Head(batch[w]).id
<1>1. CASE Posting(w)
  <2>1. PICK accepts, succeeds \in BOOLEAN : Post(w, accepts, succeeds)
    BY <1>1 DEF Posting
  <2>2. /\ batch[w] # <<>> /\ (succeeds => accepts)
        /\ got' = IF accepts THEN got \cup {e} ELSE got
        /\ answer' = [answer EXCEPT ![w] = IF succeeds THEN "ok"
                                           ELSE "failed"]
        /\ UNCHANGED <<status, attempts, batch>>
    BY <2>1 DEF Post, row
  <2> QED  BY <2>2 DEF AcceptedInv
<1>2. CASE Mark(w)
  <2>1. /\ answer[w] # "none" /\ batch[w] # <<>>
    BY <1>2 DEF Mark, markDelivered, markDead, reschedule, AcceptedInv
  <2>2. e \in Events /\ Tail(batch[w]) \in Seq(Claimed)
    BY <2>1, HeadIsEvent
  <2>3. PICK s \in {"delivered", "dead", "pending"}, more \in {0, 1} :
          /\ Write(e, s, more)
          /\ s = "delivered" => answer[w] = "ok"
    BY <1>2 DEF Mark, markDelivered, markDead, reschedule
  <2>4. /\ batch' = [batch EXCEPT ![w] = Tail(@)]
        /\ answer' = [answer EXCEPT ![w] = "none"] /\ got' = got
    BY <1>2 DEF Mark, markDelivered, markDead, reschedule, NextRow, world
  <2>5. s = "delivered" => e \in got
    BY <2>3 DEF AcceptedInv
  <2> HIDE DEF e
  <2>6. /\ status' \in [Events -> RowStatuses \cup {"absent"}]
        /\ attempts' \in [Events -> Nat]
        /\ \A d \in Events : status'[d] = "delivered" => d \in got
    BY <2>2, <2>3, <2>5 DEF Write, AcceptedInv, RowStatuses
  <2> QED  BY <2>2, <2>4, <2>6 DEF AcceptedInv
<1>3. CASE Crash(w)
  BY <1>3 DEF Crash, row, AcceptedInv
<1>4. CASE Restart(w)
  BY <1>4 DEF Restart, row, world, AcceptedInv
<1> QED  BY <1>1, <1>2, <1>3, <1>4

\* outbox-types.ts:4-8, "a row on disk is never lost": with any number of
\* workers, leases that run out at any time, crashes and late marks, a row is
\* delivered only when the merchant has accepted its event, and leaves the
\* table only then.
THEOREM NeverDropped ==
  Spec => /\ [](\A e \in Events : status[e] = "delivered" => e \in got)
          /\ [][\A e \in Events :
                  status[e] # "absent" /\ status'[e] = "absent"
                    => e \in got]_vars
<1>1. Init => AcceptedInv
  BY DEF Init, AcceptedInv, RowStatuses
<1>2. AcceptedInv /\ [Next]_vars => AcceptedInv'
  <2> SUFFICES ASSUME AcceptedInv, [Next]_vars PROVE AcceptedInv'
    OBVIOUS
  <2>1. CASE UNCHANGED vars
    BY <2>1 DEF vars, row, world, AcceptedInv
  <2> QED  BY <2>1, EventStepAccepted, TickAccepted, WorkAccepted DEF Next
<1>3. AcceptedInv => \A e \in Events : status[e] = "delivered" => e \in got
  BY DEF AcceptedInv
<1>4. AcceptedInv /\ [Next]_vars
      => [\A e \in Events : status[e] # "absent" /\ status'[e] = "absent"
            => e \in got]_vars
  <2> SUFFICES ASSUME AcceptedInv, Next, NEW e \in Events,
                      status[e] # "absent", status'[e] = "absent"
               PROVE  e \in got
    OBVIOUS
  <2>1. ASSUME NEW d \in Events,
               Enqueue(d) \/ Ripen(d) \/ LeaseExpires(d) \/ Prune(d)
        PROVE  e \in got
    BY <2>1 DEF Enqueue, Ripen, LeaseExpires, Prune, row, AcceptedInv
  <2>2. ASSUME NEW w \in Workers,
               Tick(w) \/ Posting(w) \/ Mark(w) \/ Crash(w) \/ Restart(w)
        PROVE  e \in got
    <3>1. status'[e] # "absent"
      <4>1. CASE Tick(w)
        BY <4>1 DEF Tick, Take
      <4>2. CASE Mark(w)
        BY <4>2 DEF Mark, markDelivered, markDead, reschedule, Write,
           AcceptedInv
      <4>3. CASE Posting(w) \/ Crash(w) \/ Restart(w)
        BY <4>3 DEF Posting, Post, Crash, Restart, row
      <4> QED  BY <2>2, <4>1, <4>2, <4>3
    <3> QED  BY <3>1
  <2> QED  BY <2>1, <2>2 DEF Next
<1> QED  BY <1>1, <1>2, <1>3, <1>4, PTL DEF Spec
=============================================================================
