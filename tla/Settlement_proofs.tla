-------------------------- MODULE Settlement_proofs --------------------------
(***************************************************************************)
(* Proofs about Settlement for any processes, transfers, amounts, price    *)
(* and depth.  Every copy of the invoice that is under way, in a monitor,  *)
(* a poll or a continuation, is a state the stored one has been in         *)
(* (Snapshot); what was decided from a copy is therefore no more than what *)
(* could be decided now.                                                   *)
(***************************************************************************)
EXTENDS Settlement, FiniteSetTheorems, SequenceTheorems, TLAPS

-----------------------------------------------------------------------------
(* The laws of totals.                                                     *)

\* The units of finitely many transfers are finitely many.
LEMMA UnitsFinite ==
  ASSUME value \in [Txs -> Values]
  PROVE  IsFiniteSet(Units(Txs))
<1> DEFINE f == [t \in Txs |-> {t} \X (1..value[t])]
           F == {{t} \X (1..value[t]) : t \in Txs}
<1>1. f \in Surjection(Txs, F)
  BY DEF Surjection
<1>2. IsFiniteSet(Txs)
  BY SettlementAssumption DEF SettlementAssumption
<1>3. IsFiniteSet(F)
  BY <1>1, <1>2, FS_Surjection
<1>4. ASSUME NEW t \in Txs PROVE IsFiniteSet({t} \X (1..value[t]))
  <2>1. value[t] \in Nat
    BY <1>4, SettlementAssumption DEF SettlementAssumption
  <2>2. IsFiniteSet({t})
    BY FS_Singleton
  <2>3. 1 \in Int /\ value[t] \in Int
    BY <2>1
  <2>4. IsFiniteSet(1..value[t])
    BY <2>3, FS_Interval
  <2> QED  BY <2>2, <2>4, FS_Product
<1>5. \A T \in F : IsFiniteSet(T)
  BY <1>4
<1>6. IsFiniteSet(UNION F)
  BY <1>3, <1>5, FS_UNION
<1> QED  BY <1>6 DEF Units

\* A unit of S is a transfer of S with a number up to its amount.
LEMMA UnitOf ==
  ASSUME NEW S, NEW u
  PROVE  u \in Units(S) <=> \E t \in S : u \in {t} \X (1..value[t])
  BY DEF Units

\* More transfers are worth more.
LEMMA TotalMonotone ==
  ASSUME value \in [Txs -> Values], NEW T \in SUBSET Txs, NEW S \in SUBSET T
  PROVE  /\ Total(S) \in Nat /\ Total(T) \in Nat
         /\ Total(S) <= Total(T)
         /\ Total(S) = Total(T) => S = T
<1>1. Units(S) \subseteq Units(T) /\ Units(T) \subseteq Units(Txs)
  <2>1. ASSUME NEW u \in Units(S) PROVE u \in Units(T)
    BY <2>1, UnitOf
  <2>2. ASSUME NEW u \in Units(T) PROVE u \in Units(Txs)
    BY <2>2, UnitOf
  <2> QED  BY <2>1, <2>2
<1>2. IsFiniteSet(Units(T))
  BY <1>1, UnitsFinite, FS_Subset
<1>3. /\ IsFiniteSet(Units(S))
      /\ Cardinality(Units(S)) <= Cardinality(Units(T))
      /\ Cardinality(Units(T)) = Cardinality(Units(S)) => Units(T) = Units(S)
  BY <1>1, <1>2, FS_Subset
<1>4. Total(S) \in Nat /\ Total(T) \in Nat
  BY <1>2, <1>3, FS_CardinalityType DEF Total
<1>5. ASSUME Total(S) = Total(T), NEW t \in T PROVE t \in S
  <2>1. value[t] \in Nat \ {0}
    BY SettlementAssumption DEF SettlementAssumption
  <2>2. <<t, 1>> \in {t} \X (1..value[t])
    BY <2>1
  <2>3. <<t, 1>> \in Units(T)
    BY <2>2, UnitOf
  <2>4. <<t, 1>> \in Units(S)
    BY <1>3, <1>5, <2>3 DEF Total
  <2>5. PICK s \in S : <<t, 1>> \in {s} \X (1..value[s])
    BY <2>4, UnitOf
  <2> QED  BY <2>5
<1> QED  BY <1>3, <1>4, <1>5 DEF Total

\* Nothing is worth nothing, and only nothing.
LEMMA TotalZero ==
  ASSUME value \in [Txs -> Values], NEW S \in SUBSET Txs
  PROVE  Total(S) \in Nat /\ (Total(S) = 0 <=> S = {})
<1>1. Units({}) = {}
  BY DEF Units
<1>2. Total({}) = 0
  BY <1>1, FS_EmptySet DEF Total
<1>3. {} \in SUBSET S
  OBVIOUS
<1> QED  BY <1>2, <1>3, TotalMonotone

-----------------------------------------------------------------------------
(* Elements of the queues.                                                 *)

\* What is left of a queue was in it.
LEMMA TailElements ==
  ASSUME NEW S, NEW s \in Seq(S), s # <<>>
  PROVE  /\ Head(s) \in S /\ Head(s) = s[1] /\ 1 \in DOMAIN s
         /\ Tail(s) \in Seq(S)
         /\ \A i \in DOMAIN Tail(s) : i + 1 \in DOMAIN s /\ Tail(s)[i] = s[i+1]
<1>1. Len(s) \in Nat /\ DOMAIN s = 1..Len(s) /\ Len(s) # 0
  BY LenProperties, EmptySeq
<1>2. DOMAIN Tail(s) = 1..Len(Tail(s))
  BY HeadTailProperties, LenProperties
<1> QED  BY <1>1, <1>2, HeadTailProperties

\* What is in s \o t was in s or in t, and keeps its place.
LEMMA ConcatElements ==
  ASSUME NEW S, NEW s \in Seq(S), NEW t \in Seq(S)
  PROVE  /\ s \o t \in Seq(S)
         /\ \A i \in DOMAIN (s \o t) :
              \/ i \in DOMAIN s /\ (s \o t)[i] = s[i]
              \/ /\ i > Len(s) /\ i - Len(s) \in DOMAIN t
                 /\ (s \o t)[i] = t[i - Len(s)]
         /\ \A i \in DOMAIN s : i \in DOMAIN (s \o t) /\ (s \o t)[i] = s[i]
         /\ \A i \in DOMAIN t : /\ Len(s) + i \in DOMAIN (s \o t)
                                /\ (s \o t)[Len(s) + i] = t[i]
         /\ DOMAIN s = 1..Len(s) /\ Len(s) \in Nat
<1>1. /\ Len(s) \in Nat /\ DOMAIN s = 1..Len(s)
      /\ Len(t) \in Nat /\ DOMAIN t = 1..Len(t)
  BY LenProperties
<1>2. /\ s \o t \in Seq(S)
      /\ Len(s \o t) = Len(s) + Len(t)
      /\ \A i \in 1 .. Len(s) + Len(t) :
           (s \o t)[i] = IF i <= Len(s) THEN s[i] ELSE t[i - Len(s)]
  BY ConcatProperties
<1>3. DOMAIN (s \o t) = 1..(Len(s) + Len(t))
  BY <1>2, LenProperties
<1> QED  BY <1>1, <1>2, <1>3

\* What is in Append(s, e) was in s, or is e at the end.
LEMMA AppendElements ==
  ASSUME NEW S, NEW s \in Seq(S), NEW e \in S
  PROVE  /\ Append(s, e) \in Seq(S)
         /\ Len(s) \in Nat /\ DOMAIN s = 1..Len(s)
         /\ DOMAIN Append(s, e) = 1..(Len(s) + 1)
         /\ \A i \in DOMAIN s : Append(s, e)[i] = s[i]
         /\ Append(s, e)[Len(s) + 1] = e
<1>1. Len(s) \in Nat /\ DOMAIN s = 1..Len(s)
  BY LenProperties
<1>2. /\ Append(s, e) \in Seq(S)
      /\ Len(Append(s, e)) = Len(s) + 1
      /\ \A i \in 1..Len(s) : Append(s, e)[i] = s[i]
      /\ Append(s, e)[Len(s) + 1] = e
  BY AppendProperties
<1> QED  BY <1>1, <1>2, LenProperties

\* Taking one element out leaves others of the same sequence.
LEMMA RemoveAtElements ==
  ASSUME NEW S, NEW s \in Seq(S), NEW k \in DOMAIN s
  PROVE  /\ RemoveAt(s, k) \in Seq(S)
         /\ Len(RemoveAt(s, k)) = Len(s) - 1
         /\ \A i \in DOMAIN RemoveAt(s, k) :
              \E j \in DOMAIN s : RemoveAt(s, k)[i] = s[j]
<1> DEFINE a == SubSeq(s, 1, k - 1)
           b == SubSeq(s, k + 1, Len(s))
<1>1. Len(s) \in Nat /\ DOMAIN s = 1..Len(s) /\ s \in [1..Len(s) -> S]
      /\ k \in 1..Len(s)
  BY LenProperties
<1>2. /\ a \in Seq(S) /\ Len(a) = k - 1
      /\ \A i \in 1..(k - 1) : a[i] = s[i]
  <2>1. \A i \in 1..(k - 1) : s[i] \in S
    BY <1>1
  <2>2. /\ a \in Seq(S)
        /\ Len(a) = IF 1 <= k - 1 THEN (k - 1) - 1 + 1 ELSE 0
        /\ \A i \in 1..((k - 1) - 1 + 1) : a[i] = s[1 + i - 1]
    BY <1>1, <2>1, SubSeqProperties
  <2> QED  BY <1>1, <2>2
<1>3. /\ b \in Seq(S) /\ Len(b) = Len(s) - k
      /\ \A i \in 1..(Len(s) - k) : b[i] = s[k + i]
  <2>1. \A i \in (k + 1)..Len(s) : s[i] \in S
    BY <1>1
  <2>2. /\ b \in Seq(S)
        /\ Len(b) = IF k + 1 <= Len(s) THEN Len(s) - (k + 1) + 1 ELSE 0
        /\ \A i \in 1..(Len(s) - (k + 1) + 1) : b[i] = s[(k + 1) + i - 1]
    BY <1>1, <2>1, SubSeqProperties
  <2> QED  BY <1>1, <2>2
<1> HIDE DEF a, b
<1>4. RemoveAt(s, k) = a \o b
  BY DEF RemoveAt, a, b
<1>5. /\ a \o b \in Seq(S) /\ Len(a \o b) = Len(s) - 1
      /\ \A i \in 1..(Len(s) - 1) :
           (a \o b)[i] = IF i <= k - 1 THEN a[i] ELSE b[i - (k - 1)]
  <2>1. /\ a \o b \in Seq(S) /\ Len(a \o b) = Len(a) + Len(b)
        /\ \A i \in 1..(Len(a) + Len(b)) :
             (a \o b)[i] = IF i <= Len(a) THEN a[i] ELSE b[i - Len(a)]
    BY <1>2, <1>3, ConcatProperties
  <2>2. Len(a) = k - 1 /\ Len(a) + Len(b) = Len(s) - 1
    BY <1>1, <1>2, <1>3
  <2> QED  BY <2>1, <2>2
<1>6. DOMAIN (a \o b) = 1..(Len(s) - 1)
  <2>1. DOMAIN (a \o b) = 1..Len(a \o b)
    BY <1>5, LenProperties
  <2> QED  BY <1>5, <2>1
<1>7. ASSUME NEW i \in 1..(Len(s) - 1)
      PROVE  \E j \in DOMAIN s : (a \o b)[i] = s[j]
  <2>1. CASE i <= k - 1
    <3>1. i \in 1..(k - 1) /\ i \in DOMAIN s
      BY <1>1, <2>1
    <3>2. (a \o b)[i] = s[i]
      BY <1>2, <1>5, <2>1, <3>1
    <3> QED  BY <3>1, <3>2
  <2>2. CASE ~(i <= k - 1)
    <3>1. i - (k - 1) \in 1..(Len(s) - k) /\ i + 1 \in DOMAIN s
          /\ k + (i - (k - 1)) = i + 1
      BY <1>1, <2>2
    <3>2. (a \o b)[i] = b[i - (k - 1)]
      BY <1>5, <2>2
    <3>3. (a \o b)[i] = s[i + 1]
      BY <1>3, <3>1, <3>2
    <3> QED  BY <3>1, <3>3
  <2> QED  BY <2>1, <2>2
<1> QED  BY <1>4, <1>5, <1>6, <1>7

-----------------------------------------------------------------------------
(* The inductive invariant.                                                *)

DeepNow == {t \in Txs : Deep(t, height)}

\* inv is a state the stored invoice has been in: its sum is right, what it
\* calls confirmed is buried, and none of its payments has got lost since.
Snapshot(inv) ==
  /\ inv.received = Total(Stored(inv))
  /\ Stored(inv) \subseteq Stored(invoice)
  /\ Confirmed(inv) \subseteq Confirmed(invoice) \cap DeepNow

\* A task works on a snapshot, of a height that is past.
TaskOK(task) ==
  /\ Snapshot(task.read) /\ task.tip <= height
  /\ task.op \in {"detect", "cross", "complete", "settle", "confirm"} =>
       task.tx \in Txs
  /\ task.op \in {"cross", "complete"} =>
       task.tx \in DeepNow \cap Stored(invoice)
  /\ task.op = "settle" => Stored(task.read) # {}
  /\ task.op = "confirm" => Stored(invoice) # {}

SnapshotInv ==
  /\ Snapshot(invoice)
  /\ \A p \in Procs : Snapshot(copy[p])
  /\ \A p \in Procs : \A i \in DOMAIN polls[p] :
       Snapshot(polls[p][i].copy) /\ polls[p][i].tip <= height
  /\ \A p \in Procs : \A i \in DOMAIN work[p] : TaskOK(work[p][i])

\* A lone process has seen all that is stored.
SeenInv ==
  \A p \in Procs : Procs = {p} /\ up[p] => Stored(invoice) \subseteq seen[p]

SettleInv ==
  TypeOK /\ SnapshotInv /\ SeenInv /\ ShipOnlyOnConfirmedFunds
    /\ EverythingAnnounced

\* The expiry of a lone process is all it has to do, and still due.
ExpireInv ==
  \A p \in Procs : \A i \in DOMAIN work[p] : work[p][i].op = "expire" =>
    work[p] = <<ExpireTask>> /\ Stored(invoice) = {}

-----------------------------------------------------------------------------
(* The order of the status rows of a lone process.                         *)

Said == {i \in DOMAIN outbox : outbox[i].event # "payment.detected"}

\* No row says more than inv, and if one says that just this is completed
\* then inv is.
Above(inv) ==
  \A i \in Said :
    /\ outbox[i].total <= inv.received
    /\ outbox[i].event = "completed" /\ outbox[i].total = inv.received
         => Stored(inv) \subseteq Confirmed(inv)

\* The total of a row and its event go together.
RowShape(r) ==
  /\ r.event \in {"partial", "confirming", "completed", "expired"}
  /\ r.event = "partial" => 0 < r.total /\ r.total < Price
  /\ r.event \in {"confirming", "completed"} => r.total >= Price
  /\ r.event = "expired" => r.total = 0

RowsInv ==
  /\ \A i \in Said : RowShape(outbox[i])
  /\ \A i, j \in Said : i < j => outbox[i].total <= outbox[j].total
  /\ \A i, j \in Said :
       i < j /\ outbox[i].event = "completed" /\ outbox[j].event = "confirming"
         => outbox[i].total < outbox[j].total

\* What is read later holds more.
ReadsInv ==
  \A p \in Procs : \A m, n \in DOMAIN work[p] :
    m < n /\ work[p][m].op = "settle" /\ work[p][n].op = "settle" =>
      /\ Stored(work[p][m].read) \subseteq Stored(work[p][n].read)
      /\ Confirmed(work[p][m].read) \subseteq Confirmed(work[p][n].read)

AboveInv ==
  /\ Above(invoice)
  /\ \A p \in Procs : \A i \in DOMAIN work[p] :
       work[p][i].op = "settle" => Above(work[p][i].read)

LoneInv ==
  SettleInv /\ ExpireInv /\ RowsInv /\ ReadsInv /\ AboveInv
    /\ MerchantUpToDate

-----------------------------------------------------------------------------
(* Snapshots stay snapshots.                                               *)

\* The chain and the stored payments only grow.
Grows ==
  /\ value' = value /\ height <= height'
  /\ \A t \in Txs : mined[t] # 0 => mined'[t] = mined[t]
  /\ Stored(invoice) \subseteq Stored(invoice')
  /\ Confirmed(invoice) \subseteq Confirmed(invoice')

\* A transfer that was deep at a past height is deep now and from now on.
LEMMA DeepStays ==
  ASSUME TypeOK, NEW t \in Txs, NEW tip \in Nat, tip <= height, Deep(t, tip)
  PROVE  /\ t \in DeepNow
         /\ Grows /\ height' \in Nat => t \in DeepNow' /\ Deep(t, tip)'
<1>1. height \in Nat /\ mined[t] \in Nat /\ Depth \in Nat \ {0}
  BY SettlementAssumption DEF TypeOK, SettlementAssumption
<1>2. mined[t] # 0
  BY <1>1 DEF Deep, Confirmations
<1>3. t \in DeepNow
  BY <1>1, <1>2 DEF DeepNow, Deep, Confirmations
<1>4. ASSUME Grows, height' \in Nat PROVE t \in DeepNow' /\ Deep(t, tip)'
  BY <1>1, <1>2, <1>4 DEF DeepNow, Deep, Confirmations, Grows
<1> QED  BY <1>3, <1>4

\* What is deep now stays so.
LEMMA DeepNowGrows ==
  ASSUME TypeOK, Grows, height' \in Nat
  PROVE  DeepNow \subseteq DeepNow'
<1>1. ASSUME NEW t \in DeepNow PROVE t \in DeepNow'
  <2>1. height \in Nat /\ t \in Txs /\ Deep(t, height)
    BY <1>1, SettlementAssumption DEF TypeOK, SettlementAssumption, DeepNow
  <2> QED  BY <2>1, DeepStays
<1> QED  BY <1>1

\* A snapshot stays one.
LEMMA SnapshotStays ==
  ASSUME TypeOK, Grows, height' \in Nat, NEW inv, Snapshot(inv)
  PROVE  Snapshot(inv)'
<1>1. DeepNow \subseteq DeepNow'
  BY DeepNowGrows
<1>2. Total(Stored(inv))' = Total(Stored(inv))
  BY DEF Grows, Total, Units, Stored
<1> QED  BY <1>1, <1>2 DEF Snapshot, Grows, Stored, Confirmed

\* So does a task.
LEMMA TaskStays ==
  ASSUME TypeOK, Grows, height' \in Nat, NEW task \in Tasks, TaskOK(task)
  PROVE  TaskOK(task)'
<1>1. Snapshot(task.read)'
  BY SnapshotStays DEF TaskOK
<1>2. task.tip \in Nat /\ height \in Nat
  BY SettlementAssumption DEF Tasks, TypeOK, SettlementAssumption
<1>3. task.tip <= height'
  BY <1>2 DEF TaskOK, Grows
<1>4. task.op \in {"cross", "complete"} =>
        task.tx \in DeepNow' \cap Stored(invoice')
  BY DeepNowGrows DEF TaskOK, Grows
<1>5. Stored(invoice) # {} => Stored(invoice') # {}
  BY DEF Grows
<1>6. /\ Stored(task.read)' = Stored(task.read)
      /\ Stored(invoice)' = Stored(invoice')
  BY DEF Stored
<1> QED  BY <1>1, <1>3, <1>4, <1>5, <1>6 DEF TaskOK

\* Snapshots are handed on, in a step that may add to the invoice.
LEMMA SnapshotStep ==
  ASSUME TypeOK, SnapshotInv, Grows, height' \in Nat, Snapshot(invoice)',
         \A q \in Procs : copy'[q] = copy[q] \/ copy'[q] = invoice,
         \A q \in Procs : \A i \in DOMAIN polls'[q] :
           \/ \E j \in DOMAIN polls[q] : polls'[q][i] = polls[q][j]
           \/ polls'[q][i].copy = copy[q] /\ polls'[q][i].tip = height,
         \A q \in Procs : \A i \in DOMAIN work'[q] :
           \/ \E j \in DOMAIN work[q] : work'[q][i] = work[q][j]
           \/ \E task : work'[q][i] = task /\ TaskOK(task)'
  PROVE  SnapshotInv'
<1>1. \A inv : Snapshot(inv) => Snapshot(inv)'
  BY SnapshotStays
<1>2. ASSUME NEW q \in Procs PROVE Snapshot(copy[q])'
  <2>1. PICK inv : inv = copy'[q] /\ Snapshot(inv)
    BY DEF SnapshotInv
  <2>2. Snapshot(inv)'
    BY <1>1, <2>1
  <2> QED  BY <2>1, <2>2 DEF Snapshot
<1>3. ASSUME NEW q \in Procs, NEW i \in DOMAIN polls'[q]
      PROVE  Snapshot(polls[q][i].copy)' /\ polls'[q][i].tip <= height'
  <2>1. PICK poll : poll = polls'[q][i] /\ Snapshot(poll.copy)
                      /\ poll.tip <= height /\ poll.tip \in Nat
    <3>1. CASE \E j \in DOMAIN polls[q] : polls'[q][i] = polls[q][j]
      <4>1. PICK j \in DOMAIN polls[q] : polls'[q][i] = polls[q][j]
        BY <3>1
      <4>2. Snapshot(polls[q][j].copy) /\ polls[q][j].tip <= height
        BY DEF SnapshotInv
      <4>3. polls[q] \in Seq(Polls)
        BY DEF TypeOK
      <4>4. polls[q][j] \in Polls
        BY <4>3, LenProperties, ElementOfSeq
      <4>5. polls[q][j].tip \in Nat
        BY <4>4, SettlementAssumption DEF Polls, SettlementAssumption
      <4> QED  BY <4>1, <4>2, <4>5
    <3>2. CASE polls'[q][i].copy = copy[q] /\ polls'[q][i].tip = height
      <4>1. height \in Nat
        BY SettlementAssumption DEF TypeOK, SettlementAssumption
      <4> QED  BY <3>2, <4>1 DEF SnapshotInv
    <3> QED  BY <3>1, <3>2
  <2>2. Snapshot(poll.copy)'
    BY <1>1, <2>1
  <2>3. height \in Nat /\ height <= height'
    BY SettlementAssumption DEF TypeOK, SettlementAssumption, Grows
  <2> QED  BY <2>1, <2>2, <2>3 DEF Snapshot
<1>4. ASSUME NEW q \in Procs, NEW i \in DOMAIN work'[q]
      PROVE  TaskOK(work[q][i])'
  <2>1. PICK task : task = work'[q][i] /\ TaskOK(task)'
    <3>1. CASE \E j \in DOMAIN work[q] : work'[q][i] = work[q][j]
      <4>1. PICK j \in DOMAIN work[q] : work'[q][i] = work[q][j]
        BY <3>1
      <4>2. TaskOK(work[q][j])
        BY DEF SnapshotInv
      <4>3. work[q] \in Seq(Tasks)
        BY DEF TypeOK
      <4>4. work[q][j] \in Tasks
        BY <4>3, LenProperties, ElementOfSeq
      <4>5. PICK task : task = work[q][j]
        OBVIOUS
      <4>6. TaskOK(task)'
        BY <4>2, <4>4, <4>5, TaskStays
      <4> QED  BY <4>1, <4>5, <4>6
    <3>2. CASE \E task : work'[q][i] = task /\ TaskOK(task)'
      BY <3>2
    <3> QED  BY <3>1, <3>2
  <2> QED  BY <2>1 DEF TaskOK, Snapshot
<1> QED  BY <1>2, <1>3, <1>4 DEF SnapshotInv

-----------------------------------------------------------------------------
(* What the operations on the store do.                                    *)

Rows == [event : {"payment.detected"} \cup Statuses,
         total : Nat, tx : Txs \cup {NoTx}]

\* The task constructors make tasks.
LEMMA TaskTypes ==
  ASSUME NEW t \in Txs, NEW inv \in Invoices, NEW q \in Polls
  PROVE  /\ Fresh \in Invoices
         /\ SettleTask(t, inv) \in Tasks /\ ConfirmTask(t) \in Tasks
         /\ RefreshTask \in Tasks /\ ExpireTask \in Tasks
         /\ DetectTask(t, q) \in Tasks
         /\ CrossTask(t) \in Tasks /\ CompleteTask(t) \in Tasks
<1>1. Fresh \in Invoices
  BY DEF Fresh, Invoices, Statuses, Active, Terminal
<1>2. q.copy \in Invoices /\ q.tip \in 0..(MaxHeight + 1)
  BY SettlementAssumption DEF Polls, SettlementAssumption
<1> QED  BY <1>1, <1>2, SettlementAssumption
         DEF SettleTask, ConfirmTask, RefreshTask, ExpireTask, DetectTask,
             CrossTask, CompleteTask, Task, Tasks, SettlementAssumption

\* The outbox keeps its rows, and has the new one once.
LEMMA UpsertEffect ==
  ASSUME NEW rows \in Seq(Rows), NEW r \in Rows
  PROVE  /\ Upsert(rows, r) \in Seq(Rows)
         /\ \A i \in DOMAIN rows : /\ i \in DOMAIN Upsert(rows, r)
                                   /\ Upsert(rows, r)[i] = rows[i]
         /\ \E i \in DOMAIN Upsert(rows, r) : Upsert(rows, r)[i] = r
         /\ \/ Upsert(rows, r) = rows
            \/ /\ DOMAIN rows = 1..Len(rows) /\ Len(rows) \in Nat
               /\ DOMAIN Upsert(rows, r) = 1..(Len(rows) + 1)
               /\ Upsert(rows, r)[Len(rows) + 1] = r
<1>1. Len(rows) \in Nat /\ DOMAIN rows = 1..Len(rows)
  BY LenProperties
<1>2. CASE Contains(rows, r)
  BY <1>1, <1>2 DEF Upsert, Contains
<1>3. CASE ~Contains(rows, r)
  <2>1. Upsert(rows, r) = Append(rows, r)
    BY <1>3 DEF Upsert
  <2>2. /\ Append(rows, r) \in Seq(Rows)
        /\ DOMAIN Append(rows, r) = 1..(Len(rows) + 1)
        /\ \A i \in DOMAIN rows : Append(rows, r)[i] = rows[i]
        /\ Append(rows, r)[Len(rows) + 1] = r
    BY AppendElements
  <2> DEFINE new == Append(rows, r)
             n   == Len(rows)
  <2> HIDE DEF new, n
  <2>3. /\ n \in Nat /\ DOMAIN rows = 1..n /\ DOMAIN new = 1..(n + 1)
        /\ new[n + 1] = r
    BY <1>1, <2>2 DEF new, n
  <2>4. \A i \in DOMAIN rows : i \in DOMAIN new
    BY <2>3
  <2>5. n + 1 \in DOMAIN new
    BY <2>3
  <2>6. \E i \in DOMAIN new : new[i] = r
    BY <2>3, <2>5
  <2> QED  BY <2>1, <2>2, <2>3, <2>4, <2>6 DEF new, n
<1> QED  BY <1>2, <1>3

\* A recorded transfer is stored, once, at the depth it has.
LEMMA RecordEffect ==
  ASSUME TypeOK, Snapshot(invoice), NEW t \in Txs,
         NEW tip \in Nat, tip <= height
  PROVE  /\ Record(invoice, t, tip) \in Invoices
         /\ Record(invoice, t, tip).status = invoice.status
         /\ Record(invoice, t, tip).received
              = Total(Stored(Record(invoice, t, tip)))
         /\ Stored(Record(invoice, t, tip)) = Stored(invoice) \cup {t}
         /\ Confirmed(invoice) \subseteq Confirmed(Record(invoice, t, tip))
         /\ Confirmed(Record(invoice, t, tip)) \subseteq DeepNow
<1> DEFINE level == IF Deep(t, tip) THEN "confirmed" ELSE "confirming"
           paid  == [invoice.paid EXCEPT ![t] =
                      IF @ = "none" THEN level ELSE @]
           sum   == Total({u \in Txs : paid[u] # "none"})
           new   == [invoice EXCEPT !.paid = paid, !.received = sum]
<1>1. Record(invoice, t, tip) = new
  BY DEF Record
<1>2. /\ invoice \in Invoices /\ value \in [Txs -> Values]
      /\ invoice.paid \in [Txs -> {"none", "confirming", "confirmed"}]
      /\ invoice.status \in Statuses
  BY DEF TypeOK, Invoices
<1>3. paid \in [Txs -> {"none", "confirming", "confirmed"}]
  BY <1>2
<1>4. \A u \in Txs : paid[u] = IF u = t /\ invoice.paid[t] = "none"
                               THEN level ELSE invoice.paid[u]
  BY <1>2
<1> HIDE DEF paid
<1>5. sum \in Nat
  BY <1>2, TotalZero
<1> HIDE DEF sum
<1>6. /\ new \in Invoices /\ new.status = invoice.status
      /\ new.received = sum /\ new.paid = paid
  BY <1>2, <1>3, <1>5 DEF Invoices
<1>7. Stored(new) = {u \in Txs : paid[u] # "none"}
  BY <1>6 DEF Stored
<1>8. new.received = Total(Stored(new))
  BY <1>6, <1>7 DEF sum
<1>9. Stored(new) = Stored(invoice) \cup {t}
  BY <1>2, <1>4, <1>7 DEF Stored
<1>10. Confirmed(invoice) \subseteq Confirmed(new)
  BY <1>4, <1>6 DEF Confirmed
<1>11. ASSUME NEW u \in Confirmed(new) PROVE u \in DeepNow
  <2>1. u \in Txs /\ paid[u] = "confirmed"
    BY <1>6, <1>11 DEF Confirmed
  <2>2. CASE invoice.paid[u] = "confirmed"
    BY <2>1, <2>2 DEF Snapshot, Confirmed
  <2>3. CASE u = t /\ level = "confirmed"
    BY <2>3, DeepStays
  <2> QED  BY <1>4, <2>1, <2>2, <2>3
<1> HIDE DEF new
<1> QED  BY <1>1, <1>6, <1>8, <1>9, <1>10, <1>11

\* Confirming touches one level only.
LEMMA ConfirmEffect ==
  ASSUME TypeOK, Snapshot(invoice), NEW t \in Txs, t \in DeepNow
  PROVE  /\ Confirm(invoice, t) \in Invoices
         /\ Confirm(invoice, t).status = invoice.status
         /\ Confirm(invoice, t).received
              = Total(Stored(Confirm(invoice, t)))
         /\ Stored(Confirm(invoice, t)) = Stored(invoice)
         /\ Confirmed(invoice) \subseteq Confirmed(Confirm(invoice, t))
         /\ Confirmed(Confirm(invoice, t)) \subseteq DeepNow
<1>1. CASE t \notin Stored(invoice)
  BY <1>1 DEF Confirm, Snapshot, TypeOK
<1>2. CASE t \in Stored(invoice)
  <2> DEFINE new == [invoice EXCEPT !.paid[t] = "confirmed"]
  <2>1. Confirm(invoice, t) = new
    BY <1>2 DEF Confirm
  <2>2. /\ invoice \in Invoices
        /\ invoice.paid \in [Txs -> {"none", "confirming", "confirmed"}]
    BY DEF TypeOK, Invoices
  <2>3. /\ new \in Invoices /\ new.status = invoice.status
        /\ new.received = invoice.received
        /\ new.paid = [invoice.paid EXCEPT ![t] = "confirmed"]
    BY <2>2 DEF Invoices
  <2> HIDE DEF new
  <2>4. Stored(new) = Stored(invoice)
    BY <1>2, <2>2, <2>3 DEF Stored
  <2>5. Confirmed(invoice) \subseteq Confirmed(new)
    BY <2>2, <2>3 DEF Confirmed
  <2>6. Confirmed(new) \subseteq Confirmed(invoice) \cup {t}
    BY <2>2, <2>3 DEF Confirmed
  <2> QED  BY <2>1, <2>3, <2>4, <2>5, <2>6 DEF Snapshot
<1> QED  BY <1>1, <1>2

\* What is decided of a snapshot with a payment.
LEMMA DecideEffect ==
  ASSUME TypeOK, NEW inv \in Invoices, Snapshot(inv)
  PROVE  /\ decideStatus(inv) \in Active \cup {"completed"}
         /\ decideStatus(inv) = "completed" =>
              /\ Total(DeepNow) >= Price
              /\ Stored(inv) \subseteq Confirmed(inv)
              /\ inv.received >= Price
         /\ decideStatus(inv) = "confirming" =>
              inv.received >= Price /\ ~(Stored(inv) \subseteq Confirmed(inv))
         /\ Stored(inv) # {} => decideStatus(inv) # "pending"
         /\ decideStatus(inv) = "partial" =>
              0 < inv.received /\ inv.received < Price
<1>1. /\ value \in [Txs -> Values] /\ inv.received \in Nat
      /\ Price \in Nat \ {0} /\ Stored(inv) \in SUBSET Txs
      /\ Confirmed(inv) \subseteq Stored(inv) /\ DeepNow \in SUBSET Txs
  BY SettlementAssumption
     DEF TypeOK, Invoices, SettlementAssumption, Stored, Confirmed, DeepNow
<1>2. inv.received = 0 <=> Stored(inv) = {}
  BY <1>1, TotalZero DEF Snapshot
<1>3. decideStatus(inv) = "completed" =>
        inv.received >= Price /\ Stored(inv) = Confirmed(inv)
  BY DEF decideStatus
<1>4. ASSUME inv.received >= Price, Stored(inv) = Confirmed(inv)
      PROVE  Total(DeepNow) >= Price
  <2>1. Stored(inv) \in SUBSET DeepNow
    BY <1>4 DEF Snapshot
  <2>2. Total(Stored(inv)) <= Total(DeepNow) /\ Total(DeepNow) \in Nat
    BY <1>1, <2>1, TotalMonotone
  <2> QED  BY <1>1, <1>4, <2>2 DEF Snapshot
<1>5. /\ decideStatus(inv) \in Active \cup {"completed"}
      /\ decideStatus(inv) = "confirming" =>
           inv.received >= Price /\ ~(Stored(inv) \subseteq Confirmed(inv))
  BY <1>1, <1>2 DEF decideStatus, Active
<1>6. /\ Stored(inv) # {} => decideStatus(inv) # "pending"
      /\ decideStatus(inv) = "partial" =>
           0 < inv.received /\ inv.received < Price
  BY <1>1, <1>2 DEF decideStatus
<1> QED  BY <1>3, <1>4, <1>5, <1>6

-----------------------------------------------------------------------------
(* What a step must do to keep the invariant.                              *)

\* A completion is decided on buried money, and money stays buried.
LEMMA ShipStep ==
  ASSUME SettleInv, TypeOK', Grows,
         invoice'.status = "completed" =>
           invoice.status = "completed" \/ Total(DeepNow) >= Price,
         \A i \in DOMAIN outbox' : outbox'[i].event = "completed" =>
           \/ i \in DOMAIN outbox /\ outbox[i].event = "completed"
           \/ Total(DeepNow) >= Price
  PROVE  ShipOnlyOnConfirmedFunds'
<1>1. DeepNow \subseteq DeepNow' /\ DeepNow' \in SUBSET Txs
  <2>1. height' \in Nat
    BY SettlementAssumption DEF TypeOK, SettlementAssumption
  <2> QED  BY <2>1, DeepNowGrows DEF SettleInv, DeepNow
<1>2. \A D \in SUBSET Txs : Total(D)' = Total(D)
  BY DEF Grows, Total, Units
<1>3. /\ Total(DeepNow) <= Total(DeepNow') /\ Total(DeepNow') \in Nat
      /\ Total(DeepNow) \in Nat /\ Price \in Nat
  BY <1>1, TotalMonotone, SettlementAssumption
     DEF SettleInv, TypeOK, SettlementAssumption
<1>4. Total({t \in Txs : Deep(t, height)})' = Total(DeepNow')
  BY <1>1, <1>2 DEF DeepNow
<1>5. CASE Total(DeepNow) >= Price
  BY <1>3, <1>4, <1>5 DEF ShipOnlyOnConfirmedFunds
<1>6. CASE ~(Total(DeepNow) >= Price)
  BY <1>6 DEF SettleInv, ShipOnlyOnConfirmedFunds, DeepNow
<1> QED  BY <1>5, <1>6

\* Rows stay; a new payment or status has its row.
LEMMA AnnounceStep ==
  ASSUME SettleInv,
         \A i \in DOMAIN outbox :
           i \in DOMAIN outbox' /\ outbox'[i] = outbox[i],
         \A t \in Stored(invoice') :
           \/ t \in Stored(invoice)
           \/ \E i \in DOMAIN outbox' :
                outbox'[i].event = "payment.detected" /\ outbox'[i].tx = t,
         \/ invoice'.status = invoice.status
         \/ \E i \in DOMAIN outbox' : outbox'[i].event = invoice'.status
  PROVE  EverythingAnnounced'
<1>1. ASSUME NEW t \in Stored(invoice')
      PROVE  \E i \in DOMAIN outbox' :
               outbox'[i].event = "payment.detected" /\ outbox'[i].tx = t
  BY <1>1 DEF SettleInv, EverythingAnnounced
<1>2. invoice'.status # "pending" =>
        \E i \in DOMAIN outbox' : outbox'[i].event = invoice'.status
  BY DEF SettleInv, EverythingAnnounced
<1>3. Stored(invoice)' = Stored(invoice')
  BY DEF Stored
<1> QED  BY <1>1, <1>2, <1>3 DEF EverythingAnnounced

\* The store and the chain are not touched.
LEMMA QuietStep ==
  ASSUME SettleInv, UNCHANGED chain, UNCHANGED store
  PROVE  /\ Grows /\ height' \in Nat /\ Snapshot(invoice)'
         /\ EverythingAnnounced' /\ ShipOnlyOnConfirmedFunds'
<1>1. Grows /\ height' \in Nat
  BY SettlementAssumption
     DEF Grows, chain, store, SettleInv, TypeOK, SettlementAssumption
<1>2. Snapshot(invoice)'
  <2>1. Snapshot(invoice)
    BY DEF SettleInv, SnapshotInv
  <2>2. PICK inv : inv = invoice
    OBVIOUS
  <2>3. Snapshot(inv)'
    BY <1>1, <2>1, <2>2, SnapshotStays DEF SettleInv
  <2> QED  BY <2>2, <2>3 DEF store, Snapshot
<1>3. EverythingAnnounced'
  BY AnnounceStep DEF store
<1>4. ShipOnlyOnConfirmedFunds'
  BY DEF SettleInv, ShipOnlyOnConfirmedFunds, store, chain, Total, Units,
         Deep, Confirmations
<1> QED  BY <1>1, <1>2, <1>3, <1>4

\* The queue of one process changes.
LEMMA QueueType ==
  ASSUME TypeOK, NEW p \in Procs, NEW w \in Seq(Tasks),
         work' = [work EXCEPT ![p] = w]
  PROVE  /\ work' \in [Procs -> Seq(Tasks)] /\ work'[p] = w
         /\ \A q \in Procs : q # p => work'[q] = work[q]
  BY DEF TypeOK

\* The head of a queue, and what is left without it.
LEMMA HeadTask ==
  ASSUME TypeOK, SnapshotInv, NEW p \in Procs, work[p] # <<>>
  PROVE  /\ Head(work[p]) \in Tasks /\ TaskOK(Head(work[p]))
         /\ Head(work[p]) = work[p][1] /\ 1 \in DOMAIN work[p]
         /\ Tail(work[p]) \in Seq(Tasks)
         /\ \A i \in DOMAIN Tail(work[p]) :
              i + 1 \in DOMAIN work[p] /\ Tail(work[p])[i] = work[p][i + 1]
<1>1. work[p] \in Seq(Tasks)
  BY DEF TypeOK
<1>2. /\ Head(work[p]) \in Tasks
      /\ Head(work[p]) = work[p][1] /\ 1 \in DOMAIN work[p]
      /\ Tail(work[p]) \in Seq(Tasks)
      /\ \A i \in DOMAIN Tail(work[p]) :
           i + 1 \in DOMAIN work[p] /\ Tail(work[p])[i] = work[p][i + 1]
  BY <1>1, TailElements
<1>3. TaskOK(work[p][1])
  BY <1>2 DEF SnapshotInv
<1> QED  BY <1>2, <1>3

-----------------------------------------------------------------------------
(* Every step keeps the invariant.  First the steps that only read.        *)

\* A confirmation rereads the invoice.
LEMMA ConfirmKeeps ==
  ASSUME SettleInv, NEW p \in Procs, ConfirmStep(p)
  PROVE  SettleInv'
<1> DEFINE head == Head(work[p])
           task == SettleTask(head.tx, invoice)
           w    == Append(Tail(work[p]), task)
<1>1. TypeOK /\ SnapshotInv /\ SeenInv
  BY DEF SettleInv
<1>2. /\ UNCHANGED <<chain, late, store, up, monitor, polls, crashes>>
      /\ up[p] /\ work[p] # <<>> /\ head.op = "confirm"
      /\ work' = [work EXCEPT ![p] = w]
  BY DEF ConfirmStep, Next1
<1>3. head.tx \in Txs /\ Stored(invoice) # {} /\ Tail(work[p]) \in Seq(Tasks)
  BY <1>1, <1>2, HeadTask DEF TaskOK
<1>4. task \in Tasks
  <2>1. invoice \in Invoices
    BY <1>1 DEF TypeOK
  <2> QED  BY <1>3, <2>1, SettlementAssumption
           DEF SettleTask, Task, Tasks, SettlementAssumption
<1>5. Grows /\ height' \in Nat /\ Snapshot(invoice)' /\ EverythingAnnounced'
        /\ ShipOnlyOnConfirmedFunds'
  BY <1>2, QuietStep
<1>6. \E k : k = task /\ TaskOK(k)'
  <2>1. PICK k : k = task
    OBVIOUS
  <2>2. /\ k.read = invoice /\ k.op = "settle" /\ k.tip = 0 /\ k.tx = head.tx
    BY <2>1 DEF SettleTask, Task
  <2>3. invoice' = invoice
    BY <1>2 DEF store
  <2>4. Snapshot(k.read)'
    BY <1>5, <2>2, <2>3 DEF Snapshot
  <2>5. Stored(k.read)' # {}
    BY <1>3, <2>2 DEF Stored
  <2> QED  BY <1>3, <1>5, <2>1, <2>2, <2>4, <2>5 DEF TaskOK
<1> HIDE DEF task
<1>7. w \in Seq(Tasks) /\ \A i \in DOMAIN w :
        (\E j \in DOMAIN work[p] : w[i] = work[p][j]) \/ w[i] = task
  <2>1. /\ \A i \in DOMAIN Tail(work[p]) :
             i + 1 \in DOMAIN work[p] /\ Tail(work[p])[i] = work[p][i + 1]
    BY <1>1, <1>2, HeadTask
  <2>2. /\ w \in Seq(Tasks)
        /\ Len(Tail(work[p])) \in Nat
        /\ DOMAIN Tail(work[p]) = 1..Len(Tail(work[p]))
        /\ DOMAIN w = 1..(Len(Tail(work[p])) + 1)
        /\ \A i \in DOMAIN Tail(work[p]) : w[i] = Tail(work[p])[i]
        /\ w[Len(Tail(work[p])) + 1] = task
    BY <1>3, <1>4, AppendElements
  <2> HIDE DEF w
  <2> QED  BY <2>1, <2>2
<1> HIDE DEF w
<1>8. /\ work' \in [Procs -> Seq(Tasks)] /\ work'[p] = w
      /\ \A q \in Procs : q # p => work'[q] = work[q]
  BY <1>1, <1>2, <1>7, QueueType
<1>9. SnapshotInv'
  <2>1. ASSUME NEW q \in Procs, NEW i \in DOMAIN work'[q]
        PROVE  \/ \E j \in DOMAIN work[q] : work'[q][i] = work[q][j]
               \/ \E k : work'[q][i] = k /\ TaskOK(k)'
    BY <1>6, <1>7, <1>8
  <2> QED  BY <1>1, <1>2, <1>5, <2>1, SnapshotStep DEF monitor
<1>10. TypeOK'
  BY <1>1, <1>2, <1>8 DEF TypeOK, chain, store, monitor, Polls, Tasks, Stored,
     Invoices
<1>11. SeenInv'
  BY <1>1, <1>2 DEF SeenInv, store, monitor
<1> QED  BY <1>5, <1>9, <1>10, <1>11 DEF SettleInv

\* The monitor is handed a copy of the invoice.
LEMMA RefreshKeeps ==
  ASSUME SettleInv, NEW p \in Procs, RefreshStep(p)
  PROVE  SettleInv'
<1> DEFINE w == Tail(work[p])
<1>1. TypeOK /\ SnapshotInv /\ SeenInv
  BY DEF SettleInv
<1>2. /\ UNCHANGED <<chain, late, store, up, tracked, seen, polls, crashes>>
      /\ up[p] /\ work[p] # <<>>
      /\ work' = [work EXCEPT ![p] = w]
      /\ copy' = [copy EXCEPT ![p] = IF tracked[p] THEN invoice ELSE @]
  BY DEF RefreshStep, Next1
<1>3. w \in Seq(Tasks) /\ \A i \in DOMAIN w :
        \E j \in DOMAIN work[p] : w[i] = work[p][j]
  BY <1>1, <1>2, HeadTask
<1> HIDE DEF w
<1>4. Grows /\ height' \in Nat /\ Snapshot(invoice)' /\ EverythingAnnounced'
        /\ ShipOnlyOnConfirmedFunds'
  BY <1>2, QuietStep
<1>5. /\ work' \in [Procs -> Seq(Tasks)] /\ work'[p] = w
      /\ \A q \in Procs : q # p => work'[q] = work[q]
  BY <1>1, <1>2, <1>3, QueueType
<1>6. /\ copy' \in [Procs -> Invoices]
      /\ \A q \in Procs : copy'[q] = copy[q] \/ (copy'[q] = invoice /\ up[q])
  BY <1>1, <1>2 DEF TypeOK
<1>7. SnapshotInv'
  <2>1. ASSUME NEW q \in Procs, NEW i \in DOMAIN work'[q]
        PROVE  \E j \in DOMAIN work[q] : work'[q][i] = work[q][j]
    BY <1>3, <1>5
  <2> QED  BY <1>1, <1>2, <1>4, <1>6, <2>1, SnapshotStep
<1>8. ASSUME NEW q \in Procs, Procs = {q}, tracked'[q]
      PROVE  Stored(copy'[q]) \subseteq seen'[q]
  BY <1>1, <1>2, <1>6, <1>8 DEF TypeOK, SeenInv
<1>9. TypeOK'
  BY <1>1, <1>2, <1>5, <1>6, <1>8 DEF TypeOK, chain, store, Polls, Tasks,
     Stored, Invoices
<1>10. SeenInv'
  BY <1>1, <1>2 DEF SeenInv, store
<1> QED  BY <1>4, <1>7, <1>9, <1>10 DEF SettleInv

\* A timer or a poll finds the invoice expired.
LEMMA DueKeeps ==
  ASSUME SettleInv, NEW p \in Procs, up[p],
         work' = [work EXCEPT ![p] = <<ExpireTask>>],
         UNCHANGED <<chain, late, store, up, monitor, polls, crashes>>
  PROVE  SettleInv'
<1>1. TypeOK /\ SnapshotInv /\ SeenInv
  BY DEF SettleInv
<1>2. Grows /\ height' \in Nat /\ Snapshot(invoice)' /\ EverythingAnnounced'
        /\ ShipOnlyOnConfirmedFunds'
  BY QuietStep
<1>3. Fresh \in Invoices /\ ExpireTask \in Tasks
  <2>1. Fresh \in Invoices
    BY DEF Fresh, Invoices, Statuses, Active, Terminal
  <2> QED  BY <2>1, SettlementAssumption
           DEF ExpireTask, Task, Tasks, SettlementAssumption
<1>4. \E k : k = ExpireTask /\ TaskOK(k)'
  <2>1. PICK k : k = ExpireTask
    OBVIOUS
  <2>2. k.read = Fresh /\ k.op = "expire" /\ k.tip = 0
    BY <2>1 DEF ExpireTask, Task
  <2>3. Stored(Fresh) = {} /\ Confirmed(Fresh) = {} /\ Fresh.received = 0
    BY DEF Stored, Confirmed, Fresh
  <2>4. Total({}) = 0
    BY <1>1, TotalZero DEF TypeOK
  <2>5. Snapshot(Fresh)
    BY <2>3, <2>4 DEF Snapshot
  <2>6. PICK inv : inv = Fresh
    OBVIOUS
  <2>7. Snapshot(inv)'
    BY <1>1, <1>2, <2>5, <2>6, SnapshotStays
  <2>8. Snapshot(k.read)'
    BY <2>2, <2>6, <2>7 DEF Snapshot
  <2> QED  BY <1>2, <2>1, <2>2, <2>8 DEF TaskOK
<1>5. <<ExpireTask>> \in Seq(Tasks)
  BY <1>3
<1>6. /\ work' \in [Procs -> Seq(Tasks)] /\ work'[p] = <<ExpireTask>>
      /\ \A q \in Procs : q # p => work'[q] = work[q]
  BY <1>1, <1>5, QueueType
<1>7. SnapshotInv'
  <2>1. ASSUME NEW q \in Procs, NEW i \in DOMAIN work'[q]
        PROVE  \/ \E j \in DOMAIN work[q] : work'[q][i] = work[q][j]
               \/ \E k : work'[q][i] = k /\ TaskOK(k)'
    <3>1. CASE q = p
      <4>1. work'[q][i] = ExpireTask
        BY <1>6, <3>1
      <4> QED  BY <1>4, <4>1
    <3>2. CASE q # p
      BY <1>6, <3>2
    <3> QED  BY <3>1, <3>2
  <2> QED  BY <1>1, <1>2, <2>1, SnapshotStep DEF monitor
<1>8. TypeOK'
  BY <1>1, <1>6 DEF TypeOK, chain, store, monitor, Polls, Tasks, Stored,
     Invoices
<1>9. SeenInv'
  BY <1>1 DEF SeenInv, store, monitor
<1> QED  BY <1>2, <1>7, <1>8, <1>9 DEF SettleInv

\* A poll begins.
LEMMA StartPollKeeps ==
  ASSUME SettleInv, NEW p \in Procs, StartPoll(p)
  PROVE  SettleInv'
<1>1. TypeOK /\ SnapshotInv /\ SeenInv
  BY DEF SettleInv
<1>2. /\ UNCHANGED <<chain, late, store, up, tracked, seen, crashes>>
      /\ up[p] /\ work[p] = <<>> /\ tracked[p]
      /\ ReportExpiry(p) \/ QueryWallet(p)
  BY DEF StartPoll, Idle
<1>3. Grows /\ height' \in Nat /\ Snapshot(invoice)' /\ EverythingAnnounced'
        /\ ShipOnlyOnConfirmedFunds'
  BY <1>2, QuietStep
<1>4. SeenInv'
  BY <1>1, <1>2 DEF SeenInv, store
<1>5. CASE copy' = [copy EXCEPT ![p] = invoice] /\ UNCHANGED <<work, polls>>
  <2>1. /\ copy' \in [Procs -> Invoices]
        /\ \A q \in Procs : copy'[q] = copy[q] \/ (copy'[q] = invoice /\ up[q])
    BY <1>1, <1>2, <1>5 DEF TypeOK
  <2>2. SnapshotInv'
    BY <1>1, <1>2, <1>3, <1>5, <2>1, SnapshotStep
  <2>3. ASSUME NEW q \in Procs, Procs = {q}, tracked'[q]
        PROVE  Stored(copy'[q]) \subseteq seen'[q]
    BY <1>1, <1>2, <2>1, <2>3 DEF TypeOK, SeenInv
  <2>4. TypeOK'
    BY <1>1, <1>2, <1>5, <2>1, <2>3 DEF TypeOK, chain, store, Polls, Tasks,
       Stored, Invoices
  <2> QED  BY <1>3, <1>4, <2>2, <2>4 DEF SettleInv
<1>6. CASE /\ work' = [work EXCEPT ![p] = <<ExpireTask>>]
           /\ UNCHANGED <<copy, polls>>
  BY <1>2, <1>6, DueKeeps DEF monitor
<1>7. CASE QueryWallet(p)
  <2> DEFINE new == [copy |-> copy[p], tip |-> height]
             w   == Append(polls[p], new)
  <2>1. /\ UNCHANGED <<copy, work>> /\ Len(polls[p]) < MaxPolls
        /\ polls' = [polls EXCEPT ![p] = w]
    BY <1>7 DEF QueryWallet
  <2>2. new \in Polls /\ polls[p] \in Seq(Polls)
    BY <1>1 DEF Polls, TypeOK
  <2>3. /\ w \in Seq(Polls) /\ Len(polls[p]) \in Nat
        /\ DOMAIN polls[p] = 1..Len(polls[p])
        /\ DOMAIN w = 1..(Len(polls[p]) + 1)
        /\ \A i \in DOMAIN polls[p] : w[i] = polls[p][i]
        /\ w[Len(polls[p]) + 1] = new
    BY <2>2, AppendElements
  <2>4. Len(w) = Len(polls[p]) + 1
    BY <2>2, AppendProperties
  <2> HIDE DEF w, new
  <2>5. /\ polls' \in [Procs -> Seq(Polls)] /\ polls'[p] = w
        /\ \A q \in Procs : q # p => polls'[q] = polls[q]
    BY <1>1, <2>1, <2>3 DEF TypeOK
  <2>6. new.copy = copy[p] /\ new.tip = height
    BY DEF new
  <2>7. ASSUME NEW q \in Procs, NEW i \in DOMAIN polls'[q]
        PROVE  \/ \E j \in DOMAIN polls[q] : polls'[q][i] = polls[q][j]
               \/ polls'[q][i].copy = copy[q] /\ polls'[q][i].tip = height
    <3>1. CASE q # p
      BY <2>5, <3>1
    <3>2. CASE q = p
      <4>1. i \in DOMAIN polls[p] \/ i = Len(polls[p]) + 1
        BY <2>3, <2>5, <3>2
      <4> QED  BY <2>3, <2>5, <2>6, <3>2, <4>1
    <3> QED  BY <3>1, <3>2
  <2>8. SnapshotInv'
    BY <1>1, <1>2, <1>3, <2>1, <2>7, SnapshotStep
  <2>9. Len(w) <= MaxPolls
    BY <2>1, <2>3, <2>4, SettlementAssumption DEF SettlementAssumption
  <2>10. TypeOK'
    BY <1>1, <1>2, <2>1, <2>5, <2>9 DEF TypeOK, chain, store, Polls, Tasks,
       Stored, Invoices
  <2> QED  BY <1>3, <1>4, <2>8, <2>10 DEF SettleInv
<1> QED  BY <1>2, <1>5, <1>6, <1>7 DEF ReportExpiry

\* The timer finds it expired.
LEMMA ExpiryTimerKeeps ==
  ASSUME SettleInv, NEW p \in Procs, checkExpiredInvoices(p)
  PROVE  SettleInv'
  BY DueKeeps DEF checkExpiredInvoices, Idle

\* An answered or failed query leaves the list of its process.
LEMMA PollDropped ==
  ASSUME TypeOK, NEW p \in Procs, NEW k \in DOMAIN polls[p],
         polls' = [polls EXCEPT ![p] = RemoveAt(@, k)]
  PROVE  /\ polls' \in [Procs -> Seq(Polls)]
         /\ \A q \in Procs : Len(polls'[q]) <= MaxPolls
         /\ \A q \in Procs : polls[q] = <<>> => polls'[q] = <<>>
         /\ \A q \in Procs : \A i \in DOMAIN polls'[q] :
              \E j \in DOMAIN polls[q] : polls'[q][i] = polls[q][j]
<1> DEFINE w == RemoveAt(polls[p], k)
<1>1. polls \in [Procs -> Seq(Polls)] /\ Len(polls[p]) <= MaxPolls
  BY DEF TypeOK
<1>2. /\ w \in Seq(Polls) /\ Len(w) = Len(polls[p]) - 1
      /\ \A i \in DOMAIN w : \E j \in DOMAIN polls[p] : w[i] = polls[p][j]
  BY <1>1, RemoveAtElements
<1>3. polls' = [polls EXCEPT ![p] = w]
  OBVIOUS
<1> HIDE DEF w
<1>4. /\ polls' \in [Procs -> Seq(Polls)] /\ polls'[p] = w
      /\ \A q \in Procs : q # p => polls'[q] = polls[q]
  BY <1>1, <1>2, <1>3
<1>5. Len(w) <= MaxPolls
  <2>1. Len(polls[p]) \in Nat /\ MaxPolls \in Nat
    BY <1>1, LenProperties, SettlementAssumption DEF SettlementAssumption
  <2> QED  BY <1>1, <1>2, <2>1
<1>6. polls[p] # <<>>
  <2>1. Len(polls[p]) \in Nat /\ DOMAIN polls[p] = 1..Len(polls[p])
    BY <1>1, LenProperties
  <2> QED  BY <2>1
<1>7. \A q \in Procs : Len(polls[q]) <= MaxPolls
  BY DEF TypeOK
<1>8. ASSUME NEW q \in Procs
      PROVE  /\ Len(polls'[q]) <= MaxPolls
             /\ polls[q] = <<>> => polls'[q] = <<>>
             /\ \A i \in DOMAIN polls'[q] :
                  \E j \in DOMAIN polls[q] : polls'[q][i] = polls[q][j]
  <2>1. CASE q = p
    BY <1>2, <1>4, <1>5, <1>6, <2>1
  <2>2. CASE q # p
    BY <1>4, <1>7, <2>2
  <2> QED  BY <2>1, <2>2
<1> QED  BY <1>4, <1>8

\* The wallet fails.
LEMMA FailPollKeeps ==
  ASSUME SettleInv, NEW p \in Procs, FailPoll(p)
  PROVE  SettleInv'
<1>1. TypeOK /\ SnapshotInv /\ SeenInv
  BY DEF SettleInv
<1>2. UNCHANGED <<chain, late, store, up, monitor, work, crashes>>
  BY DEF FailPoll
<1>3. PICK k \in DOMAIN polls[p] :
        polls' = [polls EXCEPT ![p] = RemoveAt(@, k)]
  BY DEF FailPoll
<1>4. /\ polls' \in [Procs -> Seq(Polls)]
      /\ \A q \in Procs : Len(polls'[q]) <= MaxPolls
      /\ \A q \in Procs : polls[q] = <<>> => polls'[q] = <<>>
      /\ \A q \in Procs : \A i \in DOMAIN polls'[q] :
           \E j \in DOMAIN polls[q] : polls'[q][i] = polls[q][j]
  BY <1>1, <1>3, PollDropped
<1>5. Grows /\ height' \in Nat /\ Snapshot(invoice)' /\ EverythingAnnounced'
        /\ ShipOnlyOnConfirmedFunds'
  BY <1>2, QuietStep
<1>6. SnapshotInv'
  BY <1>1, <1>2, <1>4, <1>5, SnapshotStep DEF monitor
<1>7. TypeOK'
  BY <1>1, <1>2, <1>4 DEF TypeOK, chain, store, monitor, Polls, Tasks, Stored,
     Invoices
<1>8. SeenInv'
  BY <1>1, <1>2 DEF SeenInv, store, monitor
<1> QED  BY <1>5, <1>6, <1>7, <1>8 DEF SettleInv

\* A task that reads nothing is a good one.
LEMMA PlainTasks ==
  ASSUME TypeOK, Snapshot(invoice), NEW t \in Txs
  PROVE  /\ TaskOK(RefreshTask)
         /\ Stored(invoice) # {} => TaskOK(ConfirmTask(t))
         /\ t \in DeepNow \cap Stored(invoice) =>
              TaskOK(CrossTask(t)) /\ TaskOK(CompleteTask(t))
<1>1. Stored(Fresh) = {} /\ Confirmed(Fresh) = {} /\ Fresh.received = 0
  BY DEF Stored, Confirmed, Fresh
<1>2. Total({}) = 0
  BY TotalZero DEF TypeOK
<1>3. Snapshot(Fresh)
  BY <1>1, <1>2 DEF Snapshot
<1>4. 0 <= height
  BY SettlementAssumption DEF TypeOK, SettlementAssumption
<1> QED  BY <1>3, <1>4 DEF TaskOK, RefreshTask, ConfirmTask,
     CrossTask, CompleteTask, Task

\* A finite set is put in sequence by its elements.
LEMMA QueuedSet ==
  ASSUME NEW G, NEW F \in SUBSET G, IsFiniteSet(F), NEW tasks \in SetToSeqs(F)
  PROVE  tasks \in Seq(G)
<1>1. Cardinality(F) \in Nat
  BY FS_CardinalityType
<1>2. tasks \in [1..Cardinality(F) -> F]
  BY DEF SetToSeqs
<1> QED  BY <1>1, <1>2, SeqDef

\* Good tasks of a poll.
Found == {task \in Tasks : /\ TaskOK(task)
                           /\ task.op \in {"detect", "cross", "complete"}}

\* What a poll finds is finitely many good tasks, in the entries by the copy
\* it took and after them by the copy of now.
LEMMA FindingsOK ==
  ASSUME TypeOK, SnapshotInv, NEW p \in Procs, NEW q \in Polls,
         Snapshot(q.copy), q.tip <= height
  PROVE  /\ IsFiniteSet(Entries(p, q)) /\ IsFiniteSet(Crossings(p, q))
         /\ Entries(p, q) \subseteq Found /\ Crossings(p, q) \subseteq Found
<1>1. /\ IsFiniteSet(OnChain \ seen[p]) /\ OnChain \ seen[p] \subseteq Txs
      /\ \A inv : IsFiniteSet(Crossed(inv, q.tip))
      /\ \A inv : IsFiniteSet(seen[p] \cap Crossed(inv, q.tip))
  <2>1. IsFiniteSet(Txs)
    BY SettlementAssumption DEF SettlementAssumption
  <2>2. OnChain \ seen[p] \subseteq Txs
    BY DEF OnChain
  <2>3. \A inv : Crossed(inv, q.tip) \subseteq Txs
    BY DEF Crossed
  <2> QED  BY <2>1, <2>2, <2>3, FS_Subset
<1>2. q.copy \in Invoices /\ q.tip \in Nat /\ Snapshot(copy[p])
  BY SettlementAssumption DEF Polls, SettlementAssumption, SnapshotInv
<1>3. ASSUME NEW t \in Txs
      PROVE  /\ DetectTask(t, q) \in Tasks /\ TaskOK(DetectTask(t, q))
             /\ CrossTask(t) \in Tasks /\ CompleteTask(t) \in Tasks
  <2>1. TaskOK(DetectTask(t, q))
    BY DEF TaskOK, DetectTask, Task
  <2> QED  BY <1>2, <2>1, TaskTypes
<1>4. ASSUME NEW inv, Snapshot(inv), NEW t \in Crossed(inv, q.tip)
      PROVE  t \in Txs /\ TaskOK(CrossTask(t)) /\ TaskOK(CompleteTask(t))
  <2>1. t \in Txs /\ Deep(t, q.tip) /\ t \in Stored(inv)
    BY DEF Crossed, Stored
  <2>2. t \in DeepNow \cap Stored(invoice)
    BY <1>2, <2>1, <1>4, DeepStays DEF Snapshot
  <2>3. Snapshot(invoice)
    BY DEF SnapshotInv
  <2> QED  BY <2>1, <2>2, <2>3, PlainTasks
<1>5. IsFiniteSet(Entries(p, q))
  <2> DEFINE D == {DetectTask(t, q) : t \in OnChain \ seen[p]}
             C == {CrossTask(t) : t \in seen[p] \cap Crossed(q.copy, q.tip)}
  <2>1. IsFiniteSet(D)
    <3> DEFINE f == [t \in OnChain \ seen[p] |-> DetectTask(t, q)]
    <3>1. f \in Surjection(OnChain \ seen[p], D)
      BY DEF Surjection
    <3> QED  BY <1>1, <3>1, FS_Surjection
  <2>2. IsFiniteSet(C)
    <3> DEFINE f == [t \in seen[p] \cap Crossed(q.copy, q.tip) |->
                       CrossTask(t)]
    <3>1. f \in Surjection(seen[p] \cap Crossed(q.copy, q.tip), C)
      BY DEF Surjection
    <3> QED  BY <1>1, <3>1, FS_Surjection
  <2> QED  BY <2>1, <2>2, FS_Union DEF Entries
<1>6. IsFiniteSet(Crossings(p, q))
  <2> DEFINE inv == copy[p]
             g(t) == IF /\ inv.received >= Price
                        /\ Stored(inv) \ {t} \subseteq Confirmed(inv)
                     THEN CompleteTask(t) ELSE CrossTask(t)
             f == [t \in Crossed(inv, q.tip) |-> g(t)]
  <2>1. Crossings(p, q) = {g(t) : t \in Crossed(inv, q.tip)}
    BY DEF Crossings, Reported
  <2> HIDE DEF inv, g
  <2>2. f \in Surjection(Crossed(inv, q.tip),
                         {g(t) : t \in Crossed(inv, q.tip)})
    BY DEF Surjection
  <2> QED  BY <1>1, <2>1, <2>2, FS_Surjection
<1>7. ASSUME NEW t
      PROVE  /\ DetectTask(t, q).op = "detect" /\ CrossTask(t).op = "cross"
             /\ CompleteTask(t).op = "complete"
  BY DEF DetectTask, CrossTask, CompleteTask, Task
<1>8. Entries(p, q) \subseteq Found
  BY <1>1, <1>3, <1>4, <1>7 DEF Entries, Found
<1>9. Crossings(p, q) \subseteq Found
  BY <1>2, <1>3, <1>4, <1>7 DEF Crossings, Reported, Found
<1> QED  BY <1>5, <1>6, <1>8, <1>9

\* The wallet's answer is a queue of them.
LEMMA AnswerTasks ==
  ASSUME TypeOK, SnapshotInv, NEW p \in Procs, NEW k \in DOMAIN polls[p],
         Answer(p, k)
  PROVE  \E tasks \in Seq(Found) : work' = [work EXCEPT ![p] = tasks]
<1> DEFINE q0 == polls[p][k]
           E  == Entries(p, q0)
           F  == Crossings(p, q0)
<1>1. PICK entries \in SetToSeqs(E), crossed \in SetToSeqs(F) :
        work' = [work EXCEPT ![p] = entries \o crossed]
  BY DEF Answer
<1>2. q0 \in Polls /\ Snapshot(q0.copy) /\ q0.tip <= height
  <2>1. polls[p] \in Seq(Polls)
    BY DEF TypeOK
  <2>2. q0 \in Polls
    BY <2>1, LenProperties, ElementOfSeq
  <2> QED  BY <2>2 DEF SnapshotInv
<1> HIDE DEF q0
<1>3. /\ IsFiniteSet(E) /\ IsFiniteSet(F)
      /\ E \subseteq Found /\ F \subseteq Found
  BY <1>2, FindingsOK
<1> HIDE DEF E, F
<1>4. entries \in Seq(Found) /\ crossed \in Seq(Found)
  BY <1>1, <1>3, QueuedSet
<1>5. entries \o crossed \in Seq(Found)
  BY <1>4
<1> QED  BY <1>1, <1>5

\* The wallet answers.
LEMMA AnswerKeeps ==
  ASSUME SettleInv, NEW p \in Procs, AnswerPoll(p)
  PROVE  SettleInv'
<1>1. TypeOK /\ SnapshotInv /\ SeenInv
  BY DEF SettleInv
<1>2. PICK k \in DOMAIN polls[p] : Answer(p, k)
  BY DEF AnswerPoll
<1>3. /\ UNCHANGED <<chain, late, store, up, monitor, crashes>>
      /\ polls' = [polls EXCEPT ![p] = RemoveAt(@, k)] /\ up[p]
  BY <1>2 DEF Answer, Idle
<1>4. PICK tasks \in Seq(Found) : work' = [work EXCEPT ![p] = tasks]
  BY <1>1, <1>2, AnswerTasks
<1>5. tasks \in Seq(Tasks) /\ \A i \in DOMAIN tasks : TaskOK(tasks[i])
  <2>1. \A i \in DOMAIN tasks : tasks[i] \in Found
    BY LenProperties, ElementOfSeq
  <2>2. \A i \in DOMAIN tasks : tasks[i] \in Tasks /\ TaskOK(tasks[i])
    BY <2>1 DEF Found
  <2> QED  BY <2>2, LenProperties, SeqDef
<1>8. /\ polls' \in [Procs -> Seq(Polls)]
      /\ \A q \in Procs : Len(polls'[q]) <= MaxPolls
      /\ \A q \in Procs : polls[q] = <<>> => polls'[q] = <<>>
      /\ \A q \in Procs : \A i \in DOMAIN polls'[q] :
           \E j \in DOMAIN polls[q] : polls'[q][i] = polls[q][j]
  BY <1>1, <1>3, PollDropped
<1>9. /\ work' \in [Procs -> Seq(Tasks)] /\ work'[p] = tasks
      /\ \A q \in Procs : q # p => work'[q] = work[q]
  BY <1>1, <1>4, <1>5, QueueType
<1>10. Grows /\ height' \in Nat /\ Snapshot(invoice)' /\ EverythingAnnounced'
        /\ ShipOnlyOnConfirmedFunds'
  BY <1>3, QuietStep
<1>11. ASSUME NEW q \in Procs, NEW i \in DOMAIN work'[q]
       PROVE  \/ \E j \in DOMAIN work[q] : work'[q][i] = work[q][j]
              \/ \E k1 : work'[q][i] = k1 /\ TaskOK(k1)'
  <2>1. CASE q # p
    BY <1>9, <2>1
  <2>2. CASE q = p
    <3>1. PICK k1 : k1 = tasks[i]
      OBVIOUS
    <3>2. k1 \in Tasks /\ TaskOK(k1)
      BY <1>5, <1>9, <2>2, <3>1, LenProperties, ElementOfSeq
    <3>3. TaskOK(k1)'
      BY <1>1, <1>10, <3>2, TaskStays
    <3> QED  BY <1>9, <2>2, <3>1, <3>3
  <2> QED  BY <2>1, <2>2
<1>12. SnapshotInv'
  BY <1>1, <1>3, <1>8, <1>10, <1>11, SnapshotStep DEF monitor
<1>13. TypeOK'
  BY <1>1, <1>3, <1>8, <1>9 DEF TypeOK, chain, store, monitor, Polls, Tasks,
     Stored, Invoices
<1>14. SeenInv'
  BY <1>1, <1>3 DEF SeenInv, store, monitor
<1> QED  BY <1>10, <1>12, <1>13, <1>14 DEF SettleInv

-----------------------------------------------------------------------------
(* The steps of the world around the processes.                            *)

\* Nothing but the clock of the TTL moves, or nothing at all.
LEMMA StillKeeps ==
  ASSUME SettleInv,
         UNCHANGED <<chain, store, up, monitor, polls, work, crashes>>,
         late' \in BOOLEAN
  PROVE  SettleInv'
<1>1. TypeOK /\ SnapshotInv /\ SeenInv
  BY DEF SettleInv
<1>2. Grows /\ height' \in Nat /\ Snapshot(invoice)' /\ EverythingAnnounced'
        /\ ShipOnlyOnConfirmedFunds'
  BY QuietStep
<1>3. SnapshotInv'
  BY <1>1, <1>2, SnapshotStep DEF monitor
<1>4. TypeOK'
  BY <1>1 DEF TypeOK, chain, store, monitor, Polls, Tasks, Stored, Invoices
<1>5. SeenInv'
  BY <1>1 DEF SeenInv, store, monitor
<1> QED  BY <1>2, <1>3, <1>4, <1>5 DEF SettleInv

\* A process dies.
LEMMA CrashKeeps ==
  ASSUME SettleInv, NEW p \in Procs, Crash(p)
  PROVE  SettleInv'
<1>1. TypeOK /\ SnapshotInv /\ SeenInv
  BY DEF SettleInv
<1>2. /\ UNCHANGED <<chain, late, store, copy>>
      /\ crashes < MaxCrashes /\ crashes' = crashes + 1
      /\ up' = [up EXCEPT ![p] = FALSE]
      /\ tracked' = [tracked EXCEPT ![p] = FALSE]
      /\ seen' = [seen EXCEPT ![p] = {}]
      /\ polls' = [polls EXCEPT ![p] = <<>>]
      /\ work' = [work EXCEPT ![p] = <<>>]
  BY DEF Crash
<1>3. Grows /\ height' \in Nat /\ Snapshot(invoice)' /\ EverythingAnnounced'
        /\ ShipOnlyOnConfirmedFunds'
  BY <1>2, QuietStep
<1>4. /\ up' \in [Procs -> BOOLEAN] /\ tracked' \in [Procs -> BOOLEAN]
      /\ seen' \in [Procs -> SUBSET Txs]
      /\ ~up'[p] /\ ~tracked'[p]
      /\ \A q \in Procs : q # p => /\ up'[q] = up[q]
                                   /\ tracked'[q] = tracked[q]
                                   /\ seen'[q] = seen[q]
  BY <1>1, <1>2 DEF TypeOK
<1>5. /\ polls' \in [Procs -> Seq(Polls)] /\ work' \in [Procs -> Seq(Tasks)]
      /\ polls'[p] = <<>> /\ work'[p] = <<>>
      /\ \A q \in Procs : q # p => polls'[q] = polls[q] /\ work'[q] = work[q]
  <2>1. <<>> \in Seq(Polls) /\ <<>> \in Seq(Tasks)
    OBVIOUS
  <2>2. polls \in [Procs -> Seq(Polls)] /\ work \in [Procs -> Seq(Tasks)]
    BY <1>1 DEF TypeOK
  <2> QED  BY <1>2, <2>1, <2>2
<1>6. DOMAIN <<>> = {}
  OBVIOUS
<1>7. SnapshotInv'
  <2>1. ASSUME NEW q \in Procs, NEW i \in DOMAIN polls'[q]
        PROVE  \E j \in DOMAIN polls[q] : polls'[q][i] = polls[q][j]
    BY <1>5, <1>6
  <2>2. ASSUME NEW q \in Procs, NEW i \in DOMAIN work'[q]
        PROVE  \E j \in DOMAIN work[q] : work'[q][i] = work[q][j]
    BY <1>5, <1>6
  <2> QED  BY <1>1, <1>2, <1>3, <2>1, <2>2, SnapshotStep
<1>8. ASSUME NEW q \in Procs
      PROVE  /\ Len(polls'[q]) <= MaxPolls
             /\ ~up'[q] => ~tracked'[q] /\ polls'[q] = <<>> /\ work'[q] = <<>>
             /\ Procs = {q} /\ tracked'[q]
                  => Stored(copy'[q]) \subseteq seen'[q]
  <2>1. Len(<<>>) = 0
    OBVIOUS
  <2>2. CASE q = p
    BY <1>4, <1>5, <2>1, <2>2, SettlementAssumption DEF SettlementAssumption
  <2>3. CASE q # p
    BY <1>1, <1>2, <1>4, <1>5, <2>3 DEF TypeOK
  <2> QED  BY <2>2, <2>3
<1>9. crashes' \in 0..MaxCrashes
  BY <1>1, <1>2, SettlementAssumption DEF TypeOK, SettlementAssumption
<1>10. TypeOK'
  BY <1>1, <1>2, <1>4, <1>5, <1>8, <1>9
     DEF TypeOK, chain, store, Polls, Tasks, Stored, Invoices
<1>11. SeenInv'
  BY <1>1, <1>2, <1>4 DEF SeenInv, store
<1> QED  BY <1>3, <1>7, <1>10, <1>11 DEF SettleInv

\* A process starts and reads what is stored.
LEMMA StartKeeps ==
  ASSUME SettleInv, NEW p \in Procs, Start(p)
  PROVE  SettleInv'
<1>1. TypeOK /\ SnapshotInv /\ SeenInv
  BY DEF SettleInv
<1>2. /\ UNCHANGED <<chain, late, store, polls, work, crashes>>
      /\ ~up[p] /\ up' = [up EXCEPT ![p] = TRUE]
      /\ tracked' = [tracked EXCEPT ![p] = invoice.status \in Active]
      /\ copy' = [copy EXCEPT ![p] = invoice]
      /\ seen' = [seen EXCEPT ![p] = Stored(invoice)]
  BY DEF Start
<1>3. Grows /\ height' \in Nat /\ Snapshot(invoice)' /\ EverythingAnnounced'
        /\ ShipOnlyOnConfirmedFunds'
  BY <1>2, QuietStep
<1>4. /\ up' \in [Procs -> BOOLEAN] /\ tracked' \in [Procs -> BOOLEAN]
      /\ seen' \in [Procs -> SUBSET Txs] /\ copy' \in [Procs -> Invoices]
      /\ up'[p] /\ copy'[p] = invoice /\ seen'[p] = Stored(invoice)
      /\ \A q \in Procs : q # p => /\ up'[q] = up[q]
                                   /\ tracked'[q] = tracked[q]
                                   /\ seen'[q] = seen[q]
                                   /\ copy'[q] = copy[q]
  <2>1. Stored(invoice) \in SUBSET Txs
    BY DEF Stored
  <2> QED  BY <1>1, <1>2, <2>1 DEF TypeOK
<1>5. SnapshotInv'
  BY <1>1, <1>2, <1>3, <1>4, SnapshotStep
<1>6. ASSUME NEW q \in Procs
      PROVE  /\ Len(polls'[q]) <= MaxPolls
             /\ ~up'[q] => ~tracked'[q] /\ polls'[q] = <<>> /\ work'[q] = <<>>
             /\ Procs = {q} /\ tracked'[q]
                  => Stored(copy'[q]) \subseteq seen'[q]
  BY <1>1, <1>2, <1>4 DEF TypeOK
<1>7. TypeOK'
  BY <1>1, <1>2, <1>4, <1>6
     DEF TypeOK, chain, store, Polls, Tasks, Stored, Invoices
<1>8. SeenInv'
  BY <1>1, <1>2, <1>4 DEF SeenInv, store, Stored
<1> QED  BY <1>3, <1>5, <1>7, <1>8 DEF SettleInv

\* The chain grows, and buries deeper what it has.
LEMMA BlockKeeps ==
  ASSUME SettleInv, NEW new \in SUBSET Txs, Block(new)
  PROVE  SettleInv'
<1>1. TypeOK /\ SnapshotInv /\ SeenInv
  BY DEF SettleInv
<1>2. /\ UNCHANGED <<value, late, store, up, monitor, polls, work, crashes>>
      /\ height < MaxHeight /\ height' = height + 1
      /\ new \subseteq Txs \ OnChain
      /\ mined' = [t \in Txs |-> IF t \in new THEN height + 1 ELSE mined[t]]
  BY DEF Block
<1>3. height \in Nat /\ MaxHeight \in Nat /\ mined \in [Txs -> 0..MaxHeight]
  BY <1>1, SettlementAssumption DEF TypeOK, SettlementAssumption
<1>4. Grows /\ height' \in Nat
  <2>1. \A t \in Txs : mined[t] # 0 => t \in OnChain
    BY <1>3 DEF OnChain
  <2> QED  BY <1>2, <1>3, <2>1 DEF Grows, store
<1>5. Snapshot(invoice)'
  <2>1. PICK inv : inv = invoice /\ Snapshot(inv)
    BY <1>1 DEF SnapshotInv
  <2>2. Snapshot(inv)'
    BY <1>1, <1>4, <2>1, SnapshotStays
  <2> QED  BY <1>2, <2>1, <2>2 DEF store, Snapshot
<1>6. SnapshotInv'
  BY <1>1, <1>2, <1>4, <1>5, SnapshotStep DEF monitor
<1>7. height' \in 1..(MaxHeight + 1) /\ mined' \in [Txs -> 0..MaxHeight]
  BY <1>1, <1>2, <1>3 DEF TypeOK
<1>8. TypeOK'
  BY <1>1, <1>2, <1>7 DEF TypeOK, store, monitor, Polls, Tasks, Stored,
     Invoices
<1>9. SeenInv'
  BY <1>1, <1>2 DEF SeenInv, store, monitor
<1>10. ShipOnlyOnConfirmedFunds'
  BY <1>2, <1>4, <1>8, ShipStep DEF store
<1>11. EverythingAnnounced'
  BY <1>2, AnnounceStep DEF store
<1> QED  BY <1>6, <1>8, <1>9, <1>10, <1>11 DEF SettleInv

-----------------------------------------------------------------------------
(* The steps that write the store.                                         *)

\* A payment is detected.
LEMMA DetectKeeps ==
  ASSUME SettleInv, NEW p \in Procs, DetectStep(p)
  PROVE  SettleInv'
<1> DEFINE task  == Head(work[p])
           t     == task.tx
           extra == IF MoreDetections(p)
                    THEN <<SettleTask(t, invoice')>>
                    ELSE <<SettleTask(t, invoice'), RefreshTask>>
           w     == Tail(work[p]) \o extra
           row   == PaymentRow(t)
<1>1. TypeOK /\ SnapshotInv /\ SeenInv /\ Snapshot(invoice)
  BY DEF SettleInv, SnapshotInv
<1>2. /\ UNCHANGED <<chain, late, up, copy, polls, crashes>>
      /\ up[p] /\ work[p] # <<>> /\ task.op = "detect"
      /\ seen' = [seen EXCEPT ![p] = @ \cup {t}]
      /\ invoice' = Record(invoice, t, task.tip)
      /\ outbox' = Upsert(outbox, PaymentRow(t))
      /\ work' = [work EXCEPT ![p] = w]
      /\ \E b \in BOOLEAN : tracked' = [tracked EXCEPT ![p] = @ /\ b]
  BY DEF DetectStep, Next1, ReportCompletion
<1>3. /\ task \in Tasks /\ TaskOK(task) /\ Tail(work[p]) \in Seq(Tasks)
      /\ \A i \in DOMAIN Tail(work[p]) :
           i + 1 \in DOMAIN work[p] /\ Tail(work[p])[i] = work[p][i + 1]
  BY <1>1, <1>2, HeadTask
<1>4. t \in Txs /\ task.tip \in Nat /\ task.tip <= height
  BY <1>2, <1>3, SettlementAssumption DEF TaskOK, Tasks, SettlementAssumption
<1> HIDE DEF task
<1>5. /\ invoice' \in Invoices /\ invoice'.status = invoice.status
      /\ invoice'.received = Total(Stored(invoice'))
      /\ Stored(invoice') = Stored(invoice) \cup {t}
      /\ Confirmed(invoice) \subseteq Confirmed(invoice')
      /\ Confirmed(invoice') \subseteq DeepNow
  BY <1>1, <1>2, <1>4, RecordEffect
<1>6. Grows /\ height' \in Nat
  BY <1>1, <1>2, <1>5, SettlementAssumption
     DEF Grows, chain, TypeOK, SettlementAssumption
<1>7. Snapshot(invoice)'
  <2>1. DeepNow' = DeepNow
    BY <1>2 DEF DeepNow, chain, Deep, Confirmations
  <2>2. Total(Stored(invoice))' = Total(Stored(invoice'))
    BY <1>2 DEF Total, Units, Stored, chain
  <2> QED  BY <1>5, <2>1, <2>2 DEF Snapshot, Stored, Confirmed
<1>8. \E k : k = SettleTask(t, invoice') /\ TaskOK(k)'
  <2>1. PICK k : k = SettleTask(t, invoice')
    OBVIOUS
  <2>2. /\ k.read = invoice' /\ k.op = "settle" /\ k.tip = 0 /\ k.tx = t
    BY <2>1 DEF SettleTask, Task
  <2>3. Snapshot(k.read)' /\ Stored(k.read)' # {}
    BY <1>5, <1>7, <2>2 DEF Snapshot, Stored
  <2> QED  BY <1>4, <1>6, <2>1, <2>2, <2>3 DEF TaskOK
<1>9. \E k : k = RefreshTask /\ TaskOK(k)'
  <2>1. PICK k : k = RefreshTask
    OBVIOUS
  <2>2. RefreshTask \in Tasks
    <3>1. Fresh \in Invoices
      BY DEF Fresh, Invoices, Statuses, Active, Terminal
    <3> QED  BY <3>1, SettlementAssumption
             DEF RefreshTask, Task, Tasks, SettlementAssumption
  <2>3. TaskOK(k)
    BY <1>1, <1>4, <2>1, PlainTasks
  <2> QED  BY <1>1, <1>6, <2>1, <2>2, <2>3, TaskStays
<1>10. SettleTask(t, invoice') \in Tasks /\ RefreshTask \in Tasks
  <2>1. Fresh \in Invoices
    BY DEF Fresh, Invoices, Statuses, Active, Terminal
  <2> QED  BY <1>4, <1>5, <2>1, SettlementAssumption
           DEF SettleTask, RefreshTask, Task, Tasks, SettlementAssumption
<1>11. /\ extra \in Seq(Tasks)
       /\ \A i \in DOMAIN extra :
            extra[i] = SettleTask(t, invoice') \/ extra[i] = RefreshTask
  BY <1>10
<1> HIDE DEF extra
<1>12. w \in Seq(Tasks) /\ \A i \in DOMAIN w :
         \/ \E j \in DOMAIN work[p] : w[i] = work[p][j]
         \/ w[i] = SettleTask(t, invoice') \/ w[i] = RefreshTask
  <2>1. /\ w \in Seq(Tasks)
        /\ \A i \in DOMAIN w :
             \/ i \in DOMAIN Tail(work[p]) /\ w[i] = Tail(work[p])[i]
             \/ /\ i > Len(Tail(work[p]))
                /\ i - Len(Tail(work[p])) \in DOMAIN extra
                /\ w[i] = extra[i - Len(Tail(work[p]))]
    BY <1>3, <1>11, ConcatElements
  <2> HIDE DEF w
  <2> QED  BY <1>3, <1>11, <2>1
<1> HIDE DEF w
<1>13. /\ work' \in [Procs -> Seq(Tasks)] /\ work'[p] = w
       /\ \A q \in Procs : q # p => work'[q] = work[q]
  BY <1>1, <1>2, <1>12, QueueType
<1>14. SnapshotInv'
  <2>1. ASSUME NEW q \in Procs, NEW i \in DOMAIN work'[q]
        PROVE  \/ \E j \in DOMAIN work[q] : work'[q][i] = work[q][j]
               \/ \E k : work'[q][i] = k /\ TaskOK(k)'
    BY <1>8, <1>9, <1>12, <1>13
  <2> QED  BY <1>1, <1>2, <1>6, <1>7, <2>1, SnapshotStep
<1>15. row \in Rows /\ outbox \in Seq(Rows) /\ outbox' = Upsert(outbox, row)
         /\ row.event = "payment.detected" /\ row.tx = t
  BY <1>1, <1>2, <1>4 DEF PaymentRow, Rows, TypeOK
<1> HIDE DEF row
<1>16. /\ outbox' \in Seq(Rows)
       /\ \A i \in DOMAIN outbox :
            i \in DOMAIN outbox' /\ outbox'[i] = outbox[i]
       /\ \E i \in DOMAIN outbox' : outbox'[i] = row
       /\ \A i \in DOMAIN outbox' : i \in DOMAIN outbox \/ outbox'[i] = row
  <2>1. /\ outbox' \in Seq(Rows)
        /\ \A i \in DOMAIN outbox :
             i \in DOMAIN outbox' /\ outbox'[i] = outbox[i]
        /\ \E i \in DOMAIN outbox' : outbox'[i] = row
        /\ \/ outbox' = outbox
           \/ /\ DOMAIN outbox = 1..Len(outbox) /\ Len(outbox) \in Nat
              /\ DOMAIN outbox' = 1..(Len(outbox) + 1)
              /\ outbox'[Len(outbox) + 1] = row
    BY <1>15, UpsertEffect
  <2> QED  BY <2>1
<1>17. /\ seen' \in [Procs -> SUBSET Txs] /\ tracked' \in [Procs -> BOOLEAN]
       /\ \A q \in Procs : /\ seen[q] \subseteq seen'[q]
                           /\ tracked'[q] => tracked[q]
       /\ t \in seen'[p]
  BY <1>1, <1>2, <1>4 DEF TypeOK
<1>18. ASSUME NEW q \in Procs
       PROVE  /\ Len(polls'[q]) <= MaxPolls
              /\ ~up'[q] => ~tracked'[q] /\ polls'[q] = <<>> /\ work'[q] = <<>>
              /\ Procs = {q} /\ tracked'[q]
                   => Stored(copy'[q]) \subseteq seen'[q]
  BY <1>1, <1>2, <1>13, <1>17 DEF TypeOK
<1>19. TypeOK'
  BY <1>1, <1>2, <1>5, <1>13, <1>16, <1>17, <1>18
     DEF TypeOK, chain, Polls, Tasks, Stored, Invoices, Rows
<1>20. SeenInv'
  <2>1. ASSUME NEW q \in Procs, Procs = {q}, up'[q]
        PROVE  Stored(invoice') \subseteq seen'[q]
    BY <1>1, <1>2, <1>5, <1>17, <2>1 DEF SeenInv
  <2> QED  BY <2>1 DEF SeenInv, Stored
<1>21. ShipOnlyOnConfirmedFunds'
  <2>1. ASSUME NEW i \in DOMAIN outbox', outbox'[i].event = "completed"
        PROVE  i \in DOMAIN outbox /\ outbox[i].event = "completed"
    BY <1>15, <1>16, <2>1
  <2> QED  BY <1>5, <1>6, <1>19, <2>1, ShipStep
<1>22. EverythingAnnounced'
  <2>1. \A u \in Stored(invoice') :
          \/ u \in Stored(invoice)
          \/ \E i \in DOMAIN outbox' :
               outbox'[i].event = "payment.detected" /\ outbox'[i].tx = u
    BY <1>5, <1>15, <1>16
  <2> QED  BY <1>5, <1>16, <2>1, AnnounceStep
<1> QED  BY <1>14, <1>19, <1>20, <1>21, <1>22 DEF SettleInv

\* A payment crosses the depth.
LEMMA CrossKeeps ==
  ASSUME SettleInv, NEW p \in Procs, CrossStep(p)
  PROVE  SettleInv'
<1> DEFINE task == Head(work[p])
           t    == task.tx
           w    == Append(Tail(work[p]), ConfirmTask(t))
<1>1. TypeOK /\ SnapshotInv /\ SeenInv /\ Snapshot(invoice)
  BY DEF SettleInv, SnapshotInv
<1>2. /\ UNCHANGED <<chain, late, outbox, up, copy, seen, polls, crashes>>
      /\ up[p] /\ work[p] # <<>> /\ task.op \in {"cross", "complete"}
      /\ invoice' = Confirm(invoice, t)
      /\ work' = [work EXCEPT ![p] = w]
      /\ \E b \in BOOLEAN : tracked' = [tracked EXCEPT ![p] = @ /\ b]
  BY DEF CrossStep, Next1, ReportCompletion, ReportConfirmed
<1>3. /\ task \in Tasks /\ TaskOK(task) /\ Tail(work[p]) \in Seq(Tasks)
      /\ \A i \in DOMAIN Tail(work[p]) :
           i + 1 \in DOMAIN work[p] /\ Tail(work[p])[i] = work[p][i + 1]
  BY <1>1, <1>2, HeadTask
<1>4. t \in Txs /\ t \in Stored(invoice)
  BY <1>2, <1>3 DEF TaskOK
<1>5. t \in DeepNow
  BY <1>2, <1>3 DEF TaskOK
<1> HIDE DEF task
<1>6. /\ invoice' \in Invoices /\ invoice'.status = invoice.status
      /\ invoice'.received = Total(Stored(invoice'))
      /\ Stored(invoice') = Stored(invoice)
      /\ Confirmed(invoice) \subseteq Confirmed(invoice')
      /\ Confirmed(invoice') \subseteq DeepNow
  BY <1>1, <1>2, <1>4, <1>5, ConfirmEffect
<1>7. Grows /\ height' \in Nat
  BY <1>1, <1>2, <1>6, SettlementAssumption
     DEF Grows, chain, TypeOK, SettlementAssumption
<1>8. Snapshot(invoice)'
  <2>1. DeepNow' = DeepNow
    BY <1>2 DEF DeepNow, chain, Deep, Confirmations
  <2>2. Total(Stored(invoice))' = Total(Stored(invoice'))
    BY <1>2 DEF Total, Units, Stored, chain
  <2> QED  BY <1>6, <2>1, <2>2 DEF Snapshot, Stored, Confirmed
<1>9. ConfirmTask(t) \in Tasks
  <2>1. Fresh \in Invoices
    BY DEF Fresh, Invoices, Statuses, Active, Terminal
  <2> QED  BY <1>4, <2>1, SettlementAssumption
           DEF ConfirmTask, Task, Tasks, SettlementAssumption
<1>10. \E k : k = ConfirmTask(t) /\ TaskOK(k)'
  <2>1. PICK k : k = ConfirmTask(t)
    OBVIOUS
  <2>2. TaskOK(k)
    BY <1>1, <1>4, <2>1, PlainTasks
  <2> QED  BY <1>1, <1>7, <1>9, <2>1, <2>2, TaskStays
<1>11. w \in Seq(Tasks) /\ \A i \in DOMAIN w :
         \/ \E j \in DOMAIN work[p] : w[i] = work[p][j]
         \/ w[i] = ConfirmTask(t)
  <2>1. /\ w \in Seq(Tasks)
        /\ Len(Tail(work[p])) \in Nat
        /\ DOMAIN Tail(work[p]) = 1..Len(Tail(work[p]))
        /\ DOMAIN w = 1..(Len(Tail(work[p])) + 1)
        /\ \A i \in DOMAIN Tail(work[p]) : w[i] = Tail(work[p])[i]
        /\ w[Len(Tail(work[p])) + 1] = ConfirmTask(t)
    BY <1>3, <1>9, AppendElements
  <2> HIDE DEF w
  <2> QED  BY <1>3, <2>1
<1> HIDE DEF w
<1>12. /\ work' \in [Procs -> Seq(Tasks)] /\ work'[p] = w
       /\ \A q \in Procs : q # p => work'[q] = work[q]
  BY <1>1, <1>2, <1>11, QueueType
<1>13. SnapshotInv'
  <2>1. ASSUME NEW q \in Procs, NEW i \in DOMAIN work'[q]
        PROVE  \/ \E j \in DOMAIN work[q] : work'[q][i] = work[q][j]
               \/ \E k : work'[q][i] = k /\ TaskOK(k)'
    BY <1>10, <1>11, <1>12
  <2> QED  BY <1>1, <1>2, <1>7, <1>8, <2>1, SnapshotStep
<1>14. /\ tracked' \in [Procs -> BOOLEAN]
       /\ \A q \in Procs : tracked'[q] => tracked[q]
  BY <1>1, <1>2 DEF TypeOK
<1>15. ASSUME NEW q \in Procs
       PROVE  /\ Len(polls'[q]) <= MaxPolls
              /\ ~up'[q] => ~tracked'[q] /\ polls'[q] = <<>> /\ work'[q] = <<>>
              /\ Procs = {q} /\ tracked'[q]
                   => Stored(copy'[q]) \subseteq seen'[q]
  BY <1>1, <1>2, <1>12, <1>14 DEF TypeOK
<1>16. TypeOK'
  BY <1>1, <1>2, <1>6, <1>12, <1>14, <1>15
     DEF TypeOK, chain, Polls, Tasks, Stored, Invoices
<1>17. SeenInv'
  BY <1>1, <1>2, <1>6 DEF SeenInv, Stored
<1>18. ShipOnlyOnConfirmedFunds'
  BY <1>2, <1>6, <1>7, <1>16, ShipStep
<1>19. EverythingAnnounced'
  BY <1>2, <1>6, AnnounceStep
<1> QED  BY <1>13, <1>16, <1>17, <1>18, <1>19 DEF SettleInv

\* A status is written with its row.
LEMMA StatusKeeps ==
  ASSUME SettleInv, NEW p \in Procs, up[p], work[p] # <<>>,
         NEW s \in Statuses, NEW r \in Rows, r.event = s,
         s = "completed" => Total(DeepNow) >= Price,
         invoice' = [invoice EXCEPT !.status = s],
         outbox' = Upsert(outbox, r),
         work' = [work EXCEPT ![p] = Tail(@)],
         \E b \in BOOLEAN : tracked' = [tracked EXCEPT ![p] = @ /\ b],
         UNCHANGED <<chain, late, up, copy, seen, polls, crashes>>
  PROVE  SettleInv'
<1> DEFINE w == Tail(work[p])
<1>1. TypeOK /\ SnapshotInv /\ SeenInv /\ Snapshot(invoice)
  BY DEF SettleInv, SnapshotInv
<1>2. w \in Seq(Tasks) /\ \A i \in DOMAIN w :
        \E j \in DOMAIN work[p] : w[i] = work[p][j]
  BY <1>1, HeadTask
<1>3. work' = [work EXCEPT ![p] = w]
  OBVIOUS
<1> HIDE DEF w
<1>4. /\ work' \in [Procs -> Seq(Tasks)] /\ work'[p] = w
      /\ \A q \in Procs : q # p => work'[q] = work[q]
  BY <1>1, <1>2, <1>3, QueueType
<1>5. /\ invoice' \in Invoices /\ invoice'.status = s
      /\ invoice'.paid = invoice.paid /\ invoice'.received = invoice.received
  BY <1>1 DEF TypeOK, Invoices
<1>6. /\ Stored(invoice') = Stored(invoice)
      /\ Confirmed(invoice') = Confirmed(invoice)
  BY <1>5 DEF Stored, Confirmed
<1>7. Grows /\ height' \in Nat
  <2>1. height' = height /\ mined' = mined /\ value' = value /\ height \in Nat
    BY <1>1, SettlementAssumption DEF chain, TypeOK, SettlementAssumption
  <2> QED  BY <1>6, <2>1 DEF Grows
<1>8. Snapshot(invoice)'
  <2>1. DeepNow' = DeepNow
    BY DEF DeepNow, chain, Deep, Confirmations
  <2>2. Total(Stored(invoice))' = Total(Stored(invoice'))
    BY DEF Total, Units, Stored, chain
  <2> QED  BY <1>1, <1>5, <1>6, <2>1, <2>2 DEF Snapshot, Stored, Confirmed
<1>9. SnapshotInv'
  <2>1. ASSUME NEW q \in Procs, NEW i \in DOMAIN work'[q]
        PROVE  \E j \in DOMAIN work[q] : work'[q][i] = work[q][j]
    BY <1>2, <1>4
  <2> QED  BY <1>1, <1>7, <1>8, <2>1, SnapshotStep
<1>10. /\ outbox' \in Seq(Rows)
       /\ \A i \in DOMAIN outbox :
            i \in DOMAIN outbox' /\ outbox'[i] = outbox[i]
       /\ \E i \in DOMAIN outbox' : outbox'[i] = r
       /\ \A i \in DOMAIN outbox' : i \in DOMAIN outbox \/ outbox'[i] = r
  <2>1. outbox \in Seq(Rows)
    BY <1>1 DEF TypeOK, Rows
  <2>2. /\ outbox' \in Seq(Rows)
        /\ \A i \in DOMAIN outbox :
             i \in DOMAIN outbox' /\ outbox'[i] = outbox[i]
        /\ \E i \in DOMAIN outbox' : outbox'[i] = r
        /\ \/ outbox' = outbox
           \/ /\ DOMAIN outbox = 1..Len(outbox) /\ Len(outbox) \in Nat
              /\ DOMAIN outbox' = 1..(Len(outbox) + 1)
              /\ outbox'[Len(outbox) + 1] = r
    BY <2>1, UpsertEffect
  <2> QED  BY <2>2
<1>11. /\ tracked' \in [Procs -> BOOLEAN]
       /\ \A q \in Procs : tracked'[q] => tracked[q]
  BY <1>1 DEF TypeOK
<1>12. ASSUME NEW q \in Procs
       PROVE  /\ Len(polls'[q]) <= MaxPolls
              /\ ~up'[q] => ~tracked'[q] /\ polls'[q] = <<>> /\ work'[q] = <<>>
              /\ Procs = {q} /\ tracked'[q]
                   => Stored(copy'[q]) \subseteq seen'[q]
  BY <1>1, <1>4, <1>11 DEF TypeOK
<1>13. TypeOK'
  BY <1>1, <1>4, <1>5, <1>10, <1>11, <1>12
     DEF TypeOK, chain, Polls, Tasks, Stored, Invoices, Rows
<1>14. SeenInv'
  BY <1>1, <1>6 DEF SeenInv, Stored
<1>15. ShipOnlyOnConfirmedFunds'
  <2>1. ASSUME NEW i \in DOMAIN outbox', outbox'[i].event = "completed"
        PROVE  \/ i \in DOMAIN outbox /\ outbox[i].event = "completed"
               \/ Total(DeepNow) >= Price
    BY <1>10, <2>1
  <2> QED  BY <1>5, <1>7, <1>13, <2>1, ShipStep
<1>16. EverythingAnnounced'
  BY <1>5, <1>6, <1>10, AnnounceStep
<1> QED  BY <1>9, <1>13, <1>14, <1>15, <1>16 DEF SettleInv

\* reconcileStatus decides.
LEMMA SettleKeeps ==
  ASSUME SettleInv, NEW p \in Procs, SettleStep(p)
  PROVE  SettleInv'
<1> DEFINE task == Head(work[p])
           new  == decideStatus(task.read)
           row  == StatusRow(new, task.read.received, task.tx)
<1>1. TypeOK /\ SnapshotInv /\ SeenInv /\ Snapshot(invoice)
  BY DEF SettleInv, SnapshotInv
<1>2. /\ UNCHANGED <<chain, late, up, monitor, polls, crashes>>
      /\ up[p] /\ work[p] # <<>> /\ task.op = "settle"
      /\ work' = [work EXCEPT ![p] = Tail(@)]
      /\ \/ UNCHANGED store
         \/ /\ invoice' = [invoice EXCEPT !.status = new]
            /\ outbox' = Upsert(outbox, row)
  BY DEF SettleStep, Next1
<1>3. task \in Tasks /\ TaskOK(task)
  BY <1>1, <1>2, HeadTask
<1> HIDE DEF task
<1>4. task.read \in Invoices /\ Snapshot(task.read) /\ task.tx \in Txs
  BY <1>2, <1>3 DEF TaskOK, Tasks
<1>5. /\ new \in Statuses
      /\ new = "completed" => Total(DeepNow) >= Price
  <2>1. /\ new \in Active \cup {"completed"}
        /\ new = "completed" => Total(DeepNow) >= Price
    BY <1>1, <1>4, DecideEffect
  <2> QED  BY <2>1 DEF Statuses, Terminal
<1> HIDE DEF new
<1>6. row \in Rows /\ row.event = new
  BY <1>4, <1>5 DEF StatusRow, Rows, Invoices
<1> HIDE DEF row
<1>7. \E b \in BOOLEAN : tracked' = [tracked EXCEPT ![p] = @ /\ b]
  <2>1. tracked' = [tracked EXCEPT ![p] = @ /\ TRUE]
    BY <1>1, <1>2 DEF monitor, TypeOK
  <2> QED  BY <2>1
<1>8. CASE UNCHANGED store
  <2> DEFINE w == Tail(work[p])
  <2>1. w \in Seq(Tasks) /\ \A i \in DOMAIN w :
          \E j \in DOMAIN work[p] : w[i] = work[p][j]
    BY <1>1, <1>2, HeadTask
  <2>2. work' = [work EXCEPT ![p] = w]
    BY <1>2
  <2> HIDE DEF w
  <2>3. /\ work' \in [Procs -> Seq(Tasks)] /\ work'[p] = w
        /\ \A q \in Procs : q # p => work'[q] = work[q]
    BY <1>1, <2>1, <2>2, QueueType
  <2>4. Grows /\ height' \in Nat /\ Snapshot(invoice)' /\ EverythingAnnounced'
          /\ ShipOnlyOnConfirmedFunds'
    BY <1>2, <1>8, QuietStep
  <2>5. SnapshotInv'
    <3>1. ASSUME NEW q \in Procs, NEW i \in DOMAIN work'[q]
          PROVE  \E j \in DOMAIN work[q] : work'[q][i] = work[q][j]
      BY <2>1, <2>3
    <3> QED  BY <1>1, <1>2, <2>4, <3>1, SnapshotStep DEF monitor
  <2>6. TypeOK'
    BY <1>1, <1>2, <1>8, <2>3 DEF TypeOK, chain, store, monitor, Polls, Tasks,
       Stored, Invoices
  <2>7. SeenInv'
    BY <1>1, <1>2, <1>8 DEF SeenInv, store, monitor
  <2> QED  BY <2>4, <2>5, <2>6, <2>7 DEF SettleInv
<1>9. CASE /\ invoice' = [invoice EXCEPT !.status = new]
           /\ outbox' = Upsert(outbox, row)
  <2>1. UNCHANGED <<chain, late, up, copy, seen, polls, crashes>>
    BY <1>2 DEF monitor
  <2> QED  BY <1>2, <1>5, <1>6, <1>7, <1>9, <2>1, StatusKeeps
<1> QED  BY <1>2, <1>8, <1>9

\* onInvoiceExpired writes.
LEMMA ExpireKeeps ==
  ASSUME SettleInv, NEW p \in Procs, ExpireStep(p)
  PROVE  SettleInv'
<1> DEFINE row == StatusRow("expired", invoice.received, NoTx)
<1>1. /\ up[p] /\ work[p] # <<>>
      /\ invoice' = [invoice EXCEPT !.status = "expired"]
      /\ outbox' = Upsert(outbox, row)
      /\ tracked' = [tracked EXCEPT ![p] = FALSE]
      /\ work' = [work EXCEPT ![p] = Tail(@)]
      /\ UNCHANGED <<chain, late, up, copy, seen, polls, crashes>>
  BY DEF ExpireStep, Next1
<1>2. "expired" \in Statuses /\ row \in Rows /\ row.event = "expired"
  <2>1. invoice.received \in Nat
    BY DEF SettleInv, TypeOK, Invoices
  <2> QED  BY <2>1 DEF StatusRow, Rows, Statuses, Terminal
<1> HIDE DEF row
<1>3. \E b \in BOOLEAN : tracked' = [tracked EXCEPT ![p] = @ /\ b]
  <2>1. tracked' = [tracked EXCEPT ![p] = @ /\ FALSE]
    BY <1>1
  <2> QED  BY <2>1
<1> QED  BY <1>1, <1>2, <1>3, StatusKeeps

-----------------------------------------------------------------------------
(* What holds of any number of processes.                                  *)

\* It holds when the invoice is created.
LEMMA SettleInit == Init => SettleInv
<1> SUFFICES ASSUME Init PROVE SettleInv
  OBVIOUS
<1>1. Fresh \in Invoices
  BY DEF Fresh, Invoices, Statuses, Active, Terminal
<1>2. Stored(Fresh) = {} /\ Confirmed(Fresh) = {} /\ Fresh.received = 0
        /\ Fresh.status = "pending"
  BY DEF Stored, Confirmed, Fresh
<1>3. /\ invoice = Fresh /\ outbox = <<>>
      /\ copy = [p \in Procs |-> Fresh]
      /\ polls = [p \in Procs |-> <<>>] /\ work = [p \in Procs |-> <<>>]
      /\ seen = [p \in Procs |-> {}] /\ tracked = up
      /\ up \in [Procs -> BOOLEAN]
      /\ height = 1 /\ mined = [t \in Txs |-> 0] /\ value \in [Txs -> Values]
      /\ late = FALSE /\ crashes = 0
  BY DEF Init
<1>4. TypeOK
  <2>1. Len(<<>>) = 0 /\ <<>> \in Seq(Polls) /\ <<>> \in Seq(Tasks)
          /\ <<>> \in Seq(Rows)
    OBVIOUS
  <2>2. /\ height \in 1..(MaxHeight + 1) /\ mined \in [Txs -> 0..MaxHeight]
        /\ crashes \in 0..MaxCrashes /\ 0 <= MaxPolls
    BY <1>3, SettlementAssumption DEF SettlementAssumption
  <2>3. \A p \in Procs :
          /\ polls[p] = <<>> /\ work[p] = <<>> /\ Len(polls[p]) <= MaxPolls
          /\ ~up[p] => ~tracked[p]
          /\ Stored(copy[p]) \subseteq seen[p]
    BY <1>2, <1>3, <2>1, <2>2
  <2>4. polls \in [Procs -> Seq(Polls)] /\ work \in [Procs -> Seq(Tasks)]
    BY <1>3, <2>1
  <2> QED  BY <1>1, <1>3, <2>1, <2>2, <2>3, <2>4 DEF TypeOK, Rows
<1>5. Snapshot(Fresh)
  BY <1>2, <1>3, <1>4, TotalZero DEF Snapshot, TypeOK
<1>6. DOMAIN <<>> = {}
  OBVIOUS
<1>7. SnapshotInv
  BY <1>3, <1>5, <1>6 DEF SnapshotInv
<1>8. SeenInv
  BY <1>2, <1>3 DEF SeenInv
<1>9. ShipOnlyOnConfirmedFunds /\ EverythingAnnounced
  BY <1>2, <1>3, <1>6 DEF ShipOnlyOnConfirmedFunds, EverythingAnnounced
<1> QED  BY <1>4, <1>7, <1>8, <1>9 DEF SettleInv

\* Every step keeps it.
LEMMA SettleNext == SettleInv /\ [Next]_vars => SettleInv'
<1> SUFFICES ASSUME SettleInv, [Next]_vars PROVE SettleInv'
  OBVIOUS
<1>1. late \in BOOLEAN
  BY DEF SettleInv, TypeOK
<1>2. ASSUME NEW p \in Procs, Continue(p) PROVE SettleInv'
  BY <1>2, DetectKeeps, CrossKeeps, SettleKeeps, ConfirmKeeps, RefreshKeeps,
     ExpireKeeps DEF Continue
<1>3. ASSUME NEW p \in Procs,
             \/ StartPoll(p) \/ AnswerPoll(p) \/ FailPoll(p)
             \/ checkExpiredInvoices(p) \/ Crash(p) \/ Start(p)
      PROVE  SettleInv'
  BY <1>3, StartPollKeeps, AnswerKeeps, FailPollKeeps, ExpiryTimerKeeps,
     CrashKeeps, StartKeeps
<1>4. ASSUME NEW new \in SUBSET Txs, Block(new) PROVE SettleInv'
  BY <1>4, BlockKeeps
<1>5. CASE PassTtl
  BY <1>5, StillKeeps DEF PassTtl
<1>6. CASE UNCHANGED vars
  BY <1>1, <1>6, StillKeeps DEF vars
<1> QED  BY <1>2, <1>3, <1>4, <1>5, <1>6 DEF Next

\* In every behaviour, with any number of processes and crashes.
LEMMA SettleAlways == Spec => []SettleInv
<1> QED  BY SettleInit, SettleNext, PTL DEF Spec

\* Every variable keeps its type: a status is one the schema knows
\* (reconcileStatus writes only what decideStatus answers), a process that is
\* down holds nothing, and a lone monitor has seen what its copy lists.
THEOREM SettlementTypeCorrect == Spec => []TypeOK
<1>1. SettleInv => TypeOK
  BY DEF SettleInv
<1> QED  BY <1>1, SettleAlways, PTL

\* amount_received is the sum of the stored payments, whichever process
\* detects them, however often and in whatever order, for any amounts
\* (applyPaymentWithOutbox).
THEOREM ReceivedAlwaysSum == Spec => []ReceivedIsSum
<1>1. SettleInv => ReceivedIsSum
  BY DEF SettleInv, SnapshotInv, Snapshot, ReceivedIsSum
<1> QED  BY <1>1, SettleAlways, PTL

\* Whatever number of processes, for any price and depth: "completed" is
\* stored or announced only when transfers buried at the depth cover the
\* price, however stale the snapshot reconcileStatus decided it from.
THEOREM ShippedIsBuried == Spec => []ShipOnlyOnConfirmedFunds
<1>1. SettleInv => ShipOnlyOnConfirmedFunds
  BY DEF SettleInv
<1> QED  BY <1>1, SettleAlways, PTL

\* Between no two awaits, and after no crash of any process, is there a
\* stored payment or a status without its outbox row.
THEOREM AlwaysAnnounced == Spec => []EverythingAnnounced
<1>1. SettleInv => EverythingAnnounced
  BY DEF SettleInv
<1> QED  BY <1>1, SettleAlways, PTL

-----------------------------------------------------------------------------
(* The expiry of a lone process.                                           *)

\* A queue that keeps the tail of the old one and adds no expiry.
LEMMA ExpireTail ==
  ASSUME SettleInv, ExpireInv, NEW p, Procs = {p}, work[p] # <<>>,
         NEW extra \in Seq(Tasks),
         \A i \in DOMAIN extra : extra[i].op # "expire",
         work'[p] = Tail(work[p]) \o extra,
         Head(work[p]).op = "expire" => extra = <<>>
  PROVE  ExpireInv'
<1>1. /\ Head(work[p]) = work[p][1] /\ 1 \in DOMAIN work[p]
      /\ Tail(work[p]) \in Seq(Tasks)
      /\ \A i \in DOMAIN Tail(work[p]) :
           i + 1 \in DOMAIN work[p] /\ Tail(work[p])[i] = work[p][i + 1]
  BY HeadTask DEF SettleInv
<1>2. \A i \in DOMAIN (Tail(work[p]) \o extra) :
        \/ /\ i \in DOMAIN Tail(work[p])
           /\ (Tail(work[p]) \o extra)[i] = Tail(work[p])[i]
        \/ /\ i - Len(Tail(work[p])) \in DOMAIN extra
           /\ (Tail(work[p]) \o extra)[i] = extra[i - Len(Tail(work[p]))]
  BY <1>1, ConcatElements
<1>3. ASSUME NEW i \in DOMAIN work'[p], work'[p][i].op = "expire"
      PROVE  FALSE
  <2>1. i \in DOMAIN Tail(work[p]) /\ work'[p][i] = Tail(work[p])[i]
    BY <1>2, <1>3
  <2>2. i + 1 \in DOMAIN work[p] /\ work[p][i + 1].op = "expire"
    BY <1>1, <1>3, <2>1
  <2>3. work[p] = <<ExpireTask>>
    BY <2>2 DEF ExpireInv
  <2>4. DOMAIN Tail(<<ExpireTask>>) = {}
    OBVIOUS
  <2> QED  BY <2>1, <2>3, <2>4
<1> QED  BY <1>3 DEF ExpireInv

\* A queue and a store that stay.
LEMMA ExpireSame ==
  ASSUME ExpireInv, UNCHANGED work, Stored(invoice') = Stored(invoice)
  PROVE  ExpireInv'
<1>1. Stored(invoice)' = Stored(invoice')
  BY DEF Stored
<1> QED  BY <1>1 DEF ExpireInv

\* A new queue of an idle process.
LEMMA ExpireFresh ==
  ASSUME NEW p, Procs = {p},
         \/ /\ work'[p] = <<ExpireTask>>
            /\ Stored(invoice) = {} /\ invoice' = invoice
         \/ \A i \in DOMAIN work'[p] : work'[p][i].op # "expire"
  PROVE  ExpireInv'
<1>1. Stored(invoice)' = Stored(invoice')
  BY DEF Stored
<1> QED  BY <1>1 DEF ExpireInv

\* Every step of a lone process and of the chain keeps it.
LEMMA ExpireNext ==
  ASSUME NEW p, Procs = {p}, SettleInv, ExpireInv, [Next]_vars
  PROVE  ExpireInv'
<1>1. TypeOK /\ SnapshotInv
  BY DEF SettleInv
<1>2. work \in [Procs -> Seq(Tasks)] /\ p \in Procs
  BY <1>1 DEF TypeOK
<1>3. SettleInv'
  BY SettleNext
<1>4. work' \in [Procs -> Seq(Tasks)] /\ invoice' \in Invoices
  BY <1>3 DEF SettleInv, TypeOK, Tasks, Invoices
<1>5. CASE work[p] # <<>> /\ Continue(p)
  <2> DEFINE head == Head(work[p])
  <2>1. /\ head \in Tasks /\ TaskOK(head) /\ Tail(work[p]) \in Seq(Tasks)
    BY <1>1, <1>2, <1>5, HeadTask
  <2>2. <<>> \in Seq(Tasks) /\ DOMAIN <<>> = {}
    OBVIOUS
  <2>3. Tail(work[p]) \o <<>> = Tail(work[p])
    BY <2>1, ConcatEmptySeq
  <2>4. CASE DetectStep(p)
    <3> DEFINE extra == IF MoreDetections(p)
                        THEN <<SettleTask(head.tx, invoice')>>
                        ELSE <<SettleTask(head.tx, invoice'), RefreshTask>>
    <3>1. /\ work'[p] = Tail(work[p]) \o extra /\ head.op = "detect"
      BY <1>2, <2>4 DEF DetectStep, Next1
    <3>2. head.tx \in Txs
      BY <2>1, <3>1 DEF TaskOK
    <3>3. SettleTask(head.tx, invoice') \in Tasks /\ RefreshTask \in Tasks
      <4>1. Fresh \in Invoices
        BY DEF Fresh, Invoices, Statuses, Active, Terminal
      <4> QED  BY <1>4, <3>2, <4>1, SettlementAssumption
               DEF SettleTask, RefreshTask, Task, Tasks, SettlementAssumption
    <3>4. /\ SettleTask(head.tx, invoice').op = "settle"
          /\ RefreshTask.op = "refresh"
      BY DEF SettleTask, RefreshTask, Task
    <3>5. /\ extra \in Seq(Tasks)
          /\ \A i \in DOMAIN extra : extra[i].op # "expire"
      BY <3>3, <3>4
    <3> HIDE DEF extra
    <3> QED  BY <1>5, <3>1, <3>5, ExpireTail
  <2>5. CASE CrossStep(p)
    <3>1. /\ work'[p] = Append(Tail(work[p]), ConfirmTask(head.tx))
          /\ head.op \in {"cross", "complete"}
      BY <1>2, <2>5 DEF CrossStep, Next1, ReportConfirmed
    <3>2. head.tx \in Txs
      BY <2>1, <3>1 DEF TaskOK
    <3>3. ConfirmTask(head.tx) \in Tasks /\ ConfirmTask(head.tx).op = "confirm"
      <4>1. Fresh \in Invoices
        BY DEF Fresh, Invoices, Statuses, Active, Terminal
      <4> QED  BY <3>2, <4>1, SettlementAssumption
               DEF ConfirmTask, Task, Tasks, SettlementAssumption
    <3> DEFINE extra == <<ConfirmTask(head.tx)>>
    <3>4. /\ extra \in Seq(Tasks)
          /\ \A i \in DOMAIN extra : extra[i].op # "expire"
          /\ work'[p] = Tail(work[p]) \o extra
      BY <2>1, <3>1, <3>3
    <3> HIDE DEF extra
    <3> QED  BY <1>5, <3>1, <3>4, ExpireTail
  <2>6. CASE ConfirmStep(p)
    <3>1. /\ work'[p] = Append(Tail(work[p]), SettleTask(head.tx, invoice))
          /\ head.op = "confirm"
      BY <1>2, <2>6 DEF ConfirmStep, Next1
    <3>2. head.tx \in Txs /\ invoice \in Invoices
      BY <1>1, <2>1, <3>1 DEF TaskOK, TypeOK
    <3>3. /\ SettleTask(head.tx, invoice) \in Tasks
          /\ SettleTask(head.tx, invoice).op = "settle"
      BY <3>2, SettlementAssumption
         DEF SettleTask, Task, Tasks, SettlementAssumption
    <3> DEFINE extra == <<SettleTask(head.tx, invoice)>>
    <3>4. /\ extra \in Seq(Tasks)
          /\ \A i \in DOMAIN extra : extra[i].op # "expire"
          /\ work'[p] = Tail(work[p]) \o extra
      BY <2>1, <3>1, <3>3
    <3> HIDE DEF extra
    <3> QED  BY <1>5, <3>1, <3>4, ExpireTail
  <2>7. CASE SettleStep(p) \/ RefreshStep(p) \/ ExpireStep(p)
    <3>1. work'[p] = Tail(work[p]) \o <<>>
      BY <1>2, <2>3, <2>7 DEF SettleStep, RefreshStep, ExpireStep
    <3> QED  BY <1>5, <2>2, <3>1, ExpireTail
  <2> QED  BY <1>5, <2>4, <2>5, <2>6, <2>7 DEF Continue
<1>6. CASE StartPoll(p) \/ checkExpiredInvoices(p)
  <2>1. invoice' = invoice
    BY <1>6 DEF StartPoll, checkExpiredInvoices, store
  <2>2. CASE UNCHANGED work
    BY <2>1, <2>2, ExpireSame
  <2>3. CASE ~UNCHANGED work
    <3>1. Stored(invoice) = {} /\ work' = [work EXCEPT ![p] = <<ExpireTask>>]
      BY <1>6, <2>3 DEF StartPoll, ReportExpiry, QueryWallet,
         checkExpiredInvoices
    <3> QED  BY <1>2, <2>1, <3>1, ExpireFresh
  <2> QED  BY <2>2, <2>3
<1>7. CASE AnswerPoll(p)
  <2>1. PICK k \in DOMAIN polls[p] : Answer(p, k)
    BY <1>7 DEF AnswerPoll
  <2>2. TypeOK /\ SnapshotInv /\ p \in Procs
    BY <1>1, <1>2 DEF SettleInv
  <2>3. PICK tasks \in Seq(Found) : work' = [work EXCEPT ![p] = tasks]
    BY <2>1, <2>2, AnswerTasks
  <2>4. \A i \in DOMAIN tasks : tasks[i].op # "expire"
    <3>1. \A i \in DOMAIN tasks : tasks[i] \in Found
      BY LenProperties, ElementOfSeq
    <3> QED  BY <3>1 DEF Found
  <2>5. work'[p] = tasks
    BY <1>2, <2>3
  <2> QED  BY <2>4, <2>5, ExpireFresh
<1>8. CASE Crash(p)
  <2>1. work'[p] = <<>>
    BY <1>2, <1>8 DEF Crash
  <2>2. DOMAIN <<>> = {}
    OBVIOUS
  <2> QED  BY <2>1, <2>2, ExpireFresh
<1>9. CASE \/ FailPoll(p) \/ Start(p)
           \/ (\E new \in SUBSET Txs : Block(new)) \/ PassTtl \/ UNCHANGED vars
  <2>1. UNCHANGED work /\ invoice' = invoice
    BY <1>9 DEF FailPoll, Start, Block, PassTtl, vars, store
  <2> QED  BY <2>1, ExpireSame
<1>10. Continue(p) => work[p] # <<>>
  BY DEF Continue, DetectStep, CrossStep, SettleStep, ConfirmStep, RefreshStep,
     ExpireStep, Next1
<1> QED  BY <1>5, <1>6, <1>7, <1>8, <1>9, <1>10 DEF Next

\* A single process never expires an invoice that has a payment, although
\* onInvoiceExpired writes long after checkExpiredInvoices looked.
THEOREM ExpiryAwareOfPayments ==
  ASSUME NEW p, Procs = {p}
  PROVE  Spec => ExpiryIsPaymentAware
<1> DEFINE Aware == (invoice'.status = "expired" /\ invoice.status # "expired")
                      => Stored(invoice) = {}
<1>1. Init => ExpireInv
  <2>1. DOMAIN <<>> = {}
    OBVIOUS
  <2> QED  BY <2>1 DEF Init, ExpireInv
<1>2. SettleInv /\ ExpireInv /\ [Next]_vars => ExpireInv'
  BY ExpireNext
<1>3. SettleInv /\ ExpireInv /\ [Next]_vars => [Aware]_vars
  <2> SUFFICES ASSUME SettleInv, ExpireInv, Next,
                      invoice'.status = "expired", invoice.status # "expired"
               PROVE  Stored(invoice) = {}
    BY DEF vars, store
  <2>1. TypeOK /\ SnapshotInv /\ p \in Procs
    BY DEF SettleInv
  <2>2. CASE ExpireStep(p)
    <3>1. 1 \in DOMAIN work[p] /\ work[p][1].op = "expire"
      BY <2>1, <2>2, HeadTask DEF ExpireStep, Next1
    <3> QED  BY <2>1, <3>1 DEF ExpireInv
  <2>3. CASE SettleStep(p)
    <3>1. Head(work[p]) \in Tasks /\ TaskOK(Head(work[p]))
      BY <2>1, <2>3, HeadTask DEF SettleStep, Next1
    <3>2. Head(work[p]).read \in Invoices /\ Snapshot(Head(work[p]).read)
      BY <3>1 DEF TaskOK, Tasks
    <3>3. decideStatus(Head(work[p]).read) \in Active \cup {"completed"}
      BY <2>1, <3>2, DecideEffect
    <3>4. decideStatus(Head(work[p]).read) # "expired"
      BY <3>3 DEF Active
    <3> DEFINE new == decideStatus(Head(work[p]).read)
    <3>5. invoice' = invoice \/ invoice' = [invoice EXCEPT !.status = new]
      BY <2>3 DEF SettleStep, store
    <3>6. new # "expired"
      BY <3>4
    <3> HIDE DEF new
    <3>7. invoice'.status = invoice.status \/ invoice'.status = new
      BY <2>1, <3>5 DEF TypeOK, Invoices
    <3> QED  BY <3>6, <3>7
  <2>4. CASE DetectStep(p)
    BY <2>1, <2>4 DEF DetectStep, Record, TypeOK, Invoices
  <2>5. CASE CrossStep(p)
    BY <2>1, <2>5 DEF CrossStep, ReportConfirmed, Confirm, TypeOK, Invoices
  <2>6. CASE \/ ConfirmStep(p) \/ RefreshStep(p)
             \/ StartPoll(p) \/ AnswerPoll(p) \/ FailPoll(p)
             \/ checkExpiredInvoices(p) \/ Crash(p) \/ Start(p)
             \/ (\E new \in SUBSET Txs : Block(new)) \/ PassTtl
    <3>1. UNCHANGED store
      BY <2>6 DEF ConfirmStep, RefreshStep, StartPoll, AnswerPoll, Answer,
         FailPoll, checkExpiredInvoices, Crash, Start, Block, PassTtl
    <3> QED  BY <3>1 DEF store
  <2> QED  BY <2>1, <2>2, <2>3, <2>4, <2>5, <2>6 DEF Next, Continue
<1> QED  BY <1>1, <1>2, <1>3, SettleAlways, PTL DEF Spec, ExpiryIsPaymentAware

-----------------------------------------------------------------------------
(* The rows of a lone process.                                             *)

\* What is said of less is not above what holds more.
LEMMA AboveMore ==
  ASSUME value \in [Txs -> Values], outbox \in Seq(Rows),
         NEW inv, NEW more, Above(inv),
         inv.received = Total(Stored(inv)),
         more.received = Total(Stored(more)),
         Stored(inv) \subseteq Stored(more),
         Confirmed(inv) \subseteq Confirmed(more)
  PROVE  Above(more)
<1>1. /\ inv.received \in Nat /\ more.received \in Nat
      /\ inv.received <= more.received
      /\ inv.received = more.received => Stored(inv) = Stored(more)
  <2>1. Stored(more) \in SUBSET Txs /\ Stored(inv) \in SUBSET Stored(more)
    BY DEF Stored
  <2> QED  BY <2>1, TotalMonotone
<1>2. ASSUME NEW i \in Said
      PROVE  /\ outbox[i].total <= more.received
             /\ outbox[i].event = "completed"
                 /\ outbox[i].total = more.received
                  => Stored(more) \subseteq Confirmed(more)
  <2>1. outbox[i].total \in Nat
    <3>1. outbox[i] \in Rows
      BY LenProperties, ElementOfSeq DEF Said
    <3> QED  BY <3>1 DEF Rows
  <2>2. /\ outbox[i].total <= inv.received
        /\ outbox[i].event = "completed" /\ outbox[i].total = inv.received
             => Stored(inv) \subseteq Confirmed(inv)
    BY DEF Above
  <2>3. outbox[i].total <= more.received
    BY <1>1, <2>1, <2>2
  <2>4. ASSUME outbox[i].event = "completed", outbox[i].total = more.received
        PROVE  Stored(more) \subseteq Confirmed(more)
    <3>1. inv.received = more.received /\ outbox[i].total = inv.received
      BY <1>1, <2>1, <2>2, <2>4
    <3> QED  BY <1>1, <2>2, <2>4, <3>1
  <2> QED  BY <2>3, <2>4
<1> QED  BY <1>2 DEF Above

\* A payment row is not a status row.
LEMMA SaidSame ==
  ASSUME TypeOK, NEW t \in Txs,
         outbox' = outbox \/ outbox' = Upsert(outbox, PaymentRow(t))
  PROVE  /\ Said' = Said
         /\ \A i \in Said : outbox'[i] = outbox[i]
<1> DEFINE row == PaymentRow(t)
<1>1. /\ row \in Rows /\ row.event = "payment.detected"
      /\ outbox' = outbox \/ outbox' = Upsert(outbox, row)
      /\ outbox \in Seq(Rows)
  BY DEF PaymentRow, Rows, TypeOK
<1> HIDE DEF row
<1>2. CASE outbox' = outbox
  BY <1>2 DEF Said
<1>3. CASE outbox' = Upsert(outbox, row)
  <2>1. /\ \A i \in DOMAIN outbox :
             i \in DOMAIN outbox' /\ outbox'[i] = outbox[i]
        /\ \/ outbox' = outbox
           \/ /\ DOMAIN outbox = 1..Len(outbox) /\ Len(outbox) \in Nat
              /\ DOMAIN outbox' = 1..(Len(outbox) + 1)
              /\ outbox'[Len(outbox) + 1] = row
    BY <1>1, <1>3, UpsertEffect
  <2>2. \A i \in DOMAIN outbox' : i \in DOMAIN outbox \/ outbox'[i] = row
    BY <2>1
  <2> QED  BY <1>1, <2>1, <2>2 DEF Said
<1> QED  BY <1>1, <1>2, <1>3

\* Such a step keeps what is said of the rows.
LEMMA RowsSame ==
  ASSUME RowsInv, MerchantUpToDate, Said' = Said,
         \A i \in Said : outbox'[i] = outbox[i],
         invoice'.status = invoice.status
  PROVE  /\ RowsInv' /\ MerchantUpToDate'
         /\ \A inv : Above(inv) => Above(inv)'
<1>1. RowsInv'
  <2>1. \A i \in Said : RowShape(outbox'[i])
    BY DEF RowsInv
  <2>2. \A i, j \in Said : i < j => outbox'[i].total <= outbox'[j].total
    BY DEF RowsInv
  <2>3. \A i, j \in Said :
          (/\ i < j /\ outbox'[i].event = "completed"
           /\ outbox'[j].event = "confirming")
             => outbox'[i].total < outbox'[j].total
    BY DEF RowsInv
  <2> QED  BY <2>1, <2>2, <2>3 DEF RowsInv, RowShape
<1>2. MerchantUpToDate'
  <2>1. IF Said = {} THEN invoice.status = "pending"
        ELSE \E i \in Said : /\ outbox[i].event = invoice.status
                             /\ \A j \in Said : j <= i
    BY DEF MerchantUpToDate, Said
  <2>2. IF Said' = {} THEN invoice'.status = "pending"
        ELSE \E i \in Said' : /\ outbox'[i].event = invoice'.status
                              /\ \A j \in Said' : j <= i
    BY <2>1
  <2> QED  BY <2>2 DEF MerchantUpToDate, Said
<1>3. ASSUME NEW inv, Above(inv) PROVE Above(inv)'
  <2>1. \A i \in Said :
          /\ outbox'[i].total <= inv.received
          /\ (outbox'[i].event = "completed"
               /\ outbox'[i].total = inv.received)
               => Stored(inv) \subseteq Confirmed(inv)
    BY <1>3 DEF Above
  <2> QED  BY <2>1 DEF Above, Stored, Confirmed
<1> QED  BY <1>1, <1>2, <1>3

\* A status row that fits the state it was decided from fits the others.
LEMMA RowSaid ==
  ASSUME TypeOK, RowsInv, MerchantUpToDate, NEW inv, Above(inv),
         inv.received \in Nat,
         NEW r \in Rows, RowShape(r), r.total = inv.received,
         r.event = "confirming" => ~(Stored(inv) \subseteq Confirmed(inv)),
         outbox' = Upsert(outbox, r), invoice'.status = r.event
  PROVE  /\ RowsInv' /\ MerchantUpToDate'
         /\ \A i \in Said' :
              outbox'[i] = r \/ (i \in Said /\ outbox'[i] = outbox[i])
<1> DEFINE n == Len(outbox) + 1
<1>1. /\ outbox \in Seq(Rows) /\ n \in Nat /\ DOMAIN outbox = 1..(n - 1)
  <2>1. outbox \in Seq(Rows)
    BY DEF TypeOK, Rows
  <2>2. Len(outbox) \in Nat /\ DOMAIN outbox = 1..Len(outbox)
    BY <2>1, LenProperties
  <2> QED  BY <2>1, <2>2
<1>2. /\ \A i \in DOMAIN outbox :
           i \in DOMAIN outbox' /\ outbox'[i] = outbox[i]
      /\ \E i \in DOMAIN outbox' : outbox'[i] = r
      /\ \/ outbox' = outbox
         \/ DOMAIN outbox' = 1..n /\ outbox'[n] = r
  BY <1>1, UpsertEffect
<1> HIDE DEF n
<1>3. r.event # "payment.detected" /\ r.total \in Nat /\ Price \in Nat \ {0}
  BY SettlementAssumption DEF RowShape, Rows, SettlementAssumption
<1>4. \A i \in Said : /\ i \in Nat /\ outbox[i].total \in Nat
                      /\ RowShape(outbox[i])
                      /\ outbox[i].total <= r.total
                      /\ outbox[i].event = "completed"
                           /\ r.event = "confirming"
                           => outbox[i].total < r.total
  <2> SUFFICES ASSUME NEW i \in Said
               PROVE  /\ i \in Nat /\ outbox[i].total \in Nat
                      /\ RowShape(outbox[i])
                      /\ outbox[i].total <= r.total
                      /\ outbox[i].event = "completed"
                           /\ r.event = "confirming"
                           => outbox[i].total < r.total
    OBVIOUS
  <2>1. i \in DOMAIN outbox /\ i \in Nat
    BY <1>1 DEF Said
  <2>2. outbox[i] \in Rows
    BY <1>1, <2>1, LenProperties, ElementOfSeq
  <2>3. outbox[i].total \in Nat
    BY <2>2 DEF Rows
  <2>4. RowShape(outbox[i])
    BY DEF RowsInv
  <2>5. /\ outbox[i].total <= r.total
        /\ outbox[i].event = "completed" /\ outbox[i].total = r.total
             => Stored(inv) \subseteq Confirmed(inv)
    BY DEF Above
  <2> QED  BY <1>3, <2>1, <2>3, <2>4, <2>5
<1>5. CASE DOMAIN outbox' = 1..n /\ outbox'[n] = r
  <2>1. Said' = Said \cup {n} /\ \A i \in Said : i < n
    <3>1. \A i : i \in 1..n <=> i \in 1..(n - 1) \/ i = n
      BY <1>1, <1>2, <1>5
    <3>2. n \in Said'
      BY <1>3, <1>5, <1>1, <3>1 DEF Said
    <3> QED  BY <1>1, <1>2, <1>5, <3>1, <3>2 DEF Said
  <2>2. \A i \in Said : outbox'[i] = outbox[i]
    BY <1>2 DEF Said
  <2>3. RowsInv'
    <3>1. \A i \in Said' : RowShape(outbox'[i])
      BY <1>4, <1>5, <2>1, <2>2
    <3>2. ASSUME NEW i \in Said', NEW j \in Said', i < j
          PROVE  /\ outbox'[i].total <= outbox'[j].total
                 /\ (/\ outbox'[i].event = "completed"
                     /\ outbox'[j].event = "confirming")
                      => outbox'[i].total < outbox'[j].total
      <4>1. i \in Said
        BY <1>1, <1>4, <2>1, <3>2
      <4>2. CASE j = n
        BY <1>4, <1>5, <2>2, <4>1, <4>2
      <4>3. CASE j \in Said
        BY <2>2, <3>2, <4>1, <4>3 DEF RowsInv
      <4> QED  BY <2>1, <4>2, <4>3
    <3> QED  BY <3>1, <3>2 DEF RowsInv, RowShape
  <2>4. MerchantUpToDate'
    <3>1. /\ n \in Said' /\ outbox'[n].event = invoice'.status
          /\ \A j \in Said' : j <= n
      BY <1>1, <1>4, <1>5, <2>1
    <3> QED  BY <3>1 DEF MerchantUpToDate, Said
  <2> QED  BY <1>5, <2>1, <2>2, <2>3, <2>4
<1>6. CASE outbox' = outbox
  <2>1. Said' = Said
    BY <1>6 DEF Said
  <2>2. RowsInv'
    BY <1>6, <2>1 DEF RowsInv, RowShape
  <2>3. PICK m \in Said : outbox[m] = r
    BY <1>2, <1>3, <1>6 DEF Said
  <2>4. PICK l \in Said : \A j \in Said : j <= l
    BY <2>3 DEF MerchantUpToDate, Said
  <2>5. outbox[l].total = r.total
    <3>1. m = l \/ m < l
      BY <1>4, <2>4
    <3>2. outbox[m].total <= outbox[l].total
      BY <1>4, <3>1 DEF RowsInv
    <3> QED  BY <1>3, <1>4, <2>3, <3>2
  <2>6. outbox[l].event = r.event
    <3>1. CASE r.event = "partial" \/ r.event = "expired"
      BY <1>3, <1>4, <2>5, <3>1 DEF RowShape
    <3>2. CASE r.event = "confirming"
      <4>1. outbox[l].event # "completed"
        BY <1>3, <1>4, <2>5, <3>2
      <4> QED  BY <1>3, <1>4, <2>5, <3>2, <4>1 DEF RowShape
    <3>3. CASE r.event = "completed"
      <4>1. m = l \/ m < l
        BY <1>4, <2>4
      <4>2. outbox[l].event # "confirming"
        BY <1>3, <1>4, <2>3, <2>5, <3>3, <4>1 DEF RowsInv
      <4> QED  BY <1>3, <1>4, <2>5, <3>3, <4>2 DEF RowShape
    <3> QED  BY <3>1, <3>2, <3>3 DEF RowShape
  <2>7. MerchantUpToDate'
    <3>1. /\ l \in Said' /\ outbox'[l].event = invoice'.status
          /\ \A j \in Said' : j <= l
      BY <1>6, <2>1, <2>4, <2>6
    <3> QED  BY <3>1 DEF MerchantUpToDate, Said
  <2> QED  BY <1>6, <2>1, <2>2, <2>7
<1> QED  BY <1>2, <1>5, <1>6

\* The rows and the invoice in a step that says no new status.
LEMMA StatusQuiet ==
  ASSUME SettleInv, RowsInv, AboveInv, MerchantUpToDate, SettleInv',
         \/ outbox' = outbox
         \/ \E t \in Txs : outbox' = Upsert(outbox, PaymentRow(t)),
         invoice'.status = invoice.status, Grows
  PROVE  /\ RowsInv' /\ MerchantUpToDate' /\ Above(invoice)'
         /\ \A inv : Above(inv) => Above(inv)'
<1>1. TypeOK /\ Snapshot(invoice) /\ outbox \in Seq(Rows)
        /\ value \in [Txs -> Values]
  BY DEF SettleInv, SnapshotInv, TypeOK, Rows
<1>2. Said' = Said /\ \A i \in Said : outbox'[i] = outbox[i]
  <2>1. CASE outbox' = outbox
    BY <2>1 DEF Said
  <2>2. CASE \E t \in Txs : outbox' = Upsert(outbox, PaymentRow(t))
    BY <1>1, <2>2, SaidSame
  <2> QED  BY <2>1, <2>2
<1>3. RowsInv' /\ MerchantUpToDate' /\ \A inv : Above(inv) => Above(inv)'
  BY <1>2, RowsSame
<1>4. Above(invoice)'
  <2>1. PICK more : more = invoice'
    OBVIOUS
  <2>2. /\ invoice.received = Total(Stored(invoice))
        /\ more.received = Total(Stored(more))
        /\ Stored(invoice) \subseteq Stored(more)
        /\ Confirmed(invoice) \subseteq Confirmed(more)
    <3>1. Snapshot(invoice)'
      BY DEF SettleInv, SnapshotInv
    <3>2. invoice'.received = Total(Stored(invoice'))
      BY <3>1 DEF Snapshot, Stored, Total, Units, Grows
    <3> QED  BY <1>1, <2>1, <3>2 DEF Snapshot, Grows
  <2>3. Above(invoice)
    BY DEF AboveInv
  <2>4. Above(more)
    BY <1>1, <2>2, <2>3, AboveMore
  <2>5. Above(more)'
    BY <1>3, <2>4
  <2> QED  BY <2>1, <2>5 DEF Above
<1> QED  BY <1>3, <1>4

\* The reads stay in order when a task is done and perhaps one appended.
LEMMA ReadsTail ==
  ASSUME SettleInv, ReadsInv, NEW p, Procs = {p}, work[p] # <<>>,
         NEW extra \in Seq(Tasks), work'[p] = Tail(work[p]) \o extra,
         \A i \in DOMAIN extra : extra[i].op = "settle" =>
           /\ i = 1
           /\ Stored(invoice) \subseteq Stored(extra[i].read)
           /\ Confirmed(invoice) \subseteq Confirmed(extra[i].read)
  PROVE  /\ ReadsInv'
         /\ \A i \in DOMAIN work'[p] :
              \/ \E j \in DOMAIN work[p] : j > 1 /\ work'[p][i] = work[p][j]
              \/ \E j \in DOMAIN extra : work'[p][i] = extra[j]
<1> DEFINE tail == Tail(work[p])
           w    == tail \o extra
<1>1. /\ tail \in Seq(Tasks)
      /\ \A i \in DOMAIN tail :
           i + 1 \in DOMAIN work[p] /\ tail[i] = work[p][i + 1]
  BY HeadTask DEF SettleInv
<1> HIDE DEF tail
<1>2. /\ \A i \in DOMAIN w :
           \/ i \in DOMAIN tail /\ w[i] = tail[i]
           \/ /\ i > Len(tail) /\ i - Len(tail) \in DOMAIN extra
              /\ w[i] = extra[i - Len(tail)]
      /\ Len(tail) \in Nat /\ DOMAIN tail = 1..Len(tail)
      /\ DOMAIN w = 1..Len(w) /\ Len(w) \in Nat
  <2>1. w \in Seq(Tasks)
    BY <1>1, ConcatProperties
  <2> QED  BY <1>1, <2>1, ConcatElements, LenProperties
<1>3. work'[p] = w
  BY DEF tail
<1> HIDE DEF w
<1>4. ASSUME NEW i \in DOMAIN tail
      PROVE  /\ i + 1 > 1 /\ i + 1 \in DOMAIN work[p]
             /\ tail[i] = work[p][i + 1]
             /\ tail[i].op = "settle" =>
                  /\ Stored(tail[i].read) \subseteq Stored(invoice)
                  /\ Confirmed(tail[i].read) \subseteq Confirmed(invoice)
  <2>1. i + 1 > 1 /\ i + 1 \in DOMAIN work[p] /\ tail[i] = work[p][i + 1]
    BY <1>1, <1>2
  <2>2. Snapshot(work[p][i + 1].read)
    BY <2>1 DEF SettleInv, SnapshotInv, TaskOK
  <2> QED  BY <2>1, <2>2 DEF Snapshot
<1>5. ASSUME NEW m \in DOMAIN w, NEW n \in DOMAIN w, m < n,
             w[m].op = "settle", w[n].op = "settle"
      PROVE  /\ Stored(w[m].read) \subseteq Stored(w[n].read)
             /\ Confirmed(w[m].read) \subseteq Confirmed(w[n].read)
  <2>1. m \in Nat /\ n \in Nat
    BY <1>2
  <2>2. CASE n \in DOMAIN tail /\ w[n] = tail[n]
    <3>1. m \in DOMAIN tail /\ w[m] = tail[m]
      BY <1>2, <1>5, <2>1, <2>2
    <3> DEFINE a == m + 1
               b == n + 1
    <3>2. /\ a \in DOMAIN work[p] /\ b \in DOMAIN work[p] /\ a < b
          /\ w[m] = work[p][a] /\ w[n] = work[p][b]
      BY <1>4, <1>5, <2>1, <2>2, <3>1
    <3> HIDE DEF a, b
    <3>3. work[p][a].op = "settle" /\ work[p][b].op = "settle" /\ p \in Procs
      BY <1>5, <3>2
    <3>4. /\ Stored(work[p][a].read) \subseteq Stored(work[p][b].read)
          /\ Confirmed(work[p][a].read) \subseteq Confirmed(work[p][b].read)
      BY <3>2, <3>3 DEF ReadsInv
    <3> QED  BY <3>2, <3>4
  <2>3. CASE /\ n > Len(tail) /\ n - Len(tail) \in DOMAIN extra
             /\ w[n] = extra[n - Len(tail)]
    <3>1. /\ n - Len(tail) = 1
          /\ Stored(invoice) \subseteq Stored(w[n].read)
          /\ Confirmed(invoice) \subseteq Confirmed(w[n].read)
      BY <1>5, <2>3
    <3>2. m \in DOMAIN tail /\ w[m] = tail[m]
      BY <1>2, <1>5, <2>1, <3>1
    <3> QED  BY <1>4, <1>5, <3>1, <3>2
  <2> QED  BY <1>2, <2>2, <2>3
<1>6. ReadsInv'
  BY <1>3, <1>5 DEF ReadsInv, Stored, Confirmed
<1>7. ASSUME NEW i \in DOMAIN w
      PROVE  \/ \E j \in DOMAIN work[p] : j > 1 /\ w[i] = work[p][j]
             \/ \E j \in DOMAIN extra : w[i] = extra[j]
  BY <1>2, <1>4
<1> QED  BY <1>3, <1>6, <1>7

\* A queue whose new read, if any, is the invoice.
LEMMA QueueQuiet ==
  ASSUME SettleInv, ReadsInv, AboveInv, NEW p, Procs = {p}, work[p] # <<>>,
         Grows, Above(invoice)', \A inv : Above(inv) => Above(inv)',
         NEW extra \in Seq(Tasks), work'[p] = Tail(work[p]) \o extra,
         \A i \in DOMAIN extra : extra[i].op = "settle" =>
           i = 1 /\ extra[i].read = invoice'
  PROVE  ReadsInv' /\ AboveInv'
<1>1. /\ ReadsInv'
      /\ \A i \in DOMAIN work'[p] :
           \/ \E j \in DOMAIN work[p] : j > 1 /\ work'[p][i] = work[p][j]
           \/ \E j \in DOMAIN extra : work'[p][i] = extra[j]
  <2>1. \A i \in DOMAIN extra : extra[i].op = "settle" =>
          /\ i = 1
          /\ Stored(invoice) \subseteq Stored(extra[i].read)
          /\ Confirmed(invoice) \subseteq Confirmed(extra[i].read)
    BY DEF Grows
  <2> QED  BY <2>1, ReadsTail
<1>2. ASSUME NEW i \in DOMAIN work'[p], work'[p][i].op = "settle"
      PROVE  Above(work[p][i].read)'
  <2>1. PICK inv : inv = work'[p][i].read
    OBVIOUS
  <2>2. CASE \E j \in DOMAIN work[p] : work'[p][i] = work[p][j]
    <3>1. Above(inv)
      BY <1>2, <2>1, <2>2 DEF AboveInv
    <3>2. Above(inv)'
      BY <3>1
    <3> QED  BY <2>1, <3>2 DEF Above
  <2>3. CASE \E j \in DOMAIN extra : work'[p][i] = extra[j]
    <3>1. work'[p][i].read = invoice'
      BY <1>2, <2>3
    <3> QED  BY <3>1 DEF Above
  <2> QED  BY <1>1, <2>2, <2>3
<1> QED  BY <1>1, <1>2 DEF AboveInv

\* Nothing is written, and nothing to settle is queued.
LEMMA LoneStill ==
  ASSUME LoneInv, NEW p, Procs = {p}, UNCHANGED store,
         \/ UNCHANGED work
         \/ \A i \in DOMAIN work'[p] : work'[p][i].op # "settle"
  PROVE  RowsInv' /\ ReadsInv' /\ AboveInv' /\ MerchantUpToDate'
<1>1. RowsInv' /\ MerchantUpToDate'
  BY DEF LoneInv, RowsInv, RowShape, Said, MerchantUpToDate, store
<1>2. \A inv : Above(inv) => Above(inv)'
  BY DEF Above, Said, store, Stored, Confirmed
<1>3. Above(invoice)'
  BY DEF LoneInv, AboveInv, Above, Said, store, Stored, Confirmed
<1>4. ReadsInv'
  BY DEF LoneInv, ReadsInv, Stored, Confirmed
<1>5. ASSUME NEW i \in DOMAIN work'[p], work'[p][i].op = "settle"
      PROVE  Above(work[p][i].read)'
  <2>1. PICK inv : inv = work'[p][i].read
    OBVIOUS
  <2>2. Above(inv)
    BY <1>5, <2>1 DEF LoneInv, AboveInv
  <2>3. Above(inv)'
    BY <1>2, <2>2
  <2> QED  BY <2>1, <2>3 DEF Above
<1> QED  BY <1>1, <1>3, <1>4, <1>5 DEF AboveInv

\* A detection or a crossing adds to the invoice and leaves its status.
LEMMA PaymentStep ==
  ASSUME SettleInv, NEW p \in Procs, DetectStep(p) \/ CrossStep(p)
  PROVE  Grows /\ invoice'.status = invoice.status /\ Head(work[p]).tx \in Txs
<1> DEFINE task == Head(work[p])
<1>1. TypeOK /\ SnapshotInv /\ Snapshot(invoice)
  BY DEF SettleInv, SnapshotInv
<1>2. work[p] # <<>> /\ UNCHANGED chain
        /\ task.op \in {"detect", "cross", "complete"}
  BY DEF DetectStep, CrossStep, Next1
<1>3. task \in Tasks /\ TaskOK(task)
  BY <1>1, <1>2, HeadTask
<1>4. task.tx \in Txs /\ task.tip \in Nat /\ task.tip <= height
  <2>1. task.tx \in Txs /\ task.tip <= height
    BY <1>2, <1>3 DEF TaskOK
  <2>2. task.tip \in Nat
    BY <1>3, SettlementAssumption DEF Tasks, SettlementAssumption
  <2> QED  BY <2>1, <2>2
<1>5. /\ Stored(invoice) \subseteq Stored(invoice')
      /\ Confirmed(invoice) \subseteq Confirmed(invoice')
      /\ invoice'.status = invoice.status
  <2>1. CASE DetectStep(p)
    <3>1. invoice' = Record(invoice, task.tx, task.tip)
      BY <2>1 DEF DetectStep
    <3> HIDE DEF task
    <3> QED  BY <1>1, <1>4, <3>1, RecordEffect
  <2>2. CASE CrossStep(p)
    <3>1. invoice' = Confirm(invoice, task.tx)
            /\ task.op \in {"cross", "complete"}
      BY <2>2 DEF CrossStep, Next1, ReportConfirmed
    <3> HIDE DEF task
    <3>2. task.tx \in DeepNow
      BY <1>3, <3>1 DEF TaskOK
    <3> QED  BY <1>1, <1>4, <3>1, <3>2, ConfirmEffect
  <2> QED  BY <2>1, <2>2
<1>6. height' = height /\ mined' = mined /\ value' = value /\ height \in Nat
  BY <1>1, <1>2, SettlementAssumption DEF chain, TypeOK, SettlementAssumption
<1> HIDE DEF task
<1>7. Grows
  BY <1>5, <1>6 DEF Grows
<1> QED  BY <1>4, <1>5, <1>7 DEF task

\* A payment is detected or crosses the depth.
LEMMA LonePayment ==
  ASSUME LoneInv, NEW p, Procs = {p}, DetectStep(p) \/ CrossStep(p), SettleInv'
  PROVE  RowsInv' /\ ReadsInv' /\ AboveInv' /\ MerchantUpToDate'
<1> DEFINE t == Head(work[p]).tx
<1>1. SettleInv /\ ReadsInv /\ AboveInv /\ RowsInv /\ MerchantUpToDate
        /\ p \in Procs /\ work[p] # <<>>
  BY DEF LoneInv, DetectStep, CrossStep, Next1
<1>2. Grows /\ invoice'.status = invoice.status /\ t \in Txs
  BY <1>1, PaymentStep
<1>3. \/ outbox' = outbox
      \/ \E u \in Txs : outbox' = Upsert(outbox, PaymentRow(u))
  BY <1>2 DEF DetectStep, CrossStep
<1>4. /\ RowsInv' /\ MerchantUpToDate' /\ Above(invoice)'
      /\ \A inv : Above(inv) => Above(inv)'
  BY <1>1, <1>2, <1>3, StatusQuiet
<1>5. \E extra \in Seq(Tasks) :
        /\ work'[p] = Tail(work[p]) \o extra
        /\ \A i \in DOMAIN extra : extra[i].op = "settle" =>
             i = 1 /\ extra[i].read = invoice'
  <2>1. work \in [Procs -> Seq(Tasks)] /\ invoice' \in Invoices
    BY <1>1 DEF SettleInv, TypeOK
  <2>2. Fresh \in Invoices
    BY DEF Fresh, Invoices, Statuses, Active, Terminal
  <2>3. /\ SettleTask(t, invoice') \in Tasks /\ RefreshTask \in Tasks
        /\ ConfirmTask(t) \in Tasks
    BY <1>2, <2>1, <2>2, SettlementAssumption
       DEF SettleTask, RefreshTask, ConfirmTask, Task, Tasks,
           SettlementAssumption
  <2>4. /\ SettleTask(t, invoice').read = invoice'
        /\ RefreshTask.op = "refresh" /\ ConfirmTask(t).op = "confirm"
    BY DEF SettleTask, RefreshTask, ConfirmTask, Task
  <2>5. Tail(work[p]) \in Seq(Tasks)
    BY <1>1, HeadTask DEF SettleInv
  <2>6. CASE DetectStep(p)
    <3> DEFINE extra == IF MoreDetections(p)
                        THEN <<SettleTask(t, invoice')>>
                        ELSE <<SettleTask(t, invoice'), RefreshTask>>
    <3>1. work'[p] = Tail(work[p]) \o extra
      BY <1>1, <2>1, <2>6 DEF DetectStep
    <3>2. /\ extra \in Seq(Tasks)
          /\ \A i \in DOMAIN extra : extra[i].op = "settle" =>
               i = 1 /\ extra[i].read = invoice'
      BY <2>3, <2>4
    <3> HIDE DEF extra
    <3> QED  BY <3>1, <3>2
  <2>7. CASE CrossStep(p)
    <3> DEFINE extra == <<ConfirmTask(t)>>
    <3>1. work'[p] = Append(Tail(work[p]), ConfirmTask(t))
      BY <1>1, <2>1, <2>7 DEF CrossStep, ReportConfirmed
    <3>2. /\ extra \in Seq(Tasks) /\ work'[p] = Tail(work[p]) \o extra
          /\ \A i \in DOMAIN extra : extra[i].op # "settle"
      BY <2>3, <2>4, <2>5, <3>1
    <3> HIDE DEF extra
    <3> QED  BY <3>2
  <2> QED  BY <2>6, <2>7
<1>6. ReadsInv' /\ AboveInv'
  BY <1>1, <1>2, <1>4, <1>5, QueueQuiet
<1> QED  BY <1>4, <1>6

\* A confirmation rereads the invoice, or the monitor gets its copy.
LEMMA LoneRead ==
  ASSUME LoneInv, NEW p, Procs = {p}, ConfirmStep(p) \/ RefreshStep(p)
  PROVE  RowsInv' /\ ReadsInv' /\ AboveInv' /\ MerchantUpToDate'
<1> DEFINE t == Head(work[p]).tx
<1>1. SettleInv /\ ReadsInv /\ AboveInv /\ p \in Procs /\ work[p] # <<>>
        /\ UNCHANGED <<chain, store>>
  BY DEF LoneInv, ConfirmStep, RefreshStep, Next1
<1>2. Grows /\ invoice' = invoice
  BY <1>1, QuietStep DEF store
<1>3. /\ RowsInv' /\ MerchantUpToDate' /\ Above(invoice)'
      /\ \A inv : Above(inv) => Above(inv)'
  BY <1>1 DEF LoneInv, RowsInv, RowShape, Said, MerchantUpToDate, store,
     AboveInv, Above, Stored, Confirmed
<1>4. \E extra \in Seq(Tasks) :
        /\ work'[p] = Tail(work[p]) \o extra
        /\ \A i \in DOMAIN extra : extra[i].op = "settle" =>
             i = 1 /\ extra[i].read = invoice'
  <2>1. work \in [Procs -> Seq(Tasks)] /\ invoice \in Invoices
    BY <1>1 DEF SettleInv, TypeOK
  <2>2. Tail(work[p]) \in Seq(Tasks) /\ TaskOK(Head(work[p]))
    BY <1>1, HeadTask DEF SettleInv
  <2>3. CASE ConfirmStep(p)
    <3> DEFINE new   == SettleTask(t, invoice)
               extra == <<new>>
    <3>1. t \in Txs
      BY <2>2, <2>3 DEF ConfirmStep, Next1, TaskOK
    <3>2. new \in Tasks /\ new.read = invoice'
      BY <1>2, <2>1, <3>1, SettlementAssumption
         DEF SettleTask, Task, Tasks, SettlementAssumption
    <3>3. work'[p] = Append(Tail(work[p]), new)
      BY <1>1, <2>1, <2>3 DEF ConfirmStep
    <3> HIDE DEF new
    <3>4. /\ extra \in Seq(Tasks) /\ work'[p] = Tail(work[p]) \o extra
          /\ \A i \in DOMAIN extra : i = 1 /\ extra[i].read = invoice'
      BY <2>2, <3>2, <3>3
    <3> HIDE DEF extra
    <3> QED  BY <3>4
  <2>4. CASE RefreshStep(p)
    <3>1. <<>> \in Seq(Tasks) /\ DOMAIN <<>> = {}
      OBVIOUS
    <3>2. work'[p] = Tail(work[p]) \o <<>>
      BY <1>1, <2>1, <2>2, <2>4, ConcatEmptySeq DEF RefreshStep
    <3> QED  BY <3>1, <3>2
  <2> QED  BY <2>3, <2>4
<1>5. ReadsInv' /\ AboveInv'
  BY <1>1, <1>2, <1>3, <1>4, QueueQuiet
<1> QED  BY <1>3, <1>5

\* A new status row is not above what holds more than it was decided from.
LEMMA AboveSaid ==
  ASSUME value \in [Txs -> Values], NEW inv, NEW more, NEW r, Above(more),
         inv.received = Total(Stored(inv)),
         more.received = Total(Stored(more)),
         Stored(inv) \subseteq Stored(more),
         Confirmed(inv) \subseteq Confirmed(more),
         r.total = inv.received,
         r.event = "completed" => Stored(inv) \subseteq Confirmed(inv),
         \A i \in Said' :
           outbox'[i] = r \/ (i \in Said /\ outbox'[i] = outbox[i])
  PROVE  Above(more)'
<1>1. /\ inv.received <= more.received
      /\ inv.received = more.received => Stored(inv) = Stored(more)
  <2>1. Stored(more) \in SUBSET Txs /\ Stored(inv) \in SUBSET Stored(more)
    BY DEF Stored
  <2> QED  BY <2>1, TotalMonotone
<1>2. ASSUME NEW i \in Said'
      PROVE  /\ outbox'[i].total <= more.received
             /\ (outbox'[i].event = "completed"
                  /\ outbox'[i].total = more.received)
                    => Stored(more) \subseteq Confirmed(more)
  <2>1. CASE outbox'[i] = r
    BY <1>1, <2>1
  <2>2. CASE i \in Said /\ outbox'[i] = outbox[i]
    BY <2>2 DEF Above
  <2> QED  BY <2>1, <2>2
<1> QED  BY <1>2 DEF Above, Stored, Confirmed

\* reconcileStatus decides from the oldest read in the queue.
LEMMA LoneSettle ==
  ASSUME LoneInv, NEW p, Procs = {p}, SettleStep(p)
  PROVE  RowsInv' /\ ReadsInv' /\ AboveInv' /\ MerchantUpToDate'
<1> DEFINE task == Head(work[p])
           inv  == task.read
           new  == decideStatus(inv)
           row  == StatusRow(new, inv.received, task.tx)
<1>1. /\ SettleInv /\ ReadsInv /\ AboveInv /\ RowsInv /\ MerchantUpToDate
      /\ p \in Procs /\ work[p] # <<>>
      /\ task.op = "settle" /\ UNCHANGED chain
      /\ \/ UNCHANGED store
         \/ /\ invoice' = [invoice EXCEPT !.status = new]
            /\ outbox' = Upsert(outbox, row)
  BY DEF LoneInv, SettleStep, Next1
<1>2. TypeOK /\ SnapshotInv /\ Snapshot(invoice)
  BY <1>1 DEF SettleInv, SnapshotInv
<1>3. /\ task \in Tasks /\ TaskOK(task)
      /\ task = work[p][1] /\ 1 \in DOMAIN work[p]
      /\ Tail(work[p]) \in Seq(Tasks)
  BY <1>1, <1>2, HeadTask
<1>4. work'[p] = Tail(work[p]) \o <<>>
  <2>1. work'[p] = Tail(work[p])
    BY <1>1, <1>2 DEF SettleStep, TypeOK
  <2> QED  BY <1>3, <2>1, ConcatEmptySeq
<1> HIDE DEF task
<1>5. /\ inv \in Invoices /\ Snapshot(inv) /\ task.tx \in Txs
      /\ Stored(inv) # {}
  BY <1>1, <1>3 DEF TaskOK, Tasks
<1>6. Above(inv)
  BY <1>1, <1>3 DEF AboveInv
<1> HIDE DEF inv
<1>7. <<>> \in Seq(Tasks) /\ DOMAIN <<>> = {}
  OBVIOUS
<1>8. CASE UNCHANGED store
  <2>1. Grows
    BY <1>1, <1>8, QuietStep
  <2>2. /\ RowsInv' /\ MerchantUpToDate' /\ Above(invoice)'
        /\ \A any : Above(any) => Above(any)'
    BY <1>1, <1>8 DEF RowsInv, RowShape, Said, MerchantUpToDate, store,
       AboveInv, Above, Stored, Confirmed
  <2>3. ReadsInv' /\ AboveInv'
    BY <1>1, <1>4, <1>7, <2>1, <2>2, QueueQuiet
  <2> QED  BY <2>2, <2>3
<1>9. CASE /\ invoice' = [invoice EXCEPT !.status = new]
           /\ outbox' = Upsert(outbox, row)
  <2>1. /\ new \in Active \cup {"completed"}
        /\ new = "completed" =>
             Stored(inv) \subseteq Confirmed(inv) /\ inv.received >= Price
        /\ new = "confirming" =>
             inv.received >= Price /\ ~(Stored(inv) \subseteq Confirmed(inv))
        /\ new # "pending"
        /\ new = "partial" => 0 < inv.received /\ inv.received < Price
    BY <1>2, <1>5, DecideEffect
  <2>2. /\ invoice'.status = new /\ invoice'.paid = invoice.paid
        /\ invoice'.received = invoice.received
    BY <1>2, <1>9 DEF TypeOK, Invoices
  <2>3. new \in Statuses
    BY <2>1 DEF Statuses, Terminal
  <2> HIDE DEF new
  <2>4. inv.received \in Nat
    BY <1>5 DEF Invoices
  <2>5. row \in Rows /\ row.event = new /\ row.total = inv.received
    BY <1>5, <2>3, <2>4 DEF StatusRow, Rows
  <2>6. outbox' = Upsert(outbox, row)
    BY <1>9
  <2> HIDE DEF row
  <2>7. RowShape(row)
    BY <2>1, <2>5 DEF RowShape, Active
  <2>8. /\ RowsInv' /\ MerchantUpToDate'
        /\ \A i \in Said' :
             outbox'[i] = row \/ (i \in Said /\ outbox'[i] = outbox[i])
    BY <1>1, <1>2, <1>6, <2>1, <2>2, <2>4, <2>5, <2>6, <2>7, RowSaid
  <2>9. /\ value \in [Txs -> Values] /\ inv.received = Total(Stored(inv))
        /\ row.event = "completed" => Stored(inv) \subseteq Confirmed(inv)
    BY <1>2, <1>5, <2>1, <2>5 DEF TypeOK, Snapshot
  <2>10. Above(invoice)'
    <3>1. PICK more : more = invoice
      OBVIOUS
    <3>2. /\ Above(more) /\ more.received = Total(Stored(more))
          /\ Stored(inv) \subseteq Stored(more)
          /\ Confirmed(inv) \subseteq Confirmed(more)
      BY <1>1, <1>2, <1>5, <3>1 DEF AboveInv, Snapshot
    <3>3. Above(more)'
      BY <2>5, <2>8, <2>9, <3>2, AboveSaid
    <3> QED  BY <2>2, <3>1, <3>3 DEF Above, Stored, Confirmed
  <2>11. /\ ReadsInv'
         /\ \A i \in DOMAIN work'[p] :
              \E j \in DOMAIN work[p] : j > 1 /\ work'[p][i] = work[p][j]
    <3> DEFINE none == <<>>
    <3>1. /\ none \in Seq(Tasks) /\ DOMAIN none = {}
          /\ work'[p] = Tail(work[p]) \o none
      BY <1>4, <1>7
    <3> HIDE DEF none
    <3>2. \A i \in DOMAIN none : none[i].op = "settle" =>
            /\ i = 1
            /\ Stored(invoice) \subseteq Stored(none[i].read)
            /\ Confirmed(invoice) \subseteq Confirmed(none[i].read)
      BY <3>1
    <3>3. /\ ReadsInv'
          /\ \A i \in DOMAIN work'[p] :
               \/ \E j \in DOMAIN work[p] : j > 1 /\ work'[p][i] = work[p][j]
               \/ \E j \in DOMAIN none : work'[p][i] = none[j]
      <4>1. SettleInv /\ ReadsInv /\ work[p] # <<>>
        BY <1>1
      <4> QED  BY <3>1, <3>2, <4>1, ReadsTail
    <3> QED  BY <3>1, <3>3
  <2>12. ASSUME NEW i \in DOMAIN work'[p], work'[p][i].op = "settle"
         PROVE  Above(work[p][i].read)'
    <3>1. PICK j \in DOMAIN work[p] : j > 1 /\ work'[p][i] = work[p][j]
      BY <2>11
    <3>2. PICK more : more = work[p][j].read
      OBVIOUS
    <3>3. Above(more) /\ Snapshot(more)
      BY <1>1, <1>2, <2>12, <3>1, <3>2 DEF AboveInv, SnapshotInv, TaskOK
    <3>4. /\ Stored(work[p][1].read) \subseteq Stored(work[p][j].read)
          /\ Confirmed(work[p][1].read) \subseteq Confirmed(work[p][j].read)
      <4>1. work[p][1].op = "settle" /\ work[p][j].op = "settle" /\ 1 < j
        <5>1. work[p] \in Seq(Tasks)
          BY <1>1, <1>2 DEF TypeOK
        <5>2. j \in Nat
          BY <5>1, LenProperties
        <5> QED  BY <1>1, <1>3, <2>12, <3>1, <5>2
      <4> QED  BY <1>1, <1>3, <4>1 DEF ReadsInv
    <3>5. /\ Stored(inv) \subseteq Stored(more)
          /\ Confirmed(inv) \subseteq Confirmed(more)
      BY <1>3, <3>2, <3>4 DEF inv
    <3>6. Above(more)'
      BY <2>5, <2>8, <2>9, <3>3, <3>5, AboveSaid DEF Snapshot
    <3> QED  BY <3>1, <3>2, <3>6 DEF Above
  <2>13. AboveInv'
    BY <2>10, <2>12 DEF AboveInv
  <2> QED  BY <2>8, <2>11, <2>13
<1> QED  BY <1>1, <1>8, <1>9

\* The expiry is written of an invoice without a payment.
LEMMA LoneExpire ==
  ASSUME LoneInv, NEW p, Procs = {p}, ExpireStep(p)
  PROVE  RowsInv' /\ ReadsInv' /\ AboveInv' /\ MerchantUpToDate'
<1> DEFINE row == StatusRow("expired", invoice.received, NoTx)
<1>1. /\ SettleInv /\ ExpireInv /\ AboveInv /\ RowsInv /\ MerchantUpToDate
      /\ p \in Procs /\ work[p] # <<>> /\ Head(work[p]).op = "expire"
      /\ invoice' = [invoice EXCEPT !.status = "expired"]
      /\ outbox' = Upsert(outbox, row)
      /\ work' = [work EXCEPT ![p] = Tail(@)]
  BY DEF LoneInv, ExpireStep, Next1
<1>2. TypeOK /\ SnapshotInv /\ Snapshot(invoice)
  BY <1>1 DEF SettleInv, SnapshotInv
<1>3. Stored(invoice) = {} /\ work[p] = <<ExpireTask>>
  <2>1. 1 \in DOMAIN work[p] /\ work[p][1].op = "expire"
    BY <1>1, <1>2, HeadTask
  <2> QED  BY <1>1, <2>1 DEF ExpireInv
<1>4. work'[p] = <<>> /\ DOMAIN <<>> = {}
  <2>1. work \in [Procs -> Seq(Tasks)]
    BY <1>2 DEF TypeOK
  <2> QED  BY <1>1, <1>3, <2>1
<1>5. invoice.received = 0 /\ value \in [Txs -> Values]
  BY <1>2, <1>3, TotalZero DEF Snapshot, TypeOK
<1>6. /\ invoice'.status = "expired" /\ invoice'.paid = invoice.paid
      /\ invoice'.received = invoice.received
  BY <1>1, <1>2 DEF TypeOK, Invoices
<1>7. /\ row \in Rows /\ row.event = "expired" /\ row.total = invoice.received
      /\ RowShape(row)
  BY <1>5 DEF StatusRow, Rows, Statuses, Terminal, RowShape
<1> HIDE DEF row
<1>8. Above(invoice)
  BY <1>1 DEF AboveInv
<1>9. /\ RowsInv' /\ MerchantUpToDate'
      /\ \A i \in Said' :
           outbox'[i] = row \/ (i \in Said /\ outbox'[i] = outbox[i])
  BY <1>1, <1>2, <1>5, <1>6, <1>7, <1>8, RowSaid
<1>10. Above(invoice)'
  <2>1. PICK inv : inv = invoice
    OBVIOUS
  <2>2. Above(inv) /\ inv.received = Total(Stored(inv))
          /\ row.total = inv.received /\ row.event # "completed"
    BY <1>2, <1>7, <1>8, <2>1 DEF Snapshot
  <2>3. Above(inv)'
    BY <1>5, <1>9, <2>2, AboveSaid
  <2> QED  BY <1>6, <2>1, <2>3 DEF Above, Stored, Confirmed
<1>11. ReadsInv' /\ AboveInv'
  BY <1>4, <1>10 DEF ReadsInv, AboveInv
<1> QED  BY <1>9, <1>11

\* Every step of a lone process and of the chain keeps the rows in order.
LEMMA LoneNext ==
  ASSUME NEW p, Procs = {p}, LoneInv, [Next]_vars
  PROVE  LoneInv'
<1>1. SettleInv /\ ExpireInv /\ p \in Procs
  BY DEF LoneInv
<1>2. SettleInv' /\ ExpireInv'
  BY <1>1, SettleNext, ExpireNext
<1>3. work \in [Procs -> Seq(Tasks)]
  BY <1>1 DEF SettleInv, TypeOK
<1> SUFFICES RowsInv' /\ ReadsInv' /\ AboveInv' /\ MerchantUpToDate'
  BY <1>2 DEF LoneInv
<1>4. CASE Continue(p)
  BY <1>2, <1>4, LonePayment, LoneRead, LoneSettle, LoneExpire DEF Continue
<1>5. CASE StartPoll(p) \/ checkExpiredInvoices(p)
  <2>1. UNCHANGED store
    BY <1>5 DEF StartPoll, checkExpiredInvoices
  <2>2. UNCHANGED work \/ work' = [work EXCEPT ![p] = <<ExpireTask>>]
    BY <1>5 DEF StartPoll, ReportExpiry, QueryWallet, checkExpiredInvoices
  <2>3. ASSUME work' = [work EXCEPT ![p] = <<ExpireTask>>]
        PROVE  \A i \in DOMAIN work'[p] : work'[p][i].op # "settle"
    <3>1. work'[p] = <<ExpireTask>> /\ ExpireTask.op = "expire"
      BY <1>1, <1>3, <2>3 DEF ExpireTask, Task
    <3> QED  BY <3>1
  <2> QED  BY <2>1, <2>2, <2>3, LoneStill
<1>6. CASE AnswerPoll(p)
  <2>1. PICK k \in DOMAIN polls[p] : Answer(p, k)
    BY <1>6 DEF AnswerPoll
  <2>2. TypeOK /\ SnapshotInv /\ p \in Procs
    BY <1>1 DEF SettleInv
  <2>3. PICK tasks \in Seq(Found) : work' = [work EXCEPT ![p] = tasks]
    BY <2>1, <2>2, AnswerTasks
  <2>4. \A i \in DOMAIN tasks : tasks[i].op # "settle"
    <3>1. \A i \in DOMAIN tasks : tasks[i] \in Found
      BY LenProperties, ElementOfSeq
    <3> QED  BY <3>1 DEF Found
  <2>5. work'[p] = tasks /\ UNCHANGED store
    BY <1>1, <1>3, <2>1, <2>3 DEF Answer
  <2> QED  BY <2>4, <2>5, LoneStill
<1>7. CASE Crash(p)
  <2>1. work'[p] = <<>> /\ UNCHANGED store
    BY <1>1, <1>3, <1>7 DEF Crash
  <2>2. DOMAIN <<>> = {}
    OBVIOUS
  <2> QED  BY <2>1, <2>2, LoneStill
<1>8. CASE \/ FailPoll(p) \/ Start(p)
           \/ (\E new \in SUBSET Txs : Block(new)) \/ PassTtl \/ UNCHANGED vars
  <2>1. UNCHANGED work /\ UNCHANGED store
    BY <1>8 DEF FailPoll, Start, Block, PassTtl, vars
  <2> QED  BY <2>1, LoneStill
<1> QED  BY <1>4, <1>5, <1>6, <1>7, <1>8 DEF Next

\* The last status row of a single process is the stored status, whatever
\* the amounts, the order of the payments, the crashes and the overlap of
\* its polls: no edge collapses onto the id of an earlier one
\* (deriveDiscriminator).
THEOREM LastRowIsStatus ==
  ASSUME NEW p, Procs = {p}
  PROVE  Spec => []MerchantUpToDate
<1>1. Init => LoneInv
  <2> SUFFICES ASSUME Init PROVE LoneInv
    OBVIOUS
  <2>1. DOMAIN <<>> = {} /\ Fresh.status = "pending"
    BY DEF Fresh
  <2>2. outbox = <<>> /\ invoice = Fresh /\ work = [q \in Procs |-> <<>>]
    BY DEF Init
  <2>3. Said = {} /\ \A q \in Procs : DOMAIN work[q] = {}
    BY <2>1, <2>2 DEF Said
  <2>4. ExpireInv /\ RowsInv /\ ReadsInv /\ AboveInv
    BY <2>3 DEF ExpireInv, RowsInv, ReadsInv, AboveInv, Above
  <2>5. MerchantUpToDate
    BY <2>1, <2>2 DEF MerchantUpToDate
  <2> QED  BY <2>4, <2>5, SettleInit DEF LoneInv
<1>2. LoneInv /\ [Next]_vars => LoneInv'
  BY LoneNext
<1>3. LoneInv => MerchantUpToDate
  BY DEF LoneInv
<1> QED  BY <1>1, <1>2, <1>3, PTL DEF Spec

=============================================================================
