------------------------- MODULE EscrowSync_proofs -------------------------
(***************************************************************************)
(* The safety invariants of EscrowSync hold for any number of boxes and    *)
(* polls, any re-quote budget and any bound on crashes.                    *)
(*                                                                         *)
(* None of them is inductive: what a late answer does to the invoice       *)
(* depends on what answers under way may say.  The strengthening says that *)
(* an answer, a manager's record and the stored binding are each either a  *)
(* status the box has had while its money was at stake or the status it    *)
(* ended in.                                                               *)
(***************************************************************************)
EXTENDS EscrowSync, TLAPS

Deposited == Settled \cup {"funded", "disputed"}

\* a may be the last news of a box that is at s on the chain.
News(a, s) ==
  /\ a \in BoxStatuses /\ s \in BoxStatuses
  /\ a \in Active \/ a = s
  /\ a \in {"funded", "disputed"} => s \in Deposited

PollsInv ==
  \A p \in Polls : poll[p] # Idle =>
    poll[p].box \in Boxes /\ News(poll[p].answer, chain[poll[p].box])

RecordsInv ==
  \A b \in Boxes : record[b] # "none" => News(record[b], chain[b])

BlobInv ==
  /\ blob.status = "quoted" => blob.box = None
  /\ blob.box = None => blob.status \in {"quoted", "cancelled"}
  /\ blob.box # None =>
       \/ News(blob.status, chain[blob.box])
       \/ blob.status = "cancelled" /\ blob.box \in cut

TeardownInv ==
  /\ teardown.box # None =>
       /\ received
       /\ blob.box = teardown.box /\ teardown.copy.box = teardown.box
  /\ teardown.box = None => ~teardown.open

WatchedInv ==
  LET b == blob.box IN
  up /\ b \in Boxes \ cut /\ chain[b] \in Active
  => b \in tracked /\ record[b] \in Active

MarkerInv == received /\ ~bridge => marker

SyncInv ==
  /\ TypeOK /\ PollsInv /\ RecordsInv /\ BlobInv /\ TeardownInv
  /\ OutcomeIsTrue /\ WatchedInv /\ MarkerInv

USE EscrowSyncAssumption
USE DEF Active, SellerPaid, BuyerPaid, Settled, BoxStatuses, Deposited,
        Idle, store, memory, history

-----------------------------------------------------------------------------
(* Every action keeps every part.                                          *)

\* A box moves only along Edges: what was news of it stays news.
LEMMA ChainStepKeeps ==
  ASSUME NEW b \in Boxes, SyncInv, ChainStep(b)
  PROVE  SyncInv'
<1>1. TypeOK'
  BY DEF SyncInv, ChainStep, TypeOK
<1>2. PollsInv'
  BY DEF SyncInv, ChainStep, Edges, PollsInv, News
<1>3. RecordsInv'
  BY DEF SyncInv, ChainStep, Edges, RecordsInv, News
<1>4. BlobInv'
  BY DEF SyncInv, ChainStep, Edges, BlobInv, News
<1>5. TeardownInv'
  BY DEF SyncInv, ChainStep, TeardownInv
<1>6. OutcomeIsTrue'
  BY DEF SyncInv, ChainStep, Edges, OutcomeIsTrue
<1>7. WatchedInv'
  BY DEF SyncInv, ChainStep, Edges, WatchedInv
<1>8. MarkerInv'
  BY DEF SyncInv, ChainStep, MarkerInv
<1> QED  BY <1>1, <1>2, <1>3, <1>4, <1>5, <1>6, <1>7, <1>8 DEF SyncInv

\* A claim binds a box nobody has asked about, with its record in place.
LEMMA ClaimKeeps ==
  ASSUME NEW b \in Boxes, SyncInv, Claim(b)
  PROVE  SyncInv'
<1>1. TypeOK'
  BY DEF SyncInv, Claim, TypeOK, Blobs
<1>2. PollsInv'
  BY DEF SyncInv, Claim, PollsInv, News
<1>3. RecordsInv'
  BY DEF SyncInv, Claim, TypeOK, RecordsInv, News
<1>4. BlobInv'
  BY DEF SyncInv, Claim, TypeOK, BlobInv, News
<1>5. TeardownInv'
  BY DEF SyncInv, Claim, BlobInv, TeardownInv
<1>6. OutcomeIsTrue'
  BY DEF SyncInv, Claim, BlobInv, OutcomeIsTrue
<1>7. WatchedInv'
  BY DEF SyncInv, Claim, TypeOK, WatchedInv
<1>8. MarkerInv'
  BY DEF SyncInv, Claim, MarkerInv
<1> QED  BY <1>1, <1>2, <1>3, <1>4, <1>5, <1>6, <1>7, <1>8 DEF SyncInv

\* An answer is news of the box when it leaves the chain.
LEMMA PollAsksKeeps ==
  ASSUME NEW p \in Polls, NEW b \in Boxes, SyncInv, PollAsks(p, b)
  PROVE  SyncInv'
<1>1. TypeOK'
  <2>1. chain[b] \in BoxStatuses
    BY DEF SyncInv, PollAsks, RecordsInv, News
  <2>2. poll' \in [Polls -> [box : Boxes \cup {None},
                           answer : BoxStatuses \cup {"none"}]]
    BY <2>1 DEF SyncInv, PollAsks, TypeOK
  <2> QED  BY <2>2 DEF SyncInv, PollAsks, TypeOK
<1>2. PollsInv'
  BY DEF SyncInv, PollAsks, RecordsInv, PollsInv, News
<1>3. RecordsInv'
  BY DEF SyncInv, PollAsks, RecordsInv
<1>4. BlobInv'
  BY DEF SyncInv, PollAsks, BlobInv
<1>5. TeardownInv'
  BY DEF SyncInv, PollAsks, TeardownInv
<1>6. OutcomeIsTrue'
  BY DEF SyncInv, PollAsks, OutcomeIsTrue
<1>7. WatchedInv'
  BY DEF SyncInv, PollAsks, WatchedInv
<1>8. MarkerInv'
  BY DEF SyncInv, PollAsks, MarkerInv
<1> QED  BY <1>1, <1>2, <1>3, <1>4, <1>5, <1>6, <1>7, <1>8 DEF SyncInv

\* A failed poll leaves the other answers as they were.
LEMMA PollFailsKeeps ==
  ASSUME NEW p \in Polls, SyncInv, PollFails(p)
  PROVE  SyncInv'
<1>1. TypeOK'
  BY DEF SyncInv, PollFails, TypeOK
<1>2. PollsInv'
  BY DEF SyncInv, PollFails, PollsInv
<1>3. RecordsInv'
  BY DEF SyncInv, PollFails, RecordsInv
<1>4. BlobInv'
  BY DEF SyncInv, PollFails, BlobInv
<1>5. TeardownInv'
  BY DEF SyncInv, PollFails, TeardownInv
<1>6. OutcomeIsTrue'
  BY DEF SyncInv, PollFails, OutcomeIsTrue
<1>7. WatchedInv'
  BY DEF SyncInv, PollFails, WatchedInv
<1>8. MarkerInv'
  BY DEF SyncInv, PollFails, MarkerInv
<1> QED  BY <1>1, <1>2, <1>3, <1>4, <1>5, <1>6, <1>7, <1>8 DEF SyncInv

\* A payment taken by the sink touches neither binding nor boxes.
LEMMA MisrouteBySinkKeeps ==
  ASSUME SyncInv, MisrouteBySink
  PROVE  SyncInv'
<1>1. TypeOK'
  BY DEF SyncInv, MisrouteBySink, Detected, TypeOK
<1>2. PollsInv'
  BY DEF SyncInv, MisrouteBySink, Detected, PollsInv
<1>3. RecordsInv'
  BY DEF SyncInv, MisrouteBySink, Detected, RecordsInv
<1>4. BlobInv'
  BY DEF SyncInv, MisrouteBySink, Detected, BlobInv
<1>5. TeardownInv'
  BY DEF SyncInv, MisrouteBySink, Detected, TeardownInv
<1>6. OutcomeIsTrue'
  BY DEF MisrouteBySink, Detected, OutcomeIsTrue
<1>7. WatchedInv'
  BY DEF SyncInv, MisrouteBySink, Detected, WatchedInv
<1>8. MarkerInv'
  BY DEF MisrouteBySink, Detected, MarkerInv
<1> QED  BY <1>1, <1>2, <1>3, <1>4, <1>5, <1>6, <1>7, <1>8 DEF SyncInv

\* The marker is set with the status, before the wallet is asked.
LEMMA TeardownBeginsKeeps ==
  ASSUME SyncInv, TeardownBegins
  PROVE  SyncInv'
<1>1. TypeOK'
  <2>1. blob' \in Blobs
    BY DEF SyncInv, TeardownBegins, TypeOK, Blobs
  <2>2. teardown' \in [box : Boxes \cup {None}, copy : Blobs, open : BOOLEAN]
    <3>1. blob.box \in Boxes \cup {None}
      BY DEF SyncInv, TypeOK, Blobs
    <3> DEFINE o == chain[blob.box] = "await"
               t == [box |-> blob.box, copy |-> blob, open |-> o]
    <3>2. o \in BOOLEAN
      OBVIOUS
    <3>3. teardown' = teardown \/ teardown' = t
      BY DEF TeardownBegins
    <3> HIDE DEF o
    <3>4. t \in [box : Boxes \cup {None}, copy : Blobs, open : BOOLEAN]
      BY <3>1, <3>2 DEF SyncInv, TypeOK
    <3> QED  BY <3>3, <3>4 DEF SyncInv, TypeOK
  <2> QED  BY <2>1, <2>2 DEF SyncInv, TeardownBegins, Detected, TypeOK
<1>2. PollsInv'
  BY DEF SyncInv, TeardownBegins, Detected, PollsInv
<1>3. RecordsInv'
  BY DEF SyncInv, TeardownBegins, Detected, RecordsInv
<1>4. BlobInv'
  BY DEF SyncInv, TeardownBegins, Detected, TypeOK, Blobs, BlobInv
<1>5. TeardownInv'
  BY DEF SyncInv, TeardownBegins, Detected, BlobInv, TeardownInv
<1>6. OutcomeIsTrue'
  BY DEF TeardownBegins, Detected, OutcomeIsTrue
<1>7. WatchedInv'
  BY DEF SyncInv, TeardownBegins, Detected, TypeOK, Blobs, WatchedInv
<1>8. MarkerInv'
  BY DEF TeardownBegins, MarkerInv
<1> QED  BY <1>1, <1>2, <1>3, <1>4, <1>5, <1>6, <1>7, <1>8 DEF SyncInv

\* The blob written back still names the box it was read with.
LEMMA TeardownAcceptedKeeps ==
  ASSUME SyncInv, TeardownAccepted
  PROVE  SyncInv'
<1>1. TypeOK'
  BY DEF SyncInv, TeardownAccepted, NoTeardown, Quote, TeardownInv, TypeOK,
     Blobs
<1>2. PollsInv'
  BY DEF SyncInv, TeardownAccepted, PollsInv
<1>3. RecordsInv'
  BY DEF SyncInv, TeardownAccepted, RecordsInv
<1>4. BlobInv'
  BY DEF SyncInv, TeardownAccepted, TeardownInv, BlobInv
<1>5. TeardownInv'
  BY DEF TeardownAccepted, NoTeardown, TeardownInv, TeardownInv
<1>6. OutcomeIsTrue'
  BY DEF SyncInv, TeardownAccepted, TeardownInv, OutcomeIsTrue
<1>7. WatchedInv'
  BY DEF SyncInv, TeardownAccepted, TeardownInv, WatchedInv
<1>8. MarkerInv'
  BY DEF SyncInv, TeardownAccepted, MarkerInv
<1> QED  BY <1>1, <1>2, <1>3, <1>4, <1>5, <1>6, <1>7, <1>8 DEF SyncInv

\* A refused teardown leaves the binding as it is.
LEMMA TeardownRefusedKeeps ==
  ASSUME SyncInv, TeardownRefused
  PROVE  SyncInv'
<1>1. TypeOK'
  BY DEF SyncInv, TeardownRefused, NoTeardown, Quote, TypeOK, Blobs
<1>2. PollsInv'
  BY DEF SyncInv, TeardownRefused, PollsInv
<1>3. RecordsInv'
  BY DEF SyncInv, TeardownRefused, RecordsInv
<1>4. BlobInv'
  BY DEF SyncInv, TeardownRefused, BlobInv
<1>5. TeardownInv'
  BY DEF TeardownRefused, NoTeardown, TeardownInv, TeardownInv
<1>6. OutcomeIsTrue'
  BY DEF SyncInv, TeardownRefused, OutcomeIsTrue
<1>7. WatchedInv'
  BY DEF SyncInv, TeardownRefused, WatchedInv
<1>8. MarkerInv'
  BY DEF SyncInv, TeardownRefused, MarkerInv
<1> QED  BY <1>1, <1>2, <1>3, <1>4, <1>5, <1>6, <1>7, <1>8 DEF SyncInv

\* An expired invoice claims nothing of a box.
LEMMA ExpireUnpaidKeeps ==
  ASSUME SyncInv, ExpireUnpaid
  PROVE  SyncInv'
<1>1. TypeOK'
  BY DEF SyncInv, ExpireUnpaid, TypeOK
<1>2. PollsInv'
  BY DEF SyncInv, ExpireUnpaid, PollsInv
<1>3. RecordsInv'
  BY DEF SyncInv, ExpireUnpaid, RecordsInv
<1>4. BlobInv'
  BY DEF SyncInv, ExpireUnpaid, BlobInv
<1>5. TeardownInv'
  BY DEF SyncInv, ExpireUnpaid, TeardownInv
<1>6. OutcomeIsTrue'
  BY DEF ExpireUnpaid, OutcomeIsTrue
<1>7. WatchedInv'
  BY DEF SyncInv, ExpireUnpaid, WatchedInv
<1>8. MarkerInv'
  BY DEF ExpireUnpaid, MarkerInv
<1> QED  BY <1>1, <1>2, <1>3, <1>4, <1>5, <1>6, <1>7, <1>8 DEF SyncInv

\* A crash empties the memory, and nothing is watched.
LEMMA CrashKeeps ==
  ASSUME SyncInv, Crash
  PROVE  SyncInv'
<1>1. TypeOK'
  <2>1. Idle \in [box : Boxes \cup {None}, answer : BoxStatuses \cup {"none"}]
    OBVIOUS
  <2>2. NoTeardown \in [box : Boxes \cup {None}, copy : Blobs, open : BOOLEAN]
    BY DEF NoTeardown, Quote, Blobs
  <2>3. crashes' \in 0 .. MaxCrashes
    BY DEF SyncInv, Crash, TypeOK
  <2>4. teardown' \in [box : Boxes \cup {None}, copy : Blobs, open : BOOLEAN]
    BY <2>2 DEF Crash
  <2>5. poll' \in [Polls -> [box : Boxes \cup {None},
                           answer : BoxStatuses \cup {"none"}]]
    <3> HIDE DEF Idle
    <3> QED  BY <2>1 DEF Crash
  <2> QED  BY <2>3, <2>4, <2>5 DEF SyncInv, Crash, TypeOK
<1>2. PollsInv'
  BY DEF Crash, PollsInv
<1>3. RecordsInv'
  BY DEF Crash, RecordsInv
<1>4. BlobInv'
  BY DEF SyncInv, Crash, BlobInv
<1>5. TeardownInv'
  BY DEF Crash, NoTeardown, TeardownInv, TeardownInv
<1>6. OutcomeIsTrue'
  BY DEF SyncInv, Crash, OutcomeIsTrue
<1>7. WatchedInv'
  BY DEF Crash, WatchedInv
<1>8. MarkerInv'
  BY DEF SyncInv, Crash, MarkerInv
<1> QED  BY <1>1, <1>2, <1>3, <1>4, <1>5, <1>6, <1>7, <1>8 DEF SyncInv

\* The stored binding of a box with money in it is among those reloaded.
LEMMA RestartKeeps ==
  ASSUME SyncInv, Restart
  PROVE  SyncInv'
<1>1. TypeOK'
  BY DEF SyncInv, Restart, TypeOK, Blobs
<1>2. PollsInv'
  BY DEF SyncInv, Restart, PollsInv
<1>3. RecordsInv'
  BY DEF SyncInv, Restart, TypeOK, BlobInv, RecordsInv
<1>4. BlobInv'
  BY DEF SyncInv, Restart, BlobInv
<1>5. TeardownInv'
  BY DEF SyncInv, Restart, TeardownInv
<1>6. OutcomeIsTrue'
  BY DEF SyncInv, Restart, OutcomeIsTrue
<1>7. WatchedInv'
  BY DEF SyncInv, Restart, TypeOK, BlobInv, News, WatchedInv
<1>8. MarkerInv'
  BY DEF SyncInv, Restart, MarkerInv
<1> QED  BY <1>1, <1>2, <1>3, <1>4, <1>5, <1>6, <1>7, <1>8 DEF SyncInv

\* What the answer does to the invoice is true of the chain.
LEMMA PollReconcilesKeeps ==
  ASSUME NEW p \in Polls, SyncInv, PollReconciles(p)
  PROVE  SyncInv'
<1> DEFINE b == poll[p].box
           s == poll[p].answer
<1>1. b \in Boxes /\ News(s, chain[b])
  BY DEF SyncInv, PollReconciles, PollsInv
<1>2. /\ record' = [record EXCEPT ![b] = s]
      /\ poll' = [poll EXCEPT ![p] = Idle]
      /\ UNCHANGED <<bridge, chain, received, marker, tracked, teardown, up,
                      crashes, cut>>
  BY DEF PollReconciles
<1>3. \/ UNCHANGED <<blob, invoice, requotes>>
      \/ RequoteCancelledEscrow(b) /\ s = "cancelled"
      \/ UpdateInvoiceEscrow(b, s) /\ s \in Settled \cup {"funded",
         "disputed"}
  BY DEF PollReconciles, Handle
<1>4. \/ UNCHANGED <<blob, invoice, requotes>>
      \/ /\ blob.box = b /\ s = "cancelled" /\ ~received
         /\ \/ invoice' = "expired" /\ UNCHANGED <<blob, requotes>>
            \/ /\ blob' = [box |-> None, status |-> "quoted",
                             count |-> blob.count + 1]
               /\ requotes' = requotes + 1
               /\ UNCHANGED invoice
      \/ /\ blob.box = b /\ s \in Deposited
         /\ blob'.box = blob.box /\ blob'.status = s /\ blob' \in Blobs
         /\ invoice' = InvoiceStatus(s)
         /\ UNCHANGED requotes
  <2>1. CASE UNCHANGED <<blob, invoice, requotes>>
    BY <2>1
  <2>2. CASE RequoteCancelledEscrow(b) /\ s = "cancelled"
    BY <2>2 DEF RequoteCancelledEscrow
  <2>3. CASE /\ UpdateInvoiceEscrow(b, s)
             /\ s \in Settled \cup {"funded", "disputed"}
    <3>1. blob \in Blobs
      BY DEF SyncInv, TypeOK
    <3>2. CASE blob.box = b
      <4> DEFINE n == IF s = "funded" THEN 0 ELSE blob.count
      <4>1. n \in Nat
        BY <3>1 DEF Blobs
      <4>2. /\ blob' = [blob EXCEPT !.status = s, !.count = n]
            /\ invoice' = InvoiceStatus(s) /\ UNCHANGED requotes
        BY <2>3, <3>2 DEF UpdateInvoiceEscrow
      <4> HIDE DEF n, b, s
      <4> QED  BY <2>3, <3>1, <3>2, <4>1, <4>2 DEF Blobs
    <3> QED  BY <2>3, <3>2 DEF UpdateInvoiceEscrow
  <2> QED  BY <1>3, <2>1, <2>2, <2>3
<1> HIDE DEF b, s
<1>5. TypeOK'
  <2>1. blob' \in Blobs
    BY <1>4 DEF SyncInv, TypeOK, Blobs
  <2>2. invoice' \in {"pending", "escrow_funded", "disputed", "completed",
                    "refunded", "misrouted_to_base", "expired"}
    BY <1>4 DEF SyncInv, TypeOK, InvoiceStatus
  <2>3. requotes' \in Nat
    BY <1>4 DEF SyncInv, TypeOK
  <2>4. poll' \in [Polls -> [box : Boxes \cup {None},
                           answer : BoxStatuses \cup {"none"}]]
    BY <1>2 DEF SyncInv, TypeOK
  <2>5. record' \in [Boxes -> BoxStatuses \cup {"none"}]
    BY <1>1, <1>2 DEF SyncInv, TypeOK, News
  <2> QED  BY <1>2, <2>1, <2>2, <2>3, <2>4, <2>5 DEF SyncInv, TypeOK
<1>6. PollsInv'
  BY <1>1, <1>2, <1>4 DEF SyncInv, PollsInv
<1>7. RecordsInv'
  BY <1>1, <1>2, <1>4 DEF SyncInv, RecordsInv
<1>8. BlobInv'
  BY <1>1, <1>2, <1>4 DEF SyncInv, BlobInv
<1>9. TeardownInv'
  BY <1>1, <1>2, <1>4 DEF SyncInv, TeardownInv
<1>10. OutcomeIsTrue'
  <2>1. CASE UNCHANGED <<blob, invoice, requotes>>
    BY <1>2, <2>1 DEF SyncInv, OutcomeIsTrue
  <2>2. CASE blob.box = b /\ s = "cancelled"
    <3>1. chain[b] = "cancelled"
      BY <1>1, <2>2 DEF News
    <3>2. invoice \notin {"completed", "refunded", "escrow_funded",
       "disputed"}
      BY <2>2, <3>1 DEF SyncInv, OutcomeIsTrue
    <3> QED  BY <1>4, <2>2, <3>2 DEF OutcomeIsTrue
  <2>3. CASE /\ blob.box = b /\ s \in Deposited
             /\ blob'.box = blob.box
             /\ invoice' = InvoiceStatus(s)
    <3>1. blob'.box = b /\ b # None /\ chain' = chain
      BY <1>1, <1>2, <2>3
    <3>2. s \in Settled => chain[b] = s
      BY <1>1 DEF News
    <3>3. chain[b] \in Deposited
      BY <1>1, <2>3, <3>2 DEF News
    <3> QED  BY <2>3, <3>1, <3>2, <3>3 DEF OutcomeIsTrue, InvoiceStatus
  <2> QED  BY <1>4, <2>1, <2>2, <2>3
<1>11. WatchedInv'
  BY <1>1, <1>2, <1>4 DEF SyncInv, News, WatchedInv
<1>12. MarkerInv'
  BY <1>1, <1>2, <1>4 DEF SyncInv, MarkerInv
<1> QED  BY <1>5, <1>6, <1>7, <1>8, <1>9, <1>10, <1>11, <1>12 DEF SyncInv

-----------------------------------------------------------------------------
(* The theorems.                                                           *)

\* SyncInv holds at the start and is kept by every step.
THEOREM SyncInductive == Spec => []SyncInv
<1>1. Init => SyncInv
  <2> SUFFICES ASSUME Init PROVE SyncInv
    OBVIOUS
  <2>1. TypeOK
    <3>1. Quote \in Blobs
      BY DEF Quote, Blobs
    <3>2. NoTeardown \in [box : Boxes \cup {None}, copy : Blobs,
                         open : BOOLEAN]
      BY <3>1 DEF NoTeardown
    <3>3. bridge \in BOOLEAN /\ crashes \in 0 .. MaxCrashes
      BY DEF Init
    <3> HIDE DEF Quote, NoTeardown
    <3> QED  BY <3>1, <3>2, <3>3 DEF Init, TypeOK
  <2>2. /\ PollsInv /\ RecordsInv /\ BlobInv /\ TeardownInv
        /\ OutcomeIsTrue /\ WatchedInv /\ MarkerInv
    BY DEF Init, PollsInv, RecordsInv, BlobInv, TeardownInv, OutcomeIsTrue,
       WatchedInv, MarkerInv, Quote, NoTeardown
  <2> QED  BY <2>1, <2>2 DEF SyncInv
<1>2. SyncInv /\ [Next]_vars => SyncInv'
  <2> SUFFICES ASSUME SyncInv, [Next]_vars PROVE SyncInv'
    OBVIOUS
  <2>1. CASE Next
    BY <2>1, ChainStepKeeps, ClaimKeeps, PollAsksKeeps, PollFailsKeeps,
       PollReconcilesKeeps, MisrouteBySinkKeeps, TeardownBeginsKeeps,
       TeardownAcceptedKeeps, TeardownRefusedKeeps, ExpireUnpaidKeeps,
       CrashKeeps, RestartKeeps DEF Next
  <2>2. CASE UNCHANGED vars
    BY <2>2 DEF vars, SyncInv, TypeOK, PollsInv, RecordsInv, BlobInv,
       TeardownInv, OutcomeIsTrue, WatchedInv, MarkerInv, News
  <2> QED  BY <2>1, <2>2
<1> QED  BY <1>1, <1>2, PTL DEF Spec

\* Every variable keeps its type.
THEOREM SyncTypeCorrect == Spec => []TypeOK
<1>1. SyncInv => TypeOK
  BY DEF SyncInv
<1> QED  BY <1>1, SyncInductive, PTL

\* The invoice says of money only what its box has done.
THEOREM OutcomeAlwaysTrue == Spec => []OutcomeIsTrue
<1>1. SyncInv => OutcomeIsTrue
  BY DEF SyncInv
<1> QED  BY <1>1, SyncInductive, PTL

\* DERO in the invoice's box stays in the sight of a running process.
THEOREM MoneyAlwaysWatched == Spec => []MoneyIsWatched
<1>1. SyncInv => MoneyIsWatched
  BY DEF SyncInv, WatchedInv, MoneyIsWatched
<1> QED  BY <1>1, SyncInductive, PTL

\* Without a sink no settlement hides a payment on the wrong rail.
THEOREM MisrouteNeverLost == Spec => []MisrouteStaysVisible
<1>1. SyncInv => MisrouteStaysVisible
  BY DEF SyncInv, MarkerInv, MisrouteStaysVisible, Misrouted
<1> QED  BY <1>1, SyncInductive, PTL
=============================================================================
