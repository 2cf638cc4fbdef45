------------------------- MODULE X402Exact_proofs -------------------------
(***************************************************************************)
(* Type correctness of X402Exact, and four of its safety properties, for   *)
(* any calls, pages, prices and requests, and any cap, window, lifetime    *)
(* and bound on time.                                                      *)
(*                                                                         *)
(* What makes them inductive: a page has one leading call (SingleFlight);  *)
(* a receipt, cached or on its way to the handler, is of a final payment   *)
(* or of one that a reorg met between the two reads of /settle (PaidInv);  *)
(* and the receipts that have run the handler have expired or are covered  *)
(* by the order's marker (BurnInv), so that where a marker is found dead   *)
(* they all are.  For the cap: a call whose amount counts has an entry     *)
(* that prune() has not dropped, and a call at the wallet has its          *)
(* reservation (SpendInv).                                                 *)
(***************************************************************************)
EXTENDS X402Exact, FiniteSetTheorems, WellFoundedInduction, TLAPS

SingleFlight ==
  \A c, d \in Calls :
    c # d /\ PageOf[c] = PageOf[d]
    => stage[c] \notin Leading \/ stage[d] \notin Leading

Backed(c) == chain[c] = "final" \/ c \in raced

PaidInv ==
  /\ \A r \in Reqs :
       /\ req[r].waits => req[r].stage # "free"
       /\ req[r].stage # "free" => req[r].order \in Calls
       /\ req[r].stage \in {"check", "reserve"} =>
            req[r].exp > 0 /\ Backed(req[r].order)
       /\ req[r].stage = "depth" /\ req[r].old => req[r].order \in raced
  /\ \A c \in Calls : cache[c] > 0 => Backed(c)
  /\ ServedOnlyIfPaid

BurnInv == \A c \in Calls : ran[c] <= clock \/ ran[c] <= consumed[c]

ExactInv == TypeOK /\ SingleFlight /\ PaidInv /\ BurnInv

-----------------------------------------------------------------------------
(* The pruned ledger.                                                      *)

\* A non-empty set of numbers has the least element that Min chooses.
LEMMA MinIsMember ==
  ASSUME NEW S \in SUBSET Nat, S # {}
  PROVE  Min(S) \in S /\ \A y \in S : Min(S) <= y
<1> DEFINE R == OpToRel(<, Nat)
<1>1. IsWellFoundedOn(R, Nat)
  BY NatLessThanWellFounded
<1> HIDE DEF R
<1>2. PICK x \in S : \A y \in S : <<y, x>> \notin R
  BY <1>1, WFMin
<1>3. ASSUME NEW y \in S, ~(x <= y) PROVE FALSE
  <2>1. <<y, x>> \in Nat \X Nat /\ y < x
    BY <1>3
  <2>2. <<y, x>> \in R
    BY <2>1 DEF R, OpToRel
  <2> QED  BY <1>2, <2>2
<1> QED  BY <1>3 DEF Min

\* Pruning leaves a ledger of calls.
LEMMA PrunedIsLedger ==
  ASSUME ledger \in Seq(Calls)
  PROVE  Pruned \in Seq(Calls)
<1> DEFINE live == {i \in DOMAIN ledger : Live(i)}
<1>1. live \in SUBSET Nat /\ live \subseteq 1 .. Len(ledger)
  OBVIOUS
<1>2. CASE live = {}
  BY <1>2 DEF Pruned
<1>3. CASE live # {}
  <2>1. Min(live) \in 1 .. Len(ledger)
    <3> HIDE DEF live
    <3> QED  BY <1>1, <1>3, MinIsMember
  <2>2. Pruned = SubSeq(ledger, Min(live), Len(ledger))
    BY <1>3 DEF Pruned
  <2> HIDE DEF live
  <2> QED  BY <2>1, <2>2
<1> QED  BY <1>2, <1>3

-----------------------------------------------------------------------------
(* What the shared parts of the actions do.                                *)

\* MoveTo changes the stage and the receipt of one request.
LEMMA Moved ==
  ASSUME RequestTypeOK, NEW r \in Reqs, NEW s \in Stages,
         NEW e \in Expiries, MoveTo(r, s, e)
  PROVE  /\ RequestTypeOK'
         /\ req'[r].stage = s /\ req'[r].exp = e
         /\ req'[r].order = req[r].order /\ req'[r].waits = req[r].waits
         /\ ~req'[r].old
         /\ \A q \in Reqs : q # r => req'[q] = req[q]
BY DEF MoveTo, RequestTypeOK, Stages

\* Ended makes no call a leading one.
LEMMA EndedStops ==
  ASSUME stage \in [Calls -> CallStages], NEW c \in Calls,
         NEW o \in {"served", "failed"}, Ended(c, o)
  PROVE  /\ stage' \in [Calls -> CallStages]
         /\ \A d \in Calls : stage'[d] \in Leading => stage[d] \in Leading
BY DEF Ended, CallStages, Leading

-----------------------------------------------------------------------------
(* Each part of the invariant is preserved.                                *)

\* The client steps of one call keep the single flight.
LEMMA CallSteps ==
  ASSUME ExactInv, NEW c \in Calls,
         \/ Call(c) \/ Challenged(c) \/ Broadcast(c) \/ WalletAnswers(c)
         \/ WalletThrows(c) \/ GiveUp(c) \/ Finalize(c)
  PROVE  /\ TypeOK'
         /\ SingleFlight'
         /\ \A d \in Calls : chain[d] = "final" => chain'[d] = "final"
         /\ UNCHANGED <<clock, req, server, raced>>
<1> USE DEF ExactInv, TypeOK
<1>1. CASE Call(c)
  <2>1. ClientTypeOK'
    BY <1>1 DEF Call, ClientTypeOK, CallStages, Leading
  <2>2. SingleFlight'
    BY <1>1 DEF Call, SingleFlight, ClientTypeOK, Leading
  <2> QED  BY <1>1, <2>1, <2>2 DEF Call, server, RequestTypeOK, ServerTypeOK
<1>2. CASE Challenged(c)
  <2>1. ClientTypeOK' /\ \A d \in Calls :
          stage'[d] \in Leading => stage[d] \in Leading
    <3>1. Pruned \in Seq(Calls)
      BY PrunedIsLedger DEF ClientTypeOK
    <3>2. CASE Ended(c, "failed") /\ ledger' = Pruned /\ UNCHANGED <<at, hold>>
      BY <3>1, <3>2, EndedStops DEF ClientTypeOK
    <3>3. CASE /\ ledger' = Append(Pruned, c)
               /\ at' = [at EXCEPT ![c] = clock]
               /\ hold' = [hold EXCEPT ![c] = "reserved"]
               /\ stage' = [stage EXCEPT ![c] = "paying"]
               /\ stage[c] = "probing"
      <4>1. ledger' \in Seq(Calls)
        BY <3>1, <3>3
      <4> QED  BY <3>3, <4>1 DEF ClientTypeOK, CallStages, Leading
    <3> QED  BY <1>2, <3>2, <3>3 DEF Challenged
  <2> QED  BY <1>2, <2>1 DEF Challenged, SingleFlight, server, RequestTypeOK,
             ServerTypeOK
<1>3. CASE Broadcast(c)
  BY <1>3 DEF Broadcast, SingleFlight, client, server, ClientTypeOK,
     RequestTypeOK, ServerTypeOK
<1>4. CASE WalletAnswers(c)
  BY <1>4 DEF WalletAnswers, SingleFlight, server, ClientTypeOK, CallStages,
     Leading, RequestTypeOK, ServerTypeOK
<1>5. CASE WalletThrows(c)
  BY <1>5, EndedStops DEF WalletThrows, SingleFlight, server, ClientTypeOK,
     RequestTypeOK, ServerTypeOK
<1>6. CASE GiveUp(c)
  BY <1>6, EndedStops DEF GiveUp, SingleFlight, server, ClientTypeOK,
     RequestTypeOK, ServerTypeOK
<1>7. CASE Finalize(c)
  BY <1>7 DEF Finalize, SingleFlight, client, server, ClientTypeOK,
     RequestTypeOK, ServerTypeOK
<1> QED  BY <1>1, <1>2, <1>3, <1>4, <1>5, <1>6, <1>7

\* A payment does not lose its finality, so nothing is lost that rests on it.
LEMMA CallStep ==
  ASSUME ExactInv, NEW c \in Calls,
         \/ Call(c) \/ Challenged(c) \/ Broadcast(c) \/ WalletAnswers(c)
         \/ WalletThrows(c) \/ GiveUp(c) \/ Finalize(c)
  PROVE  ExactInv'
<1>1. PaidInv'
  BY CallSteps DEF ExactInv, PaidInv, ServedOnlyIfPaid, Backed, server
<1>2. BurnInv'
  BY CallSteps DEF ExactInv, BurnInv, server
<1> QED  BY CallSteps, <1>1, <1>2 DEF ExactInv

\* A request that enters a free slot is at the verification, without a
\* receipt.
LEMMA Entered ==
  ASSUME RequestTypeOK, NEW r \in Reqs, NEW c \in Calls, NEW w \in BOOLEAN,
         req' = [req EXCEPT ![r] = Fresh(c, w)]
  PROVE  /\ RequestTypeOK'
         /\ req'[r].stage = "verify" /\ req'[r].order = c
         /\ \A q \in Reqs : q # r => req'[q] = req[q]
BY X402Assumption DEF RequestTypeOK, Stages, Expiries, Fresh

\* What rests on time, chain and receipts only is kept by a step that
\* leaves them and makes no call a leading one.
LEMMA RequestsOnly ==
  ASSUME ExactInv, UNCHANGED <<clock, ledger, at, hold, chain, server, raced>>,
         stage' \in [Calls -> CallStages], RequestTypeOK',
         \A d \in Calls : stage'[d] \in Leading => stage[d] \in Leading
  PROVE  TypeOK' /\ SingleFlight' /\ BurnInv'
<1>1. TypeOK'
  BY DEF ExactInv, TypeOK, ClientTypeOK, ServerTypeOK, server
<1>2. SingleFlight'
  BY DEF ExactInv, SingleFlight
<1>3. BurnInv'
  BY DEF ExactInv, BurnInv, server
<1> QED  BY <1>1, <1>2, <1>3

\* A call that replays its header leaves the payments alone.
LEMMA ReplayStep ==
  ASSUME ExactInv, NEW c \in Calls, Replay(c)
  PROVE  ExactInv'
<1>1. PICK r \in Reqs :
        req' = [req EXCEPT ![r] = Fresh(c, TRUE)]
  BY DEF Replay
<1>2. /\ RequestTypeOK'
      /\ req'[r].stage = "verify" /\ req'[r].order = c
      /\ \A q \in Reqs : q # r => req'[q] = req[q]
  BY <1>1, Entered DEF ExactInv, TypeOK
<1>3. PaidInv'
  BY <1>2 DEF Replay, ExactInv, PaidInv, ServedOnlyIfPaid, Backed, server
<1>4. TypeOK' /\ SingleFlight' /\ BurnInv'
  BY <1>2, RequestsOnly DEF Replay, client, ExactInv, TypeOK, ClientTypeOK
<1> QED  BY <1>3, <1>4 DEF ExactInv

\* A second copy of a request carries the same payment.
LEMMA DuplicateStep ==
  ASSUME ExactInv, NEW r \in Reqs, Duplicate(r)
  PROVE  ExactInv'
<1>1. req[r].order \in Calls
  BY DEF Duplicate, ExactInv, PaidInv
<1>2. PICK s \in Reqs :
        req' = [req EXCEPT ![s] = Fresh(req[r].order, FALSE)]
  BY DEF Duplicate
<1>3. /\ RequestTypeOK'
      /\ req'[s].stage = "verify" /\ req'[s].order = req[r].order
      /\ \A q \in Reqs : q # s => req'[q] = req[q]
  BY <1>1, <1>2, Entered DEF ExactInv, TypeOK
<1>4. PaidInv'
  BY <1>1, <1>3 DEF Duplicate, ExactInv, PaidInv, ServedOnlyIfPaid, Backed,
     server
<1>5. TypeOK' /\ SingleFlight' /\ BurnInv'
  BY <1>3, RequestsOnly DEF Duplicate, client, ExactInv, TypeOK, ClientTypeOK
<1> QED  BY <1>4, <1>5 DEF ExactInv

\* A request goes to the check only with a receipt of the cache, and on to
\* the reservation with that receipt.
LEMMA MoveStep ==
  ASSUME ExactInv, NEW r \in Reqs,
         \/ Verify(r) \/ VerifyDepth(r) \/ SettleLooks(r) \/ SettleReads(r)
         \/ Check(r)
  PROVE  ExactInv'
<1> DEFINE o == req[r].order
<1>1. o \in Calls /\ UNCHANGED <<clock, client, chain, server, raced>>
  BY DEF ExactInv, PaidInv, Verify, VerifyDepth, SettleLooks, SettleReads,
     Check
<1>2. PICK s \in Stages, e \in Expiries :
        /\ MoveTo(r, s, e)
        /\ s # "free"
        /\ s \in {"check", "reserve"} => e > 0 /\ Backed(o)
  <2>1. /\ 0 \in Expiries /\ cache[o] \in Expiries
        /\ req[r].exp \in Expiries /\ clock \in Nat
    BY <1>1, X402Assumption DEF ExactInv, TypeOK, ServerTypeOK,
       RequestTypeOK, Expiries
  <2>2. CASE Verify(r) \/ VerifyDepth(r) \/ SettleReads(r)
    BY <2>1, <2>2 DEF Verify, VerifyDepth, SettleReads, Refuse, Stages
  <2>3. CASE SettleLooks(r)
    <3>1. cache[o] > 0 => Backed(o)
      BY <1>1 DEF ExactInv, PaidInv
    <3> QED  BY <2>1, <2>3, <3>1 DEF SettleLooks, Stages, Expiries
  <2>4. CASE Check(r)
    <3>1. req[r].exp > 0 /\ Backed(o)
      BY <2>4 DEF Check, ExactInv, PaidInv
    <3> QED  BY <2>1, <2>4, <3>1 DEF Check, Refuse, Stages
  <2> QED  BY <2>2, <2>3, <2>4
<1>3. /\ RequestTypeOK'
      /\ req'[r].stage = s /\ req'[r].exp = e /\ ~req'[r].old
      /\ req'[r].order = o /\ req'[r].waits = req[r].waits
      /\ \A q \in Reqs : q # r => req'[q] = req[q]
  BY <1>2, Moved DEF ExactInv, TypeOK
<1>4. PaidInv'
  BY <1>1, <1>2, <1>3 DEF ExactInv, PaidInv, ServedOnlyIfPaid, Backed, server
<1>5. TypeOK' /\ SingleFlight' /\ BurnInv'
  BY <1>1, <1>3, RequestsOnly DEF client, ExactInv, TypeOK, ClientTypeOK
<1> QED  BY <1>4, <1>5 DEF ExactInv

\* A reorg between the two reads of /settle is in raced.
LEMMA OrphanStep ==
  ASSUME ExactInv, NEW c \in Calls, Orphan(c)
  PROVE  ExactInv'
<1> DEFINE met == Between({"verifying", "depth"}, c)
<1>1. UNCHANGED <<clock, client, chain, server>>
  BY DEF Orphan
<1>2. \A q \in Reqs :
        /\ req'[q].stage = req[q].stage /\ req'[q].exp = req[q].exp
        /\ req'[q].order = req[q].order /\ req'[q].waits = req[q].waits
        /\ req'[q].old = (req[q].old \/ q \in met)
  BY DEF Orphan, ExactInv, TypeOK, RequestTypeOK
<1>3. RequestTypeOK'
  BY DEF Orphan, ExactInv, TypeOK, RequestTypeOK
<1>4. raced \subseteq raced' /\ raced' \subseteq Calls
  BY DEF Orphan, ExactInv, TypeOK
<1>5. ASSUME NEW q \in Reqs, req[q].stage = "depth", q \in met
      PROVE  req[q].order \in raced'
  BY <1>5 DEF Orphan, Between
<1>6. \A d \in Calls : Backed(d) => Backed(d)'
  BY <1>1, <1>4 DEF Backed
<1> HIDE DEF met
<1>7. PaidInv'
  <2>1. ASSUME NEW q \in Reqs
        PROVE  /\ req'[q].waits => req'[q].stage # "free"
               /\ req'[q].stage # "free" => req'[q].order \in Calls
               /\ req'[q].stage \in {"check", "reserve"} =>
                    req'[q].exp > 0 /\ Backed(req[q].order)'
               /\ req'[q].stage = "depth" /\ req'[q].old =>
                    req'[q].order \in raced'
    BY <1>2, <1>4, <1>5, <1>6 DEF ExactInv, PaidInv
  <2>2. \A d \in Calls : (ran[d] > 0 \/ cache[d] > 0) => Backed(d)'
    BY <1>6 DEF ExactInv, PaidInv, ServedOnlyIfPaid, Backed
  <2> QED  BY <1>1, <1>2, <2>1, <2>2 DEF PaidInv, ServedOnlyIfPaid, Backed,
             server
<1>8. TypeOK' /\ SingleFlight' /\ BurnInv'
  BY <1>1, <1>3, <1>4 DEF ExactInv, TypeOK, ClientTypeOK, ServerTypeOK,
     SingleFlight, BurnInv, client, server
<1> QED  BY <1>7, <1>8 DEF ExactInv

\* A receipt is signed for a final payment, or for one whose block was
\* orphaned since it was read, and lives for Ttl.
LEMMA SignStep ==
  ASSUME ExactInv, NEW r \in Reqs, SettleSigns(r)
  PROVE  ExactInv'
<1> DEFINE o == req[r].order
           x == clock + Ttl
<1>1. o \in Calls /\ 0 \in Expiries /\ x \in Expiries /\ x > 0
  BY X402Assumption DEF ExactInv, TypeOK, PaidInv, SettleSigns, Expiries
<1>2. UNCHANGED <<clock, client, chain, consumed, ran, raced>>
  BY DEF SettleSigns
<1>3. CASE Backed(o) /\ MoveTo(r, "check", x)
             /\ cache' = [cache EXCEPT ![o] = x]
  <2>1. /\ RequestTypeOK'
        /\ req'[r].stage = "check" /\ req'[r].exp = x
        /\ req'[r].order = o /\ req'[r].waits = req[r].waits
        /\ \A q \in Reqs : q # r => req'[q] = req[q]
    BY <1>1, <1>3, Moved DEF ExactInv, TypeOK, Stages
  <2>2. TypeOK'
    BY <1>1, <1>2, <1>3, <2>1 DEF ExactInv, TypeOK, ClientTypeOK,
       ServerTypeOK, client
  <2>3. PaidInv'
    BY <1>1, <1>2, <1>3, <2>1 DEF ExactInv, PaidInv, ServedOnlyIfPaid, Backed,
       TypeOK, ServerTypeOK
  <2>4. SingleFlight' /\ BurnInv'
    BY <1>2 DEF ExactInv, SingleFlight, BurnInv, client
  <2> QED  BY <2>2, <2>3, <2>4 DEF ExactInv
<1>4. CASE Refuse(r) /\ UNCHANGED cache
  <2>1. /\ RequestTypeOK'
        /\ req'[r].stage = "refused"
        /\ req'[r].order = o /\ req'[r].waits = req[r].waits
        /\ \A q \in Reqs : q # r => req'[q] = req[q]
    BY <1>1, <1>4, Moved DEF ExactInv, TypeOK, Stages, Refuse
  <2>2. PaidInv'
    BY <1>1, <1>2, <1>4, <2>1 DEF ExactInv, PaidInv, ServedOnlyIfPaid, Backed
  <2>3. TypeOK' /\ SingleFlight' /\ BurnInv'
    BY <1>2, <1>4, <2>1, RequestsOnly DEF client, server, ExactInv, TypeOK,
       ClientTypeOK
  <2> QED  BY <2>2, <2>3 DEF ExactInv
<1>5. TRUE \in DeepEnough(r) => Backed(o)
  BY DEF DeepEnough, Backed, ExactInv, PaidInv, SettleSigns
<1> QED  BY <1>3, <1>4, <1>5 DEF SettleSigns, DeepEnough

\* The greater of two numbers is one of them and below neither.
LEMMA MaxOfTwo ==
  ASSUME NEW a \in Int, NEW b \in Int
  PROVE  Max({a, b}) \in {a, b} /\ a <= Max({a, b}) /\ b <= Max({a, b})
<1>1. \E x \in {a, b} : \A y \in {a, b} : x >= y
  OBVIOUS
<1> QED  BY <1>1 DEF Max

\* Where the marker is found dead, every receipt that has run the handler is
\* dead, so that the new marker covers them all.
LEMMA UnlockStep ==
  ASSUME ExactInv, NEW r \in Reqs, Unlock(r)
  PROVE  ExactInv'
<1> DEFINE o == req[r].order
           e == req[r].exp
<1>1. /\ o \in Calls /\ e \in Expiries /\ e > 0 /\ Backed(o)
      /\ 0 \in Expiries
  BY X402Assumption DEF ExactInv, PaidInv, Unlock, TypeOK, RequestTypeOK,
     Expiries
<1>2. UNCHANGED <<clock, client, chain, cache, raced>>
  BY DEF Unlock
<1>3. SingleFlight'
  BY <1>2 DEF ExactInv, SingleFlight, client
<1>4. CASE /\ consumed[o] <= clock
           /\ MoveTo(r, "ok", 0)
           /\ consumed' = [consumed EXCEPT ![o] = e]
           /\ Runs(o, e)
  <2>1. /\ RequestTypeOK'
        /\ req'[r].stage = "ok"
        /\ req'[r].order = o /\ req'[r].waits = req[r].waits
        /\ \A q \in Reqs : q # r => req'[q] = req[q]
    BY <1>1, <1>4, Moved DEF ExactInv, TypeOK, Stages
  <2>2. /\ consumed \in [Calls -> Expiries] /\ ran \in [Calls -> Expiries]
        /\ clock \in Nat
    BY DEF ExactInv, TypeOK, ServerTypeOK
  <2>3. ran[o] \in Expiries /\ consumed[o] \in Expiries
    BY <1>1, <2>2
  <2> DEFINE p == ran[o]
             m == Max({p, e})
  <2>4. m \in {p, e}
    <3>1. p \in Int /\ e \in Int
      BY <1>1, <2>3, X402Assumption DEF Expiries
    <3> HIDE DEF p, e
    <3> QED  BY <3>1, MaxOfTwo
  <2>5. /\ ran' = [ran EXCEPT ![o] = m]
        /\ consumed' = [consumed EXCEPT ![o] = e]
    BY <1>4 DEF Runs
  <2> HIDE DEF m
  <2>6. m \in Expiries
    BY <1>1, <2>3, <2>4
  <2>7. /\ ran' \in [Calls -> Expiries] /\ consumed' \in [Calls -> Expiries]
        /\ ran'[o] = m /\ consumed'[o] = e
        /\ \A c \in Calls : c # o =>
             ran'[c] = ran[c] /\ consumed'[c] = consumed[c]
    BY <1>1, <2>2, <2>5, <2>6
  <2>8. TypeOK'
    BY <1>2, <2>1, <2>7 DEF ExactInv, TypeOK, ClientTypeOK, ServerTypeOK,
       client
  <2>9. BurnInv'
    <3>1. ran[o] <= clock
      BY <1>1, <1>4, <2>2, <2>3 DEF ExactInv, BurnInv, Expiries
    <3>2. m <= clock \/ m <= e
      BY <1>1, <2>4, <3>1 DEF Expiries
    <3> QED  BY <1>2, <2>7, <3>2 DEF ExactInv, BurnInv
  <2>10. PaidInv'
    <3>1. \A c \in Calls : Backed(c)' = Backed(c)
      BY <1>2 DEF Backed
    <3>2. \A c \in Calls : ran'[c] > 0 => Backed(c)
      BY <1>1, <2>7 DEF ExactInv, PaidInv, ServedOnlyIfPaid, Backed
    <3>3. \A q \in Reqs :
            /\ req'[q].waits => req'[q].stage # "free"
            /\ req'[q].stage # "free" => req'[q].order \in Calls
            /\ req'[q].stage \in {"check", "reserve"} =>
                 req'[q].exp > 0 /\ Backed(req'[q].order)
            /\ req'[q].stage = "depth" /\ req'[q].old =>
                 req'[q].order \in raced
      BY <1>1, <2>1 DEF ExactInv, PaidInv
    <3>4. \A c \in Calls : cache[c] > 0 => Backed(c)
      BY DEF ExactInv, PaidInv
    <3> QED  BY <1>2, <3>2, <3>3, <3>4 DEF PaidInv, ServedOnlyIfPaid, Backed
  <2> QED  BY <1>3, <2>8, <2>9, <2>10 DEF ExactInv
<1>5. CASE Refuse(r) /\ UNCHANGED <<consumed, ran>>
  <2>1. /\ RequestTypeOK'
        /\ req'[r].stage = "refused"
        /\ req'[r].order = o /\ req'[r].waits = req[r].waits
        /\ \A q \in Reqs : q # r => req'[q] = req[q]
    BY <1>1, <1>5, Moved DEF ExactInv, TypeOK, Stages, Refuse
  <2>2. PaidInv'
    BY <1>1, <1>2, <1>5, <2>1 DEF ExactInv, PaidInv, ServedOnlyIfPaid, Backed
  <2>3. TypeOK' /\ BurnInv'
    BY <1>2, <1>5, <2>1, RequestsOnly DEF client, server, ExactInv, TypeOK,
       ClientTypeOK
  <2> QED  BY <1>3, <2>2, <2>3 DEF ExactInv
<1> QED  BY <1>4, <1>5 DEF Unlock

\* A connection that ends frees its slot or runs on without its client.
LEMMA RespondAndDisconnect ==
  ASSUME ExactInv, NEW r \in Reqs, Respond(r) \/ Disconnect(r)
  PROVE  ExactInv'
<1>1. req[r].order \in Calls
  BY DEF ExactInv, PaidInv, Respond, Disconnect
<1>2. /\ RequestTypeOK'
      /\ req'[r].stage = "free" \/ req'[r] = [req[r] EXCEPT !.waits = FALSE]
      /\ ~req'[r].waits
      /\ \A q \in Reqs : q # r => req'[q] = req[q]
  <2>1. 0 \in Expiries
    BY X402Assumption DEF Expiries
  <2>2. CASE Respond(r)
    BY <2>1, <2>2 DEF Respond, Free, Stages, ExactInv, TypeOK, RequestTypeOK
  <2>3. CASE Disconnect(r)
    BY <2>3 DEF Disconnect, ExactInv, TypeOK, RequestTypeOK
  <2> QED  BY <2>2, <2>3
<1>3. /\ stage' \in [Calls -> CallStages]
      /\ \A d \in Calls : stage'[d] \in Leading => stage[d] \in Leading
  BY <1>1, EndedStops DEF Respond, Disconnect, ExactInv, TypeOK, ClientTypeOK
<1>4. UNCHANGED <<clock, ledger, at, hold, chain, server, raced>>
  BY DEF Respond, Disconnect
<1>5. PaidInv'
  <2>1. /\ req'[r].stage # "free" => req'[r].order \in Calls
        /\ req'[r].stage \in {"check", "reserve"} =>
             req'[r].exp > 0 /\ Backed(req'[r].order)
        /\ req'[r].stage = "depth" /\ req'[r].old => req'[r].order \in raced
    BY <1>2 DEF ExactInv, PaidInv, TypeOK, RequestTypeOK
  <2> QED  BY <1>2, <1>4, <2>1 DEF ExactInv, PaidInv, ServedOnlyIfPaid, Backed,
             server
<1> QED  BY <1>2, <1>3, <1>4, <1>5, RequestsOnly DEF ExactInv

\* Time only makes receipts expire.
LEMMA TickStep ==
  ASSUME ExactInv, Tick
  PROVE  ExactInv'
<1>1. TypeOK'
  BY X402Assumption DEF Tick, ExactInv, TypeOK, ClientTypeOK, RequestTypeOK,
     ServerTypeOK, client, server
<1>2. SingleFlight' /\ PaidInv'
  BY DEF Tick, ExactInv, SingleFlight, PaidInv, ServedOnlyIfPaid, Backed,
     client, server
<1>3. BurnInv'
  <2>1. /\ clock \in Int /\ clock' = clock + 1
        /\ UNCHANGED <<consumed, ran>>
    BY DEF Tick, ExactInv, TypeOK, server
  <2>2. \A c \in Calls : ran[c] \in Int
    BY DEF ExactInv, TypeOK, ServerTypeOK, Expiries
  <2> QED  BY <2>1, <2>2 DEF ExactInv, BurnInv
<1> QED  BY <1>1, <1>2, <1>3 DEF ExactInv

-----------------------------------------------------------------------------
(* The theorems.                                                           *)

\* ExactInv holds at the start and is kept by every step.
THEOREM ExactInductive == Spec => []ExactInv
<1>1. Init => ExactInv
  <2> SUFFICES ASSUME Init PROVE ExactInv
    OBVIOUS
  <2>1. TypeOK
    BY X402Assumption DEF Init, TypeOK, ClientTypeOK, RequestTypeOK,
       ServerTypeOK, CallStages, Stages, Free, Expiries
  <2>2. SingleFlight /\ PaidInv /\ BurnInv
    BY DEF Init, SingleFlight, Leading, PaidInv, ServedOnlyIfPaid, Backed,
       Free, BurnInv
  <2> QED  BY <2>1, <2>2 DEF ExactInv
<1>2. ExactInv /\ [Next]_vars => ExactInv'
  <2> SUFFICES ASSUME ExactInv, [Next]_vars PROVE ExactInv'
    OBVIOUS
  <2>1. ASSUME NEW c \in Calls,
               \/ Call(c) \/ Challenged(c) \/ Broadcast(c) \/ WalletAnswers(c)
               \/ WalletThrows(c) \/ Replay(c) \/ GiveUp(c)
               \/ Orphan(c) \/ Finalize(c)
        PROVE  ExactInv'
    BY <2>1, CallStep, ReplayStep, OrphanStep
  <2>2. ASSUME NEW r \in Reqs,
               \/ Verify(r) \/ VerifyDepth(r) \/ SettleLooks(r)
               \/ SettleReads(r) \/ SettleSigns(r) \/ Check(r) \/ Unlock(r)
               \/ Respond(r) \/ Disconnect(r) \/ Duplicate(r)
        PROVE  ExactInv'
    BY <2>2, MoveStep, SignStep, UnlockStep, RespondAndDisconnect,
       DuplicateStep
  <2>3. CASE UNCHANGED vars
    BY <2>3 DEF vars, client, server, ExactInv, TypeOK, ClientTypeOK,
       RequestTypeOK, ServerTypeOK, SingleFlight, PaidInv, ServedOnlyIfPaid,
       Backed, BurnInv
  <2> QED  BY <2>1, <2>2, <2>3, TickStep DEF Next
<1> QED  BY <1>1, <1>2, PTL DEF Spec

\* The ledger holds calls only, and times and receipts stay in range.
THEOREM ExactTypeCorrect == Spec => []TypeOK
<1>1. ExactInv => TypeOK
  BY DEF ExactInv
<1> QED  BY <1>1, ExactInductive, PTL

\* Of two calls for a page that are under way together at most one pays.
THEOREM OnePaymentForConcurrentCalls ==
  Spec => []ConcurrentCallsShareOnePayment
<1>1. ExactInv => ConcurrentCallsShareOnePayment
  BY DEF ExactInv, SingleFlight, ConcurrentCallsShareOnePayment
<1> QED  BY <1>1, ExactInductive, PTL

\* The handler runs against a payment that is final, or whose block was
\* orphaned between the two reads of /settle, and against no other.
THEOREM HandlerRunsOnFinalPayment == Spec => []ServedOnlyIfPaid
<1>1. ExactInv => ServedOnlyIfPaid
  BY DEF ExactInv, PaidInv
<1> QED  BY <1>1, ExactInductive, PTL

\* While a receipt that ran the handler is valid, no receipt of its payment
\* runs it again.
THEOREM PaymentUnlocksOncePerTtl == Spec => OneUnlockPerTtl
<1>1. ASSUME ExactInv, [Next]_vars, NEW r \in Reqs,
             req[r].stage = "reserve", req'[r].stage = "ok"
      PROVE  ran[req[r].order] <= clock
  <2> DEFINE o == req[r].order
  <2>1. o \in Calls
    BY <1>1 DEF ExactInv, PaidInv
  <2>2. ran[o] \in Int /\ consumed[o] \in Int /\ clock \in Int
    <3>1. ran[o] \in Expiries /\ consumed[o] \in Expiries
      BY <1>1, <2>1 DEF ExactInv, TypeOK, ServerTypeOK
    <3> QED  BY <1>1, <3>1 DEF Expiries, ExactInv, TypeOK
  <2>3. Unlock(r)
    <3>1. req \in [Reqs -> [order : Calls \cup {None}, stage : Stages,
                   exp : Expiries, waits : BOOLEAN, old : BOOLEAN]]
      BY <1>1 DEF ExactInv, TypeOK, RequestTypeOK
    <3>2. ASSUME NEW c \in Calls,
                 \/ Call(c) \/ Challenged(c) \/ Broadcast(c)
                 \/ WalletAnswers(c) \/ WalletThrows(c) \/ GiveUp(c)
                 \/ Finalize(c)
          PROVE  FALSE
      BY <1>1, <3>2, CallSteps
    <3>3. ASSUME NEW c \in Calls, Replay(c) \/ Orphan(c) PROVE FALSE
      BY <1>1, <3>1, <3>3 DEF Replay, Orphan, Fresh
    <3>4. ASSUME NEW q \in Reqs,
                 \/ Verify(q) \/ VerifyDepth(q) \/ SettleLooks(q)
                 \/ SettleReads(q) \/ SettleSigns(q) \/ Check(q)
          PROVE  FALSE
      BY <1>1, <3>1, <3>4 DEF Verify, VerifyDepth, SettleLooks, SettleReads,
         SettleSigns, Check, MoveTo, Refuse
    <3>5. ASSUME NEW q \in Reqs, Respond(q) \/ Disconnect(q) \/ Duplicate(q)
          PROVE  FALSE
      BY <1>1, <3>1, <3>5 DEF Respond, Disconnect, Duplicate, Free,
         Fresh
    <3>6. ASSUME NEW q \in Reqs, Unlock(q) PROVE q = r
      BY <1>1, <3>1, <3>6 DEF Unlock, MoveTo, Refuse
    <3>7. ~Tick /\ ~UNCHANGED vars
      BY <1>1 DEF Tick, vars
    <3> QED  BY <1>1, <3>2, <3>3, <3>4, <3>5, <3>6, <3>7 DEF Next
  <2>4. consumed[o] <= clock
    BY <1>1, <2>3 DEF Unlock, MoveTo, Refuse, ExactInv, TypeOK, RequestTypeOK
  <2> QED  BY <1>1, <2>1, <2>2, <2>4 DEF ExactInv, BurnInv
<1>2. ExactInv /\ [Next]_vars =>
        [\A r \in Reqs :
           req[r].stage = "reserve" /\ req'[r].stage = "ok"
           => ran[req[r].order] <= clock]_vars
  BY <1>1
<1> QED  BY <1>2, ExactInductive, PTL DEF Spec, OneUnlockPerTtl

-----------------------------------------------------------------------------
(* The cap.                                                                *)

\* What SpendUnderCap adds up.
Counted ==
  {c \in Calls : \/ hold[c] = "reserved"
                \/ (hold[c] = "committed" /\ InWindow(c))}

\* The entries that count are still in the ledger, and a call at the wallet
\* has its reservation.
SpendInv ==
  /\ \A c \in Counted : \E i \in DOMAIN ledger : ledger[i] = c
  /\ \A c \in Calls : stage[c] = "paying" => hold[c] = "reserved"
  /\ SpendUnderCap

\* A unit of C is a call of C with a number up to its amount.
LEMMA UnitOf ==
  ASSUME NEW C, NEW u
  PROVE  u \in Units(C) <=> \E c \in C : u \in {c} \X (1 .. Amount(c))
  BY DEF Units

\* The units of finitely many calls are finitely many.
LEMMA UnitsFinite ==
  ASSUME NEW C \in SUBSET Calls, IsFiniteSet(C)
  PROVE  IsFiniteSet(Units(C)) /\ Total(C) \in Nat
<1> DEFINE f == [c \in C |-> {c} \X (1 .. Amount(c))]
           F == {{c} \X (1 .. Amount(c)) : c \in C}
<1>1. f \in Surjection(C, F)
  BY DEF Surjection
<1>2. IsFiniteSet(F)
  BY <1>1, FS_Surjection
<1>3. ASSUME NEW c \in C PROVE IsFiniteSet({c} \X (1 .. Amount(c)))
  <2>1. 1 \in Int /\ Amount(c) \in Int
    BY X402Assumption DEF X402Assumption, Amount
  <2>2. IsFiniteSet({c})
    BY FS_Singleton
  <2>3. IsFiniteSet(1 .. Amount(c))
    BY <2>1, FS_Interval
  <2> QED  BY <2>2, <2>3, FS_Product
<1>4. \A T \in F : IsFiniteSet(T)
  BY <1>3
<1>5. IsFiniteSet(UNION F)
  BY <1>2, <1>4, FS_UNION
<1>6. IsFiniteSet(Units(C))
  BY <1>5 DEF Units
<1> QED  BY <1>6, FS_CardinalityType DEF Total

\* Fewer calls spend less.
LEMMA TotalMonotone ==
  ASSUME NEW C \in SUBSET Calls, IsFiniteSet(C), NEW B \in SUBSET C
  PROVE  Total(B) \in Nat /\ Total(C) \in Nat /\ Total(B) <= Total(C)
<1>1. IsFiniteSet(B) /\ B \in SUBSET Calls
  BY FS_Subset
<1>2. ASSUME NEW u \in Units(B) PROVE u \in Units(C)
  BY <1>2, UnitOf
<1>3. Cardinality(Units(B)) <= Cardinality(Units(C))
  BY <1>2, UnitsFinite, FS_Subset
<1> QED  BY <1>1, <1>3, UnitsFinite DEF Total

\* One more call spends its amount at most.
LEMMA TotalAdd ==
  ASSUME NEW C \in SUBSET Calls, IsFiniteSet(C), NEW c \in Calls
  PROVE  /\ IsFiniteSet(C \cup {c})
         /\ Total(C \cup {c}) \in Nat
         /\ Total(C \cup {c}) <= Total(C) + Amount(c)
<1> DEFINE one == {c} \X (1 .. Amount(c))
<1>1. IsFiniteSet(C \cup {c}) /\ C \cup {c} \in SUBSET Calls
  BY FS_AddElement
<1>2. IsFiniteSet(Units(C)) /\ Total(C \cup {c}) \in Nat
  BY <1>1, UnitsFinite
<1>3. Amount(c) \in Nat
  BY X402Assumption DEF X402Assumption, Amount
<1>4. IsFiniteSet(one) /\ Cardinality(one) = Amount(c)
  <2>1. IsFiniteSet({c}) /\ Cardinality({c}) = 1
    BY FS_Singleton
  <2>2. 1 \in Int /\ Amount(c) \in Int
    BY <1>3
  <2>3. IsFiniteSet(1 .. Amount(c)) /\ Cardinality(1 .. Amount(c)) = Amount(c)
    BY <1>3, <2>2, FS_Interval
  <2>4. /\ IsFiniteSet(one)
        /\ Cardinality(one) = Cardinality({c}) * Cardinality(1 .. Amount(c))
    BY <2>1, <2>3, FS_Product
  <2> HIDE DEF one
  <2>5. Cardinality(one) = 1 * Amount(c)
    BY <2>1, <2>3, <2>4
  <2> QED  BY <1>3, <2>4, <2>5
<1>5. Units(C \cup {c}) = Units(C) \cup one
  <2>1. ASSUME NEW u
        PROVE  u \in Units(C \cup {c}) <=> u \in Units(C) \/ u \in one
    BY UnitOf
  <2> QED  BY <2>1
<1> HIDE DEF one
<1>6. Cardinality(Units(C) \cup one)
        = Cardinality(Units(C)) + Cardinality(one)
            - Cardinality(Units(C) \cap one)
  BY <1>2, <1>4, FS_Union
<1>7. Cardinality(Units(C) \cap one) \in Nat /\ Cardinality(Units(C)) \in Nat
  <2>1. Units(C) \cap one \in SUBSET one
    OBVIOUS
  <2> QED  BY <1>2, <1>4, <2>1, FS_Subset, FS_CardinalityType
<1> DEFINE a == Cardinality(Units(C))
           b == Cardinality(Units(C) \cap one)
<1>8. Total(C \cup {c}) = a + Amount(c) - b /\ Total(C) = a
  BY <1>4, <1>5, <1>6 DEF Total
<1>9. a \in Nat /\ b \in Nat
  BY <1>7
<1> HIDE DEF a, b
<1>10. Total(C \cup {c}) <= Total(C) + Amount(c)
  BY <1>3, <1>8, <1>9
<1> QED  BY <1>1, <1>2, <1>10

\* The calls of a sequence are finitely many.
LEMMA RangeFinite ==
  ASSUME NEW s \in Seq(Calls)
  PROVE  IsFiniteSet({c \in Calls : \E i \in DOMAIN s : s[i] = c})
<1> DEFINE C == {c \in Calls : \E i \in DOMAIN s : s[i] = c}
           f == [i \in 1 .. Len(s) |-> s[i]]
<1>1. /\ Len(s) \in Nat /\ DOMAIN s = 1 .. Len(s)
      /\ \A i \in DOMAIN s : s[i] \in Calls
  OBVIOUS
<1>2. f \in Surjection(1 .. Len(s), C)
  BY <1>1 DEF Surjection
<1>3. 1 \in Int /\ Len(s) \in Int
  BY <1>1
<1>4. IsFiniteSet(1 .. Len(s))
  BY <1>3, FS_Interval
<1> QED  BY <1>2, <1>4, FS_Surjection

\* What counts is still there after the pruning.
LEMMA PrunedKeeps ==
  ASSUME ledger \in Seq(Calls), NEW i \in DOMAIN ledger, Live(i)
  PROVE  \E j \in DOMAIN Pruned : Pruned[j] = ledger[i]
<1> DEFINE live == {k \in DOMAIN ledger : Live(k)}
           m    == Min(live)
           n    == Len(ledger)
<1>1. n \in Nat /\ DOMAIN ledger = 1 .. n /\ live \in SUBSET Nat
      /\ live \subseteq 1 .. n /\ i \in live /\ live # {}
  OBVIOUS
<1>2. Pruned = SubSeq(ledger, m, n)
  BY <1>1 DEF Pruned
<1>3. m \in 1 .. n /\ m <= i
  <2>1. m \in live /\ \A k \in live : m <= k
    <3> HIDE DEF live
    <3> QED  BY <1>1, MinIsMember
  <2> HIDE DEF live, m
  <2> QED  BY <1>1, <2>1
<1> HIDE DEF live, m, n
<1>4. i - m + 1 \in 1 .. (n - m + 1) /\ m + (i - m + 1) - 1 = i
  BY <1>1, <1>3
<1>5. i - m + 1 \in DOMAIN Pruned /\ Pruned[i - m + 1] = ledger[i]
  BY <1>1, <1>2, <1>3, <1>4 DEF n
<1> QED  BY <1>5

\* The entries whose calls count.
LEMMA CountedLive ==
  ASSUME NEW i \in DOMAIN ledger, ledger[i] \in Counted
  PROVE  Live(i)
  BY DEF Counted, Live, InWindow

\* A step that lets nothing new count keeps the cap.
LEMMA CountLess ==
  ASSUME TypeOK, SpendInv, TypeOK', Counted' \subseteq Counted,
         \/ UNCHANGED ledger
         \/ ledger' = Pruned /\ Counted' = Counted,
         \A c \in Calls : stage'[c] = "paying" => hold'[c] = "reserved"
  PROVE  SpendInv'
<1>1. IsFiniteSet(Counted)
  <2>1. IsFiniteSet({c \in Calls : \E i \in DOMAIN ledger : ledger[i] = c})
    BY RangeFinite DEF TypeOK, ClientTypeOK
  <2>2. Counted \subseteq
          {c \in Calls : \E i \in DOMAIN ledger : ledger[i] = c}
    BY DEF SpendInv, Counted
  <2> QED  BY <2>1, <2>2, FS_Subset
<1>2. SpendUnderCap'
  <2>1. /\ Total(Counted') \in Nat /\ Total(Counted) \in Nat
        /\ Total(Counted') <= Total(Counted)
    <3>1. Counted \in SUBSET Calls
      BY DEF Counted
    <3> QED  BY <1>1, <3>1, TotalMonotone
  <2>2. Total(Counted) <= Cap
    BY DEF SpendInv, SpendUnderCap, Counted
  <2>3. Total(Counted)' = Total(Counted')
    BY DEF Total, Units, Amount
  <2>4. Total(Counted)' <= Cap
    BY <2>1, <2>2, <2>3, X402Assumption DEF X402Assumption
  <2> QED  BY <2>4 DEF SpendUnderCap, Counted
<1>3. ASSUME NEW c \in Counted' PROVE \E i \in DOMAIN ledger' : ledger'[i] = c
  <2>1. PICK i \in DOMAIN ledger : ledger[i] = c
    BY <1>3 DEF SpendInv
  <2>2. CASE UNCHANGED ledger
    BY <2>1, <2>2
  <2>3. CASE ledger' = Pruned
    <3>1. Live(i)
      BY <1>3, <2>1, CountedLive
    <3> QED  BY <2>1, <2>3, <3>1, PrunedKeeps DEF TypeOK, ClientTypeOK
  <2> QED  BY <2>2, <2>3
<1> QED  BY <1>2, <1>3 DEF SpendInv

\* A reservation is added only where the cap has room for it.
LEMMA Reserved ==
  ASSUME TypeOK, SpendInv, TypeOK', NEW c \in Calls,
         Spent + Amount(c) <= Cap,
         ledger' = Append(Pruned, c), at' = [at EXCEPT ![c] = clock],
         hold' = [hold EXCEPT ![c] = "reserved"],
         stage' = [stage EXCEPT ![c] = "paying"], UNCHANGED clock
  PROVE  SpendInv'
<1> DEFINE S == {d \in Calls : /\ hold[d] # "released"
                               /\ \E i \in DOMAIN Pruned : Pruned[i] = d}
<1>1. /\ ledger \in Seq(Calls) /\ Pruned \in Seq(Calls)
      /\ hold \in [Calls -> {"none", "reserved", "committed", "released"}]
      /\ at \in [Calls -> 0 .. MaxClock] /\ stage \in [Calls -> CallStages]
  BY PrunedIsLedger DEF TypeOK, ClientTypeOK
<1>2. /\ \A i \in DOMAIN Pruned : /\ i \in DOMAIN ledger'
                                  /\ ledger'[i] = Pruned[i]
      /\ \E i \in DOMAIN ledger' : ledger'[i] = c
  <2> DEFINE s == Pruned
  <2>1. s \in Seq(Calls) /\ ledger' = Append(s, c)
    BY <1>1
  <2> HIDE DEF s
  <2>2. /\ Len(s) \in Nat /\ DOMAIN s = 1 .. Len(s)
        /\ DOMAIN ledger' = 1 .. (Len(s) + 1)
        /\ \A i \in 1 .. Len(s) : ledger'[i] = s[i]
        /\ ledger'[Len(s) + 1] = c
    BY <2>1
  <2>3. Len(s) + 1 \in DOMAIN ledger'
    BY <2>2
  <2>4. \E i \in DOMAIN ledger' : ledger'[i] = c
    BY <2>2, <2>3
  <2>5. \A i \in DOMAIN s : i \in DOMAIN ledger' /\ ledger'[i] = s[i]
    BY <2>2
  <2> QED  BY <2>4, <2>5 DEF s
<1>3. ASSUME NEW d \in Counted
      PROVE  d \in S /\ \E i \in DOMAIN Pruned : Pruned[i] = d
  <2>1. PICK i \in DOMAIN ledger : ledger[i] = d
    BY <1>3 DEF SpendInv
  <2>2. Live(i)
    BY <1>3, <2>1, CountedLive
  <2>3. \E j \in DOMAIN Pruned : Pruned[j] = d
    BY <1>1, <2>1, <2>2, PrunedKeeps
  <2>4. d \in Calls /\ hold[d] # "released"
    BY <1>3 DEF Counted
  <2> QED  BY <2>3, <2>4
<1>4. \A d \in Counted' : d = c \/ d \in Counted
  BY <1>1 DEF Counted, InWindow
<1>5. IsFiniteSet(S) /\ S \in SUBSET Calls
  <2>1. IsFiniteSet({d \in Calls : \E i \in DOMAIN Pruned : Pruned[i] = d})
    BY <1>1, RangeFinite
  <2>2. S \subseteq {d \in Calls : \E i \in DOMAIN Pruned : Pruned[i] = d}
    OBVIOUS
  <2> QED  BY <2>1, <2>2, FS_Subset
<1>6. Spent = Total(S)
  BY DEF Spent
<1>7. Counted' \subseteq S \cup {c}
  BY <1>3, <1>4
<1> HIDE DEF S
<1>8. SpendUnderCap'
  <2>1. /\ IsFiniteSet(S \cup {c}) /\ Total(S \cup {c}) \in Nat
        /\ Total(S \cup {c}) <= Total(S) + Amount(c)
    BY <1>5, TotalAdd
  <2>2. Total(Counted') \in Nat /\ Total(Counted') <= Total(S \cup {c})
    BY <1>5, <1>7, <2>1, TotalMonotone
  <2>3. Total(S) \in Nat /\ Amount(c) \in Nat /\ Cap \in Nat
    BY <1>5, UnitsFinite, X402Assumption DEF X402Assumption, Amount
  <2>4. Total(Counted') <= Cap
    BY <1>6, <2>1, <2>2, <2>3
  <2>5. Total(Counted)' = Total(Counted')
    BY DEF Total, Units, Amount
  <2>6. Total(Counted)' <= Cap
    BY <2>4, <2>5
  <2> QED  BY <2>6 DEF SpendUnderCap, Counted
<1>9. ASSUME NEW d \in Counted' PROVE \E i \in DOMAIN ledger' : ledger'[i] = d
  BY <1>2, <1>3, <1>4
<1>10. \A d \in Calls : stage'[d] = "paying" => hold'[d] = "reserved"
  BY <1>1 DEF SpendInv
<1> QED  BY <1>8, <1>9, <1>10 DEF SpendInv

\* Every step keeps the cap.
LEMMA SpendNext ==
  ExactInv /\ ExactInv' /\ SpendInv /\ [Next]_vars => SpendInv'
<1> SUFFICES ASSUME ExactInv, ExactInv', SpendInv, [Next]_vars PROVE SpendInv'
  OBVIOUS
<1>1. /\ TypeOK /\ TypeOK' /\ clock \in Nat /\ Window \in Nat
      /\ hold \in [Calls -> {"none", "reserved", "committed", "released"}]
      /\ at \in [Calls -> 0 .. MaxClock] /\ stage \in [Calls -> CallStages]
  BY X402Assumption DEF ExactInv, TypeOK, ClientTypeOK, X402Assumption
<1>2. \A c \in Calls : stage[c] = "paying" => hold[c] = "reserved"
  BY DEF SpendInv
<1>3. ASSUME UNCHANGED <<clock, ledger, at, hold>>,
             \A d \in Calls : stage'[d] = "paying" => stage[d] = "paying"
      PROVE  SpendInv'
  <2>1. Counted' = Counted
    BY <1>3 DEF Counted, InWindow
  <2> QED  BY <1>1, <1>2, <1>3, <2>1, CountLess
<1>4. ASSUME NEW c \in Calls, NEW o \in {"served", "failed"}, Ended(c, o)
      PROVE  \A d \in Calls :
               stage'[d] = "paying" => stage[d] = "paying" /\ d # c
  BY <1>4 DEF Ended
<1>5. ASSUME NEW c \in Calls, Challenged(c) PROVE SpendInv'
  <2>1. CASE Spent + Amount(c) <= Cap
    BY <1>1, <1>5, <2>1, Reserved DEF Challenged
  <2>2. CASE ~(Spent + Amount(c) <= Cap)
    <3>1. /\ ledger' = Pruned /\ Ended(c, "failed")
          /\ UNCHANGED <<at, hold, clock>>
      BY <1>5, <2>2 DEF Challenged
    <3>2. Counted' = Counted
      BY <3>1 DEF Counted, InWindow
    <3> QED  BY <1>1, <1>2, <1>4, <3>1, <3>2, CountLess
  <2> QED  BY <2>1, <2>2
<1>6. ASSUME NEW c \in Calls, WalletAnswers(c) PROVE SpendInv'
  <2>1. Counted' \subseteq Counted
    BY <1>1, <1>2, <1>6 DEF WalletAnswers, Counted, InWindow
  <2>2. \A d \in Calls : stage'[d] = "paying" => hold'[d] = "reserved"
    BY <1>1, <1>2, <1>6 DEF WalletAnswers
  <2> QED  BY <1>1, <1>6, <2>1, <2>2, CountLess DEF WalletAnswers
<1>7. ASSUME NEW c \in Calls, WalletThrows(c) PROVE SpendInv'
  <2>1. Counted' \subseteq Counted
    BY <1>1, <1>7 DEF WalletThrows, Counted, InWindow
  <2>2. \A d \in Calls : stage'[d] = "paying" => hold'[d] = "reserved"
    BY <1>1, <1>2, <1>4, <1>7 DEF WalletThrows
  <2> QED  BY <1>1, <1>7, <2>1, <2>2, CountLess DEF WalletThrows
<1>8. ASSUME NEW c \in Calls,
             \/ Call(c) \/ Broadcast(c) \/ Replay(c) \/ GiveUp(c)
             \/ Orphan(c) \/ Finalize(c)
      PROVE  SpendInv'
  <2>1. UNCHANGED <<clock, ledger, at, hold>>
    BY <1>8 DEF Call, Broadcast, Replay, GiveUp, Orphan, Finalize,
       client
  <2>2. \A d \in Calls : stage'[d] = "paying" => stage[d] = "paying"
    BY <1>1, <1>4, <1>8 DEF Call, Broadcast, Replay, GiveUp, Orphan, Finalize,
       client
  <2> QED  BY <1>3, <2>1, <2>2
<1>9. ASSUME NEW r \in Reqs,
             \/ Verify(r) \/ VerifyDepth(r) \/ SettleLooks(r)
             \/ SettleReads(r) \/ SettleSigns(r) \/ Check(r) \/ Unlock(r)
             \/ Duplicate(r)
      PROVE  SpendInv'
  BY <1>3, <1>9 DEF Verify, VerifyDepth, SettleLooks, SettleReads,
     SettleSigns, Check, Unlock, Duplicate, client
<1>10. ASSUME NEW r \in Reqs, Respond(r) \/ Disconnect(r) PROVE SpendInv'
  <2>1. req[r].order \in Calls
    BY <1>10 DEF ExactInv, PaidInv, Respond, Disconnect
  <2>2. \A d \in Calls : stage'[d] = "paying" => stage[d] = "paying"
    BY <1>4, <1>10, <2>1 DEF Respond, Disconnect
  <2> QED  BY <1>3, <1>10, <2>2 DEF Respond, Disconnect
<1>11. CASE Tick
  <2>1. Counted' \subseteq Counted
    <3>1. clock' = clock + 1 /\ UNCHANGED <<at, hold>>
      BY <1>11 DEF Tick, client
    <3>2. clock \in Int /\ Window \in Int /\ \A c \in Calls : at[c] \in Int
      BY <1>1, X402Assumption DEF X402Assumption, TypeOK, ClientTypeOK
    <3>3. ASSUME NEW c \in Calls, InWindow(c)' PROVE InWindow(c)
      BY <3>1, <3>2, <3>3 DEF InWindow
    <3> QED  BY <3>1, <3>3 DEF Counted
  <2> QED  BY <1>1, <1>2, <1>11, <2>1, CountLess DEF Tick, client
<1>12. CASE UNCHANGED vars
  BY <1>3, <1>12 DEF vars, client
<1> QED  BY <1>5, <1>6, <1>7, <1>8, <1>9, <1>10, <1>11, <1>12 DEF Next

\* The spending policy holds: what is reserved at the wallet, however long
\* it takes, and what was committed within the window, is under the cap, for
\* any calls, prices, cap and window, although prune() drops entries from
\* the front of the ledger only.
THEOREM CapHolds == Spec => []SpendUnderCap
<1>1. Init => SpendInv
  <2> SUFFICES ASSUME Init PROVE SpendInv
    OBVIOUS
  <2>1. Counted = {}
    BY DEF Init, Counted
  <2>2. Units({}) = {}
    BY DEF Units
  <2>3. Total(Counted) = 0
    BY <2>1, <2>2, FS_EmptySet DEF Total
  <2>4. SpendUnderCap
    BY <2>3, X402Assumption DEF SpendUnderCap, Counted, X402Assumption
  <2> QED  BY <2>1, <2>4 DEF Init, SpendInv
<1>2. ExactInv /\ ExactInv' /\ SpendInv /\ [Next]_vars => SpendInv'
  BY SpendNext
<1>3. SpendInv => SpendUnderCap
  BY DEF SpendInv
<1> QED  BY <1>1, <1>2, <1>3, ExactInductive, PTL DEF Spec

=============================================================================
