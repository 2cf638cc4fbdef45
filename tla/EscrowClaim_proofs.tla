------------------------ MODULE EscrowClaim_proofs ------------------------
(***************************************************************************)
(* Claims, boxes and rows, for any processes, orders, calls and boxes.     *)
(* An error of the wallet may hide that its transaction is out: then the   *)
(* catch of claimEscrow puts a box back whose terms are on their way, and   *)
(* the box is sent those of two orders.  The theorems hold with such errors *)
(* and say what remains: of a box's Binds, all but one are hidden by one.   *)
(*                                                                         *)
(* The invariant follows an id through its life.  It belongs to one order  *)
(* (IdInv); a call works on it alone, under its row, and gives the row     *)
(* back when the quote is over (RowInv).  A box in hand is nobody else's,  *)
(* and no Bind of it that went out was seen to succeed (InHandInv), so     *)
(* that the Bind that does is the first such (SentInv).                    *)
(***************************************************************************)
EXTENDS EscrowClaim, FiniteSetTheorems, TLAPS

\* A call between winning its claim row and giving it back.
Active == {"won", "mint", "bind", "bound", "failed", "persist", "release"}

\* A call that has a box in hand and does not know its terms to be out.
HasBox(c) == call[c].pc \in {"bind", "failed"} /\ call[c].box # None

\* An escrow id that has been quoted, and the order it was quoted for.
Known(i)   == i \in Orders \/ (i \in Calls /\ call[i].reset)
Owns(o, i) == i = o \/ (i \in Calls /\ call[i].reset /\ call[i].order = o)

NotQuoted(i) == \A o \in Orders : ~Matches(o, i, "quoted")

\* Each id is quoted for one order, and a call works on an id of its order.
IdInv ==
  /\ \A o \in Orders : Owns(o, invoice[o].id)
  /\ \A c \in Calls : call[c].pc # "new" =>
       /\ call[c].order \in Orders /\ call[c].proc \in Procs
       /\ Owns(call[c].order, Id(c))
  /\ \A c \in Calls : call[c].pc = "new" =>
       ~call[c].reset /\ call[c].proc = None
  /\ \A i \in held : Known(i)
  /\ \A s \in sent : Known(s[2])

\* Who works on an id holds its row, alone, and gives it back when the
\* quote is over; an id whose terms are out is held or over.
RowInv ==
  /\ \A c \in Calls : call[c].pc \in Active => Id(c) \in held
  /\ \A c, d \in Calls :
       /\ call[c].pc \in Active /\ call[d].pc \in Active
       /\ Id(c) = Id(d)
       => c = d
  /\ \A c \in Calls : call[c].pc = "release" => NotQuoted(Id(c))
  /\ \A s \in sent : s[2] \in held \/ NotQuoted(s[2])

\* A box in the inventory, or sent terms, was broadcast; one that was sent
\* terms is out of the pool, unless an error hid it.
BoxInv ==
  /\ \A b \in Boxes : minted[b] = "none" => pool[b] = "absent"
  /\ \A s \in sent : minted[s[1]] # "none"
  /\ \A s \in sure : pool[s[1]] \notin {"minted", "confirmed"}

\* A box in hand is out of the pool and nobody else's; no terms were sent
\* to it, unless an error hid them.
InHandInv ==
  /\ \A c \in Calls : HasBox(c) =>
       /\ minted[call[c].box] # "none"
       /\ pool[call[c].box] = IF call[c].pooled THEN "claimed" ELSE "absent"
       /\ \A s \in sure : s[1] # call[c].box
  /\ \A c, d \in Calls :
       HasBox(c) /\ HasBox(d) /\ call[c].box = call[d].box => c = d

\* Which steps of a call come with a box.
StepInv ==
  /\ \A c \in Calls :
       /\ call[c].pc \in {"bind", "bound"} => call[c].box # None
       /\ call[c].pooled => call[c].box # None
       /\ call[c].box # None =>
            call[c].pc \in {"bind", "bound", "failed", "persist", "release",
                            "done"}
       /\ call[c].pc = "bound" => <<call[c].box, Id(c)>> \in sure

\* Each box is asked to carry one order's terms, those apart that an error
\* hid, and a box is shown for the terms it was sent.
SentInv ==
  /\ \A s, t \in sure : s[1] = t[1] => s = t
  /\ \A o \in Orders : invoice[o].status = "awaiting_deposit" =>
       <<invoice[o].scid, invoice[o].id>> \in sure

\* Barring a crash, what is held or claimed is in somebody's hands.
HandInv ==
  /\ HeldRowIsInHand
  /\ crashes = 0 =>
       \A b \in Boxes : pool[b] = "claimed" =>
         \/ \E c \in Calls : HasBox(c) /\ call[c].box = b /\ call[c].pooled
         \/ \E s \in sent : s[1] = b

RefillInv == \A p \in Procs : keeper[p].pc = "refill" => keeper[p].left # 0

ClaimInv ==
  TypeOK /\ IdInv /\ RowInv /\ BoxInv /\ InHandInv /\ StepInv /\ SentInv
    /\ HandInv /\ RefillInv

-----------------------------------------------------------------------------
(* How a step changes the calls.                                           *)

Pcs == Waiting \cup Running \cup Ended

CallRecords == [pc : Pcs, proc : Procs \cup {None},
                order : Orders \cup {None}, read : Blobs,
                box : Boxes \cup {None}, pooled : BOOLEAN, reset : BOOLEAN]

\* Only c moves, to s, for the order and with the re-quote it had.
Moved(c, s) ==
  /\ call' \in [Calls -> CallRecords]
  /\ \A d \in Calls : d # c => call'[d] = call[d]
  /\ call'[c].pc = s
  /\ call'[c].proc = call[c].proc
  /\ call'[c].order = call[c].order

\* What the invariant says of the types of one call.
LEMMA CallTypes ==
  ASSUME TypeOK, NEW c \in Calls
  PROVE  /\ call \in [Calls -> CallRecords] /\ call[c] \in CallRecords
         /\ Id(c) \in Ids /\ call[c].read \in Blobs
         /\ call[c].box \in Boxes \cup {None}
<1>1. call \in [Calls -> CallRecords]
  BY DEF TypeOK, CallRecords, Pcs
<1>2. call[c] \in CallRecords
  BY <1>1
<1>3. call[c].read \in Blobs /\ call[c].box \in Boxes \cup {None}
  BY <1>2 DEF CallRecords
<1> QED  BY <1>1, <1>2, <1>3 DEF Id, Blobs

\* A step that only moves a call.
LEMMA Goes ==
  ASSUME TypeOK, NEW c \in Calls, NEW s \in Pcs, call' = Goto(c, s)
  PROVE  /\ Moved(c, s)
         /\ call'[c].read = call[c].read
         /\ call'[c].box = call[c].box
         /\ call'[c].pooled = call[c].pooled
         /\ call'[c].reset = call[c].reset
<1>1. call \in [Calls -> CallRecords] /\ call[c] \in CallRecords
  BY CallTypes
<1>2. call' = [call EXCEPT ![c] = [call[c] EXCEPT !.pc = s]]
  BY DEF Goto
<1>3. [call[c] EXCEPT !.pc = s] \in CallRecords
  BY <1>1 DEF CallRecords
<1>4. /\ call' \in [Calls -> CallRecords]
      /\ call'[c] = [call[c] EXCEPT !.pc = s]
      /\ \A d \in Calls : d # c => call'[d] = call[d]
  BY <1>1, <1>2, <1>3
<1> QED  BY <1>1, <1>4 DEF Moved, CallRecords

\* An RPC keeps to the bound of hidden broadcasts.
LEMMA OutcomeBounded ==
  ASSUME TypeOK, NEW broadcast, NEW answered, Outcome(broadcast, answered)
  PROVE  hidden' \in Nat /\ hidden' + crashes <= MaxFaults
<1>1. /\ hidden \in Nat /\ crashes \in Nat /\ MaxFaults \in Nat
      /\ hidden + crashes <= MaxFaults
  BY ClaimAssumption DEF TypeOK
<1>2. \/ hidden' = hidden
      \/ hidden + crashes < MaxFaults /\ hidden' = hidden + 1
  BY DEF Outcome
<1> QED  BY <1>1, <1>2

\* Two orders never quote one id.
LEMMA OwnerIsOne ==
  ASSUME NEW o1 \in Orders, NEW o2 \in Orders, NEW i,
         Owns(o1, i), Owns(o2, i)
  PROVE  o1 = o2
  BY ClaimAssumption DEF Owns

-----------------------------------------------------------------------------
(* Steps of a call that hold nothing before or after.                      *)

\* A call that gains no row and no box keeps the invariant.
LEMMA IdleMove ==
  ASSUME ClaimInv, NEW c \in Calls,
         UNCHANGED <<minted, sent, sure, hidden, bound, invoice, held,
                     pool>>,
         UNCHANGED <<up, keeper, crashes>>,
         record' \in [Procs -> [Ids -> {"none", "quoted", "deploying",
                                   "awaiting_deposit", "deploy_failed"}]],
         call' \in [Calls -> CallRecords],
         \A d \in Calls : d # c => call'[d] = call[d],
         call[c].pc \notin Active,
         call'[c].pc \notin Active, call'[c].pc # "new",
         call'[c].reset = call[c].reset,
         call[c].reset => call'[c].order = call[c].order,
         call'[c].order \in Orders, call'[c].proc \in Procs,
         Owns(call'[c].order, call'[c].read.id),
         call'[c].box = call[c].box, call'[c].pooled = call[c].pooled,
         call[c].box = None \/ call'[c].pc = "done"
  PROVE  ClaimInv'
<1>1. TypeOK'
  BY DEF ClaimInv, TypeOK, CallRecords, Pcs
<1>2. \A o \in Orders : \A i : Owns(o, i) => Owns(o, i)'
  BY DEF Owns
<1>3. IdInv'
  <2>1. \A o \in Orders : Owns(o, invoice[o].id)'
    BY <1>2 DEF ClaimInv, IdInv
  <2>2. \A d \in Calls : (call[d].pc # "new" =>
          /\ call[d].order \in Orders /\ call[d].proc \in Procs
          /\ Owns(call[d].order, Id(d)))'
    BY <1>2 DEF ClaimInv, IdInv, Id
  <2>3. \A i : Known(i) => Known(i)'
    BY DEF Known
  <2> QED  BY <2>1, <2>2, <2>3 DEF ClaimInv, IdInv
<1>4. RowInv'
  BY DEF ClaimInv, RowInv, Id, NotQuoted, Matches, Active
<1>5. \A d \in Calls : HasBox(d)' = HasBox(d)
  BY DEF HasBox, Active
<1>6. BoxInv'
  BY DEF ClaimInv, BoxInv
<1>7. InHandInv'
  <2>1. \A d \in Calls : HasBox(d) =>
          call'[d].box = call[d].box /\ call'[d].pooled = call[d].pooled
    OBVIOUS
  <2> QED  BY <1>5, <2>1 DEF ClaimInv, InHandInv
<1>8. StepInv'
  BY DEF ClaimInv, StepInv, Active, Id
<1>9. SentInv'
  BY DEF ClaimInv, SentInv
<1>10. HandInv'
  <2>1. \A d \in Calls : call[d].pc \in Active => call'[d] = call[d]
    OBVIOUS
  <2>2. HeldRowIsInHand'
    BY <2>1 DEF ClaimInv, HandInv, HeldRowIsInHand, Active, Id
  <2> QED  BY <1>5, <2>2 DEF ClaimInv, HandInv
<1>11. RefillInv'
  BY DEF ClaimInv, RefillInv
<1> QED  BY <1>1, <1>3, <1>4, <1>6, <1>7, <1>8, <1>9, <1>10, <1>11
         DEF ClaimInv

RecordStates ==
  {"none", "quoted", "deploying", "awaiting_deposit", "deploy_failed"}

\* A call writes its own record.
LEMMA MineTyped ==
  ASSUME TypeOK, NEW c \in Calls, call[c].proc \in Procs,
         NEW s \in RecordStates
  PROVE  SetMine(c, s) \in [Procs -> [Ids -> RecordStates]]
<1>1. Id(c) \in Ids
  BY CallTypes
<1> QED  BY <1>1 DEF TypeOK, SetMine, RecordStates

\* A call that holds no row starts, looks again, or gives up.
LEMMA IdleSteps ==
  ASSUME ClaimInv, NEW c \in Calls,
         \/ \E p \in Procs, o \in Orders : Start(c, p, o)
         \/ TooSoon(c) \/ Reread(c) \/ NotClaimable(c) \/ Lose(c)
  PROVE  ClaimInv'
<1>1. TypeOK /\ IdInv /\ StepInv
  BY DEF ClaimInv
<1>2. /\ call \in [Calls -> CallRecords]
      /\ record \in [Procs -> [Ids -> RecordStates]]
  BY <1>1, CallTypes DEF TypeOK, RecordStates
<1>3. ASSUME NEW p \in Procs, NEW o \in Orders, Start(c, p, o)
      PROVE  ClaimInv'
  <2>1. /\ call[c].pc = "new" /\ call[c].reset = FALSE
        /\ call[c].box = None /\ call[c].pooled = FALSE
    BY <1>1, <1>2, <1>3 DEF Start, At, IdInv, StepInv, CallRecords
  <2>2. /\ call' \in [Calls -> CallRecords]
        /\ \A d \in Calls : d # c => call'[d] = call[d]
        /\ call'[c].pc = "read" /\ call'[c].proc = p /\ call'[c].order = o
        /\ call'[c].read = invoice[o] /\ call'[c].box = None
        /\ call'[c].pooled = FALSE /\ call'[c].reset = FALSE
    BY <1>1, <1>2, <1>3
       DEF Start, TypeOK, CallRecords, Pcs, Running
  <2>3. Owns(call'[c].order, call'[c].read.id)
    BY <1>1, <2>2 DEF IdInv
  <2> QED  BY <1>2, <1>3, <2>1, <2>2, <2>3, IdleMove
           DEF Start, Active, chain, database, RecordStates
<1>4. ASSUME At(c, "read") \/ At(c, "lost"), call' = Goto(c, "done"),
             UNCHANGED <<chain, database, up, keeper, crashes>>,
             record' \in [Procs -> [Ids -> RecordStates]]
      PROVE  ClaimInv'
  <2>1. /\ Moved(c, "done") /\ call'[c].read = call[c].read
        /\ call'[c].box = call[c].box /\ call'[c].pooled = call[c].pooled
        /\ call'[c].reset = call[c].reset
    BY <1>1, <1>4, Goes DEF Pcs, Ended
  <2>2. /\ call[c].pc # "new" /\ call[c].pc \notin Active
        /\ call[c].order \in Orders /\ call[c].proc \in Procs
        /\ Owns(call[c].order, call[c].read.id)
    BY <1>1, <1>4 DEF At, Active, IdInv, Id
  <2> QED  BY <1>4, <2>1, <2>2, IdleMove
           DEF Moved, Active, chain, database, RecordStates
<1>5. CASE TooSoon(c) \/ NotClaimable(c)
  BY <1>2, <1>4, <1>5 DEF TooSoon, NotClaimable, Failed
<1>6. CASE Lose(c)
  <2>1. call[c].proc \in Procs
    BY <1>1, <1>6 DEF IdInv, Lose, At
  <2> QED  BY <1>1, <1>4, <1>6, <2>1, MineTyped DEF Lose, RecordStates
<1>7. CASE Reread(c)
  <2>1. /\ call[c].pc = "reread" /\ call[c].pc \notin Active
        /\ call[c].order \in Orders /\ call[c].proc \in Procs
        /\ call[c].box = None
    BY <1>1, <1>7 DEF Reread, At, IdInv, StepInv, Active
  <2>2. /\ call' \in [Calls -> CallRecords]
        /\ \A d \in Calls : d # c => call'[d] = call[d]
        /\ call'[c].pc = "read" /\ call'[c].proc = call[c].proc
        /\ call'[c].order = call[c].order
        /\ call'[c].read = invoice[call[c].order]
        /\ call'[c].box = call[c].box /\ call'[c].pooled = call[c].pooled
        /\ call'[c].reset = call[c].reset
    <3>1. /\ invoice[call[c].order] \in Blobs /\ call[c] \in CallRecords
          /\ "read" \in Pcs
      BY <1>1, <1>2, <2>1 DEF TypeOK, Pcs, Running
    <3>2. call' = [call EXCEPT ![c].pc = "read",
                               ![c].read = invoice[call[c].order]]
      BY <1>7 DEF Reread
    <3> QED  BY <1>2, <3>1, <3>2 DEF CallRecords
  <2>3. Owns(call'[c].order, call'[c].read.id)
    BY <1>1, <2>1, <2>2 DEF IdInv
  <2> QED  BY <1>2, <1>7, <2>1, <2>2, <2>3, IdleMove
           DEF Reread, Active, chain, database, RecordStates
<1> QED  BY <1>3, <1>5, <1>6, <1>7

-----------------------------------------------------------------------------
(* claimEscrow: a call that holds its row takes, mints, binds or fails.    *)

\* A call that keeps its row keeps the invariants about ids and rows, and
\* only its own id's terms go out.
LEMMA KeepsRow ==
  ASSUME ClaimInv, NEW c \in Calls, NEW s \in Active \ {"release"},
         call[c].pc \in Active, Moved(c, s),
         call'[c].read = call[c].read, call'[c].reset = call[c].reset,
         UNCHANGED <<invoice, held, crashes>>,
         \A t \in sent' : t \in sent \/ t[2] = Id(c)
  PROVE  IdInv' /\ RowInv' /\ HeldRowIsInHand'
<1>1. /\ call[c].pc # "new" /\ s # "new" /\ s # "release"
      /\ Id(c) \in held
  BY DEF Active, ClaimInv, RowInv
<1>2. \A d \in Calls : Id(d)' = Id(d)
  BY DEF Id, Moved
<1>3. \A d \in Calls :
        /\ call'[d].reset = call[d].reset /\ call'[d].order = call[d].order
        /\ call'[d].proc = call[d].proc
        /\ (call'[d].pc = "new") = (call[d].pc = "new")
        /\ (call'[d].pc \in Active) = (call[d].pc \in Active)
        /\ call'[d].pc = "release" => call[d].pc = "release"
  BY <1>1 DEF Moved
<1>4. \A i : Known(i)' = Known(i)
  BY <1>3 DEF Known
<1>5. \A o \in Orders : \A i : Owns(o, i)' = Owns(o, i)
  BY <1>3 DEF Owns
<1>6. IdInv'
  <2>1. \A o \in Orders : Owns(o, invoice[o].id)'
    BY <1>5 DEF ClaimInv, IdInv
  <2>2. \A d \in Calls : (call[d].pc # "new" =>
          /\ call[d].order \in Orders /\ call[d].proc \in Procs
          /\ Owns(call[d].order, Id(d)))'
    BY <1>2, <1>3, <1>5 DEF ClaimInv, IdInv
  <2>3. \A t \in sent' : Known(t[2])
    BY <1>1 DEF ClaimInv, IdInv
  <2> QED  BY <1>3, <1>4, <2>1, <2>2, <2>3 DEF ClaimInv, IdInv
<1>7. RowInv'
  <2>1. \A i : NotQuoted(i)' = NotQuoted(i)
    BY DEF NotQuoted, Matches
  <2> QED  BY <1>1, <1>2, <1>3, <2>1 DEF ClaimInv, RowInv
<1>8. HeldRowIsInHand'
  <2>1. \A d \in Calls : call[d].pc \in Active \ {"release"}
                         => call'[d].pc \in Active \ {"release"}
    BY DEF Moved
  <2> QED  BY <1>2, <2>1 DEF ClaimInv, HandInv, HeldRowIsInHand, Active
<1> QED  BY <1>6, <1>7, <1>8

\* A confirmed box goes to one call; without one the call mints.
LEMMA TakeStep ==
  ASSUME ClaimInv, NEW c \in Calls, Take(c)
  PROVE  ClaimInv'
<1>1. /\ TypeOK /\ BoxInv /\ InHandInv /\ StepInv /\ SentInv
      /\ HandInv /\ RefillInv /\ IdInv
  BY DEF ClaimInv
<1>2. /\ call[c].pc = "won" /\ call[c].pc \in Active /\ ~HasBox(c)
      /\ call[c].proc \in Procs
      /\ call[c].box = None /\ call[c].pooled = FALSE
  BY <1>1, CallTypes
     DEF Take, At, Active, HasBox, StepInv, CallRecords, IdInv
<1>3. /\ record' \in [Procs -> [Ids -> RecordStates]]
      /\ UNCHANGED <<minted, sent, sure, hidden, bound, invoice, held, up,
                     keeper, crashes>>
  BY <1>1, <1>2, MineTyped DEF Take, chain, RecordStates
<1>4. ASSUME NEW b \in InPool("confirmed"),
             pool' = [pool EXCEPT ![b] = "claimed"],
             call' = [call EXCEPT ![c].pc = "bind", ![c].box = b,
                                  ![c].pooled = TRUE]
      PROVE  ClaimInv'
  <2>1. b \in Boxes /\ pool[b] = "confirmed" /\ b # None
    BY ClaimAssumption DEF InPool
  <2>2. /\ Moved(c, "bind") /\ call'[c].read = call[c].read
        /\ call'[c].box = b /\ call'[c].pooled = TRUE
        /\ call'[c].reset = call[c].reset
    <3>1. /\ call \in [Calls -> CallRecords] /\ call[c] \in CallRecords
          /\ "bind" \in Pcs
      BY <1>1, CallTypes DEF Pcs, Waiting
    <3> QED  BY <1>4, <2>1, <3>1 DEF Moved, CallRecords
  <2>3. \A d \in Boxes : pool'[d] = IF d = b THEN "claimed" ELSE pool[d]
    BY <1>1, <1>4 DEF TypeOK
  <2>4. TypeOK'
    BY <1>1, <1>3, <1>4, <2>2
       DEF TypeOK, Moved, CallRecords, Pcs, RecordStates
  <2>5. IdInv' /\ RowInv' /\ HeldRowIsInHand'
    BY <1>2, <1>3, <2>2, KeepsRow DEF Active
  <2>6. BoxInv'
    BY <1>1, <1>3, <2>1, <2>3 DEF BoxInv, TypeOK
  <2>7. \A d \in Calls : HasBox(d)' = (d = c \/ HasBox(d))
    BY <1>2, <2>1, <2>2 DEF HasBox, Moved
  <2>8. \A d \in Calls : HasBox(d) =>
          d # c /\ call'[d] = call[d] /\ call[d].box # b
          /\ call[d].box \in Boxes
    BY <1>1, <1>2, <2>1, <2>2, CallTypes DEF InHandInv, Moved, HasBox
  <2>9. minted[b] # "none" /\ (\A s \in sure : s[1] # b)
    BY <1>1, <2>1 DEF BoxInv
  <2>10. InHandInv'
    <3>1. ASSUME NEW d \in Calls, HasBox(d)'
          PROVE  /\ minted'[call'[d].box] # "none"
                 /\ pool'[call'[d].box]
                      = IF call'[d].pooled THEN "claimed" ELSE "absent"
                 /\ \A t \in sure' : t[1] # call'[d].box
      <4>1. CASE d = c
        BY <1>3, <2>1, <2>2, <2>3, <2>9, <4>1
      <4>2. CASE d # c
        <5>1. HasBox(d)
          BY <2>7, <3>1, <4>2
        <5>2. call'[d] = call[d] /\ call[d].box # b /\ call[d].box \in Boxes
          BY <2>8, <5>1
        <5>3. pool'[call[d].box] = pool[call[d].box]
          BY <2>3, <5>2
        <5> QED  BY <1>1, <1>3, <5>1, <5>2, <5>3 DEF InHandInv
      <4> QED  BY <4>1, <4>2
    <3>2. ASSUME NEW d \in Calls, NEW e \in Calls, HasBox(d)', HasBox(e)',
                 call'[d].box = call'[e].box
          PROVE  d = e
      BY <1>1, <2>2, <2>7, <2>8, <3>2 DEF InHandInv
    <3> QED  BY <3>1, <3>2 DEF InHandInv
  <2>11. StepInv'
    BY <1>1, <1>3, <2>1, <2>2 DEF StepInv, Moved, Id
  <2>12. SentInv'
    BY <1>1, <1>3 DEF SentInv
  <2>13. HandInv'
    BY <1>1, <1>3, <2>1, <2>2, <2>3, <2>5, <2>7, <2>8 DEF HandInv
  <2> QED  BY <1>1, <1>3, <2>4, <2>5, <2>6, <2>10, <2>11, <2>12, <2>13
           DEF ClaimInv, RefillInv
<1>5. ASSUME call' = Goto(c, "mint"), UNCHANGED pool
      PROVE  ClaimInv'
  <2>1. /\ Moved(c, "mint") /\ call'[c].read = call[c].read
        /\ call'[c].box = call[c].box /\ call'[c].pooled = call[c].pooled
        /\ call'[c].reset = call[c].reset
    BY <1>1, <1>5, Goes DEF Pcs, Waiting
  <2>2. TypeOK'
    BY <1>1, <1>3, <1>5, <2>1
       DEF TypeOK, Moved, CallRecords, Pcs, RecordStates
  <2>3. IdInv' /\ RowInv' /\ HeldRowIsInHand'
    BY <1>2, <1>3, <2>1, KeepsRow DEF Active
  <2>4. \A d \in Calls : /\ HasBox(d)' = HasBox(d)
                         /\ call'[d].box = call[d].box
                         /\ call'[d].pooled = call[d].pooled
    BY <1>2, <2>1 DEF HasBox, Moved
  <2>5. BoxInv' /\ InHandInv' /\ SentInv' /\ RefillInv'
    BY <1>1, <1>3, <1>5, <2>4 DEF BoxInv, InHandInv, SentInv, RefillInv
  <2>6. StepInv'
    BY <1>1, <1>2, <1>3, <2>1 DEF StepInv, Moved, Id
  <2>7. HandInv'
    BY <1>1, <1>3, <1>5, <2>3, <2>4 DEF HandInv
  <2> QED  BY <2>2, <2>3, <2>5, <2>6, <2>7 DEF ClaimInv
<1> QED  BY <1>4, <1>5 DEF Take

\* An inline mint gives the call a new box, or fails it; a box that went
\* out although the mint failed is in nobody's hands.
LEMMA MintStep ==
  ASSUME ClaimInv, NEW c \in Calls, MintInline(c)
  PROVE  ClaimInv'
<1>1. /\ TypeOK /\ BoxInv /\ InHandInv /\ StepInv /\ SentInv
      /\ HandInv /\ RefillInv /\ IdInv
  BY DEF ClaimInv
<1>2. /\ call[c].pc = "mint" /\ call[c].pc \in Active /\ ~HasBox(c)
      /\ call[c].box = None /\ call[c].pooled = FALSE
  BY <1>1, CallTypes
     DEF MintInline, At, Active, HasBox, StepInv, CallRecords
<1>3. /\ UNCHANGED <<sent, sure, bound, invoice, held, pool, up, record,
                     keeper, crashes>>
      /\ hidden' \in Nat /\ hidden' + crashes <= MaxFaults
      /\ sure \subseteq sent
  <2>1. sure \subseteq sent
    BY <1>1 DEF TypeOK
  <2>2. hidden' \in Nat /\ hidden' + crashes <= MaxFaults
    BY <1>1, OutcomeBounded DEF MintInline
  <2> QED  BY <2>1, <2>2 DEF MintInline, database
<1>4. ASSUME NEW b \in Boxes, Install(b),
             call' = [call EXCEPT ![c].pc = "bind", ![c].box = b]
      PROVE  ClaimInv'
  <2>1. /\ minted[b] = "none" /\ b # None /\ pool[b] = "absent"
        /\ minted' = [minted EXCEPT ![b] = "sent"]
        /\ \A t \in sent : t[1] # b
    BY <1>1, <1>4, ClaimAssumption DEF Install, BoxInv
  <2>2. /\ Moved(c, "bind") /\ call'[c].read = call[c].read
        /\ call'[c].box = b /\ call'[c].pooled = FALSE
        /\ call'[c].reset = call[c].reset
    <3>1. /\ call \in [Calls -> CallRecords] /\ call[c] \in CallRecords
          /\ "bind" \in Pcs
      BY <1>1, CallTypes DEF Pcs, Waiting
    <3> QED  BY <1>2, <1>4, <2>1, <3>1 DEF Moved, CallRecords
  <2>3. \A d \in Boxes : minted'[d] = IF d = b THEN "sent" ELSE minted[d]
    BY <1>1, <2>1 DEF TypeOK
  <2>4. TypeOK'
    <3>1. minted' \in [Boxes -> {"none", "sent", "mined"}]
      BY <1>1, <2>1 DEF TypeOK
    <3>2. \A d \in Boxes : bound'[d] # None =>
            minted'[d] = "mined" /\ <<d, bound'[d]>> \in sent'
      BY <1>1, <1>3, <2>1, <2>3 DEF TypeOK
    <3> QED  BY <1>1, <1>3, <2>2, <3>1, <3>2
             DEF TypeOK, Moved, CallRecords, Pcs
  <2>5. IdInv' /\ RowInv' /\ HeldRowIsInHand'
    BY <1>2, <1>3, <2>2, KeepsRow DEF Active
  <2>6. BoxInv'
    <3>1. \A t \in sent : t[1] \in Boxes
      BY <1>1 DEF TypeOK
    <3> QED  BY <1>1, <1>3, <2>1, <2>3, <3>1 DEF BoxInv
  <2>7. \A d \in Calls : HasBox(d)' = (d = c \/ HasBox(d))
    BY <1>2, <2>1, <2>2 DEF HasBox, Moved
  <2>8. \A d \in Calls : HasBox(d) =>
          d # c /\ call'[d] = call[d] /\ call[d].box # b
          /\ call[d].box \in Boxes
    BY <1>1, <1>2, <2>1, <2>2, CallTypes DEF InHandInv, Moved, HasBox
  <2>10. InHandInv'
    <3>1. ASSUME NEW d \in Calls, HasBox(d)'
          PROVE  /\ minted'[call'[d].box] # "none"
                 /\ pool'[call'[d].box]
                      = IF call'[d].pooled THEN "claimed" ELSE "absent"
                 /\ \A t \in sure' : t[1] # call'[d].box
      <4>1. CASE d = c
        BY <1>3, <2>1, <2>2, <2>3, <4>1
      <4>2. CASE d # c
        BY <1>1, <1>3, <2>3, <2>7, <2>8, <3>1, <4>2 DEF InHandInv
      <4> QED  BY <4>1, <4>2
    <3>2. ASSUME NEW d \in Calls, NEW e \in Calls, HasBox(d)', HasBox(e)',
                 call'[d].box = call'[e].box
          PROVE  d = e
      BY <1>1, <2>2, <2>7, <2>8, <3>2 DEF InHandInv
    <3> QED  BY <3>1, <3>2 DEF InHandInv
  <2>11. StepInv'
    BY <1>1, <1>3, <2>1, <2>2 DEF StepInv, Moved, Id
  <2>12. SentInv'
    BY <1>1, <1>3 DEF SentInv
  <2>13. HandInv'
    BY <1>1, <1>3, <2>5, <2>7, <2>8 DEF HandInv
  <2> QED  BY <1>1, <1>3, <2>4, <2>5, <2>6, <2>10, <2>11, <2>12, <2>13
           DEF ClaimInv, RefillInv
<1>5. ASSUME call' = Goto(c, "failed"),
             UNCHANGED minted \/ \E b \in Boxes : Install(b)
      PROVE  ClaimInv'
  <2>1. /\ Moved(c, "failed") /\ call'[c].read = call[c].read
        /\ call'[c].box = call[c].box /\ call'[c].pooled = call[c].pooled
        /\ call'[c].reset = call[c].reset
    BY <1>1, <1>5, Goes DEF Pcs, Running
  <2>2. /\ minted' \in [Boxes -> {"none", "sent", "mined"}]
        /\ \A d \in Boxes : /\ minted[d] # "none" => minted'[d] # "none"
                            /\ minted'[d] = "none" => minted[d] = "none"
                            /\ minted[d] = "mined" => minted'[d] = "mined"
    BY <1>1, <1>5 DEF TypeOK, Install
  <2>3. TypeOK'
    BY <1>1, <1>3, <2>1, <2>2 DEF TypeOK, Moved, CallRecords, Pcs
  <2>4. IdInv' /\ RowInv' /\ HeldRowIsInHand'
    BY <1>2, <1>3, <2>1, KeepsRow DEF Active
  <2>5. \A d \in Calls : /\ HasBox(d)' = HasBox(d)
                         /\ call'[d].box = call[d].box
                         /\ call'[d].pooled = call[d].pooled
    BY <1>2, <2>1 DEF HasBox, Moved
  <2>6. BoxInv' /\ SentInv' /\ RefillInv'
    <3>1. \A t \in sent : t[1] \in Boxes
      BY <1>1 DEF TypeOK
    <3> QED  BY <1>1, <1>3, <2>2, <3>1 DEF BoxInv, SentInv, RefillInv
  <2>7. InHandInv'
    <3>1. \A d \in Calls : HasBox(d) => call[d].box \in Boxes
      BY <1>1, CallTypes DEF HasBox
    <3> QED  BY <1>1, <1>3, <2>2, <2>5, <3>1 DEF InHandInv
  <2>8. StepInv'
    BY <1>1, <1>2, <1>3, <2>1 DEF StepInv, Moved, Id
  <2>9. HandInv'
    BY <1>1, <1>3, <1>5, <2>4, <2>5 DEF HandInv
  <2> QED  BY <2>4, <2>6, <2>8, <2>9, <2>3, <2>7 DEF ClaimInv
<1> QED  BY <1>4, <1>5 DEF MintInline, Outcome

\* A Bind that went out is the first for its box; a refused one leaves the
\* box in hand, and so does one that went out although it failed.
LEMMA BindStep ==
  ASSUME ClaimInv, NEW c \in Calls, Bind(c)
  PROVE  ClaimInv'
<1>1. /\ TypeOK /\ BoxInv /\ InHandInv /\ StepInv /\ SentInv
      /\ HandInv /\ RefillInv /\ IdInv
  BY DEF ClaimInv
<1>2. /\ call[c].pc = "bind" /\ call[c].pc \in Active /\ HasBox(c)
      /\ call[c].proc \in Procs /\ call[c].box \in Boxes
      /\ call[c].box # None /\ Id(c) \in Ids
  BY <1>1, CallTypes DEF Bind, At, Active, HasBox, StepInv, IdInv
<1>3. /\ UNCHANGED <<minted, bound, invoice, held, pool, up, keeper, crashes>>
      /\ hidden' \in Nat /\ hidden' + crashes <= MaxFaults
  <2>1. hidden' \in Nat /\ hidden' + crashes <= MaxFaults
    BY <1>1, OutcomeBounded DEF Bind
  <2> QED  BY <2>1 DEF Bind, database
<1>4. ASSUME sent' = sent \cup {<<call[c].box, Id(c)>>},
             sure' = sure \cup {<<call[c].box, Id(c)>>},
             call' = Goto(c, "bound"),
             record' = SetMine(c, "awaiting_deposit")
      PROVE  ClaimInv'
  <2>1. /\ Moved(c, "bound") /\ call'[c].read = call[c].read
        /\ call'[c].box = call[c].box /\ call'[c].pooled = call[c].pooled
        /\ call'[c].reset = call[c].reset
    BY <1>1, <1>4, Goes DEF Pcs, Running
  <2>2. record' \in [Procs -> [Ids -> RecordStates]]
    BY <1>1, <1>2, <1>4, MineTyped DEF RecordStates
  <2>3. TypeOK'
    <3>1. sent' \subseteq Boxes \X Ids /\ sure' \subseteq sent'
      BY <1>1, <1>2, <1>4 DEF TypeOK
    <3>2. \A d \in Boxes : bound'[d] # None =>
            minted'[d] = "mined" /\ <<d, bound'[d]>> \in sent'
      BY <1>1, <1>3, <1>4 DEF TypeOK
    <3> QED  BY <1>1, <1>3, <2>1, <2>2, <3>1, <3>2
             DEF TypeOK, Moved, CallRecords, Pcs, RecordStates
  <2>4. IdInv' /\ RowInv' /\ HeldRowIsInHand'
    BY <1>2, <1>3, <1>4, <2>1, KeepsRow DEF Active
  <2>5. /\ minted[call[c].box] # "none"
        /\ pool[call[c].box] \notin {"minted", "confirmed"}
        /\ \A t \in sure : t[1] # call[c].box
    BY <1>1, <1>2 DEF InHandInv
  <2>6. BoxInv'
    BY <1>1, <1>3, <1>4, <2>5 DEF BoxInv
  <2>7. \A d \in Calls : HasBox(d)' = (d # c /\ HasBox(d))
    BY <2>1 DEF HasBox, Moved
  <2>8. \A d \in Calls : HasBox(d) /\ d # c =>
          call'[d] = call[d] /\ call[d].box # call[c].box
    BY <1>1, <1>2, <2>1 DEF InHandInv, Moved
  <2>9. InHandInv'
    <3>1. ASSUME NEW d \in Calls, HasBox(d)'
          PROVE  /\ minted'[call'[d].box] # "none"
                 /\ pool'[call'[d].box]
                      = IF call'[d].pooled THEN "claimed" ELSE "absent"
                 /\ \A t \in sure' : t[1] # call'[d].box
      <4>1. /\ HasBox(d) /\ d # c /\ call'[d] = call[d]
            /\ call[d].box # call[c].box
        BY <2>7, <2>8, <3>1
      <4>2. /\ minted[call[d].box] # "none"
            /\ pool[call[d].box]
                 = IF call[d].pooled THEN "claimed" ELSE "absent"
            /\ \A t \in sure : t[1] # call[d].box
        BY <1>1, <4>1 DEF InHandInv
      <4> QED  BY <1>3, <1>4, <4>1, <4>2
    <3>2. ASSUME NEW d \in Calls, NEW e \in Calls, HasBox(d)', HasBox(e)',
                 call'[d].box = call'[e].box
          PROVE  d = e
      BY <1>1, <2>7, <2>8, <3>2 DEF InHandInv
    <3> QED  BY <3>1, <3>2 DEF InHandInv
  <2>10. StepInv'
    <3>1. \A d \in Calls : Id(d)' = Id(d)
      BY <2>1 DEF Id, Moved
    <3> QED  BY <1>1, <1>2, <1>4, <2>1, <3>1 DEF StepInv, Moved
  <2>11. SentInv'
    BY <1>1, <1>3, <1>4, <2>5 DEF SentInv
  <2>12. HandInv'
    <3>1. ASSUME crashes' = 0, NEW b \in Boxes, pool'[b] = "claimed"
          PROVE  \/ \E d \in Calls : HasBox(d)' /\ call'[d].box = b
                                     /\ call'[d].pooled
                 \/ \E t \in sent' : t[1] = b
      <4>1. CASE b = call[c].box
        <5> DEFINE t == <<call[c].box, Id(c)>>
        <5>1. t \in sent' /\ t[1] = b
          BY <1>4, <4>1
        <5> QED  BY <5>1
      <4>2. CASE b # call[c].box
        <5>1. \/ \E d \in Calls : HasBox(d) /\ call[d].box = b
                                   /\ call[d].pooled
              \/ \E t \in sent : t[1] = b
          BY <1>1, <1>3, <3>1 DEF HandInv
        <5>2. ASSUME NEW d \in Calls, HasBox(d), call[d].box = b,
                     call[d].pooled
              PROVE  HasBox(d)' /\ call'[d].box = b /\ call'[d].pooled
          BY <2>7, <2>8, <4>2, <5>2
        <5>3. \A t \in sent : t \in sent'
          BY <1>4
        <5> QED  BY <5>1, <5>2, <5>3
      <4> QED  BY <4>1, <4>2
    <3> QED  BY <2>4, <3>1 DEF HandInv
  <2> QED  BY <1>1, <1>3, <2>3, <2>4, <2>6, <2>9, <2>10, <2>11, <2>12
           DEF ClaimInv, RefillInv
<1>5. ASSUME UNCHANGED <<sure, record>>, call' = Goto(c, "failed"),
             \/ UNCHANGED sent
             \/ sent' = sent \cup {<<call[c].box, Id(c)>>}
      PROVE  ClaimInv'
  <2>1. /\ Moved(c, "failed") /\ call'[c].read = call[c].read
        /\ call'[c].box = call[c].box /\ call'[c].pooled = call[c].pooled
        /\ call'[c].reset = call[c].reset
    BY <1>1, <1>5, Goes DEF Pcs, Running
  <2>2. /\ sent' \subseteq Boxes \X Ids /\ \A t \in sent : t \in sent'
        /\ \A t \in sent' : t \in sent \/ t = <<call[c].box, Id(c)>>
        /\ sure' \subseteq sent'
    BY <1>1, <1>2, <1>5 DEF TypeOK
  <2>3. TypeOK'
    <3>1. \A d \in Boxes : bound'[d] # None =>
            minted'[d] = "mined" /\ <<d, bound'[d]>> \in sent'
      BY <1>1, <1>3, <2>2 DEF TypeOK
    <3> QED  BY <1>1, <1>3, <1>5, <2>1, <2>2, <3>1
             DEF TypeOK, Moved, CallRecords, Pcs
  <2>4. IdInv' /\ RowInv' /\ HeldRowIsInHand'
    BY <1>2, <1>3, <2>1, <2>2, KeepsRow DEF Active
  <2>5. \A d \in Calls : /\ HasBox(d)' = HasBox(d)
                         /\ call'[d].box = call[d].box
                         /\ call'[d].pooled = call[d].pooled
    BY <1>2, <2>1 DEF HasBox, Moved
  <2>6. minted[call[c].box] # "none"
    BY <1>1, <1>2 DEF InHandInv
  <2>7. BoxInv' /\ RefillInv'
    BY <1>1, <1>3, <1>5, <2>2, <2>6 DEF BoxInv, RefillInv
  <2>8. InHandInv'
    BY <1>1, <1>3, <1>5, <2>5 DEF InHandInv
  <2>9. SentInv'
    BY <1>1, <1>3, <1>5 DEF SentInv
  <2>10. StepInv'
    BY <1>1, <1>2, <1>3, <1>5, <2>1 DEF StepInv, Moved, Id
  <2>11. HandInv'
    BY <1>1, <1>3, <2>4, <2>5, <2>2 DEF HandInv
  <2> QED  BY <2>3, <2>4, <2>7, <2>10, <2>11, <2>8, <2>9 DEF ClaimInv
<1> QED  BY <1>4, <1>5 DEF Bind, Outcome

\* A call that failed gives a pooled box back and keeps its row.
LEMMA FailStep ==
  ASSUME ClaimInv, NEW c \in Calls, Fail(c)
  PROVE  ClaimInv'
<1>1. /\ TypeOK /\ BoxInv /\ InHandInv /\ StepInv /\ SentInv
      /\ HandInv /\ RefillInv /\ IdInv
  BY DEF ClaimInv
<1>2. /\ call[c].pc = "failed" /\ call[c].pc \in Active
      /\ call[c].proc \in Procs /\ call[c].box \in Boxes \cup {None}
  BY <1>1, CallTypes DEF Fail, At, Active, IdInv
<1>3. UNCHANGED <<minted, sent, sure, hidden, bound, invoice, held, up,
                  keeper, crashes>>
  BY DEF Fail, chain
<1>4. /\ Moved(c, "persist") /\ call'[c].read = call[c].read
      /\ call'[c].box = call[c].box /\ call'[c].pooled = call[c].pooled
      /\ call'[c].reset = call[c].reset
  BY <1>1, Goes DEF Pcs, Running, Fail
<1>5. record' \in [Procs -> [Ids -> RecordStates]]
  BY <1>1, <1>2, MineTyped DEF RecordStates, Fail
<1>6. call[c].pooled => HasBox(c) /\ call[c].box \in Boxes
  BY <1>1, <1>2 DEF StepInv, HasBox
<1>7. pool' = IF call[c].pooled
              THEN [pool EXCEPT ![call[c].box] = "minted"] ELSE pool
  BY <1>1, <1>6 DEF Fail, InHandInv
<1>8. /\ pool' \in [Boxes -> {"absent", "minted", "confirmed", "claimed"}]
      /\ \A b \in Boxes : pool'[b] = IF call[c].pooled /\ b = call[c].box
                                     THEN "minted" ELSE pool[b]
  BY <1>1, <1>6, <1>7 DEF TypeOK
<1>9. TypeOK'
  BY <1>1, <1>3, <1>4, <1>5, <1>8
     DEF TypeOK, Moved, CallRecords, Pcs, RecordStates
<1>10. IdInv' /\ RowInv' /\ HeldRowIsInHand'
  BY <1>2, <1>3, <1>4, KeepsRow DEF Active
<1>11. call[c].pooled => /\ minted[call[c].box] # "none"
                         /\ \A t \in sure : t[1] # call[c].box
  BY <1>1, <1>6 DEF InHandInv
<1>12. BoxInv'
  <2>1. (\A t \in sent : t[1] \in Boxes) /\ sure \subseteq sent
    BY <1>1 DEF TypeOK
  <2>2. ASSUME NEW t \in sure
        PROVE  pool'[t[1]] \notin {"minted", "confirmed"}
    <3>1. t[1] \in Boxes /\ pool[t[1]] \notin {"minted", "confirmed"}
      BY <1>1, <2>1 DEF BoxInv
    <3>2. ~(call[c].pooled /\ t[1] = call[c].box)
      BY <1>11
    <3> QED  BY <1>8, <3>1, <3>2
  <2> QED  BY <1>1, <1>3, <1>8, <1>11, <2>1, <2>2 DEF BoxInv
<1>13. \A d \in Calls : HasBox(d)' = (d # c /\ HasBox(d))
  BY <1>4 DEF HasBox, Moved
<1>14. \A d \in Calls : HasBox(d) /\ d # c =>
         /\ call'[d] = call[d] /\ call[d].box \in Boxes
         /\ ~(call[c].pooled /\ call[d].box = call[c].box)
  BY <1>1, <1>4, <1>6, CallTypes DEF InHandInv, Moved, HasBox
<1>15. InHandInv'
  <2>1. ASSUME NEW d \in Calls, HasBox(d)'
        PROVE  /\ minted'[call'[d].box] # "none"
               /\ pool'[call'[d].box]
                    = IF call'[d].pooled THEN "claimed" ELSE "absent"
               /\ \A t \in sure' : t[1] # call'[d].box
    <3>1. /\ HasBox(d) /\ d # c /\ call'[d] = call[d]
          /\ call[d].box \in Boxes
          /\ ~(call[c].pooled /\ call[d].box = call[c].box)
      BY <1>13, <1>14, <2>1
    <3>2. /\ minted[call[d].box] # "none"
          /\ pool[call[d].box]
               = IF call[d].pooled THEN "claimed" ELSE "absent"
          /\ \A t \in sure : t[1] # call[d].box
      BY <1>1, <3>1 DEF InHandInv
    <3>3. pool'[call[d].box] = pool[call[d].box]
      BY <1>8, <3>1
    <3> QED  BY <1>3, <3>1, <3>2, <3>3
  <2>2. ASSUME NEW d \in Calls, NEW e \in Calls, HasBox(d)', HasBox(e)',
               call'[d].box = call'[e].box
        PROVE  d = e
    BY <1>1, <1>13, <1>14, <2>2 DEF InHandInv
  <2> QED  BY <2>1, <2>2 DEF InHandInv
<1>16. StepInv'
  BY <1>1, <1>2, <1>3, <1>4 DEF StepInv, Moved, Id
<1>17. SentInv'
  BY <1>1, <1>3 DEF SentInv
<1>18. HandInv'
  <2>1. ASSUME crashes' = 0, NEW b \in Boxes, pool'[b] = "claimed"
        PROVE  \/ \E d \in Calls : HasBox(d)' /\ call'[d].box = b
                                   /\ call'[d].pooled
               \/ \E t \in sent' : t[1] = b
    <3>1. pool[b] = "claimed" /\ ~(call[c].pooled /\ b = call[c].box)
      BY <1>8, <2>1
    <3>2. \/ \E d \in Calls : HasBox(d) /\ call[d].box = b /\ call[d].pooled
          \/ \E t \in sent : t[1] = b
      BY <1>1, <1>3, <2>1, <3>1 DEF HandInv
    <3> QED  BY <1>3, <1>13, <1>14, <3>1, <3>2
  <2> QED  BY <1>10, <2>1 DEF HandInv
<1> QED  BY <1>1, <1>3, <1>9, <1>10, <1>12, <1>15, <1>16, <1>17, <1>18
         DEF ClaimInv, RefillInv

-----------------------------------------------------------------------------
(* The claim row, the outcome, and a new quote.                            *)

\* Steps that leave boxes, pool and Binds alone, and whose call has no box
\* in hand, keep what is said of boxes.
LEMMA BoxesKept ==
  ASSUME ClaimInv, NEW c \in Calls,
         UNCHANGED <<minted, sent, sure, hidden, pool>>,
         call' \in [Calls -> CallRecords],
         \A d \in Calls : d # c => call'[d] = call[d],
         call[c].pc \notin {"bind", "failed"},
         call'[c].pc \notin {"bind", "failed", "bound"},
         call'[c].box = call[c].box, call'[c].pooled = call[c].pooled,
         call[c].box = None
           \/ call'[c].pc \in {"persist", "release", "done"},
         crashes' = crashes, HeldRowIsInHand'
  PROVE  BoxInv' /\ InHandInv' /\ StepInv' /\ HandInv'
<1>1. BoxInv /\ InHandInv /\ StepInv /\ HandInv
  BY DEF ClaimInv
<1>2. \A d \in Calls : /\ HasBox(d)' = HasBox(d)
                       /\ call'[d].box = call[d].box
                       /\ call'[d].pooled = call[d].pooled
  BY DEF HasBox
<1>3. BoxInv' /\ InHandInv'
  BY <1>1, <1>2 DEF BoxInv, InHandInv
<1>4. StepInv'
  BY <1>1 DEF StepInv, Id
<1>5. HandInv'
  BY <1>1, <1>2 DEF HandInv
<1> QED  BY <1>3, <1>4, <1>5

\* The row goes to the first who asks.
LEMMA TryClaimStep ==
  ASSUME ClaimInv, NEW c \in Calls, TryClaim(c)
  PROVE  ClaimInv'
<1>1. /\ TypeOK /\ IdInv /\ RowInv /\ StepInv /\ SentInv /\ HandInv
      /\ RefillInv
  BY DEF ClaimInv
<1>2. /\ call[c].pc = "read" /\ call[c].box = None
      /\ call[c].order \in Orders /\ call[c].proc \in Procs
      /\ Owns(call[c].order, Id(c)) /\ Id(c) \in Ids
  BY <1>1, CallTypes DEF TryClaim, At, IdInv, StepInv
<1>3. /\ UNCHANGED <<minted, sent, sure, hidden, bound, invoice, pool, up,
                     keeper, crashes>>
      /\ held' = held \cup {Id(c)}
  BY DEF TryClaim, chain
<1> DEFINE s == IF Id(c) \in held THEN "lost" ELSE "won"
<1>4. /\ Moved(c, s) /\ call'[c].read = call[c].read
      /\ call'[c].box = call[c].box /\ call'[c].pooled = call[c].pooled
      /\ call'[c].reset = call[c].reset
  <2>1. s \in Pcs /\ call' = Goto(c, s)
    BY DEF TryClaim, Pcs, Running
  <2> QED  BY <1>1, <2>1, Goes
<1>5. call'[c].pc = IF Id(c) \in held THEN "lost" ELSE "won"
  BY <1>4 DEF Moved
<1>6. /\ \A d \in Calls : d # c => call'[d] = call[d]
      /\ call' \in [Calls -> CallRecords]
      /\ call'[c].order = call[c].order /\ call'[c].proc = call[c].proc
  BY <1>4 DEF Moved
<1> HIDE DEF s
<1>7. TypeOK'
  <2>1. record' \in [Procs -> [Ids -> RecordStates]]
    BY <1>1, <1>2, MineTyped DEF RecordStates, TryClaim
  <2> QED  BY <1>1, <1>2, <1>3, <1>6, <2>1
           DEF TypeOK, CallRecords, Pcs, RecordStates
<1>8. \A d \in Calls : Id(d)' = Id(d)
  BY <1>4, <1>6 DEF Id
<1>9. /\ \A i : Known(i)' = Known(i)
      /\ \A o \in Orders : \A i : Owns(o, i)' = Owns(o, i)
  BY <1>4, <1>6 DEF Known, Owns
<1>10. IdInv'
  <2>1. \A d \in Calls : (call[d].pc # "new" =>
          /\ call[d].order \in Orders /\ call[d].proc \in Procs
          /\ Owns(call[d].order, Id(d)))'
    BY <1>1, <1>2, <1>6, <1>8, <1>9 DEF IdInv
  <2>2. Known(Id(c))
    BY <1>2 DEF Known, Owns
  <2>3. \A d \in Calls : call'[d].pc = "new" => d # c
    BY <1>5
  <2> QED  BY <1>1, <1>3, <1>6, <1>9, <2>1, <2>2, <2>3 DEF IdInv
<1>11. RowInv'
  <2>1. \A i : NotQuoted(i)' = NotQuoted(i)
    BY <1>3 DEF NotQuoted, Matches
  <2>2. \A d \in Calls : call'[d].pc \in Active
          => \/ d # c /\ call[d].pc \in Active /\ Id(d) \in held
             \/ d = c /\ Id(c) \notin held
    BY <1>1, <1>5, <1>6 DEF RowInv, Active
  <2>3. \A d \in Calls : call'[d].pc = "release" => call[d].pc = "release"
    BY <1>5, <1>6
  <2> QED  BY <1>1, <1>3, <1>8, <2>1, <2>2, <2>3 DEF RowInv
<1>12. HeldRowIsInHand'
  <2>1. ASSUME crashes' = 0, NEW o \in Orders, invoice'[o].status = "quoted",
               invoice'[o].id \in held'
        PROVE  \E d \in Calls :
                 /\ Id(d)' = invoice'[o].id
                 /\ call'[d].pc \in {"won", "mint", "bind", "bound",
                                     "failed", "persist"}
    <3>1. CASE invoice[o].id \in held
      <4>1. PICK d \in Calls :
              /\ Id(d) = invoice[o].id
              /\ call[d].pc \in {"won", "mint", "bind", "bound", "failed",
                                 "persist"}
        BY <1>1, <1>3, <2>1, <3>1 DEF HandInv, HeldRowIsInHand
      <4> QED  BY <1>2, <1>3, <1>6, <1>8, <4>1
    <3>2. CASE invoice[o].id \notin held
      BY <1>3, <1>5, <1>8, <2>1, <3>2
    <3> QED  BY <3>1, <3>2
  <2> QED  BY <2>1 DEF HeldRowIsInHand
<1>13. BoxInv' /\ InHandInv' /\ StepInv' /\ HandInv'
  BY <1>2, <1>3, <1>4, <1>5, <1>6, <1>12, BoxesKept
<1>14. SentInv' /\ RefillInv'
  BY <1>1, <1>3 DEF SentInv, RefillInv
<1> QED  BY <1>7, <1>10, <1>11, <1>13, <1>14 DEF ClaimInv

\* The end of a quote: its call writes the outcome and goes on to release.
LEMMA QuoteEnds ==
  ASSUME ClaimInv, NEW c \in Calls, call[c].pc \in {"persist", "bound"},
         Moved(c, "release"),
         call'[c].read = call[c].read, call'[c].box = call[c].box,
         call'[c].pooled = call[c].pooled, call'[c].reset = call[c].reset,
         UNCHANGED <<minted, sent, sure, hidden, bound, held, pool, up,
                     record, keeper, crashes>>,
         NEW x \in Blobs, x.id = Id(c), x.status # "quoted",
         x.status = "awaiting_deposit" => <<x.scid, x.id>> \in sure,
         invoice' = [invoice EXCEPT ![call[c].order] = x]
  PROVE  ClaimInv'
<1> DEFINE o == call[c].order
<1>1. /\ TypeOK /\ IdInv /\ RowInv /\ StepInv /\ SentInv /\ HandInv
      /\ RefillInv
  BY DEF ClaimInv
<1>2. /\ o \in Orders /\ Owns(o, Id(c)) /\ call[c].pc \in Active
      /\ call[c].pc # "new"
  BY <1>1 DEF IdInv, Active
<1>3. invoice \in [Orders -> Blobs]
  BY <1>1 DEF TypeOK
<1>4. \A p \in Orders : invoice'[p] = IF p = o THEN x ELSE invoice[p]
  BY <1>3
<1> HIDE DEF o
<1>5. /\ \A j : NotQuoted(j) => NotQuoted(j)'
      /\ NotQuoted(Id(c))'
  <2>1. \A p \in Orders : p # o => invoice[p].id # Id(c)
    BY <1>1, <1>2, OwnerIsOne DEF IdInv
  <2> QED  BY <1>4, <2>1 DEF NotQuoted, Matches, Id
<1>6. /\ \A d \in Calls : d # c => call'[d] = call[d]
      /\ call' \in [Calls -> CallRecords] /\ call'[c].pc = "release"
      /\ call'[c].order = o /\ call'[c].proc = call[c].proc
  BY DEF Moved, o
<1>7. TypeOK'
  <2>1. invoice' \in [Orders -> Blobs]
    BY <1>3, <1>4 DEF o
  <2> QED  BY <1>1, <1>6, <2>1 DEF TypeOK, CallRecords, Pcs
<1>8. /\ \A d \in Calls : Id(d)' = Id(d)
      /\ \A i : Known(i)' = Known(i)
      /\ \A p \in Orders : \A i : Owns(p, i)' = Owns(p, i)
  BY <1>6 DEF Id, Known, Owns, o
<1>9. IdInv'
  <2>1. \A d \in Calls : (call[d].pc # "new" =>
          /\ call[d].order \in Orders /\ call[d].proc \in Procs
          /\ Owns(call[d].order, Id(d)))'
    BY <1>1, <1>2, <1>6, <1>8 DEF IdInv, o
  <2>2. \A p \in Orders : Owns(p, invoice[p].id)'
    BY <1>1, <1>2, <1>4, <1>8 DEF IdInv
  <2>3. \A d \in Calls : call'[d].pc = "new" => d # c
    BY <1>6
  <2> QED  BY <1>1, <1>6, <1>8, <2>1, <2>2, <2>3 DEF IdInv
<1>10. RowInv'
  <2>1. \A d \in Calls : call'[d].pc \in Active => call[d].pc \in Active
    BY <1>2, <1>6
  <2>2. \A d \in Calls : call'[d].pc = "release"
                         => d = c \/ call[d].pc = "release"
    BY <1>6
  <2> QED  BY <1>1, <1>5, <1>8, <2>1, <2>2 DEF RowInv
<1>11. HeldRowIsInHand'
  <2>1. ASSUME crashes' = 0, NEW p \in Orders, invoice'[p].status = "quoted",
               invoice'[p].id \in held'
        PROVE  \E d \in Calls :
                 /\ Id(d)' = invoice'[p].id
                 /\ call'[d].pc \in {"won", "mint", "bind", "bound",
                                     "failed", "persist"}
    <3>1. p # o /\ invoice'[p] = invoice[p]
      BY <1>4, <2>1
    <3>2. invoice[p].id # Id(c)
      BY <1>1, <1>2, <3>1, OwnerIsOne DEF IdInv
    <3>3. PICK d \in Calls :
            /\ Id(d) = invoice[p].id
            /\ call[d].pc \in {"won", "mint", "bind", "bound", "failed",
                               "persist"}
      BY <1>1, <2>1, <3>1 DEF HandInv, HeldRowIsInHand
    <3> QED  BY <1>6, <1>8, <3>1, <3>2, <3>3
  <2> QED  BY <2>1 DEF HeldRowIsInHand
<1>12. BoxInv' /\ InHandInv' /\ StepInv' /\ HandInv'
  BY <1>6, <1>11, BoxesKept
<1>13. SentInv' /\ RefillInv'
  BY <1>1, <1>4 DEF SentInv, RefillInv
<1> QED  BY <1>7, <1>9, <1>10, <1>12, <1>13 DEF ClaimInv

\* A failure is written over whatever the invoice says.
LEMMA PersistFailureStep ==
  ASSUME ClaimInv, NEW c \in Calls, PersistFailure(c)
  PROVE  ClaimInv'
<1> DEFINE x == [call[c].read EXCEPT !.status = "deploy_failed"]
<1>1. TypeOK /\ call[c].read \in Blobs
  BY CallTypes DEF ClaimInv
<1>2. /\ x \in Blobs /\ x.id = Id(c) /\ x.status = "deploy_failed"
  BY <1>1 DEF Blobs, Id
<1>3. invoice' = [invoice EXCEPT ![call[c].order] = x]
  BY DEF PersistFailure
<1> HIDE DEF x
<1>4. /\ Moved(c, "release") /\ call'[c].read = call[c].read
      /\ call'[c].box = call[c].box /\ call'[c].pooled = call[c].pooled
      /\ call'[c].reset = call[c].reset
  BY <1>1, Goes DEF Pcs, Running, PersistFailure
<1> QED  BY <1>2, <1>3, <1>4, QuoteEnds DEF PersistFailure, At, chain

\* A success is written if the quote still stands, else the row is kept.
LEMMA PersistSuccessStep ==
  ASSUME ClaimInv, NEW c \in Calls, PersistSuccess(c)
  PROVE  ClaimInv'
<1>1. /\ TypeOK /\ call[c].read \in Blobs /\ call[c].box \in Boxes \cup {None}
      /\ IdInv /\ RowInv /\ SentInv /\ HandInv /\ RefillInv
      /\ <<call[c].box, Id(c)>> \in sure /\ call[c].pc = "bound"
      /\ call[c].box # None
  BY CallTypes DEF ClaimInv, StepInv, PersistSuccess, At
<1>2. UNCHANGED <<minted, sent, sure, hidden, bound, held, pool, up, record,
                  keeper, crashes>>
  BY DEF PersistSuccess, chain
<1>3. CASE Matches(call[c].order, Id(c), "quoted")
  <2> DEFINE x == [call[c].read EXCEPT !.status = "awaiting_deposit",
                                       !.scid = call[c].box,
                                       !.requoteCount = 0]
  <2>1. /\ x \in Blobs /\ x.id = Id(c) /\ x.status = "awaiting_deposit"
        /\ x.scid = call[c].box
    <3>1. x \in Blobs
      <4> DEFINE y == [call[c].read EXCEPT !.status = "awaiting_deposit"]
                 z == [y EXCEPT !.scid = call[c].box]
      <4>1. y \in Blobs
        BY <1>1 DEF Blobs
      <4> HIDE DEF y
      <4>2. z \in Blobs
        BY <1>1, <4>1 DEF Blobs
      <4> HIDE DEF z
      <4>3. [z EXCEPT !.requoteCount = 0] \in Blobs
        BY <4>2, ClaimAssumption DEF Blobs
      <4> QED  BY <4>3 DEF y, z
    <3>2. x.id = Id(c) /\ x.status = "awaiting_deposit" /\ x.scid = call[c].box
      BY <1>1 DEF Blobs, Id
    <3> QED  BY <3>1, <3>2
  <2>2. invoice' = [invoice EXCEPT ![call[c].order] = x]
    BY <1>3 DEF PersistSuccess
  <2> HIDE DEF x
  <2>3. /\ Moved(c, "release") /\ call'[c].read = call[c].read
        /\ call'[c].box = call[c].box /\ call'[c].pooled = call[c].pooled
        /\ call'[c].reset = call[c].reset
    BY <1>1, <1>3, Goes DEF Pcs, Running, PersistSuccess
  <2> QED  BY <1>1, <1>2, <2>1, <2>2, <2>3, QuoteEnds
<1>4. CASE ~Matches(call[c].order, Id(c), "quoted")
  <2>1. invoice' = invoice
    BY <1>4 DEF PersistSuccess
  <2>2. /\ Moved(c, "done") /\ call'[c].read = call[c].read
        /\ call'[c].box = call[c].box /\ call'[c].pooled = call[c].pooled
        /\ call'[c].reset = call[c].reset
    BY <1>1, <1>4, Goes DEF Pcs, Ended, PersistSuccess
  <2>3. /\ \A d \in Calls : d # c => call'[d] = call[d]
        /\ call' \in [Calls -> CallRecords] /\ call'[c].pc = "done"
        /\ call'[c].order = call[c].order /\ call'[c].proc = call[c].proc
    BY <2>2 DEF Moved
  <2>4. /\ \A d \in Calls : Id(d)' = Id(d)
        /\ \A i : Known(i)' = Known(i)
        /\ \A p \in Orders : \A i : Owns(p, i)' = Owns(p, i)
    BY <2>2, <2>3 DEF Id, Known, Owns
  <2>5. TypeOK'
    BY <1>1, <1>2, <2>1, <2>3 DEF TypeOK, CallRecords, Pcs
  <2>6. IdInv'
    <3>1. \A d \in Calls : (call[d].pc # "new" =>
            /\ call[d].order \in Orders /\ call[d].proc \in Procs
            /\ Owns(call[d].order, Id(d)))'
      BY <1>1, <2>3, <2>4 DEF IdInv
    <3>2. \A d \in Calls : call'[d].pc = "new" => d # c
      BY <2>3
    <3> QED  BY <1>1, <1>2, <2>1, <2>3, <2>4, <3>1, <3>2 DEF IdInv
  <2>7. RowInv'
    <3>1. \A d \in Calls : call'[d].pc \in Active \/ call'[d].pc = "release"
            => d # c /\ call'[d].pc = call[d].pc
      BY <2>3 DEF Active
    <3>2. \A i : NotQuoted(i)' = NotQuoted(i)
      BY <2>1 DEF NotQuoted, Matches
    <3> QED  BY <1>1, <1>2, <2>4, <3>1, <3>2 DEF RowInv
  <2>8. HeldRowIsInHand'
    <3>1. ASSUME crashes' = 0, NEW p \in Orders,
                 invoice[p].status = "quoted", invoice[p].id \in held
          PROVE  \E d \in Calls :
                   /\ Id(d)' = invoice[p].id
                   /\ call'[d].pc \in {"won", "mint", "bind", "bound",
                                       "failed", "persist"}
      <4>1. PICK d \in Calls :
              /\ Id(d) = invoice[p].id
              /\ call[d].pc \in {"won", "mint", "bind", "bound", "failed",
                                 "persist"}
        BY <1>1, <1>2, <3>1 DEF HandInv, HeldRowIsInHand
      <4>2. d # c
        <5>1. SUFFICES ASSUME d = c PROVE FALSE
          OBVIOUS
        <5>2. Owns(p, Id(c)) /\ Owns(call[c].order, Id(c))
              /\ call[c].order \in Orders
          BY <1>1, <4>1, <5>1 DEF IdInv
        <5>3. p = call[c].order
          BY <5>2, OwnerIsOne
        <5> QED  BY <1>4, <3>1, <4>1, <5>1, <5>3 DEF Matches
      <4> QED  BY <2>3, <2>4, <4>1, <4>2
    <3> QED  BY <1>2, <2>1, <3>1 DEF HeldRowIsInHand
  <2>9. BoxInv' /\ InHandInv' /\ StepInv' /\ HandInv'
    BY <1>1, <1>2, <2>2, <2>3, <2>8, BoxesKept
  <2>10. SentInv' /\ RefillInv'
    BY <1>1, <1>2, <2>1 DEF SentInv, RefillInv
  <2> QED  BY <2>5, <2>6, <2>7, <2>9, <2>10 DEF ClaimInv
<1> QED  BY <1>3, <1>4

\* The row is given back once its quote is over.
LEMMA ReleaseStep ==
  ASSUME ClaimInv, NEW c \in Calls, ReleaseRow(c)
  PROVE  ClaimInv'
<1>1. /\ TypeOK /\ IdInv /\ RowInv /\ SentInv /\ HandInv /\ RefillInv
      /\ call[c].pc = "release" /\ NotQuoted(Id(c))
  BY DEF ClaimInv, RowInv, ReleaseRow, At
<1>2. /\ UNCHANGED <<minted, sent, sure, hidden, bound, invoice, pool, up,
                     record, keeper, crashes>>
      /\ held' = held \ {Id(c)}
  BY DEF ReleaseRow, chain
<1>3. /\ Moved(c, "done") /\ call'[c].read = call[c].read
      /\ call'[c].box = call[c].box /\ call'[c].pooled = call[c].pooled
      /\ call'[c].reset = call[c].reset
  BY <1>1, Goes DEF Pcs, Ended, ReleaseRow
<1>4. /\ \A d \in Calls : d # c => call'[d] = call[d]
      /\ call' \in [Calls -> CallRecords] /\ call'[c].pc = "done"
      /\ call'[c].order = call[c].order /\ call'[c].proc = call[c].proc
  BY <1>3 DEF Moved
<1>5. /\ \A d \in Calls : Id(d)' = Id(d)
      /\ \A i : Known(i)' = Known(i)
      /\ \A p \in Orders : \A i : Owns(p, i)' = Owns(p, i)
      /\ \A i : NotQuoted(i)' = NotQuoted(i)
  BY <1>2, <1>3, <1>4 DEF Id, Known, Owns, NotQuoted, Matches
<1>6. TypeOK'
  BY <1>1, <1>2, <1>4 DEF TypeOK, CallRecords, Pcs
<1>7. IdInv'
  <2>1. \A d \in Calls : (call[d].pc # "new" =>
          /\ call[d].order \in Orders /\ call[d].proc \in Procs
          /\ Owns(call[d].order, Id(d)))'
    BY <1>1, <1>4, <1>5 DEF IdInv
  <2>2. \A d \in Calls : call'[d].pc = "new" => d # c
    BY <1>4
  <2> QED  BY <1>1, <1>2, <1>4, <1>5, <2>1, <2>2 DEF IdInv
<1>8. RowInv'
  <2>1. \A d \in Calls : call'[d].pc \in Active \/ call'[d].pc = "release"
          => d # c /\ call'[d].pc = call[d].pc
    BY <1>4 DEF Active
  <2>2. call[c].pc \in Active
    BY <1>1 DEF Active
  <2> QED  BY <1>1, <1>2, <1>5, <2>1, <2>2 DEF RowInv
<1>9. HeldRowIsInHand'
  <2>1. ASSUME crashes' = 0, NEW p \in Orders,
               invoice[p].status = "quoted", invoice[p].id \in held
        PROVE  \E d \in Calls :
                 /\ Id(d)' = invoice[p].id
                 /\ call'[d].pc \in {"won", "mint", "bind", "bound",
                                     "failed", "persist"}
    <3>1. PICK d \in Calls :
            /\ Id(d) = invoice[p].id
            /\ call[d].pc \in {"won", "mint", "bind", "bound", "failed",
                               "persist"}
      BY <1>1, <1>2, <2>1 DEF HandInv, HeldRowIsInHand
    <3> QED  BY <1>1, <1>4, <1>5, <3>1
  <2> QED  BY <1>2, <2>1 DEF HeldRowIsInHand
<1>10. BoxInv' /\ InHandInv' /\ StepInv' /\ HandInv'
  BY <1>1, <1>2, <1>3, <1>4, <1>9, BoxesKept
<1>11. SentInv' /\ RefillInv'
  BY <1>1, <1>2 DEF SentInv, RefillInv
<1> QED  BY <1>6, <1>7, <1>8, <1>10, <1>11 DEF ClaimInv

\* A call that may only end its order's quote, or put its own, new id there.
LEMMA ResetMove ==
  ASSUME ClaimInv, NEW c \in Calls, call[c].pc = "read",
         ~call[c].reset,
         NEW s \in {"reread", "done"}, Moved(c, s),
         call'[c].read = call[c].read, call'[c].box = call[c].box,
         call'[c].pooled = call[c].pooled,
         UNCHANGED <<minted, sent, sure, hidden, bound, held, pool, up,
                     keeper, crashes>>,
         TypeOK',
         \A p \in Orders :
           \/ invoice'[p] = invoice[p]
           \/ /\ invoice'[p].id = invoice[p].id
              /\ invoice'[p].status = "cancelled"
           \/ /\ p = call[c].order /\ invoice'[p].id = c
              /\ invoice'[p].status = "quoted" /\ call'[c].reset
  PROVE  ClaimInv'
<1>1. /\ IdInv /\ RowInv /\ StepInv /\ SentInv /\ HandInv /\ RefillInv
  BY DEF ClaimInv
<1>2. /\ \A d \in Calls : d # c => call'[d] = call[d]
      /\ call' \in [Calls -> CallRecords] /\ call'[c].pc = s
      /\ call'[c].order = call[c].order /\ call'[c].proc = call[c].proc
  BY DEF Moved
<1>3. /\ \A d \in Calls : Id(d)' = Id(d)
      /\ \A i : Known(i) => Known(i)'
      /\ \A p \in Orders : \A i : Owns(p, i) => Owns(p, i)'
  BY <1>2 DEF Id, Known, Owns
<1>4. ~Known(c) /\ (call'[c].reset => Owns(call[c].order, c)')
  BY <1>2, ClaimAssumption DEF Known, Owns
<1>5. \A i : Known(i) /\ NotQuoted(i) => NotQuoted(i)'
  BY <1>4 DEF NotQuoted, Matches
<1>6. IdInv'
  <2>1. \A d \in Calls : (call[d].pc # "new" =>
          /\ call[d].order \in Orders /\ call[d].proc \in Procs
          /\ Owns(call[d].order, Id(d)))'
    BY <1>1, <1>2, <1>3 DEF IdInv
  <2>2. \A p \in Orders : Owns(p, invoice[p].id)'
    BY <1>1, <1>2 DEF IdInv, Owns
  <2>3. \A d \in Calls : call'[d].pc = "new" => d # c
    BY <1>2
  <2> QED  BY <1>1, <1>2, <1>3, <2>1, <2>2, <2>3 DEF IdInv
<1>7. RowInv'
  <2>1. \A d \in Calls : call'[d].pc \in Active \/ call'[d].pc = "release"
          => d # c /\ call'[d].pc = call[d].pc
    BY <1>2 DEF Active
  <2>2. \A d \in Calls : call[d].pc = "release" => Known(Id(d))
    BY <1>1 DEF IdInv, Known, Owns
  <2> QED  BY <1>1, <1>3, <1>5, <2>1, <2>2 DEF RowInv, IdInv
<1>8. HeldRowIsInHand'
  <2>1. ASSUME crashes' = 0, NEW p \in Orders, invoice'[p].status = "quoted",
               invoice'[p].id \in held
        PROVE  \E d \in Calls :
                 /\ Id(d)' = invoice'[p].id
                 /\ call'[d].pc \in {"won", "mint", "bind", "bound",
                                     "failed", "persist"}
    <3>1. invoice'[p] = invoice[p]
      BY <1>1, <1>4, <2>1 DEF IdInv
    <3>2. PICK d \in Calls :
            /\ Id(d) = invoice[p].id
            /\ call[d].pc \in {"won", "mint", "bind", "bound", "failed",
                               "persist"}
      BY <1>1, <2>1, <3>1 DEF HandInv, HeldRowIsInHand
    <3> QED  BY <1>2, <1>3, <3>1, <3>2
  <2> QED  BY <2>1 DEF HeldRowIsInHand
<1>9. BoxInv' /\ InHandInv' /\ StepInv' /\ HandInv'
  <2>1. call[c].box = None
    BY <1>1 DEF StepInv
  <2> QED  BY <1>2, <1>8, <2>1, BoxesKept
<1>10. SentInv' /\ RefillInv'
  BY <1>1 DEF SentInv, RefillInv
<1> QED  BY <1>6, <1>7, <1>9, <1>10 DEF ClaimInv

\* A failed quote is replaced or parked, if it still stands.
LEMMA ResetStep ==
  ASSUME ClaimInv, NEW c \in Calls, Reset(c)
  PROVE  ClaimInv'
<1> DEFINE o == call[c].order
           r == call[c].read
<1>1. /\ TypeOK /\ IdInv /\ call[c].pc = "read" /\ call[c].reset = FALSE
      /\ o \in Orders /\ call[c].proc \in Procs /\ r \in Blobs
      /\ r.requoteCount \in 0..MaxRequotes
      /\ call \in [Calls -> CallRecords] /\ call[c] \in CallRecords
  BY CallTypes DEF ClaimInv, Reset, Failed, At, IdInv, CallRecords, Blobs
<1>2. UNCHANGED <<minted, sent, sure, hidden, bound, held, pool, up, keeper,
                  crashes>>
  BY DEF Reset, chain
<1>3. invoice \in [Orders -> Blobs]
  BY <1>1 DEF TypeOK
<1>4. ~call[c].reset /\ "reread" \in Pcs /\ "done" \in Pcs
  BY <1>1 DEF Pcs, Running, Ended
<1>5. CASE r.requoteCount >= MaxRequotes
  <2>1. /\ invoice' = IF Unreset(c)
                      THEN [invoice EXCEPT ![o].status = "cancelled"]
                      ELSE invoice
        /\ call' = Goto(c, "done") /\ record' = record
    BY <1>5 DEF Reset, Park
  <2>2. /\ Moved(c, "done") /\ call'[c].read = r
        /\ call'[c].box = call[c].box /\ call'[c].pooled = call[c].pooled
        /\ call'[c].reset = call[c].reset
    BY <1>1, <1>4, <2>1, Goes
  <2>3. /\ invoice' \in [Orders -> Blobs]
        /\ \A p \in Orders :
             \/ invoice'[p] = invoice[p]
             \/ /\ invoice'[p].id = invoice[p].id
                /\ invoice'[p].status = "cancelled"
    BY <1>1, <1>3, <2>1 DEF Blobs
  <2>4. TypeOK'
    BY <1>1, <1>2, <2>1, <2>2, <2>3 DEF TypeOK, Moved, CallRecords, Pcs
  <2> QED  BY <1>1, <1>2, <1>4, <2>2, <2>3, <2>4, ResetMove
<1>6. CASE ~(r.requoteCount >= MaxRequotes)
  <2> DEFINE n == r.requoteCount + 1
             q == [Fresh(c) EXCEPT !.requoteCount = n]
             s == IF Unreset(c) THEN "reread" ELSE "done"
  <2>1. q \in Blobs /\ q.id = c /\ q.status = "quoted"
    BY <1>1, <1>6, ClaimAssumption DEF Fresh, Blobs, Ids
  <2>2. /\ invoice' = IF Unreset(c) THEN [invoice EXCEPT ![o] = q]
                      ELSE invoice
        /\ record' = IF Unreset(c)
                     THEN [record EXCEPT ![call[c].proc][c] = "quoted"]
                     ELSE record
        /\ call' = [call EXCEPT ![c].pc = s, ![c].reset = TRUE]
    BY <1>6 DEF Reset, Requote
  <2>3. s \in {"reread", "done"} /\ s \in Pcs
    BY <1>4
  <2> HIDE DEF q, s
  <2>4. /\ Moved(c, s) /\ call'[c].read = r
        /\ call'[c].box = call[c].box /\ call'[c].pooled = call[c].pooled
        /\ call'[c].reset
    BY <1>1, <2>2, <2>3 DEF Moved, CallRecords
  <2>5. /\ invoice' \in [Orders -> Blobs]
        /\ \A p \in Orders :
             \/ invoice'[p] = invoice[p]
             \/ /\ p = o /\ invoice'[p].id = c
                /\ invoice'[p].status = "quoted" /\ call'[c].reset
    BY <1>1, <1>3, <2>1, <2>2, <2>4
  <2>6. record' \in [Procs -> [Ids -> RecordStates]]
    <3>1. record \in [Procs -> [Ids -> RecordStates]] /\ c \in Ids
      BY <1>1 DEF TypeOK, RecordStates, Ids
    <3> QED  BY <1>1, <2>2, <3>1 DEF RecordStates
  <2>7. TypeOK'
    BY <1>1, <1>2, <2>4, <2>5, <2>6
       DEF TypeOK, Moved, CallRecords, Pcs, RecordStates
  <2> QED  BY <1>1, <1>2, <1>4, <2>3, <2>4, <2>5, <2>7, ResetMove
<1> QED  BY <1>5, <1>6

-----------------------------------------------------------------------------
(* The keeper, the chain, crashes and restarts.                            *)

\* Boxes are mined, pooled when new, and confirmed when pooled.
LEMMA PoolMove ==
  ASSUME ClaimInv, TypeOK', RefillInv',
         UNCHANGED <<sent, sure, invoice, held, call, crashes>>,
         \A b \in Boxes :
           \/ /\ pool'[b] = pool[b]
              /\ minted'[b] = minted[b] \/ minted'[b] = "mined"
           \/ /\ minted'[b] = minted[b]
              /\ pool[b] = "minted" /\ pool'[b] = "confirmed"
           \/ /\ minted[b] = "none" /\ minted'[b] = "sent"
              /\ pool'[b] = "minted" \/ pool'[b] = pool[b]
  PROVE  ClaimInv'
<1>1. /\ TypeOK /\ IdInv /\ RowInv /\ BoxInv /\ InHandInv /\ StepInv
      /\ SentInv /\ HandInv
  BY DEF ClaimInv
<1>2. IdInv' /\ RowInv' /\ StepInv' /\ SentInv' /\ HeldRowIsInHand'
  BY <1>1 DEF IdInv, Known, Owns, Id, RowInv, NotQuoted, Matches, StepInv,
     SentInv, HandInv, HeldRowIsInHand
<1>3. BoxInv'
  <2>1. \A t \in sent : t[1] \in Boxes
    BY <1>1 DEF TypeOK
  <2>2. \A t \in sure : t \in sent
    BY <1>1 DEF TypeOK
  <2> QED  BY <1>1, <2>1, <2>2 DEF BoxInv
<1>4. \A c \in Calls : HasBox(c)' = HasBox(c)
  BY DEF HasBox
<1>5. InHandInv'
  <2>1. ASSUME NEW c \in Calls, HasBox(c)
        PROVE  /\ minted'[call[c].box] # "none"
               /\ pool'[call[c].box]
                    = IF call[c].pooled THEN "claimed" ELSE "absent"
               /\ \A t \in sure : t[1] # call[c].box
    <3>1. call[c].box \in Boxes
      BY <1>1, <2>1, CallTypes DEF HasBox
    <3>2. /\ minted[call[c].box] # "none"
          /\ pool[call[c].box]
               = IF call[c].pooled THEN "claimed" ELSE "absent"
          /\ \A t \in sure : t[1] # call[c].box
      BY <1>1, <2>1 DEF InHandInv
    <3> QED  BY <3>1, <3>2
  <2> QED  BY <1>1, <1>4, <2>1 DEF InHandInv
<1>6. HandInv'
  <2>1. \A b \in Boxes : pool'[b] = "claimed" => pool[b] = "claimed"
    OBVIOUS
  <2> QED  BY <1>1, <1>2, <1>4, <2>1 DEF HandInv
<1> QED  BY <1>2, <1>3, <1>5, <1>6 DEF ClaimInv

\* A tick of the keeper.
LEMMA KeepStep ==
  ASSUME ClaimInv, NEW p \in Procs, Keep(p)
  PROVE  ClaimInv'
<1> DEFINE KeeperRecords ==
             [pc : {"idle", "confirm", "refill"}, todo : SUBSET Boxes,
              good : Boxes \cup {None}, left : 0..TargetReady]
<1>1. /\ TypeOK /\ RefillInv /\ BoxInv
      /\ keeper \in [Procs -> KeeperRecords] /\ keeper[p] \in KeeperRecords
      /\ 0 \in 0..TargetReady /\ Idle \in KeeperRecords /\ Idle.pc = "idle"
  BY ClaimAssumption DEF ClaimInv, TypeOK, Idle
<1>2. /\ UNCHANGED <<sent, sure, bound, invoice, held, up, record, call,
                     crashes>>
      /\ hidden' \in Nat /\ hidden' + crashes <= MaxFaults
  <2>1. CASE Refill(p)
    <3>1. hidden' \in Nat /\ hidden' + crashes <= MaxFaults
      BY <1>1, <2>1, OutcomeBounded DEF Refill
    <3> QED  BY <2>1, <3>1 DEF Refill
  <2>2. CASE ~Refill(p)
    <3>1. UNCHANGED KeeperOnly
      BY <2>2 DEF Keep, ListMinted, GetState, MarkConfirmed, CountReady
    <3> QED  BY <1>1, <3>1 DEF KeeperOnly, chain, TypeOK
  <2> QED  BY <2>1, <2>2
<1>3. ASSUME UNCHANGED <<minted, pool>>, NEW k \in KeeperRecords,
             keeper' = [keeper EXCEPT ![p] = k],
             k.pc = "refill" => k.left # 0
      PROVE  ClaimInv'
  <2>1. TypeOK'
    BY <1>1, <1>2, <1>3 DEF TypeOK
  <2>2. RefillInv'
    BY <1>1, <1>3 DEF RefillInv
  <2> QED  BY <1>2, <1>3, <2>1, <2>2, PoolMove
<1>4. CASE ListMinted(p)
  <2> DEFINE k == [Idle EXCEPT !.pc = "confirm", !.todo = InPool("minted")]
  <2>1. k \in KeeperRecords /\ k.pc = "confirm"
    BY <1>1 DEF Idle, InPool
  <2>2. UNCHANGED <<minted, pool>> /\ keeper' = [keeper EXCEPT ![p] = k]
    BY <1>4 DEF ListMinted, KeeperOnly, chain
  <2> HIDE DEF k, KeeperRecords
  <2> QED  BY <1>3, <2>1, <2>2
<1>5. CASE GetState(p)
  <2>1. PICK b \in keeper[p].todo :
          keeper' = [keeper EXCEPT
                       ![p].todo = @ \ {b},
                       ![p].good = IF PoolReady(b) THEN b ELSE None]
    BY <1>5 DEF GetState
  <2>2. b \in Boxes /\ keeper[p].pc = "confirm"
    BY <1>1, <1>5 DEF GetState
  <2>3. /\ keeper' \in [Procs -> KeeperRecords]
        /\ keeper'[p].pc = "confirm"
        /\ \A q \in Procs : q # p => keeper'[q] = keeper[q]
    BY <1>1, <2>1, <2>2
  <2>4. UNCHANGED <<minted, pool>>
    BY <1>5 DEF GetState, KeeperOnly, chain
  <2>5. TypeOK'
    BY <1>1, <1>2, <2>3, <2>4 DEF TypeOK
  <2>6. RefillInv'
    BY <1>1, <2>3 DEF RefillInv
  <2> QED  BY <1>2, <2>4, <2>5, <2>6, PoolMove
<1>6. CASE MarkConfirmed(p)
  <2>1. /\ keeper[p].good \in Boxes /\ UNCHANGED minted
        /\ pool' = [pool EXCEPT ![keeper[p].good] =
                      IF @ = "minted" THEN "confirmed" ELSE @]
        /\ keeper' = [keeper EXCEPT ![p].good = None]
    BY <1>1, <1>6 DEF MarkConfirmed, KeeperOnly, chain
  <2>2. /\ keeper' \in [Procs -> KeeperRecords]
        /\ \A q \in Procs : /\ keeper'[q].pc = keeper[q].pc
                            /\ keeper'[q].left = keeper[q].left
    BY <1>1, <2>1
  <2>3. /\ pool' \in [Boxes -> {"absent", "minted", "confirmed", "claimed"}]
        /\ \A b \in Boxes : \/ pool'[b] = pool[b]
                            \/ pool[b] = "minted" /\ pool'[b] = "confirmed"
    BY <1>1, <2>1 DEF TypeOK
  <2>4. TypeOK'
    BY <1>1, <1>2, <2>1, <2>2, <2>3 DEF TypeOK
  <2>5. RefillInv'
    BY <1>1, <2>2 DEF RefillInv
  <2> QED  BY <1>2, <2>1, <2>3, <2>4, <2>5, PoolMove
<1>7. CASE CountReady(p)
  <2>1. UNCHANGED <<minted, pool>>
    BY <1>7 DEF CountReady, KeeperOnly, chain
  <2>2. \A s : Cardinality(InPool(s)) \in Nat
    BY ClaimAssumption, FS_Subset, FS_CardinalityType DEF InPool
  <2>3. Deficit \in Int /\ Deficit <= TargetReady
    BY <2>2, ClaimAssumption DEF Deficit
  <2> HIDE DEF KeeperRecords
  <2>4. CASE /\ Deficit > 0
             /\ keeper' = [keeper EXCEPT ![p] =
                             [Idle EXCEPT !.pc = "refill", !.left = Deficit]]
    <3> DEFINE k == [Idle EXCEPT !.pc = "refill", !.left = Deficit]
    <3>1. k \in KeeperRecords /\ k.left # 0
      <4>1. Deficit \in 0..TargetReady /\ Deficit # 0
        BY <2>3, <2>4, ClaimAssumption
      <4> QED  BY <4>1 DEF Idle, KeeperRecords
    <3> HIDE DEF k
    <3> QED  BY <1>3, <2>1, <2>4, <3>1 DEF k
  <2>5. CASE keeper' = [keeper EXCEPT ![p] = Idle]
    BY <1>1, <1>3, <2>1, <2>5
  <2> QED  BY <1>7, <2>4, <2>5 DEF CountReady
<1>8. CASE Refill(p)
  <2>1. PICK broadcast, answered \in BOOLEAN, b \in Boxes :
          /\ Outcome(broadcast, answered)
          /\ IF broadcast THEN Install(b) ELSE UNCHANGED minted
          /\ pool' = IF answered THEN [pool EXCEPT ![b] = "minted"] ELSE pool
          /\ keeper' = [keeper EXCEPT ![p] =
                          IF ~answered \/ keeper[p].left = 1 THEN Idle
                          ELSE [keeper[p] EXCEPT
                                  !.left = keeper[p].left - 1]]
    BY <1>8 DEF Refill
  <2>2. /\ answered => broadcast
        /\ keeper[p].pc = "refill" /\ keeper[p].left # 0
    BY <1>1, <1>8, <2>1 DEF Outcome, RefillInv, Refill
  <2>3. /\ keeper' \in [Procs -> KeeperRecords]
        /\ keeper'[p].pc = "refill" => keeper'[p].left # 0
        /\ \A q \in Procs : q # p => keeper'[q] = keeper[q]
    <3> DEFINE less == [keeper[p] EXCEPT !.left = keeper[p].left - 1]
               k == IF ~answered \/ keeper[p].left = 1 THEN Idle ELSE less
    <3>1. keeper' = [keeper EXCEPT ![p] = k]
      BY <2>1
    <3>2. keeper[p].left # 1 =>
            less \in KeeperRecords /\ less.left # 0
      BY <1>1, <2>2, ClaimAssumption
    <3> HIDE DEF less, KeeperRecords
    <3>3. k \in KeeperRecords /\ (k.pc = "refill" => k.left # 0)
      BY <1>1, <3>2
    <3> HIDE DEF k
    <3> QED  BY <1>1, <3>1, <3>3
  <2>4. CASE ~broadcast
    <3>1. UNCHANGED <<minted, pool>>
      BY <2>1, <2>2, <2>4
    <3>2. TypeOK'
      BY <1>1, <1>2, <2>3, <3>1 DEF TypeOK
    <3>3. RefillInv'
      BY <1>1, <2>3 DEF RefillInv
    <3> QED  BY <1>2, <3>1, <3>2, <3>3, PoolMove
  <2>5. CASE broadcast
    <3>1. /\ minted[b] = "none"
          /\ minted' = [minted EXCEPT ![b] = "sent"]
          /\ pool' = IF answered THEN [pool EXCEPT ![b] = "minted"] ELSE pool
      BY <2>1, <2>5 DEF Install
    <3>2. \A d \in Boxes :
            /\ minted'[d] = IF d = b THEN "sent" ELSE minted[d]
            /\ pool'[d] = IF d = b /\ answered THEN "minted" ELSE pool[d]
      BY <1>1, <3>1 DEF TypeOK
    <3>3. TypeOK'
      <4>1. minted' \in [Boxes -> {"none", "sent", "mined"}]
            /\ pool' \in [Boxes -> {"absent", "minted", "confirmed",
                                    "claimed"}]
        BY <1>1, <3>1 DEF TypeOK
      <4>2. \A d \in Boxes : bound[d] # None =>
              minted'[d] = "mined" /\ <<d, bound[d]>> \in sent
        BY <1>1, <3>1, <3>2 DEF TypeOK
      <4> QED  BY <1>1, <1>2, <2>3, <4>1, <4>2 DEF TypeOK
    <3>4. RefillInv'
      BY <1>1, <2>3 DEF RefillInv
    <3> QED  BY <1>2, <3>1, <3>2, <3>3, <3>4, PoolMove
  <2> QED  BY <2>4, <2>5
<1> QED  BY <1>4, <1>5, <1>6, <1>7, <1>8 DEF Keep

\* The chain mines a box or the first Bind of one.
LEMMA ChainStep ==
  ASSUME ClaimInv, NEW b \in Boxes, Confirm(b)
  PROVE  ClaimInv'
<1>1. /\ TypeOK /\ IdInv /\ RowInv /\ BoxInv /\ InHandInv /\ StepInv
      /\ SentInv /\ HandInv /\ RefillInv
  BY DEF ClaimInv
<1>2. CASE MineBox(b)
  <2>1. /\ minted' = [minted EXCEPT ![b] = "mined"]
        /\ UNCHANGED <<sent, sure, hidden, bound, invoice, held, pool, up,
                       record, keeper, call, crashes>>
    BY <1>2 DEF MineBox, database, memory
  <2>2. \A d \in Boxes : minted'[d] = IF d = b THEN "mined" ELSE minted[d]
    BY <1>1, <2>1 DEF TypeOK
  <2>3. TypeOK'
    <3>1. minted' \in [Boxes -> {"none", "sent", "mined"}]
      BY <1>1, <2>1 DEF TypeOK
    <3>2. \A d \in Boxes : bound[d] # None =>
            minted'[d] = "mined" /\ <<d, bound[d]>> \in sent
      BY <1>1, <2>2 DEF TypeOK
    <3> QED  BY <1>1, <2>1, <3>1, <3>2 DEF TypeOK
  <2>4. RefillInv'
    BY <1>1, <2>1 DEF RefillInv
  <2> QED  BY <2>1, <2>2, <2>3, <2>4, PoolMove
<1>3. ASSUME NEW id \in Ids, MineBind(b, id)
      PROVE  ClaimInv'
  <2>1. /\ bound' = [bound EXCEPT ![b] = id]
        /\ minted[b] = "mined" /\ <<b, id>> \in sent
        /\ UNCHANGED <<minted, sent, sure, hidden, invoice, held, pool, up,
                       record, keeper, call, crashes>>
    BY <1>3 DEF MineBind, database, memory
  <2>2. TypeOK'
    BY <1>1, <2>1 DEF TypeOK
  <2>3. RefillInv'
    BY <1>1, <2>1 DEF RefillInv
  <2> QED  BY <2>1, <2>2, <2>3, PoolMove
<1> QED  BY <1>2, <1>3 DEF Confirm

\* A restart imports what is bound, and holds nothing.
LEMMA RestartStep ==
  ASSUME ClaimInv, NEW p \in Procs, Restart(p)
  PROVE  ClaimInv'
<1>1. /\ TypeOK /\ RefillInv
      /\ UNCHANGED <<minted, sent, sure, hidden, bound, invoice, held, pool,
                     keeper, call, crashes>>
  BY DEF ClaimInv, Restart, chain, database
<1>2. /\ record' \in [Procs -> [Ids -> RecordStates]]
      /\ up' \in [Procs -> BOOLEAN]
  BY <1>1 DEF Restart, TypeOK, RecordStates
<1>3. TypeOK'
  BY <1>1, <1>2 DEF TypeOK, RecordStates
<1>4. RefillInv'
  BY <1>1 DEF RefillInv
<1> QED  BY <1>1, <1>3, <1>4, PoolMove

\* A crash ends the calls of a process; their rows stay held, their boxes
\* out of the pool, and a Bind in flight may be out.
LEMMA CrashStep ==
  ASSUME ClaimInv, NEW p \in Procs, Crash(p)
  PROVE  ClaimInv'
<1>1. /\ TypeOK /\ IdInv /\ RowInv /\ BoxInv /\ InHandInv /\ StepInv
      /\ SentInv /\ RefillInv
  BY DEF ClaimInv
<1>2. UNCHANGED <<minted, bound, invoice, held, pool>>
  BY DEF Crash, database
<1>3. call \in [Calls -> CallRecords] /\ "done" \in Pcs
  BY <1>1 DEF TypeOK, CallRecords, Pcs, Ended
<1>4. call' = [c \in Calls |->
                 IF call[c].proc = p /\ call[c].pc # "new"
                 THEN [call[c] EXCEPT !.pc = "done"] ELSE call[c]]
  BY DEF Crash
<1>5. call' \in [Calls -> CallRecords]
  BY <1>3, <1>4 DEF CallRecords
<1>6. \A c \in Calls :
        /\ call'[c].proc = call[c].proc /\ call'[c].order = call[c].order
        /\ call'[c].read = call[c].read /\ call'[c].box = call[c].box
        /\ call'[c].pooled = call[c].pooled
        /\ call'[c].reset = call[c].reset
        /\ call'[c].pc = IF call[c].proc = p /\ call[c].pc # "new"
                         THEN "done" ELSE call[c].pc
  BY <1>3, <1>4 DEF CallRecords
<1>7. PICK out \in SUBSET {c \in Calls : call[c].proc = p /\ At(c, "bind")} :
        /\ sent' = sent \cup {<<call[c].box, Id(c)>> : c \in out}
        /\ sure' = sure \cup {<<call[c].box, Id(c)>> : c \in out}
  BY DEF Crash
<1>8. /\ \A t \in sent : t \in sent'
      /\ \A t \in sent' : \/ t \in sent
                          \/ \E c \in out : t = <<call[c].box, Id(c)>>
      /\ \A t \in sure : t \in sure'
      /\ \A t \in sure' : \/ t \in sure
                          \/ \E c \in out : t = <<call[c].box, Id(c)>>
  BY <1>7
<1>9. \A c \in out : /\ c \in Calls /\ HasBox(c) /\ call[c].pc \in Active
                     /\ call'[c].pc = "done" /\ call[c].box \in Boxes
                     /\ Id(c) \in Ids /\ Id(c) \in held
  <2> SUFFICES ASSUME NEW c \in out
               PROVE  /\ c \in Calls /\ HasBox(c) /\ call[c].pc \in Active
                      /\ call'[c].pc = "done" /\ call[c].box \in Boxes
                      /\ Id(c) \in Ids /\ Id(c) \in held
    OBVIOUS
  <2>1. /\ c \in Calls /\ call[c].pc = "bind" /\ call[c].proc = p
        /\ call[c].pc \in Active
    BY DEF At, Active
  <2>2. HasBox(c) /\ call[c].box \in Boxes /\ Id(c) \in Ids
    BY <1>1, <2>1, CallTypes DEF HasBox, StepInv
  <2> QED  BY <1>1, <1>6, <2>1, <2>2 DEF RowInv
<1>10. TypeOK'
  <2>1. sent' \subseteq Boxes \X Ids /\ sure' \subseteq sent'
    BY <1>1, <1>7, <1>8, <1>9 DEF TypeOK
  <2>2. hidden' \in Nat /\ crashes' \in Nat /\ hidden' + crashes' <= MaxFaults
    BY <1>1, ClaimAssumption DEF Crash, TypeOK
  <2>3. /\ up' \in [Procs -> BOOLEAN]
        /\ record' \in [Procs -> [Ids -> RecordStates]]
    BY <1>1 DEF Crash, TypeOK, RecordStates
  <2>4. keeper' \in [Procs -> [pc : {"idle", "confirm", "refill"},
                               todo : SUBSET Boxes,
                               good : Boxes \cup {None},
                               left : 0..TargetReady]]
    <3>1. Idle \in [pc : {"idle", "confirm", "refill"}, todo : SUBSET Boxes,
                    good : Boxes \cup {None}, left : 0..TargetReady]
      BY ClaimAssumption DEF Idle
    <3> QED  BY <1>1, <3>1 DEF Crash, TypeOK
  <2>5. \A b \in Boxes : bound'[b] # None =>
          minted'[b] = "mined" /\ <<b, bound'[b]>> \in sent'
    BY <1>1, <1>2, <1>8 DEF TypeOK
  <2> QED  BY <1>1, <1>2, <1>5, <2>1, <2>2, <2>3, <2>4, <2>5
           DEF TypeOK, CallRecords, Pcs, RecordStates
<1>11. /\ \A c \in Calls : Id(c)' = Id(c)
       /\ \A i : Known(i)' = Known(i)
       /\ \A o \in Orders : \A i : Owns(o, i)' = Owns(o, i)
       /\ \A i : NotQuoted(i)' = NotQuoted(i)
  BY <1>2, <1>6 DEF Id, Known, Owns, NotQuoted, Matches
<1>12. \A c \in Calls :
         /\ (call'[c].pc = "new") = (call[c].pc = "new")
         /\ call'[c].pc # "done" => call'[c].pc = call[c].pc
  BY <1>6
<1>13. IdInv'
  <2>1. \A c \in Calls : (call[c].pc # "new" =>
          /\ call[c].order \in Orders /\ call[c].proc \in Procs
          /\ Owns(call[c].order, Id(c)))'
    BY <1>1, <1>6, <1>11, <1>12 DEF IdInv
  <2>2. \A t \in sent' : Known(t[2])
    <3>1. \A c \in out : Known(Id(c))
      BY <1>1, <1>9 DEF IdInv
    <3> QED  BY <1>1, <1>8, <3>1 DEF IdInv
  <2> QED  BY <1>1, <1>2, <1>6, <1>11, <1>12, <2>1, <2>2 DEF IdInv
<1>14. RowInv'
  <2>1. \A c \in Calls : call'[c].pc \in Active \/ call'[c].pc = "release"
                         => call'[c].pc = call[c].pc
    BY <1>12 DEF Active
  <2>2. \A t \in sent' : t[2] \in held \/ NotQuoted(t[2])
    BY <1>1, <1>8, <1>9 DEF RowInv
  <2> QED  BY <1>1, <1>2, <1>11, <2>1, <2>2 DEF RowInv
<1>15. /\ \A t \in sent' : minted[t[1]] # "none"
       /\ \A t \in sure' : pool[t[1]] \notin {"minted", "confirmed"}
  <2>1. \A c \in out :
          /\ minted[call[c].box] # "none"
          /\ pool[call[c].box] \notin {"minted", "confirmed"}
    BY <1>1, <1>9 DEF InHandInv
  <2> QED  BY <1>1, <1>8, <2>1 DEF BoxInv
<1>16. BoxInv'
  BY <1>1, <1>2, <1>15 DEF BoxInv
<1>17. \A c \in Calls : HasBox(c)' => HasBox(c) /\ c \notin out
  BY <1>6, <1>9, <1>12 DEF HasBox
<1>18. InHandInv'
  <2>1. ASSUME NEW c \in Calls, HasBox(c)'
        PROVE  \A t \in sure' : t[1] # call[c].box
    <3>1. \A d \in out : call[d].box # call[c].box
      BY <1>1, <1>9, <1>17, <2>1 DEF InHandInv
    <3> QED  BY <1>1, <1>8, <1>17, <2>1, <3>1 DEF InHandInv
  <2> QED  BY <1>1, <1>2, <1>6, <1>17, <2>1 DEF InHandInv
<1>19. StepInv'
  BY <1>1, <1>6, <1>8, <1>11, <1>12 DEF StepInv
<1>20. SentInv'
  <2>1. \A s \in sure, c \in out : s[1] # call[c].box
    BY <1>1, <1>9 DEF InHandInv
  <2>2. \A c, d \in out : call[c].box = call[d].box => c = d
    BY <1>1, <1>9 DEF InHandInv
  <2>3. ASSUME NEW s \in sure', NEW t \in sure', s[1] = t[1]
        PROVE  s = t
    BY <1>1, <1>8, <2>1, <2>2, <2>3 DEF SentInv
  <2> QED  BY <1>1, <1>2, <1>8, <2>3 DEF SentInv
<1>21. HandInv'
  <2>1. crashes' # 0
    BY <1>1 DEF Crash, TypeOK
  <2> QED  BY <2>1 DEF HandInv, HeldRowIsInHand
<1>22. RefillInv'
  BY <1>1 DEF Crash, RefillInv, Idle, TypeOK
<1> QED  BY <1>10, <1>13, <1>14, <1>16, <1>18, <1>19, <1>20, <1>21, <1>22
         DEF ClaimInv

-----------------------------------------------------------------------------
(* The theorems.                                                           *)

\* The invariant of claims, rows, boxes and keepers is inductive.
THEOREM ClaimInductive ==
  Spec => []ClaimInv
<1>1. Init => ClaimInv
  <2> SUFFICES ASSUME Init PROVE ClaimInv
    OBVIOUS
  <2>1. PICK n \in 0..MaxRequotes :
          invoice = [o \in Orders |-> [Fresh(o) EXCEPT !.requoteCount = n]]
    BY DEF Init
  <2>2. \A i \in Ids : [Fresh(i) EXCEPT !.requoteCount = n] \in Blobs
                       /\ Fresh(i) \in Blobs
    BY <2>1, ClaimAssumption DEF Fresh, Blobs
  <2>3. /\ invoice \in [Orders -> Blobs]
        /\ \A o \in Orders : /\ invoice[o].id = o
                             /\ invoice[o].status = "quoted"
    BY <2>1, <2>2 DEF Ids, Fresh
  <2>4. /\ call \in [Calls -> CallRecords]
        /\ \A c \in Calls : /\ call[c].pc = "new" /\ call[c].proc = None
                            /\ call[c].box = None /\ call[c].pooled = FALSE
                            /\ call[c].reset = FALSE
    BY <2>2 DEF Init, CallRecords, Pcs, Ended, Ids
  <2>5. \A p \in Procs :
          /\ keeper[p] = Idle /\ Idle.pc = "idle"
          /\ Idle \in [pc : {"idle", "confirm", "refill"},
                       todo : SUBSET Boxes, good : Boxes \cup {None},
                       left : 0..TargetReady]
    BY ClaimAssumption DEF Init, Idle
  <2>6. TypeOK
    <3>1. keeper \in [Procs -> [pc : {"idle", "confirm", "refill"},
                                todo : SUBSET Boxes,
                                good : Boxes \cup {None},
                                left : 0..TargetReady]]
      BY <2>5 DEF Init
    <3> QED  BY <2>3, <2>4, <3>1, ClaimAssumption
             DEF Init, TypeOK, CallRecords, Pcs
  <2>7. \A c \in Calls : ~HasBox(c) /\ call[c].pc \notin Active
    BY <2>4 DEF HasBox, Active
  <2>8. IdInv /\ RowInv
    BY <2>3, <2>4, <2>7 DEF Init, IdInv, RowInv, Owns
  <2>9. BoxInv /\ InHandInv /\ StepInv /\ SentInv /\ HandInv /\ RefillInv
    BY <2>3, <2>4, <2>5, <2>7 DEF Init, BoxInv, InHandInv, StepInv, SentInv,
       HandInv, HeldRowIsInHand, RefillInv
  <2> QED  BY <2>6, <2>8, <2>9 DEF ClaimInv
<1>2. ClaimInv /\ [Next]_vars => ClaimInv'
  <2> SUFFICES ASSUME ClaimInv, [Next]_vars PROVE ClaimInv'
    OBVIOUS
  <2>1. ASSUME NEW c \in Calls,
               Step(c) \/ \E p \in Procs, o \in Orders : Start(c, p, o)
        PROVE  ClaimInv'
    BY <2>1, IdleSteps, ResetStep, TryClaimStep, TakeStep, MintStep,
       BindStep, FailStep, PersistFailureStep, PersistSuccessStep,
       ReleaseStep DEF Step
  <2>2. ASSUME NEW p \in Procs, Keep(p) \/ Crash(p) \/ Restart(p)
        PROVE  ClaimInv'
    BY <2>2, KeepStep, CrashStep, RestartStep
  <2>3. ASSUME NEW b \in Boxes, Confirm(b)
        PROVE  ClaimInv'
    BY <2>3, ChainStep
  <2>4. CASE UNCHANGED vars
    <3>1. UNCHANGED <<minted, sent, sure, hidden, bound, invoice, held, pool,
                      up, record, keeper, call, crashes>>
      BY <2>4 DEF vars, chain, database, memory
    <3>2. TypeOK' /\ RefillInv'
      BY <3>1 DEF ClaimInv, TypeOK, RefillInv
    <3> QED  BY <3>1, <3>2, PoolMove
  <2> QED  BY <2>1, <2>2, <2>3, <2>4 DEF Next
<1> QED  BY <1>1, <1>2, PTL DEF Spec

\* Every variable keeps its type, and a mined Bind was broadcast.
THEOREM ClaimTypeCorrect ==
  Spec => []TypeOK
<1>1. ClaimInv => TypeOK
  BY DEF ClaimInv
<1> QED  BY <1>1, ClaimInductive, PTL

\* Of the Binds of a box that went out, all but one are hidden by an error:
\* no box is knowingly asked to carry the terms of two orders.
THEOREM OneOrderPerBox ==
  Spec => []BoxServesOneOrder
<1>1. ClaimInv => BoxServesOneOrder
  BY DEF ClaimInv, SentInv, BoxServesOneOrder
<1> QED  BY <1>1, ClaimInductive, PTL

\* A quote whose claim took a box or sent its terms is held until it is over.
THEOREM GateStaysShut ==
  Spec => []GateNeverOpen
<1>1. ClaimInv => GateNeverOpen
  <2> SUFFICES ASSUME ClaimInv, NEW o \in Orders,
                      invoice[o].status = "quoted",
                      invoice[o].id \notin held
               PROVE  /\ \A b \in Boxes : <<b, invoice[o].id>> \notin sent
                      /\ \A c \in Calls :
                           Id(c) = invoice[o].id /\ call[c].box # None
                             => At(c, "done")
    BY DEF GateNeverOpen
  <2>1. ~NotQuoted(invoice[o].id)
    BY DEF NotQuoted, Matches
  <2>2. \A b \in Boxes : <<b, invoice[o].id>> \notin sent
    BY <2>1 DEF ClaimInv, RowInv
  <2>3. \A c \in Calls : Id(c) = invoice[o].id => call[c].pc \notin Active
    BY DEF ClaimInv, RowInv
  <2>4. \A c \in Calls : call[c].box # None
                         => call[c].pc \in Active \/ call[c].pc = "done"
    BY DEF ClaimInv, StepInv, Active
  <2> QED  BY <2>2, <2>3, <2>4 DEF At
<1> QED  BY <1>1, ClaimInductive, PTL

\* Barring a crash, a claimed box is in hand or its terms are out.
THEOREM NoBoxIsLost ==
  Spec => []NoBoxLeaks
<1>1. ClaimInv => NoBoxLeaks
  <2> SUFFICES ASSUME ClaimInv, crashes = 0, NEW b \in Boxes,
                      pool[b] = "claimed"
               PROVE  \/ \E c \in Calls : /\ call[c].box = b
                                          /\ call[c].pc \notin Ended
                      \/ \E id \in Ids : <<b, id>> \in sent
    BY DEF NoBoxLeaks, InPool
  <2>1. CASE \E c \in Calls : HasBox(c) /\ call[c].box = b
    BY <2>1 DEF HasBox, Ended
  <2>2. CASE \E s \in sent : s[1] = b
    <3>1. sent \subseteq Boxes \X Ids
      BY DEF ClaimInv, TypeOK
    <3> QED  BY <2>2, <3>1
  <2> QED  BY <2>1, <2>2 DEF ClaimInv, HandInv
<1> QED  BY <1>1, ClaimInductive, PTL

\* The box shown to a buyer was sent that order's terms and is out of the
\* pool; only a Bind hidden by an error can have been mined before them.
THEOREM ShownBoxesAreOwn ==
  Spec => []ShownBoxIsOwn
<1>1. ClaimInv => ShownBoxIsOwn
  <2> SUFFICES ASSUME ClaimInv, NEW o \in Orders,
                      invoice[o].status = "awaiting_deposit"
               PROVE  LET b == invoice[o].scid IN
                        /\ <<b, invoice[o].id>> \in sure
                        /\ \/ bound[b] \in {None, invoice[o].id}
                           \/ <<b, bound[b]>> \in sent \ sure
                        /\ pool[b] \notin {"minted", "confirmed"}
    BY DEF ShownBoxIsOwn
  <2> DEFINE b == invoice[o].scid
  <2>1. <<b, invoice[o].id>> \in sure
    BY DEF ClaimInv, SentInv
  <2>2. b \in Boxes
    BY <2>1 DEF ClaimInv, TypeOK
  <2>3. pool[b] \notin {"minted", "confirmed"}
    BY <2>1 DEF ClaimInv, BoxInv
  <2>4. bound[b] # None => <<b, bound[b]>> \in sent
    BY <2>2 DEF ClaimInv, TypeOK
  <2>5. <<b, bound[b]>> \in sure => bound[b] = invoice[o].id
    BY <2>1 DEF ClaimInv, SentInv
  <2> QED  BY <2>1, <2>3, <2>4, <2>5
<1> QED  BY <1>1, ClaimInductive, PTL

\* Barring a crash, a held row of a quoted order is in a running call's hands.
THEOREM HeldRowsAreInHand ==
  Spec => []HeldRowIsInHand
<1>1. ClaimInv => HeldRowIsInHand
  BY DEF ClaimInv, HandInv
<1> QED  BY <1>1, ClaimInductive, PTL
=============================================================================
