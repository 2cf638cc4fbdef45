---------------------------- MODULE EscrowClaim ----------------------------
(***************************************************************************)
(* Claiming an escrow invoice: from a quote to a box on the chain that     *)
(* carries its terms.  Several processes share one database (invoices,     *)
(* escrow_claims, escrow_inventory); each has its own EscrowManager        *)
(* records and its own EscrowKeeper that stocks the pool of empty boxes.   *)
(*                                                                         *)
(* A call of claimEscrowInvoice is a sequence of steps, one per await that *)
(* another process or a crash can fall into.  Database calls are            *)
(* synchronous under their async signatures, so inside one process the     *)
(* steps between two RPCs are not interleaved with anything (Quiet).       *)
(*                                                                         *)
(* Left out: the amount-drift checks, the party checks on the buyer (they  *)
(* only throw), and deploy_txid of the claim row, which nothing reads.     *)
(***************************************************************************)
EXTENDS Integers, FiniteSets

CONSTANTS
  Procs,        \* engine processes over one database
  Orders,       \* escrow invoices; also names the first quote of each
  Calls,        \* calls of claimEscrowInvoice; also names what they re-quote
  Boxes,        \* SCIDs
  None,         \* no box, no order
  TargetReady,  \* keeper: boxes to keep on hand
  RefillBelow,  \* keeper: refill below this many
  MaxRequotes,  \* escrowMaxAutoRequotes
  MaxFaults     \* bound: crashes and errors that hide a broadcast together

ASSUME ClaimAssumption ==
  /\ None \notin Procs \cup Orders \cup Calls \cup Boxes
  /\ Orders \cap Calls = {}
  /\ IsFiniteSet(Boxes)
  /\ TargetReady \in Nat
  /\ RefillBelow \in Nat
  /\ MaxRequotes \in Nat
  /\ MaxFaults \in Nat

VARIABLES
  minted,    \* per box: "none", "sent" (broadcast) or "mined"
  sent,      \* Bind transactions broadcast: <<box, escrow id>>
  sure,      \* history: those of sent that claimEscrow did not see fail
  bound,     \* per box: the escrow id whose terms it carries on the chain
  invoice,   \* per order: the stored escrow blob
  held,      \* escrow_claims rows
  pool,      \* escrow_inventory: state per box, "absent" without a row
  up,        \* per process: running
  record,    \* per process and escrow id: status of the manager's record
  keeper,    \* per process: where its tick is
  call,      \* per call: where it is and what it has read
  hidden,    \* RPC errors that hid a broadcast
  crashes

chain    == <<minted, sent, sure, bound, hidden>>
database == <<invoice, held, pool>>
memory   == <<up, record, keeper, call>>
vars     == <<chain, database, memory, crashes>>

Ids      == Orders \cup Calls
Blobs    == [id : Ids, status : {"quoted", "awaiting_deposit",
                                 "deploy_failed", "cancelled"},
             scid : Boxes \cup {None}, requoteCount : 0..MaxRequotes]

Waiting  == {"mint", "bind"}                       \* on an RPC
Running  == {"read", "reread", "lost", "won", "bound", "failed", "persist",
             "release"}                            \* on a microtask
Ended    == {"new", "done"}

Quiet(p) == up[p] /\ \A c \in Calls :
                       call[c].proc = p => call[c].pc \notin Running

At(c, pc)   == call[c].pc = pc
Goto(c, pc) == [call EXCEPT ![c].pc = pc]
Id(c)       == call[c].read.id
MyRecord(c) == record[call[c].proc][Id(c)]
SetMine(c, s) == [record EXCEPT ![call[c].proc][Id(c)] = s]

Fresh(id) == [id |-> id, status |-> "quoted", scid |-> None,
              requoteCount |-> 0]

-----------------------------------------------------------------------------
(* claimEscrowInvoice up to the claim row.                                 *)

Start(c, p, o) ==
  /\ At(c, "new")
  /\ Quiet(p)
  /\ call' = [call EXCEPT ![c] =
                [pc |-> "read", proc |-> p, order |-> o, read |-> invoice[o],
                 box |-> None, pooled |-> FALSE, reset |-> FALSE]]
  /\ UNCHANGED <<chain, database, up, record, keeper, crashes>>

\* updateInvoice with expectedEscrow: a compare-and-set on id and status.
Matches(o, id, s) == invoice[o].id = id /\ invoice[o].status = s

\* A call with a failed quote before it that it has not yet replaced.
Failed(c) ==
  At(c, "read") /\ call[c].read.status = "deploy_failed" /\ ~call[c].reset

Unreset(c) == Matches(call[c].order, Id(c), "deploy_failed")

\* A new quote takes the place of the failed one, if that still stands.
Requote(c) ==
  /\ invoice' = IF Unreset(c)
                THEN [invoice EXCEPT ![call[c].order] =
                       [Fresh(c) EXCEPT !.requoteCount =
                          call[c].read.requoteCount + 1]]
                ELSE invoice
  /\ record' = IF Unreset(c)
               THEN [record EXCEPT ![call[c].proc][c] = "quoted"]
               ELSE record
  /\ call' = [call EXCEPT ![c].pc = IF Unreset(c) THEN "reread" ELSE "done",
                          ![c].reset = TRUE]

\* An order whose budget is spent is parked.
Park(c) ==
  /\ invoice' = IF Unreset(c)
                THEN [invoice EXCEPT ![call[c].order].status = "cancelled"]
                ELSE invoice
  /\ call' = Goto(c, "done")
  /\ UNCHANGED record

\* Faulty variant: one re-quote too many.
ResetOnceMore(c) ==
  /\ Failed(c)
  /\ IF call[c].read.requoteCount > MaxRequotes THEN Park(c) ELSE Requote(c)
  /\ UNCHANGED <<chain, held, pool, up, keeper, crashes>>

\* resetDeployFailedEscrow past its cooldown.
Reset(c) ==
  /\ Failed(c)
  /\ IF call[c].read.requoteCount >= MaxRequotes THEN Park(c) ELSE Requote(c)
  /\ UNCHANGED <<chain, held, pool, up, keeper, crashes>>

\* The cooldown since the last re-quote has not passed: the call throws.
TooSoon(c) ==
  /\ Failed(c)
  /\ call' = Goto(c, "done")
  /\ UNCHANGED <<chain, database, up, record, keeper, crashes>>

Reread(c) ==
  /\ At(c, "reread")
  /\ call' = [call EXCEPT ![c].pc = "read",
                          ![c].read = invoice[call[c].order]]
  /\ UNCHANGED <<chain, database, up, record, keeper, crashes>>

Claimable(c) ==
  call[c].read.status = "quoted" /\ MyRecord(c) \in {"none", "quoted"}

NotClaimable(c) ==
  /\ At(c, "read")
  /\ ~Claimable(c) /\ ~Failed(c)
  /\ call' = Goto(c, "done")
  /\ UNCHANGED <<chain, database, up, record, keeper, crashes>>

\* The record is imported when this process lacks it, then tryClaim's
\* INSERT OR IGNORE decides.
TryClaim(c) ==
  /\ At(c, "read")
  /\ Claimable(c)
  /\ record' = SetMine(c, "quoted")
  /\ held' = held \cup {Id(c)}
  /\ call' = Goto(c, IF Id(c) \in held THEN "lost" ELSE "won")
  /\ UNCHANGED <<chain, invoice, pool, up, keeper, crashes>>

\* The loser drops its copy of the record and throws.
Lose(c) ==
  /\ At(c, "lost")
  /\ record' = SetMine(c, "none")
  /\ call' = Goto(c, "done")
  /\ UNCHANGED <<chain, database, up, keeper, crashes>>

-----------------------------------------------------------------------------
(* claimEscrow: a box, then its terms.                                     *)

InPool(s) == {b \in Boxes : pool[b] = s}

\* keeper.take, or an inline mint when the pool is empty.
Take(c) ==
  /\ At(c, "won")
  /\ record' = SetMine(c, "deploying")
  /\ \/ \E b \in InPool("confirmed") :
          /\ pool' = [pool EXCEPT ![b] = "claimed"]
          /\ call' = [call EXCEPT ![c].pc = "bind", ![c].box = b,
                                  ![c].pooled = TRUE]
     \/ /\ InPool("confirmed") = {}
        /\ call' = Goto(c, "mint")
        /\ UNCHANGED pool
  /\ UNCHANGED <<chain, invoice, held, up, keeper, crashes>>

\* installSc broadcasts the transaction whose id becomes the SCID.
Install(b) == minted[b] = "none" /\ minted' = [minted EXCEPT ![b] = "sent"]

\* What an RPC did and what its caller learns: an error may hide a success.
Outcome(broadcast, answered) ==
  /\ answered => broadcast
  /\ IF broadcast /\ ~answered
     THEN hidden + crashes < MaxFaults /\ hidden' = hidden + 1
     ELSE UNCHANGED hidden

\* contract.deploy.
MintInline(c) ==
  /\ At(c, "mint")
  /\ Quiet(call[c].proc)
  /\ \E broadcast, answered \in BOOLEAN, b \in Boxes :
       /\ Outcome(broadcast, answered)
       /\ IF broadcast THEN Install(b) ELSE UNCHANGED minted
       /\ call' = IF answered
                  THEN [call EXCEPT ![c].pc = "bind", ![c].box = b]
                  ELSE Goto(c, "failed")
  /\ UNCHANGED <<sent, sure, bound, database, up, record, keeper, crashes>>

\* Faulty variant: a refused Bind is taken for a success.
BindUnchecked(c) ==
  /\ At(c, "bind")
  /\ Quiet(call[c].proc)
  /\ \/ /\ sent' = sent \cup {<<call[c].box, Id(c)>>}
        /\ sure' = sure \cup {<<call[c].box, Id(c)>>}
     \/ UNCHANGED <<sent, sure>>
  /\ call' = Goto(c, "bound")
  /\ record' = SetMine(c, "awaiting_deposit")
  /\ UNCHANGED <<minted, bound, hidden, database, up, keeper, crashes>>

\* contract.bind.
Bind(c) ==
  /\ At(c, "bind")
  /\ Quiet(call[c].proc)
  /\ \E broadcast, answered \in BOOLEAN :
       /\ Outcome(broadcast, answered)
       /\ sent' = IF broadcast THEN sent \cup {<<call[c].box, Id(c)>>}
                  ELSE sent
       /\ sure' = IF answered THEN sure \cup {<<call[c].box, Id(c)>>}
                  ELSE sure
       /\ call' = Goto(c, IF answered THEN "bound" ELSE "failed")
       /\ record' = IF answered THEN SetMine(c, "awaiting_deposit")
                    ELSE record
  /\ UNCHANGED <<minted, bound, database, up, keeper, crashes>>

\* Faulty variants: the pooled box is not given back; the row is released
\* before the failure is stored (what O6 removed).
FailKeepingBox(c) ==
  /\ At(c, "failed")
  /\ record' = SetMine(c, "deploy_failed")
  /\ call' = Goto(c, "persist")
  /\ UNCHANGED <<chain, database, up, keeper, crashes>>

FailReleasingFirst(c) ==
  /\ At(c, "failed")
  /\ record' = SetMine(c, "deploy_failed")
  /\ held' = held \ {Id(c)}
  /\ pool' = IF call[c].pooled
             THEN [pool EXCEPT ![call[c].box] = "minted"] ELSE pool
  /\ call' = Goto(c, "persist")
  /\ UNCHANGED <<chain, invoice, up, keeper, crashes>>

\* The catch of claimEscrow: a pooled box goes back to "minted".
Fail(c) ==
  /\ At(c, "failed")
  /\ record' = SetMine(c, "deploy_failed")
  /\ pool' = IF call[c].pooled
             THEN [pool EXCEPT ![call[c].box] =
                     IF @ = "claimed" THEN "minted" ELSE @]
             ELSE pool
  /\ call' = Goto(c, "persist")
  /\ UNCHANGED <<chain, invoice, held, up, keeper, crashes>>

-----------------------------------------------------------------------------
(* claimEscrowInvoice after claimEscrow: persist, then release the row.    *)

\* Faulty variant: the caller only throws.
ThrowFailure(c) ==
  /\ At(c, "persist")
  /\ call' = Goto(c, "done")
  /\ UNCHANGED <<chain, database, up, record, keeper, crashes>>

\* The failure is written over whatever the invoice says by now.
PersistFailure(c) ==
  /\ At(c, "persist")
  /\ invoice' = [invoice EXCEPT ![call[c].order] =
                   [call[c].read EXCEPT !.status = "deploy_failed"]]
  /\ call' = Goto(c, "release")
  /\ UNCHANGED <<chain, held, pool, up, record, keeper, crashes>>

\* The success is a compare-and-set; when it is lost the row is kept.
PersistSuccess(c) ==
  LET o   == call[c].order
      won == Matches(o, Id(c), "quoted")
  IN  /\ At(c, "bound")
      /\ invoice' = IF won
                    THEN [invoice EXCEPT ![o] =
                           [call[c].read EXCEPT !.status = "awaiting_deposit",
                                                !.scid = call[c].box,
                                                !.requoteCount = 0]]
                    ELSE invoice
      /\ call' = Goto(c, IF won THEN "release" ELSE "done")
      /\ UNCHANGED <<chain, held, pool, up, record, keeper, crashes>>

ReleaseRow(c) ==
  /\ At(c, "release")
  /\ held' = held \ {Id(c)}
  /\ call' = Goto(c, "done")
  /\ UNCHANGED <<chain, invoice, pool, up, record, keeper, crashes>>

Step(c) ==
  \/ Reset(c) \/ TooSoon(c) \/ Reread(c) \/ NotClaimable(c)
  \/ TryClaim(c) \/ Lose(c)
  \/ Take(c) \/ MintInline(c) \/ Bind(c) \/ Fail(c)
  \/ PersistFailure(c) \/ PersistSuccess(c) \/ ReleaseRow(c)

-----------------------------------------------------------------------------
(* The keeper's tick: confirm what was minted, then refill a low pool.     *)

Idle      == [pc |-> "idle", todo |-> {}, good |-> None, left |-> 0]
KeeperOnly == <<chain, invoice, held, up, record, call, crashes>>

ListMinted(p) ==
  /\ Quiet(p)
  /\ keeper[p] = Idle
  /\ keeper' = [keeper EXCEPT ![p] =
                  [Idle EXCEPT !.pc = "confirm", !.todo = InPool("minted")]]
  /\ UNCHANGED <<pool, KeeperOnly>>

PoolReady(b) == minted[b] = "mined" /\ bound[b] = None

\* The daemon answers getState for one listed box.
GetState(p) ==
  /\ up[p]
  /\ keeper[p].pc = "confirm"
  /\ keeper[p].good = None
  /\ \E b \in keeper[p].todo :
       keeper' = [keeper EXCEPT ![p].todo = @ \ {b},
                                ![p].good = IF PoolReady(b) THEN b ELSE None]
  /\ UNCHANGED <<pool, KeeperOnly>>

\* Faulty variant: without "AND state = 'minted'".
PromoteAny(p) ==
  /\ Quiet(p)
  /\ keeper[p].good # None
  /\ pool' = [pool EXCEPT ![keeper[p].good] = "confirmed"]
  /\ keeper' = [keeper EXCEPT ![p].good = None]
  /\ UNCHANGED KeeperOnly

\* Its answer reaches the process: the row is promoted if still "minted".
MarkConfirmed(p) ==
  /\ Quiet(p)
  /\ keeper[p].good # None
  /\ pool' = [pool EXCEPT ![keeper[p].good] =
                IF @ = "minted" THEN "confirmed" ELSE @]
  /\ keeper' = [keeper EXCEPT ![p].good = None]
  /\ UNCHANGED KeeperOnly

Deficit ==
  TargetReady - Cardinality(InPool("confirmed"))
              - Cardinality(InPool("minted"))

CountReady(p) ==
  /\ Quiet(p)
  /\ keeper[p].pc = "confirm"
  /\ keeper[p].todo = {} /\ keeper[p].good = None
  /\ keeper' = [keeper EXCEPT ![p] =
                  IF /\ Cardinality(InPool("confirmed")) < RefillBelow
                     /\ Deficit > 0
                  THEN [Idle EXCEPT !.pc = "refill", !.left = Deficit]
                  ELSE Idle]
  /\ UNCHANGED <<pool, KeeperOnly>>

\* One mint of the refill; a failed one ends the tick.
Refill(p) ==
  /\ Quiet(p)
  /\ keeper[p].pc = "refill"
  /\ \E broadcast, answered \in BOOLEAN, b \in Boxes :
       /\ Outcome(broadcast, answered)
       /\ IF broadcast THEN Install(b) ELSE UNCHANGED minted
       /\ pool' = IF answered THEN [pool EXCEPT ![b] = "minted"] ELSE pool
       /\ keeper' = [keeper EXCEPT ![p] =
                       IF ~answered \/ keeper[p].left = 1 THEN Idle
                       ELSE [keeper[p] EXCEPT !.left = keeper[p].left - 1]]
  /\ UNCHANGED <<sent, sure, bound, invoice, held, up, record, call, crashes>>

Keep(p) ==
  ListMinted(p) \/ GetState(p) \/ MarkConfirmed(p) \/ CountReady(p)
    \/ Refill(p)

-----------------------------------------------------------------------------
(* The chain, and crashes.                                                 *)

MineBox(b) ==
  /\ minted[b] = "sent"
  /\ minted' = [minted EXCEPT ![b] = "mined"]
  /\ UNCHANGED <<sent, sure, bound, hidden, database, memory, crashes>>

\* The first Bind to be mined wins; the contract rejects every other.
MineBind(b, id) ==
  /\ <<b, id>> \in sent
  /\ minted[b] = "mined"
  /\ bound[b] = None
  /\ bound' = [bound EXCEPT ![b] = id]
  /\ UNCHANGED <<minted, sent, sure, hidden, database, memory, crashes>>

\* The process dies; a Bind whose answer it was waiting for may be out.
Crash(p) ==
  /\ up[p]
  /\ hidden + crashes < MaxFaults
  /\ crashes' = crashes + 1
  /\ up' = [up EXCEPT ![p] = FALSE]
  /\ record' = [record EXCEPT ![p] = [id \in Ids |-> "none"]]
  /\ keeper' = [keeper EXCEPT ![p] = Idle]
  /\ call' = [c \in Calls |->
                IF call[c].proc = p /\ call[c].pc # "new"
                THEN [call[c] EXCEPT !.pc = "done"] ELSE call[c]]
  /\ \E out \in SUBSET {c \in Calls : call[c].proc = p /\ At(c, "bind")} :
       /\ sent' = sent \cup {<<call[c].box, Id(c)>> : c \in out}
       /\ sure' = sure \cup {<<call[c].box, Id(c)>> : c \in out}
  /\ UNCHANGED <<minted, bound, hidden, database>>

\* start() and rehydrateEscrows: bound escrows are tracked again, quotes
\* are not, and nothing reads the claim rows.
Restart(p) ==
  /\ ~up[p]
  /\ up' = [up EXCEPT ![p] = TRUE]
  /\ record' = [record EXCEPT ![p] = [id \in Ids |->
                  IF \E o \in Orders : Matches(o, id, "awaiting_deposit")
                  THEN "awaiting_deposit" ELSE "none"]]
  /\ UNCHANGED <<chain, database, keeper, call, crashes>>

\* A freshly quoted invoice per order and an empty inventory.  Cancelled
\* boxes draw on the same re-quote budget and may have spent some of it.  No
\* process holds a record: a quote is imported by the call that claims it.
Init ==
  /\ minted = [b \in Boxes |-> "none"]
  /\ sent = {} /\ sure = {}
  /\ bound = [b \in Boxes |-> None]
  /\ \E n \in 0..MaxRequotes :
       invoice = [o \in Orders |-> [Fresh(o) EXCEPT !.requoteCount = n]]
  /\ held = {}
  /\ pool = [b \in Boxes |-> "absent"]
  /\ up = [p \in Procs |-> TRUE]
  /\ record = [p \in Procs |-> [id \in Ids |-> "none"]]
  /\ keeper = [p \in Procs |-> Idle]
  /\ call = [c \in Calls |->
               [pc |-> "new", proc |-> None, order |-> None,
                read |-> Fresh(c), box |-> None, pooled |-> FALSE,
                reset |-> FALSE]]
  /\ hidden = 0 /\ crashes = 0

Confirm(b) == MineBox(b) \/ \E id \in Ids : MineBind(b, id)

Next ==
  \/ \E c \in Calls : Step(c) \/ \E p \in Procs, o \in Orders : Start(c, p, o)
  \/ \E p \in Procs : Keep(p) \/ Crash(p) \/ Restart(p)
  \/ \E b \in Boxes : Confirm(b)

Spec == Init /\ [][Next]_vars

-----------------------------------------------------------------------------
(* Properties.                                                             *)

\* Every variable keeps its type; only a mined box carries terms, and they
\* are those of a Bind that was broadcast.
TypeOK ==
  /\ minted \in [Boxes -> {"none", "sent", "mined"}]
  /\ sent \subseteq Boxes \X Ids /\ sure \subseteq sent
  /\ bound \in [Boxes -> Ids \cup {None}]
  /\ invoice \in [Orders -> Blobs]
  /\ held \subseteq Ids
  /\ pool \in [Boxes -> {"absent", "minted", "confirmed", "claimed"}]
  /\ up \in [Procs -> BOOLEAN]
  /\ record \in [Procs -> [Ids -> {"none", "quoted", "deploying",
                                   "awaiting_deposit", "deploy_failed"}]]
  /\ keeper \in [Procs -> [pc : {"idle", "confirm", "refill"},
                           todo : SUBSET Boxes, good : Boxes \cup {None},
                           left : 0..TargetReady]]
  /\ call \in [Calls -> [pc : Waiting \cup Running \cup Ended,
                         proc : Procs \cup {None},
                         order : Orders \cup {None}, read : Blobs,
                         box : Boxes \cup {None},
                         pooled : BOOLEAN, reset : BOOLEAN]]
  /\ hidden \in Nat /\ crashes \in Nat /\ hidden + crashes <= MaxFaults
  /\ \A b \in Boxes : bound[b] # None =>
       minted[b] = "mined" /\ <<b, bound[b]>> \in sent

\* inventory-store.ts:36-42 and manager.ts:461-466: a box is handed to one
\* checkout at a time and never again once claimEscrow knows its Bind is out,
\* or has died without knowing.  A box is asked to carry the terms of two
\* orders only where an error hid a broadcast, and all but one of its Binds
\* are such errors, whatever refusals, retries and crashes there were.
BoxServesOneOrder ==
  \A b \in Boxes, i, j \in Ids :
    <<b, i>> \in sure /\ <<b, j>> \in sure => i = j

\* invoice-engine.ts:1028-1034 and 1097-1103 (O6, O7): the claim row and the
\* invoice's status cover for each other.  "There is never a window where
\* the row is free while the invoice still reads quoted" once a claim of
\* that quote has taken a box or sent its terms.
GateNeverOpen ==
  \A o \in Orders :
    invoice[o].status = "quoted" /\ invoice[o].id \notin held
      => /\ \A b \in Boxes : <<b, invoice[o].id>> \notin sent
         /\ \A c \in Calls : Id(c) = invoice[o].id /\ call[c].box # None
              => At(c, "done")

\* inventory-store.ts:36-42: a failed bind does not strand its box.  Barring
\* a crash, a box marked claimed is in the hands of a running call, or its
\* terms are on their way to the chain.
NoBoxLeaks ==
  crashes = 0 =>
    \A b \in InPool("claimed") :
      \/ \E c \in Calls : call[c].box = b /\ call[c].pc \notin Ended
      \/ \E id \in Ids : <<b, id>> \in sent

\* The box an invoice shows to its buyer was sent that order's own terms, by
\* a Bind that did not fail, and is out of the pool for good.  It carries, or
\* will carry, those terms, unless a Bind whose error hid its broadcast was
\* mined between the keeper's look at the box and this order's Bind.
ShownBoxIsOwn ==
  \A o \in Orders : invoice[o].status = "awaiting_deposit" =>
    LET b == invoice[o].scid IN
      /\ <<b, invoice[o].id>> \in sure
      /\ \/ bound[b] \in {None, invoice[o].id}
         \/ <<b, bound[b]>> \in sent \ sure
      /\ pool[b] \notin {"minted", "confirmed"}

\* Barring a crash, the row of a quoted order is in the hands of a call that
\* is still going to release it or to move the order on: no claim, won or
\* lost, refused by the chain or not, leaves an order that nobody can claim.
HeldRowIsInHand ==
  crashes = 0 =>
    \A o \in Orders :
      invoice[o].status = "quoted" /\ invoice[o].id \in held =>
        \E c \in Calls : /\ Id(c) = invoice[o].id
                         /\ call[c].pc \in {"won", "mint", "bind", "bound",
                                            "failed", "persist"}

\* invoice-engine.ts:1066-1074 (O10): a stored binding is not rolled back by
\* the whole-blob write of a claim that read the invoice before it.
BindingsStick ==
  [][\A o \in Orders : invoice[o].status = "awaiting_deposit" =>
       invoice'[o] = invoice[o]]_vars
=============================================================================
