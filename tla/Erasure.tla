------------------------------ MODULE Erasure ------------------------------
(***************************************************************************)
(* Erasure of one memory, of a memory with what was derived from it, and   *)
(* of a whole scope, with the durable receipts that let an interrupted     *)
(* erasure deliver its Decision to the ledger.                             *)
(*                                                                         *)
(* Destruction, its accounting and its receipt commit in one transaction;  *)
(* the Decision is appended afterwards, in a different store.  A crash may *)
(* fall between any two steps, and a caller may then ask again.  The scope *)
(* lease is not assumed to exclude anybody: it lapses after its TTL while  *)
(* a long drain is still running, so runs may overlap at every step.       *)
(***************************************************************************)
EXTENDS MemoryStore

CONSTANTS
    Erasers,        \* concurrent erasure requests
    Requested,      \* the memories that callers ask to erase one by one
    ScopeOps,       \* fresh ids of scope erasures
    WholeScope,     \* the target '' of a scope receipt
    ErasureBatch,   \* rows of one drained batch
    MaxCrashes      \* bound on eraser crashes

ASSUME RequestedType == Requested \subseteq Ids
ASSUME NoneIsNoOperation == None \notin ScopeOps
ASSUME OpsAreNoIds == ScopeOps \cap Ids = {}
ASSUME WholeScopeIsNoId == WholeScope \notin Ids
ASSUME ErasureBatchType == ErasureBatch \in Nat \ {0}

VARIABLES
    receipt,        \* erasure_receipt, by target
    journal,        \* erasure_journal, summed by operation
    ledger,         \* the erasure Decisions in the chain
    eraser,         \* what each request has in flight
    usedOps,        \* scope operation ids minted so far
    crashes

erasureVars == <<receipt, journal, ledger, eraser, usedOps, crashes>>

Targets == Ids \cup {WholeScope}

\* The Decision id of a memory erasure is derived from the memory; a scope
\* erasure mints one per operation.
Operations == Ids \cup ScopeOps

Totals == [memories : Nat, keys : Nat, marked : Nat]
NoTotals == [memories |-> 0, keys |-> 0, marked |-> 0]

Receipt == [op : Operations \cup {None}, ready : BOOLEAN, delivered : BOOLEAN]
NoReceipt == [op |-> None, ready |-> FALSE, delivered |-> FALSE]
NewReceipt(o, ready) == [op |-> o, ready |-> ready, delivered |-> FALSE]

EraserState == {"idle", "prepared", "starting", "resuming", "draining",
                "batch", "drained", "totalling", "delivering", "marking"}

\* `at` is the time the caller passed with its request.
Eraser == [pc : EraserState, target : Targets \cup {None}, at : Nat,
           shells : SUBSET Ids, read : Receipt, totals : Totals]

IdleEraser == [pc |-> "idle", target |-> None, at |-> 0, shells |-> {},
               read |-> NoReceipt, totals |-> NoTotals]

ErasureInit ==
    /\ receipt = [t \in Targets |-> NoReceipt]
    /\ journal = [o \in Operations |-> NoTotals]
    /\ ledger = {}
    /\ eraser = [e \in Erasers |-> IdleEraser]
    /\ usedOps = {}
    /\ crashes = 0

\* A delivery starts from the receipt as it is read now.
Delivering(t) ==
    [IdleEraser EXCEPT !.pc = "totalling", !.target = t, !.read = receipt[t]]

-----------------------------------------------------------------------------
(* One memory.                                                             *)

\* Eraser::erase finds no receipt and prepare_erase reads the shells: the
\* memory and, cascading, the live rows derived from it.
ErasePrepare(e, i, cascade) ==
    /\ eraser[e].pc = "idle"
    /\ receipt[i] = NoReceipt
    /\ IsLive(db, i)
    /\ eraser' = [eraser EXCEPT ![e] = [IdleEraser EXCEPT
          !.pc = "prepared", !.target = i, !.at = clock,
          !.shells = {i} \cup
             (IF cascade THEN {j \in DerivedOf(db, i) : IsLive(db, j)} ELSE {})]]
    /\ UNCHANGED <<storeVars, receipt, journal, ledger, usedOps, crashes>>

\* Eraser::erase on a memory whose receipt is already durable.
EraseRedeliver(e, i) ==
    /\ eraser[e].pc = "idle"
    /\ receipt[i] # NoReceipt
    /\ eraser' = [eraser EXCEPT ![e] = Delivering(i)]
    /\ UNCHANGED <<storeVars, receipt, journal, ledger, usedOps, crashes>>

\* receipt_insert aborts on a second receipt and on a target that is no
\* longer live.
EraseGuard(i) == receipt[i] = NoReceipt /\ IsLive(db, i)

\* The statements of prepare_erase, in their order.
DestroyRows(d, shells, at) == Tombstones(DestroyKeys(Sweep(d, shells), shells), shells, at)
EraseRows(d, i, shells, at) == MarkDerived(DestroyRows(d, shells, at), i)

\* Mutant: the journal counts the memory that was asked for, not its cascade.
DestroyedOne(d, shells) == IF \E i \in shells : IsLive(d, i) THEN 1 ELSE 0

Destroyed(d, shells) == Cardinality({i \in shells : IsLive(d, i)})
KeysOf(d, shells) == Cardinality({k \in d.key : k[2] \in shells})

\* The rows MARK_DERIVED_SQL changes, which the journal counts.
NewlyMarked(d, i) ==
    Cardinality({j \in DerivedOf(d, i) : IsLive(d, j) /\ ~d.row[j].origin_erased})

EraseCommit(e) ==
    LET i == eraser[e].target
        shells == eraser[e].shells
        at == eraser[e].at
        swept == DestroyRows(db, shells, at)
    IN
    /\ eraser[e].pc = "prepared"
    /\ EraseGuard(i)
    /\ db' = EraseRows(db, i, shells, at)
    /\ receipt' = [receipt EXCEPT ![i] = NewReceipt(i, TRUE)]
    /\ journal' = [journal EXCEPT ![i] =
                      [memories |-> @.memories + Destroyed(db, shells),
                       keys |-> @.keys + KeysOf(db, shells),
                       marked |-> @.marked + NewlyMarked(swept, i)]]
    /\ eraser' = [eraser EXCEPT ![e] =
                     [IdleEraser EXCEPT !.pc = "drained", !.target = i]]
    /\ UNCHANGED <<replica, clock, ledger, usedOps, crashes>>

\* The transaction aborted.  Only a receipt that a racing request made
\* durable turns that failure into a delivery.
EraseAbort(e) ==
    LET i == eraser[e].target IN
    /\ eraser[e].pc = "prepared"
    /\ ~EraseGuard(i)
    /\ eraser' = [eraser EXCEPT ![e] =
                     IF receipt[i] = NoReceipt THEN IdleEraser ELSE Delivering(i)]
    /\ UNCHANGED <<storeVars, receipt, journal, ledger, usedOps, crashes>>

-----------------------------------------------------------------------------
(* A whole scope.                                                          *)

LiveRows == {i \in Ids : IsLive(db, i)}

\* Mutant: new content starts a new operation over a pending one.
ScopeStartsOverPending ==
    receipt[WholeScope] = NoReceipt \/ LiveRows # {} \/ db.key # {}

\* scope_under_lease: a completed operation is replayed unless new content
\* or keys arrived; a pending delivery wins over starting another.
ScopeNeedsStart ==
    LET previous == receipt[WholeScope] IN
    previous = NoReceipt \/ (previous.delivered /\ (LiveRows # {} \/ db.key # {}))

\* Bound: every run that is about to start finds an operation id to mint.
OpsRemain ==
    Cardinality({e \in Erasers : eraser[e].pc = "starting"})
        < Cardinality(ScopeOps \ usedOps)

ScopeBegin(e) ==
    /\ eraser[e].pc = "idle"
    /\ ScopeNeedsStart => OpsRemain
    /\ eraser' = [eraser EXCEPT ![e] = [IdleEraser EXCEPT
          !.target = WholeScope, !.at = clock,
          !.pc = IF ScopeNeedsStart THEN "starting" ELSE "resuming"]]
    /\ UNCHANGED <<storeVars, receipt, journal, ledger, usedOps, crashes>>

\* Mutant: the start transaction replaces an undelivered receipt as well.
ScopeStartReplaces(e) ==
    /\ eraser[e].pc = "starting"
    /\ \E o \in ScopeOps \ usedOps :
          /\ receipt' = [receipt EXCEPT ![WholeScope] = NewReceipt(o, FALSE)]
          /\ usedOps' = usedOps \cup {o}
    /\ eraser' = [eraser EXCEPT ![e].pc = "resuming"]
    /\ UNCHANGED <<storeVars, journal, ledger, crashes>>

\* The start transaction replaces a delivered receipt by a fresh one.
ScopeStart(e) ==
    /\ eraser[e].pc = "starting"
    /\ receipt[WholeScope] = NoReceipt \/ receipt[WholeScope].delivered
    /\ \E o \in ScopeOps \ usedOps :
          /\ receipt' = [receipt EXCEPT ![WholeScope] = NewReceipt(o, FALSE)]
          /\ usedOps' = usedOps \cup {o}
    /\ eraser' = [eraser EXCEPT ![e].pc = "resuming"]
    /\ UNCHANGED <<storeVars, journal, ledger, crashes>>

\* An undelivered receipt stays, so the insert collides and the run fails.
ScopeStartAbort(e) ==
    /\ eraser[e].pc = "starting"
    /\ receipt[WholeScope] # NoReceipt /\ ~receipt[WholeScope].delivered
    /\ eraser' = [eraser EXCEPT ![e] = IdleEraser]
    /\ UNCHANGED <<storeVars, receipt, journal, ledger, usedOps, crashes>>

\* required_receipt: a receipt that is not ready is drained first.
ScopeResume(e) ==
    /\ eraser[e].pc = "resuming"
    /\ eraser' = [eraser EXCEPT ![e] =
          IF receipt[WholeScope].ready THEN Delivering(WholeScope)
          ELSE [@ EXCEPT !.pc = "draining", !.read = receipt[WholeScope]]]
    /\ UNCHANGED <<storeVars, receipt, journal, ledger, usedOps, crashes>>

\* BATCH_SQL: the first live rows in id order, whatever that order is.
ScopeRead(e) ==
    /\ eraser[e].pc = "draining"
    /\ \E b \in SUBSET LiveRows :
          /\ Cardinality(b) = IF Cardinality(LiveRows) < ErasureBatch
                              THEN Cardinality(LiveRows) ELSE ErasureBatch
          /\ eraser' = [eraser EXCEPT ![e].pc = "batch", ![e].shells = b]
    /\ UNCHANGED <<storeVars, receipt, journal, ledger, usedOps, crashes>>

\* Mutant: a batch compares only the readiness.
BatchIgnoresOperation(e) == ~receipt[WholeScope].ready

\* The first statement of a batch compares the operation and its readiness.
BatchGuard(e) ==
    /\ receipt[WholeScope].op = eraser[e].read.op
    /\ ~receipt[WholeScope].ready

BatchRows(d, shells, at) == Tombstones(DestroyScopeKeys(Sweep(d, shells)), shells, at)

\* The last statement rechecks, inside the transaction, what is left.
Emptied(d) == d.key = {} /\ \A i \in Ids : ~IsLive(d, i)

ScopeBatch(e) ==
    LET o == eraser[e].read.op
        shells == eraser[e].shells
    IN
    /\ eraser[e].pc = "batch"
    /\ BatchGuard(e)
    /\ db' = BatchRows(db, shells, eraser[e].at)
    /\ receipt' = [receipt EXCEPT ![WholeScope].ready = Emptied(db')]
    /\ journal' = [journal EXCEPT
          ![o].memories = @ + Destroyed(db, shells),
          ![o].keys = @ + Cardinality(db.key)]
    /\ eraser' = [eraser EXCEPT
          ![e].pc = IF Emptied(db') THEN "drained" ELSE "draining",
          ![e].shells = {}]
    /\ UNCHANGED <<replica, clock, ledger, usedOps, crashes>>

\* Another run finished or replaced the operation: the batch aborts.
ScopeBatchAbort(e) ==
    /\ eraser[e].pc = "batch"
    /\ ~BatchGuard(e)
    /\ eraser' = [eraser EXCEPT ![e] = IdleEraser]
    /\ UNCHANGED <<storeVars, receipt, journal, ledger, usedOps, crashes>>

-----------------------------------------------------------------------------
(* Delivery.                                                               *)

\* required_receipt after the destructive commit.  A receipt that is not
\* ready (another run replaced it) is a Conflict.
ReadReceipt(e) ==
    LET t == eraser[e].target IN
    /\ eraser[e].pc = "drained"
    /\ eraser' = [eraser EXCEPT ![e] =
                     IF receipt[t].ready THEN Delivering(t) ELSE IdleEraser]
    /\ UNCHANGED <<storeVars, receipt, journal, ledger, usedOps, crashes>>

\* The journal is read after the receipt, in a read of its own.
ReadTotals(e) ==
    /\ eraser[e].pc = "totalling"
    /\ eraser' = [eraser EXCEPT ![e].pc = "delivering",
                                ![e].totals = journal[eraser[e].read.op]]
    /\ UNCHANGED <<storeVars, receipt, journal, ledger, usedOps, crashes>>

DecisionOf(x) == [op |-> x.read.op, totals |-> x.totals]

\* decision_resident: the chain already holds this Decision id.
Resident(o) == \E d \in ledger : d.op = o

\* Mutant: a resident Decision is a conflict even when it is the same one.
DeliverConflictAlways(x) == Resident(x.read.op)

\* An id that is resident with other content is an Integrity error.
DeliverConflict(x) == Resident(x.read.op) /\ DecisionOf(x) \notin ledger

\* deliver: append unless the receipt says delivered or the chain holds it.
\* The chain refuses a second Decision with the same id.
Deliver(e) ==
    LET x == eraser[e] IN
    /\ x.pc = "delivering"
    /\ IF x.read.delivered
       THEN /\ eraser' = [eraser EXCEPT ![e].pc = "marking"]
            /\ UNCHANGED ledger
       ELSE IF DeliverConflict(x)
       THEN /\ eraser' = [eraser EXCEPT ![e] = IdleEraser]
            /\ UNCHANGED ledger
       ELSE /\ eraser' = [eraser EXCEPT ![e].pc = "marking"]
            /\ ledger' = ledger \cup {DecisionOf(x)}
    /\ UNCHANGED <<storeVars, receipt, journal, usedOps, crashes>>

\* The receipt of that very operation is marked delivered.
MarkDelivered(e) ==
    LET x == eraser[e] IN
    /\ x.pc = "marking"
    /\ receipt' = IF receipt[x.target].op = x.read.op
                  THEN [receipt EXCEPT ![x.target].delivered = TRUE] ELSE receipt
    /\ eraser' = [eraser EXCEPT ![e] = IdleEraser]
    /\ UNCHANGED <<storeVars, journal, ledger, usedOps, crashes>>

\* The process dies, or a call of the store or of the ledger fails.
EraserCrash(e) ==
    /\ eraser[e].pc # "idle"
    /\ crashes < MaxCrashes
    /\ crashes' = crashes + 1
    /\ eraser' = [eraser EXCEPT ![e] = IdleEraser]
    /\ UNCHANGED <<storeVars, receipt, journal, ledger, usedOps>>

\* The steps of a request that is under way.
EraserProgress(e) ==
    \/ EraseCommit(e)
    \/ EraseAbort(e)
    \/ ScopeStart(e)
    \/ ScopeStartAbort(e)
    \/ ScopeResume(e)
    \/ ScopeRead(e)
    \/ ScopeBatch(e)
    \/ ScopeBatchAbort(e)
    \/ ReadReceipt(e)
    \/ ReadTotals(e)
    \/ Deliver(e)
    \/ MarkDelivered(e)

EraserStep(e) ==
    \/ \E i \in Requested, cascade \in BOOLEAN : ErasePrepare(e, i, cascade)
    \/ \E i \in Requested : EraseRedeliver(e, i)
    \/ ScopeBegin(e)
    \/ EraserProgress(e)
    \/ EraserCrash(e)

ErasureNext == \E e \in Erasers : EraserStep(e)

=============================================================================
