----------------------------- MODULE Lifecycle -----------------------------
(***************************************************************************)
(* Captures, supersessions, corrections and expiry over MemoryStore.       *)
(*                                                                         *)
(* A client reads the leader and its local replica, stages statements, and *)
(* commits them later: any other transaction may commit between the reads  *)
(* and the commit.  Only the commit changes the tables.  A capture goes    *)
(* through the API's `commit`: a quarantined or refused candidate stages   *)
(* its digest key in the same transaction and appends its Decision to the  *)
(* ledger afterwards.                                                      *)
(***************************************************************************)
EXTENDS MemoryStore

CONSTANTS
    VerdictOf,      \* the gate's verdict on each candidate
    Clients,        \* concurrent writers
    Passes,         \* concurrent expiry passes
    Deadlines,      \* the times a caller may set as valid_until
    ExpiryBatch,    \* rows one expiry pass claims, 1..MAX_EXPIRY_BATCH
    MaxTime,        \* bound on the clock
    MaxRevision     \* bound on embedding model activations

Verdicts == {"admit", "quarantine", "refuse"}

ASSUME VerdictOfType == VerdictOf \in [Ids -> Verdicts]
ASSUME DeadlinesType == Deadlines \subseteq Nat
ASSUME ExpiryBatchType == ExpiryBatch \in Nat \ {0}
ASSUME NoneIsNoPass == None \notin Passes

VARIABLES
    op,             \* what each client has in flight
    pass,           \* what each expiry pass has in flight
    lease,          \* the pass that was granted the lifecycle lease last
    refused,        \* candidates whose refusal committed
    gateLedger      \* gate Decisions in the chain, by candidate

lifecycleVars == <<op, pass, lease, refused, gateLedger>>

OpState == {"idle", "observed", "staged", "superseding", "appending"}

Op == [pc : OpState, cand : Ids \cup {None}, old : Ids \cup {None},
       holder : Ids \cup {None}, model : Nat, at : Nat,
       expected : Record, oldExpected : Record]

IdleOp == [pc |-> "idle", cand |-> None, old |-> None, holder |-> None,
           model |-> 0, at |-> 0, expected |-> NoRecord,
           oldExpected |-> NoRecord]

PassState == {"idle", "read", "leased"}

Pass == [pc : PassState, due : SUBSET Ids, now : Nat]

IdlePass == [pc |-> "idle", due |-> {}, now |-> 0]

LifecycleInit ==
    /\ op = [c \in Clients |-> IdleOp]
    /\ pass = [p \in Passes |-> IdlePass]
    /\ lease = None
    /\ refused = {}
    /\ gateLedger = {}

-----------------------------------------------------------------------------
(* Capture and correction.                                                 *)

\* The row a capture settles on: the holder it merges into, or its own.
Captured(o) == IF o.holder = None THEN o.cand ELSE o.holder

\* The status a verdict stores a row with.
StoredStatus(i) == IF VerdictOf[i] = "quarantine" THEN "quarantined" ELSE "active"

\* A candidate id that no committed or running capture carries.
Unspent(i) ==
    /\ i \notin db.outbox
    /\ \A c \in Clients : op[c].cand # i

\* Lifecycle::correct refuses a correction that is not one or that does not
\* name what it corrects.
MayCorrect(i, old) == KindOf[i] = "correction" /\ old \in ParentsOf[i]

\* Lifecycle::capture up to its two leader reads: the active model and the
\* holder of the fingerprint.  `old` is the corrected memory, or None.
CaptureObserve(c, i, old) ==
    /\ op[c].pc = "idle"
    /\ VerdictOf[i] # "refuse"
    /\ Unspent(i)
    /\ old # None => MayCorrect(i, old)
    /\ \E h \in IF Holders(db, i) = {} THEN {None} ELSE Holders(db, i) :
          op' = [op EXCEPT ![c] = [IdleOp EXCEPT
                    !.pc = "observed", !.cand = i, !.old = old, !.holder = h,
                    !.model = db.model, !.at = clock]]
    /\ UNCHANGED <<db, replica, clock, pass, lease, refused, gateLedger>>

\* MemoryRepo::get on the local replica finds a document that is not a
\* tombstone; otherwise the caller sees an Integrity or a Conflict error.
ReadsLive(i) == replica[i].record.status \notin {"absent", "erased"}

\* Lifecycle::supersede before it stages: the walk on the leader, then the
\* document of `old` on the replica.
MaySupersede(old, new) ==
    /\ old # new
    /\ ~Reaches(db, new, old)
    /\ ReadsLive(old)

StageAccepted(o) ==
    /\ o.holder # None => ReadsLive(o.holder)
    /\ o.old # None => MaySupersede(o.old, Captured(o))

\* The rest of Lifecycle::capture (and of ::correct): the replica reads and
\* the staging of the statements.
CaptureStage(c) ==
    LET o == op[c] IN
    /\ o.pc = "observed"
    /\ StageAccepted(o)
    /\ op' = [op EXCEPT ![c] = [o EXCEPT
                 !.pc = "staged",
                 !.expected = IF o.holder = None THEN NoRecord
                                                 ELSE replica[o.holder].record,
                 !.oldExpected = IF o.old = None THEN NoRecord
                                                 ELSE replica[o.old].record]]
    /\ UNCHANGED <<db, replica, clock, pass, lease, refused, gateLedger>>

\* The same, refused: nothing was staged.
CaptureRefused(c) ==
    /\ op[c].pc = "observed"
    /\ ~StageAccepted(op[c])
    /\ op' = [op EXCEPT ![c] = IdleOp]
    /\ UNCHANGED <<db, replica, clock, pass, lease, refused, gateLedger>>

\* The capture half of the staged transaction.
CaptureGuard(o) ==
    /\ EmbeddingGuard(db, o.model)
    /\ IF o.holder = None THEN InsertGuard(db, o.cand)
                          ELSE MergeGuard(db, o.holder, o.expected)
CaptureRows(o) ==
    IF o.holder = None
    THEN Insert(db, o.cand, StoredStatus(o.cand), o.model, o.at)
    ELSE Merge(db, o.holder, o.expected, o.model, o.at, o.cand)

\* The supersession half, present for a correction only; it runs after the
\* capture half, inside the same transaction.
CorrectGuard(o) ==
    o.old # None => SupersedeGuard(CaptureRows(o), o.old, Captured(o), o.oldExpected)

\* Mutant: the old row is superseded by the candidate, merged or not.
CorrectByCandidate(o) ==
    IF o.old = None THEN CaptureRows(o)
    ELSE Supersede(CaptureRows(o), o.old, o.cand, o.oldExpected, o.at)

CorrectRows(o) ==
    IF o.old = None THEN CaptureRows(o)
    ELSE Supersede(CaptureRows(o), o.old, Captured(o), o.oldExpected, o.at)

\* DecisionKeyRepo::stage for a quarantined candidate.
StageKey(d, o) ==
    IF VerdictOf[o.cand] = "quarantine"
    THEN [d EXCEPT !.key = @ \cup {<<o.cand, Captured(o)>>}] ELSE d

\* The transaction of one capture commits whole.
CaptureCommit(c) ==
    /\ op[c].pc = "staged"
    /\ CaptureGuard(op[c]) /\ CorrectGuard(op[c])
    /\ db' = StageKey(CorrectRows(op[c]), op[c])
    /\ op' = [op EXCEPT ![c] =
                 IF VerdictOf[op[c].cand] = "quarantine"
                 THEN [IdleOp EXCEPT !.pc = "appending", !.cand = op[c].cand]
                 ELSE IdleOp]
    /\ UNCHANGED <<replica, clock, pass, lease, refused, gateLedger>>

\* A comparison failed at commit: the transaction aborts whole.
CaptureAbort(c) ==
    /\ op[c].pc = "staged"
    /\ ~(CaptureGuard(op[c]) /\ CorrectGuard(op[c]))
    /\ op' = [op EXCEPT ![c] = IdleOp]
    /\ UNCHANGED <<db, replica, clock, pass, lease, refused, gateLedger>>

\* A refused candidate stores no row; its key is reachable by scope only.
Refuse(c, i) ==
    /\ op[c].pc = "idle"
    /\ VerdictOf[i] = "refuse"
    /\ i \notin refused
    /\ db' = [db EXCEPT !.key = @ \cup {<<i, None>>}]
    /\ refused' = refused \cup {i}
    /\ op' = [op EXCEPT ![c] = [IdleOp EXCEPT !.pc = "appending", !.cand = i]]
    /\ UNCHANGED <<replica, clock, pass, lease, gateLedger>>

\* The gate Decision is appended after the transaction committed.
AppendDecision(c) ==
    /\ op[c].pc = "appending"
    /\ gateLedger' = gateLedger \cup {op[c].cand}
    /\ op' = [op EXCEPT ![c] = IdleOp]
    /\ UNCHANGED <<db, replica, clock, pass, lease, refused>>

\* The client stops anywhere: what it staged is lost, what it committed stays.
ClientCrash(c) ==
    /\ op[c].pc # "idle"
    /\ op' = [op EXCEPT ![c] = IdleOp]
    /\ UNCHANGED <<db, replica, clock, pass, lease, refused, gateLedger>>

-----------------------------------------------------------------------------
(* Supersession of one stored memory by another.                           *)

SupersedeStage(c, old, new) ==
    /\ op[c].pc = "idle"
    /\ Present(db, new)
    /\ MaySupersede(old, new)
    /\ op' = [op EXCEPT ![c] = [IdleOp EXCEPT
                 !.pc = "superseding", !.old = old, !.holder = new,
                 !.oldExpected = replica[old].record, !.at = clock]]
    /\ UNCHANGED <<db, replica, clock, pass, lease, refused, gateLedger>>

SupersedeCommit(c) ==
    LET o == op[c] IN
    /\ o.pc = "superseding"
    /\ SupersedeGuard(db, o.old, o.holder, o.oldExpected)
    /\ db' = Supersede(db, o.old, o.holder, o.oldExpected, o.at)
    /\ op' = [op EXCEPT ![c] = IdleOp]
    /\ UNCHANGED <<replica, clock, pass, lease, refused, gateLedger>>

SupersedeAbort(c) ==
    LET o == op[c] IN
    /\ o.pc = "superseding"
    /\ ~SupersedeGuard(db, o.old, o.holder, o.oldExpected)
    /\ op' = [op EXCEPT ![c] = IdleOp]
    /\ UNCHANGED <<db, replica, clock, pass, lease, refused, gateLedger>>

-----------------------------------------------------------------------------
(* Deadlines and expiry.                                                   *)

SetValidUntil(i, until) ==
    /\ Present(db, i)
    /\ db' = SetDeadline(db, i, until)
    /\ UNCHANGED <<replica, clock, lifecycleVars>>

\* The first rows of DUE_SQL's order: earliest deadline first.
Batches(d, now) ==
    LET due == Due(d, now)
        n == IF Cardinality(due) < ExpiryBatch THEN Cardinality(due) ELSE ExpiryBatch
    IN {b \in SUBSET due :
          /\ Cardinality(b) = n
          /\ \A i \in b, j \in due \ b :
                d.row[i].valid_until <= d.row[j].valid_until}

\* expire_due reads what is due (and materialises the counter rows at zero)
\* before it takes the lease.
ExpireRead(p) ==
    /\ pass[p].pc = "idle"
    /\ Due(db, clock) # {}
    /\ \E b \in Batches(db, clock) :
          pass' = [pass EXCEPT ![p] = [pc |-> "read", due |-> b, now |-> clock]]
    /\ UNCHANGED <<storeVars, op, lease, refused, gateLedger>>

\* The lease is granted when it is free or when its holder's TTL ran out.
ExpireLease(p) ==
    /\ pass[p].pc = "read"
    /\ lease' = p
    /\ pass' = [pass EXCEPT ![p].pc = "leased"]
    /\ UNCHANGED <<storeVars, op, refused, gateLedger>>

\* fenced_txn: the batch commits only for the newest lease holder.
ExpireCommit(p) ==
    /\ pass[p].pc = "leased"
    /\ lease = p
    /\ db' = Expire(db, pass[p].due, pass[p].now)
    /\ lease' = None
    /\ pass' = [pass EXCEPT ![p] = IdlePass]
    /\ UNCHANGED <<replica, clock, op, refused, gateLedger>>

\* A superseded holder's batch is fenced out: it changes no row.
ExpireFenced(p) ==
    /\ pass[p].pc = "leased"
    /\ lease # p
    /\ pass' = [pass EXCEPT ![p] = IdlePass]
    /\ UNCHANGED <<storeVars, op, lease, refused, gateLedger>>

PassCrash(p) ==
    /\ pass[p].pc # "idle"
    /\ pass' = [pass EXCEPT ![p] = IdlePass]
    /\ UNCHANGED <<storeVars, op, lease, refused, gateLedger>>

-----------------------------------------------------------------------------
(* The environment of a scope: time, and model activations.                *)

Tick ==
    /\ clock < MaxTime
    /\ clock' = clock + 1
    /\ UNCHANGED <<db, replica, lifecycleVars>>

\* activate_provider commits the next revision.
Activate ==
    /\ db.model < MaxRevision
    /\ db' = [db EXCEPT !.model = @ + 1]
    /\ UNCHANGED <<replica, clock, lifecycleVars>>

ClientStep(c) ==
    \/ \E i \in Ids, old \in Ids \cup {None} : CaptureObserve(c, i, old)
    \/ CaptureStage(c)
    \/ CaptureRefused(c)
    \/ CaptureCommit(c)
    \/ CaptureAbort(c)
    \/ \E i \in Ids : Refuse(c, i)
    \/ AppendDecision(c)
    \/ \E old, new \in Ids : SupersedeStage(c, old, new)
    \/ SupersedeCommit(c)
    \/ SupersedeAbort(c)
    \/ ClientCrash(c)

PassStep(p) ==
    \/ ExpireRead(p)
    \/ ExpireLease(p)
    \/ ExpireCommit(p)
    \/ ExpireFenced(p)
    \/ PassCrash(p)

LifecycleNext ==
    \/ \E c \in Clients : ClientStep(c)
    \/ \E p \in Passes : PassStep(p)
    \/ \E i \in Ids, until \in Deadlines \cup {None} : SetValidUntil(i, until)
    \/ Tick
    \/ Activate
    \/ Replicate /\ UNCHANGED lifecycleVars

=============================================================================
