---------------------------- MODULE CortexProofs ----------------------------
(***************************************************************************)
(* The tables of a scope keep their promises for every set of ids, clients,*)
(* passes and erasers: the inductive invariant of Cortex and what follows  *)
(* from it.                                                                *)
(***************************************************************************)
EXTENDS Cortex, MemoryStoreProofs

\* What a client carries between its reads and its commit.
OpSound(o) ==
    /\ o.pc \in {"observed", "staged", "appending"} => o.cand \in Ids
    /\ o.pc = "superseding" => /\ o.old \in Ids /\ o.holder \in Ids
                               /\ o.oldExpected.status # "absent"
    /\ o.pc = "staged" => /\ o.holder # None => o.expected.status # "absent"
                          /\ o.old # None => o.oldExpected.status # "absent"

\* What an erasure request carries between its steps.
EraserSound(x) ==
    /\ x.pc = "prepared" => x.target \in Ids
    /\ x.pc \in {"starting", "resuming", "draining", "batch"} => x.target = WholeScope
    /\ x.pc \in {"drained", "totalling", "delivering", "marking"} => x.target \in Targets
    /\ x.pc \in {"draining", "batch", "totalling", "delivering", "marking"}
          => x.read.op \in Operations

\* A receipt names its operation, and a run that resumes finds one.
ReceiptsSound ==
    /\ \A t \in Targets : receipt[t].op = None => receipt[t] = NoReceipt
    /\ \A e \in Erasers : eraser[e].pc = "resuming" => receipt[WholeScope].op # None

\* The inductive invariant, by the module whose variables it constrains.
StoreInv ==
    /\ Consistent(db)
    /\ replica \in [Ids -> Row]
    /\ clock \in Nat

LifecycleInv ==
    /\ op \in [Clients -> Op]
    /\ \A c \in Clients : OpSound(op[c])
    /\ pass \in [Passes -> Pass]
    /\ lease \in Passes \cup {None}
    /\ refused \subseteq Ids
    /\ gateLedger \subseteq Ids

ErasureInv ==
    /\ receipt \in [Targets -> Receipt]
    /\ journal \in [Operations -> Totals]
    /\ ledger \subseteq [op : Operations, totals : Totals]
    /\ eraser \in [Erasers -> Eraser]
    /\ \A e \in Erasers : EraserSound(eraser[e])
    /\ usedOps \subseteq ScopeOps
    /\ crashes \in Nat
    /\ ReceiptsSound

IInv == StoreInv /\ LifecycleInv /\ ErasureInv

-----------------------------------------------------------------------------
(* Composite transactions.                                                 *)

\* A tombstone survives two transactions as it survives one.
LEMMA KeepsErasedTransitive ==
    ASSUME NEW d, NEW e, NEW f, KeepsErased(d, e), KeepsErased(e, f)
    PROVE  KeepsErased(d, f)
  BY DEF KeepsErased

\* The capture half of a transaction: an insert, or a merge into the holder.
LEMMA CaptureConsistent ==
    ASSUME Consistent(db), NEW o \in Op, o.pc = "staged", OpSound(o), CaptureGuard(o)
    PROVE  /\ Consistent(CaptureRows(o))
           /\ KeepsErased(db, CaptureRows(o))
           /\ Captured(o) \in Ids
           /\ CaptureRows(o).row[Captured(o)].status # "erased"
  <1>1. /\ o.cand \in Ids /\ o.holder \in Ids \cup {None}
        /\ o.model \in Nat /\ o.at \in Nat /\ o.expected \in Record
    BY DEF OpSound, Op
  <1>2. db \in Database /\ db \in Draft
    BY DatabaseIsDraft DEF Consistent
  <1>3. CASE o.holder = None
    <2> DEFINE s == StoredStatus(o.cand)
    <2>1. s \in {"active", "quarantined"} /\ s \in Statuses /\ s # "erased"
      BY DEF StoredStatus, Statuses
    <2>2. InsertGuard(db, o.cand)
      BY <1>3 DEF CaptureGuard
    <2>3. CaptureRows(o) = Insert(db, o.cand, s, o.model, o.at) /\ Captured(o) = o.cand
      BY <1>3 DEF CaptureRows, Captured
    <2> HIDE DEF s
    <2>4. /\ Consistent(Insert(db, o.cand, s, o.model, o.at))
          /\ KeepsErased(db, Insert(db, o.cand, s, o.model, o.at))
      BY <1>1, <2>1, <2>2, InsertConsistent
    <2>5. Insert(db, o.cand, s, o.model, o.at).row[o.cand].status = s
      BY <1>1, <1>2, <2>1, InsertStatus
    <2> QED
      BY <1>1, <2>1, <2>3, <2>4, <2>5
  <1>4. CASE o.holder # None
    <2>1. /\ o.holder \in Ids /\ MergeGuard(db, o.holder, o.expected)
          /\ o.expected.status # "absent"
      BY <1>1, <1>4 DEF CaptureGuard, OpSound
    <2> DEFINE e == Merge(db, o.holder, o.expected, o.model, o.at, o.cand)
    <2>2. CaptureRows(o) = e /\ Captured(o) = o.holder
      BY <1>4 DEF CaptureRows, Captured
    <2>3. Consistent(e) /\ KeepsErased(db, e)
      BY <1>1, <2>1, MergeConsistent
    <2>4. e.row[o.holder].status = db.row[o.holder].status
      BY <1>1, <1>2, <2>1, MergeFields
    <2>5. db.row[o.holder].status # "erased"
      BY <2>1 DEF MergeGuard
    <2> HIDE DEF e
    <2> QED
      BY <2>1, <2>2, <2>3, <2>4, <2>5
  <1> QED
    BY <1>3, <1>4

\* The supersession half of a correction runs on what the capture half left.
LEMMA CorrectConsistent ==
    ASSUME Consistent(db), NEW o \in Op, o.pc = "staged", OpSound(o),
           CaptureGuard(o), CorrectGuard(o)
    PROVE  /\ Consistent(CorrectRows(o))
           /\ KeepsErased(db, CorrectRows(o))
           /\ CorrectRows(o).row[Captured(o)].status # "erased"
  <1> DEFINE d == CaptureRows(o)
             new == Captured(o)
  <1>1. /\ Consistent(d) /\ KeepsErased(db, d) /\ new \in Ids
        /\ d.row[new].status # "erased"
    BY CaptureConsistent
  <1>2. CASE o.old = None
    BY <1>1, <1>2 DEF CorrectRows
  <1>3. CASE o.old # None
    <2>1. /\ o.old \in Ids /\ o.at \in Nat /\ o.oldExpected \in Record
          /\ o.oldExpected.status # "absent"
      BY <1>3 DEF Op, OpSound
    <2>2. SupersedeGuard(d, o.old, new, o.oldExpected)
      BY <1>3 DEF CorrectGuard
    <2> DEFINE e == Supersede(d, o.old, new, o.oldExpected, o.at)
    <2>3. CorrectRows(o) = e
      BY <1>3 DEF CorrectRows
    <2> HIDE DEF d, new
    <2>4. Consistent(e) /\ KeepsErased(d, e)
      BY <1>1, <2>1, <2>2, SupersedeConsistent
    <2>5. d \in Draft /\ o.oldExpected.status \in Statuses
      BY <1>1, <2>1, DatabaseIsDraft DEF Consistent, Record, RowStatus
    <2>6. /\ e.row[o.old].status = "superseded"
          /\ \A j \in Ids \ {o.old} : e.row[j] = d.row[j]
      BY <1>1, <2>1, <2>5, SupersedeStatus
    <2> HIDE DEF e
    <2>7. e.row[new].status # "erased"
      BY <1>1, <2>6
    <2>8. KeepsErased(db, e)
      BY <1>1, <2>4, KeepsErasedTransitive
    <2> QED
      BY <2>3, <2>4, <2>7, <2>8 DEF new
  <1> QED
    BY <1>2, <1>3

\* The digest key of a quarantined capture joins the same transaction.
LEMMA TransactionConsistent ==
    ASSUME Consistent(db), NEW o \in Op, o.pc = "staged", OpSound(o),
           CaptureGuard(o), CorrectGuard(o)
    PROVE  /\ Consistent(StageKey(CorrectRows(o), o))
           /\ KeepsErased(db, StageKey(CorrectRows(o), o))
  <1> DEFINE d == CorrectRows(o)
             m == Captured(o)
             e == [d EXCEPT !.key = @ \cup {<<o.cand, m>>}]
  <1>1. /\ Consistent(d) /\ KeepsErased(db, d) /\ m \in Ids
        /\ d.row[m].status # "erased"
    BY CorrectConsistent, CaptureConsistent
  <1>2. o.cand \in Ids
    BY DEF OpSound
  <1>3. StageKey(d, o) = d \/ StageKey(d, o) = e
    BY DEF StageKey
  <1> HIDE DEF d, m
  <1>4. Consistent(e) /\ KeepsErased(d, e)
    BY <1>1, <1>2, KeyConsistent
  <1> HIDE DEF e
  <1>5. KeepsErased(db, e)
    BY <1>1, <1>4, KeepsErasedTransitive
  <1> QED
    BY <1>1, <1>3, <1>4, <1>5 DEF d

\* The transaction of a memory erasure.
LEMMA EraseRowsConsistent ==
    ASSUME Consistent(db), NEW i \in Ids, NEW shells \in SUBSET Ids, NEW at \in Nat
    PROVE  /\ Consistent(EraseRows(db, i, shells, at))
           /\ KeepsErased(db, EraseRows(db, i, shells, at))
  <1> DEFINE K == {x \in db.key : x[2] \notin shells}
             e == Tombstones([Sweep(db, shells) EXCEPT !.key = K], shells, at)
  <1>1. db \in Draft
    BY DatabaseIsDraft DEF Consistent
  <1>2. Sweep(db, shells).key = db.key
    BY <1>1 DEF Sweep, Draft
  <1>3. DestroyKeys(Sweep(db, shells), shells) = [Sweep(db, shells) EXCEPT !.key = K]
    BY <1>2 DEF DestroyKeys
  <1>4. EraseRows(db, i, shells, at) = MarkDerived(e, i)
    BY <1>3 DEF EraseRows, DestroyRows
  <1>5. Consistent(e) /\ KeepsErased(db, e)
    BY DestroyConsistent
  <1> HIDE DEF e
  <1>6. Consistent(MarkDerived(e, i)) /\ KeepsErased(e, MarkDerived(e, i))
    BY <1>5, MarkConsistent
  <1>7. KeepsErased(db, MarkDerived(e, i))
    BY <1>5, <1>6, KeepsErasedTransitive
  <1> QED
    BY <1>4, <1>6, <1>7

\* The transaction of one batch of a scope erasure.
LEMMA BatchRowsConsistent ==
    ASSUME Consistent(db), NEW shells \in SUBSET Ids, NEW at \in Nat
    PROVE  /\ Consistent(BatchRows(db, shells, at))
           /\ KeepsErased(db, BatchRows(db, shells, at))
  <1>1. BatchRows(db, shells, at)
           = Tombstones([Sweep(db, shells) EXCEPT !.key = {}], shells, at)
    BY DEF BatchRows, DestroyScopeKeys
  <1> QED
    BY <1>1, DestroyConsistent

-----------------------------------------------------------------------------
(* Steps of a client, of an expiry pass and of the environment.            *)

\* An idle client carries nothing.
LEMMA IdleOpSound == IdleOp \in Op /\ OpSound(IdleOp)
  <1>1. NoRecord \in Record
    BY DEF NoRecord, Record, RowStatus
  <1> QED
    BY <1>1 DEF IdleOp, Op, OpState, OpSound

\* One client moves; the others carry what they carried.
LEMMA OpMoves ==
    ASSUME NEW f \in [Clients -> Op], \A k \in Clients : OpSound(f[k]),
           NEW c \in Clients, NEW x \in Op, OpSound(x)
    PROVE  /\ [f EXCEPT ![c] = x] \in [Clients -> Op]
           /\ \A k \in Clients : OpSound([f EXCEPT ![c] = x][k])
  OBVIOUS

\* No step of a client breaks a table or leaves it with an unsound request.
LEMMA ClientStepSound ==
    ASSUME StoreInv, LifecycleInv, NEW c \in Clients, ClientStep(c)
    PROVE  StoreInv' /\ LifecycleInv' /\ KeepsErased(db, db')
  <1> USE DEF StoreInv, LifecycleInv
  <1>1. op[c] \in Op /\ OpSound(op[c]) /\ db \in Database
    BY DEF Consistent
  <1>2. KeepsErased(db, db)
    BY DEF KeepsErased
  <1>3. ASSUME NEW x \in Op, OpSound(x), op' = [op EXCEPT ![c] = x]
        PROVE  op' \in [Clients -> Op] /\ \A k \in Clients : OpSound(op'[k])
    BY <1>3, OpMoves
  <1>4. ASSUME op' = [op EXCEPT ![c] = IdleOp],
               UNCHANGED <<db, replica, clock, pass, lease, refused, gateLedger>>
        PROVE  StoreInv' /\ LifecycleInv' /\ KeepsErased(db, db')
    BY <1>2, <1>3, <1>4, IdleOpSound
  <1>5. ASSUME NEW i \in Ids, NEW old \in Ids \cup {None}, CaptureObserve(c, i, old)
        PROVE  StoreInv' /\ LifecycleInv' /\ KeepsErased(db, db')
    <2>1. PICK h \in Ids \cup {None} :
             op' = [op EXCEPT ![c] = [IdleOp EXCEPT
                      !.pc = "observed", !.cand = i, !.old = old, !.holder = h,
                      !.model = db.model, !.at = clock]]
      BY <1>5 DEF CaptureObserve, Holders
    <2> DEFINE x == [IdleOp EXCEPT
                       !.pc = "observed", !.cand = i, !.old = old, !.holder = h,
                       !.model = db.model, !.at = clock]
    <2>2. db.model \in Nat
      BY <1>1 DEF Database
    <2>3. x \in Op /\ x.pc = "observed" /\ x.cand = i
      BY <2>2, IdleOpSound DEF Op, OpState
    <2> HIDE DEF x
    <2>4. OpSound(x)
      BY <2>3 DEF OpSound
    <2>5. op' = [op EXCEPT ![c] = x]
      BY <2>1 DEF x
    <2> QED
      BY <1>2, <1>3, <1>5, <2>3, <2>4, <2>5 DEF CaptureObserve
  <1>6. CASE CaptureStage(c)
    <2> DEFINE o == op[c]
               ex == IF o.holder = None THEN NoRecord ELSE replica[o.holder].record
               ox == IF o.old = None THEN NoRecord ELSE replica[o.old].record
               x == [o EXCEPT !.pc = "staged", !.expected = ex, !.oldExpected = ox]
    <2>1. /\ o.pc = "observed" /\ StageAccepted(o) /\ op' = [op EXCEPT ![c] = x]
          /\ UNCHANGED <<db, replica, clock, pass, lease, refused, gateLedger>>
      BY <1>6 DEF CaptureStage
    <2>2. /\ o.cand \in Ids /\ o.holder \in Ids \cup {None} /\ o.old \in Ids \cup {None}
      BY <1>1, <2>1 DEF OpSound, Op
    <2>3. \A j \in Ids : replica[j].record \in Record
      BY DEF Row
    <2>4. /\ ex \in Record /\ (o.holder # None => ex.status # "absent")
      BY <2>1, <2>2, <2>3, IdleOpSound DEF StageAccepted, ReadsLive, IdleOp, Op
    <2>5. /\ ox \in Record /\ (o.old # None => ox.status # "absent")
      BY <2>1, <2>2, <2>3, IdleOpSound DEF StageAccepted, MaySupersede, ReadsLive, IdleOp, Op
    <2> HIDE DEF ex, ox
    <2>6. /\ x \in Op /\ x.pc = "staged" /\ x.cand = o.cand /\ x.holder = o.holder
          /\ x.old = o.old /\ x.expected = ex /\ x.oldExpected = ox
      BY <1>1, <2>4, <2>5 DEF Op, OpState
    <2> HIDE DEF x
    <2>7. OpSound(x)
      BY <2>2, <2>4, <2>5, <2>6 DEF OpSound
    <2> QED
      BY <1>2, <1>3, <2>1, <2>6, <2>7
  <1>7. CASE CaptureRefused(c)
    BY <1>4, <1>7 DEF CaptureRefused
  <1>8. CASE CaptureCommit(c)
    <2> DEFINE x == IF VerdictOf[op[c].cand] = "quarantine"
                    THEN [IdleOp EXCEPT !.pc = "appending", !.cand = op[c].cand]
                    ELSE IdleOp
    <2>1. /\ op[c].pc = "staged" /\ CaptureGuard(op[c]) /\ CorrectGuard(op[c])
          /\ db' = StageKey(CorrectRows(op[c]), op[c]) /\ op' = [op EXCEPT ![c] = x]
          /\ UNCHANGED <<replica, clock, pass, lease, refused, gateLedger>>
      BY <1>8 DEF CaptureCommit
    <2>2. Consistent(db') /\ KeepsErased(db, db')
      BY <1>1, <2>1, TransactionConsistent
    <2>3. op[c].cand \in Ids
      BY <1>1, <2>1 DEF OpSound
    <2>4. x \in Op /\ OpSound(x)
      BY <2>3, IdleOpSound DEF Op, OpState, OpSound
    <2> HIDE DEF x
    <2> QED
      BY <1>3, <2>1, <2>2, <2>4
  <1>9. CASE CaptureAbort(c)
    BY <1>4, <1>9 DEF CaptureAbort
  <1>10. ASSUME NEW i \in Ids, Refuse(c, i)
         PROVE  StoreInv' /\ LifecycleInv' /\ KeepsErased(db, db')
    <2> DEFINE x == [IdleOp EXCEPT !.pc = "appending", !.cand = i]
    <2>1. /\ db' = [db EXCEPT !.key = @ \cup {<<i, None>>}]
          /\ refused' = refused \cup {i} /\ op' = [op EXCEPT ![c] = x]
          /\ UNCHANGED <<replica, clock, pass, lease, gateLedger>>
      BY <1>10 DEF Refuse
    <2>2. Consistent(db') /\ KeepsErased(db, db')
      BY <2>1, NoneIsNoId, KeyConsistent
    <2>3. x \in Op /\ OpSound(x)
      BY IdleOpSound DEF Op, OpState, OpSound
    <2> HIDE DEF x
    <2> QED
      BY <1>3, <2>1, <2>2, <2>3
  <1>11. CASE AppendDecision(c)
    <2>1. /\ op[c].pc = "appending" /\ gateLedger' = gateLedger \cup {op[c].cand}
          /\ op' = [op EXCEPT ![c] = IdleOp]
          /\ UNCHANGED <<db, replica, clock, pass, lease, refused>>
      BY <1>11 DEF AppendDecision
    <2>2. op[c].cand \in Ids
      BY <1>1, <2>1 DEF OpSound
    <2> QED
      BY <1>2, <1>3, <2>1, <2>2, IdleOpSound
  <1>12. ASSUME NEW old \in Ids, NEW new \in Ids, SupersedeStage(c, old, new)
         PROVE  StoreInv' /\ LifecycleInv' /\ KeepsErased(db, db')
    <2> DEFINE rec == replica[old].record
               x == [IdleOp EXCEPT
                       !.pc = "superseding", !.old = old, !.holder = new,
                       !.oldExpected = rec, !.at = clock]
    <2>1. /\ ReadsLive(old) /\ op' = [op EXCEPT ![c] = x]
          /\ UNCHANGED <<db, replica, clock, pass, lease, refused, gateLedger>>
      BY <1>12 DEF SupersedeStage, MaySupersede
    <2>2. rec \in Record /\ rec.status # "absent"
      BY <2>1 DEF Row, ReadsLive
    <2> HIDE DEF rec
    <2>3. /\ x \in Op /\ x.pc = "superseding" /\ x.old = old /\ x.holder = new
          /\ x.oldExpected = rec
      BY <2>2, IdleOpSound DEF Op, OpState
    <2> HIDE DEF x
    <2>4. OpSound(x)
      BY <2>2, <2>3 DEF OpSound
    <2> QED
      BY <1>2, <1>3, <2>1, <2>3, <2>4
  <1>13. CASE SupersedeCommit(c)
    <2> DEFINE o == op[c]
    <2>1. /\ o.pc = "superseding" /\ SupersedeGuard(db, o.old, o.holder, o.oldExpected)
          /\ db' = Supersede(db, o.old, o.holder, o.oldExpected, o.at)
          /\ op' = [op EXCEPT ![c] = IdleOp]
          /\ UNCHANGED <<replica, clock, pass, lease, refused, gateLedger>>
      BY <1>13 DEF SupersedeCommit
    <2>2. /\ o.old \in Ids /\ o.holder \in Ids /\ o.at \in Nat
          /\ o.oldExpected.status # "absent"
      BY <1>1, <2>1 DEF OpSound, Op
    <2>3. Consistent(db') /\ KeepsErased(db, db')
      BY <2>1, <2>2, SupersedeConsistent
    <2> QED
      BY <1>3, <2>1, <2>3, IdleOpSound
  <1>14. CASE SupersedeAbort(c)
    BY <1>4, <1>14 DEF SupersedeAbort
  <1>15. CASE ClientCrash(c)
    BY <1>4, <1>15 DEF ClientCrash
  <1> QED
    BY <1>5, <1>6, <1>7, <1>8, <1>9, <1>10, <1>11, <1>12, <1>13, <1>14, <1>15
       DEF ClientStep

\* An expiry pass, fenced or not, changes the tables only by Expire.
LEMMA PassStepSound ==
    ASSUME StoreInv, LifecycleInv, NEW p \in Passes, PassStep(p)
    PROVE  StoreInv' /\ LifecycleInv' /\ KeepsErased(db, db')
  <1> USE DEF StoreInv, LifecycleInv
  <1>1. pass[p] \in Pass /\ IdlePass \in Pass
    BY DEF Pass, IdlePass, PassState
  <1>2. KeepsErased(db, db)
    BY DEF KeepsErased
  <1>3. ASSUME NEW x \in Pass, pass' = [pass EXCEPT ![p] = x]
        PROVE  pass' \in [Passes -> Pass]
    BY <1>3
  <1>4. CASE ExpireRead(p)
    <2>1. PICK b \in Batches(db, clock) :
             pass' = [pass EXCEPT ![p] = [pc |-> "read", due |-> b, now |-> clock]]
      BY <1>4 DEF ExpireRead
    <2>2. b \in SUBSET Ids
      BY DEF Batches, Due
    <2>3. [pc |-> "read", due |-> b, now |-> clock] \in Pass
      BY <2>2 DEF Pass, PassState
    <2>4. pass' \in [Passes -> Pass]
      BY <1>3, <2>1, <2>3
    <2> QED
      BY <1>2, <1>4, <2>4 DEF ExpireRead, storeVars
  <1>5. CASE ExpireLease(p)
    <2>1. /\ lease' = p /\ pass' = [pass EXCEPT ![p].pc = "leased"]
          /\ UNCHANGED <<storeVars, op, refused, gateLedger>>
      BY <1>5 DEF ExpireLease
    <2>2. [pass[p] EXCEPT !.pc = "leased"] \in Pass
      BY <1>1 DEF Pass, PassState
    <2>3. pass' \in [Passes -> Pass]
      BY <2>1, <2>2
    <2> QED
      BY <1>2, <2>1, <2>3 DEF storeVars
  <1>6. CASE ExpireCommit(p)
    <2>1. /\ db' = Expire(db, pass[p].due, pass[p].now) /\ lease' = None
          /\ pass' = [pass EXCEPT ![p] = IdlePass]
          /\ UNCHANGED <<replica, clock, op, refused, gateLedger>>
      BY <1>6 DEF ExpireCommit
    <2>2. pass[p].due \in SUBSET Ids /\ pass[p].now \in Nat
      BY <1>1 DEF Pass
    <2>3. Consistent(db') /\ KeepsErased(db, db')
      BY <2>1, <2>2, ExpireConsistent
    <2> QED
      BY <1>1, <1>3, <2>1, <2>3
  <1>7. CASE ExpireFenced(p)
    BY <1>1, <1>2, <1>3, <1>7 DEF ExpireFenced, storeVars
  <1>8. CASE PassCrash(p)
    BY <1>1, <1>2, <1>3, <1>8 DEF PassCrash, storeVars
  <1> QED
    BY <1>4, <1>5, <1>6, <1>7, <1>8 DEF PassStep

\* Every step of Lifecycle.
LEMMA LifecycleStepSound ==
    ASSUME StoreInv, LifecycleInv, LifecycleNext
    PROVE  StoreInv' /\ LifecycleInv' /\ KeepsErased(db, db')
  <1>1. KeepsErased(db, db)
    BY DEF KeepsErased
  <1>2. db \in Database
    BY DEF StoreInv, Consistent
  <1>3. CASE \E c \in Clients : ClientStep(c)
    BY <1>3, ClientStepSound
  <1>4. CASE \E p \in Passes : PassStep(p)
    BY <1>4, PassStepSound
  <1>5. CASE \E i \in Ids, until \in Deadlines \cup {None} : SetValidUntil(i, until)
    <2>1. PICK i \in Ids, until \in Deadlines \cup {None} : SetValidUntil(i, until)
      BY <1>5
    <2>2. until \in Nat \cup {None}
      BY DeadlinesType
    <2>3. db' = SetDeadline(db, i, until) /\ UNCHANGED <<replica, clock, lifecycleVars>>
      BY <2>1 DEF SetValidUntil
    <2>4. Consistent(db') /\ KeepsErased(db, db')
      BY <2>2, <2>3, DeadlineConsistent DEF StoreInv
    <2> QED
      BY <2>3, <2>4 DEF StoreInv, LifecycleInv, lifecycleVars
  <1>6. CASE Tick
    BY <1>1, <1>6 DEF Tick, StoreInv, LifecycleInv, lifecycleVars
  <1>7. CASE Activate
    <2> DEFINE n == db.model + 1
    <2>1. db' = [db EXCEPT !.model = n] /\ UNCHANGED <<replica, clock, lifecycleVars>>
      BY <1>7 DEF Activate
    <2>2. n \in Nat
      BY <1>2 DEF Database
    <2> HIDE DEF n
    <2>3. Consistent(db') /\ KeepsErased(db, db')
      BY <2>1, <2>2, ModelConsistent DEF StoreInv
    <2> QED
      BY <2>1, <2>3 DEF StoreInv, LifecycleInv, lifecycleVars
  <1>8. CASE Replicate /\ UNCHANGED lifecycleVars
    <2>1. db.row \in [Ids -> Row]
      BY <1>2 DEF Database
    <2> QED
      BY <1>1, <1>8, <2>1 DEF Replicate, StoreInv, LifecycleInv, lifecycleVars
  <1> QED
    BY <1>3, <1>4, <1>5, <1>6, <1>7, <1>8 DEF LifecycleNext

-----------------------------------------------------------------------------
(* Steps of an erasure.                                                    *)

\* An idle request carries nothing.
LEMMA IdleEraserSound ==
    /\ NoReceipt \in Receipt /\ NoTotals \in Totals
    /\ IdleEraser \in Eraser /\ EraserSound(IdleEraser)
  <1>1. NoReceipt \in Receipt /\ NoTotals \in Totals
    BY DEF NoReceipt, Receipt, NoTotals, Totals
  <1> QED
    BY <1>1 DEF IdleEraser, Eraser, EraserState, EraserSound

\* No operation is named by NULL, and a scope receipt is no memory receipt.
LEMMA OperationsAndTargets ==
    /\ None \notin Operations /\ Ids \subseteq Operations /\ ScopeOps \subseteq Operations
    /\ Ids \subseteq Targets /\ WholeScope \in Targets
  BY NoneIsNoId, NoneIsNoOperation DEF Operations, Targets

\* A request that starts a delivery from a receipt that names its operation.
LEMMA DeliveringSound ==
    ASSUME ErasureInv, NEW t \in Targets, receipt[t].op # None
    PROVE  /\ Delivering(t) \in Eraser
           /\ EraserSound(Delivering(t))
           /\ Delivering(t).pc = "totalling"
  <1>1. receipt[t] \in Receipt /\ receipt[t].op \in Operations
    BY DEF ErasureInv, Receipt
  <1>2. /\ Delivering(t) \in Eraser /\ Delivering(t).pc = "totalling"
        /\ Delivering(t).target = t /\ Delivering(t).read = receipt[t]
    BY <1>1, IdleEraserSound DEF Delivering, Eraser, EraserState
  <1> QED
    BY <1>1, <1>2 DEF EraserSound

\* A request moves and neither the tables nor a receipt changes.
LEMMA EraserMoves ==
    ASSUME StoreInv, ErasureInv, NEW e \in Erasers, NEW x \in Eraser, EraserSound(x),
           x.pc = "resuming" => receipt[WholeScope].op # None,
           eraser' = [eraser EXCEPT ![e] = x],
           UNCHANGED <<storeVars, receipt, journal, usedOps>>,
           ledger' \subseteq [op : Operations, totals : Totals],
           crashes' \in Nat
    PROVE  StoreInv' /\ ErasureInv' /\ KeepsErased(db, db')
  <1>1. /\ eraser' \in [Erasers -> Eraser]
        /\ \A k \in Erasers : EraserSound(eraser'[k])
        /\ \A k \in Erasers : eraser'[k] = IF k = e THEN x ELSE eraser[k]
    BY DEF ErasureInv
  <1>2. ReceiptsSound'
    BY <1>1 DEF ErasureInv, ReceiptsSound
  <1>3. StoreInv' /\ KeepsErased(db, db')
    BY DEF StoreInv, storeVars, KeepsErased
  <1> QED
    BY <1>1, <1>2, <1>3 DEF ErasureInv

\* A request moves and writes the receipt of one target.
LEMMA ReceiptMoves ==
    ASSUME ErasureInv, NEW e \in Erasers, NEW x \in Eraser, EraserSound(x),
           NEW t \in Targets, NEW r \in Receipt, r.op # None,
           eraser' = [eraser EXCEPT ![e] = x],
           receipt' = [receipt EXCEPT ![t] = r],
           x.pc = "resuming" => t = WholeScope,
           journal' \in [Operations -> Totals],
           usedOps' \subseteq ScopeOps,
           UNCHANGED <<ledger, crashes>>
    PROVE  ErasureInv'
  <1>1. /\ eraser' \in [Erasers -> Eraser]
        /\ \A k \in Erasers : EraserSound(eraser'[k])
        /\ \A k \in Erasers : eraser'[k] = IF k = e THEN x ELSE eraser[k]
    BY DEF ErasureInv
  <1>2. /\ receipt' \in [Targets -> Receipt]
        /\ \A u \in Targets : receipt'[u] = IF u = t THEN r ELSE receipt[u]
    BY DEF ErasureInv
  <1>3. ReceiptsSound'
    BY <1>1, <1>2, OperationsAndTargets DEF ErasureInv, ReceiptsSound
  <1> QED
    BY <1>1, <1>2, <1>3 DEF ErasureInv

\* What the accounting adds to a journal is a number.
LEMMA AccountingType ==
    ASSUME NEW d \in Draft, NEW shells \in SUBSET Ids, NEW f, NEW i \in Ids
    PROVE  /\ Destroyed(d, shells) \in Nat
           /\ KeysOf(d, shells) \in Nat
           /\ Cardinality(d.key) \in Nat
           /\ NewlyMarked(f, i) \in Nat
  <1>1. IsFiniteSet(Ids \X (Ids \cup {None}))
    BY IdsFinite, FS_AddElement, FS_Product
  <1>2. /\ d.key \in SUBSET (Ids \X (Ids \cup {None}))
        /\ {k \in d.key : k[2] \in shells} \in SUBSET (Ids \X (Ids \cup {None}))
    BY DEF Draft
  <1>3. IsFiniteSet(d.key) /\ IsFiniteSet({k \in d.key : k[2] \in shells})
    BY <1>1, <1>2, FS_Subset
  <1>4. /\ {j \in shells : IsLive(d, j)} \in SUBSET Ids
        /\ {j \in DerivedOf(f, i) : IsLive(f, j) /\ ~f.row[j].origin_erased} \in SUBSET Ids
    BY DEF DerivedOf
  <1>5. /\ IsFiniteSet({j \in shells : IsLive(d, j)})
        /\ IsFiniteSet({j \in DerivedOf(f, i) : IsLive(f, j) /\ ~f.row[j].origin_erased})
    BY <1>4, IdsFinite, FS_Subset
  <1> QED
    BY <1>3, <1>5, FS_CardinalityType DEF Destroyed, KeysOf, NewlyMarked

\* A memory erasure commits its destruction, its journal and its receipt.
LEMMA EraseCommitSound ==
    ASSUME StoreInv, ErasureInv, NEW e \in Erasers, EraseCommit(e)
    PROVE  StoreInv' /\ ErasureInv' /\ KeepsErased(db, db')
  <1> DEFINE i == eraser[e].target
             shells == eraser[e].shells
             at == eraser[e].at
             swept == DestroyRows(db, shells, at)
             x == [IdleEraser EXCEPT !.pc = "drained", !.target = i]
             r == NewReceipt(i, TRUE)
             n == [memories |-> journal[i].memories + Destroyed(db, shells),
                   keys |-> journal[i].keys + KeysOf(db, shells),
                   marked |-> journal[i].marked + NewlyMarked(swept, i)]
  <1>1. /\ eraser[e].pc = "prepared"
        /\ db' = EraseRows(db, i, shells, at)
        /\ receipt' = [receipt EXCEPT ![i] = r]
        /\ journal' = [journal EXCEPT ![i] = n]
        /\ eraser' = [eraser EXCEPT ![e] = x]
        /\ UNCHANGED <<replica, clock, ledger, usedOps, crashes>>
    BY DEF EraseCommit
  <1>2. eraser[e] \in Eraser /\ EraserSound(eraser[e])
    BY DEF ErasureInv
  <1>3. i \in Ids /\ shells \in SUBSET Ids /\ at \in Nat
    BY <1>1, <1>2 DEF Eraser, EraserSound
  <1>4. Consistent(db') /\ KeepsErased(db, db')
    BY <1>1, <1>3, EraseRowsConsistent DEF StoreInv
  <1>5. i \in Operations /\ i \in Targets /\ i # None /\ i # WholeScope
    BY <1>3, OperationsAndTargets, NoneIsNoId, WholeScopeIsNoId
  <1>6. n \in Totals
    <2>1. db \in Draft
      BY DatabaseIsDraft DEF StoreInv, Consistent
    <2>2. /\ Destroyed(db, shells) \in Nat /\ KeysOf(db, shells) \in Nat
          /\ NewlyMarked(swept, i) \in Nat
      BY <1>3, <2>1, AccountingType
    <2>3. journal[i] \in Totals
      BY <1>5 DEF ErasureInv
    <2> HIDE DEF swept
    <2> QED
      BY <2>2, <2>3 DEF Totals
  <1>7. journal' \in [Operations -> Totals]
    <2> HIDE DEF n
    <2> QED
      BY <1>1, <1>5, <1>6 DEF ErasureInv
  <1>8. r \in Receipt /\ r.op # None
    BY <1>5 DEF NewReceipt, Receipt
  <1>9. x \in Eraser /\ x.pc = "drained" /\ x.target = i
    BY <1>5, IdleEraserSound DEF Eraser, EraserState
  <1> HIDE DEF x, r
  <1>10. EraserSound(x)
    BY <1>5, <1>9 DEF EraserSound
  <1>11. usedOps' \subseteq ScopeOps
    BY <1>1 DEF ErasureInv
  <1>12. ErasureInv'
    BY <1>1, <1>5, <1>7, <1>8, <1>9, <1>10, <1>11, ReceiptMoves
  <1> QED
    BY <1>1, <1>4, <1>12 DEF StoreInv

\* A batch of a scope erasure commits with its journal and its readiness.
LEMMA ScopeBatchSound ==
    ASSUME StoreInv, ErasureInv, NEW e \in Erasers, ScopeBatch(e)
    PROVE  StoreInv' /\ ErasureInv' /\ KeepsErased(db, db')
  <1> DEFINE o == eraser[e].read.op
             shells == eraser[e].shells
             r == [receipt[WholeScope] EXCEPT !.ready = Emptied(db')]
             n == [journal[o] EXCEPT
                     !.memories = @ + Destroyed(db, shells),
                     !.keys = @ + Cardinality(db.key)]
             pc == IF Emptied(db') THEN "drained" ELSE "draining"
             x == [eraser[e] EXCEPT !.pc = pc, !.shells = {}]
  <1>1. eraser[e] \in Eraser /\ EraserSound(eraser[e]) /\ receipt[WholeScope] \in Receipt
    BY OperationsAndTargets DEF ErasureInv
  <1>2. /\ eraser[e].pc = "batch" /\ BatchGuard(e)
        /\ db' = BatchRows(db, shells, eraser[e].at)
        /\ receipt' = [receipt EXCEPT ![WholeScope].ready = Emptied(db')]
        /\ journal' = [journal EXCEPT
              ![o].memories = @ + Destroyed(db, shells),
              ![o].keys = @ + Cardinality(db.key)]
        /\ eraser' = [eraser EXCEPT ![e].pc = pc, ![e].shells = {}]
        /\ UNCHANGED <<replica, clock, ledger, usedOps, crashes>>
    BY DEF ScopeBatch
  <1>3. /\ o \in Operations /\ o # None /\ receipt[WholeScope].op = o
        /\ eraser[e].target = WholeScope
        /\ shells \in SUBSET Ids /\ eraser[e].at \in Nat
    BY <1>1, <1>2, OperationsAndTargets DEF EraserSound, Eraser, BatchGuard
  <1>4. Consistent(db') /\ KeepsErased(db, db')
    BY <1>2, <1>3, BatchRowsConsistent DEF StoreInv
  <1>5. journal' = [journal EXCEPT ![o] = n]
    BY <1>2, <1>3 DEF ErasureInv
  <1>6. n \in Totals
    <2>1. db \in Draft
      BY DatabaseIsDraft DEF StoreInv, Consistent
    <2> DEFINE a == Destroyed(db, shells)
               b == Cardinality(db.key)
    <2>2. a \in Nat /\ b \in Nat
      <3>1. \A i \in Ids : a \in Nat /\ b \in Nat
        BY <1>3, <2>1, AccountingType
      <3>2. CASE Ids = {}
        <4>1. shells = {} /\ {j \in shells : IsLive(db, j)} = {} /\ db.key = {}
          BY <1>3, <2>1, <3>2 DEF Draft
        <4> QED
          BY <4>1, FS_EmptySet DEF Destroyed
      <3> QED
        BY <3>1, <3>2
    <2>3. journal[o] \in Totals
      BY <1>3 DEF ErasureInv
    <2> DEFINE na == journal[o].memories + a
               nb == journal[o].keys + b
    <2>4. na \in Nat /\ nb \in Nat
      <3> HIDE DEF a, b
      <3> QED
        BY <2>2, <2>3 DEF Totals
    <2>5. n = [journal[o] EXCEPT !.memories = na, !.keys = nb]
      OBVIOUS
    <2> HIDE DEF na, nb, n
    <2> QED
      BY <2>3, <2>4, <2>5 DEF Totals
  <1>7. journal' \in [Operations -> Totals]
    <2> HIDE DEF n
    <2> QED
      BY <1>3, <1>5, <1>6 DEF ErasureInv
  <1>8. /\ receipt' = [receipt EXCEPT ![WholeScope] = r] /\ r \in Receipt /\ r.op # None
    <2>1. Emptied(db') \in BOOLEAN
      BY DEF Emptied
    <2> QED
      BY <1>1, <1>2, <1>3, <2>1, OperationsAndTargets DEF ErasureInv, Receipt
  <1>9. eraser' = [eraser EXCEPT ![e] = x]
    BY <1>2 DEF ErasureInv
  <1>10. /\ x \in Eraser /\ x.pc \in {"drained", "draining"} /\ x.target = WholeScope
         /\ x.read.op = o
    BY <1>1, <1>3 DEF Eraser, EraserState
  <1> HIDE DEF x, r
  <1>11. EraserSound(x)
    BY <1>3, <1>10, OperationsAndTargets DEF EraserSound
  <1>12. usedOps' \subseteq ScopeOps /\ UNCHANGED <<ledger, crashes>>
    BY <1>2 DEF ErasureInv
  <1>13. ErasureInv'
    BY <1>7, <1>8, <1>9, <1>10, <1>11, <1>12, OperationsAndTargets, ReceiptMoves
  <1> QED
    BY <1>2, <1>4, <1>13 DEF StoreInv

\* Every step of Erasure.
LEMMA ErasureStepSound ==
    ASSUME StoreInv, ErasureInv, NEW e \in Erasers, EraserStep(e)
    PROVE  StoreInv' /\ ErasureInv' /\ KeepsErased(db, db')
  <1>1. eraser[e] \in Eraser /\ EraserSound(eraser[e])
    BY DEF ErasureInv
  <1>2. ledger \subseteq [op : Operations, totals : Totals] /\ crashes \in Nat
    BY DEF ErasureInv
  <1>3. \A t \in Targets : /\ receipt[t] # NoReceipt => receipt[t].op # None
                           /\ receipt[t].ready => receipt[t].op # None
    BY DEF ErasureInv, ReceiptsSound, NoReceipt
  <1>4. ASSUME eraser' = [eraser EXCEPT ![e] = IdleEraser],
               UNCHANGED <<storeVars, receipt, journal, usedOps>>,
               ledger' = ledger, crashes' \in Nat
        PROVE  StoreInv' /\ ErasureInv' /\ KeepsErased(db, db')
    <2>1. IdleEraser.pc # "resuming"
      BY DEF IdleEraser
    <2> QED
      BY <1>2, <1>4, <2>1, IdleEraserSound, EraserMoves
  <1>5. ASSUME NEW t \in Targets, receipt[t].op # None,
               eraser' = [eraser EXCEPT ![e] = Delivering(t)],
               UNCHANGED <<storeVars, receipt, journal, ledger, usedOps, crashes>>
        PROVE  StoreInv' /\ ErasureInv' /\ KeepsErased(db, db')
    BY <1>2, <1>5, DeliveringSound, EraserMoves
  <1>6. ASSUME NEW i \in Requested, NEW cascade \in BOOLEAN, ErasePrepare(e, i, cascade)
        PROVE  StoreInv' /\ ErasureInv' /\ KeepsErased(db, db')
    <2> DEFINE sh == {i} \cup (IF cascade THEN {j \in DerivedOf(db, i) : IsLive(db, j)}
                                          ELSE {})
               x == [IdleEraser EXCEPT !.pc = "prepared", !.target = i, !.at = clock,
                                       !.shells = sh]
    <2>1. /\ eraser' = [eraser EXCEPT ![e] = x]
          /\ UNCHANGED <<storeVars, receipt, journal, ledger, usedOps, crashes>>
      BY <1>6 DEF ErasePrepare
    <2>2. i \in Ids /\ sh \in SUBSET Ids /\ clock \in Nat
      BY RequestedType DEF DerivedOf, StoreInv
    <2> HIDE DEF sh
    <2>3. x \in Eraser /\ x.pc = "prepared" /\ x.target = i
      BY <2>2, IdleEraserSound, OperationsAndTargets DEF Eraser, EraserState
    <2> HIDE DEF x
    <2>4. EraserSound(x)
      BY <2>2, <2>3 DEF EraserSound
    <2> QED
      BY <1>2, <2>1, <2>3, <2>4, EraserMoves
  <1>7. ASSUME NEW i \in Requested, EraseRedeliver(e, i)
        PROVE  StoreInv' /\ ErasureInv' /\ KeepsErased(db, db')
    <2>1. i \in Targets
      BY RequestedType, OperationsAndTargets
    <2> QED
      BY <1>3, <1>5, <1>7, <2>1 DEF EraseRedeliver
  <1>8. CASE ScopeBegin(e)
    <2> DEFINE pc == IF ScopeNeedsStart THEN "starting" ELSE "resuming"
               x == [IdleEraser EXCEPT !.target = WholeScope, !.at = clock, !.pc = pc]
    <2>1. /\ eraser' = [eraser EXCEPT ![e] = x]
          /\ UNCHANGED <<storeVars, receipt, journal, ledger, usedOps, crashes>>
      BY <1>8 DEF ScopeBegin
    <2>2. /\ pc \in {"starting", "resuming"}
          /\ pc = "resuming" => receipt[WholeScope].op # None
      BY <1>3, OperationsAndTargets DEF ScopeNeedsStart
    <2> HIDE DEF pc
    <2>3. x \in Eraser /\ x.pc = pc /\ x.target = WholeScope
      BY <2>2, IdleEraserSound, OperationsAndTargets DEF Eraser, EraserState, StoreInv
    <2> HIDE DEF x
    <2>4. EraserSound(x)
      BY <2>2, <2>3 DEF EraserSound
    <2> QED
      BY <1>2, <2>1, <2>2, <2>3, <2>4, EraserMoves
  <1>9. CASE EraseCommit(e)
    BY <1>9, EraseCommitSound
  <1>10. CASE EraseAbort(e)
    <2>1. eraser[e].target \in Targets
      BY <1>1, <1>10, OperationsAndTargets DEF EraseAbort, EraserSound
    <2>2. CASE receipt[eraser[e].target] = NoReceipt
      BY <1>2, <1>4, <1>10, <2>2 DEF EraseAbort
    <2>3. CASE receipt[eraser[e].target] # NoReceipt
      BY <1>3, <1>5, <1>10, <2>1, <2>3 DEF EraseAbort
    <2> QED
      BY <2>2, <2>3
  <1>11. CASE ScopeStart(e)
    <2>1. PICK o \in ScopeOps \ usedOps :
             /\ receipt' = [receipt EXCEPT ![WholeScope] = NewReceipt(o, FALSE)]
             /\ usedOps' = usedOps \cup {o}
      BY <1>11 DEF ScopeStart
    <2> DEFINE x == [eraser[e] EXCEPT !.pc = "resuming"]
               r == NewReceipt(o, FALSE)
    <2>2. /\ eraser[e].pc = "starting" /\ eraser' = [eraser EXCEPT ![e] = x]
          /\ UNCHANGED <<storeVars, journal, ledger, crashes>>
      BY <1>11 DEF ScopeStart
    <2>3. /\ x \in Eraser /\ x.pc = "resuming" /\ x.target = WholeScope
      BY <1>1, <2>2 DEF Eraser, EraserState, EraserSound
    <2>4. r \in Receipt /\ r.op # None
      BY OperationsAndTargets DEF NewReceipt, Receipt
    <2>5. /\ receipt' = [receipt EXCEPT ![WholeScope] = r]
          /\ journal' \in [Operations -> Totals] /\ usedOps' \subseteq ScopeOps
          /\ UNCHANGED <<ledger, crashes>>
      BY <2>1, <2>2 DEF ErasureInv
    <2> HIDE DEF x, r
    <2>6. EraserSound(x)
      BY <2>3 DEF EraserSound
    <2>7. ErasureInv'
      BY <2>2, <2>3, <2>4, <2>5, <2>6, OperationsAndTargets, ReceiptMoves
    <2> QED
      BY <2>2, <2>7 DEF StoreInv, storeVars, KeepsErased
  <1>12. CASE ScopeStartAbort(e)
    BY <1>2, <1>4, <1>12 DEF ScopeStartAbort
  <1>13. CASE ScopeResume(e)
    <2>1. /\ eraser[e].pc = "resuming" /\ receipt[WholeScope].op # None
          /\ eraser[e].target = WholeScope /\ receipt[WholeScope] \in Receipt
      BY <1>1, <1>13, OperationsAndTargets
         DEF ScopeResume, ErasureInv, ReceiptsSound, EraserSound
    <2>2. CASE receipt[WholeScope].ready
      BY <1>5, <1>13, <2>1, <2>2, OperationsAndTargets DEF ScopeResume
    <2>3. CASE ~receipt[WholeScope].ready
      <3> DEFINE x == [eraser[e] EXCEPT !.pc = "draining", !.read = receipt[WholeScope]]
      <3>1. /\ eraser' = [eraser EXCEPT ![e] = x]
            /\ UNCHANGED <<storeVars, receipt, journal, ledger, usedOps, crashes>>
        BY <1>13, <2>3 DEF ScopeResume
      <3>2. /\ x \in Eraser /\ x.pc = "draining" /\ x.target = WholeScope
            /\ x.read = receipt[WholeScope]
        BY <1>1, <2>1 DEF Eraser, EraserState
      <3> HIDE DEF x
      <3>3. EraserSound(x)
        BY <2>1, <3>2 DEF EraserSound, Receipt
      <3> QED
        BY <1>2, <3>1, <3>2, <3>3, EraserMoves
    <2> QED
      BY <2>2, <2>3
  <1>14. CASE ScopeRead(e)
    <2>1. PICK b \in SUBSET LiveRows :
             eraser' = [eraser EXCEPT ![e].pc = "batch", ![e].shells = b]
      BY <1>14 DEF ScopeRead
    <2> DEFINE x == [eraser[e] EXCEPT !.pc = "batch", !.shells = b]
    <2>2. /\ eraser[e].pc = "draining"
          /\ UNCHANGED <<storeVars, receipt, journal, ledger, usedOps, crashes>>
      BY <1>14 DEF ScopeRead
    <2>3. eraser' = [eraser EXCEPT ![e] = x]
      BY <2>1 DEF ErasureInv
    <2>4. b \in SUBSET Ids
      BY DEF LiveRows
    <2>5. /\ x \in Eraser /\ x.pc = "batch" /\ x.target = eraser[e].target
          /\ x.read = eraser[e].read
      BY <1>1, <2>4 DEF Eraser, EraserState
    <2> HIDE DEF x
    <2>6. EraserSound(x)
      BY <1>1, <2>2, <2>5 DEF EraserSound
    <2> QED
      BY <1>2, <2>2, <2>3, <2>5, <2>6, EraserMoves
  <1>15. CASE ScopeBatch(e)
    BY <1>15, ScopeBatchSound
  <1>16. CASE ScopeBatchAbort(e)
    BY <1>2, <1>4, <1>16 DEF ScopeBatchAbort
  <1>17. CASE ReadReceipt(e)
    <2>1. eraser[e].target \in Targets
      BY <1>1, <1>17 DEF ReadReceipt, EraserSound
    <2>2. CASE receipt[eraser[e].target].ready
      BY <1>3, <1>5, <1>17, <2>1, <2>2 DEF ReadReceipt
    <2>3. CASE ~receipt[eraser[e].target].ready
      BY <1>2, <1>4, <1>17, <2>3 DEF ReadReceipt
    <2> QED
      BY <2>2, <2>3
  <1>18. CASE ReadTotals(e)
    <2> DEFINE n == journal[eraser[e].read.op]
               x == [eraser[e] EXCEPT !.pc = "delivering", !.totals = n]
    <2>1. /\ eraser[e].pc = "totalling"
          /\ eraser' = [eraser EXCEPT ![e].pc = "delivering", ![e].totals = n]
          /\ UNCHANGED <<storeVars, receipt, journal, ledger, usedOps, crashes>>
      BY <1>18 DEF ReadTotals
    <2>2. n \in Totals
      BY <1>1, <2>1 DEF EraserSound, ErasureInv
    <2> HIDE DEF n
    <2>3. eraser' = [eraser EXCEPT ![e] = x]
      BY <2>1 DEF ErasureInv
    <2>4. /\ x \in Eraser /\ x.pc = "delivering" /\ x.target = eraser[e].target
          /\ x.read = eraser[e].read
      BY <1>1, <2>2 DEF Eraser, EraserState
    <2> HIDE DEF x
    <2>5. EraserSound(x)
      BY <1>1, <2>1, <2>4 DEF EraserSound
    <2> QED
      BY <1>2, <2>1, <2>3, <2>4, <2>5, EraserMoves
  <1>19. CASE Deliver(e)
    <2> DEFINE x == [eraser[e] EXCEPT !.pc = "marking"]
    <2>1. /\ eraser[e].pc = "delivering"
          /\ UNCHANGED <<storeVars, receipt, journal, usedOps, crashes>>
          /\ \/ eraser' = [eraser EXCEPT ![e] = x] /\ ledger' = ledger
             \/ eraser' = [eraser EXCEPT ![e] = IdleEraser] /\ ledger' = ledger
             \/ /\ eraser' = [eraser EXCEPT ![e] = x]
                /\ ledger' = ledger \cup {DecisionOf(eraser[e])}
      BY <1>19 DEF Deliver
    <2>2. DecisionOf(eraser[e]) \in [op : Operations, totals : Totals]
      BY <1>1, <2>1 DEF DecisionOf, EraserSound, Eraser
    <2>3. /\ x \in Eraser /\ x.pc = "marking" /\ x.target = eraser[e].target
          /\ x.read = eraser[e].read
      BY <1>1 DEF Eraser, EraserState
    <2> HIDE DEF x
    <2>4. EraserSound(x)
      BY <1>1, <2>1, <2>3 DEF EraserSound
    <2>5. CASE eraser' = [eraser EXCEPT ![e] = IdleEraser] /\ ledger' = ledger
      BY <1>2, <1>4, <2>1, <2>5
    <2>6. CASE eraser' = [eraser EXCEPT ![e] = x]
      <3>1. ledger' \subseteq [op : Operations, totals : Totals] /\ crashes' \in Nat
        BY <1>2, <2>1, <2>2
      <3>2. UNCHANGED <<storeVars, receipt, journal, usedOps>>
        BY <2>1
      <3> QED
        BY <2>3, <2>4, <2>6, <3>1, <3>2, EraserMoves
    <2> QED
      BY <2>1, <2>5, <2>6
  <1>20. CASE MarkDelivered(e)
    <2> DEFINE t == eraser[e].target
               r == [receipt[t] EXCEPT !.delivered = TRUE]
    <2>1. /\ eraser[e].pc = "marking" /\ eraser' = [eraser EXCEPT ![e] = IdleEraser]
          /\ receipt' = IF receipt[t].op = eraser[e].read.op
                        THEN [receipt EXCEPT ![t].delivered = TRUE] ELSE receipt
          /\ UNCHANGED <<storeVars, journal, ledger, usedOps, crashes>>
      BY <1>20 DEF MarkDelivered
    <2>2. t \in Targets /\ eraser[e].read.op # None /\ receipt[t] \in Receipt
      BY <1>1, <2>1, OperationsAndTargets DEF EraserSound, ErasureInv
    <2>3. CASE receipt[t].op = eraser[e].read.op
      <3>1. receipt' = [receipt EXCEPT ![t] = r] /\ r \in Receipt /\ r.op # None
        BY <2>1, <2>2, <2>3 DEF ErasureInv, Receipt
      <3>2. /\ journal' \in [Operations -> Totals] /\ usedOps' \subseteq ScopeOps
            /\ UNCHANGED <<ledger, crashes>> /\ IdleEraser.pc # "resuming"
        BY <2>1 DEF ErasureInv, IdleEraser
      <3> HIDE DEF r, t
      <3>3. ErasureInv'
        BY <2>1, <2>2, <3>1, <3>2, IdleEraserSound, ReceiptMoves
      <3> QED
        BY <2>1, <3>3 DEF StoreInv, storeVars, KeepsErased
    <2>4. CASE receipt[t].op # eraser[e].read.op
      BY <1>2, <1>4, <2>1, <2>4
    <2> QED
      BY <2>3, <2>4
  <1>21. CASE EraserCrash(e)
    BY <1>2, <1>4, <1>21 DEF EraserCrash
  <1> QED
    BY <1>6, <1>7, <1>8, <1>9, <1>10, <1>11, <1>12, <1>13, <1>14, <1>15, <1>16,
       <1>17, <1>18, <1>19, <1>20, <1>21 DEF EraserStep, EraserProgress

-----------------------------------------------------------------------------
(* The specification.                                                      *)

\* A new scope satisfies the inductive invariant.
LEMMA InitSound == Init => IInv
  <1> SUFFICES ASSUME Init PROVE IInv
    OBVIOUS
  <1>1. StoreInv
    <2>1. EmptyDatabase.row \in [Ids -> Row]
      BY EmptyConsistent DEF Consistent, Database
    <2> QED
      BY <2>1, EmptyConsistent DEF Init, StoreInit, StoreInv
  <1>2. LifecycleInv
    <2>1. IdlePass \in Pass
      BY DEF IdlePass, Pass, PassState
    <2> QED
      BY <2>1, IdleOpSound DEF Init, LifecycleInit, LifecycleInv
  <1>3. ErasureInv
    <2>1. IdleEraser.pc # "resuming"
      BY DEF IdleEraser
    <2>2. ReceiptsSound
      BY <2>1, OperationsAndTargets DEF Init, ErasureInit, ReceiptsSound
    <2> QED
      BY <2>2, IdleEraserSound DEF Init, ErasureInit, ErasureInv
  <1> QED
    BY <1>1, <1>2, <1>3 DEF IInv

\* Every step preserves the inductive invariant and the tombstones.
LEMMA StepSound == IInv /\ [Next]_vars => IInv' /\ KeepsErased(db, db')
  <1> SUFFICES ASSUME IInv, [Next]_vars PROVE IInv' /\ KeepsErased(db, db')
    OBVIOUS
  <1>1. StoreInv /\ LifecycleInv /\ ErasureInv
    BY DEF IInv
  <1>2. CASE LifecycleNext /\ UNCHANGED erasureVars
    <2>1. StoreInv' /\ LifecycleInv' /\ KeepsErased(db, db')
      BY <1>1, <1>2, LifecycleStepSound
    <2>2. ErasureInv'
      BY <1>1, <1>2 DEF ErasureInv, ReceiptsSound, erasureVars
    <2> QED
      BY <2>1, <2>2 DEF IInv
  <1>3. CASE ErasureNext /\ UNCHANGED lifecycleVars
    <2>1. StoreInv' /\ ErasureInv' /\ KeepsErased(db, db')
      BY <1>1, <1>3, ErasureStepSound DEF ErasureNext
    <2>2. LifecycleInv'
      BY <1>1, <1>3 DEF LifecycleInv, lifecycleVars
    <2> QED
      BY <2>1, <2>2 DEF IInv
  <1>4. CASE UNCHANGED vars
    <2>1. UNCHANGED <<storeVars, lifecycleVars, erasureVars>>
      BY <1>4 DEF vars
    <2>2. StoreInv' /\ KeepsErased(db, db')
      BY <1>1, <2>1 DEF StoreInv, storeVars, KeepsErased
    <2>3. LifecycleInv' /\ ErasureInv'
      BY <1>1, <2>1
         DEF LifecycleInv, ErasureInv, ReceiptsSound, lifecycleVars, erasureVars
    <2> QED
      BY <2>2, <2>3 DEF IInv
  <1> QED
    BY <1>2, <1>3, <1>4 DEF Next

\* The inductive invariant holds in every reachable state: each transaction
\* takes consistent tables to consistent tables, whatever was committed since
\* its reads.
THEOREM Invariance == Spec => []IInv
  BY InitSound, StepSound, PTL DEF Spec

\* Every variable keeps its type; in particular no counter of scope_counter is
\* negative, whatever lifecycle.rs and erasure.rs interleave.
THEOREM TypeCorrect == Spec => []TypeOK
  <1>1. IInv => TypeOK
    BY DEF IInv, StoreInv, LifecycleInv, ErasureInv, Consistent, TypeOK
  <1> QED
    BY <1>1, Invariance, PTL

\* scope_counter counts the rows by kind and status after every commit of an
\* insert, a supersession, an expiry batch or an erasure.
THEOREM CountersExact == Spec => []CountersMatchRows
  <1>1. IInv => CountersMatchRows
    BY DEF IInv, StoreInv, Consistent, CountersMatchRows
  <1> QED
    BY <1>1, Invariance, PTL

\* A document and the columns beside it agree after every commit, although a
\* merge and a supersession write back a document read before the transaction.
THEOREM DocumentsExact == Spec => []DocumentsMatchColumns
  <1>1. IInv => DocumentsMatchColumns
    BY DEF IInv, StoreInv, Consistent, DocumentsMatchColumns
  <1> QED
    BY <1>1, Invariance, PTL

\* No set of concurrent supersessions and corrections closes a cycle: the walk
\* of SUPERSEDE_SQL runs inside the transaction.
THEOREM ChainAcyclic == Spec => []SupersessionAcyclic
  <1>1. IInv => SupersessionAcyclic
    BY DEF IInv, StoreInv, Consistent, SupersessionAcyclic
  <1> QED
    BY <1>1, Invariance, PTL

\* The uses of a document are the source rows of its memory: merge_into loses
\* no concurrent capture, because MERGE_SQL compares the document it read.
THEOREM UsesExact == Spec => []UsesMatchSources
  <1>1. IInv => UsesMatchSources
    BY DEF IInv, StoreInv, Consistent, UsesMatchSources
  <1> QED
    BY <1>1, Invariance, PTL

\* At most one live row has a fingerprint, for any number of clients that
\* captured the same content after reading no holder.
THEOREM FingerprintUnique == Spec => []OneLiveRowPerFingerprint
  <1>1. IInv => OneLiveRowPerFingerprint
    BY DEF IInv, StoreInv, Consistent, OneLiveRowPerFingerprint
  <1> QED
    BY <1>1, Invariance, PTL

\* Nothing that belongs to an erased memory exists: no source, provenance,
\* derivation, key or embedding job, and no writer staged earlier adds one.
THEOREM ErasedBare == Spec => []ErasedStaysBare
  <1>1. IInv => ErasedStaysBare
    BY DEF IInv, StoreInv, Consistent, ErasedStaysBare
  <1> QED
    BY <1>1, Invariance, PTL

\* A tombstone is never written again by a merge, a deadline, a supersession,
\* an expiry pass or another erasure that was prepared before it.
THEOREM TombstoneFinal == Spec => ErasedIsFinal
  <1>1. IInv /\ [Next]_vars
          => [\A i \in Ids : db.row[i].status = "erased"
                                => db'.row[i] = db.row[i]]_vars
    BY StepSound DEF KeepsErased
  <1> QED
    BY <1>1, Invariance, PTL DEF Spec, ErasedIsFinal

=============================================================================
