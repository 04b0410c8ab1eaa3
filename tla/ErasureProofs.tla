---------------------------- MODULE ErasureProofs ----------------------------
(***************************************************************************)
(* What erasure reports, for any number of concurrent requests: a Decision *)
(* in the chain is true and complete, and a destruction that is not in the *)
(* chain is owed by a durable receipt.                                     *)
(***************************************************************************)
EXTENDS CortexProofs

\* An operation that destroys nothing any more: the receipt of a memory is
\* written by the transaction that destroys it, and a scope operation ends
\* when its receipt becomes ready or is replaced.
Closed(o) ==
    \/ o \in Ids /\ receipt[o] # NoReceipt
    \/ /\ o \in usedOps
       /\ receipt[WholeScope].op = o => receipt[WholeScope].ready

\* What a request that delivers has read is still so: the operation is
\* closed, and its totals are final.
Truthful(x) ==
    /\ x.pc = "prepared" => x.target \in x.shells
    /\ x.pc \in {"totalling", "delivering", "marking"}
          => /\ Closed(x.read.op)
             /\ x.read.delivered => Resident(x.read.op)
    /\ x.pc = "delivering" => x.totals = journal[x.read.op]
    /\ x.pc = "marking" => Resident(x.read.op)

\* A receipt says what was done.
ReceiptsTrue ==
    /\ \A i \in Ids : receipt[i] # NoReceipt
          => receipt[i].op = i /\ receipt[i].ready /\ i \in ErasedRows
    /\ receipt[WholeScope].op # None => receipt[WholeScope].op \in usedOps
    /\ \A t \in Targets : receipt[t].delivered => Resident(receipt[t].op)

\* The journal and the chain name operations that receipts know of.
JournalTrue ==
    /\ \A i \in Ids : journal[i] # NoTotals => receipt[i] # NoReceipt
    /\ \A o \in ScopeOps : journal[o] # NoTotals => o \in usedOps
    /\ \A o \in usedOps : o = receipt[WholeScope].op \/ Resident(o)
    /\ \A d \in ledger : Closed(d.op) /\ d.totals = journal[d.op]

ReportInv ==
    /\ ReceiptsTrue
    /\ JournalTrue
    /\ \A e \in Erasers : Truthful(eraser[e])

-----------------------------------------------------------------------------
(* What a destructive transaction does to the rows.                        *)

\* The live shells become tombstones; nothing else changes its status, gains a
\* successor or changes its fingerprint.
Destroys(d, e, shells) ==
    /\ \A i \in Ids : e.row[i].status = IF i \in shells /\ IsLive(d, i)
                                        THEN "erased" ELSE d.row[i].status
    /\ \A i \in Ids : e.row[i].superseded_by \in {None, d.row[i].superseded_by}
    /\ \A i \in Ids : IsLive(e, i) => e.row[i].fingerprint = d.row[i].fingerprint
    /\ e.outbox = d.outbox

\* stage_tombstones replaces the rows that are live, and no key.
LEMMA TombstonesEffect ==
    ASSUME NEW d \in Draft, NEW shells \in SUBSET Ids, NEW at \in Nat
    PROVE  /\ Destroys(d, Tombstones(d, shells, at), shells)
           /\ Tombstones(d, shells, at).key = d.key
  <1> DEFINE M == {i \in shells : IsLive(d, i)}
             C == [k \in Kinds |-> [s \in Statuses |->
                     IF s = "erased"
                     THEN d.counter[k][s] + Cardinality({i \in M : KindOf[i] = k})
                     ELSE d.counter[k][s] - Cardinality(M \cap Bucket(d, k, s))]]
             R == [i \in Ids |-> IF i \in M THEN Tombstone(d.row[i], at) ELSE d.row[i]]
             e == [d EXCEPT !.counter = C, !.row = R]
  <1>1. Tombstones(d, shells, at) = e
    BY DEF Tombstones
  <1>2. e.row = R /\ e.key = d.key /\ e.outbox = d.outbox
    <2> HIDE DEF R, C
    <2> QED
      BY DEF Draft
  <1>3. \A i \in Ids : R[i] = IF i \in shells /\ IsLive(d, i)
                              THEN Tombstone(d.row[i], at) ELSE d.row[i]
    OBVIOUS
  <1>4. \A i \in Ids : /\ Tombstone(d.row[i], at).status = "erased"
                       /\ Tombstone(d.row[i], at).superseded_by = None
    BY TombstoneFields DEF Draft
  <1> HIDE DEF e, R
  <1>5. \A i \in Ids : IsLive(e, i) => e.row[i] = d.row[i]
    BY <1>2, <1>3, <1>4 DEF IsLive
  <1>6. Destroys(d, e, shells)
    BY <1>2, <1>3, <1>4, <1>5 DEF Destroys
  <1> QED
    BY <1>1, <1>2, <1>6

\* The sweep and the destruction of keys leave the rows alone.
LEMMA SweepEffect ==
    ASSUME NEW d \in Draft, NEW shells \in SUBSET Ids
    PROVE  /\ DestroyKeys(Sweep(d, shells), shells) \in Draft
           /\ DestroyKeys(Sweep(d, shells), shells).row = d.row
           /\ DestroyKeys(Sweep(d, shells), shells).outbox = d.outbox
           /\ DestroyKeys(Sweep(d, shells), shells).key = {k \in d.key : k[2] \notin shells}
           /\ DestroyScopeKeys(Sweep(d, shells)) \in Draft
           /\ DestroyScopeKeys(Sweep(d, shells)).row = d.row
           /\ DestroyScopeKeys(Sweep(d, shells)).outbox = d.outbox
           /\ DestroyScopeKeys(Sweep(d, shells)).key = {}
  <1> DEFINE u == Sweep(d, shells)
  <1>1. u \in Draft /\ u.row = d.row /\ u.outbox = d.outbox /\ u.key = d.key
    BY DEF Sweep, Draft
  <1> HIDE DEF u
  <1>2. /\ DestroyKeys(u, shells) \in Draft /\ DestroyKeys(u, shells).row = d.row
        /\ DestroyKeys(u, shells).outbox = d.outbox
        /\ DestroyKeys(u, shells).key = {k \in d.key : k[2] \notin shells}
    BY <1>1 DEF DestroyKeys, Draft
  <1>3. /\ DestroyScopeKeys(u) \in Draft /\ DestroyScopeKeys(u).row = d.row
        /\ DestroyScopeKeys(u).outbox = d.outbox /\ DestroyScopeKeys(u).key = {}
    BY <1>1 DEF DestroyScopeKeys, Draft
  <1> QED
    BY <1>2, <1>3 DEF u

\* MARK_DERIVED_SQL changes no status.
LEMMA MarkEffect ==
    ASSUME NEW d \in Draft, NEW p \in Ids
    PROVE  /\ \A i \in Ids :
                 /\ MarkDerived(d, p).row[i].status = d.row[i].status
                 /\ MarkDerived(d, p).row[i].superseded_by = d.row[i].superseded_by
                 /\ MarkDerived(d, p).row[i].fingerprint = d.row[i].fingerprint
           /\ MarkDerived(d, p).key = d.key /\ MarkDerived(d, p).outbox = d.outbox
  <1> DEFINE R == [i \in Ids |->
                     IF i \in DerivedOf(d, p) /\ IsLive(d, i)
                     THEN [d.row[i] EXCEPT !.origin_erased = TRUE] ELSE d.row[i]]
  <1>1. \A i \in Ids : d.row[i] \in Row
    BY DEF Draft
  <1>2. \A i \in Ids : /\ R[i].status = d.row[i].status
                       /\ R[i].superseded_by = d.row[i].superseded_by
                       /\ R[i].fingerprint = d.row[i].fingerprint
    BY <1>1 DEF Row
  <1>3. MarkDerived(d, p) = [d EXCEPT !.row = R]
    BY DEF MarkDerived
  <1> HIDE DEF R
  <1> QED
    BY <1>2, <1>3 DEF Draft

\* The transaction of a memory erasure erases the live shells, and destroys
\* their keys.
LEMMA EraseEffect ==
    ASSUME NEW d, Consistent(d), NEW i \in Ids, NEW shells \in SUBSET Ids, NEW at \in Nat
    PROVE  /\ Destroys(d, EraseRows(d, i, shells, at), shells)
           /\ EraseRows(d, i, shells, at).key = {k \in d.key : k[2] \notin shells}
  <1> DEFINE w == DestroyKeys(Sweep(d, shells), shells)
             f == Tombstones(w, shells, at)
             e == MarkDerived(f, i)
  <1>1. d \in Draft
    BY DatabaseIsDraft DEF Consistent
  <1>2. /\ w \in Draft /\ w.row = d.row /\ w.outbox = d.outbox
        /\ w.key = {k \in d.key : k[2] \notin shells}
    BY <1>1, SweepEffect
  <1>3. EraseRows(d, i, shells, at) = e
    BY DEF EraseRows, DestroyRows
  <1>4. f \in Draft
    <2> DEFINE K == {k \in d.key : k[2] \notin shells}
               g == Tombstones([Sweep(d, shells) EXCEPT !.key = K], shells, at)
    <2>1. Consistent(g)
      BY DestroyConsistent
    <2>2. Sweep(d, shells).key = d.key
      BY <1>1 DEF Sweep, Draft
    <2>3. f = g
      BY <2>2 DEF DestroyKeys
    <2> HIDE DEF f, g
    <2> QED
      BY <2>1, <2>3, DatabaseIsDraft DEF Consistent
  <1> HIDE DEF w
  <1>5. Destroys(w, f, shells) /\ f.key = w.key
    BY <1>2, TombstonesEffect
  <1> HIDE DEF f
  <1>6. /\ \A j \in Ids : /\ e.row[j].status = f.row[j].status
                          /\ e.row[j].superseded_by = f.row[j].superseded_by
                          /\ e.row[j].fingerprint = f.row[j].fingerprint
        /\ e.key = f.key /\ e.outbox = f.outbox
    BY <1>4, MarkEffect
  <1> HIDE DEF e
  <1>7. Destroys(d, e, shells)
    BY <1>2, <1>5, <1>6 DEF Destroys, IsLive
  <1> QED
    BY <1>2, <1>3, <1>5, <1>6, <1>7

\* A batch of a scope erasure erases its live shells, and every key goes.
LEMMA BatchEffect ==
    ASSUME NEW d, Consistent(d), NEW shells \in SUBSET Ids, NEW at \in Nat
    PROVE  /\ Destroys(d, BatchRows(d, shells, at), shells)
           /\ BatchRows(d, shells, at).key = {}
  <1> DEFINE w == DestroyScopeKeys(Sweep(d, shells))
             e == Tombstones(w, shells, at)
  <1>1. BatchRows(d, shells, at) = e
    BY DEF BatchRows
  <1>2. w \in Draft /\ w.row = d.row /\ w.outbox = d.outbox /\ w.key = {}
    BY SweepEffect, DatabaseIsDraft DEF Consistent
  <1> HIDE DEF w
  <1>3. Destroys(w, e, shells) /\ e.key = w.key
    BY <1>2, TombstonesEffect
  <1> HIDE DEF e
  <1>4. Destroys(d, e, shells)
    BY <1>2, <1>3 DEF Destroys, IsLive
  <1> QED
    BY <1>1, <1>2, <1>3, <1>4

-----------------------------------------------------------------------------
(* Reports and receipts.                                                   *)

\* A request in these states carries nothing that a report is made of.
Quiet(x) == x.pc \notin {"prepared", "totalling", "delivering", "marking"}

\* A quiet request is truthful in every state.
LEMMA QuietTruthful ==
    ASSUME NEW x, Quiet(x)
    PROVE  Truthful(x)
  BY DEF Quiet, Truthful

\* A request moves, and no table, receipt, journal or chain changes.
LEMMA ReportMoves ==
    ASSUME ErasureInv, ReportInv, NEW e \in Erasers, NEW x, Truthful(x),
           eraser' = [eraser EXCEPT ![e] = x],
           UNCHANGED <<db, receipt, journal, ledger, usedOps>>
    PROVE  ReportInv'
  <1>1. /\ \A o : Closed(o)' <=> Closed(o)
        /\ \A o : Resident(o)' <=> Resident(o)
        /\ ErasedRows' = ErasedRows
    BY DEF Closed, Resident, ErasedRows
  <1>2. ReceiptsTrue' /\ JournalTrue'
    BY <1>1 DEF ReportInv, ReceiptsTrue, JournalTrue
  <1>3. \A k \in Erasers : eraser'[k] = IF k = e THEN x ELSE eraser[k]
    BY DEF ErasureInv
  <1>4. \A k \in Erasers : Truthful(eraser'[k])
    BY <1>3 DEF ReportInv
  <1>5. \A k \in Erasers : Truthful(eraser[k])'
    BY <1>1, <1>4 DEF Truthful
  <1> QED
    BY <1>2, <1>5 DEF ReportInv

\* A destructive or a marking step keeps every report true when it leaves the
\* closed operations closed and their journals alone.
LEMMA ReportsSurvive ==
    ASSUME ErasureInv, ReportInv, NEW e \in Erasers, NEW x, Quiet(x),
           eraser' = [eraser EXCEPT ![e] = x],
           \A o \in Operations : Closed(o) => Closed(o)' /\ journal'[o] = journal[o],
           UNCHANGED ledger
    PROVE  /\ \A k \in Erasers : Truthful(eraser[k])'
           /\ \A d \in ledger' : Closed(d.op)' /\ d.totals = journal'[d.op]
  <1>1. \A o : Resident(o)' <=> Resident(o)
    BY DEF Resident
  <1>2. \A k \in Erasers : eraser'[k] = IF k = e THEN x ELSE eraser[k]
    BY DEF ErasureInv
  <1>3. ASSUME NEW k \in Erasers PROVE Truthful(eraser[k])'
    <2>1. CASE k = e
      BY <1>2, <2>1 DEF Truthful, Quiet
    <2>2. CASE k # e
      <3>1. eraser'[k] = eraser[k] /\ Truthful(eraser[k]) /\ EraserSound(eraser[k])
        BY <1>2, <2>2 DEF ReportInv, ErasureInv
      <3>2. eraser[k].pc \in {"totalling", "delivering", "marking"}
              => /\ Closed(eraser[k].read.op)'
                 /\ journal'[eraser[k].read.op] = journal[eraser[k].read.op]
        BY <3>1 DEF Truthful, EraserSound
      <3> QED
        BY <1>1, <3>1, <3>2 DEF Truthful
    <2> QED
      BY <2>1, <2>2
  <1>4. \A d \in ledger' : Closed(d.op)' /\ d.totals = journal'[d.op]
    <2>1. \A d \in ledger : d.op \in Operations
      BY DEF ErasureInv
    <2> QED
      BY <2>1 DEF ReportInv, JournalTrue
  <1> QED
    BY <1>3, <1>4

\* A delivery starts from a receipt that is ready.
LEMMA DeliveringTruthful ==
    ASSUME ErasureInv, ReportInv, NEW t \in Targets, receipt[t] # NoReceipt,
           receipt[t].ready
    PROVE  Truthful(Delivering(t))
  <1>1. Delivering(t).pc = "totalling" /\ Delivering(t).read = receipt[t]
    BY DEF Delivering, IdleEraser
  <1>2. Closed(receipt[t].op)
    <2>1. CASE t \in Ids
      BY <2>1 DEF ReportInv, ReceiptsTrue, Closed
    <2>2. CASE t = WholeScope
      BY <2>2 DEF ReportInv, ReceiptsTrue, Closed, ErasureInv, ReceiptsSound
    <2> QED
      BY <2>1, <2>2 DEF Targets
  <1>3. receipt[t].delivered => Resident(receipt[t].op)
    BY DEF ReportInv, ReceiptsTrue
  <1> QED
    BY <1>1, <1>2, <1>3 DEF Truthful

\* The transaction of a memory erasure opens no operation and closes its own.
LEMMA EraseCommitReports ==
    ASSUME StoreInv, ErasureInv, ReportInv, NEW e \in Erasers, EraseCommit(e)
    PROVE  ReportInv'
  <1> DEFINE i == eraser[e].target
             shells == eraser[e].shells
             x == [IdleEraser EXCEPT !.pc = "drained", !.target = i]
             r == NewReceipt(i, TRUE)
  <1>1. /\ eraser[e].pc = "prepared" /\ receipt[i] = NoReceipt /\ IsLive(db, i)
        /\ db' = EraseRows(db, i, shells, eraser[e].at)
        /\ receipt' = [receipt EXCEPT ![i] = r]
        /\ eraser' = [eraser EXCEPT ![e] = x]
        /\ UNCHANGED <<ledger, usedOps>>
    BY DEF EraseCommit, EraseGuard
  <1>2. PICK n : journal' = [journal EXCEPT ![i] = n]
    BY DEF EraseCommit
  <1>3. /\ i \in Ids /\ shells \in SUBSET Ids /\ eraser[e].at \in Nat /\ i \in shells
    BY <1>1 DEF ErasureInv, Eraser, EraserSound, ReportInv, Truthful
  <1>4. Destroys(db, db', shells)
    BY <1>1, <1>3, EraseEffect DEF StoreInv
  <1>5. i \in ErasedRows' /\ ErasedRows \subseteq ErasedRows'
    BY <1>1, <1>3, <1>4 DEF Destroys, ErasedRows, IsLive
  <1>6. /\ r.op = i /\ r.ready /\ ~r.delivered /\ r # NoReceipt /\ i # None
    BY <1>3, NoneIsNoId DEF NewReceipt, NoReceipt
  <1>7. x.pc = "drained"
    BY DEF IdleEraser
  <1> HIDE DEF x, r
  <1>8. /\ \A t \in Targets : receipt'[t] = IF t = i THEN r ELSE receipt[t]
        /\ \A o \in Operations : journal'[o] = IF o = i THEN n ELSE journal[o]
        /\ WholeScope \in Targets /\ i # WholeScope /\ Ids \subseteq Targets
        /\ i \notin ScopeOps /\ usedOps \subseteq ScopeOps
        /\ Ids \subseteq Operations /\ ScopeOps \subseteq Operations
    BY <1>1, <1>2, <1>3, OperationsAndTargets, WholeScopeIsNoId, OpsAreNoIds DEF ErasureInv
  <1>9. \A o \in Operations : Closed(o) => Closed(o)' /\ journal'[o] = journal[o]
    BY <1>1, <1>6, <1>8 DEF Closed
  <1>10. \A o : Resident(o)' <=> Resident(o)
    BY <1>1 DEF Resident
  <1>11. /\ \A k \in Erasers : Truthful(eraser[k])'
         /\ \A d \in ledger' : Closed(d.op)' /\ d.totals = journal'[d.op]
    <2>1. Quiet(x)
      BY <1>7 DEF Quiet
    <2> QED
      BY <1>1, <1>9, <2>1, ReportsSurvive
  <1>12. ReceiptsTrue'
    BY <1>1, <1>5, <1>6, <1>8, <1>10 DEF ReportInv, ReceiptsTrue
  <1>13. JournalTrue'
    BY <1>1, <1>6, <1>8, <1>10, <1>11 DEF ReportInv, JournalTrue
  <1> QED
    BY <1>11, <1>12, <1>13 DEF ReportInv

\* A batch of a scope erasure adds to the operation that its receipt names and
\* has not closed.
LEMMA ScopeBatchReports ==
    ASSUME StoreInv, ErasureInv, ReportInv, NEW e \in Erasers, ScopeBatch(e)
    PROVE  ReportInv'
  <1> DEFINE o == eraser[e].read.op
             shells == eraser[e].shells
             r == [receipt[WholeScope] EXCEPT !.ready = Emptied(db')]
             pc == IF Emptied(db') THEN "drained" ELSE "draining"
             x == [eraser[e] EXCEPT !.pc = pc, !.shells = {}]
             n == [journal[o] EXCEPT !.memories = @ + Destroyed(db, shells),
                                     !.keys = @ + Cardinality(db.key)]
  <1>1. /\ eraser[e].pc = "batch" /\ BatchGuard(e)
        /\ db' = BatchRows(db, shells, eraser[e].at)
        /\ receipt' = [receipt EXCEPT ![WholeScope].ready = Emptied(db')]
        /\ journal' = [journal EXCEPT
              ![o].memories = @ + Destroyed(db, shells),
              ![o].keys = @ + Cardinality(db.key)]
        /\ eraser' = [eraser EXCEPT ![e].pc = pc, ![e].shells = {}]
        /\ UNCHANGED <<ledger, usedOps>>
    BY DEF ScopeBatch
  <1>2. eraser[e] \in Eraser /\ EraserSound(eraser[e])
    BY DEF ErasureInv
  <1>3. /\ o \in Operations /\ o # None /\ receipt[WholeScope].op = o
        /\ ~receipt[WholeScope].ready /\ receipt[WholeScope] \in Receipt
        /\ shells \in SUBSET Ids /\ eraser[e].at \in Nat
    BY <1>1, <1>2, OperationsAndTargets DEF EraserSound, Eraser, BatchGuard, ErasureInv
  <1>4. Destroys(db, db', shells)
    BY <1>1, <1>3, BatchEffect DEF StoreInv
  <1>5. ErasedRows \subseteq ErasedRows'
    BY <1>4 DEF Destroys, ErasedRows, IsLive
  <1>6. /\ receipt' = [receipt EXCEPT ![WholeScope] = r]
        /\ r.op = o /\ r.delivered = receipt[WholeScope].delivered
    BY <1>1, <1>3, OperationsAndTargets DEF ErasureInv, Receipt
  <1>7. journal' = [journal EXCEPT ![o] = n]
    BY <1>1, <1>3 DEF ErasureInv
  <1>8. eraser' = [eraser EXCEPT ![e] = x] /\ x.pc \in {"drained", "draining"}
    BY <1>1, <1>2 DEF ErasureInv, Eraser
  <1> HIDE DEF x, r, n
  <1>9. /\ \A t \in Targets : receipt'[t] = IF t = WholeScope THEN r ELSE receipt[t]
        /\ \A p \in Operations : journal'[p] = IF p = o THEN n ELSE journal[p]
        /\ WholeScope \in Targets /\ Ids \subseteq Targets /\ WholeScope \notin Ids
        /\ usedOps \subseteq ScopeOps /\ o \in usedOps /\ o \in ScopeOps
        /\ ScopeOps \cap Ids = {} /\ Ids \subseteq Operations /\ ScopeOps \subseteq Operations
    BY <1>3, <1>6, <1>7, OperationsAndTargets, WholeScopeIsNoId, OpsAreNoIds
       DEF ErasureInv, ReportInv, ReceiptsTrue
  <1>10. \A p \in Operations : Closed(p) => Closed(p)' /\ journal'[p] = journal[p]
    BY <1>1, <1>3, <1>6, <1>9 DEF Closed
  <1>11. \A p : Resident(p)' <=> Resident(p)
    BY <1>1 DEF Resident
  <1>12. /\ \A k \in Erasers : Truthful(eraser[k])'
         /\ \A d \in ledger' : Closed(d.op)' /\ d.totals = journal'[d.op]
    <2>1. Quiet(x)
      BY <1>8 DEF Quiet
    <2> QED
      BY <1>1, <1>8, <1>10, <2>1, ReportsSurvive
  <1>13. ReceiptsTrue'
    BY <1>1, <1>3, <1>5, <1>6, <1>9, <1>11 DEF ReportInv, ReceiptsTrue
  <1>14. JournalTrue'
    <2>1. JournalTrue
      BY DEF ReportInv
    <2>2. usedOps' = usedOps /\ ledger' = ledger
      BY <1>1
    <2>3. \A i \in Ids : i # o /\ i # WholeScope /\ i \in Targets /\ i \in Operations
      BY <1>9
    <2>4. \A i \in Ids : journal'[i] # NoTotals => receipt'[i] # NoReceipt
      BY <1>9, <2>1, <2>3 DEF JournalTrue
    <2>5. \A p \in ScopeOps : journal'[p] # NoTotals => p \in usedOps
      BY <1>9, <2>1 DEF JournalTrue
    <2>6. receipt'[WholeScope].op = receipt[WholeScope].op
      BY <1>3, <1>6, <1>9
    <2>7. \A p \in usedOps : p = receipt'[WholeScope].op \/ Resident(p)'
      BY <1>11, <2>1, <2>6 DEF JournalTrue
    <2> QED
      BY <1>12, <2>2, <2>4, <2>5, <2>7 DEF JournalTrue
  <1> QED
    BY <1>12, <1>13, <1>14 DEF ReportInv

\* A scope operation starts only when the one before it was reported.
LEMMA ScopeStartReports ==
    ASSUME ErasureInv, ReportInv, NEW e \in Erasers, ScopeStart(e)
    PROVE  ReportInv'
  <1>1. PICK o \in ScopeOps \ usedOps :
           /\ receipt' = [receipt EXCEPT ![WholeScope] = NewReceipt(o, FALSE)]
           /\ usedOps' = usedOps \cup {o}
    BY DEF ScopeStart
  <1> DEFINE x == [eraser[e] EXCEPT !.pc = "resuming"]
             r == NewReceipt(o, FALSE)
  <1>2. /\ receipt[WholeScope] = NoReceipt \/ receipt[WholeScope].delivered
        /\ eraser' = [eraser EXCEPT ![e] = x]
        /\ UNCHANGED <<db, journal, ledger>>
    BY DEF ScopeStart, storeVars
  <1>3. r.op = o /\ ~r.delivered /\ o # None
    BY NoneIsNoOperation DEF NewReceipt
  <1>4. Quiet(x)
    <2>1. eraser[e] \in Eraser
      BY DEF ErasureInv
    <2> QED
      BY <2>1 DEF Quiet, Eraser
  <1> HIDE DEF x, r
  <1>5. /\ \A t \in Targets : receipt'[t] = IF t = WholeScope THEN r ELSE receipt[t]
        /\ WholeScope \in Targets /\ Ids \subseteq Targets /\ WholeScope \notin Ids
        /\ usedOps \subseteq ScopeOps /\ ScopeOps \cap Ids = {}
    BY <1>1, OperationsAndTargets, WholeScopeIsNoId, OpsAreNoIds DEF ErasureInv, r
  <1>6. \A p \in Operations : Closed(p) => Closed(p)' /\ journal'[p] = journal[p]
    BY <1>1, <1>2, <1>3, <1>5 DEF Closed
  <1>7. /\ \A p : Resident(p)' <=> Resident(p)
        /\ ErasedRows' = ErasedRows
    BY <1>2 DEF Resident, ErasedRows
  <1>8. /\ \A k \in Erasers : Truthful(eraser[k])'
        /\ \A d \in ledger' : Closed(d.op)' /\ d.totals = journal'[d.op]
    BY <1>2, <1>4, <1>6, ReportsSurvive
  <1>9. ReceiptsTrue'
    <2>1. \A i \in Ids : receipt'[i] # NoReceipt
             => receipt'[i].op = i /\ receipt'[i].ready /\ i \in ErasedRows'
      BY <1>5, <1>7 DEF ReportInv, ReceiptsTrue
    <2>2. receipt'[WholeScope].op \in usedOps'
      <3>1. receipt'[WholeScope] = r
        BY <1>5
      <3>2. o \in usedOps'
        BY <1>1
      <3> QED
        BY <1>3, <3>1, <3>2
    <2>3. \A t \in Targets : receipt'[t].delivered => Resident(receipt'[t].op)
      BY <1>3, <1>5 DEF ReportInv, ReceiptsTrue
    <2> QED
      BY <1>7, <2>1, <2>2, <2>3 DEF ReceiptsTrue
  <1>10. \A p \in usedOps : Resident(p)
    <2>1. receipt[WholeScope].op \in usedOps => Resident(receipt[WholeScope].op)
      BY <1>2, <1>5, NoneIsNoOperation DEF ReportInv, ReceiptsTrue, NoReceipt
    <2> QED
      BY <2>1 DEF ReportInv, JournalTrue
  <1>11. JournalTrue'
    <2>1. JournalTrue
      BY DEF ReportInv
    <2>2. journal' = journal /\ receipt'[WholeScope].op = o
      BY <1>2, <1>3, <1>5
    <2>3. \A i \in Ids : receipt'[i] = receipt[i]
      BY <1>5
    <2>4. \A i \in Ids : journal'[i] # NoTotals => receipt'[i] # NoReceipt
      BY <2>1, <2>2, <2>3 DEF JournalTrue
    <2>5. \A p \in ScopeOps : journal'[p] # NoTotals => p \in usedOps'
      BY <1>1, <2>1, <2>2 DEF JournalTrue
    <2>6. \A p \in usedOps' : p = receipt'[WholeScope].op \/ Resident(p)'
      BY <1>1, <1>7, <1>10, <2>2
    <2> QED
      BY <1>8, <2>4, <2>5, <2>6 DEF JournalTrue
  <1> QED
    BY <1>8, <1>9, <1>11 DEF ReportInv

\* The Decision that is appended names a closed operation with its totals.
LEMMA DeliverReports ==
    ASSUME ErasureInv, ReportInv, NEW e \in Erasers, Deliver(e)
    PROVE  ReportInv'
  <1> DEFINE x == [eraser[e] EXCEPT !.pc = "marking"]
             d0 == DecisionOf(eraser[e])
  <1>1. /\ eraser[e].pc = "delivering"
        /\ UNCHANGED <<db, receipt, journal, usedOps>>
        /\ \/ /\ eraser[e].read.delivered
              /\ eraser' = [eraser EXCEPT ![e] = x] /\ ledger' = ledger
           \/ eraser' = [eraser EXCEPT ![e] = IdleEraser] /\ ledger' = ledger
           \/ /\ eraser' = [eraser EXCEPT ![e] = x]
              /\ ledger' = ledger \cup {d0}
    BY DEF Deliver, storeVars
  <1>2. eraser[e] \in Eraser /\ EraserSound(eraser[e]) /\ Truthful(eraser[e])
    BY DEF ErasureInv, ReportInv
  <1>3. /\ x.pc = "marking" /\ x.read = eraser[e].read
    BY <1>2 DEF Eraser
  <1>4. d0.op = eraser[e].read.op /\ d0.totals = eraser[e].totals
    BY DEF DecisionOf
  <1>5. /\ Closed(d0.op) /\ d0.totals = journal[d0.op]
        /\ eraser[e].read.delivered => Resident(d0.op)
    BY <1>1, <1>2, <1>4 DEF Truthful
  <1> HIDE DEF x, d0
  <1>6. CASE eraser[e].read.delivered /\ eraser' = [eraser EXCEPT ![e] = x] /\ ledger' = ledger
    <2>1. Truthful(x)
      BY <1>3, <1>4, <1>5, <1>6 DEF Truthful
    <2> QED
      BY <1>1, <1>6, <2>1, ReportMoves
  <1>7. CASE eraser' = [eraser EXCEPT ![e] = IdleEraser] /\ ledger' = ledger
    <2>1. Quiet(IdleEraser)
      BY DEF Quiet, IdleEraser
    <2> QED
      BY <1>1, <1>7, <2>1, QuietTruthful, ReportMoves
  <1>8. CASE eraser' = [eraser EXCEPT ![e] = x] /\ ledger' = ledger \cup {d0}
    <2>1. /\ \A o : Closed(o)' <=> Closed(o)
          /\ \A o : Resident(o)' <=> Resident(o) \/ o = d0.op
          /\ ErasedRows' = ErasedRows
      BY <1>1, <1>8 DEF Closed, Resident, ErasedRows
    <2>2. ReceiptsTrue'
      BY <1>1, <2>1 DEF ReportInv, ReceiptsTrue
    <2>3. JournalTrue'
      BY <1>1, <1>5, <1>8, <2>1 DEF ReportInv, JournalTrue
    <2>4. \A k \in Erasers : eraser'[k] = IF k = e THEN x ELSE eraser[k]
      BY <1>8 DEF ErasureInv
    <2>5. ASSUME NEW k \in Erasers PROVE Truthful(eraser[k])'
      <3>1. CASE k = e
        BY <1>3, <1>4, <1>5, <2>1, <2>4, <3>1 DEF Truthful
      <3>2. CASE k # e
        <4>1. Truthful(eraser[k]) /\ eraser'[k] = eraser[k]
          BY <2>4, <3>2 DEF ReportInv
        <4> QED
          BY <1>1, <2>1, <4>1 DEF Truthful
      <3> QED
        BY <3>1, <3>2
    <2> QED
      BY <2>2, <2>3, <2>5 DEF ReportInv
  <1> QED
    BY <1>1, <1>6, <1>7, <1>8

\* A receipt is marked delivered after its Decision is in the chain.
LEMMA MarkDeliveredReports ==
    ASSUME ErasureInv, ReportInv, NEW e \in Erasers, MarkDelivered(e)
    PROVE  ReportInv'
  <1> DEFINE t == eraser[e].target
             r == [receipt[t] EXCEPT !.delivered = TRUE]
  <1>1. /\ eraser[e].pc = "marking" /\ eraser' = [eraser EXCEPT ![e] = IdleEraser]
        /\ receipt' = IF receipt[t].op = eraser[e].read.op
                      THEN [receipt EXCEPT ![t].delivered = TRUE] ELSE receipt
        /\ UNCHANGED <<db, journal, ledger, usedOps>>
    BY DEF MarkDelivered, storeVars
  <1>2. /\ t \in Targets /\ receipt[t] \in Receipt /\ eraser[e].read.op \in Operations
        /\ Resident(eraser[e].read.op)
    BY <1>1 DEF ErasureInv, EraserSound, ReportInv, Truthful
  <1>3. Quiet(IdleEraser)
    BY DEF Quiet, IdleEraser
  <1>4. CASE receipt[t].op = eraser[e].read.op
    <2>1. /\ receipt' = [receipt EXCEPT ![t] = r]
          /\ r.op = receipt[t].op /\ r.ready = receipt[t].ready
      BY <1>1, <1>2, <1>4 DEF ErasureInv, Receipt
    <2>2. receipt[t] # NoReceipt /\ r # NoReceipt
      BY <1>2, <1>4, <2>1, OperationsAndTargets DEF NoReceipt
    <2> HIDE DEF r, t
    <2>3. \A u \in Targets : receipt'[u] = IF u = t THEN r ELSE receipt[u]
      BY <2>1 DEF ErasureInv
    <2>4. /\ \A o \in Operations : Closed(o) => Closed(o)' /\ journal'[o] = journal[o]
          /\ \A o : Resident(o)' <=> Resident(o)
          /\ ErasedRows' = ErasedRows
      BY <1>1, <2>1, <2>2, <2>3, OperationsAndTargets DEF Closed, Resident, ErasedRows
    <2>5. /\ \A k \in Erasers : Truthful(eraser[k])'
          /\ \A d \in ledger' : Closed(d.op)' /\ d.totals = journal'[d.op]
      BY <1>1, <1>3, <2>4, ReportsSurvive
    <2>6. ReceiptsTrue'
      BY <1>1, <1>2, <1>4, <2>1, <2>2, <2>3, <2>4, OperationsAndTargets
         DEF ReportInv, ReceiptsTrue
    <2>7. JournalTrue'
      BY <1>1, <2>1, <2>2, <2>3, <2>4, <2>5, OperationsAndTargets DEF ReportInv, JournalTrue
    <2> QED
      BY <2>5, <2>6, <2>7 DEF ReportInv
  <1>5. CASE receipt[t].op # eraser[e].read.op
    BY <1>1, <1>3, <1>5, QuietTruthful, ReportMoves
  <1> QED
    BY <1>4, <1>5

\* Every step of a request.
LEMMA EraserStepReports ==
    ASSUME StoreInv, ErasureInv, ReportInv, NEW e \in Erasers, EraserStep(e)
    PROVE  ReportInv'
  <1>1. eraser[e] \in Eraser /\ EraserSound(eraser[e]) /\ Truthful(eraser[e])
    BY DEF ErasureInv, ReportInv
  <1>2. ASSUME eraser' = [eraser EXCEPT ![e] = IdleEraser],
               UNCHANGED <<storeVars, receipt, journal, ledger, usedOps>>
        PROVE  ReportInv'
    <2>1. Quiet(IdleEraser)
      BY DEF Quiet, IdleEraser
    <2> QED
      BY <1>2, <2>1, QuietTruthful, ReportMoves DEF storeVars
  <1>3. ASSUME NEW t \in Targets, receipt[t] # NoReceipt, receipt[t].ready,
               eraser' = [eraser EXCEPT ![e] = Delivering(t)],
               UNCHANGED <<storeVars, receipt, journal, ledger, usedOps, crashes>>
        PROVE  ReportInv'
    BY <1>3, DeliveringTruthful, ReportMoves DEF storeVars
  <1>4. \A i \in Ids : receipt[i] # NoReceipt => receipt[i].ready
    BY DEF ReportInv, ReceiptsTrue
  <1>5. \A t \in Targets : receipt[t].ready => receipt[t] # NoReceipt
    BY DEF NoReceipt
  <1>6. ASSUME NEW i \in Requested, NEW cascade \in BOOLEAN, ErasePrepare(e, i, cascade)
        PROVE  ReportInv'
    <2> DEFINE sh == {i} \cup (IF cascade THEN {j \in DerivedOf(db, i) : IsLive(db, j)}
                                          ELSE {})
               x == [IdleEraser EXCEPT !.pc = "prepared", !.target = i, !.at = clock,
                                       !.shells = sh]
    <2>1. /\ eraser' = [eraser EXCEPT ![e] = x]
          /\ UNCHANGED <<storeVars, receipt, journal, ledger, usedOps, crashes>>
      BY <1>6 DEF ErasePrepare
    <2>2. i \in sh
      OBVIOUS
    <2> HIDE DEF sh
    <2>3. x.pc = "prepared" /\ x.target = i /\ x.shells = sh
      BY DEF IdleEraser
    <2> HIDE DEF x
    <2>4. Truthful(x)
      BY <2>2, <2>3 DEF Truthful
    <2> QED
      BY <2>1, <2>4, ReportMoves DEF storeVars
  <1>7. ASSUME NEW i \in Requested, EraseRedeliver(e, i)
        PROVE  ReportInv'
    <2>1. i \in Ids /\ i \in Targets
      BY RequestedType, OperationsAndTargets
    <2> QED
      BY <1>3, <1>4, <1>7, <2>1 DEF EraseRedeliver
  <1>8. CASE ScopeBegin(e)
    <2> DEFINE pc == IF ScopeNeedsStart THEN "starting" ELSE "resuming"
               x == [IdleEraser EXCEPT !.target = WholeScope, !.at = clock, !.pc = pc]
    <2>1. /\ eraser' = [eraser EXCEPT ![e] = x]
          /\ UNCHANGED <<storeVars, receipt, journal, ledger, usedOps, crashes>>
      BY <1>8 DEF ScopeBegin
    <2>2. x.pc = pc
      BY DEF IdleEraser
    <2> HIDE DEF x
    <2>3. Quiet(x)
      BY <2>2 DEF Quiet
    <2> QED
      BY <2>1, <2>3, QuietTruthful, ReportMoves DEF storeVars
  <1>9. CASE EraseCommit(e)
    BY <1>9, EraseCommitReports
  <1>10. CASE EraseAbort(e)
    <2>1. eraser[e].target \in Ids /\ eraser[e].target \in Targets
      BY <1>1, <1>10, OperationsAndTargets DEF EraseAbort, EraserSound
    <2>2. CASE receipt[eraser[e].target] = NoReceipt
      BY <1>2, <1>10, <2>2 DEF EraseAbort
    <2>3. CASE receipt[eraser[e].target] # NoReceipt
      BY <1>3, <1>4, <1>10, <2>1, <2>3 DEF EraseAbort
    <2> QED
      BY <2>2, <2>3
  <1>11. CASE ScopeStart(e)
    BY <1>11, ScopeStartReports
  <1>12. CASE ScopeStartAbort(e)
    BY <1>2, <1>12 DEF ScopeStartAbort
  <1>13. CASE ScopeResume(e)
    <2>1. CASE receipt[WholeScope].ready
      BY <1>3, <1>5, <1>13, <2>1, OperationsAndTargets DEF ScopeResume
    <2>2. CASE ~receipt[WholeScope].ready
      <3> DEFINE x == [eraser[e] EXCEPT !.pc = "draining", !.read = receipt[WholeScope]]
      <3>1. /\ eraser' = [eraser EXCEPT ![e] = x]
            /\ UNCHANGED <<storeVars, receipt, journal, ledger, usedOps, crashes>>
        BY <1>13, <2>2 DEF ScopeResume
      <3>2. Quiet(x)
        BY <1>1 DEF Eraser, Quiet
      <3> HIDE DEF x
      <3> QED
        BY <3>1, <3>2, QuietTruthful, ReportMoves DEF storeVars
    <2> QED
      BY <2>1, <2>2
  <1>14. CASE ScopeRead(e)
    <2>1. PICK b \in SUBSET LiveRows :
             eraser' = [eraser EXCEPT ![e].pc = "batch", ![e].shells = b]
      BY <1>14 DEF ScopeRead
    <2> DEFINE x == [eraser[e] EXCEPT !.pc = "batch", !.shells = b]
    <2>2. UNCHANGED <<storeVars, receipt, journal, ledger, usedOps, crashes>>
      BY <1>14 DEF ScopeRead
    <2>3. eraser' = [eraser EXCEPT ![e] = x]
      BY <2>1 DEF ErasureInv
    <2>4. Quiet(x)
      BY <1>1 DEF Eraser, Quiet
    <2> HIDE DEF x
    <2> QED
      BY <2>2, <2>3, <2>4, QuietTruthful, ReportMoves DEF storeVars
  <1>15. CASE ScopeBatch(e)
    BY <1>15, ScopeBatchReports
  <1>16. CASE ScopeBatchAbort(e)
    BY <1>2, <1>16 DEF ScopeBatchAbort
  <1>17. CASE ReadReceipt(e)
    <2>1. eraser[e].target \in Targets
      BY <1>1, <1>17 DEF ReadReceipt, EraserSound
    <2>2. CASE receipt[eraser[e].target].ready
      BY <1>3, <1>5, <1>17, <2>1, <2>2 DEF ReadReceipt
    <2>3. CASE ~receipt[eraser[e].target].ready
      BY <1>2, <1>17, <2>3 DEF ReadReceipt
    <2> QED
      BY <2>2, <2>3
  <1>18. CASE ReadTotals(e)
    <2> DEFINE n == journal[eraser[e].read.op]
               x == [eraser[e] EXCEPT !.pc = "delivering", !.totals = n]
    <2>1. /\ eraser[e].pc = "totalling"
          /\ eraser' = [eraser EXCEPT ![e].pc = "delivering", ![e].totals = n]
          /\ UNCHANGED <<storeVars, receipt, journal, ledger, usedOps, crashes>>
      BY <1>18 DEF ReadTotals
    <2>2. eraser' = [eraser EXCEPT ![e] = x]
      BY <2>1 DEF ErasureInv
    <2>3. /\ x.pc = "delivering" /\ x.read = eraser[e].read /\ x.totals = n
      BY <1>1 DEF Eraser
    <2> HIDE DEF x
    <2>4. Truthful(x)
      BY <1>1, <2>1, <2>3 DEF Truthful
    <2> QED
      BY <2>1, <2>2, <2>4, ReportMoves DEF storeVars
  <1>19. CASE Deliver(e)
    BY <1>19, DeliverReports
  <1>20. CASE MarkDelivered(e)
    BY <1>20, MarkDeliveredReports
  <1>21. CASE EraserCrash(e)
    BY <1>2, <1>21 DEF EraserCrash
  <1> QED
    BY <1>6, <1>7, <1>8, <1>9, <1>10, <1>11, <1>12, <1>13, <1>14, <1>15, <1>16,
       <1>17, <1>18, <1>19, <1>20, <1>21 DEF EraserStep, EraserProgress

\* Reports and receipts stay true whatever the rest of the scope does: other
\* writers never touch a tombstone.
THEOREM ReportsInvariant == Spec => []ReportInv
  <1>1. Init => ReportInv
    <2> SUFFICES ASSUME Init PROVE ReportInv
      OBVIOUS
    <2>1. /\ \A t \in Targets : receipt[t] = NoReceipt
          /\ \A o \in Operations : journal[o] = NoTotals
          /\ ledger = {} /\ usedOps = {} /\ \A e \in Erasers : eraser[e] = IdleEraser
      BY DEF Init, ErasureInit
    <2>2. Quiet(IdleEraser) /\ ~NoReceipt.delivered /\ NoReceipt.op = None
      BY DEF Quiet, IdleEraser, NoReceipt
    <2>3. \A e \in Erasers : Truthful(eraser[e])
      BY <2>1, <2>2, QuietTruthful
    <2> QED
      BY <2>1, <2>2, <2>3, OperationsAndTargets DEF ReportInv, ReceiptsTrue, JournalTrue
  <1>2. IInv /\ ReportInv /\ [Next]_vars => ReportInv'
    <2> SUFFICES ASSUME IInv, ReportInv, [Next]_vars PROVE ReportInv'
      OBVIOUS
    <2>1. StoreInv /\ ErasureInv
      BY DEF IInv
    <2>2. CASE ErasureNext
      BY <2>1, <2>2, EraserStepReports DEF ErasureNext
    <2>3. CASE UNCHANGED erasureVars
      <3>1. UNCHANGED <<receipt, journal, ledger, eraser, usedOps>>
        BY <2>3 DEF erasureVars
      <3>2. /\ \A o : Closed(o)' <=> Closed(o)
            /\ \A o : Resident(o)' <=> Resident(o)
        BY <3>1 DEF Closed, Resident
      <3>3. ErasedRows \subseteq ErasedRows'
        BY StepSound DEF KeepsErased, ErasedRows
      <3>4. ReceiptsTrue' /\ JournalTrue'
        BY <3>1, <3>2, <3>3 DEF ReportInv, ReceiptsTrue, JournalTrue
      <3>5. ASSUME NEW e \in Erasers PROVE Truthful(eraser[e])'
        BY <3>1, <3>2 DEF ReportInv, Truthful
      <3> QED
        BY <3>4, <3>5 DEF ReportInv
    <2> QED
      BY <2>2, <2>3 DEF Next, vars
  <1> QED
    BY <1>1, <1>2, Invariance, PTL DEF Spec

\* A Decision in the chain names a tombstone when it names a memory, and the
\* final totals of its operation: scope batches that commit while another run
\* delivers never add to what it reported.
THEOREM ReportsTrue == Spec => []ReportsAreTrue
  <1>1. IInv /\ ReportInv => ReportsAreTrue
    BY OpsAreNoIds DEF IInv, ErasureInv, ReportInv, ReceiptsTrue, JournalTrue,
                       ReportsAreTrue, Closed
  <1> QED
    BY <1>1, Invariance, ReportsInvariant, PTL

\* A destruction that no Decision reports is owed by an undelivered receipt,
\* wherever the process that destroyed it died.
THEOREM NothingUnreported == Spec => []OwedOrReported
  <1>1. IInv /\ ReportInv => OwedOrReported
    <2> SUFFICES ASSUME IInv, ReportInv, NEW o \in Operations,
                        journal[o] # NoTotals, ~Resident(o)
                 PROVE  \E t \in Targets : receipt[t].op = o /\ ~receipt[t].delivered
      BY DEF OwedOrReported
    <2>1. CASE o \in Ids
      BY <2>1, OperationsAndTargets DEF ReportInv, ReceiptsTrue, JournalTrue
    <2>2. CASE o \in ScopeOps
      BY <2>2, OperationsAndTargets DEF ReportInv, ReceiptsTrue, JournalTrue
    <2> QED
      BY <2>1, <2>2 DEF Operations
  <1> QED
    BY <1>1, Invariance, ReportsInvariant, PTL

=============================================================================
