----------------------------- MODULE EmbedProofs -----------------------------
(***************************************************************************)
(* The embedding pipeline for any number of nodes, memories, revisions and *)
(* attempts: its invariants, and that it implements EmbeddingContract.     *)
(***************************************************************************)
EXTENDS EmbedWorker, MemoryStoreProofs, NaturalsInduction, WellFoundedInduction

-----------------------------------------------------------------------------
(* The inductive invariant.                                                *)

Known(r) == r \in Revisions /\ registry[r] # None

\* A newer revision is registered, so this one is never active again.
Outdated(r) == \E s \in Revisions : Known(s) /\ s > r

\* The active revision is known, and no newer one is.
ModelSound ==
    /\ db.model \in 0..MaxRevision
    /\ db.model # 0 => Known(db.model) /\ ~Outdated(db.model)

\* A job belongs to a row and to a revision of the registry's range.
JobsSound ==
    /\ db.job \subseteq Jobs
    /\ \A j \in db.job : Present(db, j[1])

\* A job is closed with its vectors, or under a revision that is out of date;
\* it is given up when its provider attempts are spent.
WorkSound(j, row) ==
    /\ row.state = "done" => Outdated(j[2]) \/ (Eligible(j[1]) /\ j \in vectors)
    /\ row.state = "dead" /\ row.class # "quarantined"
          => row.attempt - row.admin >= MaxAttempts

Claiming == {"claimed", "reading", "renewing", "embedding", "committing", "reconciling",
             "rechecking", "emptying", "deferring", "quarantining", "failing"}

\* What a worker carries: a revision that was active when it bound, a claim
\* under that revision for a memory that has a row, and, when it is about to
\* complete the job without vectors, a reason that lasts.
WorkerSound(w) ==
    /\ w.pc # "unbound" => Known(w.rev)
    /\ w.pc = "claiming" => w.left > 0
    /\ w.pc \in Claiming => /\ w.job \in Jobs /\ w.job[2] = w.rev
                            /\ Present(db, w.job[1])
    /\ w.pc = "emptying" => Outdated(w.rev) \/ ~IsLive(db, w.job[1])

EmbedInv ==
    /\ Consistent(db) /\ clock \in Nat
    /\ TypeOK
    /\ ModelSound
    /\ JobsSound
    /\ \A i \in Ids : db.row[i].status = "quarantined" => i \in QuarantinedIds
    /\ \A j \in Jobs : WorkSound(j, work[j])
    /\ \A n \in Nodes : WorkerSound(worker[n])
    /\ \A n \in Nodes : activation[n].pc # "idle" => activation[n].rev \in Revisions
    /\ pass.pc \in {"bound", "selected"} => pass.rev \in Revisions

\* Nobody clears the active flag by hand (no route does): then the newest
\* revision is active, and an activation that read the latest revision either
\* still has the next one, with another identity active, or comes too late.
Fresh(r) == \A s \in Revisions : Known(s) => s < r

RegistryInv ==
    /\ db.model = 0 => \A r \in Revisions : ~Known(r)
    /\ \A n \in Nodes : activation[n].pc # "idle" =>
          activation[n].rev = 1 \/ \E s \in Revisions : Known(s) /\ s >= activation[n].rev - 1
    /\ \A n \in Nodes : activation[n].pc = "committing" /\ Fresh(activation[n].rev)
          /\ db.model # 0 => registry[db.model] # config[n]

\* A memory that is neither embedded under a revision nor waits to be.
Owed(i, r) ==
    /\ i \in Ids \ QuarantinedIds /\ Eligible(i)
    /\ <<i, r>> \notin vectors \cup db.job

\* What a pass over the active revision has left behind its cursor, and what
\* it has selected: nothing that is owed, and the first of what is.
PassInv ==
    /\ pass.whole # 0 => Known(pass.whole)
    /\ pass.pc \in {"bound", "selected"} => Known(pass.rev)
    /\ pass.whole = db.model /\ db.model # 0 =>
          \A i \in Ids : Owed(i, db.model) => pass.pc # "finished" /\ Rank[i] > pass.cursor
    /\ pass.pc = "selected" /\ pass.rev = db.model =>
          \A i \in Ids : Owed(i, pass.rev) /\ Rank[i] > pass.cursor =>
             \/ i \in pass.batch
             \/ pass.more /\ \A k \in pass.batch : Rank[k] < Rank[i]

RolloutInv == RegistryInv /\ PassInv

-----------------------------------------------------------------------------
(* The transactions on the tables.                                         *)

\* A capture.
LEMMA CaptureTables ==
    ASSUME NEW d, Consistent(d), NEW i \in Ids, NEW s \in {"active", "quarantined"},
           NEW m \in Nat, NEW at \in Nat, InsertGuard(d, i), NEW e,
           e = Insert(d, i, s, m, at)
    PROVE  /\ Consistent(e) /\ e.row[i].status = s /\ e.model = d.model
           /\ \A k \in Ids \ {i} : e.row[k] = d.row[k]
           /\ m = 0 => e.job = d.job
           /\ m # 0 => e.job = d.job \cup {<<i, m>>}
  <1>1. d \in Database /\ s \in Statuses
    BY DEF Consistent, Statuses
  <1>2. Consistent(e)
    BY InsertConsistent
  <1>3. /\ e.model = d.model /\ \A k \in Ids \ {i} : e.row[k] = d.row[k]
    BY <1>1, InsertFields
  <1>4. e.row[i].status = s
    BY <1>1, InsertStatus
  <1>5. /\ m = 0 => e.job = d.job
        /\ m # 0 => e.job = d.job \cup {<<i, m>>}
    BY <1>1, InsertJob
  <1> QED
    BY <1>2, <1>3, <1>4, <1>5

\* An erasure of one memory.
LEMMA EraseTables ==
    ASSUME NEW d, Consistent(d), NEW i \in Ids, IsLive(d, i), NEW at \in Nat, NEW e,
           e = Tombstones(DestroyKeys(Sweep(d, {i}), {i}), {i}, at)
    PROVE  /\ Consistent(e) /\ e.row[i].status = "erased" /\ e.model = d.model
           /\ \A k \in Ids \ {i} : e.row[k] = d.row[k]
           /\ e.job = {j \in d.job : j[1] # i}
  <1> DEFINE u == Sweep(d, {i})
             K == {k \in d.key : k[2] \notin {i}}
             w == [u EXCEPT !.key = K]
             M == {k \in {i} : IsLive(w, k)}
             C == [k \in Kinds |-> [s \in Statuses |->
                     IF s = "erased"
                     THEN w.counter[k][s] + Cardinality({l \in M : KindOf[l] = k})
                     ELSE w.counter[k][s] - Cardinality(M \cap Bucket(w, k, s))]]
             R == [k \in Ids |-> IF k \in M THEN Tombstone(w.row[k], at) ELSE w.row[k]]
             f == [w EXCEPT !.counter = C, !.row = R]
  <1>1. d \in Draft
    BY DatabaseIsDraft DEF Consistent
  <1>2. /\ u \in Draft /\ u.key = d.key /\ u.row = d.row /\ u.model = d.model
        /\ u.job = {j \in d.job : j[1] # i}
    BY <1>1 DEF Sweep, Draft
  <1>3. DestroyKeys(u, {i}) = w
    <2> HIDE DEF u
    <2> QED
      BY <1>2 DEF DestroyKeys
  <1>4. Consistent(e)
    <2>1. {i} \in SUBSET Ids /\ K \in SUBSET {x \in d.key : x[2] \notin {i}}
      OBVIOUS
    <2> HIDE DEF K
    <2>2. Consistent(Tombstones([Sweep(d, {i}) EXCEPT !.key = K], {i}, at))
      BY <2>1, DestroyConsistent
    <2>3. e = Tombstones(w, {i}, at)
      BY <1>3
    <2> QED
      BY <2>2, <2>3
  <1>5. /\ w \in Draft /\ w.row = d.row /\ w.model = d.model /\ w.job = u.job
    <2>1. K \in SUBSET (Ids \X (Ids \cup {None}))
      BY <1>1 DEF Draft
    <2> HIDE DEF u, K
    <2> QED
      BY <1>2, <2>1 DEF Draft
  <1>6. e = f
    <2>1. e = Tombstones(w, {i}, at)
      BY <1>3
    <2> HIDE DEF w
    <2> QED
      BY <2>1 DEF Tombstones
  <1> HIDE DEF u, w
  <1>7. M = {i}
    BY <1>5 DEF IsLive
  <1>8. d.row[i] \in Row
    BY <1>1 DEF Draft
  <1>9. /\ \A k \in Ids \ {i} : R[k] = d.row[k]
        /\ R[i].status = "erased"
    BY <1>5, <1>7, <1>8, TombstoneFields
  <1> HIDE DEF C, R
  <1>10. f.row = R /\ f.model = w.model /\ f.job = w.job
    BY <1>5 DEF Draft
  <1>11. e.row = R /\ e.model = d.model /\ e.job = u.job
    <2> HIDE DEF f
    <2> QED
      BY <1>5, <1>6, <1>10
  <1>12. u.job = {j \in d.job : j[1] # i}
    BY <1>2
  <1>13. e.row[i].status = "erased" /\ \A k \in Ids \ {i} : e.row[k] = d.row[k]
    BY <1>9, <1>11
  <1> HIDE DEF f, M, K
  <1> QED
    BY <1>4, <1>11, <1>12, <1>13

\* A batch of a re-embedding pass stages jobs of rows that are not erased.
LEMMA StageTables ==
    ASSUME NEW d, Consistent(d), NEW staged \in SUBSET Jobs, NEW e,
           e = [d EXCEPT !.job = @ \cup staged],
           \A j \in staged : d.row[j[1]].status # "erased"
    PROVE  /\ Consistent(e) /\ e.row = d.row /\ e.model = d.model
           /\ e.job = d.job \cup staged
  <1>1. Jobs \subseteq Ids \X Nat
    BY BoundsAreNumbers DEF Jobs, Revisions
  <1>2. d \in Database
    BY DEF Consistent
  <1>3. /\ e.row = d.row /\ e.counter = d.counter /\ e.sources = d.sources
        /\ e.provenance = d.provenance /\ e.derivation = d.derivation
        /\ e.key = d.key /\ e.model = d.model /\ e.job = d.job \cup staged
        /\ e \in Database
    BY <1>1, <1>2 DEF Database
  <1>4. /\ AbsentAreBlank(e) /\ DocumentsAgree(e) /\ Acyclic(e) /\ SourcesAgree(e)
        /\ FingerprintsUnique(e)
    BY <1>3 DEF Consistent, AbsentAreBlank, DocumentsAgree, Acyclic, SourcesAgree,
                FingerprintsUnique, IsLive
  <1>5. CountersAgree(e)
    BY <1>3, SameStatusSameBuckets DEF Consistent
  <1>6. ErasedAreBare(e)
    BY <1>3 DEF Consistent, ErasedAreBare, Bare
  <1> QED
    BY <1>3, <1>4, <1>5, <1>6 DEF Consistent

\* An admission moves one row, its document and its counters.
LEMMA AdmitTables ==
    ASSUME NEW d, Consistent(d), NEW i \in Ids, d.row[i].status = "quarantined", NEW e,
           e = Admitted(d, i)
    PROVE  /\ Consistent(e) /\ e.row[i].status = "active" /\ e.model = d.model
           /\ \A k \in Ids \ {i} : e.row[k] = d.row[k]
           /\ e.job = d.job
  <1> DEFINE k0 == KindOf[i]
             mid == Adjust(d.counter, k0, "quarantined", (-1))
             C == Adjust(mid, k0, "active", 1)
             r == [d.row[i] EXCEPT !.status = "active", !.record.status = "active"]
             R == [d.row EXCEPT ![i] = r]
             f == [d EXCEPT !.row = R, !.counter = C]
  <1>1. d \in Draft /\ d \in Database
    BY DatabaseIsDraft DEF Consistent
  <1>2. d.row \in [Ids -> Row] /\ d.row[i] \in Row /\ d.row[i].record \in Record
    BY <1>1 DEF Draft, Row
  <1>3. /\ r \in Row /\ r.status = "active" /\ r.record.status = "active"
        /\ r.superseded_by = d.row[i].superseded_by
        /\ r.fingerprint = d.row[i].fingerprint
        /\ r.record.by = d.row[i].record.by /\ r.record.uses = d.row[i].record.uses
    BY <1>2 DEF Row, Record, RowStatus, Statuses
  <1>4. e = f
    BY <1>1, <1>2 DEF Draft, Admitted
  <1>5. /\ k0 \in Kinds /\ d.counter \in [Kinds -> [Statuses -> Int]]
        /\ "quarantined" \in Statuses /\ "active" \in Statuses
    BY <1>1, KindOfType DEF Draft, Statuses
  <1> HIDE DEF r, k0
  <1>6. /\ mid \in [Kinds -> [Statuses -> Int]]
        /\ \A l \in Kinds, t \in Statuses :
              mid[l][t] = IF l = k0 /\ t = "quarantined"
                          THEN IF d.counter[k0]["quarantined"] + (-1) > 0
                               THEN d.counter[k0]["quarantined"] + (-1) ELSE 0
                          ELSE d.counter[l][t]
    BY <1>5, AdjustDown
  <1> HIDE DEF mid
  <1>7. /\ C \in [Kinds -> [Statuses -> Int]]
        /\ \A l \in Kinds, t \in Statuses :
              C[l][t] = IF l = k0 /\ t = "active"
                        THEN IF mid[k0]["active"] + 1 > 0 THEN mid[k0]["active"] + 1 ELSE 0
                        ELSE mid[l][t]
    <2>1. C = Adjust(mid, k0, "active", 1)
      OBVIOUS
    <2>2. mid \in [Kinds -> [Statuses -> Int]] /\ k0 \in Kinds /\ "active" \in Statuses
      BY <1>5, <1>6
    <2> HIDE DEF C
    <2>3. \A l \in Kinds, t \in Statuses :
             C[l][t] = IF l = k0 /\ t = "active"
                       THEN IF mid[k0]["active"] + 1 > 0 THEN mid[k0]["active"] + 1 ELSE 0
                       ELSE mid[l][t]
      BY <2>2, <2>1, AdjustUp
    <2>4. C \in [Kinds -> [Statuses -> Int]]
      BY <2>2, <2>1, AdjustUp
    <2> QED
      BY <2>3, <2>4
  <1> HIDE DEF C
  <1>8. R \in [Ids -> Row] /\ R[i] = r /\ \A k \in Ids \ {i} : R[k] = d.row[k]
    BY <1>2, <1>3
  <1> HIDE DEF R
  <1>9. /\ f \in Draft /\ f.row = R /\ f.counter = C /\ f.sources = d.sources
        /\ f.provenance = d.provenance /\ f.derivation = d.derivation
        /\ f.key = d.key /\ f.job = d.job /\ f.model = d.model
    BY <1>1, <1>7, <1>8 DEF Draft
  <1> HIDE DEF f
  <1>10. /\ f.row[i] = r /\ \A k \in Ids \ {i} : f.row[k] = d.row[k]
    BY <1>8, <1>9
  <1>11. CountersAgree(f)
    <2>1. \A l \in Kinds, t \in Statuses :
             /\ d.counter[l][t] = Cardinality(Bucket(d, l, t))
             /\ IsFiniteSet(Bucket(d, l, t))
             /\ Cardinality(Bucket(d, l, t)) \in Nat
      BY BucketFinite DEF Consistent, CountersAgree
    <2>2. i \in Bucket(d, k0, "quarantined")
      BY DEF Bucket, k0
    <2>3. /\ Cardinality(Bucket(d, k0, "quarantined") \ {i})
               = Cardinality(Bucket(d, k0, "quarantined")) - 1
          /\ Cardinality(Bucket(d, k0, "quarantined") \ {i}) \in Nat
      <3>1. IsFiniteSet(Bucket(d, k0, "quarantined"))
        BY <1>5, <2>1
      <3>2. IsFiniteSet(Bucket(d, k0, "quarantined") \ {i})
        BY <3>1, FS_RemoveElement
      <3> QED
        BY <3>1, <3>2, <2>2, FS_RemoveElement, FS_CardinalityType
    <2>4. d.counter[k0]["quarantined"] >= 1
      BY <1>5, <2>1, <2>3
    <2> SUFFICES ASSUME NEW l \in Kinds, NEW t \in Statuses
                 PROVE  f.counter[l][t] = Cardinality(Bucket(f, l, t))
      BY DEF CountersAgree
    <2>5. CASE l # k0 \/ t \notin {"quarantined", "active"}
      <3>1. Bucket(f, l, t) = Bucket(d, l, t)
        BY <1>3, <1>10, <2>5 DEF Bucket, k0
      <3> QED
        BY <1>6, <1>7, <1>9, <2>1, <2>5, <3>1
    <2>6. CASE l = k0 /\ t = "quarantined"
      <3>1. Bucket(f, l, t) = Bucket(d, l, t) \ {i}
        BY <1>3, <1>10, <2>6 DEF Bucket
      <3>2. f.counter[l][t] = d.counter[l][t] - 1
        BY <1>5, <1>6, <1>7, <1>9, <2>4, <2>6
      <3> QED
        BY <2>1, <2>3, <2>6, <3>1, <3>2
    <2>7. CASE l = k0 /\ t = "active"
      <3>1. Bucket(f, l, t) = Bucket(d, l, t) \cup {i} /\ i \notin Bucket(d, l, t)
        BY <1>3, <1>10, <2>7 DEF Bucket, k0
      <3>2. f.counter[l][t] = d.counter[l][t] + 1
        BY <1>5, <1>6, <1>7, <1>9, <2>1, <2>7
      <3>3. Cardinality(Bucket(d, l, t) \cup {i}) = Cardinality(Bucket(d, l, t)) + 1
        BY <2>1, <3>1, FS_AddElement
      <3> QED
        BY <2>1, <3>1, <3>2, <3>3
    <2> QED
      BY <2>5, <2>6, <2>7
  <1>12. f \in Database
    BY <1>9, <1>11, DraftIsDatabase
  <1>13. AbsentAreBlank(f) /\ DocumentsAgree(f)
    BY <1>3, <1>10 DEF Consistent, AbsentAreBlank, DocumentsAgree
  <1>14. Acyclic(f) /\ SourcesAgree(f)
    BY <1>3, <1>9, <1>10 DEF Consistent, Acyclic, SourcesAgree
  <1>15. FingerprintsUnique(f)
    BY <1>3, <1>10 DEF Consistent, FingerprintsUnique, IsLive
  <1>16. ErasedAreBare(f)
    BY <1>3, <1>9, <1>10 DEF Consistent, ErasedAreBare, Bare
  <1>17. Consistent(f)
    BY <1>11, <1>12, <1>13, <1>14, <1>15, <1>16 DEF Consistent
  <1> QED
    BY <1>3, <1>4, <1>9, <1>10, <1>17

\* A set of numbers that is not empty has a least one.
LEMMA LeastNumber ==
    ASSUME NEW D \in SUBSET Nat, D # {}
    PROVE  \E n \in D : \A m \in D : n <= m
  <1>1. PICK n \in D : \A m \in D : ~(<<m, n>> \in OpToRel(<, Nat))
    BY NatLessThanWellFounded, WFMin
  <1> SUFFICES ASSUME NEW m \in D PROVE n <= m
    OBVIOUS
  <1>2. ~(<<m, n>> \in {x \in Nat \X Nat : x[1] < x[2]})
    BY <1>1 DEF OpToRel
  <1>3. n \in Nat /\ m \in Nat /\ <<m, n>> \in Nat \X Nat
    OBVIOUS
  <1> QED
    BY <1>2, <1>3

\* The newest revision, or zero when none is known.
LEMMA LatestKnown ==
    \/ Latest(registry) = 0 /\ \A r \in Revisions : ~Known(r)
    \/ /\ Known(Latest(registry))
       /\ \A r \in Revisions : Known(r) => r <= Latest(registry)
  <1> DEFINE used == {r \in Revisions : registry[r] # None}
  <1>1. CASE used = {}
    BY <1>1 DEF Latest, Known
  <1>2. CASE used # {}
    <2> DEFINE D == {n \in Nat : \E r \in used : n = MaxRevision - r}
    <2>1. Revisions \subseteq Nat /\ \A r \in Revisions : MaxRevision - r \in Nat
      BY BoundsAreNumbers DEF Revisions
    <2>2. D \subseteq Nat /\ D # {}
      BY <1>2, <2>1
    <2>3. PICK n \in D : \A m \in D : n <= m
      <3> HIDE DEF D
      <3> QED
        BY <2>2, LeastNumber
    <2>5. PICK r \in used : n = MaxRevision - r
      OBVIOUS
    <2>6. \A s \in used : s <= r
      BY <2>1, <2>3, <2>5, BoundsAreNumbers
    <2>7. Latest(registry) \in used /\ \A s \in used : s <= Latest(registry)
      BY <1>2, <2>6 DEF Latest
    <2> QED
      BY <2>7 DEF Known
  <1> QED
    BY <1>1, <1>2

\* A known revision that is not the active one is out of date.
LEMMA InactiveOutdated ==
    ASSUME ModelSound, NEW r, Known(r), db.model # 0, db.model # r
    PROVE  Outdated(r)
  <1>1. r \in Nat /\ db.model \in Nat /\ db.model \in Revisions
    BY BoundsAreNumbers DEF ModelSound, Known, Revisions
  <1>2. ~(r > db.model)
    BY DEF ModelSound, Outdated, Known
  <1> QED
    BY <1>1, <1>2 DEF ModelSound, Outdated

-----------------------------------------------------------------------------
(* The worker of a node.                                                   *)

\* What a step of a worker may do to the queue.
QueueMoves ==
    /\ vectors \subseteq vectors' /\ vectors' \subseteq Jobs
    /\ work' \in [Jobs -> WorkRow]
    /\ \A j \in Jobs : work'[j].state = "none" <=> work[j].state = "none"
    /\ \A j \in Jobs : WorkSound(j, work[j])'

WorkerMoves(n) ==
    \E x \in Worker : WorkerSound(x) /\ worker' = [worker EXCEPT ![n] = x]

surroundings == <<storeVars, registry, target, activation, pass, faults, config>>

\* A worker that leaves the surroundings alone keeps the invariant.
LEMMA WorkerKeeps ==
    ASSUME EmbedInv, NEW n \in Nodes, QueueMoves, WorkerMoves(n), UNCHANGED surroundings
    PROVE  EmbedInv'
  <1>1. /\ db' = db /\ clock' = clock /\ registry' = registry /\ target' = target
        /\ activation' = activation /\ pass' = pass /\ faults' = faults /\ config' = config
    BY DEF surroundings, storeVars
  <1>2. PICK x \in Worker : WorkerSound(x) /\ worker' = [worker EXCEPT ![n] = x]
    BY DEF WorkerMoves
  <1>3. Consistent(db)' /\ clock' \in Nat
    BY <1>1 DEF EmbedInv
  <1>4. TypeOK'
    <2>1. worker' \in [Nodes -> Worker]
      BY <1>2 DEF EmbedInv, TypeOK
    <2> QED
      BY <1>1, <2>1 DEF EmbedInv, TypeOK, QueueMoves
  <1>5. ModelSound' /\ JobsSound'
    BY <1>1 DEF EmbedInv, ModelSound, JobsSound, Known, Outdated, Present
  <1>6. \A m \in Nodes : WorkerSound(worker[m])'
    <2> SUFFICES ASSUME NEW m \in Nodes PROVE WorkerSound(worker[m])'
      OBVIOUS
    <2>1. WorkerSound(worker'[m])
      BY <1>2 DEF EmbedInv, TypeOK
    <2> QED
      BY <1>1, <2>1 DEF WorkerSound, Known, Outdated, IsLive, Present
  <1> QED
    BY <1>1, <1>3, <1>4, <1>5, <1>6 DEF EmbedInv, QueueMoves

\* The queue is left alone.
LEMMA QueueSame ==
    ASSUME EmbedInv, UNCHANGED <<work, vectors, db, registry>>
    PROVE  QueueMoves
  BY DEF EmbedInv, TypeOK, QueueMoves, WorkSound, Outdated, Known, Eligible

\* One row is written, and stays a row.
LEMMA RowMoves ==
    ASSUME EmbedInv, NEW j \in Jobs, NEW row \in WorkRow,
           row.state # "none", work[j].state # "none", WorkSound(j, row),
           work' = [work EXCEPT ![j] = row], UNCHANGED <<vectors, db, registry>>
    PROVE  QueueMoves
  <1>1. work \in [Jobs -> WorkRow] /\ vectors \subseteq Jobs
    BY DEF EmbedInv, TypeOK
  <1>2. work'[j] = row /\ \A k \in Jobs \ {j} : work'[k] = work[k]
    BY <1>1
  <1>3. \A k \in Jobs : WorkSound(k, work'[k])
    BY <1>2 DEF EmbedInv
  <1>4. \A k \in Jobs : WorkSound(k, work[k])'
    BY <1>3 DEF WorkSound, Outdated, Known, Eligible
  <1> QED
    BY <1>1, <1>2, <1>4 DEF QueueMoves

\* What a claim that still fits its row names.
LEMMA FittingClaim ==
    ASSUME EmbedInv, NEW n \in Nodes, worker[n].pc \in Claiming, Fits(worker[n])
    PROVE  /\ worker[n].job \in Jobs /\ work[worker[n].job] \in WorkRow
           /\ work[worker[n].job].state = "claimed"
           /\ work[worker[n].job].attempt = worker[n].attempt
           /\ worker[n].attempt \in Nat
  BY DEF EmbedInv, TypeOK, WorkerSound, Fits, Worker

\* A worker goes on to another step of its claim.
LEMMA GotoMoves ==
    ASSUME EmbedInv, NEW n \in Nodes, NEW pc \in WorkerState, Goto(n, pc),
           worker[n].pc # "unbound", pc \notin {"unbound", "claiming"},
           pc \in Claiming => worker[n].pc \in Claiming,
           pc = "emptying" => Outdated(worker[n].rev) \/ ~IsLive(db, worker[n].job[1])
    PROVE  WorkerMoves(n)
  <1> DEFINE x == [worker[n] EXCEPT !.pc = pc]
  <1>1. worker \in [Nodes -> Worker] /\ worker[n] \in Worker /\ WorkerSound(worker[n])
    BY DEF EmbedInv, TypeOK
  <1>2. /\ x \in Worker /\ x.pc = pc /\ x.rev = worker[n].rev /\ x.job = worker[n].job
        /\ x.left = worker[n].left
    BY <1>1 DEF Worker
  <1>3. worker' = [worker EXCEPT ![n] = x]
    BY <1>1 DEF Goto
  <1> HIDE DEF x
  <1>4. WorkerSound(x)
    BY <1>1, <1>2 DEF WorkerSound
  <1> QED
    BY <1>2, <1>3, <1>4 DEF WorkerMoves

\* A worker is done with its claim, or with its drain.
LEMMA NextRoundMoves ==
    ASSUME EmbedInv, NEW n \in Nodes, worker[n].pc # "unbound", Continue(n) \/ EndDrain(n)
    PROVE  WorkerMoves(n)
  <1>1. worker \in [Nodes -> Worker] /\ worker[n] \in Worker /\ WorkerSound(worker[n])
    BY DEF EmbedInv, TypeOK
  <1>2. worker[n].left \in 0..BatchSize /\ worker[n].rev \in 0..MaxRevision
    BY <1>1 DEF Worker
  <1>3. ASSUME NEW x \in Worker, x.pc \in {"bound", "claiming"}, x.pc = "claiming" => x.left > 0,
               x.rev = worker[n].rev, worker' = [worker EXCEPT ![n] = x]
        PROVE  WorkerMoves(n)
    <2>1. WorkerSound(x)
      BY <1>1, <1>3 DEF WorkerSound, Claiming
    <2> QED
      BY <1>3, <2>1 DEF WorkerMoves
  <1>4. Unbound \in Worker
    BY BoundsAreNumbers DEF Unbound, Worker, WorkerState
  <1>5. CASE Continue(n)
    <2> DEFINE pc == IF worker[n].left > 0 THEN "claiming" ELSE "bound"
               x == [Unbound EXCEPT !.rev = worker[n].rev, !.left = worker[n].left, !.pc = pc]
    <2>1. worker' = [worker EXCEPT ![n] = x]
      BY <1>5, Zenon DEF Continue
    <2>2. pc \in {"bound", "claiming"} /\ (pc = "claiming" => worker[n].left > 0)
      OBVIOUS
    <2> HIDE DEF pc
    <2>3. x \in Worker /\ x.pc = pc /\ x.rev = worker[n].rev /\ x.left = worker[n].left
      BY <1>2, <1>4, <2>2 DEF Worker, WorkerState
    <2> HIDE DEF x
    <2> QED
      BY <1>3, <2>1, <2>2, <2>3
  <1>6. CASE EndDrain(n)
    <2> DEFINE x == [Unbound EXCEPT !.rev = worker[n].rev, !.pc = "bound"]
    <2>1. worker' = [worker EXCEPT ![n] = x]
      BY <1>6, Zenon DEF EndDrain
    <2>2. x \in Worker /\ x.pc = "bound" /\ x.rev = worker[n].rev
      BY <1>2, <1>4 DEF Worker, WorkerState
    <2> HIDE DEF x
    <2> QED
      BY <1>3, <2>1, <2>2
  <1> QED
    BY <1>5, <1>6

\* What a failed attempt writes.
LEMMA FailedRow ==
    ASSUME NEW row \in WorkRow, NEW class \in ErrorClass, NEW max \in Int, NEW f,
           f = Failed(row, class, max)
    PROVE  /\ f \in WorkRow /\ f.attempt = row.attempt /\ f.class = class
           /\ row.attempt >= max => f.state = "dead"
           /\ ~(row.attempt >= max) => f.state = "failed"
           /\ class \notin {"quarantined", "model_deactivated"} => f.admin = row.admin
  <1> DEFINE s == IF row.attempt >= max THEN "dead" ELSE "failed"
             a == IF class \in {"quarantined", "model_deactivated"} THEN row.admin + 1
                                                                 ELSE row.admin
             g == [row EXCEPT !.state = s, !.class = class, !.overdue = FALSE, !.admin = a]
  <1>1. f = g
    BY DEF Failed, WorkRow
  <1>2. row.attempt \in Nat /\ row.admin \in Nat
    BY DEF WorkRow
  <1>3. a \in Nat /\ (class \notin {"quarantined", "model_deactivated"} => a = row.admin)
    BY <1>2
  <1>4. /\ s \in WorkState /\ (row.attempt >= max => s = "dead")
        /\ ~(row.attempt >= max) => s = "failed"
    BY <1>2 DEF WorkState
  <1> HIDE DEF s, a
  <1>5. /\ g \in WorkRow /\ g.attempt = row.attempt /\ g.class = class /\ g.state = s
        /\ g.admin = a
    BY <1>3, <1>4 DEF WorkRow
  <1> HIDE DEF g
  <1> QED
    BY <1>1, <1>3, <1>4, <1>5

\* The steps of a worker that only read.
LEMMA ReadingKeeps ==
    ASSUME EmbedInv, NEW n \in Nodes,
           \/ Bind(n) \/ DrainCheck(n) \/ ReadActive(n) \/ ReadMemory(n) \/ Embed(n)
           \/ Reconcile(n) \/ Recheck(n) \/ ModelChanged(n)
    PROVE  EmbedInv'
  <1>1. worker \in [Nodes -> Worker] /\ worker[n] \in Worker /\ WorkerSound(worker[n])
        /\ ModelSound /\ BatchSize \in Nat \ {0} /\ Unbound \in Worker
    BY BoundsAreNumbers DEF EmbedInv, TypeOK, Unbound, Worker, WorkerState
  <1>2. QueueMoves /\ UNCHANGED surroundings
    <2>1. UNCHANGED <<work, vectors, surroundings>>
      BY DEF Bind, DrainCheck, ReadActive, ReadMemory, Embed, Reconcile, Recheck,
             ModelChanged, elsewhere, surroundings
    <2> QED
      BY <2>1, QueueSame DEF surroundings, storeVars
  <1>3. SUFFICES WorkerMoves(n)
    BY <1>2, WorkerKeeps
  <1>4. CASE Bind(n)
    <2> DEFINE x == [Unbound EXCEPT !.pc = "bound", !.rev = db.model]
    <2>1. x \in Worker /\ x.pc = "bound" /\ x.rev = db.model
      BY <1>1 DEF ModelSound, Worker, WorkerState
    <2>2. worker' = [worker EXCEPT ![n] = x] /\ db.model # 0
      BY <1>4, Zenon DEF Bind
    <2> HIDE DEF x
    <2> QED
      BY <1>1, <2>1, <2>2 DEF WorkerMoves, WorkerSound, ModelSound, Claiming
  <1>5. CASE DrainCheck(n)
    <2>1. CASE db.model = 0
      <3>1. Goto(n, "bound") /\ worker[n].pc = "swept"
        BY <1>1, <1>5, <2>1 DEF DrainCheck, Goto
      <3> QED
        BY <3>1, GotoMoves DEF WorkerState, Claiming
    <2>2. CASE db.model # 0
      <3> DEFINE x == [worker[n] EXCEPT !.pc = "claiming", !.left = BatchSize]
      <3>a. BatchSize \in 0..BatchSize /\ BatchSize > 0
        BY <1>1
      <3>1. x \in Worker /\ x.pc = "claiming" /\ x.rev = worker[n].rev /\ x.left = BatchSize
        BY <1>1, <3>a DEF Worker, WorkerState
      <3>2. worker' = [worker EXCEPT ![n] = x] /\ worker[n].pc = "swept"
        BY <1>1, <1>5, <2>2 DEF DrainCheck
      <3> HIDE DEF x
      <3>3. WorkerSound(x)
        BY <1>1, <3>a, <3>1, <3>2 DEF WorkerSound, Claiming
      <3> QED
        BY <3>1, <3>2, <3>3 DEF WorkerMoves
    <2> QED
      BY <2>1, <2>2
  <1>6. CASE ReadActive(n)
    <2>1. worker[n].pc = "claimed" /\ Known(worker[n].rev)
      BY <1>1, <1>6 DEF ReadActive, WorkerSound
    <2>2. \/ Goto(n, "reading")
          \/ Goto(n, "deferring")
          \/ Goto(n, "emptying") /\ db.model # 0 /\ db.model # worker[n].rev
      BY <1>6 DEF ReadActive
    <2>3. db.model # 0 /\ db.model # worker[n].rev => Outdated(worker[n].rev)
      BY <1>1, <2>1, InactiveOutdated
    <2> QED
      BY <2>1, <2>2, <2>3, GotoMoves DEF WorkerState, Claiming
  <1>7. CASE ReadMemory(n)
    <2> DEFINE i == worker[n].job[1]
    <2>1. worker[n].pc = "reading"
      BY <1>7 DEF ReadMemory
    <2>2. \/ Goto(n, "renewing") \/ Goto(n, "failing") \/ Goto(n, "quarantining")
          \/ Goto(n, "emptying") /\ ~IsLive(db, i)
      BY <1>7 DEF ReadMemory, ByStatus, IsLive
    <2> QED
      BY <2>1, <2>2, GotoMoves DEF WorkerState, Claiming
  <1>8. CASE Embed(n)
    BY <1>8, GotoMoves DEF Embed, WorkerState, Claiming
  <1>9. CASE Reconcile(n)
    <2> DEFINE i == worker[n].job[1]
    <2>1. worker[n].pc = "reconciling"
      BY <1>9 DEF Reconcile
    <2>2. \/ Goto(n, "rechecking") \/ Goto(n, "quarantining")
          \/ Goto(n, "emptying") /\ ~IsLive(db, i)
      BY <1>9 DEF Reconcile, IsLive
    <2> QED
      BY <2>1, <2>2, GotoMoves DEF WorkerState, Claiming
  <1>10. CASE Recheck(n)
    <2>1. worker[n].pc = "rechecking" /\ Known(worker[n].rev)
      BY <1>1, <1>10 DEF Recheck, WorkerSound
    <2>2. \/ Goto(n, "failing") \/ Goto(n, "deferring")
          \/ Goto(n, "emptying") /\ db.model # 0 /\ db.model # worker[n].rev
      BY <1>10 DEF Recheck
    <2>3. db.model # 0 /\ db.model # worker[n].rev => Outdated(worker[n].rev)
      BY <1>1, <2>1, InactiveOutdated
    <2> QED
      BY <2>1, <2>2, <2>3, GotoMoves DEF WorkerState, Claiming
  <1>11. CASE ModelChanged(n)
    <2>1. WorkerSound(Unbound)
      BY DEF WorkerSound, Unbound, Claiming
    <2>2. worker' = [worker EXCEPT ![n] = Unbound]
      BY <1>11 DEF ModelChanged
    <2> QED
      BY <1>1, <2>1, <2>2 DEF WorkerMoves
  <1> QED
    BY <1>4, <1>5, <1>6, <1>7, <1>8, <1>9, <1>10, <1>11

\* A drain closes the claims that are overdue, of any revision.
LEMMA SweepKeeps ==
    ASSUME EmbedInv, NEW n \in Nodes, DrainSweep(n)
    PROVE  EmbedInv'
  <1> DEFINE closed(j) == [work[j] EXCEPT !.state = "failed", !.overdue = FALSE]
             next(j) == IF work[j].state = "claimed" /\ work[j].overdue
                        THEN closed(j) ELSE work[j]
  <1>1. /\ work' = [j \in Jobs |-> next(j)] /\ worker[n].pc = "bound" /\ Goto(n, "swept")
        /\ UNCHANGED <<vectors, surroundings>>
    BY DEF DrainSweep, elsewhere, surroundings
  <1>2. \A j \in Jobs : work[j] \in WorkRow /\ WorkSound(j, work[j])
    BY DEF EmbedInv, TypeOK
  <1>3. \A j \in Jobs : closed(j) \in WorkRow /\ closed(j).state = "failed"
    BY <1>2 DEF WorkRow, WorkState
  <1> HIDE DEF closed
  <1>4. \A j \in Jobs : /\ next(j) \in WorkRow
                        /\ next(j).state = "none" <=> work[j].state = "none"
                        /\ WorkSound(j, next(j))
    BY <1>2, <1>3 DEF WorkSound
  <1> HIDE DEF next
  <1>5. \A j \in Jobs : WorkSound(j, work[j])'
    BY <1>1, <1>4 DEF WorkSound, Outdated, Known, Eligible, surroundings, storeVars
  <1>6. QueueMoves
    BY <1>1, <1>4, <1>5 DEF QueueMoves, EmbedInv, TypeOK
  <1>7. WorkerMoves(n)
    BY <1>1, GotoMoves DEF WorkerState, Claiming
  <1> QED
    BY <1>1, <1>6, <1>7, WorkerKeeps

\* A worker claims a job of its revision, or ends the drain.
LEMMA ClaimKeeps ==
    ASSUME EmbedInv, NEW n \in Nodes, Claim(n)
    PROVE  EmbedInv'
  <1>1. worker \in [Nodes -> Worker] /\ worker[n] \in Worker /\ WorkerSound(worker[n])
    BY DEF EmbedInv, TypeOK
  <1>2. worker[n].pc = "claiming" /\ UNCHANGED <<vectors, surroundings>>
    BY DEF Claim, elsewhere, surroundings
  <1>3. CASE EndDrain(n) /\ UNCHANGED work
    BY <1>2, <1>3, QueueSame, NextRoundMoves, WorkerKeeps DEF surroundings, storeVars
  <1>4. ASSUME NEW j \in Claimable(n),
               work' = [work EXCEPT ![j].state = "claimed", ![j].attempt = @ + 1],
               worker' = [worker EXCEPT ![n] = [@ EXCEPT !.pc = "claimed",
                    !.left = worker[n].left - 1, !.job = j, !.attempt = work[j].attempt + 1]]
        PROVE  EmbedInv'
    <2> DEFINE a == work[j].attempt + 1
               l == worker[n].left - 1
               row == [work[j] EXCEPT !.state = "claimed", !.attempt = a]
               x == [worker[n] EXCEPT !.pc = "claimed", !.left = l, !.job = j, !.attempt = a]
    <2>1. /\ j \in Jobs /\ j[2] = worker[n].rev /\ work \in [Jobs -> WorkRow]
          /\ work[j] \in WorkRow /\ work[j].state \in {"pending", "failed"}
      BY <1>4 DEF Claimable, EmbedInv, TypeOK
    <2>2. Present(db, j[1])
      BY <2>1 DEF EmbedInv, TypeOK, JobsSound
    <2>3. work[j].attempt \in Nat /\ worker[n].left \in 0..BatchSize /\ worker[n].left > 0
      BY <1>1, <1>2, <2>1 DEF WorkRow, Worker, WorkerSound
    <2>4. l \in 0..BatchSize /\ a \in Nat
      BY <2>3, BoundsAreNumbers
    <2>5. work' = [work EXCEPT ![j] = row]
      BY <1>4, <2>1 DEF WorkRow
    <2>6. worker' = [worker EXCEPT ![n] = x]
      BY <1>1, <1>4
    <2> HIDE DEF a, l
    <2>7. row \in WorkRow /\ row.state = "claimed"
      BY <2>1, <2>4 DEF WorkRow, WorkState
    <2>8. x \in Worker /\ x.pc = "claimed" /\ x.job = j /\ x.rev = worker[n].rev
      BY <1>1, <2>1, <2>4 DEF Worker, WorkerState
    <2> HIDE DEF row, x
    <2>9. WorkSound(j, row)
      BY <2>7 DEF WorkSound
    <2>10. QueueMoves
      BY <1>2, <2>1, <2>5, <2>7, <2>9, RowMoves DEF surroundings, storeVars
    <2>11. WorkerSound(x)
      BY <1>1, <1>2, <2>1, <2>2, <2>8 DEF WorkerSound, Claiming
    <2>12. WorkerMoves(n)
      BY <2>6, <2>8, <2>11 DEF WorkerMoves
    <2> QED
      BY <1>2, <2>10, <2>12, WorkerKeeps
  <1> QED
    BY <1>3, <1>4 DEF Claim

\* The steps that close or return a claim write its row when it still fits,
\* and nothing when it was lost.
LEMMA ClosingKeeps ==
    ASSUME EmbedInv, NEW n \in Nodes,
           \/ SpendBudget(n) \/ Renew(n) \/ CompleteEmpty(n) \/ Defer(n)
           \/ Quarantine(n) \/ RecordFailure(n)
    PROVE  EmbedInv'
  <1> DEFINE w == worker[n]
             j == w.job
             row == work[j]
  <1>1. WorkerSound(w) /\ w \in Worker /\ w.pc \in Claiming /\ MaxAttempts \in Nat
    BY BoundsAreNumbers
       DEF EmbedInv, TypeOK, SpendBudget, Renew, CompleteEmpty, Defer, Quarantine,
           RecordFailure, Claiming
  <1>2. UNCHANGED <<vectors, surroundings>>
    BY DEF SpendBudget, Renew, CompleteEmpty, Defer, Quarantine, RecordFailure,
           elsewhere, surroundings
  <1>3. WorkerMoves(n)
    <2>1. Continue(n) \/ EndDrain(n) \/ (Goto(n, "embedding") /\ w.pc = "renewing")
      BY DEF SpendBudget, Renew, CompleteEmpty, Defer, Quarantine, RecordFailure
    <2>2. w.pc # "unbound"
      BY <1>1 DEF Claiming
    <2> QED
      BY <2>1, <2>2, NextRoundMoves, GotoMoves DEF WorkerState, Claiming
  <1>4. CASE ~Fits(w)
    <2>1. UNCHANGED work
      BY <1>4 DEF SpendBudget, Renew, CompleteEmpty, Defer, Quarantine, RecordFailure
    <2> QED
      BY <1>2, <1>3, <2>1, QueueSame, WorkerKeeps DEF surroundings, storeVars
  <1>5. CASE Fits(w)
    <2>1. /\ j \in Jobs /\ row \in WorkRow /\ row.state = "claimed"
          /\ row.attempt = w.attempt /\ w.attempt \in Nat
      BY <1>1, <1>5, FittingClaim
    <2>2. row.attempt \in Nat /\ row.admin \in Nat /\ work \in [Jobs -> WorkRow]
      BY <2>1 DEF WorkRow, EmbedInv, TypeOK
    <2>3. ASSUME NEW new \in WorkRow, new.state # "none", WorkSound(j, new),
                 work' = [work EXCEPT ![j] = new]
          PROVE  EmbedInv'
      <3>1. QueueMoves
        BY <1>2, <2>1, <2>3, RowMoves DEF surroundings, storeVars
      <3> QED
        BY <1>2, <1>3, <3>1, WorkerKeeps
    <2>4. CASE SpendBudget(n)
      <3> DEFINE new == Failed(row, "claim_expired", w.attempt)
      <3>1. work' = [work EXCEPT ![j] = new]
        BY <1>5, <2>4 DEF SpendBudget
      <3>2. new = Failed(row, "claim_expired", w.attempt) /\ "claim_expired" \in ErrorClass
        BY DEF ErrorClass
      <3>3. row.attempt > MaxAttempts + row.admin
        BY <2>1, <2>4 DEF SpendBudget, OverBudget, EffectiveMax
      <3> HIDE DEF new, row
      <3>4. /\ new \in WorkRow /\ new.state = "dead" /\ new.attempt = row.attempt
            /\ new.admin = row.admin
        <4>1. w.attempt \in Int /\ row.attempt >= w.attempt
          BY <2>1
        <4>2. "claim_expired" \notin {"quarantined", "model_deactivated"}
          OBVIOUS
        <4> QED
          BY <2>1, <3>2, <4>1, <4>2, FailedRow
      <3>5. WorkSound(j, new)
        BY <1>1, <2>2, <3>3, <3>4 DEF WorkSound
      <3> QED
        BY <2>3, <3>1, <3>4, <3>5
    <2>5. CASE Renew(n)
      <3> DEFINE new == [row EXCEPT !.overdue = FALSE]
      <3>1. work' = [work EXCEPT ![j] = new]
        BY <1>5, <2>1, <2>2, <2>5 DEF Renew
      <3>2. new \in WorkRow /\ new.state = "claimed"
        BY <2>1 DEF WorkRow
      <3> HIDE DEF new
      <3> QED
        BY <2>3, <3>1, <3>2 DEF WorkSound
    <2>6. CASE CompleteEmpty(n)
      <3> DEFINE new == Completed(row)
      <3>1. work' = [work EXCEPT ![j] = new]
        BY <1>5, <2>6 DEF CompleteEmpty
      <3>2. new \in WorkRow /\ new.state = "done"
        BY <2>1 DEF Completed, WorkRow, WorkState
      <3>3. Outdated(w.rev) \/ ~IsLive(db, j[1])
        BY <1>1, <2>6 DEF CompleteEmpty, WorkerSound
      <3>4. Outdated(j[2])
        <4>1. row.state # "none" => j \in db.job
          BY <2>1 DEF EmbedInv, TypeOK
        <4>2. IsLive(db, j[1])
          BY <2>1, <4>1 DEF EmbedInv, JobsSound, Consistent, ErasedAreBare, Bare, IsLive,
                            Present, Jobs
        <4> QED
          BY <1>1, <3>3, <4>2 DEF WorkerSound
      <3> HIDE DEF new
      <3> QED
        BY <2>3, <3>1, <3>2, <3>4 DEF WorkSound
    <2>7. CASE Defer(n)
      <3> DEFINE f == Failed(row, "model_deactivated", row.attempt)
                 new == [f EXCEPT !.state = "pending"]
      <3>1. work' = [work EXCEPT ![j] = new]
        BY <1>5, <2>7 DEF Defer, Requeued
      <3>2. f = Failed(row, "model_deactivated", row.attempt)
            /\ "model_deactivated" \in ErrorClass
        BY DEF ErrorClass
      <3> HIDE DEF f
      <3>3. f \in WorkRow
        BY <2>1, <2>2, <3>2, FailedRow
      <3>4. new \in WorkRow /\ new.state = "pending"
        BY <3>3 DEF WorkRow, WorkState
      <3> HIDE DEF new
      <3> QED
        BY <2>3, <3>1, <3>4 DEF WorkSound
    <2>8. CASE Quarantine(n)
      <3> DEFINE new == Failed(row, "quarantined", w.attempt)
      <3>1. work' = [work EXCEPT ![j] = new]
        BY <1>5, <2>8 DEF Quarantine
      <3>2. new = Failed(row, "quarantined", w.attempt) /\ "quarantined" \in ErrorClass
        BY DEF ErrorClass
      <3> HIDE DEF new
      <3>3. new \in WorkRow /\ new.state = "dead" /\ new.class = "quarantined"
        BY <2>1, <2>2, <3>2, FailedRow
      <3> QED
        BY <2>3, <3>1, <3>3 DEF WorkSound
    <2>9. CASE RecordFailure(n)
      <3> DEFINE new == Failed(row, "item", EffectiveMax(row))
      <3>1. work' = [work EXCEPT ![j] = new]
        BY <1>5, <2>9 DEF RecordFailure
      <3>2. /\ new = Failed(row, "item", EffectiveMax(row)) /\ "item" \in ErrorClass
            /\ EffectiveMax(row) = MaxAttempts + row.admin /\ EffectiveMax(row) \in Int
        BY <1>1, <2>2 DEF ErrorClass, EffectiveMax
      <3> HIDE DEF new
      <3>3. /\ new \in WorkRow /\ new.attempt = row.attempt /\ new.admin = row.admin
            /\ row.attempt >= EffectiveMax(row) => new.state = "dead"
            /\ ~(row.attempt >= EffectiveMax(row)) => new.state = "failed"
        BY <2>1, <3>2, FailedRow
      <3> HIDE DEF row
      <3>4. new.state # "none" /\ WorkSound(j, new)
        BY <1>1, <2>2, <3>2, <3>3 DEF WorkSound
      <3> QED
        BY <2>3, <3>1, <3>3, <3>4
    <2> QED
      BY <2>4, <2>5, <2>6, <2>7, <2>8, <2>9
  <1> QED
    BY <1>4, <1>5

\* The vectors and the completion of their job commit together.
LEMMA CommitKeeps ==
    ASSUME EmbedInv, NEW n \in Nodes, Commit(n)
    PROVE  EmbedInv'
  <1> DEFINE w == worker[n]
             j == w.job
             new == Completed(work[j])
  <1>1. w.pc = "committing" /\ UNCHANGED surroundings
    BY DEF Commit, surroundings
  <1>2. CASE ~CommitGuard(w)
    <2>1. UNCHANGED <<vectors, work>> /\ Goto(n, "reconciling")
      BY <1>2 DEF Commit
    <2>2. QueueMoves /\ WorkerMoves(n)
      BY <1>1, <2>1, QueueSame, GotoMoves DEF surroundings, storeVars, WorkerState, Claiming
    <2> QED
      BY <1>1, <2>2, WorkerKeeps
  <1>3. CASE CommitGuard(w)
    <2>1. /\ vectors' = vectors \cup {j} /\ work' = [work EXCEPT ![j] = new] /\ Continue(n)
          /\ Fits(w) /\ Eligible(j[1]) /\ w.pc \in Claiming
      BY <1>1, <1>3 DEF Commit, CommitGuard, Claiming
    <2>2. j \in Jobs /\ work[j] \in WorkRow /\ work[j].state = "claimed"
      BY <2>1, FittingClaim
    <2>3. new \in WorkRow /\ new.state = "done"
      BY <2>2 DEF Completed, WorkRow, WorkState
    <2> HIDE DEF new
    <2>4. work \in [Jobs -> WorkRow] /\ vectors \subseteq Jobs
      BY DEF EmbedInv, TypeOK
    <2>5. work'[j] = new /\ \A k \in Jobs \ {j} : work'[k] = work[k]
      BY <2>1, <2>2, <2>4
    <2>6. \A k \in Jobs : WorkSound(k, work[k])'
      <3>1. \A k \in Jobs \ {j} : WorkSound(k, work[k])
        BY DEF EmbedInv
      <3> QED
        BY <1>1, <2>1, <2>3, <2>5, <3>1
           DEF WorkSound, Outdated, Known, Eligible, surroundings, storeVars
    <2>7. QueueMoves
      BY <2>1, <2>2, <2>3, <2>4, <2>5, <2>6 DEF QueueMoves
    <2>8. WorkerMoves(n)
      BY <1>1, <2>1, NextRoundMoves
    <2> QED
      BY <1>1, <2>7, <2>8, WorkerKeeps
  <1> QED
    BY <1>2, <1>3

\* The cursor of a pass moves to the last memory of its batch.
LEMMA LastOfBatch ==
    ASSUME pass.batch \subseteq Ids, pass.batch # {}
    PROVE  /\ \E i \in pass.batch : LastRank = Rank[i]
           /\ \A k \in pass.batch : Rank[k] <= LastRank
           /\ LastRank \in Nat \ {0}
  <1> DEFINE B == pass.batch
             Above(i) == {k \in B : Rank[k] > Rank[i]}
             D == {Cardinality(Above(i)) : i \in B}
             S == {Rank[i] : i \in B}
  <1>1. \A i \in B : Rank[i] \in Nat \ {0}
    BY RankOrders
  <1>2. IsFiniteSet(B)
    BY IdsFinite, FS_Subset
  <1>3. \A i \in B : /\ Above(i) \in SUBSET B /\ IsFiniteSet(Above(i))
                     /\ Cardinality(Above(i)) \in Nat
    BY <1>2, FS_Subset, FS_CardinalityType
  <1>4. D \in SUBSET Nat /\ D # {}
    BY <1>3
  <1>5. PICK c \in D : \A m \in D : c <= m
    <2> HIDE DEF D
    <2> QED
      BY <1>4, LeastNumber
  <1>6. PICK i \in B : c = Cardinality(Above(i))
    OBVIOUS
  <1>7. \A k \in B : Rank[k] <= Rank[i]
    <2> SUFFICES ASSUME NEW k \in B, Rank[k] > Rank[i] PROVE FALSE
      BY <1>1
    <2>1. Above(k) \in SUBSET Above(i) /\ k \in Above(i) /\ k \notin Above(k)
      BY <1>1
    <2>2. Cardinality(Above(k)) \in D /\ c \in Nat
      BY <1>4
    <2> HIDE DEF Above, D
    <2>3. /\ Cardinality(Above(k)) <= Cardinality(Above(i))
          /\ Cardinality(Above(i)) = Cardinality(Above(k)) => Above(i) = Above(k)
      BY <1>3, <2>1, FS_Subset
    <2>4. c <= Cardinality(Above(k))
      BY <1>5, <2>2
    <2>5. Cardinality(Above(i)) = Cardinality(Above(k))
      BY <1>3, <1>6, <2>3, <2>4
    <2> QED
      BY <2>1, <2>3, <2>5
  <1>8. S # {} /\ Rank[i] \in S /\ \A s \in S : s <= Rank[i]
    BY <1>7
  <1>9. LastRank \in S /\ \A s \in S : s <= LastRank
    BY <1>8 DEF LastRank
  <1> QED
    BY <1>1, <1>9

-----------------------------------------------------------------------------
(* Captures, erasures and admissions.                                      *)

\* A transaction on the memories keeps the registry and what the workers of
\* it rely on: a row stays a row, and what is gone stays gone.
LEMMA WorkersUnmoved ==
    ASSUME EmbedInv, UNCHANGED <<registry, worker>>,
           \A i \in Ids : Present(db, i) => Present(db, i)',
           \A i \in Ids : Present(db, i) /\ ~IsLive(db, i) => ~IsLive(db, i)'
    PROVE  \A n \in Nodes : WorkerSound(worker[n])'
  <1> SUFFICES ASSUME NEW n \in Nodes PROVE WorkerSound(worker[n])'
    OBVIOUS
  <1>1. WorkerSound(worker[n])
    BY DEF EmbedInv
  <1>2. worker[n].pc \in Claiming => worker[n].job[1] \in Ids
    BY <1>1 DEF WorkerSound, Jobs
  <1> QED
    BY <1>1, <1>2 DEF WorkerSound, Known, Outdated, Claiming

\* A capture is observed.
LEMMA ObserveKeeps ==
    ASSUME EmbedInv, NEW i \in Ids, Observe(i)
    PROVE  EmbedInv'
  <1>1. /\ target' = [target EXCEPT ![i] = db.model]
        /\ db' = db /\ clock' = clock /\ registry' = registry /\ work' = work
        /\ vectors' = vectors /\ worker' = worker /\ activation' = activation
        /\ pass' = pass /\ faults' = faults /\ config' = config
    BY DEF Observe, storeVars
  <1>2. TypeOK'
    BY <1>1 DEF EmbedInv, TypeOK, ModelSound
  <1>3. ModelSound' /\ JobsSound'
    BY <1>1 DEF EmbedInv, ModelSound, JobsSound, Known, Outdated, Present
  <1>4. \A n \in Nodes : WorkerSound(worker[n])'
    BY <1>1, WorkersUnmoved DEF Present, IsLive
  <1>5. \A j \in Jobs : WorkSound(j, work[j])'
    BY <1>1 DEF EmbedInv, WorkSound, Outdated, Known, Eligible
  <1> QED
    BY <1>1, <1>2, <1>3, <1>4, <1>5 DEF EmbedInv

\* A capture commits or aborts.
LEMMA CaptureKeeps ==
    ASSUME EmbedInv, NEW i \in Ids, CaptureCommit(i)
    PROVE  EmbedInv'
  <1> DEFINE s == IF i \in QuarantinedIds THEN "quarantined" ELSE "active"
             m == target[i]
  <1>1. /\ target' = [target EXCEPT ![i] = None] /\ ~Present(db, i) /\ m # None
        /\ clock' = clock /\ registry' = registry
        /\ vectors' = vectors /\ worker' = worker /\ activation' = activation
        /\ pass' = pass /\ faults' = faults /\ config' = config
    BY DEF CaptureCommit
  <1>2. target' \in [Ids -> 0..MaxRevision \cup {None}] /\ m \in 0..MaxRevision
    BY <1>1 DEF EmbedInv, TypeOK
  <1>3. CASE ~(EmbeddingGuard(db, m) /\ InsertGuard(db, i))
    <2>1. db' = db /\ work' = work
      BY <1>3 DEF CaptureCommit
    <2>2. TypeOK'
      BY <1>1, <1>2, <2>1 DEF EmbedInv, TypeOK
    <2>3. ModelSound' /\ JobsSound'
      BY <1>1, <2>1 DEF EmbedInv, ModelSound, JobsSound, Known, Outdated, Present
    <2>4. \A n \in Nodes : WorkerSound(worker[n])'
      BY <1>1, <2>1, WorkersUnmoved DEF Present, IsLive
    <2>5. \A j \in Jobs : WorkSound(j, work[j])'
      BY <1>1, <2>1 DEF EmbedInv, WorkSound, Outdated, Known, Eligible
    <2> QED
      BY <1>1, <2>1, <2>2, <2>3, <2>4, <2>5 DEF EmbedInv
  <1>4. CASE EmbeddingGuard(db, m) /\ InsertGuard(db, i)
    <2>1. /\ db' = Insert(db, i, s, m, clock)
          /\ work' = IF m = 0 THEN work ELSE StageWork(work, {<<i, m>>})
      BY <1>4 DEF CaptureCommit
    <2>2. s \in {"active", "quarantined"} /\ (s = "quarantined" => i \in QuarantinedIds)
      OBVIOUS
    <2>3. m \in Nat /\ clock \in Nat /\ Consistent(db) /\ InsertGuard(db, i)
      BY <1>2, <1>4, BoundsAreNumbers DEF EmbedInv
    <2> HIDE DEF s, m
    <2>4. /\ Consistent(db') /\ db'.row[i].status = s /\ db'.model = db.model
          /\ \A k \in Ids \ {i} : db'.row[k] = db.row[k]
          /\ m = 0 => db'.job = db.job
          /\ m # 0 => db'.job = db.job \cup {<<i, m>>}
      BY <2>1, <2>2, <2>3, CaptureTables
    <2>5. \A j \in Jobs : j[1] = i => work[j].state = "none"
      BY <1>1 DEF EmbedInv, TypeOK, JobsSound
    <2>6. m # 0 => <<i, m>> \in Jobs
      BY <1>2, BoundsAreNumbers DEF Jobs, Revisions
    <2>7. \A j \in Jobs : IF m # 0 /\ j = <<i, m>> THEN work'[j] = NewWork
                                                   ELSE work'[j] = work[j]
      BY <2>1, <2>5, <2>6 DEF StageWork
    <2>8. NewWork \in WorkRow /\ NewWork.state = "pending"
      BY DEF NewWork, NoWork, WorkRow, WorkState, ErrorClass
    <2>9. work' \in [Jobs -> WorkRow]
      <3>1. CASE m = 0
        BY <2>1, <3>1 DEF EmbedInv, TypeOK
      <3>2. CASE m # 0
        <4>1. work' = StageWork(work, {<<i, m>>})
          BY <2>1, <3>2
        <4> QED
          BY <4>1, <2>8 DEF StageWork, EmbedInv, TypeOK
      <3> QED
        BY <3>1, <3>2
    <2>10. \A j \in Jobs : work'[j].state # "none" <=> j \in db'.job
      <3> SUFFICES ASSUME NEW j \in Jobs PROVE work'[j].state # "none" <=> j \in db'.job
        OBVIOUS
      <3>1. work[j].state # "none" <=> j \in db.job
        BY DEF EmbedInv, TypeOK
      <3>2. CASE m # 0 /\ j = <<i, m>>
        BY <2>4, <2>7, <2>8, <3>2
      <3>3. CASE ~(m # 0 /\ j = <<i, m>>)
        <4>1. work'[j] = work[j]
          BY <2>7, <3>3
        <4>2. j \in db'.job <=> j \in db.job
          BY <2>4, <3>3
        <4> QED
          BY <3>1, <4>1, <4>2
      <3> QED
        BY <3>2, <3>3
    <2>11. db' \in Database
      BY <2>4 DEF Consistent
    <2>12. TypeOK'
      BY <1>1, <1>2, <2>9, <2>10, <2>11 DEF EmbedInv, TypeOK
    <2>13. ModelSound'
      BY <1>1, <2>4 DEF EmbedInv, ModelSound, Known, Outdated
    <2>14. \A k \in Ids : Present(db, k) => k # i /\ db'.row[k] = db.row[k]
      BY <1>1, <2>4
    <2>15. JobsSound'
      <3>1. db'.job \subseteq Jobs
        BY <2>4, <2>6 DEF EmbedInv, JobsSound
      <3>2. \A j \in db.job : Present(db, j[1])'
        BY <2>14 DEF EmbedInv, JobsSound, Present, Jobs
      <3>3. m # 0 => Present(db, i)'
        BY <2>2, <2>4 DEF Present
      <3> QED
        BY <2>4, <3>1, <3>2, <3>3 DEF JobsSound
    <2>16. \A k \in Ids : db'.row[k].status = "quarantined" => k \in QuarantinedIds
      BY <2>2, <2>4 DEF EmbedInv
    <2>17. \A n \in Nodes : WorkerSound(worker[n])'
      <3>1. \A k \in Ids : Present(db, k) => Present(db, k)' /\ (~IsLive(db, k) => ~IsLive(db, k)')
        BY <2>14 DEF Present, IsLive
      <3> QED
        BY <1>1, <3>1, WorkersUnmoved
    <2>18. \A j \in Jobs : WorkSound(j, work[j])'
      <3> SUFFICES ASSUME NEW j \in Jobs PROVE WorkSound(j, work[j])'
        OBVIOUS
      <3>1. WorkSound(j, work[j]) /\ j[1] \in Ids
        BY DEF EmbedInv, Jobs
      <3>2. CASE m # 0 /\ j = <<i, m>>
        BY <2>7, <2>8, <3>2 DEF WorkSound
      <3>3. CASE ~(m # 0 /\ j = <<i, m>>)
        <4>1. work'[j] = work[j]
          BY <2>7, <3>3
        <4>2. Eligible(j[1]) => Eligible(j[1])'
          BY <1>1, <2>4, <3>1 DEF Eligible, Present
        <4> QED
          BY <1>1, <3>1, <4>1, <4>2 DEF WorkSound, Outdated, Known
      <3> QED
        BY <3>2, <3>3
    <2> QED
      BY <1>1, <2>3, <2>4, <2>12, <2>13, <2>15, <2>16, <2>17, <2>18 DEF EmbedInv
  <1> QED
    BY <1>3, <1>4

\* An erasure takes the jobs and the vectors of its memory along.
LEMMA EraseKeeps ==
    ASSUME EmbedInv, NEW i \in Ids, EraseCommit(i)
    PROVE  EmbedInv'
  <1>1. /\ IsLive(db, i) /\ Consistent(db) /\ clock \in Nat
        /\ db' = Tombstones(DestroyKeys(Sweep(db, {i}), {i}), {i}, clock)
        /\ work' = [j \in Jobs |-> IF j[1] = i THEN NoWork ELSE work[j]]
        /\ vectors' = {v \in vectors : v[1] # i}
        /\ clock' = clock /\ registry' = registry /\ target' = target
        /\ worker' = worker /\ activation' = activation
        /\ pass' = pass /\ faults' = faults /\ config' = config
    BY DEF EraseCommit, EmbedInv
  <1>2. /\ Consistent(db') /\ db'.row[i].status = "erased" /\ db'.model = db.model
        /\ \A k \in Ids \ {i} : db'.row[k] = db.row[k]
        /\ db'.job = {j \in db.job : j[1] # i}
    BY <1>1, EraseTables
  <1>3. NoWork \in WorkRow /\ NoWork.state = "none"
    BY DEF NoWork, WorkRow, WorkState, ErrorClass
  <1>4. \A j \in Jobs : IF j[1] = i THEN work'[j] = NoWork ELSE work'[j] = work[j]
    BY <1>1
  <1>5. TypeOK'
    <2>1. work' \in [Jobs -> WorkRow]
      BY <1>1, <1>3 DEF EmbedInv, TypeOK
    <2>2. \A j \in Jobs : work'[j].state # "none" <=> j \in db'.job
      BY <1>2, <1>3, <1>4 DEF EmbedInv, TypeOK
    <2> QED
      BY <1>1, <1>2, <2>1, <2>2 DEF EmbedInv, TypeOK, Consistent
  <1>6. ModelSound'
    BY <1>1, <1>2 DEF EmbedInv, ModelSound, Known, Outdated
  <1>7. JobsSound'
    BY <1>2 DEF EmbedInv, JobsSound, Present, Jobs
  <1>8. \A k \in Ids : db'.row[k].status = "quarantined" => k \in QuarantinedIds
    BY <1>2 DEF EmbedInv
  <1>9. \A n \in Nodes : WorkerSound(worker[n])'
    <2>1. \A k \in Ids : /\ Present(db, k) => Present(db, k)'
                         /\ ~IsLive(db, k) => ~IsLive(db, k)'
      BY <1>1, <1>2 DEF Present, IsLive
    <2> QED
      BY <1>1, <2>1, WorkersUnmoved
  <1>10. \A j \in Jobs : WorkSound(j, work[j])'
    <2> SUFFICES ASSUME NEW j \in Jobs PROVE WorkSound(j, work[j])'
      OBVIOUS
    <2>1. WorkSound(j, work[j]) /\ j[1] \in Ids
      BY DEF EmbedInv, Jobs
    <2>2. CASE j[1] = i
      BY <1>3, <1>4, <2>2 DEF WorkSound
    <2>3. CASE j[1] # i
      BY <1>1, <1>2, <1>4, <2>1, <2>3 DEF WorkSound, Outdated, Known, Eligible
    <2> QED
      BY <2>2, <2>3
  <1> QED
    BY <1>1, <1>2, <1>5, <1>6, <1>7, <1>8, <1>9, <1>10 DEF EmbedInv

\* An admission opens the dead letters of its memory.
LEMMA AdmitKeeps ==
    ASSUME EmbedInv, NEW i \in Ids, Admit(i)
    PROVE  EmbedInv'
  <1> DEFINE again(j) == [work[j] EXCEPT !.state = "pending"]
             next(j) == IF j[1] = i /\ work[j].state = "dead" THEN again(j) ELSE work[j]
  <1>1. /\ db.row[i].status = "quarantined" /\ Consistent(db) /\ clock \in Nat
        /\ db' = Admitted(db, i)
        /\ work' = [j \in Jobs |-> next(j)]
        /\ vectors' = vectors
        /\ clock' = clock /\ registry' = registry /\ target' = target
        /\ worker' = worker /\ activation' = activation
        /\ pass' = pass /\ faults' = faults /\ config' = config
    BY DEF Admit, EmbedInv
  <1>2. /\ Consistent(db') /\ db'.row[i].status = "active" /\ db'.model = db.model
        /\ \A k \in Ids \ {i} : db'.row[k] = db.row[k]
        /\ db'.job = db.job
    BY <1>1, AdmitTables
  <1>3. \A j \in Jobs : work[j] \in WorkRow /\ WorkSound(j, work[j])
    BY DEF EmbedInv, TypeOK
  <1>4. \A j \in Jobs : again(j) \in WorkRow /\ again(j).state = "pending"
    BY <1>3 DEF WorkRow, WorkState
  <1> HIDE DEF again
  <1>5. \A j \in Jobs :
           /\ next(j) \in WorkRow /\ (next(j).state = "none" <=> work[j].state = "none")
           /\ WorkSound(j, next(j))
    BY <1>3, <1>4 DEF WorkSound
  <1> HIDE DEF next
  <1>6. TypeOK'
    BY <1>1, <1>2, <1>5 DEF EmbedInv, TypeOK, Consistent
  <1>7. ModelSound'
    BY <1>1, <1>2 DEF EmbedInv, ModelSound, Known, Outdated
  <1>8. JobsSound'
    BY <1>2 DEF EmbedInv, JobsSound, Present, Jobs
  <1>9. \A k \in Ids : db'.row[k].status = "quarantined" => k \in QuarantinedIds
    BY <1>2 DEF EmbedInv
  <1>10. \A n \in Nodes : WorkerSound(worker[n])'
    <2>1. \A k \in Ids : /\ Present(db, k) => Present(db, k)'
                         /\ Present(db, k) /\ ~IsLive(db, k) => ~IsLive(db, k)'
      BY <1>1, <1>2 DEF Present, IsLive
    <2> QED
      BY <1>1, <2>1, WorkersUnmoved
  <1>11. \A j \in Jobs : WorkSound(j, work[j])'
    <2> SUFFICES ASSUME NEW j \in Jobs PROVE WorkSound(j, work[j])'
      OBVIOUS
    <2>1. WorkSound(j, work'[j]) /\ j[1] \in Ids
      BY <1>1, <1>5 DEF Jobs
    <2>2. Eligible(j[1]) => Eligible(j[1])'
      BY <1>2, <2>1 DEF Eligible
    <2> QED
      BY <1>1, <2>1, <2>2 DEF WorkSound, Outdated, Known
  <1> QED
    BY <1>1, <1>2, <1>6, <1>7, <1>8, <1>9, <1>10, <1>11 DEF EmbedInv

-----------------------------------------------------------------------------
(* The registry and the operator's verbs.                                  *)

\* What a change of the active model leaves as it was.
SameButModel ==
    /\ db'.row = db.row /\ db'.job = db.job /\ Consistent(db')
    /\ UNCHANGED <<clock, work, vectors, target, worker, pass, config>>

\* Setting the flag touches no row.
LEMMA ModelTables ==
    ASSUME NEW d, Consistent(d), NEW r \in Nat, NEW e, e = [d EXCEPT !.model = r]
    PROVE  Consistent(e) /\ e.row = d.row /\ e.job = d.job /\ e.model = r
  <1>1. Consistent(e)
    BY ModelConsistent
  <1>2. d \in Draft
    BY DatabaseIsDraft DEF Consistent
  <1>3. e.row = d.row /\ e.job = d.job /\ e.model = r
    BY <1>2 DEF Draft
  <1> QED
    BY <1>1, <1>3

\* The registry only grows, so what is known and what is out of date stays so.
LEMMA ModelKeeps ==
    ASSUME EmbedInv, SameButModel, faults' \in Nat,
           registry' \in [Revisions -> Identities \cup {None}],
           \A r \in Revisions : Known(r) => Known(r)',
           ModelSound',
           activation' \in [Nodes -> Activation],
           \A n \in Nodes : activation'[n].pc # "idle" => activation'[n].rev \in Revisions
    PROVE  EmbedInv'
  <1>1. /\ db'.row = db.row /\ db'.job = db.job /\ Consistent(db') /\ clock' = clock
        /\ work' = work /\ vectors' = vectors /\ target' = target
        /\ worker' = worker /\ pass' = pass /\ config' = config
    BY DEF SameButModel
  <1>2. TypeOK'
    BY <1>1 DEF EmbedInv, TypeOK, Consistent
  <1>3. JobsSound'
    BY <1>1 DEF EmbedInv, JobsSound, Present
  <1>4. \A r : (Known(r) => Known(r)') /\ (Outdated(r) => Outdated(r)')
    BY DEF Known, Outdated
  <1>5. \A j \in Jobs : WorkSound(j, work[j])'
    BY <1>1, <1>4 DEF EmbedInv, WorkSound, Eligible
  <1>6. \A n \in Nodes : WorkerSound(worker[n])'
    BY <1>1, <1>4 DEF EmbedInv, WorkerSound, Present, IsLive
  <1> QED
    BY <1>1, <1>2, <1>3, <1>5, <1>6 DEF EmbedInv

\* The rows of an activation, when its guard holds.
LEMMA ActivationMoves ==
    ASSUME EmbedInv, NEW r \in Revisions, NEW id \in Identities,
           ActivateGuard(r, id), ActivateRows(r, id)
    PROVE  /\ db'.row = db.row /\ db'.job = db.job /\ Consistent(db') /\ db'.model = r
           /\ registry' \in [Revisions -> Identities \cup {None}]
           /\ \A s \in Revisions : Known(s) => Known(s)'
           /\ ModelSound'
  <1>1. registry \in [Revisions -> Identities \cup {None}] /\ id # None /\ Consistent(db)
        /\ registry' = [registry EXCEPT ![r] = id] /\ db' = [db EXCEPT !.model = r]
        /\ r \in Nat /\ r \in 0..MaxRevision
    BY NoneIsNoIdentity, BoundsAreNumbers DEF EmbedInv, TypeOK, ActivateRows, Revisions
  <1>2. db'.row = db.row /\ db'.job = db.job /\ Consistent(db') /\ db'.model = r
    BY <1>1, ModelTables
  <1>3. registry'[r] = id /\ \A s \in Revisions \ {r} : registry'[s] = registry[s]
    BY <1>1
  <1>4. \A s \in Revisions : (Known(s) => Known(s)') /\ (Known(s)' => s <= r)
    BY <1>1, <1>3, BoundsAreNumbers DEF Known, ActivateGuard, Revisions
  <1>5. ModelSound'
    BY <1>1, <1>2, <1>3, <1>4, BoundsAreNumbers DEF ModelSound, Known, Outdated, Revisions
  <1> QED
    BY <1>1, <1>2, <1>4, <1>5

\* An activation reads the latest revision, then the active one.
LEMMA ActivateReadsKeeps ==
    ASSUME EmbedInv, NEW n \in Nodes, ActivateReads(n)
    PROVE  EmbedInv'
  <1>1. /\ db' = db /\ clock' = clock /\ registry' = registry /\ work' = work
        /\ vectors' = vectors /\ worker' = worker /\ target' = target
        /\ pass' = pass /\ faults' = faults /\ config' = config
    BY DEF ActivateReads, storeVars
  <1>2. activation \in [Nodes -> Activation] /\ activation[n] \in Activation
    BY DEF EmbedInv, TypeOK
  <1>3. \E x \in Activation : /\ activation' = [activation EXCEPT ![n] = x]
                              /\ x.pc # "idle" => x.rev \in Revisions
    <2>1. CASE /\ Latest(registry) < MaxRevision
               /\ activation' = [activation EXCEPT ![n] =
                     [pc |-> "read", rev |-> Latest(registry) + 1]]
      <3>1. Latest(registry) \in Nat
        BY LatestKnown, BoundsAreNumbers DEF Known, Revisions
      <3>2. Latest(registry) + 1 \in Revisions /\ Latest(registry) + 1 \in Nat
        BY <2>1, <3>1, BoundsAreNumbers DEF Revisions
      <3> DEFINE x == [pc |-> "read", rev |-> Latest(registry) + 1]
      <3>3. x \in Activation /\ x.rev \in Revisions
        BY <3>2 DEF Activation
      <3>4. activation' = [activation EXCEPT ![n] = x]
        BY <2>1
      <3> HIDE DEF x
      <3> QED
        BY <3>3, <3>4
    <2>2. CASE /\ activation[n].pc = "read"
               /\ activation' = [activation EXCEPT ![n] =
                     IF db.model # 0 /\ registry[db.model] = config[n]
                     THEN IdleActivation ELSE [@ EXCEPT !.pc = "committing"]]
      <3> DEFINE y == [activation[n] EXCEPT !.pc = "committing"]
      <3>1. y \in Activation /\ y.rev = activation[n].rev
        BY <1>2 DEF Activation
      <3>2. IdleActivation \in Activation /\ IdleActivation.pc = "idle"
        BY DEF Activation, IdleActivation
      <3>3. \/ activation' = [activation EXCEPT ![n] = y]
            \/ activation' = [activation EXCEPT ![n] = IdleActivation]
        BY <1>2, <2>2
      <3>4. activation[n].rev \in Revisions
        BY <2>2 DEF EmbedInv
      <3> HIDE DEF y
      <3> QED
        BY <3>1, <3>2, <3>3, <3>4
    <2> QED
      BY <2>1, <2>2 DEF ActivateReads
  <1>4. /\ activation' \in [Nodes -> Activation]
        /\ \A m \in Nodes : activation'[m].pc # "idle" => activation'[m].rev \in Revisions
    BY <1>2, <1>3 DEF EmbedInv
  <1>5. SameButModel /\ ModelSound' /\ (\A r \in Revisions : Known(r) => Known(r)')
        /\ registry' \in [Revisions -> Identities \cup {None}] /\ faults' \in Nat
    BY <1>1 DEF SameButModel, EmbedInv, TypeOK, ModelSound, Known, Outdated
  <1> QED
    BY <1>4, <1>5, ModelKeeps

\* An activation commits or is refused.
LEMMA ActivateCommitKeeps ==
    ASSUME EmbedInv, NEW n \in Nodes, ActivateCommit(n)
    PROVE  EmbedInv'
  <1> DEFINE r == activation[n].rev
  <1>1. /\ activation[n].pc = "committing" /\ activation' = [activation EXCEPT ![n] = IdleActivation]
        /\ clock' = clock /\ work' = work
        /\ vectors' = vectors /\ worker' = worker /\ target' = target
        /\ pass' = pass /\ faults' = faults /\ config' = config
    BY DEF ActivateCommit
  <1>2. r \in Revisions /\ config[n] \in Identities /\ faults' \in Nat
    BY <1>1 DEF EmbedInv, TypeOK
  <1>3. /\ activation' \in [Nodes -> Activation]
        /\ \A m \in Nodes : activation'[m].pc # "idle" => activation'[m].rev \in Revisions
    BY <1>1 DEF EmbedInv, TypeOK, Activation, IdleActivation
  <1>4. /\ SameButModel /\ ModelSound' /\ (\A s \in Revisions : Known(s) => Known(s)')
        /\ registry' \in [Revisions -> Identities \cup {None}]
    <2>1. CASE ActivateGuard(r, config[n]) /\ ActivateRows(r, config[n])
      <3> HIDE DEF r
      <3> QED
        BY <1>1, <1>2, <2>1, ActivationMoves DEF SameButModel
    <2>2. CASE RegistryUnchanged
      BY <1>1, <2>2 DEF RegistryUnchanged, SameButModel, EmbedInv, TypeOK, ModelSound,
                        Known, Outdated
    <2> QED
      BY <2>1, <2>2 DEF ActivateCommit
  <1> QED
    BY <1>2, <1>3, <1>4, ModelKeeps

\* The flag is cleared by hand, and set again.
LEMMA DeactivateKeeps ==
    ASSUME EmbedInv, Deactivate \/ Reactivate
    PROVE  EmbedInv'
  <1>1. CASE Deactivate
    <2>1. /\ faults' = faults + 1 /\ db' = [db EXCEPT !.model = 0] /\ Consistent(db)
          /\ clock' = clock /\ work' = work /\ registry' = registry /\ activation' = activation
          /\ vectors' = vectors /\ worker' = worker /\ target' = target
          /\ pass' = pass /\ config' = config
      BY <1>1 DEF Deactivate, EmbedInv
    <2>2. db'.row = db.row /\ db'.job = db.job /\ Consistent(db') /\ db'.model = 0
      BY <2>1, ModelTables
    <2>3. ModelSound'
      BY <2>2, BoundsAreNumbers DEF ModelSound
    <2>4. SameButModel
      BY <2>1, <2>2 DEF SameButModel
    <2>5. faults' \in Nat /\ registry' \in [Revisions -> Identities \cup {None}]
          /\ (\A s \in Revisions : Known(s) => Known(s)')
          /\ activation' \in [Nodes -> Activation]
          /\ (\A m \in Nodes : activation'[m].pc # "idle" => activation'[m].rev \in Revisions)
      BY <2>1 DEF EmbedInv, TypeOK, Known
    <2> QED
      BY <2>3, <2>4, <2>5, ModelKeeps
  <1>2. CASE Reactivate
    <2> DEFINE r == Latest(registry)
    <2>1. /\ clock' = clock /\ work' = work /\ activation' = activation
          /\ vectors' = vectors /\ worker' = worker /\ target' = target
          /\ pass' = pass /\ config' = config /\ faults' = faults /\ r # 0
          /\ ActivateGuard(r, registry[r]) /\ ActivateRows(r, registry[r])
      BY <1>2 DEF Reactivate
    <2>2. r \in Revisions /\ registry[r] \in Identities
      BY <2>1, LatestKnown DEF Known, EmbedInv, TypeOK
    <2> HIDE DEF r
    <2>3. /\ SameButModel /\ ModelSound' /\ (\A s \in Revisions : Known(s) => Known(s)')
          /\ registry' \in [Revisions -> Identities \cup {None}]
      BY <2>1, <2>2, ActivationMoves DEF SameButModel
    <2>4. faults' \in Nat /\ activation' \in [Nodes -> Activation]
          /\ (\A m \in Nodes : activation'[m].pc # "idle" => activation'[m].rev \in Revisions)
      BY <2>1 DEF EmbedInv, TypeOK
    <2> QED
      BY <2>3, <2>4, ModelKeeps
  <1> QED
    BY <1>1, <1>2

\* A claim becomes overdue.
LEMMA OverdueKeeps ==
    ASSUME EmbedInv, NEW j \in Jobs, Overdue(j)
    PROVE  EmbedInv'
  <1> DEFINE new == [work[j] EXCEPT !.overdue = TRUE]
  <1>1. /\ work[j].state = "claimed" /\ faults' \in {faults, faults + 1}
        /\ db' = db /\ clock' = clock /\ registry' = registry
        /\ vectors' = vectors /\ target' = target /\ worker' = worker
        /\ activation' = activation /\ pass' = pass /\ config' = config
    BY DEF Overdue, storeVars
  <1>2. work \in [Jobs -> WorkRow] /\ work[j] \in WorkRow /\ faults' \in Nat
    BY <1>1 DEF EmbedInv, TypeOK
  <1>3. new \in WorkRow /\ new.state = "claimed"
    BY <1>1, <1>2 DEF WorkRow
  <1>4. work' = [work EXCEPT ![j] = new]
    BY <1>2 DEF Overdue
  <1> HIDE DEF new
  <1>5. WorkSound(j, new)
    BY <1>3 DEF WorkSound
  <1>6. QueueMoves
    BY <1>1, <1>3, <1>4, <1>5, RowMoves
  <1>7. TypeOK'
    BY <1>1, <1>2, <1>6 DEF EmbedInv, TypeOK, QueueMoves
  <1>8. ModelSound' /\ JobsSound'
    BY <1>1 DEF EmbedInv, ModelSound, JobsSound, Known, Outdated, Present
  <1>9. \A n \in Nodes : WorkerSound(worker[n])'
    BY <1>1, WorkersUnmoved DEF Present, IsLive
  <1> QED
    BY <1>1, <1>6, <1>7, <1>8, <1>9 DEF EmbedInv, QueueMoves

\* A node stops and starts again.
LEMMA CrashKeeps ==
    ASSUME EmbedInv, NEW n \in Nodes, Crash(n)
    PROVE  EmbedInv'
  <1>1. /\ faults' = faults + 1 /\ worker' = [worker EXCEPT ![n] = Unbound]
        /\ activation' = [activation EXCEPT ![n] = IdleActivation]
        /\ \E c \in Identities : config' = [config EXCEPT ![n] = c]
        /\ db' = db /\ clock' = clock /\ registry' = registry /\ work' = work
        /\ vectors' = vectors /\ target' = target /\ pass' = pass
    BY DEF Crash, storeVars
  <1>2. Unbound \in Worker /\ IdleActivation \in Activation
    BY BoundsAreNumbers DEF Unbound, Worker, WorkerState, IdleActivation, Activation
  <1>3. Unbound.pc = "unbound" /\ IdleActivation.pc = "idle"
    BY DEF Unbound, IdleActivation
  <1>4. TypeOK'
    <2>1. worker' \in [Nodes -> Worker] /\ activation' \in [Nodes -> Activation]
          /\ config' \in [Nodes -> Identities] /\ faults' \in Nat
      BY <1>1, <1>2 DEF EmbedInv, TypeOK
    <2> QED
      BY <1>1, <2>1 DEF EmbedInv, TypeOK
  <1>5. ModelSound' /\ JobsSound'
    BY <1>1 DEF EmbedInv, ModelSound, JobsSound, Known, Outdated, Present
  <1>6. \A m \in Nodes : WorkerSound(worker[m])'
    <2>1. WorkerSound(Unbound)
      BY <1>3 DEF WorkerSound, Claiming
    <2>2. \A m \in Nodes : WorkerSound(worker'[m])
      BY <1>1, <2>1 DEF EmbedInv, TypeOK
    <2> QED
      BY <1>1, <2>2 DEF WorkerSound, Known, Outdated, IsLive, Present
  <1>7. \A j \in Jobs : WorkSound(j, work[j])'
    BY <1>1 DEF EmbedInv, WorkSound, Outdated, Known, Eligible
  <1>8. \A m \in Nodes : activation'[m].pc # "idle" => activation'[m].rev \in Revisions
    BY <1>1, <1>3 DEF EmbedInv, TypeOK
  <1> QED
    BY <1>1, <1>4, <1>5, <1>6, <1>7, <1>8 DEF EmbedInv

\* The reads of a re-embedding pass.
LEMMA PassReadsKeep ==
    ASSUME EmbedInv, PassBind \/ PassSelect
    PROVE  EmbedInv'
  <1>1. /\ db' = db /\ clock' = clock /\ registry' = registry /\ work' = work
        /\ vectors' = vectors /\ worker' = worker /\ target' = target
        /\ activation' = activation /\ faults' = faults /\ config' = config
    BY DEF PassBind, PassSelect, storeVars
  <1>2. pass' \in Pass /\ pass'.rev \in Revisions
    <2>1. pass \in Pass /\ IdlePass \in Pass /\ db.model \in 0..MaxRevision
      BY BoundsAreNumbers DEF EmbedInv, TypeOK, ModelSound, IdlePass, Pass
    <2>2. CASE PassBind
      <3> DEFINE x == IF pass.pc = "finished" THEN IdlePass ELSE pass
      <3>1. x \in Pass /\ pass' = [x EXCEPT !.pc = "bound", !.rev = db.model]
        BY <2>1, <2>2 DEF PassBind
      <3>2. db.model \in Revisions
        BY <2>1, <2>2, BoundsAreNumbers DEF PassBind, Revisions
      <3> HIDE DEF x
      <3> QED
        BY <2>1, <3>1, <3>2 DEF Pass
    <2>3. CASE PassSelect
      <3> DEFINE b == FirstOf(Missing(pass.rev, pass.cursor), ReembedLimit)
                 m == Cardinality(Missing(pass.rev, pass.cursor)) > ReembedLimit
      <3>1. b \in SUBSET Ids /\ m \in BOOLEAN
        BY DEF FirstOf, Missing
      <3>2. pass' = [pass EXCEPT !.pc = "selected", !.batch = b, !.more = m]
        BY <2>3 DEF PassSelect
      <3>3. pass.rev \in Revisions
        BY <2>3 DEF PassSelect, EmbedInv
      <3> HIDE DEF b, m
      <3> QED
        BY <2>1, <3>1, <3>2, <3>3 DEF Pass
    <2> QED
      BY <2>2, <2>3
  <1>3. TypeOK'
    BY <1>1, <1>2 DEF EmbedInv, TypeOK
  <1>4. ModelSound' /\ JobsSound'
    BY <1>1 DEF EmbedInv, ModelSound, JobsSound, Known, Outdated, Present
  <1>5. \A n \in Nodes : WorkerSound(worker[n])'
    BY <1>1, WorkersUnmoved DEF Present, IsLive
  <1>6. \A j \in Jobs : WorkSound(j, work[j])'
    BY <1>1 DEF EmbedInv, WorkSound, Outdated, Known, Eligible
  <1> QED
    BY <1>1, <1>2, <1>3, <1>4, <1>5, <1>6 DEF EmbedInv

\* What a batch stages, when its guard holds: new rows for the memories that
\* had none, under the active revision.
LEMMA StagedBatch ==
    ASSUME EmbedInv, PassStage, PassGuard, NEW staged,
           staged = {<<i, pass.rev>> : i \in pass.batch}
    PROVE  /\ staged \in SUBSET Jobs
           /\ \A j \in staged : Eligible(j[1]) /\ j[2] = db.model
           /\ Consistent(db') /\ db'.row = db.row /\ db'.model = db.model
           /\ db'.job = db.job \cup staged
           /\ work' \in [Jobs -> WorkRow]
           /\ \A j \in Jobs : IF j \in staged /\ j \notin db.job
                              THEN work'[j].state = "pending" ELSE work'[j] = work[j]
  <1>1. pass \in Pass /\ pass.batch \subseteq Ids /\ Consistent(db) /\ ModelSound
        /\ work \in [Jobs -> WorkRow]
        /\ \A j \in Jobs : work[j].state # "none" <=> j \in db.job
    BY DEF EmbedInv, TypeOK, Pass
  <1>2. \A i \in pass.batch : Eligible(i) /\ pass.rev = db.model
    BY DEF PassGuard
  <1>3. pass.rev \in Revisions
    BY DEF PassStage, EmbedInv
  <1>4. staged \in SUBSET Jobs /\ \A j \in staged : Eligible(j[1]) /\ j[2] = db.model
    BY <1>1, <1>2, <1>3 DEF Jobs
  <1>5. work' = StageWork(work, staged) /\ db' = [db EXCEPT !.job = @ \cup staged]
    BY DEF PassStage
  <1>6. /\ Consistent(db') /\ db'.row = db.row /\ db'.model = db.model
        /\ db'.job = db.job \cup staged
    <2>1. \A j \in staged : db.row[j[1]].status # "erased"
      BY <1>4 DEF Eligible
    <2> QED
      BY <1>1, <1>4, <1>5, <2>1, StageTables
  <1>7. NewWork \in WorkRow /\ NewWork.state = "pending"
    BY DEF NewWork, NoWork, WorkRow, WorkState, ErrorClass
  <1>8. work' \in [Jobs -> WorkRow]
    BY <1>1, <1>5, <1>7 DEF StageWork
  <1>9. \A j \in Jobs : IF j \in staged /\ j \notin db.job
                        THEN work'[j] = NewWork ELSE work'[j] = work[j]
    BY <1>1, <1>5 DEF StageWork
  <1> QED
    BY <1>4, <1>6, <1>7, <1>8, <1>9

\* A batch of a pass is staged, or the pass starts over.
LEMMA PassStageKeeps ==
    ASSUME EmbedInv, PassStage
    PROVE  EmbedInv'
  <1>1. /\ clock' = clock /\ registry' = registry
        /\ vectors' = vectors /\ worker' = worker /\ target' = target
        /\ activation' = activation /\ faults' = faults /\ config' = config
    BY DEF PassStage
  <1>2. pass \in Pass /\ LastRank \in Nat
    <2>1. pass \in Pass
      BY DEF EmbedInv, TypeOK
    <2>2. CASE pass.batch = {}
      BY <2>1, <2>2 DEF LastRank, Pass
    <2>3. CASE pass.batch # {}
      BY <2>1, <2>3, LastOfBatch DEF Pass
    <2> QED
      BY <2>1, <2>2, <2>3
  <1>3. pass' \in Pass /\ pass'.pc \in {"idle", "finished"}
    <2> DEFINE p == IF pass.more THEN "idle" ELSE "finished"
               h == IF pass.cursor = 0 \/ pass.whole = pass.rev THEN pass.rev ELSE 0
    <2>1. p \in {"idle", "finished"} /\ h \in 0..MaxRevision
      BY <1>2, BoundsAreNumbers DEF Pass
    <2>2. \/ pass' = [pass EXCEPT !.pc = p, !.whole = h, !.cursor = LastRank, !.batch = {},
                                 !.more = FALSE]
          \/ pass' = [pass EXCEPT !.pc = "idle", !.batch = {}, !.more = FALSE]
      BY DEF PassStage
    <2> HIDE DEF p, h
    <2> QED
      BY <1>2, <2>1, <2>2 DEF Pass
  <1>4. CASE ~PassGuard
    <2>1. db' = db /\ work' = work
      BY <1>4 DEF PassStage
    <2>2. TypeOK'
      BY <1>1, <1>3, <2>1 DEF EmbedInv, TypeOK
    <2>3. ModelSound' /\ JobsSound'
      BY <1>1, <2>1 DEF EmbedInv, ModelSound, JobsSound, Known, Outdated, Present
    <2>4. \A n \in Nodes : WorkerSound(worker[n])'
      BY <1>1, <2>1, WorkersUnmoved DEF Present, IsLive
    <2>5. \A j \in Jobs : WorkSound(j, work[j])'
      BY <1>1, <2>1 DEF EmbedInv, WorkSound, Outdated, Known, Eligible
    <2> QED
      BY <1>1, <1>3, <2>1, <2>2, <2>3, <2>4, <2>5 DEF EmbedInv
  <1>5. CASE PassGuard
    <2> DEFINE staged == {<<i, pass.rev>> : i \in pass.batch}
    <2>0. staged = {<<i, pass.rev>> : i \in pass.batch}
      OBVIOUS
    <2> HIDE DEF staged
    <2>1. /\ staged \in SUBSET Jobs
          /\ \A j \in staged : Eligible(j[1]) /\ j[2] = db.model
          /\ Consistent(db') /\ db'.row = db.row /\ db'.model = db.model
          /\ db'.job = db.job \cup staged
          /\ work' \in [Jobs -> WorkRow]
          /\ \A j \in Jobs : IF j \in staged /\ j \notin db.job
                             THEN work'[j].state = "pending" ELSE work'[j] = work[j]
      BY <1>5, <2>0, StagedBatch
    <2>2. \A j \in Jobs : work'[j].state # "none" <=> j \in db'.job
      <3> SUFFICES ASSUME NEW j \in Jobs PROVE work'[j].state # "none" <=> j \in db'.job
        OBVIOUS
      <3>1. work[j].state # "none" <=> j \in db.job
        BY DEF EmbedInv, TypeOK
      <3> QED
        BY <2>1, <3>1
    <2>3. TypeOK'
      BY <1>1, <1>3, <2>1, <2>2 DEF EmbedInv, TypeOK, Consistent
    <2>4. ModelSound'
      BY <1>1, <2>1 DEF EmbedInv, ModelSound, Known, Outdated
    <2>5. JobsSound'
      BY <2>1 DEF EmbedInv, JobsSound, Present, Eligible
    <2>6. \A n \in Nodes : WorkerSound(worker[n])'
      BY <1>1, <2>1, WorkersUnmoved DEF Present, IsLive
    <2>7. \A j \in Jobs : WorkSound(j, work[j])'
      <3> SUFFICES ASSUME NEW j \in Jobs PROVE WorkSound(j, work[j])'
        OBVIOUS
      <3>1. WorkSound(j, work[j])
        BY DEF EmbedInv
      <3> QED
        BY <1>1, <2>1, <3>1 DEF WorkSound, Outdated, Known, Eligible
    <2>8. \A i \in Ids : db'.row[i].status = "quarantined" => i \in QuarantinedIds
      BY <2>1 DEF EmbedInv
    <2> QED
      BY <1>1, <1>3, <2>1, <2>3, <2>4, <2>5, <2>6, <2>7, <2>8 DEF EmbedInv
  <1> QED
    BY <1>4, <1>5

\* The vectors of a revision are dropped only when a newer one is active, or
\* when nothing is eligible.
LEMMA DropKeeps ==
    ASSUME EmbedInv, NEW r \in Revisions, DropRevision(r)
    PROVE  EmbedInv'
  <1>1. /\ db' = db /\ clock' = clock /\ registry' = registry /\ work' = work
        /\ worker' = worker /\ target' = target /\ pass' = pass
        /\ activation' = activation /\ faults' = faults /\ config' = config
        /\ Known(r)
    BY DEF DropRevision, storeVars, Known
  <1>2. TypeOK'
    <2>1. vectors' \subseteq vectors
      BY DEF DropRevision
    <2> QED
      BY <1>1, <2>1 DEF EmbedInv, TypeOK
  <1>3. ModelSound' /\ JobsSound'
    BY <1>1 DEF EmbedInv, ModelSound, JobsSound, Known, Outdated, Present
  <1>4. \A n \in Nodes : WorkerSound(worker[n])'
    BY <1>1, WorkersUnmoved DEF Present, IsLive
  <1>5. \A j \in Jobs : WorkSound(j, work[j])'
    <2> SUFFICES ASSUME NEW j \in Jobs PROVE WorkSound(j, work[j])'
      OBVIOUS
    <2>1. WorkSound(j, work[j]) /\ j[1] \in Ids
      BY DEF EmbedInv, Jobs
    <2>2. j \in vectors /\ Eligible(j[1]) /\ j \notin vectors' => Outdated(j[2])
      <3> SUFFICES ASSUME j \in vectors, Eligible(j[1]), j \notin vectors' PROVE Outdated(j[2])
        OBVIOUS
      <3>1. DropGuard /\ db.model # r /\ j[2] = r
        BY DEF DropRevision
      <3>2. <<j[1], db.model>> \in Jobs
        BY <2>1, <3>1 DEF DropGuard, EmbedInv, TypeOK
      <3>3. db.model # 0
        BY <3>2, BoundsAreNumbers DEF Jobs, Revisions
      <3> QED
        BY <1>1, <3>1, <3>3, InactiveOutdated DEF EmbedInv
    <2> QED
      BY <1>1, <2>1, <2>2 DEF WorkSound, Outdated, Known, Eligible
  <1> QED
    BY <1>1, <1>2, <1>3, <1>4, <1>5 DEF EmbedInv

-----------------------------------------------------------------------------
(* The invariant holds.                                                    *)

\* The initial state satisfies the invariant.
LEMMA EmbedInit == Init => EmbedInv
  <1> SUFFICES ASSUME Init PROVE EmbedInv
    OBVIOUS
  <1>1. /\ db = EmptyDatabase /\ clock = 0
        /\ registry = [r \in Revisions |-> None] /\ work = [j \in Jobs |-> NoWork]
        /\ vectors = {} /\ target = [i \in Ids |-> None]
        /\ worker = [n \in Nodes |-> Unbound] /\ activation = [n \in Nodes |-> IdleActivation]
        /\ pass = IdlePass /\ faults = 0 /\ config \in [Nodes -> Identities]
    BY DEF Init, StoreInit
  <1>2. Consistent(db) /\ db \in Database /\ clock \in Nat
    BY <1>1, EmptyConsistent DEF Consistent
  <1>3. db.model = 0 /\ db.job = {} /\ \A i \in Ids : db.row[i].status = "absent"
    BY <1>1 DEF EmptyDatabase, NoRow
  <1>4. /\ NoWork \in WorkRow /\ NoWork.state = "none"
        /\ Unbound \in Worker /\ Unbound.pc = "unbound"
        /\ IdleActivation \in Activation /\ IdleActivation.pc = "idle"
        /\ IdlePass \in Pass /\ IdlePass.pc = "idle"
    BY BoundsAreNumbers
       DEF NoWork, WorkRow, WorkState, ErrorClass, Unbound, Worker, WorkerState,
           IdleActivation, Activation, IdlePass, Pass
  <1>5. TypeOK
    BY <1>1, <1>2, <1>3, <1>4 DEF TypeOK
  <1>6. ModelSound /\ JobsSound
    BY <1>3, BoundsAreNumbers DEF ModelSound, JobsSound
  <1>7. \A j \in Jobs : WorkSound(j, work[j])
    BY <1>1, <1>4 DEF WorkSound
  <1>8. \A n \in Nodes : WorkerSound(worker[n])
    BY <1>1, <1>4 DEF WorkerSound, Claiming
  <1> QED
    BY <1>1, <1>2, <1>3, <1>4, <1>5, <1>6, <1>7, <1>8 DEF EmbedInv

\* Every step keeps the invariant.
LEMMA EmbedStep ==
    ASSUME EmbedInv, [Next]_vars
    PROVE  EmbedInv'
  <1>1. CASE Next
    <2>1. ASSUME NEW i \in Ids, Observe(i) \/ CaptureCommit(i) \/ EraseCommit(i) \/ Admit(i)
          PROVE  EmbedInv'
      BY <2>1, ObserveKeeps, CaptureKeeps, EraseKeeps, AdmitKeeps
    <2>2. ASSUME NEW n \in Nodes, WorkerStep(n) \/ ModelChanged(n)
          PROVE  EmbedInv'
      BY <2>2, ReadingKeeps, SweepKeeps, ClaimKeeps, ClosingKeeps, CommitKeeps DEF WorkerStep
    <2>3. ASSUME NEW n \in Nodes, Crash(n) \/ ActivateReads(n) \/ ActivateCommit(n)
          PROVE  EmbedInv'
      BY <2>3, CrashKeeps, ActivateReadsKeeps, ActivateCommitKeeps
    <2>4. ASSUME NEW j \in Jobs, Overdue(j)
          PROVE  EmbedInv'
      BY <2>4, OverdueKeeps
    <2>5. ASSUME OperatorStep
          PROVE  EmbedInv'
      BY <2>5, PassReadsKeep, PassStageKeeps, DropKeeps, DeactivateKeeps DEF OperatorStep
    <2> QED
      BY <1>1, <2>1, <2>2, <2>3, <2>4, <2>5 DEF Next
  <1>2. CASE UNCHANGED vars
    <2>1. /\ db' = db /\ clock' = clock /\ registry' = registry /\ work' = work
          /\ vectors' = vectors /\ worker' = worker /\ target' = target /\ pass' = pass
          /\ activation' = activation /\ faults' = faults /\ config' = config
      BY <1>2 DEF vars, storeVars, embedVars
    <2>2. TypeOK'
      BY <2>1 DEF EmbedInv, TypeOK
    <2>3. ModelSound' /\ JobsSound'
      BY <2>1 DEF EmbedInv, ModelSound, JobsSound, Known, Outdated, Present
    <2>4. \A n \in Nodes : WorkerSound(worker[n])'
      BY <2>1, WorkersUnmoved DEF Present, IsLive
    <2>5. \A j \in Jobs : WorkSound(j, work[j])'
      BY <2>1 DEF EmbedInv, WorkSound, Outdated, Known, Eligible
    <2> QED
      BY <2>1, <2>2, <2>3, <2>4, <2>5 DEF EmbedInv
  <1> QED
    BY <1>1, <1>2

\* The inductive invariant of the embedding pipeline.
THEOREM EmbedInvariance == Spec => []EmbedInv
  BY EmbedInit, EmbedStep, PTL DEF Spec

\* Type correctness: in particular the processing rows are exactly the jobs
\* that captures, passes and erasures leave in the scope.
THEOREM EmbedTypes == Spec => []TypeOK
  <1>1. EmbedInv => TypeOK
    BY DEF EmbedInv
  <1> QED
    BY <1>1, EmbedInvariance, PTL

\* A done job of the active revision has its vectors: it was closed with them,
\* or under a revision that is out of date and so is not the active one.
THEOREM DoneJobsEmbedded == Spec => []DoneMeansEmbedded
  <1>1. EmbedInv => DoneMeansEmbedded
    <2> SUFFICES ASSUME EmbedInv, NEW j \in Jobs, work[j].state = "done", j[2] = db.model
                 PROVE  j \in vectors
      BY DEF DoneMeansEmbedded
    <2>1. WorkSound(j, work[j]) /\ ModelSound /\ j[2] \in Revisions
      BY DEF EmbedInv, Jobs
    <2>2. ~Outdated(j[2])
      BY <2>1, BoundsAreNumbers DEF ModelSound, Revisions
    <2> QED
      BY <2>1, <2>2 DEF WorkSound
  <1> QED
    BY <1>1, EmbedInvariance, PTL

\* A job is given up only when its provider attempts are spent.
THEOREM BudgetSpent == Spec => []DeadOnlyAfterBudget
  <1>1. EmbedInv => DeadOnlyAfterBudget
    BY DEF EmbedInv, DeadOnlyAfterBudget, WorkSound
  <1> QED
    BY <1>1, EmbedInvariance, PTL

-----------------------------------------------------------------------------
(* The refinement of EmbeddingContract.                                    *)

\* What an observer of the contract sees does not change.
Unseen == EligibleIds' = EligibleIds /\ db'.model = db.model
          /\ JobStates' = JobStates /\ vectors' = vectors

ContractStep == [Contract!ContractNext]_(Contract!contractVars)

\* An unseen step is a stutter of the contract.
LEMMA UnseenStutters ==
    ASSUME Unseen
    PROVE  ContractStep
  BY DEF Unseen, ContractStep, Contract!contractVars

\* Rows that keep their outward state.
LEMMA SameJobStates ==
    ASSUME \A j \in Jobs : JobState(work'[j]) = JobState(work[j])
    PROVE  JobStates' = JobStates
  BY DEF JobStates, JobState

JobStateMoved(j, s) == JobStates' = [JobStates EXCEPT ![j] = s]

\* One row is written.
LEMMA OneJobState ==
    ASSUME EmbedInv, NEW j \in Jobs, NEW new, work' = [work EXCEPT ![j] = new]
    PROVE  /\ JobStateMoved(j, JobState(new))
           /\ JobStates[j] = JobState(work[j])
           /\ JobState(new) = JobState(work[j]) => JobStates' = JobStates
  <1>1. work'[j] = new /\ \A k \in Jobs \ {j} : work'[k] = work[k]
    BY DEF EmbedInv, TypeOK
  <1> QED
    BY <1>1 DEF JobStateMoved, JobStates, JobState

\* The outward state of a row.
LEMMA OpenStates ==
    ASSUME NEW row
    PROVE  /\ row.state \in {"pending", "claimed", "failed"} => JobState(row) = "open"
           /\ row.state = "none" => JobState(row) = "none"
           /\ row.state = "done" => JobState(row) = "settled"
           /\ row.state = "dead" => JobState(row) = "dead"
  BY DEF JobState

\* The initial states.
LEMMA ContractStarts == Init => Contract!ContractInit
  <1> SUFFICES ASSUME Init PROVE Contract!ContractInit
    OBVIOUS
  <1>1. /\ db = EmptyDatabase /\ work = [j \in Jobs |-> NoWork] /\ vectors = {}
    BY DEF Init, StoreInit
  <1>2. db.model = 0 /\ \A i \in Ids : db.row[i].status = "absent"
    BY <1>1 DEF EmptyDatabase, NoRow
  <1>3. EligibleIds = {}
    BY <1>2 DEF EligibleIds, Eligible
  <1>4. JobStates = [j \in Jobs |-> "none"]
    BY <1>1 DEF JobStates, JobState, NoWork
  <1> QED
    BY <1>1, <1>2, <1>3, <1>4 DEF Contract!ContractInit, Contract!ContractJobs, Jobs

\* A step that leaves the rows, the vectors and the outward states alone.
LEMMA RowsUnseen ==
    ASSUME db'.row = db.row, db'.model = db.model, vectors' = vectors, JobStates' = JobStates
    PROVE  ContractStep
  <1>1. EligibleIds' = EligibleIds
    BY DEF EligibleIds, Eligible
  <1> QED
    BY <1>1, UnseenStutters DEF Unseen

\* A capture lets its memory enter, with a job under the active revision.
LEMMA CaptureRefines ==
    ASSUME EmbedInv, NEW i \in Ids, CaptureCommit(i)
    PROVE  ContractStep
  <1> DEFINE s == IF i \in QuarantinedIds THEN "quarantined" ELSE "active"
             m == target[i]
  <1>1. vectors' = vectors /\ ~Present(db, i) /\ m # None /\ m \in 0..MaxRevision
    BY DEF CaptureCommit, EmbedInv, TypeOK
  <1>2. CASE ~(EmbeddingGuard(db, m) /\ InsertGuard(db, i))
    <2>1. db' = db /\ work' = work
      BY <1>2 DEF CaptureCommit
    <2> QED
      BY <1>1, <2>1, RowsUnseen DEF JobStates, JobState
  <1>3. CASE EmbeddingGuard(db, m) /\ InsertGuard(db, i)
    <2> DEFINE S == IF m = 0 THEN {} ELSE {<<i, m>>}
    <2>1. /\ db' = Insert(db, i, s, m, clock)
          /\ work' = IF m = 0 THEN work ELSE StageWork(work, {<<i, m>>})
      BY <1>3 DEF CaptureCommit
    <2>2. s \in {"active", "quarantined"}
      OBVIOUS
    <2>3. m \in Nat /\ clock \in Nat /\ Consistent(db) /\ InsertGuard(db, i)
      BY <1>1, <1>3, BoundsAreNumbers DEF EmbedInv
    <2> HIDE DEF s, m
    <2>4. /\ db'.row[i].status = s /\ db'.model = db.model
          /\ \A k \in Ids \ {i} : db'.row[k] = db.row[k]
      BY <2>1, <2>2, <2>3, CaptureTables
    <2>5. \A j \in Jobs : j[1] = i => work[j].state = "none"
      BY <1>1 DEF EmbedInv, TypeOK, JobsSound
    <2>6. S \subseteq Jobs /\ \A j \in S : j[1] = i
      BY <1>1, BoundsAreNumbers DEF Jobs, Revisions
    <2>7. \A j \in Jobs : IF j \in S THEN work'[j] = NewWork ELSE work'[j] = work[j]
      BY <2>1, <2>5, <2>6 DEF StageWork
    <2> HIDE DEF S
    <2>8. NewWork.state = "pending"
      BY DEF NewWork, NoWork
    <2>9. JobStates' = [j \in Jobs |-> IF j \in S THEN "open" ELSE JobStates[j]]
      BY <2>7, <2>8 DEF JobStates, JobState
    <2>10. \A j \in S : JobStates[j] = "none"
      BY <2>5, <2>6 DEF JobStates, JobState
    <2>11. i \notin EligibleIds /\ EligibleIds' \in {EligibleIds, EligibleIds \cup {i}}
      <3>1. i \notin EligibleIds
        BY <1>1 DEF EligibleIds, Eligible, Present
      <3>2. \A k \in Ids \ {i} : k \in EligibleIds' <=> k \in EligibleIds
        BY <2>4 DEF EligibleIds, Eligible
      <3>3. EligibleIds \subseteq Ids /\ EligibleIds' \subseteq Ids
        BY DEF EligibleIds
      <3> QED
        BY <3>1, <3>2, <3>3
    <2>12. S \in SUBSET {j \in Contract!OfMemory(i) : JobStates[j] \in {"none", "dead"}}
      BY <2>6, <2>10 DEF Contract!OfMemory, Contract!ContractJobs, Jobs
    <2>13. Contract!Enter(i)
      BY <1>1, <2>4, <2>9, <2>11, <2>12 DEF Contract!Enter, Contract!ContractJobs, Jobs
    <2> QED
      BY <2>13 DEF ContractStep, Contract!ContractNext
  <1> QED
    BY <1>2, <1>3

\* An admission lets its memory enter and opens its dead letters.
LEMMA AdmitRefines ==
    ASSUME EmbedInv, NEW i \in Ids, Admit(i)
    PROVE  ContractStep
  <1> DEFINE S == {j \in Jobs : j[1] = i /\ work[j].state = "dead"}
             again(j) == [work[j] EXCEPT !.state = "pending"]
  <1>1. /\ db.row[i].status = "quarantined" /\ Consistent(db) /\ db' = Admitted(db, i)
        /\ vectors' = vectors
        /\ work' = [j \in Jobs |-> IF j[1] = i /\ work[j].state = "dead"
                                   THEN again(j) ELSE work[j]]
    BY DEF Admit, EmbedInv
  <1>2. /\ db'.row[i].status = "active" /\ db'.model = db.model
        /\ \A k \in Ids \ {i} : db'.row[k] = db.row[k]
    BY <1>1, AdmitTables
  <1>3. \A j \in Jobs : again(j).state = "pending"
    BY DEF EmbedInv, TypeOK, WorkRow
  <1> HIDE DEF again
  <1>4. \A j \in Jobs : IF j \in S THEN work'[j] = again(j) ELSE work'[j] = work[j]
    BY <1>1
  <1>5. \A j \in S : JobStates[j] = "dead" /\ j[1] = i /\ j \in Jobs
    BY DEF JobStates, JobState
  <1> HIDE DEF S
  <1>6. JobStates' = [j \in Jobs |-> IF j \in S THEN "open" ELSE JobStates[j]]
    BY <1>3, <1>4 DEF JobStates, JobState
  <1>7. i \notin EligibleIds /\ EligibleIds' = EligibleIds \cup {i}
    BY <1>1, <1>2 DEF EligibleIds, Eligible
  <1>8. S \in SUBSET {j \in Contract!OfMemory(i) : JobStates[j] \in {"none", "dead"}}
    BY <1>5 DEF Contract!OfMemory, Contract!ContractJobs, Jobs
  <1>9. Contract!Enter(i)
    BY <1>1, <1>2, <1>6, <1>7, <1>8 DEF Contract!Enter, Contract!ContractJobs, Jobs
  <1> QED
    BY <1>9 DEF ContractStep, Contract!ContractNext

\* An erased memory leaves with its jobs and its vectors.
LEMMA EraseRefines ==
    ASSUME EmbedInv, NEW i \in Ids, EraseCommit(i)
    PROVE  ContractStep
  <1>1. /\ IsLive(db, i) /\ Consistent(db) /\ clock \in Nat /\ vectors \subseteq Jobs
        /\ db' = Tombstones(DestroyKeys(Sweep(db, {i}), {i}), {i}, clock)
        /\ work' = [j \in Jobs |-> IF j[1] = i THEN NoWork ELSE work[j]]
        /\ vectors' = {v \in vectors : v[1] # i}
    BY DEF EraseCommit, EmbedInv, TypeOK
  <1>2. /\ db'.row[i].status = "erased" /\ db'.model = db.model
        /\ \A k \in Ids \ {i} : db'.row[k] = db.row[k]
    BY <1>1, EraseTables
  <1>3. EligibleIds' = EligibleIds \ {i}
    BY <1>2 DEF EligibleIds, Eligible
  <1>4. JobStates' = [j \in Jobs |-> IF j[1] = i THEN "none" ELSE JobStates[j]]
    BY <1>1 DEF JobStates, JobState, NoWork
  <1>5. vectors' = vectors \ Contract!OfMemory(i)
    BY <1>1 DEF Contract!OfMemory, Contract!ContractJobs, Jobs
  <1>6. Contract!Leave(i)
    BY <1>2, <1>3, <1>4, <1>5 DEF Contract!Leave, Contract!ContractJobs, Jobs
  <1> QED
    BY <1>6 DEF ContractStep, Contract!ContractNext

\* A change of the active model is a switch.
LEMMA ModelRefines ==
    ASSUME EmbedInv, EmbedInv',
           (\E n \in Nodes : ActivateCommit(n)) \/ Deactivate \/ Reactivate
    PROVE  ContractStep
  <1>1. vectors' = vectors /\ work' = work /\ db'.row = db.row
    <2>1. \/ db' = db
          \/ \E r \in Nat : db' = [db EXCEPT !.model = r]
      <3>1. ASSUME NEW n \in Nodes, ActivateCommit(n)
            PROVE  db' = db \/ \E r \in Nat : db' = [db EXCEPT !.model = r]
        <4>1. activation[n].rev \in Nat
          BY DEF EmbedInv, TypeOK, Activation
        <4> QED
          BY <3>1, <4>1 DEF ActivateCommit, ActivateRows, RegistryUnchanged
      <3>2. Latest(registry) \in Nat
        BY LatestKnown, BoundsAreNumbers DEF Known, Revisions
      <3> QED
        BY <3>1, <3>2 DEF Deactivate, Reactivate, ActivateRows
    <2>2. db'.row = db.row
      BY <2>1, ModelTables DEF EmbedInv
    <2> QED
      BY <2>2 DEF ActivateCommit, Deactivate, Reactivate
  <1>2. EligibleIds' = EligibleIds /\ JobStates' = JobStates
    BY <1>1 DEF EligibleIds, Eligible, JobStates, JobState
  <1>3. db'.model \in Revisions \cup {0}
    BY BoundsAreNumbers DEF EmbedInv, ModelSound, Known
  <1>4. Contract!Switch
    BY <1>1, <1>2, <1>3 DEF Contract!Switch
  <1> QED
    BY <1>4 DEF ContractStep, Contract!ContractNext

\* A batch of a pass opens jobs of eligible memories under the active revision.
LEMMA PassRefines ==
    ASSUME EmbedInv, PassStage
    PROVE  ContractStep
  <1>1. vectors' = vectors
    BY DEF PassStage
  <1>2. CASE ~PassGuard
    <2>1. db' = db /\ work' = work
      BY <1>2 DEF PassStage
    <2> QED
      BY <1>1, <2>1, RowsUnseen DEF JobStates, JobState
  <1>3. CASE PassGuard
    <2> DEFINE staged == {<<i, pass.rev>> : i \in pass.batch}
               S == staged \ db.job
    <2>0. staged = {<<i, pass.rev>> : i \in pass.batch}
      OBVIOUS
    <2> HIDE DEF staged
    <2>1. /\ staged \in SUBSET Jobs
          /\ \A j \in staged : Eligible(j[1]) /\ j[2] = db.model
          /\ db'.row = db.row /\ db'.model = db.model
          /\ \A j \in Jobs : IF j \in staged /\ j \notin db.job
                             THEN work'[j].state = "pending" ELSE work'[j] = work[j]
      BY <1>3, <2>0, StagedBatch
    <2>2. \A j \in S : work[j].state = "none" /\ j \in Jobs /\ j \in staged
      BY <2>1 DEF EmbedInv, TypeOK
    <2>3. \A j \in Jobs : IF j \in S THEN work'[j].state = "pending" ELSE work'[j] = work[j]
      BY <2>1
    <2> HIDE DEF S
    <2>4. JobStates' = [j \in Jobs |-> IF j \in S THEN "open" ELSE JobStates[j]]
      BY <2>3 DEF JobStates, JobState
    <2>5. EligibleIds' = EligibleIds
      BY <2>1 DEF EligibleIds, Eligible
    <2>6. S \in SUBSET {j \in Contract!ContractJobs :
                           JobStates[j] = "none" /\ j[2] = db.model /\ j[1] \in EligibleIds}
      BY <2>1, <2>2 DEF Contract!ContractJobs, Jobs, JobStates, JobState, EligibleIds
    <2>7. Contract!Reembed
      BY <1>1, <2>1, <2>4, <2>5, <2>6 DEF Contract!Reembed, Contract!ContractJobs, Jobs
    <2> QED
      BY <2>7 DEF ContractStep, Contract!ContractNext
  <1> QED
    BY <1>2, <1>3

\* The vectors of a revision go when every eligible memory has newer ones.
LEMMA DropRefines ==
    ASSUME EmbedInv, NEW r \in Revisions, DropRevision(r)
    PROVE  ContractStep
  <1>1. db' = db /\ work' = work
    BY DEF DropRevision, storeVars
  <1>2. EligibleIds' = EligibleIds /\ JobStates' = JobStates
    BY <1>1 DEF EligibleIds, Eligible, JobStates, JobState
  <1>3. CASE DropGuard /\ db.model # r
    <2>1. vectors' = {v \in vectors : v[2] # r}
      BY <1>3 DEF DropRevision
    <2>2. \A i \in EligibleIds : <<i, db.model>> \in vectors
      BY <1>3 DEF DropGuard, EligibleIds
    <2>3. Contract!Drop(r)
      BY <1>1, <1>2, <1>3, <2>1, <2>2 DEF Contract!Drop
    <2> QED
      BY <2>3 DEF ContractStep, Contract!ContractNext
  <1>4. CASE ~(DropGuard /\ db.model # r)
    <2>1. vectors' = vectors
      BY <1>4 DEF DropRevision
    <2> QED
      BY <1>1, <1>2, <2>1, UnseenStutters DEF Unseen
  <1> QED
    BY <1>3, <1>4

\* The steps of a worker that read, claim, renew, defer or sweep are unseen:
\* a row that is waiting, claimed or failed is open.
LEMMA WorkerUnseen ==
    ASSUME EmbedInv, NEW n \in Nodes,
           \/ Bind(n) \/ DrainSweep(n) \/ DrainCheck(n) \/ Claim(n) \/ ReadActive(n)
           \/ ReadMemory(n) \/ Renew(n) \/ Embed(n) \/ Reconcile(n) \/ Recheck(n)
           \/ Defer(n) \/ ModelChanged(n)
    PROVE  ContractStep
  <1>1. db' = db /\ vectors' = vectors
    BY DEF Bind, DrainSweep, DrainCheck, Claim, ReadActive, ReadMemory, Renew, Embed,
           Reconcile, Recheck, Defer, ModelChanged, elsewhere, storeVars
  <1>2. work \in [Jobs -> WorkRow]
    BY DEF EmbedInv, TypeOK
  <1>3. \A j \in Jobs : \/ work'[j] = work[j]
                        \/ /\ work[j].state \in {"pending", "claimed", "failed"}
                           /\ work'[j].state \in {"pending", "claimed", "failed"}
    <2>1. CASE \/ Bind(n) \/ DrainCheck(n) \/ ReadActive(n) \/ ReadMemory(n) \/ Embed(n)
               \/ Reconcile(n) \/ Recheck(n) \/ ModelChanged(n)
      BY <2>1 DEF Bind, DrainCheck, ReadActive, ReadMemory, Embed, Reconcile, Recheck,
                  ModelChanged
    <2>2. CASE DrainSweep(n)
      <3> DEFINE closed(j) == [work[j] EXCEPT !.state = "failed", !.overdue = FALSE]
      <3>1. \A j \in Jobs : closed(j).state = "failed"
        BY <1>2 DEF WorkRow
      <3>2. \A j \in Jobs : work'[j] = IF work[j].state = "claimed" /\ work[j].overdue
                                       THEN closed(j) ELSE work[j]
        BY <2>2 DEF DrainSweep
      <3> HIDE DEF closed
      <3> QED
        BY <3>1, <3>2
    <2>3. CASE Claim(n)
      <3>1. CASE UNCHANGED work
        BY <3>1
      <3>2. ASSUME NEW k \in Claimable(n),
                   work' = [work EXCEPT ![k].state = "claimed", ![k].attempt = @ + 1]
            PROVE  \A j \in Jobs : \/ work'[j] = work[j]
                        \/ /\ work[j].state \in {"pending", "claimed", "failed"}
                           /\ work'[j].state \in {"pending", "claimed", "failed"}
        <4>1. k \in Jobs /\ work[k].state \in {"pending", "failed"}
          BY <3>2 DEF Claimable
        <4>2. work'[k].state = "claimed" /\ \A j \in Jobs \ {k} : work'[j] = work[j]
          BY <1>2, <3>2, <4>1 DEF WorkRow
        <4> QED
          BY <4>1, <4>2
      <3> QED
        BY <2>3, <3>1, <3>2 DEF Claim
    <2>4. CASE Renew(n) \/ Defer(n)
      <3>1. CASE ~Fits(worker[n])
        BY <2>4, <3>1 DEF Renew, Defer
      <3>2. CASE Fits(worker[n])
        <4> DEFINE k == worker[n].job
                   f == Failed(work[k], "model_deactivated", work[k].attempt)
        <4>1. k \in Jobs /\ work[k] \in WorkRow /\ work[k].state = "claimed"
          BY <2>4, <3>2, FittingClaim DEF Renew, Defer, Claiming
        <4>2. f \in WorkRow
          <5>1. f = Failed(work[k], "model_deactivated", work[k].attempt)
                /\ "model_deactivated" \in ErrorClass /\ work[k].attempt \in Int
            BY <4>1 DEF ErrorClass, WorkRow
          <5> HIDE DEF f
          <5> QED
            BY <4>1, <5>1, FailedRow
        <4>3. \/ work' = [work EXCEPT ![k] = [f EXCEPT !.state = "pending"]]
              \/ work' = [work EXCEPT ![k] = [work[k] EXCEPT !.overdue = FALSE]]
          BY <1>2, <2>4, <3>2, <4>1 DEF Renew, Defer, Requeued
        <4> HIDE DEF f, k
        <4>4. work'[k].state \in {"pending", "claimed"}
              /\ \A j \in Jobs \ {k} : work'[j] = work[j]
          BY <1>2, <4>1, <4>2, <4>3 DEF WorkRow
        <4> QED
          BY <4>1, <4>4
      <3> QED
        BY <3>1, <3>2
    <2> QED
      BY <2>1, <2>2, <2>3, <2>4
  <1>4. JobStates' = JobStates
    BY <1>3, OpenStates, SameJobStates
  <1> QED
    BY <1>1, <1>4, RowsUnseen

\* A claim that still fits is settled without vectors only when its revision
\* is not the active one, and is given up or stays open when it failed; a
\* claim that was lost changes nothing.
LEMMA ClosingRefines ==
    ASSUME EmbedInv, NEW n \in Nodes,
           SpendBudget(n) \/ CompleteEmpty(n) \/ Quarantine(n) \/ RecordFailure(n)
    PROVE  ContractStep
  <1> DEFINE w == worker[n]
             j == w.job
             row == work[j]
  <1>1. db' = db /\ vectors' = vectors
    BY DEF SpendBudget, CompleteEmpty, Quarantine, RecordFailure, elsewhere, storeVars
  <1>2. EligibleIds' = EligibleIds
    BY <1>1 DEF EligibleIds, Eligible
  <1>3. CASE ~Fits(w)
    <2>1. work' = work
      BY <1>3 DEF SpendBudget, CompleteEmpty, Quarantine, RecordFailure
    <2> QED
      BY <1>1, <2>1, RowsUnseen DEF JobStates, JobState
  <1>4. CASE Fits(w)
    <2>1. w.pc \in Claiming
      BY DEF SpendBudget, CompleteEmpty, Quarantine, RecordFailure, Claiming
    <2>2. j \in Jobs /\ row \in WorkRow /\ row.state = "claimed"
      BY <1>4, <2>1, FittingClaim
    <2>3. JobState(row) = "open"
      BY <2>2, OpenStates
    <2>4. CASE CompleteEmpty(n)
      <3> DEFINE new == Completed(row)
      <3>1. work' = [work EXCEPT ![j] = new]
        BY <1>4, <2>4 DEF CompleteEmpty
      <3>2. new.state = "done"
        BY <2>2 DEF Completed, WorkRow
      <3> HIDE DEF new
      <3>3. JobStateMoved(j, "settled") /\ JobStates[j] = "open"
        BY <2>2, <2>3, <3>1, <3>2, OneJobState, OpenStates
      <3>4. j[2] # db.model
        <4>1. WorkerSound(w) /\ ModelSound
          BY DEF EmbedInv
        <4>2. IsLive(db, j[1])
          <5>1. j \in db.job
            BY <2>2 DEF EmbedInv, TypeOK
          <5> QED
            BY <2>2, <5>1 DEF EmbedInv, JobsSound, Consistent, ErasedAreBare, Bare, IsLive,
                              Present, Jobs
        <4>3. Outdated(j[2])
          BY <2>1, <2>4, <4>1, <4>2 DEF CompleteEmpty, WorkerSound
        <4>4. j[2] \in Revisions
          BY <2>2 DEF Jobs
        <4> QED
          BY <4>1, <4>3, <4>4, BoundsAreNumbers DEF ModelSound, Revisions
      <3>5. Contract!SettleEmpty(j)
        BY <1>1, <1>2, <3>3, <3>4 DEF Contract!SettleEmpty, JobStateMoved
      <3> QED
        BY <2>2, <3>5 DEF ContractStep, Contract!ContractNext, Contract!ContractJobs, Jobs
    <2>5. ASSUME NEW new \in WorkRow, new.state \in {"dead", "failed"},
                 work' = [work EXCEPT ![j] = new]
          PROVE  ContractStep
      <3>1. CASE new.state = "failed"
        <4>1. JobState(new) = JobState(row)
          BY <2>3, <3>1, OpenStates
        <4>2. JobStates' = JobStates
          BY <2>2, <2>5, <4>1, OneJobState
        <4> QED
          BY <1>1, <4>2, RowsUnseen
      <3>2. CASE new.state = "dead"
        <4>1. JobStateMoved(j, "dead") /\ JobStates[j] = "open"
          BY <2>2, <2>3, <2>5, <3>2, OneJobState, OpenStates
        <4>2. Contract!GiveUp(j)
          BY <1>1, <1>2, <4>1 DEF Contract!GiveUp, JobStateMoved
        <4> QED
          BY <2>2, <4>2 DEF ContractStep, Contract!ContractNext, Contract!ContractJobs, Jobs
      <3> QED
        BY <2>5, <3>1, <3>2
    <2>6. CASE SpendBudget(n) \/ Quarantine(n) \/ RecordFailure(n)
      <3>1. \E c \in ErrorClass, m \in Int : work' = [work EXCEPT ![j] = Failed(row, c, m)]
        <4>1. w.attempt \in Int /\ EffectiveMax(row) \in Int
          BY <2>2, BoundsAreNumbers DEF EmbedInv, TypeOK, Worker, WorkRow, EffectiveMax
        <4> QED
          BY <1>4, <2>6, <4>1 DEF SpendBudget, Quarantine, RecordFailure, ErrorClass
      <3>2. PICK c \in ErrorClass, m \in Int : work' = [work EXCEPT ![j] = Failed(row, c, m)]
        BY <3>1
      <3> DEFINE new == Failed(row, c, m)
      <3>3. new = Failed(row, c, m) /\ work' = [work EXCEPT ![j] = new]
        BY <3>2
      <3> HIDE DEF new
      <3>4. new \in WorkRow /\ new.state \in {"dead", "failed"}
        BY <2>2, <3>3, FailedRow
      <3> QED
        BY <2>5, <3>3, <3>4
    <2> QED
      BY <2>4, <2>6
  <1> QED
    BY <1>3, <1>4

\* Vectors are stored by settling an open job of an eligible memory under the
\* active revision.
LEMMA CommitRefines ==
    ASSUME EmbedInv, NEW n \in Nodes, Commit(n)
    PROVE  ContractStep
  <1> DEFINE w == worker[n]
             j == w.job
             new == Completed(work[j])
  <1>1. db' = db /\ w.pc = "committing"
    BY DEF Commit, storeVars
  <1>2. CASE ~CommitGuard(w)
    <2>1. vectors' = vectors /\ work' = work
      BY <1>2 DEF Commit
    <2> QED
      BY <1>1, <2>1, RowsUnseen DEF JobStates, JobState
  <1>3. CASE CommitGuard(w)
    <2>1. /\ vectors' = vectors \cup {j} /\ work' = [work EXCEPT ![j] = new]
          /\ Fits(w) /\ Eligible(j[1]) /\ w.rev = db.model /\ w.pc \in Claiming
      BY <1>1, <1>3 DEF Commit, CommitGuard, Claiming
    <2>2. j \in Jobs /\ work[j] \in WorkRow /\ work[j].state = "claimed"
      BY <2>1, FittingClaim
    <2>3. new.state = "done"
      BY <2>2 DEF Completed, WorkRow
    <2> HIDE DEF new
    <2>4. JobStateMoved(j, "settled") /\ JobStates[j] = "open"
      BY <2>1, <2>2, <2>3, OneJobState, OpenStates
    <2>5. j[1] \in EligibleIds /\ j[2] = db.model /\ EligibleIds' = EligibleIds
      BY <1>1, <2>1, <2>2 DEF EligibleIds, Eligible, EmbedInv, WorkerSound, Jobs
    <2>6. Contract!SettleWithVectors(j)
      BY <1>1, <2>1, <2>4, <2>5 DEF Contract!SettleWithVectors, JobStateMoved
    <2> QED
      BY <2>2, <2>6 DEF ContractStep, Contract!ContractNext, Contract!ContractJobs, Jobs
  <1> QED
    BY <1>2, <1>3

\* Every step of the pipeline is a step of the contract, or is unseen.
LEMMA StepRefines ==
    ASSUME EmbedInv, EmbedInv', [Next]_vars
    PROVE  ContractStep
  <1>1. ASSUME UNCHANGED <<db, work, vectors>>
        PROVE  ContractStep
    BY <1>1, RowsUnseen DEF JobStates, JobState
  <1>2. ASSUME NEW i \in Ids, Observe(i) \/ CaptureCommit(i) \/ EraseCommit(i) \/ Admit(i)
        PROVE  ContractStep
    BY <1>1, <1>2, CaptureRefines, EraseRefines, AdmitRefines DEF Observe, storeVars
  <1>3. ASSUME NEW n \in Nodes, WorkerStep(n) \/ ModelChanged(n)
        PROVE  ContractStep
    BY <1>3, WorkerUnseen, ClosingRefines, CommitRefines DEF WorkerStep
  <1>4. ASSUME NEW n \in Nodes, Crash(n) \/ ActivateReads(n) \/ ActivateCommit(n)
        PROVE  ContractStep
    BY <1>1, <1>4, ModelRefines DEF Crash, ActivateReads, storeVars
  <1>5. ASSUME NEW j \in Jobs, Overdue(j)
        PROVE  ContractStep
    <2> DEFINE new == [work[j] EXCEPT !.overdue = TRUE]
    <2>1. /\ db' = db /\ vectors' = vectors /\ work[j] \in WorkRow
          /\ work' = [work EXCEPT ![j] = new]
      BY <1>5 DEF Overdue, storeVars, EmbedInv, TypeOK
    <2>2. new.state = work[j].state
      BY <2>1 DEF WorkRow
    <2> HIDE DEF new
    <2>3. JobStates' = JobStates
      BY <2>1, <2>2, OneJobState DEF JobState
    <2> QED
      BY <2>1, <2>3, RowsUnseen
  <1>6. ASSUME OperatorStep
        PROVE  ContractStep
    BY <1>1, <1>6, PassRefines, DropRefines, ModelRefines
       DEF OperatorStep, PassBind, PassSelect, storeVars
  <1>7. CASE UNCHANGED vars
    BY <1>1, <1>7 DEF vars, storeVars, embedVars
  <1> QED
    BY <1>2, <1>3, <1>4, <1>5, <1>6, <1>7 DEF Next

\* The pipeline implements its contract.
THEOREM PipelineImplementsContract == Spec => ImplementsContract
  <1>1. Init => Contract!ContractInit
    BY ContractStarts
  <1>2. EmbedInv /\ EmbedInv' /\ [Next]_vars => [Contract!ContractNext]_(Contract!contractVars)
    BY StepRefines DEF ContractStep
  <1> QED
    BY <1>1, <1>2, EmbedInvariance, PTL DEF Spec, ImplementsContract, Contract!ContractSpec

-----------------------------------------------------------------------------
(* Activations and passes, when nobody clears the active flag by hand.     *)

\* The registry and the activations are left alone.
LEMMA RegistryUnmoved ==
    ASSUME RegistryInv, db'.model = db.model, UNCHANGED <<registry, activation, config>>
    PROVE  RegistryInv'
  BY DEF RegistryInv, Known, Fresh

\* A revision that is known, with nothing newer, is the active one.
LEMMA NewestIsActive ==
    ASSUME EmbedInv, RegistryInv, NEW r \in Revisions, Known(r),
           \A s \in Revisions : Known(s) => s <= r
    PROVE  db.model = r
  <1>1. db.model # 0
    BY DEF RegistryInv
  <1>2. Known(db.model) /\ db.model \in Revisions /\ ~Outdated(db.model)
    BY <1>1 DEF EmbedInv, ModelSound, Known
  <1>3. db.model \in Nat /\ r \in Nat
    BY <1>2, BoundsAreNumbers DEF Revisions
  <1>4. db.model <= r /\ ~(r > db.model)
    BY <1>2 DEF Outdated
  <1> QED
    BY <1>3, <1>4

\* An activation reads, and carries the next revision and the proof that
\* another identity was active.
LEMMA ActivateReadsRegistry ==
    ASSUME EmbedInv, RegistryInv, NEW n \in Nodes, ActivateReads(n)
    PROVE  RegistryInv'
  <1>1. db' = db /\ registry' = registry /\ config' = config
    BY DEF ActivateReads, storeVars
  <1>2. activation \in [Nodes -> Activation]
    BY DEF EmbedInv, TypeOK
  <1>3. \A m \in Nodes \ {n} : activation'[m] = activation[m]
    BY <1>2 DEF ActivateReads
  <1>4. activation'[n].pc # "idle" =>
           activation'[n].rev = 1 \/ \E s \in Revisions : Known(s) /\ s >= activation'[n].rev - 1
    <2>1. CASE activation' = [activation EXCEPT ![n] =
                     [pc |-> "read", rev |-> Latest(registry) + 1]]
      <3>1. activation'[n].rev = Latest(registry) + 1
        BY <1>2, <2>1
      <3>2. \/ Latest(registry) = 0
            \/ /\ Known(Latest(registry)) /\ Latest(registry) \in Revisions
               /\ Latest(registry) \in Nat
        BY LatestKnown, BoundsAreNumbers DEF Known, Revisions
      <3>3. CASE Latest(registry) = 0
        BY <3>1, <3>3
      <3>4. CASE Known(Latest(registry)) /\ Latest(registry) \in Nat
        <4>1. Latest(registry) >= activation'[n].rev - 1
          BY <3>1, <3>4
        <4> QED
          BY <3>2, <3>4, <4>1 DEF Known
      <3> QED
        BY <3>2, <3>3, <3>4
    <2>2. CASE /\ activation[n].pc = "read"
               /\ activation' = [activation EXCEPT ![n] =
                     IF db.model # 0 /\ registry[db.model] = config[n]
                     THEN IdleActivation ELSE [@ EXCEPT !.pc = "committing"]]
      <3>1. activation'[n].pc # "idle" => activation'[n].rev = activation[n].rev
        BY <1>2, <2>2 DEF IdleActivation, Activation
      <3> QED
        BY <2>2, <3>1 DEF RegistryInv
    <2> QED
      BY <2>1, <2>2 DEF ActivateReads
  <1>5. activation'[n].pc = "committing" /\ db.model # 0 => registry[db.model] # config[n]
    <2>1. CASE activation' = [activation EXCEPT ![n] =
                     [pc |-> "read", rev |-> Latest(registry) + 1]]
      BY <1>2, <2>1
    <2>2. CASE activation' = [activation EXCEPT ![n] =
                     IF db.model # 0 /\ registry[db.model] = config[n]
                     THEN IdleActivation ELSE [@ EXCEPT !.pc = "committing"]]
      BY <1>2, <2>2 DEF IdleActivation
    <2> QED
      BY <2>1, <2>2 DEF ActivateReads
  <1> QED
    BY <1>1, <1>3, <1>4, <1>5 DEF RegistryInv, Known, Fresh

\* An activation that commits under a revision that is already active changes
\* nothing; otherwise it leaves every other activation under way stale.
LEMMA ActivateCommitRegistry ==
    ASSUME EmbedInv, RegistryInv, NEW n \in Nodes, ActivateCommit(n)
    PROVE  RegistryInv'
  <1>1. /\ activation[n].pc = "committing" /\ config' = config
        /\ activation' = [activation EXCEPT ![n] = IdleActivation]
        /\ activation \in [Nodes -> Activation]
    BY DEF ActivateCommit, EmbedInv, TypeOK
  <1>2. /\ activation'[n].pc = "idle"
        /\ \A m \in Nodes \ {n} : activation'[m] = activation[m]
    BY <1>1 DEF IdleActivation
  <1>3. CASE RegistryUnchanged
    BY <1>1, <1>2, <1>3 DEF RegistryUnchanged, RegistryInv, Known, Fresh
  <1>4. ASSUME NEW r \in Revisions, NEW id \in Identities,
               ActivateGuard(r, id), ActivateRows(r, id)
        PROVE  RegistryInv'
    <2>1. id # None /\ r \in Nat /\ r # 0
      BY NoneIsNoIdentity, BoundsAreNumbers DEF Revisions
    <2>2. db'.model = r /\ \A s \in Revisions : Known(s) => Known(s)'
      BY <1>4, <2>1, ActivationMoves
    <2>3. /\ registry'[r] = id /\ \A s \in Revisions \ {r} : registry'[s] = registry[s]
          /\ Known(r)'
      BY <1>4, <2>1 DEF ActivateRows, EmbedInv, TypeOK, Known
    <2>4. \A s \in Revisions : Known(s) => s <= r
      BY <1>4 DEF ActivateGuard, Known
    <2>5. \A m \in Nodes : activation'[m].pc # "idle" =>
             activation'[m].rev = 1 \/ \E s \in Revisions : Known(s)' /\ s >= activation'[m].rev - 1
      BY <1>2, <2>2 DEF RegistryInv
    <2>6. ASSUME NEW m \in Nodes, activation'[m].pc = "committing", Fresh(activation[m].rev)'
          PROVE  registry'[r] # config[m]
      <3>1. m # n /\ activation'[m] = activation[m]
        BY <1>2, <2>6
      <3>2. PICK q \in Revisions : q = activation[m].rev /\ q = activation'[m].rev
        BY <2>6, <3>1 DEF EmbedInv
      <3>x. q \in Nat
        BY BoundsAreNumbers DEF Revisions
      <3>3. \A s \in Revisions : Known(s)' => s < q
        BY <2>6, <3>2 DEF Fresh
      <3>4. PICK s \in Revisions : Known(s) /\ s >= q - 1
        <4>1. q # 1
          BY <2>1, <2>3, <3>3
        <4> QED
          BY <2>6, <3>1, <3>2, <4>1 DEF RegistryInv
      <3>5. s <= r /\ r < q /\ s < q /\ s \in Nat
        BY <2>1, <2>2, <2>3, <2>4, <3>3, <3>4, BoundsAreNumbers DEF Revisions
      <3>6. s = r
        BY <2>1, <3>x, <3>4, <3>5
      <3>7. Known(r) /\ db.model = r
        BY <2>1, <2>4, <3>4, <3>6, NewestIsActive
      <3>8. registry[r] = id
        BY <1>4, <3>7 DEF ActivateGuard, Known
      <3>9. Fresh(q)
        BY <2>2, <3>3 DEF Fresh
      <3>10. registry[db.model] # config[m]
        BY <2>1, <2>6, <3>1, <3>2, <3>7, <3>9 DEF RegistryInv
      <3> QED
        BY <2>3, <3>7, <3>8, <3>10
    <2>7. \A m \in Nodes : activation'[m].pc = "committing" /\ Fresh(activation[m].rev)'
             => registry'[db'.model] # config'[m]
      BY <1>1, <2>2, <2>6
    <2> QED
      BY <2>1, <2>2, <2>5, <2>7 DEF RegistryInv
  <1>5. activation[n].rev \in Revisions /\ config[n] \in Identities
    BY <1>1 DEF EmbedInv, TypeOK
  <1> QED
    BY <1>3, <1>4, <1>5 DEF ActivateCommit

\* A node that restarts has no activation under way.
LEMMA CrashRegistry ==
    ASSUME EmbedInv, RegistryInv, NEW n \in Nodes, Crash(n)
    PROVE  RegistryInv'
  <1>1. /\ activation' = [activation EXCEPT ![n] = IdleActivation]
        /\ \E c \in Identities : config' = [config EXCEPT ![n] = c]
        /\ db' = db /\ registry' = registry
        /\ activation \in [Nodes -> Activation] /\ config \in [Nodes -> Identities]
    BY DEF Crash, storeVars, EmbedInv, TypeOK
  <1>2. /\ activation'[n].pc = "idle"
        /\ \A m \in Nodes \ {n} : activation'[m] = activation[m] /\ config'[m] = config[m]
    BY <1>1 DEF IdleActivation
  <1> QED
    BY <1>1, <1>2 DEF RegistryInv, Known, Fresh

\* Nothing new is owed under the active revision, and the pass is left alone.
LEMMA PassUnmoved ==
    ASSUME PassInv, UNCHANGED pass, db'.model = db.model,
           \A r : Known(r) => Known(r)',
           \A i \in Ids : db.model # 0 /\ Owed(i, db.model)' => Owed(i, db.model)
    PROVE  PassInv'
  <1>1. Known(db.model) => db.model # 0
    BY BoundsAreNumbers DEF Known, Revisions
  <1> QED
    BY <1>1 DEF PassInv

\* A step that keeps the statuses and the jobs, and only adds vectors.
LEMMA PassUntouched ==
    ASSUME PassInv, UNCHANGED <<pass, db, registry>>, vectors \subseteq vectors'
    PROVE  PassInv'
  <1>1. \A i \in Ids : Owed(i, db.model)' => Owed(i, db.model)
    BY DEF Owed, Eligible
  <1>2. \A r : Known(r) => Known(r)'
    BY DEF Known
  <1> QED
    BY <1>1, <1>2, PassUnmoved

\* A capture stages the job of its memory under the active revision.
LEMMA CapturePass ==
    ASSUME EmbedInv, PassInv, NEW i \in Ids, CaptureCommit(i)
    PROVE  PassInv'
  <1> DEFINE s == IF i \in QuarantinedIds THEN "quarantined" ELSE "active"
             m == target[i]
  <1>1. /\ vectors' = vectors /\ pass' = pass /\ registry' = registry
        /\ ~Present(db, i) /\ m # None /\ m \in 0..MaxRevision
    BY DEF CaptureCommit, EmbedInv, TypeOK
  <1>2. CASE ~(EmbeddingGuard(db, m) /\ InsertGuard(db, i))
    <2>1. db' = db
      BY <1>2 DEF CaptureCommit
    <2> QED
      BY <1>1, <2>1, PassUntouched
  <1>3. CASE EmbeddingGuard(db, m) /\ InsertGuard(db, i)
    <2>1. db' = Insert(db, i, s, m, clock) /\ m = db.model
      BY <1>3 DEF CaptureCommit, EmbeddingGuard
    <2>2. s \in {"active", "quarantined"}
      OBVIOUS
    <2>3. m \in Nat /\ clock \in Nat /\ Consistent(db) /\ InsertGuard(db, i)
      BY <1>1, <1>3, BoundsAreNumbers DEF EmbedInv
    <2> HIDE DEF s, m
    <2>4. /\ db'.model = db.model /\ \A k \in Ids \ {i} : db'.row[k] = db.row[k]
          /\ m # 0 => db'.job = db.job \cup {<<i, m>>}
      BY <2>1, <2>2, <2>3, CaptureTables
    <2>5. \A k \in Ids : db.model # 0 /\ Owed(k, db.model)' => Owed(k, db.model)
      BY <1>1, <2>1, <2>4 DEF Owed, Eligible
    <2>6. \A r : Known(r) => Known(r)'
      BY <1>1 DEF Known
    <2> QED
      BY <1>1, <2>4, <2>5, <2>6, PassUnmoved
  <1> QED
    BY <1>2, <1>3

\* An erasure and an admission leave nothing more owed.
LEMMA MemoryPass ==
    ASSUME EmbedInv, PassInv, NEW i \in Ids, EraseCommit(i) \/ Admit(i)
    PROVE  PassInv'
  <1>1. pass' = pass /\ registry' = registry /\ Consistent(db) /\ clock \in Nat
    BY DEF EraseCommit, Admit, EmbedInv
  <1>2. \A r : Known(r) => Known(r)'
    BY <1>1 DEF Known
  <1>3. CASE EraseCommit(i)
    <2>1. /\ IsLive(db, i) /\ db' = Tombstones(DestroyKeys(Sweep(db, {i}), {i}), {i}, clock)
          /\ vectors' = {v \in vectors : v[1] # i}
      BY <1>3 DEF EraseCommit
    <2>2. /\ db'.row[i].status = "erased" /\ db'.model = db.model
          /\ \A k \in Ids \ {i} : db'.row[k] = db.row[k]
          /\ db'.job = {j \in db.job : j[1] # i}
      BY <1>1, <2>1, EraseTables
    <2>3. \A k \in Ids : Owed(k, db.model)' => Owed(k, db.model)
      BY <2>1, <2>2 DEF Owed, Eligible
    <2> QED
      BY <1>1, <1>2, <2>2, <2>3, PassUnmoved
  <1>4. CASE Admit(i)
    <2>1. db.row[i].status = "quarantined" /\ db' = Admitted(db, i) /\ vectors' = vectors
      BY <1>4 DEF Admit
    <2>2. /\ db'.model = db.model /\ db'.job = db.job
          /\ \A k \in Ids \ {i} : db'.row[k] = db.row[k]
      BY <1>1, <2>1, AdmitTables
    <2>3. i \in QuarantinedIds
      BY <2>1 DEF EmbedInv
    <2>4. \A k \in Ids : Owed(k, db.model)' => Owed(k, db.model)
      BY <2>1, <2>2, <2>3 DEF Owed, Eligible
    <2> QED
      BY <1>1, <1>2, <2>2, <2>4, PassUnmoved
  <1> QED
    BY <1>3, <1>4

\* A drop takes no vector of the active revision.
LEMMA DropPass ==
    ASSUME PassInv, NEW r \in Revisions, DropRevision(r)
    PROVE  PassInv'
  <1>1. db' = db /\ pass' = pass /\ registry' = registry
    BY DEF DropRevision, storeVars
  <1>2. \A i \in Ids : <<i, db.model>> \in vectors => <<i, db.model>> \in vectors'
    BY DEF DropRevision
  <1>3. \A i \in Ids : Owed(i, db.model)' => Owed(i, db.model)
    BY <1>1, <1>2 DEF Owed, Eligible
  <1>4. \A s : Known(s) => Known(s)'
    BY <1>1 DEF Known
  <1> QED
    BY <1>1, <1>3, <1>4, PassUnmoved

\* An activation either changes nothing or moves to a revision that no pass
\* has seen.
LEMMA ActivatePass ==
    ASSUME EmbedInv, RegistryInv, PassInv, NEW r \in Revisions, NEW id \in Identities,
           ActivateGuard(r, id), ActivateRows(r, id), UNCHANGED <<pass, vectors>>
    PROVE  PassInv'
  <1>1. /\ db'.row = db.row /\ db'.job = db.job /\ db'.model = r
        /\ \A s \in Revisions : Known(s) => Known(s)'
    BY ActivationMoves
  <1>2. \A s : Known(s) => Known(s)'
    BY <1>1 DEF Known
  <1>3. CASE Known(r)
    <2>1. db.model = r
      BY <1>3, NewestIsActive DEF ActivateGuard, Known
    <2>2. \A i \in Ids : Owed(i, db.model)' => Owed(i, db.model)
      BY <1>1, <2>1 DEF Owed, Eligible
    <2> QED
      BY <1>1, <1>2, <2>1, <2>2, PassUnmoved
  <1>4. CASE ~Known(r)
    <2>1. pass.whole # r \/ pass.whole = 0
      BY <1>4 DEF PassInv
    <2>2. r # 0
      BY BoundsAreNumbers DEF Revisions
    <2> QED
      BY <1>1, <1>2, <1>4, <2>1, <2>2 DEF PassInv
  <1> QED
    BY <1>3, <1>4

\* A pass binds to the active revision.
LEMMA BindPass ==
    ASSUME EmbedInv, PassInv, PassBind
    PROVE  PassInv'
  <1> DEFINE x == IF pass.pc = "finished" THEN IdlePass ELSE pass
             y == [x EXCEPT !.pc = "bound", !.rev = db.model]
  <1>1. /\ db' = db /\ vectors' = vectors /\ registry' = registry /\ db.model # 0
        /\ pass' = y /\ pass.pc \in {"idle", "finished"}
    BY DEF PassBind, storeVars
  <1>2. x \in Pass /\ (x.whole = 0 \/ (pass.pc = "idle" /\ x = pass))
    BY <1>1, BoundsAreNumbers DEF EmbedInv, TypeOK, Pass, IdlePass
  <1>3. Known(db.model)
    BY <1>1 DEF EmbedInv, ModelSound
  <1> HIDE DEF x
  <1>4. y.pc = "bound" /\ y.rev = db.model /\ y.whole = x.whole /\ y.cursor = x.cursor
    BY <1>2 DEF Pass
  <1> HIDE DEF y
  <1>5. \A i : Owed(i, db.model)' <=> Owed(i, db.model)
    BY <1>1 DEF Owed, Eligible
  <1>6. \A s : Known(s)' <=> Known(s)
    BY <1>1 DEF Known
  <1> QED
    BY <1>1, <1>2, <1>3, <1>4, <1>5, <1>6 DEF PassInv

\* What is missing and not in the batch comes after every memory of the batch,
\* and the batch does not hold all.
LEMMA BatchIsPrefix ==
    ASSUME NEW S \in SUBSET Ids, NEW l \in Nat, NEW i \in S, i \notin FirstOf(S, l)
    PROVE  /\ Cardinality(S) > l
           /\ \A k \in FirstOf(S, l) : Rank[k] < Rank[i]
  <1> DEFINE Before(k) == {h \in S : Rank[h] < Rank[k]}
  <1>1. IsFiniteSet(S) /\ Cardinality(S) \in Nat
    BY IdsFinite, FS_Subset, FS_CardinalityType
  <1>2. \A k \in S : /\ Before(k) \in SUBSET S /\ IsFiniteSet(Before(k))
                     /\ Cardinality(Before(k)) \in Nat
    BY <1>1, FS_Subset, FS_CardinalityType
  <1>3. \A k \in S : Rank[k] \in Nat
    BY RankOrders
  <1>4. FirstOf(S, l) = {k \in S : Cardinality(Before(k)) < l}
    BY DEF FirstOf
  <1>5. ~(Cardinality(Before(i)) < l)
    BY <1>4
  <1>6. i \notin Before(i)
    BY <1>3
  <1>7. ASSUME NEW k \in FirstOf(S, l), ~(Rank[k] < Rank[i])
        PROVE  FALSE
    <2>1. k \in S /\ Cardinality(Before(k)) < l
      BY <1>4
    <2>2. Before(i) \in SUBSET Before(k)
      BY <1>3, <1>7, <2>1
    <2> HIDE DEF Before
    <2>3. Cardinality(Before(i)) <= Cardinality(Before(k))
      BY <1>2, <2>1, <2>2, FS_Subset
    <2> QED
      BY <1>2, <1>5, <2>1, <2>3
  <1> HIDE DEF Before
  <1>8. Cardinality(S) > l
    <2>1. /\ Cardinality(Before(i)) <= Cardinality(S)
          /\ Cardinality(S) = Cardinality(Before(i)) => S = Before(i)
      BY <1>1, <1>2, FS_Subset
    <2>2. Cardinality(S) # Cardinality(Before(i))
      BY <1>6, <2>1
    <2> QED
      BY <1>1, <1>2, <1>5, <2>1, <2>2
  <1> QED
    BY <1>7, <1>8

\* A pass selects the first of what is missing.
LEMMA SelectPass ==
    ASSUME EmbedInv, PassInv, PassSelect
    PROVE  PassInv'
  <1> DEFINE S == Missing(pass.rev, pass.cursor)
             b == FirstOf(S, ReembedLimit)
             m == Cardinality(S) > ReembedLimit
             y == [pass EXCEPT !.pc = "selected", !.batch = b, !.more = m]
  <1>1. /\ db' = db /\ vectors' = vectors /\ registry' = registry
        /\ pass' = y /\ pass.pc = "bound" /\ pass \in Pass
    BY DEF PassSelect, storeVars, EmbedInv, TypeOK
  <1>2. S \in SUBSET Ids /\ ReembedLimit \in Nat
    BY BoundsAreNumbers DEF Missing
  <1>3. \A i \in Ids : Owed(i, pass.rev) /\ Rank[i] > pass.cursor => i \in S
    BY DEF Owed, Missing
  <1> HIDE DEF S
  <1>4. \A i \in S : i \notin b => m /\ \A k \in b : Rank[k] < Rank[i]
    BY <1>2, BatchIsPrefix
  <1> HIDE DEF b, m
  <1>5. /\ y.pc = "selected" /\ y.batch = b /\ y.more = m /\ y.rev = pass.rev
        /\ y.cursor = pass.cursor /\ y.whole = pass.whole
    BY <1>1 DEF Pass
  <1> HIDE DEF y
  <1>6. \A i, r : Owed(i, r)' <=> Owed(i, r)
    BY <1>1 DEF Owed, Eligible
  <1>7. \A s : Known(s)' <=> Known(s)
    BY <1>1 DEF Known
  <1> QED
    BY <1>1, <1>3, <1>4, <1>5, <1>6, <1>7 DEF PassInv

\* A batch that commits leaves nothing owed behind the new cursor, and a pass
\* that finishes leaves nothing owed at all.
LEMMA StagePass ==
    ASSUME EmbedInv, PassInv, PassStage
    PROVE  PassInv'
  <1>1. /\ vectors' = vectors /\ registry' = registry /\ pass \in Pass
        /\ pass.pc = "selected"
    BY DEF PassStage, EmbedInv, TypeOK
  <1>2. \A s : Known(s)' <=> Known(s)
    BY <1>1 DEF Known
  <1>3. pass.rev \in Revisions /\ Known(pass.rev)
    BY <1>1 DEF PassInv, Known
  <1>4. CASE ~PassGuard
    <2>1. db' = db /\ pass' = [pass EXCEPT !.pc = "idle", !.batch = {}, !.more = FALSE]
      BY <1>4 DEF PassStage
    <2>2. pass'.pc = "idle" /\ pass'.whole = pass.whole /\ pass'.cursor = pass.cursor
      BY <1>1, <2>1 DEF Pass
    <2>3. \A i, r : Owed(i, r)' <=> Owed(i, r)
      BY <1>1, <2>1 DEF Owed, Eligible
    <2> QED
      BY <1>2, <2>1, <2>2, <2>3 DEF PassInv
  <1>5. CASE PassGuard
    <2> DEFINE staged == {<<i, pass.rev>> : i \in pass.batch}
               p == IF pass.more THEN "idle" ELSE "finished"
               h == IF pass.cursor = 0 \/ pass.whole = pass.rev THEN pass.rev ELSE 0
    <2>0. staged = {<<i, pass.rev>> : i \in pass.batch}
      OBVIOUS
    <2>1. pass' = [pass EXCEPT !.pc = p, !.whole = h, !.cursor = LastRank, !.batch = {},
                               !.more = FALSE]
      BY <1>5 DEF PassStage
    <2>2. /\ p \in {"idle", "finished"} /\ (pass.more => p = "idle")
          /\ h = 0 \/ (h = pass.rev /\ (pass.cursor = 0 \/ pass.whole = pass.rev))
      OBVIOUS
    <2> HIDE DEF staged, p, h
    <2>3. pass'.pc = p /\ pass'.whole = h /\ pass'.cursor = LastRank
      BY <1>1, <2>1 DEF Pass
    <2>4. db'.row = db.row /\ db'.model = db.model /\ db'.job = db.job \cup staged
      BY <1>5, <2>0, StagedBatch
    <2>5. \A i : Owed(i, db.model)' =>
             Owed(i, db.model) /\ (pass.rev = db.model => i \notin pass.batch)
      BY <1>1, <2>0, <2>4 DEF Owed, Eligible
    <2>6. ASSUME h = db.model, db.model # 0, NEW i \in Ids, Owed(i, db.model)'
          PROVE  p # "finished" /\ Rank[i] > LastRank
      <3>1. Owed(i, db.model) /\ pass.rev = db.model /\ i \notin pass.batch
        BY <2>2, <2>5, <2>6
      <3>2. Rank[i] \in Nat \ {0} /\ pass.cursor \in Nat
        BY <1>1, RankOrders DEF Pass
      <3>3. Rank[i] > pass.cursor
        <4>1. CASE pass.cursor = 0
          BY <3>2, <4>1
        <4>2. CASE pass.whole = pass.rev
          BY <2>6, <3>1, <4>2 DEF PassInv
        <4> QED
          BY <2>2, <2>6, <4>1, <4>2
      <3>4. pass.more /\ \A k \in pass.batch : Rank[k] < Rank[i]
        BY <1>1, <3>1, <3>3 DEF PassInv
      <3>5. Rank[i] > LastRank
        <4>1. CASE pass.batch = {}
          BY <3>3, <4>1 DEF LastRank
        <4>2. CASE pass.batch # {}
          <5>1. PICK k \in pass.batch : LastRank = Rank[k]
            BY <1>1, <4>2, LastOfBatch DEF Pass
          <5>2. Rank[k] \in Nat
            BY <1>1, RankOrders DEF Pass
          <5> QED
            BY <3>2, <3>4, <5>1, <5>2
        <4> QED
          BY <4>1, <4>2
      <3> QED
        BY <2>2, <3>4, <3>5
    <2>7. h # 0 => Known(h)
      BY <1>3, <2>2
    <2> QED
      BY <1>2, <2>2, <2>3, <2>4, <2>6, <2>7 DEF PassInv
  <1> QED
    BY <1>4, <1>5

\* Nothing is registered and no pass has run.
LEMMA RolloutInit == Init => RolloutInv
  <1> SUFFICES ASSUME Init PROVE RolloutInv
    OBVIOUS
  <1>1. /\ db = EmptyDatabase /\ registry = [r \in Revisions |-> None]
        /\ activation = [n \in Nodes |-> IdleActivation] /\ pass = IdlePass
    BY DEF Init, StoreInit
  <1>2. /\ db.model = 0 /\ pass.pc = "idle" /\ pass.whole = 0
        /\ \A n \in Nodes : activation[n].pc = "idle"
        /\ \A r \in Revisions : ~Known(r)
    BY <1>1 DEF EmptyDatabase, IdlePass, IdleActivation, Known
  <1> QED
    BY <1>2 DEF RolloutInv, RegistryInv, PassInv

\* Every step keeps it, when no step clears the flag by hand.
LEMMA RolloutStep ==
    ASSUME ~Deactivates, EmbedInv, RolloutInv, [Next]_vars
    PROVE  RolloutInv'
  <1>1. RegistryInv /\ PassInv
    BY DEF RolloutInv
  <1> SUFFICES RegistryInv' /\ PassInv'
    BY DEF RolloutInv
  <1>2. ASSUME UNCHANGED <<db, registry, activation, config, pass>>, vectors \subseteq vectors'
        PROVE  RegistryInv' /\ PassInv'
    BY <1>1, <1>2, RegistryUnmoved, PassUntouched
  <1>3. ASSUME NEW i \in Ids, Observe(i) \/ CaptureCommit(i) \/ EraseCommit(i) \/ Admit(i)
        PROVE  RegistryInv' /\ PassInv'
    <2>1. CASE Observe(i)
      BY <1>2, <2>1 DEF Observe, storeVars
    <2>2. CASE CaptureCommit(i) \/ EraseCommit(i) \/ Admit(i)
      <3>1. db'.model = db.model
        <4>1. CASE CaptureCommit(i)
          <5> DEFINE s == IF i \in QuarantinedIds THEN "quarantined" ELSE "active"
                     m == target[i]
          <5>1. db' = db \/ (db' = Insert(db, i, s, m, clock) /\ InsertGuard(db, i))
            BY <4>1 DEF CaptureCommit
          <5>2. s \in {"active", "quarantined"} /\ m \in Nat /\ clock \in Nat /\ Consistent(db)
            BY <4>1, BoundsAreNumbers DEF CaptureCommit, EmbedInv, TypeOK
          <5> HIDE DEF s, m
          <5> QED
            BY <5>1, <5>2, CaptureTables
        <4>2. CASE EraseCommit(i)
          <5>1. /\ IsLive(db, i) /\ clock \in Nat /\ Consistent(db)
                /\ db' = Tombstones(DestroyKeys(Sweep(db, {i}), {i}), {i}, clock)
            BY <4>2 DEF EraseCommit, EmbedInv
          <5> QED
            BY <5>1, EraseTables
        <4>3. CASE Admit(i)
          <5>1. db.row[i].status = "quarantined" /\ Consistent(db) /\ db' = Admitted(db, i)
            BY <4>3 DEF Admit, EmbedInv
          <5> QED
            BY <5>1, AdmitTables
        <4> QED
          BY <2>2, <4>1, <4>2, <4>3
      <3>2. UNCHANGED <<registry, activation, config>>
        BY <2>2 DEF CaptureCommit, EraseCommit, Admit
      <3> QED
        BY <1>1, <2>2, <3>1, <3>2, RegistryUnmoved, CapturePass, MemoryPass
    <2> QED
      BY <1>3, <2>1, <2>2
  <1>4. ASSUME NEW n \in Nodes, WorkerStep(n) \/ ModelChanged(n)
        PROVE  RegistryInv' /\ PassInv'
    <2>1. UNCHANGED <<db, registry, activation, config, pass>> /\ vectors \subseteq vectors'
      BY <1>4 DEF WorkerStep, Bind, DrainSweep, DrainCheck, Claim, SpendBudget, ReadActive,
                  ReadMemory, Renew, Embed, Commit, Reconcile, Recheck, CompleteEmpty, Defer,
                  Quarantine, RecordFailure, ModelChanged, elsewhere, storeVars
    <2> QED
      BY <1>2, <2>1
  <1>5. ASSUME NEW n \in Nodes, Crash(n) \/ ActivateReads(n)
        PROVE  RegistryInv' /\ PassInv'
    <2>1. UNCHANGED <<db, registry, pass, vectors>>
      BY <1>5 DEF Crash, ActivateReads, storeVars
    <2> QED
      BY <1>1, <1>5, <2>1, CrashRegistry, ActivateReadsRegistry, PassUntouched
  <1>6. ASSUME NEW n \in Nodes, ActivateCommit(n)
        PROVE  RegistryInv' /\ PassInv'
    <2>1. activation[n].rev \in Revisions /\ config[n] \in Identities
      BY <1>6 DEF ActivateCommit, EmbedInv, TypeOK
    <2>2. UNCHANGED <<pass, vectors>>
      BY <1>6 DEF ActivateCommit
    <2>3. \/ ActivateGuard(activation[n].rev, config[n]) /\ ActivateRows(activation[n].rev, config[n])
          \/ RegistryUnchanged
      BY <1>6 DEF ActivateCommit
    <2>4. PassInv'
      BY <1>1, <2>1, <2>2, <2>3, ActivatePass, PassUntouched DEF RegistryUnchanged
    <2> QED
      BY <1>1, <1>6, <2>4, ActivateCommitRegistry
  <1>7. ASSUME NEW j \in Jobs, Overdue(j)
        PROVE  RegistryInv' /\ PassInv'
    BY <1>2, <1>7 DEF Overdue, storeVars
  <1>8. ASSUME OperatorStep
        PROVE  RegistryInv' /\ PassInv'
    <2>1. ~Deactivate
      BY DEF Deactivate
    <2>2. ~Reactivate
      BY <1>1, LatestKnown DEF Reactivate, RegistryInv, Known
    <2>3. CASE PassBind \/ PassSelect \/ \E r \in Revisions : DropRevision(r)
      <3>1. UNCHANGED <<db, registry, activation, config>>
        BY <2>3 DEF PassBind, PassSelect, DropRevision, storeVars
      <3> QED
        BY <1>1, <2>3, <3>1, RegistryUnmoved, BindPass, SelectPass, DropPass
    <2>4. CASE PassStage
      <3>1. UNCHANGED <<registry, activation, config>>
        BY <2>4 DEF PassStage
      <3>2. db'.model = db.model
        <4>1. CASE ~PassGuard
          BY <2>4, <4>1 DEF PassStage
        <4>2. CASE PassGuard
          BY <2>4, <4>2, StagedBatch
        <4> QED
          BY <4>1, <4>2
      <3> QED
        BY <1>1, <2>4, <3>1, <3>2, RegistryUnmoved, StagePass
    <2> QED
      BY <1>8, <2>1, <2>2, <2>3, <2>4 DEF OperatorStep
  <1>9. CASE UNCHANGED vars
    BY <1>2, <1>9 DEF vars, storeVars, embedVars
  <1> QED
    BY <1>3, <1>4, <1>5, <1>6, <1>7, <1>8, <1>9 DEF Next

\* The invariant of activations and passes, when nobody clears the active flag
\* by hand: no route of the repository does.
THEOREM RolloutInvariance ==
    ASSUME ~Deactivates
    PROVE  Spec => [](EmbedInv /\ RolloutInv)
  <1>1. Init => EmbedInv /\ RolloutInv
    BY EmbedInit, RolloutInit
  <1>2. EmbedInv /\ RolloutInv /\ [Next]_vars => (EmbedInv /\ RolloutInv)'
    BY EmbedStep, RolloutStep
  <1> QED
    BY <1>1, <1>2, PTL DEF Spec

\* After a finished pass over the active revision no memory that was captured
\* unquarantined is forgotten.
THEOREM PassesCoverScope ==
    ASSUME ~Deactivates
    PROVE  Spec => []PassCoversScope
  <1>1. EmbedInv /\ RolloutInv => PassCoversScope
    BY DEF RolloutInv, PassInv, PassCoversScope, Owed
  <1> QED
    BY <1>1, RolloutInvariance, PTL

\* Nodes that race to activate the same model converge on one revision, and a
\* revision keeps its identity.
THEOREM RevisionsConverge ==
    ASSUME ~Deactivates
    PROVE  Spec => NoSpuriousRevision
  <1> DEFINE Minted == \A r \in Revisions : registry'[r] # registry[r]
                         => /\ registry[r] = None
                            /\ db.model # 0 => registry[db.model] # registry'[r]
  <1>1. EmbedInv /\ RolloutInv /\ [Next]_vars => Minted \/ UNCHANGED vars
    <2> SUFFICES ASSUME EmbedInv, RolloutInv, Next, NEW r \in Revisions,
                        registry'[r] # registry[r]
                 PROVE  /\ registry[r] = None
                        /\ db.model # 0 => registry[db.model] # registry'[r]
      OBVIOUS
    <2>1. PICK n \in Nodes : ActivateCommit(n)
      <3>1. ~Reactivate
        BY LatestKnown DEF Reactivate, RolloutInv, RegistryInv, Known
      <3>2. registry' # registry
        OBVIOUS
      <3> QED
        BY <3>1, <3>2 DEF Next, OperatorStep, Observe, CaptureCommit, EraseCommit, Admit,
             WorkerStep, Bind, DrainSweep, DrainCheck, Claim, SpendBudget, ReadActive,
             ReadMemory, Renew, Embed, Commit, Reconcile, Recheck, CompleteEmpty, Defer,
             Quarantine, RecordFailure, ModelChanged, elsewhere, Crash, ActivateReads,
             Overdue, PassBind, PassSelect, PassStage, DropRevision, Deactivate
    <2> DEFINE q == activation[n].rev
               id == config[n]
    <2>2. q \in Revisions /\ activation[n].pc = "committing" /\ registry \in [Revisions -> Identities \cup {None}]
      BY <2>1 DEF ActivateCommit, EmbedInv, TypeOK
    <2>3. ActivateGuard(q, id) /\ ActivateRows(q, id)
      BY <2>1 DEF ActivateCommit, RegistryUnchanged
    <2>4. r = q /\ registry'[r] = id
      BY <2>2, <2>3 DEF ActivateRows
    <2>5. registry[r] = None
      BY <2>3, <2>4 DEF ActivateGuard
    <2>6. Fresh(q)
      <3> SUFFICES ASSUME NEW s \in Revisions, Known(s) PROVE s < q
        BY DEF Fresh
      <3>1. s <= q /\ s # q
        BY <2>3, <2>4, <2>5 DEF ActivateGuard, Known
      <3>2. s \in Nat /\ q \in Nat
        BY <2>2, BoundsAreNumbers DEF Revisions
      <3> HIDE DEF q
      <3> QED
        BY <3>1, <3>2
    <2>7. db.model # 0 => registry[db.model] # id
      BY <2>2, <2>6 DEF RolloutInv, RegistryInv
    <2> QED
      BY <2>4, <2>5, <2>7
  <1>2. EmbedInv /\ RolloutInv /\ [Next]_vars => [Minted]_vars
    BY <1>1
  <1> QED
    BY <1>2, RolloutInvariance, PTL DEF Spec, NoSpuriousRevision

=============================================================================
