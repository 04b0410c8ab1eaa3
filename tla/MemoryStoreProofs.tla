------------------------- MODULE MemoryStoreProofs -------------------------
(***************************************************************************)
(* What every statement group of MemoryStore preserves.  Each lemma takes  *)
(* a database that satisfies Consistent and the comparison the transaction *)
(* makes at commit, and shows that the result satisfies Consistent.        *)
(***************************************************************************)
EXTENDS MemoryStore, FiniteSetTheorems, TLAPS

\* An id without a row has nothing in the columns, and so no use either.
AbsentAreBlank(d) == \A i \in Ids : d.row[i].status = "absent" => d.row[i] = NoRow

\* The inductive invariant of the tables.
Consistent(d) ==
    /\ d \in Database
    /\ AbsentAreBlank(d)
    /\ CountersAgree(d)
    /\ DocumentsAgree(d)
    /\ Acyclic(d)
    /\ SourcesAgree(d)
    /\ FingerprintsUnique(d)
    /\ ErasedAreBare(d)

\* A tombstone is not written again.
KeepsErased(d, e) ==
    \A i \in Ids : d.row[i].status = "erased" => e.row[i] = d.row[i]

\* The tables with counters that may still be negative: what a statement
\* computes before its counters are known to agree with the rows.
Draft ==
    [row : [Ids -> Row],
     counter : [Kinds -> [Statuses -> Int]],
     sources : [Ids -> Nat],
     provenance : SUBSET Ids,
     derivation : SUBSET (Ids \X Ids),
     key : SUBSET (Ids \X (Ids \cup {None})),
     job : SUBSET (Ids \X Nat),
     model : Nat,
     outbox : SUBSET Ids]

-----------------------------------------------------------------------------
(* Counting.                                                               *)

\* Every bucket of scope_counter is finite.
LEMMA BucketFinite ==
    ASSUME NEW d, NEW k, NEW s
    PROVE  /\ IsFiniteSet(Bucket(d, k, s))
           /\ Cardinality(Bucket(d, k, s)) \in Nat
  <1>1. Bucket(d, k, s) \in SUBSET Ids
    BY DEF Bucket
  <1>2. IsFiniteSet(Bucket(d, k, s))
    BY <1>1, IdsFinite, FS_Subset
  <1> QED
    BY <1>2, FS_CardinalityType

\* Counters that agree with the rows are natural numbers.
LEMMA DraftIsDatabase ==
    ASSUME NEW d \in Draft, CountersAgree(d)
    PROVE  d \in Database
  <1>1. d.counter \in [Kinds -> [Statuses -> Int]]
    BY DEF Draft
  <1>2. \A k \in Kinds, s \in Statuses : d.counter[k][s] \in Nat
    BY BucketFinite DEF CountersAgree
  <1>3. d.counter \in [Kinds -> [Statuses -> Nat]]
    BY <1>1, <1>2
  <1> QED
    BY <1>3 DEF Draft, Database

\* Every database is a draft.
LEMMA DatabaseIsDraft ==
    ASSUME NEW d \in Database
    PROVE  d \in Draft
  <1>1. d.counter \in [Kinds -> [Statuses -> Int]]
    <2>1. d.counter \in [Kinds -> [Statuses -> Nat]]
      BY DEF Database
    <2>2. \A k \in Kinds : d.counter[k] \in [Statuses -> Int]
      BY <2>1
    <2> QED
      BY <2>1, <2>2
  <1> QED
    BY <1>1 DEF Draft, Database

\* A disjoint batch of rows enters a bucket.
LEMMA BucketGrows ==
    ASSUME NEW B, IsFiniteSet(B), NEW M, IsFiniteSet(M), B \cap M = {}
    PROVE  Cardinality(B \cup M) = Cardinality(B) + Cardinality(M)
  <1>1. Cardinality(B) \in Nat /\ Cardinality(M) \in Nat
    BY FS_CardinalityType
  <1>2. Cardinality(B \cup M) = Cardinality(B) + Cardinality(M) - Cardinality(B \cap M)
    BY FS_Union
  <1>3. Cardinality(B \cap M) = 0
    BY FS_EmptySet
  <1> QED
    BY <1>1, <1>2, <1>3

\* A statement that changes no status moves no bucket.
LEMMA SameStatusSameBuckets ==
    ASSUME NEW d, NEW e,
           \A i \in Ids : e.row[i].status = d.row[i].status,
           e.counter = d.counter, CountersAgree(d)
    PROVE  CountersAgree(e)
  <1>1. \A k, s : Bucket(e, k, s) = Bucket(d, k, s)
    BY DEF Bucket
  <1> QED
    BY <1>1 DEF CountersAgree

-----------------------------------------------------------------------------
(* Capture.                                                                *)

\* The embedding job touches only the queue.
LEMMA StageEmbeddingFields ==
    ASSUME NEW d \in Draft, NEW i \in Ids, NEW m \in Nat
    PROVE  /\ StageEmbedding(d, i, m) \in Draft
           /\ StageEmbedding(d, i, m).row = d.row
           /\ StageEmbedding(d, i, m).counter = d.counter
           /\ StageEmbedding(d, i, m).sources = d.sources
           /\ StageEmbedding(d, i, m).provenance = d.provenance
           /\ StageEmbedding(d, i, m).derivation = d.derivation
           /\ StageEmbedding(d, i, m).key = d.key
           /\ StageEmbedding(d, i, m).job \subseteq d.job \cup {<<i, m>>}
           /\ StageEmbedding(d, i, m).model = d.model
           /\ StageEmbedding(d, i, m).outbox = d.outbox
  BY DEF StageEmbedding, Draft

\* What an insert writes, field by field.
LEMMA InsertFields ==
    ASSUME NEW d \in Database, NEW i \in Ids, NEW s \in Statuses,
           NEW m \in Nat, NEW at \in Nat
    PROVE  LET e == Insert(d, i, s, m, at) IN
           /\ e \in Draft
           /\ e.row[i] = NewRow(i, s, at)
           /\ e.sources[i] = d.sources[i] + 1
           /\ \A j \in Ids \ {i} : e.row[j] = d.row[j] /\ e.sources[j] = d.sources[j]
           /\ e.counter = Adjust(d.counter, KindOf[i], s, 1)
           /\ e.provenance = d.provenance \cup {i}
           /\ e.derivation = d.derivation \cup {<<i, p>> : p \in ParentsOf[i]}
           /\ e.key = d.key
           /\ e.job \subseteq d.job \cup {<<i, m>>}
           /\ e.model = d.model
           /\ e.outbox = d.outbox \cup {i}
  <1> DEFINE a == [d EXCEPT !.row[i] = NewRow(i, s, at),
                            !.counter = Adjust(@, KindOf[i], s, 1),
                            !.outbox = @ \cup {i}]
             b == StageProvenance(a, i)
             f == StageEmbedding(b, i, m)
  <1>1. Insert(d, i, s, m, at) = StageSource(f, i)
    BY DEF Insert
  <1>2. Adjust(d.counter, KindOf[i], s, 1) \in [Kinds -> [Statuses -> Int]]
    BY KindOfType DEF Adjust, Database
  <1>3. NewRow(i, s, at) \in Row
    BY KindOfType, TextOfType DEF NewRow, Row, Record, RowStatus, Fingerprint
  <1>4. /\ a \in Draft
        /\ a.row = [d.row EXCEPT ![i] = NewRow(i, s, at)]
        /\ a.counter = Adjust(d.counter, KindOf[i], s, 1)
        /\ a.sources = d.sources /\ a.provenance = d.provenance
        /\ a.derivation = d.derivation /\ a.key = d.key /\ a.job = d.job
        /\ a.model = d.model /\ a.outbox = d.outbox \cup {i}
    BY <1>2, <1>3 DEF Draft, Database
  <1> HIDE DEF a
  <1>p. {<<i, p>> : p \in ParentsOf[i]} \in SUBSET (Ids \X Ids)
    BY ParentsOfType
  <1>5. /\ b \in Draft
        /\ b.row = a.row /\ b.counter = a.counter /\ b.sources = a.sources
        /\ b.provenance = a.provenance \cup {i}
        /\ b.derivation = a.derivation \cup {<<i, p>> : p \in ParentsOf[i]}
        /\ b.key = a.key /\ b.job = a.job /\ b.model = a.model
        /\ b.outbox = a.outbox
    BY <1>4, <1>p DEF StageProvenance, Draft
  <1> HIDE DEF b
  <1>6. /\ f \in Draft
        /\ f.row = b.row /\ f.counter = b.counter /\ f.sources = b.sources
        /\ f.provenance = b.provenance /\ f.derivation = b.derivation
        /\ f.key = b.key /\ f.job \subseteq b.job \cup {<<i, m>>}
        /\ f.model = b.model /\ f.outbox = b.outbox
    BY <1>5, StageEmbeddingFields
  <1> HIDE DEF f
  <1>7. /\ StageSource(f, i) \in Draft
        /\ StageSource(f, i).row = f.row /\ StageSource(f, i).counter = f.counter
        /\ StageSource(f, i).sources = [f.sources EXCEPT ![i] = @ + 1]
        /\ StageSource(f, i).provenance = f.provenance
        /\ StageSource(f, i).derivation = f.derivation
        /\ StageSource(f, i).key = f.key /\ StageSource(f, i).job = f.job
        /\ StageSource(f, i).model = f.model /\ StageSource(f, i).outbox = f.outbox
    BY <1>6 DEF StageSource, Draft
  <1>8. /\ a.row[i] = NewRow(i, s, at)
        /\ \A j \in Ids \ {i} : a.row[j] = d.row[j]
    BY <1>4 DEF Database
  <1>9. /\ StageSource(f, i).sources[i] = d.sources[i] + 1
        /\ \A j \in Ids \ {i} : StageSource(f, i).sources[j] = d.sources[j]
    BY <1>4, <1>5, <1>6, <1>7 DEF Database
  <1> QED
    BY <1>1, <1>4, <1>5, <1>6, <1>7, <1>8, <1>9

\* An insert stages the job of the model it was given, and no other.
LEMMA InsertJob ==
    ASSUME NEW d \in Database, NEW i \in Ids, NEW s \in Statuses,
           NEW m \in Nat, NEW at \in Nat
    PROVE  /\ m = 0 => Insert(d, i, s, m, at).job = d.job
           /\ m # 0 => Insert(d, i, s, m, at).job = d.job \cup {<<i, m>>}
  <1> DEFINE a == [d EXCEPT !.row[i] = NewRow(i, s, at),
                            !.counter = Adjust(@, KindOf[i], s, 1),
                            !.outbox = @ \cup {i}]
             b == StageProvenance(a, i)
             f == StageEmbedding(b, i, m)
  <1>1. Insert(d, i, s, m, at) = StageSource(f, i)
    BY DEF Insert
  <1>2. Adjust(d.counter, KindOf[i], s, 1) \in [Kinds -> [Statuses -> Int]]
    BY KindOfType DEF Adjust, Database
  <1>3. NewRow(i, s, at) \in Row
    BY KindOfType, TextOfType DEF NewRow, Row, Record, RowStatus, Fingerprint
  <1>4. a \in Draft /\ a.job = d.job
    BY <1>2, <1>3 DEF Draft, Database
  <1> HIDE DEF a
  <1>5. {<<i, p>> : p \in ParentsOf[i]} \in SUBSET (Ids \X Ids)
    BY ParentsOfType
  <1>6. b \in Draft /\ b.job = a.job
    BY <1>4, <1>5 DEF StageProvenance, Draft
  <1> HIDE DEF b
  <1>7. /\ f \in Draft
        /\ m = 0 => f.job = b.job
        /\ m # 0 => f.job = b.job \cup {<<i, m>>}
    BY <1>6 DEF StageEmbedding, Draft
  <1> HIDE DEF f
  <1>8. StageSource(f, i).job = f.job
    BY <1>7 DEF StageSource, Draft
  <1> QED
    BY <1>1, <1>4, <1>6, <1>7, <1>8

\* The row of an insert has the status it was stored with.
LEMMA InsertStatus ==
    ASSUME NEW d \in Database, NEW i \in Ids, NEW s \in Statuses,
           NEW m \in Nat, NEW at \in Nat
    PROVE  Insert(d, i, s, m, at).row[i].status = s
  <1>1. Insert(d, i, s, m, at).row[i] = NewRow(i, s, at)
    BY InsertFields
  <1> QED
    BY <1>1 DEF NewRow

\* An insert over the unique index keeps the tables consistent.
LEMMA InsertConsistent ==
    ASSUME NEW d, Consistent(d), NEW i \in Ids,
           NEW s \in {"active", "quarantined"}, NEW m \in Nat, NEW at \in Nat,
           InsertGuard(d, i)
    PROVE  /\ Consistent(Insert(d, i, s, m, at))
           /\ KeepsErased(d, Insert(d, i, s, m, at))
  <1> DEFINE e == Insert(d, i, s, m, at)
  <1>1. d \in Database /\ s \in Statuses
    BY DEF Consistent, Statuses
  <1>2. /\ e \in Draft
        /\ e.row[i] = NewRow(i, s, at)
        /\ e.sources[i] = d.sources[i] + 1
        /\ \A j \in Ids \ {i} : e.row[j] = d.row[j] /\ e.sources[j] = d.sources[j]
        /\ e.counter = Adjust(d.counter, KindOf[i], s, 1)
        /\ e.provenance = d.provenance \cup {i}
        /\ e.derivation = d.derivation \cup {<<i, p>> : p \in ParentsOf[i]}
        /\ e.key = d.key
        /\ e.job \subseteq d.job \cup {<<i, m>>}
    BY <1>1, InsertFields
  <1> HIDE DEF e
  <1>3. d.row \in [Ids -> Row] /\ d.sources \in [Ids -> Nat]
    BY <1>1 DEF Database
  <1>4. d.row[i].status = "absent" /\ d.row[i] = NoRow
    BY DEF InsertGuard, Present, Consistent, AbsentAreBlank
  <1>5. /\ e.row[i] = NewRow(i, s, at)
        /\ \A j \in Ids \ {i} : e.row[j] = d.row[j]
    BY <1>2, <1>3
  <1>6. /\ NewRow(i, s, at).status = s /\ NewRow(i, s, at).superseded_by = None
        /\ NewRow(i, s, at).fingerprint = Fingerprint(i)
        /\ NewRow(i, s, at).record.status = s /\ NewRow(i, s, at).record.by = None
        /\ NewRow(i, s, at).record.uses = 1
    BY DEF NewRow
  <1>7. CountersAgree(e)
    <2> SUFFICES ASSUME NEW k \in Kinds, NEW t \in Statuses
                 PROVE  e.counter[k][t] = Cardinality(Bucket(e, k, t))
      BY DEF CountersAgree
    <2>1. /\ d.counter[k][t] = Cardinality(Bucket(d, k, t))
          /\ IsFiniteSet(Bucket(d, k, t)) /\ Cardinality(Bucket(d, k, t)) \in Nat
      BY BucketFinite DEF Consistent, CountersAgree
    <2>2. e.counter[k][t] = IF k = KindOf[i] /\ t = s THEN d.counter[k][t] + 1
                                                      ELSE d.counter[k][t]
      BY <1>1, <1>2, <2>1, KindOfType DEF Adjust, Database
    <2>3. CASE k = KindOf[i] /\ t = s
      <3>1. Bucket(e, k, t) = Bucket(d, k, t) \cup {i} /\ i \notin Bucket(d, k, t)
        BY <1>4, <1>5, <1>6, <2>3 DEF Bucket, Statuses
      <3>2. Cardinality(Bucket(d, k, t) \cup {i}) = Cardinality(Bucket(d, k, t)) + 1
        BY <2>1, <3>1, FS_AddElement
      <3> QED
        BY <2>1, <2>2, <2>3, <3>1, <3>2
    <2>4. CASE ~(k = KindOf[i] /\ t = s)
      <3>1. Bucket(e, k, t) = Bucket(d, k, t)
        BY <1>4, <1>5, <1>6, <2>4 DEF Bucket, Statuses
      <3> QED
        BY <2>1, <2>2, <2>4, <3>1
    <2> QED
      BY <2>3, <2>4
  <1>8. e \in Database
    BY <1>2, <1>7, DraftIsDatabase
  <1>9. AbsentAreBlank(e)
    BY <1>5, <1>6 DEF Consistent, AbsentAreBlank
  <1>10. DocumentsAgree(e)
    BY <1>5, <1>6 DEF Consistent, DocumentsAgree
  <1>11. Acyclic(e)
    <2> SUFFICES ASSUME NEW S \in SUBSET Ids, \A x \in S : e.row[x].superseded_by \in S
                 PROVE  S = {}
      BY DEF Acyclic
    <2>1. i \notin S
      BY <1>5, <1>6, NoneIsNoId
    <2>2. \A x \in S : d.row[x].superseded_by \in S
      BY <2>1, <1>5
    <2> QED
      BY <2>2 DEF Consistent, Acyclic
  <1>12. SourcesAgree(e)
    <2>1. d.sources[i] = 0
      BY <1>4 DEF Consistent, SourcesAgree, NoRow, NoRecord
    <2> QED
      BY <1>2, <1>3, <1>5, <1>6, <2>1 DEF Consistent, SourcesAgree
  <1>13. FingerprintsUnique(e)
    <2>1. \A j \in Ids : ~(IsLive(d, j) /\ d.row[j].fingerprint = Fingerprint(i))
      BY DEF InsertGuard, Holders
    <2>2. \A j \in Ids \ {i} : IsLive(e, j) => IsLive(d, j)
      BY <1>5 DEF IsLive
    <2> QED
      BY <1>5, <1>6, <2>1, <2>2 DEF Consistent, FingerprintsUnique
  <1>14. ErasedAreBare(e)
    <2> SUFFICES ASSUME NEW j \in Ids, e.row[j].status = "erased" PROVE Bare(e, j)
      BY DEF ErasedAreBare
    <2>1. j # i
      BY <1>5, <1>6
    <2>2. Bare(d, j)
      BY <1>5, <2>1 DEF Consistent, ErasedAreBare
    <2>3. e.row[j] = d.row[j] /\ e.sources[j] = d.sources[j] /\ j \notin e.provenance
      BY <1>2, <1>3, <1>5, <2>1, <2>2 DEF Bare
    <2>4. \A x \in e.derivation : x[1] # j
      BY <1>2, <2>1, <2>2 DEF Bare
    <2>5. \A x \in e.job : x[1] # j
      BY <1>2, <2>1, <2>2 DEF Bare
    <2> QED
      BY <1>2, <2>2, <2>3, <2>4, <2>5 DEF Bare
  <1>15. KeepsErased(d, e)
    BY <1>4, <1>5 DEF KeepsErased
  <1> QED
    BY <1>8, <1>9, <1>7, <1>10, <1>11, <1>12, <1>13, <1>14, <1>15 DEF Consistent, e

\* A merge counts one more use and never turns the time back.
LEMMA MergeIntoFields ==
    ASSUME NEW r \in Record, NEW at \in Nat
    PROVE  /\ MergeInto(r, at) \in Record
           /\ MergeInto(r, at).status = r.status
           /\ MergeInto(r, at).by = r.by
           /\ MergeInto(r, at).uses = r.uses + 1
  <1> DEFINE u == r.uses + 1
             v == Later(r.updated, at)
  <1>1. r.uses \in Nat /\ r.updated \in Nat
    BY DEF Record
  <1>2. u \in Nat /\ v \in Nat
    BY <1>1 DEF Later
  <1>3. MergeInto(r, at) = [r EXCEPT !.uses = u, !.updated = v]
    BY DEF MergeInto
  <1>4. u = r.uses + 1
    OBVIOUS
  <1> HIDE DEF u, v
  <1>5. MergeInto(r, at) \in Record
    BY <1>2, <1>3 DEF Record
  <1> QED
    BY <1>2, <1>3, <1>4, <1>5 DEF Record

\* What a merge writes, field by field.
LEMMA MergeFields ==
    ASSUME NEW d \in Draft, NEW i \in Ids, NEW expected \in Record,
           NEW m \in Nat, NEW at \in Nat, NEW w \in Ids
    PROVE  LET e == Merge(d, i, expected, m, at, w) IN
           /\ e \in Draft
           /\ e.row[i].status = d.row[i].status
           /\ e.row[i].superseded_by = d.row[i].superseded_by
           /\ e.row[i].fingerprint = d.row[i].fingerprint
           /\ e.row[i].record = MergeInto(expected, at)
           /\ e.sources[i] = d.sources[i] + 1
           /\ \A j \in Ids \ {i} : e.row[j] = d.row[j] /\ e.sources[j] = d.sources[j]
           /\ e.counter = d.counter
           /\ e.provenance = d.provenance
           /\ e.derivation = d.derivation
           /\ e.key = d.key
           /\ e.job \subseteq d.job \cup {<<i, m>>}
           /\ e.model = d.model
           /\ e.outbox = d.outbox \cup {w}
  <1> DEFINE R == [d.row EXCEPT ![i].record = MergeInto(expected, at)]
             a == [d EXCEPT !.row = R, !.outbox = @ \cup {w}]
             b == StageSource(a, i)
  <1>1. Merge(d, i, expected, m, at, w) = StageEmbedding(b, i, m)
    BY DEF Merge
  <1>2. MergeInto(expected, at) \in Record
    BY MergeIntoFields
  <1>3. d.row[i] \in Row
    BY DEF Draft
  <1>4. R \in [Ids -> Row]
    BY <1>2, <1>3 DEF Draft, Row
  <1> HIDE DEF R
  <1>5. /\ a \in Draft
        /\ a.row = R
        /\ a.counter = d.counter
        /\ a.sources = d.sources /\ a.provenance = d.provenance
        /\ a.derivation = d.derivation /\ a.key = d.key /\ a.job = d.job
        /\ a.model = d.model /\ a.outbox = d.outbox \cup {w}
    BY <1>4 DEF Draft
  <1> HIDE DEF a
  <1>6. /\ b \in Draft
        /\ b.row = a.row /\ b.counter = a.counter
        /\ b.sources = [a.sources EXCEPT ![i] = @ + 1]
        /\ b.provenance = a.provenance /\ b.derivation = a.derivation
        /\ b.key = a.key /\ b.job = a.job /\ b.model = a.model
        /\ b.outbox = a.outbox
    BY <1>5 DEF StageSource, Draft
  <1> HIDE DEF b
  <1>7. /\ StageEmbedding(b, i, m) \in Draft
        /\ StageEmbedding(b, i, m).row = b.row
        /\ StageEmbedding(b, i, m).counter = b.counter
        /\ StageEmbedding(b, i, m).sources = b.sources
        /\ StageEmbedding(b, i, m).provenance = b.provenance
        /\ StageEmbedding(b, i, m).derivation = b.derivation
        /\ StageEmbedding(b, i, m).key = b.key
        /\ StageEmbedding(b, i, m).job \subseteq b.job \cup {<<i, m>>}
        /\ StageEmbedding(b, i, m).model = b.model
        /\ StageEmbedding(b, i, m).outbox = b.outbox
    BY <1>6, StageEmbeddingFields
  <1>8. /\ R[i].status = d.row[i].status
        /\ R[i].superseded_by = d.row[i].superseded_by
        /\ R[i].fingerprint = d.row[i].fingerprint
        /\ R[i].record = MergeInto(expected, at)
        /\ \A j \in Ids \ {i} : R[j] = d.row[j]
    BY <1>2, <1>3 DEF R, Draft, Row
  <1>9. /\ b.sources[i] = d.sources[i] + 1
        /\ \A j \in Ids \ {i} : b.sources[j] = d.sources[j]
    BY <1>5, <1>6 DEF Draft
  <1> QED
    BY <1>1, <1>5, <1>6, <1>7, <1>8, <1>9

\* A merge over the document it was computed from keeps the tables consistent.
LEMMA MergeConsistent ==
    ASSUME NEW d, Consistent(d), NEW i \in Ids, NEW expected,
           NEW m \in Nat, NEW at \in Nat, NEW w \in Ids,
           MergeGuard(d, i, expected), expected.status # "absent"
    PROVE  /\ Consistent(Merge(d, i, expected, m, at, w))
           /\ KeepsErased(d, Merge(d, i, expected, m, at, w))
  <1> DEFINE e == Merge(d, i, expected, m, at, w)
  <1>1. /\ d \in Database /\ d.row \in [Ids -> Row] /\ d.sources \in [Ids -> Nat]
        /\ d.row[i] \in Row /\ d.row[i].record \in Record
    BY DEF Consistent, Database, Row
  <1>2. /\ expected \in Record /\ expected = d.row[i].record
        /\ d.row[i].status \notin {"absent", "erased"}
    BY <1>1 DEF MergeGuard, Consistent, DocumentsAgree
  <1>d. d \in Draft
    BY <1>1, DatabaseIsDraft
  <1>x. expected \in Record
    BY <1>2
  <1>3. /\ e \in Draft
        /\ e.row[i].status = d.row[i].status
        /\ e.row[i].superseded_by = d.row[i].superseded_by
        /\ e.row[i].fingerprint = d.row[i].fingerprint
        /\ e.row[i].record = MergeInto(expected, at)
        /\ e.sources[i] = d.sources[i] + 1
        /\ \A j \in Ids \ {i} : e.row[j] = d.row[j] /\ e.sources[j] = d.sources[j]
        /\ e.counter = d.counter
        /\ e.provenance = d.provenance
        /\ e.derivation = d.derivation
        /\ e.key = d.key
        /\ e.job \subseteq d.job \cup {<<i, m>>}
    BY <1>d, <1>x, MergeFields
  <1> HIDE DEF e
  <1>7. /\ MergeInto(expected, at).status = expected.status
        /\ MergeInto(expected, at).by = expected.by
        /\ MergeInto(expected, at).uses = expected.uses + 1
    BY <1>2, MergeIntoFields
  <1>8. CountersAgree(e)
    BY <1>3, SameStatusSameBuckets DEF Consistent
  <1>9. e \in Database
    BY <1>3, <1>8, DraftIsDatabase
  <1>10. AbsentAreBlank(e)
    BY <1>2, <1>3 DEF Consistent, AbsentAreBlank
  <1>11. DocumentsAgree(e)
    BY <1>2, <1>3, <1>7 DEF Consistent, DocumentsAgree
  <1>12. \A j \in Ids : e.row[j].superseded_by = d.row[j].superseded_by
    BY <1>3
  <1>13. Acyclic(e)
    BY <1>12 DEF Consistent, Acyclic
  <1>14. SourcesAgree(e)
    BY <1>2, <1>3, <1>7 DEF Consistent, SourcesAgree
  <1>15. FingerprintsUnique(e)
    BY <1>3 DEF Consistent, FingerprintsUnique, IsLive
  <1>16. ErasedAreBare(e)
    <2> SUFFICES ASSUME NEW j \in Ids, e.row[j].status = "erased" PROVE Bare(e, j)
      BY DEF ErasedAreBare
    <2>1. j # i
      BY <1>2, <1>3
    <2>2. Bare(d, j)
      BY <1>3, <2>1 DEF Consistent, ErasedAreBare
    <2>3. \A x \in e.job : x[1] # j
      BY <1>3, <2>1, <2>2 DEF Bare
    <2> QED
      BY <1>3, <2>1, <2>2, <2>3 DEF Bare
  <1>17. KeepsErased(d, e)
    BY <1>2, <1>3 DEF KeepsErased
  <1> QED
    BY <1>8, <1>9, <1>10, <1>11, <1>13, <1>14, <1>15, <1>16, <1>17 DEF Consistent, e

-----------------------------------------------------------------------------
(* Supersession.                                                           *)

\* The commit-time walk is what keeps the chain acyclic: a set that the new
\* link would close meets the walk's set in one that was closed before.
LEMMA SupersedeAcyclic ==
    ASSUME NEW d, NEW e, Acyclic(d), NEW old \in Ids, NEW new \in Ids,
           ~Reaches(d, new, old),
           e.row[old].superseded_by = new,
           \A j \in Ids \ {old} : e.row[j].superseded_by = d.row[j].superseded_by
    PROVE  Acyclic(e)
  <1> SUFFICES ASSUME NEW S \in SUBSET Ids, \A x \in S : e.row[x].superseded_by \in S
               PROVE  S = {}
    BY DEF Acyclic
  <1>1. CASE old \notin S
    <2>1. \A x \in S : d.row[x].superseded_by \in S
      BY <1>1
    <2> QED
      BY <2>1 DEF Acyclic
  <1>2. CASE old \in S
    <2>1. new \in S
      BY <1>2
    <2>2. PICK T \in SUBSET Ids :
             /\ new \in T
             /\ \A x \in T : d.row[x].superseded_by # None => d.row[x].superseded_by \in T
             /\ old \notin T
      BY DEF Reaches
    <2>3. \A x \in S \cap T : d.row[x].superseded_by \in S \cap T
      BY <2>2, NoneIsNoId
    <2>4. S \cap T = {}
      BY <2>3 DEF Acyclic
    <2> QED
      BY <2>1, <2>2, <2>4
  <1> QED
    BY <1>1, <1>2

\* Counters::adjust by one moves one counter.
LEMMA AdjustUp ==
    ASSUME NEW c \in [Kinds -> [Statuses -> Int]], NEW k \in Kinds, NEW s \in Statuses
    PROVE  /\ Adjust(c, k, s, 1) \in [Kinds -> [Statuses -> Int]]
           /\ \A l \in Kinds, t \in Statuses :
                 Adjust(c, k, s, 1)[l][t] =
                    IF l = k /\ t = s
                    THEN IF c[k][s] + 1 > 0 THEN c[k][s] + 1 ELSE 0
                    ELSE c[l][t]
  <1> DEFINE v == IF c[k][s] + 1 > 0 THEN c[k][s] + 1 ELSE 0
  <1>1. v \in Int
    OBVIOUS
  <1>2. Adjust(c, k, s, 1) = [c EXCEPT ![k][s] = v]
    BY DEF Adjust
  <1> HIDE DEF v
  <1>3. [c EXCEPT ![k][s] = v] \in [Kinds -> [Statuses -> Int]]
    BY <1>1
  <1>4. \A l \in Kinds, t \in Statuses :
           [c EXCEPT ![k][s] = v][l][t] = IF l = k /\ t = s THEN v ELSE c[l][t]
    OBVIOUS
  <1> QED
    BY <1>2, <1>3, <1>4 DEF v

\* Counters::adjust by minus one clamps at zero.
LEMMA AdjustDown ==
    ASSUME NEW c \in [Kinds -> [Statuses -> Int]], NEW k \in Kinds, NEW s \in Statuses
    PROVE  /\ Adjust(c, k, s, (-1)) \in [Kinds -> [Statuses -> Int]]
           /\ \A l \in Kinds, t \in Statuses :
                 Adjust(c, k, s, (-1))[l][t] =
                    IF l = k /\ t = s
                    THEN IF c[k][s] + (-1) > 0 THEN c[k][s] + (-1) ELSE 0
                    ELSE c[l][t]
  <1> DEFINE v == IF c[k][s] + (-1) > 0 THEN c[k][s] + (-1) ELSE 0
  <1>1. v \in Int
    OBVIOUS
  <1>2. Adjust(c, k, s, (-1)) = [c EXCEPT ![k][s] = v]
    BY DEF Adjust
  <1> HIDE DEF v
  <1>3. [c EXCEPT ![k][s] = v] \in [Kinds -> [Statuses -> Int]]
    BY <1>1
  <1>4. \A l \in Kinds, t \in Statuses :
           [c EXCEPT ![k][s] = v][l][t] = IF l = k /\ t = s THEN v ELSE c[l][t]
    OBVIOUS
  <1> QED
    BY <1>2, <1>3, <1>4 DEF v

\* What a supersession writes, field by field.
LEMMA SupersedeFields ==
    ASSUME NEW d \in Draft, NEW old \in Ids, NEW new \in Ids,
           NEW expected \in Record, expected.status \in Statuses, NEW at \in Nat
    PROVE  LET e == Supersede(d, old, new, expected, at) IN
           /\ e \in Draft
           /\ e.row[old].status = "superseded"
           /\ e.row[old].superseded_by = new
           /\ e.row[old].fingerprint = d.row[old].fingerprint
           /\ e.row[old].record.status = "superseded"
           /\ e.row[old].record.by = new
           /\ e.row[old].record.uses = expected.uses
           /\ \A j \in Ids \ {old} : e.row[j] = d.row[j]
           /\ e.counter = Adjust(Adjust(d.counter, KindOf[old], expected.status, -1),
                                 KindOf[old], "superseded", 1)
           /\ e.sources = d.sources
           /\ e.provenance = d.provenance
           /\ e.derivation = d.derivation
           /\ e.key = d.key
           /\ e.job = d.job
           /\ e.model = d.model
           /\ e.outbox = d.outbox
  <1> DEFINE rec == [expected EXCEPT !.status = "superseded", !.by = new, !.updated = at]
             row == [d.row[old] EXCEPT !.status = "superseded", !.superseded_by = new,
                                       !.record = rec]
             cnt == Adjust(Adjust(d.counter, KindOf[old], expected.status, -1),
                           KindOf[old], "superseded", 1)
             R == [d.row EXCEPT ![old] = row]
             e == [d EXCEPT !.row = R, !.counter = cnt]
  <1>1. Supersede(d, old, new, expected, at) = e
    BY DEF Supersede
  <1>2. /\ rec \in Record /\ rec.status = "superseded" /\ rec.by = new
        /\ rec.uses = expected.uses
    BY DEF Record, RowStatus, Statuses
  <1> HIDE DEF rec
  <1>3. d.row[old] \in Row
    BY DEF Draft
  <1>4. /\ row \in Row /\ row.status = "superseded" /\ row.superseded_by = new
        /\ row.record = rec /\ row.fingerprint = d.row[old].fingerprint
    BY <1>2, <1>3 DEF Row, RowStatus, Statuses
  <1> HIDE DEF row
  <1>5. cnt \in [Kinds -> [Statuses -> Int]]
    <2>1. d.counter \in [Kinds -> [Statuses -> Int]] /\ KindOf[old] \in Kinds
          /\ "superseded" \in Statuses
      BY KindOfType DEF Draft, Statuses
    <2>2. Adjust(d.counter, KindOf[old], expected.status, -1)
             \in [Kinds -> [Statuses -> Int]]
      BY <2>1, AdjustDown
    <2> QED
      BY <2>1, <2>2, AdjustUp
  <1> HIDE DEF cnt
  <1>6. /\ R \in [Ids -> Row] /\ R[old] = row
        /\ \A j \in Ids \ {old} : R[j] = d.row[j]
    BY <1>4 DEF Draft
  <1> HIDE DEF R
  <1>7. /\ e \in Draft /\ e.row = R /\ e.counter = cnt
        /\ e.sources = d.sources /\ e.provenance = d.provenance
        /\ e.derivation = d.derivation /\ e.key = d.key /\ e.job = d.job
        /\ e.model = d.model /\ e.outbox = d.outbox
    BY <1>5, <1>6 DEF Draft
  <1> HIDE DEF e
  <1> QED
    BY <1>1, <1>2, <1>4, <1>6, <1>7 DEF cnt

\* A supersession changes the row it retires and no other.
LEMMA SupersedeStatus ==
    ASSUME NEW d \in Draft, NEW old \in Ids, NEW new \in Ids,
           NEW expected \in Record, expected.status \in Statuses, NEW at \in Nat
    PROVE  /\ Supersede(d, old, new, expected, at).row[old].status = "superseded"
           /\ \A j \in Ids \ {old} :
                 Supersede(d, old, new, expected, at).row[j] = d.row[j]
  BY SupersedeFields

\* A supersession over the document that was read, with the walk repeated at
\* commit, keeps the tables consistent.
LEMMA SupersedeConsistent ==
    ASSUME NEW d, Consistent(d), NEW old \in Ids, NEW new \in Ids,
           NEW expected, NEW at \in Nat,
           SupersedeGuard(d, old, new, expected), expected.status # "absent"
    PROVE  /\ Consistent(Supersede(d, old, new, expected, at))
           /\ KeepsErased(d, Supersede(d, old, new, expected, at))
  <1> DEFINE e == Supersede(d, old, new, expected, at)
             k0 == KindOf[old]
             s0 == d.row[old].status
  <1>1. d \in Database /\ d \in Draft
    BY DatabaseIsDraft DEF Consistent
  <1>2. d.row[old] \in Row /\ d.row[old].record \in Record
    BY <1>1 DEF Draft, Row
  <1>3. /\ expected \in Record /\ expected = d.row[old].record
        /\ expected.status = s0 /\ s0 \in Statuses /\ s0 # "erased"
    BY <1>2 DEF SupersedeGuard, Consistent, DocumentsAgree, Row, RowStatus
  <1>x. expected \in Record /\ expected.status \in Statuses
    BY <1>3
  <1>4. /\ e \in Draft
        /\ e.row[old].status = "superseded"
        /\ e.row[old].superseded_by = new
        /\ e.row[old].fingerprint = d.row[old].fingerprint
        /\ e.row[old].record.status = "superseded"
        /\ e.row[old].record.by = new
        /\ e.row[old].record.uses = expected.uses
        /\ \A j \in Ids \ {old} : e.row[j] = d.row[j]
        /\ e.counter = Adjust(Adjust(d.counter, k0, expected.status, -1),
                              k0, "superseded", 1)
        /\ e.sources = d.sources
        /\ e.provenance = d.provenance
        /\ e.derivation = d.derivation
        /\ e.key = d.key
        /\ e.job = d.job
    BY <1>1, <1>x, SupersedeFields
  <1> HIDE DEF e
  <1>5. CountersAgree(e)
    <2> DEFINE mid == Adjust(d.counter, k0, s0, -1)
    <2>1. /\ d.counter \in [Kinds -> [Statuses -> Int]] /\ k0 \in Kinds
          /\ "superseded" \in Statuses
      BY <1>1, KindOfType DEF Draft, Statuses
    <2>2. /\ mid \in [Kinds -> [Statuses -> Int]]
          /\ \A l \in Kinds, t \in Statuses :
                mid[l][t] = IF l = k0 /\ t = s0
                            THEN IF d.counter[k0][s0] + (-1) > 0
                                 THEN d.counter[k0][s0] + (-1) ELSE 0
                            ELSE d.counter[l][t]
      BY <1>3, <2>1, AdjustDown
    <2>3. \A l \in Kinds, t \in Statuses :
             e.counter[l][t] = IF l = k0 /\ t = "superseded"
                               THEN IF mid[k0]["superseded"] + 1 > 0
                                    THEN mid[k0]["superseded"] + 1 ELSE 0
                               ELSE mid[l][t]
      <3> HIDE DEF mid
      <3>1. e.counter = Adjust(mid, k0, "superseded", 1)
        BY <1>3, <1>4 DEF mid
      <3> QED
        BY <2>1, <2>2, <3>1, AdjustUp
    <2> HIDE DEF mid
    <2>4. \A l \in Kinds, t \in Statuses :
             /\ d.counter[l][t] = Cardinality(Bucket(d, l, t))
             /\ IsFiniteSet(Bucket(d, l, t))
             /\ Cardinality(Bucket(d, l, t)) \in Nat
      BY BucketFinite DEF Consistent, CountersAgree
    <2>5. old \in Bucket(d, k0, s0)
      BY DEF Bucket
    <2>6. /\ Cardinality(Bucket(d, k0, s0) \ {old}) = Cardinality(Bucket(d, k0, s0)) - 1
          /\ Cardinality(Bucket(d, k0, s0) \ {old}) \in Nat
      <3>1. IsFiniteSet(Bucket(d, k0, s0))
        BY <2>1, <2>4, <1>3
      <3>2. IsFiniteSet(Bucket(d, k0, s0) \ {old})
        BY <3>1, FS_RemoveElement
      <3> QED
        BY <3>1, <3>2, <2>5, FS_RemoveElement, FS_CardinalityType
    <2>7. d.counter[k0][s0] >= 1
      BY <2>1, <2>4, <2>6, <1>3
    <2> SUFFICES ASSUME NEW l \in Kinds, NEW t \in Statuses
                 PROVE  e.counter[l][t] = Cardinality(Bucket(e, l, t))
      BY DEF CountersAgree
    <2>8. CASE l # k0 \/ (t # s0 /\ t # "superseded")
      <3>1. Bucket(e, l, t) = Bucket(d, l, t)
        BY <1>4, <2>8 DEF Bucket
      <3> QED
        BY <2>2, <2>3, <2>4, <2>8, <3>1
    <2>9. CASE l = k0 /\ t = s0 /\ t # "superseded"
      <3>1. Bucket(e, l, t) = Bucket(d, k0, s0) \ {old}
        BY <1>4, <2>9 DEF Bucket
      <3>2. e.counter[l][t] = d.counter[k0][s0] - 1
        BY <2>1, <2>2, <2>3, <2>4, <2>7, <2>9
      <3> QED
        BY <2>4, <2>6, <2>9, <3>1, <3>2
    <2>10. CASE l = k0 /\ t = "superseded" /\ t # s0
      <3>1. Bucket(e, l, t) = Bucket(d, l, t) \cup {old} /\ old \notin Bucket(d, l, t)
        BY <1>4, <2>10 DEF Bucket
      <3>2. e.counter[l][t] = d.counter[l][t] + 1
        BY <2>1, <2>2, <2>3, <2>4, <2>10
      <3>3. Cardinality(Bucket(d, l, t) \cup {old}) = Cardinality(Bucket(d, l, t)) + 1
        BY <2>4, <3>1, FS_AddElement
      <3> QED
        BY <2>4, <3>1, <3>2, <3>3
    <2>11. CASE l = k0 /\ t = s0 /\ t = "superseded"
      <3>1. Bucket(e, l, t) = Bucket(d, l, t)
        BY <1>4, <2>11 DEF Bucket
      <3>2. e.counter[l][t] = d.counter[l][t]
        BY <2>1, <2>2, <2>3, <2>4, <2>7, <2>11
      <3> QED
        BY <2>4, <3>1, <3>2
    <2> QED
      BY <2>8, <2>9, <2>10, <2>11
  <1>6. e \in Database
    BY <1>4, <1>5, DraftIsDatabase
  <1>7. AbsentAreBlank(e)
    BY <1>4 DEF Consistent, AbsentAreBlank
  <1>8. DocumentsAgree(e)
    BY <1>4, NoneIsNoId DEF Consistent, DocumentsAgree
  <1>9. Acyclic(e)
    BY <1>4, SupersedeAcyclic DEF Consistent, SupersedeGuard
  <1>10. SourcesAgree(e)
    BY <1>3, <1>4 DEF Consistent, SourcesAgree
  <1>11. FingerprintsUnique(e)
    BY <1>3, <1>4 DEF Consistent, FingerprintsUnique, IsLive, Statuses
  <1>12. ErasedAreBare(e)
    BY <1>4 DEF Consistent, ErasedAreBare, Bare
  <1>13. KeepsErased(d, e)
    BY <1>3, <1>4 DEF KeepsErased
  <1> QED
    BY <1>5, <1>6, <1>7, <1>8, <1>9, <1>10, <1>11, <1>12, <1>13 DEF Consistent, e

-----------------------------------------------------------------------------
(* Statements that leave every document alone.                             *)

\* Only what the tables promise about the changed columns has to be shown
\* again when status, successor, fingerprint and document stay.
LEMMA FrameConsistent ==
    ASSUME NEW d, Consistent(d), NEW e \in Draft,
           \A j \in Ids : /\ e.row[j].status = d.row[j].status
                          /\ e.row[j].superseded_by = d.row[j].superseded_by
                          /\ e.row[j].fingerprint = d.row[j].fingerprint
                          /\ e.row[j].record = d.row[j].record
                          /\ ~IsLive(d, j) => e.row[j] = d.row[j],
           e.counter = d.counter, e.sources = d.sources,
           e.provenance = d.provenance, e.derivation = d.derivation,
           e.job = d.job,
           \A x \in e.key \ d.key : \A j \in Ids : x[2] = j => d.row[j].status # "erased"
    PROVE  Consistent(e) /\ KeepsErased(d, e)
  <1>1. CountersAgree(e)
    BY SameStatusSameBuckets DEF Consistent
  <1>2. e \in Database
    BY <1>1, DraftIsDatabase
  <1>3. AbsentAreBlank(e)
    BY DEF Consistent, AbsentAreBlank, IsLive
  <1>4. DocumentsAgree(e)
    BY DEF Consistent, DocumentsAgree
  <1>5. Acyclic(e)
    BY DEF Consistent, Acyclic
  <1>6. SourcesAgree(e)
    BY DEF Consistent, SourcesAgree
  <1>7. FingerprintsUnique(e)
    BY DEF Consistent, FingerprintsUnique, IsLive
  <1>8. ErasedAreBare(e)
    <2> SUFFICES ASSUME NEW j \in Ids, e.row[j].status = "erased" PROVE Bare(e, j)
      BY DEF ErasedAreBare
    <2>1. Bare(d, j) /\ e.row[j] = d.row[j]
      BY DEF Consistent, ErasedAreBare, IsLive
    <2>2. \A x \in e.key : x[2] # j
      BY <2>1 DEF Bare
    <2> QED
      BY <2>1, <2>2 DEF Bare
  <1>9. KeepsErased(d, e)
    BY DEF KeepsErased, IsLive
  <1> QED
    BY <1>1, <1>2, <1>3, <1>4, <1>5, <1>6, <1>7, <1>8, <1>9 DEF Consistent

\* A decision key never points at a tombstone.
LEMMA KeyConsistent ==
    ASSUME NEW d, Consistent(d), NEW w \in Ids, NEW m \in Ids \cup {None},
           m \in Ids => d.row[m].status # "erased"
    PROVE  /\ Consistent([d EXCEPT !.key = @ \cup {<<w, m>>}])
           /\ KeepsErased(d, [d EXCEPT !.key = @ \cup {<<w, m>>}])
  <1> DEFINE e == [d EXCEPT !.key = @ \cup {<<w, m>>}]
  <1>1. d \in Draft
    BY DatabaseIsDraft DEF Consistent
  <1>2. /\ e \in Draft /\ e.row = d.row /\ e.counter = d.counter
        /\ e.sources = d.sources /\ e.provenance = d.provenance
        /\ e.derivation = d.derivation /\ e.job = d.job
        /\ e.key = d.key \cup {<<w, m>>}
    BY <1>1 DEF Draft
  <1> HIDE DEF e
  <1>3. \A x \in e.key \ d.key : \A j \in Ids : x[2] = j => d.row[j].status # "erased"
    BY <1>2
  <1>4. Consistent(e) /\ KeepsErased(d, e)
    BY <1>2, <1>3, FrameConsistent
  <1> QED
    BY <1>4 DEF e

\* A model activation changes no row.
LEMMA ModelConsistent ==
    ASSUME NEW d, Consistent(d), NEW n \in Nat
    PROVE  /\ Consistent([d EXCEPT !.model = n])
           /\ KeepsErased(d, [d EXCEPT !.model = n])
  <1> DEFINE e == [d EXCEPT !.model = n]
  <1>1. d \in Draft
    BY DatabaseIsDraft DEF Consistent
  <1>2. /\ e \in Draft /\ e.row = d.row /\ e.counter = d.counter
        /\ e.sources = d.sources /\ e.provenance = d.provenance
        /\ e.derivation = d.derivation /\ e.job = d.job /\ e.key = d.key
    BY <1>1 DEF Draft
  <1> HIDE DEF e
  <1>3. Consistent(e) /\ KeepsErased(d, e)
    BY <1>2, FrameConsistent
  <1> QED
    BY <1>3 DEF e

\* A deadline is set on a live row only.
LEMMA DeadlineConsistent ==
    ASSUME NEW d, Consistent(d), NEW i \in Ids, NEW u \in Nat \cup {None}
    PROVE  /\ Consistent(SetDeadline(d, i, u))
           /\ KeepsErased(d, SetDeadline(d, i, u))
  <1> DEFINE R == [d.row EXCEPT ![i].valid_until = u]
             e == [d EXCEPT !.row = R]
  <1>1. d \in Draft
    BY DatabaseIsDraft DEF Consistent
  <1>2. d.row[i] \in Row /\ d.row \in [Ids -> Row]
    BY <1>1 DEF Draft
  <1>3. /\ R \in [Ids -> Row]
        /\ \A j \in Ids \ {i} : R[j] = d.row[j]
        /\ R[i].status = d.row[i].status
        /\ R[i].superseded_by = d.row[i].superseded_by
        /\ R[i].fingerprint = d.row[i].fingerprint
        /\ R[i].record = d.row[i].record
    BY <1>2 DEF Row
  <1>4. CASE IsLive(d, i)
    <2>1. SetDeadline(d, i, u) = e
      BY <1>4 DEF SetDeadline
    <2> HIDE DEF R
    <2>2. /\ e \in Draft /\ e.row = R /\ e.counter = d.counter
          /\ e.sources = d.sources /\ e.provenance = d.provenance
          /\ e.derivation = d.derivation /\ e.job = d.job /\ e.key = d.key
      BY <1>1, <1>3 DEF Draft
    <2> HIDE DEF e
    <2>3. \A j \in Ids : /\ e.row[j].status = d.row[j].status
                         /\ e.row[j].superseded_by = d.row[j].superseded_by
                         /\ e.row[j].fingerprint = d.row[j].fingerprint
                         /\ e.row[j].record = d.row[j].record
                         /\ ~IsLive(d, j) => e.row[j] = d.row[j]
      BY <1>3, <1>4, <2>2
    <2>4. Consistent(e) /\ KeepsErased(d, e)
      BY <2>2, <2>3, FrameConsistent
    <2> QED
      BY <2>1, <2>4
  <1>5. CASE ~IsLive(d, i)
    BY <1>5 DEF SetDeadline, KeepsErased
  <1> QED
    BY <1>4, <1>5

\* MARK_DERIVED_SQL flags live rows only.
LEMMA MarkConsistent ==
    ASSUME NEW d, Consistent(d), NEW p \in Ids
    PROVE  /\ Consistent(MarkDerived(d, p))
           /\ KeepsErased(d, MarkDerived(d, p))
  <1> DEFINE R == [i \in Ids |->
                     IF i \in DerivedOf(d, p) /\ IsLive(d, i)
                     THEN [d.row[i] EXCEPT !.origin_erased = TRUE] ELSE d.row[i]]
             e == [d EXCEPT !.row = R]
  <1>1. d \in Draft
    BY DatabaseIsDraft DEF Consistent
  <1>2. \A i \in Ids : d.row[i] \in Row
    BY <1>1 DEF Draft
  <1>3. \A i \in Ids :
           /\ R[i] \in Row
           /\ R[i].status = d.row[i].status
           /\ R[i].superseded_by = d.row[i].superseded_by
           /\ R[i].fingerprint = d.row[i].fingerprint
           /\ R[i].record = d.row[i].record
           /\ ~IsLive(d, i) => R[i] = d.row[i]
    BY <1>2 DEF Row
  <1>4. R \in [Ids -> Row]
    BY <1>3
  <1>5. MarkDerived(d, p) = e
    BY DEF MarkDerived
  <1> HIDE DEF R
  <1>6. /\ e \in Draft /\ e.row = R /\ e.counter = d.counter
        /\ e.sources = d.sources /\ e.provenance = d.provenance
        /\ e.derivation = d.derivation /\ e.job = d.job /\ e.key = d.key
    BY <1>1, <1>4 DEF Draft
  <1> HIDE DEF e
  <1>7. Consistent(e) /\ KeepsErased(d, e)
    BY <1>3, <1>6, FrameConsistent
  <1> QED
    BY <1>5, <1>7

-----------------------------------------------------------------------------
(* Expiry and erasure move many rows at once.                              *)

\* Counters that move by the rows the same transaction moves stay exact.
LEMMA MovedCountersAgree ==
    ASSUME NEW d, CountersAgree(d), NEW e, NEW M \in SUBSET Ids, NEW to \in Statuses,
           \A i \in M : d.row[i].status # to,
           \A i \in Ids : e.row[i].status = IF i \in M THEN to ELSE d.row[i].status,
           \A k \in Kinds, s \in Statuses :
              e.counter[k][s] =
                 IF s = to THEN d.counter[k][s] + Cardinality({i \in M : KindOf[i] = k})
                 ELSE d.counter[k][s] - Cardinality(M \cap Bucket(d, k, s))
    PROVE  CountersAgree(e)
  <1> SUFFICES ASSUME NEW k \in Kinds, NEW s \in Statuses
               PROVE  e.counter[k][s] = Cardinality(Bucket(e, k, s))
    BY DEF CountersAgree
  <1> DEFINE B == Bucket(d, k, s)
             Mk == {i \in M : KindOf[i] = k}
  <1>1. /\ d.counter[k][s] = Cardinality(B) /\ IsFiniteSet(B)
        /\ Cardinality(B) \in Nat
    BY BucketFinite DEF CountersAgree
  <1>2. CASE s = to
    <2>1. Bucket(e, k, s) = B \cup Mk /\ B \cap Mk = {}
      BY <1>2 DEF Bucket
    <2>2. IsFiniteSet(Mk)
      <3>1. Mk \in SUBSET Ids
        OBVIOUS
      <3> QED
        BY <3>1, IdsFinite, FS_Subset
    <2> HIDE DEF B, Mk
    <2>3. Cardinality(B \cup Mk) = Cardinality(B) + Cardinality(Mk)
      BY <1>1, <2>1, <2>2, BucketGrows
    <2> QED
      BY <1>1, <1>2, <2>1, <2>3 DEF Mk
  <1>3. CASE s # to
    <2>1. Bucket(e, k, s) = B \ M /\ B \cap M = M \cap B
      BY <1>3 DEF Bucket
    <2> HIDE DEF B
    <2>2. Cardinality(B \ M) = Cardinality(B) - Cardinality(B \cap M)
      BY <1>1, FS_Difference
    <2>3. e.counter[k][s] = d.counter[k][s] - Cardinality(M \cap Bucket(d, k, s))
      BY <1>3
    <2>4. e.counter[k][s] = Cardinality(B) - Cardinality(B \cap M)
      BY <1>1, <2>1, <2>3 DEF B
    <2> QED
      BY <2>1, <2>2, <2>4
  <1> QED
    BY <1>2, <1>3

\* The update expires rows that are active at commit; deadline, fingerprint
\* and sources stay.
LEMMA ExpireConsistent ==
    ASSUME NEW d, Consistent(d), NEW ids \in SUBSET Ids, NEW now \in Nat
    PROVE  /\ Consistent(Expire(d, ids, now))
           /\ KeepsErased(d, Expire(d, ids, now))
  <1> DEFINE M == {i \in ids : d.row[i].status = "active"}
             n(k) == Cardinality({i \in M : KindOf[i] = k})
             C == [k \in Kinds |-> [s \in Statuses |->
                     CASE s = "active"  -> IF d.counter[k][s] - n(k) > 0
                                              THEN d.counter[k][s] - n(k) ELSE 0
                       [] s = "expired" -> d.counter[k][s] + n(k)
                       [] OTHER         -> d.counter[k][s]]]
             R == [i \in Ids |->
                     IF i \in M
                     THEN [d.row[i] EXCEPT !.status = "expired",
                                           !.record.status = "expired",
                                           !.record.updated = now]
                     ELSE d.row[i]]
             e == [d EXCEPT !.counter = C, !.row = R]
  <1>1. Expire(d, ids, now) = e
    BY DEF Expire
  <1>2. d \in Database /\ d \in Draft
    BY DatabaseIsDraft DEF Consistent
  <1>3. /\ M \in SUBSET Ids
        /\ \A i \in M : d.row[i].status = "active"
    OBVIOUS
  <1>4. \A k \in Kinds : n(k) \in Nat
    <2> SUFFICES ASSUME NEW k \in Kinds PROVE n(k) \in Nat
      OBVIOUS
    <2>1. {i \in M : KindOf[i] = k} \in SUBSET Ids
      OBVIOUS
    <2> QED
      BY <2>1, IdsFinite, FS_Subset, FS_CardinalityType
  <1>5. \A k \in Kinds, s \in Statuses :
           C[k][s] = IF s = "expired" THEN d.counter[k][s] + n(k)
                     ELSE d.counter[k][s] - Cardinality(M \cap Bucket(d, k, s))
    <2> SUFFICES ASSUME NEW k \in Kinds, NEW s \in Statuses
                 PROVE  C[k][s] = IF s = "expired" THEN d.counter[k][s] + n(k)
                          ELSE d.counter[k][s] - Cardinality(M \cap Bucket(d, k, s))
      OBVIOUS
    <2>1. /\ d.counter[k][s] = Cardinality(Bucket(d, k, s))
          /\ IsFiniteSet(Bucket(d, k, s)) /\ Cardinality(Bucket(d, k, s)) \in Nat
      BY BucketFinite DEF Consistent, CountersAgree
    <2>2. CASE s = "expired"
      BY <2>2
    <2>3. CASE s = "active"
      <3>1. M \cap Bucket(d, k, s) = {i \in M : KindOf[i] = k}
        BY <2>3 DEF Bucket
      <3>2. n(k) = Cardinality(M \cap Bucket(d, k, s))
        BY <3>1
      <3>3. C[k][s] = IF d.counter[k][s] - n(k) > 0 THEN d.counter[k][s] - n(k) ELSE 0
        BY <2>3
      <3>4. Cardinality(M \cap Bucket(d, k, s)) <= Cardinality(Bucket(d, k, s))
        BY <2>1, FS_Intersection
      <3>5. n(k) \in Nat
        BY <1>4
      <3> HIDE DEF C, n, M
      <3> QED
        BY <2>1, <2>3, <3>2, <3>3, <3>4, <3>5
    <2>4. CASE s \notin {"active", "expired"}
      <3>1. M \cap Bucket(d, k, s) = {}
        BY <2>4 DEF Bucket
      <3>2. C[k][s] = d.counter[k][s]
        BY <2>4
      <3>3. Cardinality(M \cap Bucket(d, k, s)) = 0
        BY <3>1, FS_EmptySet
      <3> HIDE DEF C, n, M
      <3> QED
        BY <2>1, <2>4, <3>2, <3>3
    <2> QED
      BY <2>2, <2>3, <2>4
  <1>6. C \in [Kinds -> [Statuses -> Int]]
    <2>1. \A k \in Kinds, s \in Statuses : d.counter[k][s] \in Int
      BY <1>2 DEF Draft
    <2>2. \A k \in Kinds, s \in Statuses : C[k][s] \in Int
      BY <1>4, <2>1
    <2>3. C = [k \in Kinds |-> [s \in Statuses |-> C[k][s]]]
      OBVIOUS
    <2> HIDE DEF C
    <2> QED
      BY <2>2, <2>3
  <1>7. \A i \in Ids :
           /\ R[i] \in Row
           /\ R[i].status = IF i \in M THEN "expired" ELSE d.row[i].status
           /\ R[i].superseded_by = d.row[i].superseded_by
           /\ R[i].fingerprint = d.row[i].fingerprint
           /\ R[i].record.status = IF i \in M THEN "expired" ELSE d.row[i].record.status
           /\ R[i].record.by = d.row[i].record.by
           /\ R[i].record.uses = d.row[i].record.uses
           /\ i \notin M => R[i] = d.row[i]
    <2> SUFFICES ASSUME NEW i \in Ids
                 PROVE  /\ R[i] \in Row
                        /\ R[i].status = IF i \in M THEN "expired" ELSE d.row[i].status
                        /\ R[i].superseded_by = d.row[i].superseded_by
                        /\ R[i].fingerprint = d.row[i].fingerprint
                        /\ R[i].record.status = IF i \in M THEN "expired"
                                                ELSE d.row[i].record.status
                        /\ R[i].record.by = d.row[i].record.by
                        /\ R[i].record.uses = d.row[i].record.uses
                        /\ i \notin M => R[i] = d.row[i]
      OBVIOUS
    <2>1. d.row[i] \in Row /\ d.row[i].record \in Record
      BY <1>2 DEF Draft, Row
    <2>2. CASE i \notin M
      <3>1. R[i] = d.row[i]
        BY <2>2
      <3> HIDE DEF R, M
      <3> QED
        BY <2>1, <2>2, <3>1
    <2>3. CASE i \in M
      <3> DEFINE rec == [d.row[i].record EXCEPT !.status = "expired", !.updated = now]
      <3>1. R[i] = [d.row[i] EXCEPT !.status = "expired", !.record = rec]
        BY <2>1, <2>3 DEF Row
      <3>2. /\ rec \in Record /\ rec.status = "expired"
            /\ rec.by = d.row[i].record.by /\ rec.uses = d.row[i].record.uses
        BY <2>1 DEF Record, RowStatus, Statuses
      <3> HIDE DEF rec, R, M
      <3> QED
        BY <2>1, <2>3, <3>1, <3>2 DEF Row, RowStatus, Statuses
    <2> QED
      BY <2>2, <2>3
  <1>8. R \in [Ids -> Row]
    BY <1>7
  <1> HIDE DEF R, C, M, n
  <1>9. /\ e \in Draft /\ e.row = R /\ e.counter = C
        /\ e.sources = d.sources /\ e.provenance = d.provenance
        /\ e.derivation = d.derivation /\ e.job = d.job /\ e.key = d.key
    BY <1>2, <1>6, <1>8 DEF Draft
  <1> HIDE DEF e
  <1>10. CountersAgree(e)
    <2>1. /\ "expired" \in Statuses
          /\ \A i \in M : d.row[i].status # "expired"
          /\ \A i \in Ids : e.row[i].status = IF i \in M THEN "expired" ELSE d.row[i].status
          /\ CountersAgree(d)
      BY <1>3, <1>7, <1>9 DEF Statuses, Consistent
    <2>2. \A k \in Kinds, s \in Statuses :
             e.counter[k][s] =
                IF s = "expired" THEN d.counter[k][s] + Cardinality({i \in M : KindOf[i] = k})
                ELSE d.counter[k][s] - Cardinality(M \cap Bucket(d, k, s))
      BY <1>5, <1>9 DEF n
    <2> QED
      BY <1>3, <2>1, <2>2, MovedCountersAgree
  <1>11. e \in Database
    BY <1>9, <1>10, DraftIsDatabase
  <1>12. AbsentAreBlank(e)
    BY <1>7, <1>9 DEF Consistent, AbsentAreBlank
  <1>13. DocumentsAgree(e)
    BY <1>3, <1>7, <1>9 DEF Consistent, DocumentsAgree
  <1>14. Acyclic(e)
    BY <1>7, <1>9 DEF Consistent, Acyclic
  <1>15. SourcesAgree(e)
    BY <1>7, <1>9 DEF Consistent, SourcesAgree
  <1>16. FingerprintsUnique(e)
    <2>1. \A i \in Ids : IsLive(e, i) => IsLive(d, i)
      BY <1>3, <1>7, <1>9 DEF IsLive
    <2> QED
      BY <1>7, <1>9, <2>1 DEF Consistent, FingerprintsUnique
  <1>17. ErasedAreBare(e)
    <2>1. \A i \in Ids : e.row[i].status = "erased"
                            => e.row[i] = d.row[i] /\ d.row[i].status = "erased"
      BY <1>7, <1>9
    <2> QED
      BY <1>9, <2>1 DEF Consistent, ErasedAreBare, Bare
  <1>18. KeepsErased(d, e)
    BY <1>3, <1>7, <1>9 DEF KeepsErased
  <1> QED
    BY <1>1, <1>10, <1>11, <1>12, <1>13, <1>14, <1>15, <1>16, <1>17, <1>18 DEF Consistent

\* What a tombstone keeps and what it drops.
LEMMA TombstoneFields ==
    ASSUME NEW r \in Row, NEW at \in Nat
    PROVE  /\ Tombstone(r, at) \in Row
           /\ Tombstone(r, at).status = "erased"
           /\ Tombstone(r, at).superseded_by = None
           /\ Tombstone(r, at).fingerprint = None
           /\ Tombstone(r, at).valid_until = None
           /\ Tombstone(r, at).record.status = "erased"
           /\ Tombstone(r, at).record.by = None
           /\ Tombstone(r, at).record.uses = 0
  <1> DEFINE rec == [status |-> "erased", by |-> None, uses |-> 0, updated |-> at]
  <1>1. /\ rec \in Record /\ rec.status = "erased" /\ rec.by = None /\ rec.uses = 0
    BY DEF Record, RowStatus, Statuses
  <1>2. Tombstone(r, at) = [r EXCEPT !.status = "erased", !.superseded_by = None,
                              !.fingerprint = None, !.valid_until = None,
                              !.record = rec]
    BY DEF Tombstone
  <1> HIDE DEF rec
  <1> QED
    BY <1>1, <1>2 DEF Row, RowStatus, Statuses

\* The sweep of the derivative rows, the destruction of the keys and the
\* tombstones of what is still live, in one transaction: no erased row keeps
\* anything, and no row that survived it loses its sources.
LEMMA DestroyConsistent ==
    ASSUME NEW d, Consistent(d), NEW shells \in SUBSET Ids, NEW at \in Nat,
           NEW K \in SUBSET {x \in d.key : x[2] \notin shells}
    PROVE  /\ Consistent(Tombstones([Sweep(d, shells) EXCEPT !.key = K], shells, at))
           /\ KeepsErased(d, Tombstones([Sweep(d, shells) EXCEPT !.key = K], shells, at))
  <1> DEFINE w == [Sweep(d, shells) EXCEPT !.key = K]
             M == {i \in shells : IsLive(w, i)}
             C == [k \in Kinds |-> [s \in Statuses |->
                     IF s = "erased"
                     THEN w.counter[k][s] + Cardinality({i \in M : KindOf[i] = k})
                     ELSE w.counter[k][s] - Cardinality(M \cap Bucket(w, k, s))]]
             R == [i \in Ids |-> IF i \in M THEN Tombstone(w.row[i], at) ELSE w.row[i]]
             e == [w EXCEPT !.counter = C, !.row = R]
  <1>1. d \in Database /\ d \in Draft
    BY DatabaseIsDraft DEF Consistent
  <1>2. /\ w \in Draft /\ w.row = d.row /\ w.counter = d.counter /\ w.key = K
        /\ w.sources = [i \in Ids |-> IF i \in shells THEN 0 ELSE d.sources[i]]
        /\ w.provenance = d.provenance \ shells
        /\ w.derivation = {x \in d.derivation : x[1] \notin shells}
        /\ w.job = {x \in d.job : x[1] \notin shells}
    <2> DEFINE u == Sweep(d, shells)
    <2>1. /\ u \in Draft /\ u.row = d.row /\ u.counter = d.counter /\ u.key = d.key
          /\ u.sources = [i \in Ids |-> IF i \in shells THEN 0 ELSE d.sources[i]]
          /\ u.provenance = d.provenance \ shells
          /\ u.derivation = {x \in d.derivation : x[1] \notin shells}
          /\ u.job = {x \in d.job : x[1] \notin shells}
      BY <1>1 DEF Sweep, Draft
    <2> HIDE DEF u
    <2>2. w = [u EXCEPT !.key = K]
      BY DEF u
    <2>3. K \in SUBSET (Ids \X (Ids \cup {None}))
      BY <1>1 DEF Draft
    <2> QED
      BY <2>1, <2>2, <2>3 DEF Draft
  <1>3. Tombstones(w, shells, at) = e
    BY DEF Tombstones
  <1> HIDE DEF w
  <1>4. /\ M \in SUBSET Ids
        /\ \A i \in M : d.row[i].status \notin {"absent", "erased"}
        /\ \A i \in shells \ M : d.row[i].status \in {"absent", "erased"}
    BY <1>2 DEF IsLive
  <1>5. \A k \in Kinds, s \in Statuses :
           C[k][s] = IF s = "erased"
                     THEN d.counter[k][s] + Cardinality({i \in M : KindOf[i] = k})
                     ELSE d.counter[k][s] - Cardinality(M \cap Bucket(d, k, s))
    <2>1. \A k \in Kinds, s \in Statuses : Bucket(w, k, s) = Bucket(d, k, s)
      BY <1>2 DEF Bucket
    <2>2. \A k \in Kinds, s \in Statuses :
             C[k][s] = IF s = "erased"
                       THEN w.counter[k][s] + Cardinality({i \in M : KindOf[i] = k})
                       ELSE w.counter[k][s] - Cardinality(M \cap Bucket(w, k, s))
      OBVIOUS
    <2>3. w.counter = d.counter
      BY <1>2
    <2> HIDE DEF C, M
    <2> QED
      BY <2>1, <2>2, <2>3
  <1>10. C \in [Kinds -> [Statuses -> Int]]
    <2>1. \A k \in Kinds, s \in Statuses : C[k][s] \in Int
      <3> SUFFICES ASSUME NEW k \in Kinds, NEW s \in Statuses PROVE C[k][s] \in Int
        OBVIOUS
      <3> DEFINE Mk == {i \in M : KindOf[i] = k}
                 Ms == M \cap Bucket(d, k, s)
      <3>1. Mk \in SUBSET Ids /\ Ms \in SUBSET Ids
        BY <1>4
      <3> HIDE DEF C, M
      <3>2. C[k][s] = IF s = "erased" THEN d.counter[k][s] + Cardinality(Mk)
                                      ELSE d.counter[k][s] - Cardinality(Ms)
        BY <1>5
      <3> HIDE DEF Mk, Ms
      <3>3. IsFiniteSet(Mk) /\ IsFiniteSet(Ms)
        BY <3>1, IdsFinite, FS_Subset
      <3>4. Cardinality(Mk) \in Nat /\ Cardinality(Ms) \in Nat
        BY <3>3, FS_CardinalityType
      <3>5. d.counter[k][s] \in Int
        BY <1>1 DEF Draft
      <3> QED
        BY <3>2, <3>4, <3>5
    <2>2. C = [k \in Kinds |-> [s \in Statuses |-> C[k][s]]]
      OBVIOUS
    <2> HIDE DEF C
    <2> QED
      BY <2>1, <2>2
  <1>6. \A i \in Ids : d.row[i] \in Row
    BY <1>1 DEF Draft
  <1>7. /\ \A i \in M : R[i] = Tombstone(d.row[i], at)
        /\ \A i \in Ids \ M : R[i] = d.row[i]
    BY <1>2, <1>4
  <1>8. \A i \in M : /\ R[i] \in Row
                     /\ R[i].status = "erased"
                     /\ R[i].superseded_by = None
                     /\ R[i].fingerprint = None
                     /\ R[i].valid_until = None
                     /\ R[i].record.status = "erased"
                     /\ R[i].record.by = None
                     /\ R[i].record.uses = 0
    <2> HIDE DEF R, M
    <2> QED
      BY <1>4, <1>6, <1>7, TombstoneFields
  <1>9. R \in [Ids -> Row]
    BY <1>6, <1>7, <1>8
  <1> HIDE DEF M, C, R
  <1>11. /\ e \in Draft /\ e.row = R /\ e.counter = C /\ e.key = K
         /\ e.sources = w.sources /\ e.provenance = w.provenance
         /\ e.derivation = w.derivation /\ e.job = w.job
    BY <1>2, <1>10, <1>9 DEF Draft
  <1> HIDE DEF e
  <1>12. CountersAgree(e)
    <2>1. /\ "erased" \in Statuses
          /\ \A i \in M : d.row[i].status # "erased"
          /\ \A i \in Ids : e.row[i].status = IF i \in M THEN "erased" ELSE d.row[i].status
          /\ CountersAgree(d)
      BY <1>4, <1>7, <1>8, <1>11 DEF Statuses, Consistent
    <2>2. \A k \in Kinds, s \in Statuses :
             e.counter[k][s] =
                IF s = "erased" THEN d.counter[k][s] + Cardinality({i \in M : KindOf[i] = k})
                ELSE d.counter[k][s] - Cardinality(M \cap Bucket(d, k, s))
      BY <1>5, <1>11
    <2>3. M \in SUBSET Ids
      BY <1>4
    <2> QED
      BY <2>1, <2>2, <2>3, MovedCountersAgree
  <1>13. e \in Database
    BY <1>11, <1>12, DraftIsDatabase
  <1>14. AbsentAreBlank(e)
    BY <1>7, <1>8, <1>11 DEF Consistent, AbsentAreBlank
  <1>15. DocumentsAgree(e)
    BY <1>7, <1>8, <1>11 DEF Consistent, DocumentsAgree
  <1>16. Acyclic(e)
    <2> SUFFICES ASSUME NEW S \in SUBSET Ids, \A x \in S : e.row[x].superseded_by \in S
                 PROVE  S = {}
      BY DEF Acyclic
    <2>1. \A x \in S : x \notin M
      BY <1>8, <1>11, NoneIsNoId
    <2>2. \A x \in S : d.row[x].superseded_by \in S
      BY <1>7, <1>11, <2>1
    <2> QED
      BY <2>2 DEF Consistent, Acyclic
  <1>17. SourcesAgree(e)
    <2> SUFFICES ASSUME NEW i \in Ids PROVE e.row[i].record.uses = e.sources[i]
      BY DEF SourcesAgree
    <2>1. CASE i \in M
      <3>1. i \in shells
        BY <2>1 DEF M
      <3> QED
        BY <1>2, <1>8, <1>11, <2>1, <3>1
    <2>2. CASE i \in shells \ M
      <3>1. d.row[i].record.uses = 0
        BY <1>4, <2>2 DEF Consistent, ErasedAreBare, Bare, AbsentAreBlank, NoRow, NoRecord
      <3> QED
        BY <1>2, <1>7, <1>11, <2>2, <3>1
    <2>3. CASE i \notin shells
      <3>1. i \notin M
        BY <2>3 DEF M
      <3> QED
        BY <1>2, <1>7, <1>11, <2>3, <3>1 DEF Consistent, SourcesAgree
    <2> QED
      BY <2>1, <2>2, <2>3
  <1>18. FingerprintsUnique(e)
    <2>1. \A i \in Ids : IsLive(e, i) => IsLive(d, i) /\ e.row[i] = d.row[i]
      BY <1>7, <1>8, <1>11 DEF IsLive
    <2> QED
      BY <2>1 DEF Consistent, FingerprintsUnique
  <1>19. ErasedAreBare(e)
    <2> SUFFICES ASSUME NEW i \in Ids, e.row[i].status = "erased" PROVE Bare(e, i)
      BY DEF ErasedAreBare
    <2>1. CASE i \in M
      <3>1. i \in shells
        BY <2>1 DEF M
      <3>2. /\ \A x \in e.derivation : x[1] # i
            /\ \A x \in e.key : x[2] # i
            /\ \A x \in e.job : x[1] # i
        BY <1>2, <1>11, <3>1
      <3> QED
        BY <1>2, <1>8, <1>11, <2>1, <3>1, <3>2 DEF Bare
    <2>2. CASE i \notin M
      <3>1. e.row[i] = d.row[i] /\ Bare(d, i)
        BY <1>7, <1>11, <2>2 DEF Consistent, ErasedAreBare
      <3>2. /\ \A x \in e.derivation : x[1] # i
            /\ \A x \in e.key : x[2] # i
            /\ \A x \in e.job : x[1] # i
            /\ i \notin e.provenance /\ e.sources[i] = 0
        BY <1>2, <1>11, <3>1 DEF Bare
      <3> QED
        BY <3>1, <3>2 DEF Bare
    <2> QED
      BY <2>1, <2>2
  <1>20. Consistent(e)
    BY <1>12, <1>13, <1>14, <1>15, <1>16, <1>17, <1>18, <1>19 DEF Consistent
  <1>21. KeepsErased(d, e)
    BY <1>4, <1>7, <1>11 DEF KeepsErased
  <1> QED
    BY <1>3, <1>20, <1>21 DEF w

\* The database of a new scope.
LEMMA EmptyConsistent == Consistent(EmptyDatabase)
  <1> DEFINE d == EmptyDatabase
  <1>1. NoRecord \in Record /\ NoRow \in Row
    BY DEF NoRecord, Record, NoRow, Row, RowStatus
  <1>2. /\ d.row = [i \in Ids |-> NoRow] /\ d.sources = [i \in Ids |-> 0]
        /\ d.counter = [k \in Kinds |-> [s \in Statuses |-> 0]]
        /\ d \in Draft
    BY <1>1 DEF EmptyDatabase, Draft
  <1>3. /\ NoRow.status = "absent" /\ NoRow.superseded_by = None
        /\ NoRow.record = NoRecord /\ NoRecord.status = "absent"
        /\ NoRecord.by = None /\ NoRecord.uses = 0
    BY DEF NoRow, NoRecord
  <1> HIDE DEF d
  <1>4. \A i \in Ids : d.row[i] = NoRow /\ d.sources[i] = 0
    BY <1>2
  <1>5. CountersAgree(d)
    <2>1. \A k \in Kinds, s \in Statuses : Bucket(d, k, s) = {}
      BY <1>3, <1>4 DEF Bucket, Statuses
    <2> SUFFICES ASSUME NEW k \in Kinds, NEW s \in Statuses
                 PROVE  d.counter[k][s] = Cardinality(Bucket(d, k, s))
      BY DEF CountersAgree
    <2>2. d.counter[k][s] = 0
      BY <1>2
    <2>3. Cardinality(Bucket(d, k, s)) = 0
      BY <2>1, FS_EmptySet
    <2> QED
      BY <2>2, <2>3
  <1>6. d \in Database
    BY <1>2, <1>5, DraftIsDatabase
  <1>7. AbsentAreBlank(d) /\ DocumentsAgree(d) /\ SourcesAgree(d)
    BY <1>3, <1>4 DEF AbsentAreBlank, DocumentsAgree, SourcesAgree
  <1>8. Acyclic(d)
    BY <1>3, <1>4, NoneIsNoId DEF Acyclic
  <1>9. FingerprintsUnique(d) /\ ErasedAreBare(d)
    BY <1>3, <1>4 DEF FingerprintsUnique, IsLive, ErasedAreBare
  <1> QED
    BY <1>5, <1>6, <1>7, <1>8, <1>9 DEF Consistent, d

=============================================================================
