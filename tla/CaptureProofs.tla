---------------------------- MODULE CaptureProofs ----------------------------
(***************************************************************************)
(* What a capture carries across its reads, for any number of clients: its *)
(* candidate is its own, its holder keeps the fingerprint it was found by, *)
(* and a successor is a row.  With it, the accounts of an erasure: every   *)
(* key that a gate verdict stored is there or was counted when destroyed.  *)
(***************************************************************************)
EXTENDS ErasureProofs

Capturing(o) == o.pc \in {"observed", "staged"}

\* The candidate of a capture under way has not been captured, and what its
\* holder was found by still holds while the holder is live.
OpKnows(d, o) ==
    /\ Capturing(o) =>
          /\ o.cand \notin d.outbox /\ VerdictOf[o.cand] # "refuse"
          /\ o.holder # None =>
                /\ Present(d, o.holder)
                /\ IsLive(d, o.holder)
                      => d.row[o.holder].fingerprint = Fingerprint(o.cand)
    /\ o.pc = "superseding" => Present(d, o.holder)

\* A candidate id is minted for one capture.
CandidatesDistinct ==
    \A c, k \in Clients : c # k /\ Capturing(op[c]) => op[k].cand # op[c].cand

\* A digest key belongs to a refusal or to a quarantined capture.
KeysKnown ==
    /\ \A k \in db.key : k[1] \in refused \cup Quarantined
    /\ \A i \in refused : VerdictOf[i] = "refuse"

CaptureInv ==
    /\ \A c \in Clients : OpKnows(db, op[c])
    /\ CandidatesDistinct
    /\ SuccessorExists
    /\ KeysKnown

\* The counts are finite, whatever number of operation ids may be minted.
AccountInv ==
    /\ IsFiniteSet(MemoriesCounted) /\ IsFiniteSet(KeysCounted)
    /\ EveryDestructionAccounted

-----------------------------------------------------------------------------
(* What the statements leave alone.                                        *)

\* No transaction removes a row, revives a tombstone, changes the fingerprint
\* of a row that stays live, or names a successor that is no row.
RowsStay(d, e) ==
    \A i \in Ids :
        /\ Present(d, i) => Present(e, i)
        /\ d.row[i].status = "erased" => e.row[i].status = "erased"
        /\ IsLive(d, i) /\ IsLive(e, i) => e.row[i].fingerprint = d.row[i].fingerprint
        /\ \/ e.row[i].superseded_by \in {None, d.row[i].superseded_by}
           \/ /\ e.row[i].superseded_by \in Ids
              /\ Present(e, e.row[i].superseded_by)

\* Only an erasure writes tombstones.
NoneErased(d, e) == \A i \in Ids : e.row[i].status = "erased" => d.row[i].status = "erased"

\* The tables that count keys and captures.
SameKeys(d, e) == e.key = d.key /\ e.outbox = d.outbox

\* A statement that changes no status, successor or fingerprint.
LEMMA SameRowsStay ==
    ASSUME NEW d, NEW e,
           \A i \in Ids : /\ e.row[i].status = d.row[i].status
                          /\ e.row[i].superseded_by = d.row[i].superseded_by
                          /\ e.row[i].fingerprint = d.row[i].fingerprint
    PROVE  RowsStay(d, e) /\ NoneErased(d, e)
  BY DEF RowsStay, NoneErased, Present, IsLive

\* Two statements of one transaction.
LEMMA RowsStayTransitive ==
    ASSUME NEW d, NEW e, NEW f, RowsStay(d, e), RowsStay(e, f),
           NoneErased(d, e), NoneErased(e, f),
           \A i \in Ids : d.row[i].superseded_by \in Ids \cup {None}
    PROVE  RowsStay(d, f) /\ NoneErased(d, f)
  <1>1. NoneErased(d, f)
    BY DEF NoneErased
  <1>2. ASSUME NEW i \in Ids
        PROVE  /\ Present(d, i) => Present(f, i)
               /\ d.row[i].status = "erased" => f.row[i].status = "erased"
               /\ IsLive(d, i) /\ IsLive(f, i)
                    => f.row[i].fingerprint = d.row[i].fingerprint
    <2>1. IsLive(d, i) /\ IsLive(f, i) => IsLive(e, i)
      BY DEF RowsStay, Present, IsLive
    <2> QED
      BY <2>1 DEF RowsStay
  <1>3. ASSUME NEW i \in Ids
        PROVE  \/ f.row[i].superseded_by \in {None, d.row[i].superseded_by}
               \/ /\ f.row[i].superseded_by \in Ids
                  /\ Present(f, f.row[i].superseded_by)
    BY DEF RowsStay
  <1> QED
    BY <1>1, <1>2, <1>3 DEF RowsStay

\* A destructive transaction removes no row and names no successor.
LEMMA DestroysStay ==
    ASSUME NEW d, NEW e, NEW shells, Destroys(d, e, shells)
    PROVE  RowsStay(d, e)
  BY DEF Destroys, RowsStay, Present, IsLive

\* An insert fills an absent row with the content of its candidate, and stages
\* the job of the model it was given.
LEMMA InsertEffect ==
    ASSUME NEW d \in Database, NEW i \in Ids, NEW s \in {"active", "quarantined"},
           NEW m \in Nat, NEW at \in Nat, ~Present(d, i), NEW e,
           e = Insert(d, i, s, m, at)
    PROVE  /\ RowsStay(d, e) /\ NoneErased(d, e)
           /\ e.key = d.key /\ e.outbox = d.outbox \cup {i} /\ e.model = d.model
           /\ IsLive(e, i) /\ e.row[i].fingerprint = Fingerprint(i)
  <1>1. s \in Statuses
    BY DEF Statuses
  <1>2. /\ e.row[i] = NewRow(i, s, at)
        /\ \A j \in Ids \ {i} : e.row[j] = d.row[j]
        /\ e.key = d.key /\ e.outbox = d.outbox \cup {i} /\ e.model = d.model
    BY <1>1, InsertFields
  <1>3. /\ e.row[i].status = s /\ e.row[i].superseded_by = None
        /\ e.row[i].fingerprint = Fingerprint(i)
    BY <1>2 DEF NewRow
  <1>4. RowsStay(d, e) /\ NoneErased(d, e) /\ IsLive(e, i)
    BY <1>2, <1>3 DEF RowsStay, NoneErased, Present, IsLive
  <1> QED
    BY <1>2, <1>3, <1>4

\* A merge changes the document of its holder.
LEMMA MergeEffect ==
    ASSUME NEW d \in Draft, NEW i \in Ids, NEW expected \in Record,
           NEW m \in Nat, NEW at \in Nat, NEW w \in Ids, NEW e,
           e = Merge(d, i, expected, m, at, w)
    PROVE  /\ RowsStay(d, e) /\ NoneErased(d, e)
           /\ e.key = d.key /\ e.outbox = d.outbox \cup {w} /\ e.model = d.model
           /\ e.row[i].status = d.row[i].status
           /\ e.row[i].fingerprint = d.row[i].fingerprint
  <1>1. /\ e.row[i].status = d.row[i].status
        /\ e.row[i].superseded_by = d.row[i].superseded_by
        /\ e.row[i].fingerprint = d.row[i].fingerprint
        /\ \A j \in Ids \ {i} : e.row[j] = d.row[j]
        /\ e.key = d.key /\ e.outbox = d.outbox \cup {w} /\ e.model = d.model
    BY MergeFields
  <1>2. RowsStay(d, e) /\ NoneErased(d, e)
    BY <1>1, SameRowsStay
  <1> QED
    BY <1>1, <1>2

\* Both stage the job of the model that was observed.
LEMMA CaptureStagesJob ==
    ASSUME NEW d \in Database, NEW i \in Ids, NEW s \in Statuses, NEW m \in Nat \ {0},
           NEW at \in Nat, NEW expected \in Record, NEW w \in Ids
    PROVE  /\ <<i, m>> \in Insert(d, i, s, m, at).job
           /\ <<i, m>> \in Merge(d, i, expected, m, at, w).job
  <1>1. \A x \in Draft : <<i, m>> \in StageEmbedding(x, i, m).job
    BY DEF StageEmbedding, Draft
  <1>3. <<i, m>> \in Insert(d, i, s, m, at).job
    BY InsertJob
  <1>4. <<i, m>> \in Merge(d, i, expected, m, at, w).job
    <2> DEFINE R == [d.row EXCEPT ![i].record = MergeInto(expected, at)]
               a == [d EXCEPT !.row = R, !.outbox = @ \cup {w}]
               b == StageSource(a, i)
    <2>1. Merge(d, i, expected, m, at, w) = StageEmbedding(b, i, m)
      BY DEF Merge
    <2>2. MergeInto(expected, at) \in Record
      BY MergeIntoFields
    <2>3. d \in Draft /\ d.row[i] \in Row
      BY DatabaseIsDraft DEF Draft
    <2>4. R \in [Ids -> Row]
      BY <2>2, <2>3 DEF Draft, Row
    <2> HIDE DEF R
    <2>5. a \in Draft
      BY <2>3, <2>4 DEF Draft
    <2> HIDE DEF a
    <2>6. b \in Draft
      BY <2>5 DEF StageSource, Draft
    <2> HIDE DEF b
    <2> QED
      BY <1>1, <2>1, <2>6
  <1> QED
    BY <1>3, <1>4

\* A supersession by a row that exists.
LEMMA SupersedeEffect ==
    ASSUME NEW d \in Draft, NEW old \in Ids, NEW new \in Ids, NEW expected \in Record,
           expected.status \in Statuses, NEW at \in Nat, NEW e,
           e = Supersede(d, old, new, expected, at),
           IsLive(d, old), Present(d, new)
    PROVE  /\ RowsStay(d, e) /\ NoneErased(d, e) /\ SameKeys(d, e)
           /\ e.job = d.job /\ e.model = d.model
           /\ IsLive(e, old)
           /\ \A j \in Ids : e.row[j].fingerprint = d.row[j].fingerprint
           /\ \A j \in Ids \ {old} : e.row[j] = d.row[j]
  <1>1. /\ e.row[old].status = "superseded" /\ e.row[old].superseded_by = new
        /\ e.row[old].fingerprint = d.row[old].fingerprint
        /\ \A j \in Ids \ {old} : e.row[j] = d.row[j]
        /\ e.key = d.key /\ e.outbox = d.outbox /\ e.job = d.job /\ e.model = d.model
    <2>1. \A j \in Ids \ {old} : e.row[j] = d.row[j]
      BY DEF Supersede, Draft
    <2> QED
      BY <2>1 DEF Supersede, Draft, Row
  <1>2. RowsStay(d, e) /\ NoneErased(d, e) /\ IsLive(e, old)
    BY <1>1 DEF RowsStay, NoneErased, Present, IsLive
  <1> QED
    BY <1>1, <1>2 DEF SameKeys

\* The update of an expiry pass.
LEMMA ExpireEffect ==
    ASSUME NEW d \in Draft, NEW ids \in SUBSET Ids, NEW now \in Nat
    PROVE  /\ RowsStay(d, Expire(d, ids, now)) /\ NoneErased(d, Expire(d, ids, now))
           /\ SameKeys(d, Expire(d, ids, now))
  <1> DEFINE M == {i \in ids : d.row[i].status = "active"}
             n(k) == Cardinality({i \in M : KindOf[i] = k})
             C == [k \in Kinds |-> [s \in Statuses |->
                     CASE s = "active"  -> IF d.counter[k][s] - n(k) > 0
                                              THEN d.counter[k][s] - n(k) ELSE 0
                       [] s = "expired" -> d.counter[k][s] + n(k)
                       [] OTHER         -> d.counter[k][s]]]
             R == [i \in Ids |->
                     IF i \in M
                     THEN [d.row[i] EXCEPT !.status = "expired",
                                           !.record.status = "expired",
                                           !.record.updated = now]
                     ELSE d.row[i]]
             e == [d EXCEPT !.counter = C, !.row = R]
  <1>1. Expire(d, ids, now) = e
    BY DEF Expire
  <1>2. \A i \in Ids : d.row[i] \in Row
    BY DEF Draft
  <1>3. \A i \in Ids :
           /\ \/ R[i].status = d.row[i].status
              \/ /\ R[i].status = "expired" /\ d.row[i].status = "active"
           /\ R[i].superseded_by = d.row[i].superseded_by
           /\ R[i].fingerprint = d.row[i].fingerprint
    BY <1>2 DEF Row
  <1> HIDE DEF R, C
  <1>4. e.row = R /\ e.key = d.key /\ e.outbox = d.outbox
    BY DEF Draft
  <1> HIDE DEF e
  <1>5. RowsStay(d, e) /\ NoneErased(d, e)
    BY <1>3, <1>4 DEF RowsStay, NoneErased, Present, IsLive
  <1> QED
    BY <1>1, <1>4, <1>5 DEF SameKeys

\* VALID_UNTIL_SQL.
LEMMA DeadlineEffect ==
    ASSUME NEW d \in Draft, NEW i \in Ids, NEW u \in Nat \cup {None}
    PROVE  /\ RowsStay(d, SetDeadline(d, i, u)) /\ NoneErased(d, SetDeadline(d, i, u))
           /\ SameKeys(d, SetDeadline(d, i, u))
  <1> DEFINE R == [d.row EXCEPT ![i].valid_until = u]
             e == [d EXCEPT !.row = R]
  <1>1. SetDeadline(d, i, u) = e \/ SetDeadline(d, i, u) = d
    BY DEF SetDeadline
  <1>2. \A j \in Ids : d.row[j] \in Row
    BY DEF Draft
  <1>3. \A j \in Ids : /\ R[j].status = d.row[j].status
                       /\ R[j].superseded_by = d.row[j].superseded_by
                       /\ R[j].fingerprint = d.row[j].fingerprint
    BY <1>2 DEF Row, Draft
  <1> HIDE DEF R
  <1>4. e.row = R /\ e.key = d.key /\ e.outbox = d.outbox
    BY DEF Draft
  <1> HIDE DEF e
  <1>5. /\ RowsStay(d, e) /\ NoneErased(d, e)
        /\ RowsStay(d, d) /\ NoneErased(d, d)
    BY <1>3, <1>4, SameRowsStay
  <1> QED
    BY <1>1, <1>4, <1>5 DEF SameKeys

\* What the transaction of a capture leaves in a database.
Captures(d, e, o) ==
    /\ RowsStay(d, e) /\ NoneErased(d, e)
    /\ e.outbox = d.outbox \cup {o.cand} /\ e.model = d.model
    /\ IsLive(e, Captured(o))
    /\ e.row[Captured(o)].fingerprint = Fingerprint(o.cand)
    /\ d.model # 0 => <<Captured(o), d.model>> \in e.job

\* The capture half: the candidate is in a live row with its content.
LEMMA CaptureHalf ==
    ASSUME Consistent(db), NEW o \in Op, o.pc = "staged", OpSound(o), OpKnows(db, o),
           CaptureGuard(o)
    PROVE  Captures(db, CaptureRows(o), o) /\ CaptureRows(o).key = db.key
  <1>1. /\ o.cand \in Ids /\ o.holder \in Ids \cup {None}
        /\ o.model \in Nat /\ o.at \in Nat /\ o.expected \in Record
    BY DEF OpSound, Op
  <1>2. db \in Database /\ db \in Draft
    BY DatabaseIsDraft DEF Consistent
  <1>3. db.model = o.model
    BY DEF CaptureGuard, EmbeddingGuard
  <1>4. CASE o.holder = None
    <2> DEFINE s == StoredStatus(o.cand)
               e == Insert(db, o.cand, s, o.model, o.at)
    <2>1. s \in {"active", "quarantined"} /\ s \in Statuses
      BY DEF StoredStatus, Statuses
    <2>2. ~Present(db, o.cand)
      BY <1>4 DEF CaptureGuard, InsertGuard
    <2>3. CaptureRows(o) = e /\ Captured(o) = o.cand
      BY <1>4 DEF CaptureRows, Captured
    <2> HIDE DEF s
    <2>4. o.model # 0 => <<o.cand, o.model>> \in e.job
      BY <1>1, <1>2, <2>1, CaptureStagesJob
    <2>5. /\ RowsStay(db, e) /\ NoneErased(db, e)
          /\ e.key = db.key /\ e.outbox = db.outbox \cup {o.cand} /\ e.model = db.model
          /\ IsLive(e, o.cand) /\ e.row[o.cand].fingerprint = Fingerprint(o.cand)
      BY <1>1, <1>2, <2>1, <2>2, InsertEffect
    <2> HIDE DEF e
    <2> QED
      BY <1>3, <2>3, <2>4, <2>5 DEF Captures
  <1>5. CASE o.holder # None
    <2> DEFINE e == Merge(db, o.holder, o.expected, o.model, o.at, o.cand)
    <2>1. /\ o.holder \in Ids /\ MergeGuard(db, o.holder, o.expected)
          /\ o.expected.status # "absent"
      BY <1>1, <1>5 DEF CaptureGuard, OpSound
    <2>2. CaptureRows(o) = e /\ Captured(o) = o.holder
      BY <1>5 DEF CaptureRows, Captured
    <2>3. IsLive(db, o.holder)
      BY <2>1 DEF MergeGuard, IsLive, Consistent, DocumentsAgree
    <2>4. db.row[o.holder].fingerprint = Fingerprint(o.cand)
      BY <1>5, <2>3 DEF OpKnows, Capturing
    <2>5. o.model # 0 => <<o.holder, o.model>> \in e.job
      <3>1. "active" \in Statuses
        BY DEF Statuses
      <3> QED
        BY <1>1, <1>2, <2>1, <3>1, CaptureStagesJob
    <2>6. /\ RowsStay(db, e) /\ NoneErased(db, e)
          /\ e.key = db.key /\ e.outbox = db.outbox \cup {o.cand} /\ e.model = db.model
          /\ e.row[o.holder].status = db.row[o.holder].status
          /\ e.row[o.holder].fingerprint = db.row[o.holder].fingerprint
      <3>1. e = Merge(db, o.holder, o.expected, o.model, o.at, o.cand)
        OBVIOUS
      <3> HIDE DEF e
      <3> QED
        BY <1>1, <1>2, <2>1, <3>1, MergeEffect
    <2> HIDE DEF e
    <2> QED
      BY <1>3, <2>2, <2>3, <2>4, <2>5, <2>6 DEF Captures, IsLive
  <1> QED
    BY <1>4, <1>5

\* The whole transaction: a correction retires the old row in favour of the
\* row that was captured, and a quarantine adds its digest key.
LEMMA TransactionEffect ==
    ASSUME Consistent(db), NEW o \in Op, o.pc = "staged", OpSound(o), OpKnows(db, o),
           CaptureGuard(o), CorrectGuard(o), NEW e, e = StageKey(CorrectRows(o), o)
    PROVE  /\ Captures(db, e, o)
           /\ e.key = IF VerdictOf[o.cand] = "quarantine"
                      THEN db.key \cup {<<o.cand, Captured(o)>>} ELSE db.key
  <1> DEFINE a == CaptureRows(o)
             b == CorrectRows(o)
             m == Captured(o)
  <1>1. Captures(db, a, o) /\ a.key = db.key
    BY CaptureHalf
  <1>2. Consistent(a) /\ m \in Ids /\ o.cand \in Ids
    BY CaptureConsistent DEF OpSound
  <1>3. Consistent(b)
    BY CorrectConsistent
  <1>4. Captures(db, b, o) /\ b.key = db.key
    <2>1. CASE o.old = None
      <3>1. b = a
        BY <2>1 DEF CorrectRows
      <3> QED
        BY <1>1, <3>1
    <2>2. CASE o.old # None
      <3>1. b = Supersede(a, o.old, m, o.oldExpected, o.at)
        BY <2>2 DEF CorrectRows
      <3>2. /\ o.old \in Ids /\ o.at \in Nat /\ o.oldExpected \in Record
            /\ o.oldExpected.status # "absent" /\ o.oldExpected.status \in Statuses
        BY <2>2 DEF Op, OpSound, Record, RowStatus
      <3>3. SupersedeGuard(a, o.old, m, o.oldExpected)
        BY <2>2 DEF CorrectGuard
      <3> HIDE DEF a, b, m
      <3>4. a \in Draft /\ DocumentsAgree(a)
        BY <1>2, DatabaseIsDraft DEF Consistent
      <3>5. IsLive(a, o.old)
        BY <3>2, <3>3, <3>4 DEF SupersedeGuard, DocumentsAgree, IsLive
      <3>6. IsLive(a, m) /\ Present(a, m)
        BY <1>1 DEF Captures, IsLive, Present, m
      <3>7. /\ RowsStay(a, b) /\ NoneErased(a, b) /\ SameKeys(a, b)
            /\ b.job = a.job /\ b.model = a.model /\ IsLive(b, o.old)
            /\ \A j \in Ids : b.row[j].fingerprint = a.row[j].fingerprint
            /\ \A j \in Ids \ {o.old} : b.row[j] = a.row[j]
        BY <1>2, <3>1, <3>2, <3>4, <3>5, <3>6, SupersedeEffect
      <3>8. \A i \in Ids : db.row[i].superseded_by \in Ids \cup {None}
        <4>1. \A i \in Ids : db.row[i] \in Row
          BY DEF Consistent, Database
        <4> QED
          BY <4>1 DEF Row
      <3>9. RowsStay(db, b) /\ NoneErased(db, b)
        BY <1>1, <3>7, <3>8, RowsStayTransitive DEF Captures
      <3>10. IsLive(b, m)
        BY <1>2, <3>6, <3>7 DEF IsLive
      <3>11. /\ b.outbox = db.outbox \cup {o.cand} /\ b.model = db.model
             /\ b.row[m].fingerprint = Fingerprint(o.cand)
             /\ db.model # 0 => <<m, db.model>> \in b.job
        BY <1>1, <1>2, <3>7 DEF Captures, SameKeys, m
      <3> QED
        BY <1>1, <3>7, <3>9, <3>10, <3>11 DEF Captures, SameKeys, m
    <2> QED
      BY <2>1, <2>2
  <1>5. b \in Draft
    BY <1>3, DatabaseIsDraft DEF Consistent
  <1>6. CASE VerdictOf[o.cand] # "quarantine"
    <2>1. e = b
      BY <1>6 DEF StageKey
    <2> QED
      BY <1>4, <1>6, <2>1
  <1>7. CASE VerdictOf[o.cand] = "quarantine"
    <2> DEFINE f == [b EXCEPT !.key = @ \cup {<<o.cand, m>>}]
    <2>1. e = f
      BY <1>7 DEF StageKey
    <2> HIDE DEF b, m
    <2>2. /\ f.row = b.row /\ f.outbox = b.outbox /\ f.model = b.model /\ f.job = b.job
          /\ f.key = b.key \cup {<<o.cand, m>>}
      BY <1>5 DEF Draft
    <2> HIDE DEF f
    <2>3. RowsStay(db, f) /\ NoneErased(db, f)
      BY <1>4, <2>2 DEF Captures, RowsStay, NoneErased, Present, IsLive
    <2>4. Captures(db, f, o)
      BY <1>4, <2>2, <2>3 DEF Captures, IsLive
    <2> QED
      BY <1>4, <1>7, <2>1, <2>2, <2>4 DEF m
  <1> QED
    BY <1>6, <1>7

-----------------------------------------------------------------------------
(* Clients.                                                                *)

\* What a client knows outlives the transactions of the others.
LEMMA KnowsStays ==
    ASSUME NEW d, NEW e, NEW o \in Op, OpSound(o), OpKnows(d, o), RowsStay(d, e),
           Capturing(o) => o.cand \notin e.outbox
    PROVE  OpKnows(e, o)
  <1>1. o.holder # None => o.holder \in Ids
    BY DEF Op
  <1>2. o.pc = "superseding" => o.holder \in Ids
    BY DEF OpSound
  <1>3. \A i \in Ids : IsLive(e, i) /\ Present(d, i) => IsLive(d, i)
    BY DEF RowsStay, IsLive, Present
  <1> QED
    BY <1>1, <1>2, <1>3 DEF OpKnows, RowsStay

\* A successor is still a row after any transaction.
LEMMA SuccessorsStay ==
    ASSUME StoreInv, SuccessorExists, RowsStay(db, db')
    PROVE  SuccessorExists'
  <1>1. \A i \in Ids : db.row[i].superseded_by \in Ids \cup {None}
    <2>1. \A i \in Ids : db.row[i] \in Row
      BY DEF StoreInv, Consistent, Database
    <2> QED
      BY <2>1 DEF Row
  <1>2. ASSUME NEW i \in Ids, db'.row[i].superseded_by # None
        PROVE  Present(db', db'.row[i].superseded_by)
    <2>1. CASE db'.row[i].superseded_by = db.row[i].superseded_by
      BY <1>1, <1>2, <2>1 DEF SuccessorExists, RowsStay
    <2>2. CASE db'.row[i].superseded_by # db.row[i].superseded_by
      BY <1>2, <2>2 DEF RowsStay
    <2> QED
      BY <2>1, <2>2
  <1> QED
    BY <1>2 DEF SuccessorExists

\* A client moves to x, with or without a transaction.
LEMMA ClientMoves ==
    ASSUME StoreInv, LifecycleInv, CaptureInv, NEW c \in Clients, NEW x \in Op,
           op' = [op EXCEPT ![c] = x], RowsStay(db, db'), OpKnows(db', x),
           \A k \in Clients \ {c} : Capturing(op[k])
               => op[k].cand \notin db'.outbox /\ x.cand # op[k].cand,
           Capturing(x) => \A k \in Clients \ {c} : op[k].cand # x.cand,
           KeysKnown'
    PROVE  CaptureInv'
  <1>1. \A k \in Clients : op'[k] = IF k = c THEN x ELSE op[k]
    BY DEF LifecycleInv
  <1>2. \A k \in Clients \ {c} : OpKnows(db', op[k])
    BY KnowsStays DEF LifecycleInv, CaptureInv
  <1>3. \A k \in Clients : OpKnows(db', op'[k])
    BY <1>1, <1>2
  <1>4. CandidatesDistinct'
    BY <1>1 DEF CaptureInv, CandidatesDistinct
  <1>5. SuccessorExists'
    BY SuccessorsStay DEF CaptureInv
  <1> QED
    BY <1>3, <1>4, <1>5 DEF CaptureInv

\* The keys and the captures are what they were.
KeysSame == SameKeys(db, db') /\ refused' = refused

\* A capture commits, with a key if it is quarantined.
KeysOfCapture(o) ==
    /\ Captures(db, db', o) /\ refused' = refused
    /\ o.cand \in Ids \ db.outbox /\ Captured(o) \in Ids
    /\ VerdictOf[o.cand] # "refuse"
    /\ db'.key = IF VerdictOf[o.cand] = "quarantine"
                 THEN db.key \cup {<<o.cand, Captured(o)>>} ELSE db.key

\* A refusal stores its key.
KeysOfRefusal(i) ==
    /\ VerdictOf[i] = "refuse" /\ i \in Ids \ refused
    /\ refused' = refused \cup {i}
    /\ db'.key = db.key \cup {<<i, None>>} /\ db'.outbox = db.outbox

\* What a step that erases nothing does to the tables.
LifecycleEffect ==
    /\ RowsStay(db, db') /\ NoneErased(db, db')
    /\ \/ KeysSame
       \/ \E o \in Op : KeysOfCapture(o)
       \/ \E i \in Ids : KeysOfRefusal(i)

\* Every key still belongs to a verdict.
LEMMA KeysStayKnown ==
    ASSUME KeysKnown, LifecycleEffect
    PROVE  KeysKnown'
  <1>1. CASE KeysSame
    BY <1>1 DEF KeysKnown, KeysSame, SameKeys, Quarantined
  <1>2. ASSUME NEW o \in Op, KeysOfCapture(o) PROVE KeysKnown'
    <2>1. /\ db'.outbox = db.outbox \cup {o.cand} /\ refused' = refused
          /\ \A k \in db'.key : k \in db.key \/ (VerdictOf[o.cand] = "quarantine" /\ k[1] = o.cand)
      BY <1>2 DEF KeysOfCapture, Captures
    <2>2. \A k \in db'.key : k[1] \in refused \cup Quarantined'
      BY <2>1 DEF KeysKnown, Quarantined
    <2> QED
      BY <2>1, <2>2 DEF KeysKnown
  <1>3. ASSUME NEW i \in Ids, KeysOfRefusal(i) PROVE KeysKnown'
    <2>1. /\ db'.outbox = db.outbox /\ refused' = refused \cup {i}
          /\ VerdictOf[i] = "refuse"
          /\ \A k \in db'.key : k \in db.key \/ k[1] = i
      BY <1>3 DEF KeysOfRefusal
    <2> QED
      BY <2>1 DEF KeysKnown, Quarantined
  <1> QED
    BY <1>1, <1>2, <1>3 DEF LifecycleEffect

\* Every step of a client.
LEMMA ClientStepKnows ==
    ASSUME StoreInv, LifecycleInv, CaptureInv, NEW c \in Clients, ClientStep(c)
    PROVE  CaptureInv' /\ LifecycleEffect
  <1>1. op[c] \in Op /\ OpSound(op[c]) /\ OpKnows(db, op[c])
    BY DEF LifecycleInv, CaptureInv
  <1>2. ASSUME UNCHANGED <<db, refused>>
        PROVE  LifecycleEffect /\ KeysKnown' /\ RowsStay(db, db')
    <2>1. RowsStay(db, db') /\ NoneErased(db, db')
      BY <1>2, SameRowsStay
    <2>2. LifecycleEffect
      BY <1>2, <2>1 DEF LifecycleEffect, KeysSame, SameKeys
    <2> QED
      BY <2>1, <2>2, KeysStayKnown DEF CaptureInv
  <1>3. /\ IdleOp \in Op /\ IdleOp.cand = None /\ ~Capturing(IdleOp)
        /\ IdleOp.pc # "superseding"
    BY IdleOpSound DEF IdleOp, Capturing
  <1>4. /\ \A k \in Clients : Capturing(op[k]) => op[k].cand \in Ids
        /\ \A k \in Clients : Capturing(op[k]) => op[k].cand \notin db.outbox
        /\ \A k \in Clients : Capturing(op[k]) => VerdictOf[op[k].cand] # "refuse"
        /\ \A k \in Clients \ {c} : Capturing(op[k]) => op[c].cand # op[k].cand
    BY DEF LifecycleInv, OpSound, CaptureInv, OpKnows, Capturing, CandidatesDistinct
  <1>5. ASSUME op' = [op EXCEPT ![c] = IdleOp], UNCHANGED <<db, refused>>
        PROVE  CaptureInv' /\ LifecycleEffect
    <2>1. \A k \in Clients \ {c} : Capturing(op[k])
               => op[k].cand \notin db'.outbox /\ IdleOp.cand # op[k].cand
      BY <1>3, <1>4, <1>5, NoneIsNoId
    <2>2. OpKnows(db', IdleOp)
      BY <1>3 DEF OpKnows
    <2> QED
      BY <1>2, <1>3, <1>5, <2>1, <2>2, ClientMoves
  <1>6. ASSUME NEW i \in Ids, NEW old \in Ids \cup {None}, CaptureObserve(c, i, old)
        PROVE  CaptureInv' /\ LifecycleEffect
    <2>1. PICK h \in IF Holders(db, i) = {} THEN {None} ELSE Holders(db, i) :
             op' = [op EXCEPT ![c] = [IdleOp EXCEPT
                      !.pc = "observed", !.cand = i, !.old = old, !.holder = h,
                      !.model = db.model, !.at = clock]]
      BY <1>6 DEF CaptureObserve
    <2> DEFINE x == [IdleOp EXCEPT
                       !.pc = "observed", !.cand = i, !.old = old, !.holder = h,
                       !.model = db.model, !.at = clock]
    <2>2. /\ VerdictOf[i] # "refuse" /\ Unspent(i) /\ UNCHANGED <<db, refused>>
      BY <1>6 DEF CaptureObserve
    <2>3. h # None => /\ h \in Ids /\ IsLive(db, h) /\ Present(db, h)
                      /\ db.row[h].fingerprint = Fingerprint(i)
      BY DEF Holders, IsLive, Present
    <2>4. db.model \in Nat /\ clock \in Nat /\ h \in Ids \cup {None}
      BY <2>3 DEF StoreInv, Consistent, Database
    <2>5. x \in Op /\ x.pc = "observed" /\ x.cand = i /\ x.holder = h
      BY <1>3, <2>4 DEF Op, OpState
    <2>6. op' = [op EXCEPT ![c] = x]
      BY <2>1
    <2> HIDE DEF x
    <2>7. i \notin db.outbox /\ \A k \in Clients : op[k].cand # i
      BY <2>2 DEF Unspent
    <2>8. OpKnows(db', x)
      BY <2>2, <2>3, <2>5, <2>7 DEF OpKnows
    <2>9. /\ \A k \in Clients \ {c} : Capturing(op[k])
                => op[k].cand \notin db'.outbox /\ x.cand # op[k].cand
          /\ \A k \in Clients \ {c} : op[k].cand # x.cand
      BY <1>4, <2>2, <2>5, <2>7
    <2> QED
      BY <1>2, <2>2, <2>5, <2>6, <2>8, <2>9, ClientMoves
  <1>7. CASE CaptureStage(c)
    <2> DEFINE o == op[c]
               ex == IF o.holder = None THEN NoRecord ELSE replica[o.holder].record
               ox == IF o.old = None THEN NoRecord ELSE replica[o.old].record
               x == [o EXCEPT !.pc = "staged", !.expected = ex, !.oldExpected = ox]
    <2>1. /\ o.pc = "observed" /\ op' = [op EXCEPT ![c] = x] /\ UNCHANGED <<db, refused>>
      BY <1>7 DEF CaptureStage
    <2>2. /\ \A j \in Ids : replica[j].record \in Record
          /\ NoRecord \in Record
      BY DEF StoreInv, Row, NoRecord, Record, RowStatus
    <2>3. /\ o.holder \in Ids \cup {None} /\ o.old \in Ids \cup {None}
      BY <1>1 DEF Op
    <2>4. ex \in Record /\ ox \in Record
      BY <2>2, <2>3
    <2> HIDE DEF ex, ox
    <2>5. x \in Op /\ x.pc = "staged" /\ x.cand = o.cand /\ x.holder = o.holder
      BY <1>1, <2>4 DEF Op, OpState
    <2> HIDE DEF x
    <2>6. OpKnows(db', x)
      BY <1>1, <2>1, <2>5 DEF OpKnows, Capturing
    <2>7. /\ \A k \in Clients \ {c} : Capturing(op[k])
                => op[k].cand \notin db'.outbox /\ x.cand # op[k].cand
          /\ \A k \in Clients \ {c} : op[k].cand # x.cand
      BY <1>4, <2>1, <2>5 DEF Capturing, CaptureInv, CandidatesDistinct
    <2> QED
      BY <1>2, <2>1, <2>5, <2>6, <2>7, ClientMoves
  <1>8. CASE CaptureRefused(c)
    BY <1>5, <1>8 DEF CaptureRefused
  <1>9. CASE CaptureCommit(c)
    <2> DEFINE x == IF VerdictOf[op[c].cand] = "quarantine"
                    THEN [IdleOp EXCEPT !.pc = "appending", !.cand = op[c].cand]
                    ELSE IdleOp
    <2>1. /\ op[c].pc = "staged" /\ CaptureGuard(op[c]) /\ CorrectGuard(op[c])
          /\ db' = StageKey(CorrectRows(op[c]), op[c]) /\ op' = [op EXCEPT ![c] = x]
          /\ refused' = refused
      BY <1>9 DEF CaptureCommit
    <2>2. Consistent(db) /\ Captured(op[c]) \in Ids
      BY <1>1, <2>1, CaptureConsistent DEF StoreInv
    <2>3. /\ Captures(db, db', op[c])
          /\ db'.key = IF VerdictOf[op[c].cand] = "quarantine"
                       THEN db.key \cup {<<op[c].cand, Captured(op[c])>>} ELSE db.key
      BY <1>1, <2>1, <2>2, TransactionEffect
    <2>4. KeysOfCapture(op[c])
      BY <1>4, <2>1, <2>2, <2>3 DEF KeysOfCapture, Capturing
    <2>5. LifecycleEffect
      BY <1>1, <2>3, <2>4 DEF LifecycleEffect, Captures
    <2>6. op[c].cand \in Ids
      BY <1>1, <2>1 DEF OpSound
    <2>7. /\ x \in Op /\ x.cand \in {op[c].cand, None} /\ x.pc \in {"idle", "appending"}
      BY <1>3, <2>6 DEF Op, OpState, IdleOp
    <2> HIDE DEF x
    <2>8. OpKnows(db', x) /\ ~Capturing(x)
      BY <2>7 DEF OpKnows, Capturing
    <2>9. \A k \in Clients \ {c} : Capturing(op[k])
                => op[k].cand \notin db'.outbox /\ x.cand # op[k].cand
      BY <1>4, <2>3, <2>7, NoneIsNoId DEF Captures
    <2>10. KeysKnown' /\ RowsStay(db, db')
      BY <2>5, KeysStayKnown DEF CaptureInv, LifecycleEffect
    <2> QED
      BY <2>1, <2>5, <2>7, <2>8, <2>9, <2>10, ClientMoves
  <1>10. CASE CaptureAbort(c)
    BY <1>5, <1>10 DEF CaptureAbort
  <1>11. ASSUME NEW i \in Ids, Refuse(c, i)
         PROVE  CaptureInv' /\ LifecycleEffect
    <2> DEFINE x == [IdleOp EXCEPT !.pc = "appending", !.cand = i]
    <2>1. /\ db' = [db EXCEPT !.key = @ \cup {<<i, None>>}] /\ VerdictOf[i] = "refuse"
          /\ i \notin refused /\ refused' = refused \cup {i}
          /\ op' = [op EXCEPT ![c] = x]
      BY <1>11 DEF Refuse
    <2>2. db \in Draft
      BY DatabaseIsDraft DEF StoreInv, Consistent
    <2>3. /\ db'.row = db.row /\ db'.outbox = db.outbox
          /\ db'.key = db.key \cup {<<i, None>>}
      BY <2>1, <2>2 DEF Draft
    <2>4. RowsStay(db, db') /\ NoneErased(db, db')
      BY <2>3, SameRowsStay
    <2>5. KeysOfRefusal(i)
      BY <2>1, <2>3 DEF KeysOfRefusal
    <2>6. LifecycleEffect
      BY <2>4, <2>5 DEF LifecycleEffect
    <2>7. x \in Op /\ x.cand = i /\ x.pc = "appending"
      BY <1>3 DEF Op, OpState
    <2> HIDE DEF x
    <2>8. OpKnows(db', x) /\ ~Capturing(x)
      BY <2>7 DEF OpKnows, Capturing
    <2>9. \A k \in Clients \ {c} : Capturing(op[k])
                => op[k].cand \notin db'.outbox /\ x.cand # op[k].cand
      BY <1>4, <2>1, <2>3, <2>7
    <2>10. KeysKnown'
      BY <2>6, KeysStayKnown DEF CaptureInv
    <2> QED
      BY <2>1, <2>4, <2>6, <2>7, <2>8, <2>9, <2>10, ClientMoves
  <1>12. CASE AppendDecision(c)
    BY <1>5, <1>12 DEF AppendDecision
  <1>13. ASSUME NEW old \in Ids, NEW new \in Ids, SupersedeStage(c, old, new)
         PROVE  CaptureInv' /\ LifecycleEffect
    <2> DEFINE rec == replica[old].record
               x == [IdleOp EXCEPT
                       !.pc = "superseding", !.old = old, !.holder = new,
                       !.oldExpected = rec, !.at = clock]
    <2>1. /\ op' = [op EXCEPT ![c] = x] /\ Present(db, new) /\ UNCHANGED <<db, refused>>
      BY <1>13 DEF SupersedeStage
    <2>2. rec \in Record /\ clock \in Nat
      BY DEF Row, StoreInv
    <2> HIDE DEF rec
    <2>3. /\ x \in Op /\ x.pc = "superseding" /\ x.holder = new /\ x.cand = None
      BY <1>3, <2>2 DEF Op, OpState
    <2> HIDE DEF x
    <2>4. OpKnows(db', x) /\ ~Capturing(x)
      BY <2>1, <2>3 DEF OpKnows, Capturing
    <2>5. \A k \in Clients \ {c} : Capturing(op[k])
                => op[k].cand \notin db'.outbox /\ x.cand # op[k].cand
      BY <1>4, <2>1, <2>3, NoneIsNoId
    <2> QED
      BY <1>2, <2>1, <2>3, <2>4, <2>5, ClientMoves
  <1>14. CASE SupersedeCommit(c)
    <2> DEFINE o == op[c]
    <2>1. /\ o.pc = "superseding" /\ SupersedeGuard(db, o.old, o.holder, o.oldExpected)
          /\ db' = Supersede(db, o.old, o.holder, o.oldExpected, o.at)
          /\ op' = [op EXCEPT ![c] = IdleOp] /\ refused' = refused
      BY <1>14 DEF SupersedeCommit
    <2>2. /\ o.old \in Ids /\ o.holder \in Ids /\ o.at \in Nat /\ o.oldExpected \in Record
          /\ o.oldExpected.status # "absent" /\ o.oldExpected.status \in Statuses
      BY <1>1, <2>1 DEF OpSound, Op, Record, RowStatus
    <2>3. db \in Draft /\ DocumentsAgree(db) /\ Present(db, o.holder)
      BY <1>1, <2>1, DatabaseIsDraft DEF StoreInv, Consistent, OpKnows
    <2>4. IsLive(db, o.old)
      BY <2>1, <2>2, <2>3 DEF SupersedeGuard, DocumentsAgree, IsLive
    <2>5. RowsStay(db, db') /\ NoneErased(db, db') /\ SameKeys(db, db')
      BY <2>1, <2>2, <2>3, <2>4, SupersedeEffect
    <2>6. LifecycleEffect
      BY <2>1, <2>5 DEF LifecycleEffect, KeysSame
    <2>7. OpKnows(db', IdleOp)
      BY <1>3 DEF OpKnows
    <2>8. \A k \in Clients \ {c} : Capturing(op[k])
                => op[k].cand \notin db'.outbox /\ IdleOp.cand # op[k].cand
      BY <1>3, <1>4, <2>5, NoneIsNoId DEF SameKeys
    <2>9. KeysKnown'
      BY <2>6, KeysStayKnown DEF CaptureInv
    <2> QED
      BY <1>3, <2>1, <2>5, <2>6, <2>7, <2>8, <2>9, ClientMoves
  <1>15. CASE SupersedeAbort(c)
    BY <1>5, <1>15 DEF SupersedeAbort
  <1>16. CASE ClientCrash(c)
    BY <1>5, <1>16 DEF ClientCrash
  <1> QED
    BY <1>6, <1>7, <1>8, <1>9, <1>10, <1>11, <1>12, <1>13, <1>14, <1>15, <1>16
       DEF ClientStep

\* The other clients' knowledge survives a step that no client takes.
LEMMA OthersKnow ==
    ASSUME StoreInv, LifecycleInv, CaptureInv, RowsStay(db, db'),
           db'.outbox = db.outbox, op' = op, KeysKnown'
    PROVE  CaptureInv'
  <1>1. \A k \in Clients : OpKnows(db', op[k])
    <2>1. \A k \in Clients : Capturing(op[k]) => op[k].cand \notin db'.outbox
      BY DEF CaptureInv, OpKnows
    <2> QED
      BY <2>1, KnowsStays DEF LifecycleInv, CaptureInv
  <1>2. CandidatesDistinct'
    BY DEF CaptureInv, CandidatesDistinct
  <1>3. SuccessorExists'
    BY SuccessorsStay DEF CaptureInv
  <1> QED
    BY <1>1, <1>2, <1>3 DEF CaptureInv

\* Every step outside of erasure.
LEMMA LifecycleKnows ==
    ASSUME StoreInv, LifecycleInv, CaptureInv, LifecycleNext
    PROVE  CaptureInv' /\ LifecycleEffect
  <1>1. ASSUME RowsStay(db, db'), NoneErased(db, db'), SameKeys(db, db'),
               UNCHANGED <<op, refused>>
        PROVE  CaptureInv' /\ LifecycleEffect
    <2>1. LifecycleEffect
      BY <1>1 DEF LifecycleEffect, KeysSame
    <2>2. KeysKnown'
      BY <2>1, KeysStayKnown DEF CaptureInv
    <2> QED
      BY <1>1, <2>1, <2>2, OthersKnow DEF SameKeys
  <1>2. ASSUME UNCHANGED <<db, op, refused>> PROVE CaptureInv' /\ LifecycleEffect
    <2>1. RowsStay(db, db') /\ NoneErased(db, db')
      BY <1>2, SameRowsStay
    <2> QED
      BY <1>1, <1>2, <2>1 DEF SameKeys
  <1>3. db \in Database /\ db \in Draft
    BY DatabaseIsDraft DEF StoreInv, Consistent
  <1>4. ASSUME NEW c \in Clients, ClientStep(c) PROVE CaptureInv' /\ LifecycleEffect
    BY <1>4, ClientStepKnows
  <1>5. ASSUME NEW p \in Passes, PassStep(p) PROVE CaptureInv' /\ LifecycleEffect
    <2>1. CASE ExpireCommit(p)
      <3>1. /\ db' = Expire(db, pass[p].due, pass[p].now)
            /\ UNCHANGED <<op, refused>>
        BY <2>1 DEF ExpireCommit
      <3>2. pass[p].due \in SUBSET Ids /\ pass[p].now \in Nat
        BY DEF LifecycleInv, Pass
      <3>3. RowsStay(db, db') /\ NoneErased(db, db') /\ SameKeys(db, db')
        BY <1>3, <3>1, <3>2, ExpireEffect
      <3> QED
        BY <1>1, <3>1, <3>3
    <2>2. CASE ExpireRead(p) \/ ExpireLease(p) \/ ExpireFenced(p) \/ PassCrash(p)
      BY <1>2, <2>2 DEF ExpireRead, ExpireLease, ExpireFenced, PassCrash, storeVars
    <2> QED
      BY <1>5, <2>1, <2>2 DEF PassStep
  <1>6. ASSUME NEW i \in Ids, NEW until \in Deadlines \cup {None}, SetValidUntil(i, until)
        PROVE  CaptureInv' /\ LifecycleEffect
    <2>1. db' = SetDeadline(db, i, until) /\ UNCHANGED <<op, refused>>
      BY <1>6 DEF SetValidUntil, lifecycleVars
    <2>2. until \in Nat \cup {None}
      BY DeadlinesType
    <2>3. RowsStay(db, db') /\ NoneErased(db, db') /\ SameKeys(db, db')
      BY <1>3, <2>1, <2>2, DeadlineEffect
    <2> QED
      BY <1>1, <2>1, <2>3
  <1>7. CASE Tick
    BY <1>2, <1>7 DEF Tick, lifecycleVars
  <1>8. CASE Activate
    <2>1. db' = [db EXCEPT !.model = @ + 1] /\ UNCHANGED <<op, refused>>
      BY <1>8 DEF Activate, lifecycleVars
    <2>2. db'.row = db.row /\ SameKeys(db, db')
      BY <1>3, <2>1 DEF SameKeys, Draft
    <2>3. RowsStay(db, db') /\ NoneErased(db, db')
      BY <2>2, SameRowsStay
    <2> QED
      BY <1>1, <2>1, <2>2, <2>3
  <1>9. CASE Replicate /\ UNCHANGED lifecycleVars
    BY <1>2, <1>9 DEF Replicate, lifecycleVars
  <1> QED
    BY <1>4, <1>5, <1>6, <1>7, <1>8, <1>9 DEF LifecycleNext

-----------------------------------------------------------------------------
(* Erasure.                                                                *)

\* A destructive transaction removes the keys of its shells, or every key.
ErasesKeys(shells, lost) ==
    /\ Destroys(db, db', shells) /\ shells \in SUBSET Ids
    /\ lost \in SUBSET db.key /\ db'.key = db.key \ lost

\* What a step of an erasure does to the tables and to the journal: nothing,
\* or it adds to one operation what it destroys.
ErasureEffect ==
    \/ UNCHANGED <<db, journal>>
    \/ \E o \in Operations, shells \in SUBSET Ids, lost \in SUBSET db.key, n \in Totals :
          /\ ErasesKeys(shells, lost)
          /\ journal' = [journal EXCEPT ![o] = n]
          /\ n.memories = journal[o].memories + Destroyed(db, shells)
          /\ n.keys = journal[o].keys + Cardinality(lost)

\* What the two destructive transactions count is a number.
LEMMA CountsAreNumbers ==
    ASSUME StoreInv, NEW shells \in SUBSET Ids, NEW lost \in SUBSET db.key
    PROVE  /\ IsFiniteSet(db.key) /\ IsFiniteSet(lost)
           /\ Cardinality(db.key) \in Nat /\ Cardinality(lost) \in Nat
           /\ Destroyed(db, shells) \in Nat
  <1>1. IsFiniteSet(Ids \X (Ids \cup {None}))
    BY IdsFinite, FS_AddElement, FS_Product
  <1>2. db.key \in SUBSET (Ids \X (Ids \cup {None}))
    BY DEF StoreInv, Consistent, Database
  <1>3. IsFiniteSet(db.key) /\ IsFiniteSet(lost)
    BY <1>1, <1>2, FS_Subset
  <1>4. IsFiniteSet({i \in shells : IsLive(db, i)})
    <2>1. {i \in shells : IsLive(db, i)} \in SUBSET Ids
      OBVIOUS
    <2> QED
      BY <2>1, IdsFinite, FS_Subset
  <1> QED
    BY <1>3, <1>4, FS_CardinalityType DEF Destroyed

\* A memory erasure counts its live shells and their keys.
LEMMA EraseCommitEffect ==
    ASSUME StoreInv, ErasureInv, NEW e \in Erasers, EraseCommit(e)
    PROVE  ErasureEffect
  <1> DEFINE i == eraser[e].target
             shells == eraser[e].shells
             swept == DestroyRows(db, shells, eraser[e].at)
             lost == {k \in db.key : k[2] \in shells}
             n == [memories |-> journal[i].memories + Destroyed(db, shells),
                   keys |-> journal[i].keys + KeysOf(db, shells),
                   marked |-> journal[i].marked + NewlyMarked(swept, i)]
  <1>1. /\ eraser[e].pc = "prepared"
        /\ db' = EraseRows(db, i, shells, eraser[e].at)
        /\ journal' = [journal EXCEPT ![i] = n]
    BY DEF EraseCommit
  <1>2. /\ i \in Ids /\ i \in Operations /\ shells \in SUBSET Ids /\ eraser[e].at \in Nat
        /\ journal[i] \in Totals
    BY <1>1, OperationsAndTargets DEF ErasureInv, Eraser, EraserSound
  <1>3. /\ Destroys(db, db', shells)
        /\ db'.key = {k \in db.key : k[2] \notin shells}
    <2>1. Consistent(db)
      BY DEF StoreInv
    <2> HIDE DEF i, shells
    <2>2. EraseRows(db, i, shells, eraser[e].at).key = {k \in db.key : k[2] \notin shells}
      BY <1>2, <2>1, EraseEffect
    <2>3. Destroys(db, EraseRows(db, i, shells, eraser[e].at), shells)
      BY <1>2, <2>1, EraseEffect
    <2> QED
      BY <1>1, <2>2, <2>3
  <1>4. lost \in SUBSET db.key /\ db'.key = db.key \ lost
    BY <1>3
  <1>5. Cardinality(lost) = KeysOf(db, shells)
    BY DEF KeysOf
  <1> HIDE DEF lost, swept, i, shells
  <1>6. db \in Draft
    BY DatabaseIsDraft DEF StoreInv, Consistent
  <1>7. /\ Destroyed(db, shells) \in Nat /\ KeysOf(db, shells) \in Nat
        /\ NewlyMarked(swept, i) \in Nat
    BY <1>2, <1>6, AccountingType
  <1>8. /\ n \in Totals /\ n.memories = journal[i].memories + Destroyed(db, shells)
        /\ n.keys = journal[i].keys + Cardinality(lost)
    BY <1>2, <1>5, <1>7 DEF Totals
  <1> HIDE DEF n
  <1>9. ErasesKeys(shells, lost)
    BY <1>2, <1>3, <1>4 DEF ErasesKeys
  <1> QED
    BY <1>1, <1>2, <1>4, <1>8, <1>9 DEF ErasureEffect

\* A batch of a scope erasure counts its live shells and every key.
LEMMA ScopeBatchEffect ==
    ASSUME StoreInv, ErasureInv, NEW e \in Erasers, ScopeBatch(e)
    PROVE  ErasureEffect
  <1> DEFINE o == eraser[e].read.op
             shells == eraser[e].shells
             lost == db.key
             a == journal[o].memories + Destroyed(db, shells)
             b == journal[o].keys + Cardinality(lost)
             n == [journal[o] EXCEPT !.memories = a, !.keys = b]
  <1>1. /\ eraser[e].pc = "batch"
        /\ db' = BatchRows(db, shells, eraser[e].at)
        /\ journal' = [journal EXCEPT
              ![o].memories = @ + Destroyed(db, shells),
              ![o].keys = @ + Cardinality(lost)]
    BY DEF ScopeBatch
  <1>2. /\ o \in Operations /\ shells \in SUBSET Ids /\ eraser[e].at \in Nat
        /\ journal[o] \in Totals
    BY <1>1 DEF ErasureInv, Eraser, EraserSound
  <1>3. journal' = [journal EXCEPT ![o] = n]
    BY <1>1, <1>2 DEF ErasureInv
  <1>4. Destroys(db, db', shells) /\ db'.key = {}
    BY <1>1, <1>2, BatchEffect DEF StoreInv
  <1>5. lost \in SUBSET db.key /\ db'.key = db.key \ lost
    BY <1>4
  <1>6. Cardinality(lost) \in Nat /\ Destroyed(db, shells) \in Nat
    BY <1>2, <1>5, CountsAreNumbers
  <1> HIDE DEF lost, o, shells
  <1>7. /\ n \in Totals /\ n.memories = journal[o].memories + Destroyed(db, shells)
        /\ n.keys = journal[o].keys + Cardinality(lost)
    <2>1. a \in Nat /\ b \in Nat
      BY <1>2, <1>6 DEF Totals
    <2> HIDE DEF a, b
    <2>2. n \in Totals /\ n.memories = a /\ n.keys = b
      BY <1>2, <2>1 DEF Totals
    <2> QED
      BY <2>2 DEF a, b
  <1> HIDE DEF n
  <1>8. ErasesKeys(shells, lost)
    BY <1>2, <1>4, <1>5 DEF ErasesKeys
  <1> QED
    BY <1>2, <1>3, <1>5, <1>7, <1>8 DEF ErasureEffect

\* Every step of an erasure.
LEMMA ErasureStepEffect ==
    ASSUME StoreInv, ErasureInv, ErasureNext
    PROVE  ErasureEffect
  <1>1. PICK e \in Erasers : EraserStep(e)
    BY DEF ErasureNext
  <1>2. CASE EraseCommit(e)
    BY <1>2, EraseCommitEffect
  <1>3. CASE ScopeBatch(e)
    BY <1>3, ScopeBatchEffect
  <1>4. CASE ~EraseCommit(e) /\ ~ScopeBatch(e)
    <2>1. UNCHANGED <<db, journal>>
      BY <1>1, <1>4 DEF EraserStep, EraserProgress, ErasePrepare, EraseRedeliver, ScopeBegin,
            EraseAbort, ScopeStart, ScopeStartAbort, ScopeResume, ScopeRead,
            ScopeBatchAbort, ReadReceipt, ReadTotals, Deliver, MarkDelivered,
            EraserCrash, storeVars
    <2> QED
      BY <2>1 DEF ErasureEffect
  <1> QED
    BY <1>2, <1>3, <1>4

\* No erasure takes anything from a capture under way that its commit does not
\* check again.
LEMMA ErasureKnows ==
    ASSUME StoreInv, LifecycleInv, CaptureInv, ErasureEffect, UNCHANGED lifecycleVars
    PROVE  CaptureInv'
  <1>1. UNCHANGED <<op, refused>>
    BY DEF lifecycleVars
  <1>2. /\ RowsStay(db, db') /\ db'.outbox = db.outbox /\ db'.key \subseteq db.key
    <2>1. CASE UNCHANGED <<db, journal>>
      BY <2>1, SameRowsStay
    <2>2. ASSUME NEW shells, NEW lost, ErasesKeys(shells, lost)
          PROVE  RowsStay(db, db') /\ db'.outbox = db.outbox /\ db'.key \subseteq db.key
      <3>1. Destroys(db, db', shells) /\ db'.key = db.key \ lost
        BY <2>2 DEF ErasesKeys
      <3>2. RowsStay(db, db')
        BY <3>1, DestroysStay
      <3> QED
        BY <3>1, <3>2 DEF Destroys
    <2> QED
      BY <2>1, <2>2 DEF ErasureEffect
  <1>3. KeysKnown'
    BY <1>1, <1>2 DEF CaptureInv, KeysKnown, Quarantined
  <1> QED
    BY <1>1, <1>2, <1>3, OthersKnow

\* What captures carry holds in every state, whatever erasures and expiry
\* passes commit between the reads of a capture and its commit.
THEOREM CapturesInvariant == Spec => []CaptureInv
  <1>1. Init => CaptureInv
    <2> SUFFICES ASSUME Init PROVE CaptureInv
      OBVIOUS
    <2>1. /\ \A c \in Clients : op[c] = IdleOp
          /\ db = EmptyDatabase /\ refused = {}
      BY DEF Init, StoreInit, LifecycleInit
    <2>2. IdleOp.pc = "idle"
      BY DEF IdleOp
    <2>3. /\ db.key = {} /\ \A i \in Ids : db.row[i].superseded_by = None
      BY <2>1 DEF EmptyDatabase, NoRow
    <2> QED
      BY <2>1, <2>2, <2>3
         DEF CaptureInv, OpKnows, Capturing, CandidatesDistinct, SuccessorExists, KeysKnown
  <1>2. IInv /\ CaptureInv /\ [Next]_vars => CaptureInv'
    <2> SUFFICES ASSUME IInv, CaptureInv, [Next]_vars PROVE CaptureInv'
      OBVIOUS
    <2>1. StoreInv /\ LifecycleInv /\ ErasureInv
      BY DEF IInv
    <2>2. CASE LifecycleNext
      BY <2>1, <2>2, LifecycleKnows
    <2>3. CASE ErasureNext /\ UNCHANGED lifecycleVars
      BY <2>1, <2>3, ErasureStepEffect, ErasureKnows
    <2>4. CASE UNCHANGED vars
      <3>1. UNCHANGED <<db, lifecycleVars, journal>>
        BY <2>4 DEF vars, storeVars, erasureVars
      <3> QED
        BY <2>1, <3>1, ErasureKnows DEF ErasureEffect
    <2> QED
      BY <2>2, <2>3, <2>4 DEF Next
  <1> QED
    BY <1>1, <1>2, Invariance, PTL DEF Spec

\* A superseded row names a row of the scope, for any number of corrections
\* that merge, and of erasures of the rows in between.
THEOREM SuccessorsExist == Spec => []SuccessorExists
  <1>1. CaptureInv => SuccessorExists
    BY DEF CaptureInv
  <1> QED
    BY <1>1, CapturesInvariant, PTL

\* A capture that commits leaves its content in a live row with a job for the
\* model that is active then, although holder and model were read earlier.
THEOREM CaptureEmbeds == Spec => CaptureOwesEmbedding
  <1> DEFINE Owes == \A i \in db'.outbox \ db.outbox :
                        \E j \in Ids :
                           /\ IsLive(db', j)
                           /\ db'.row[j].fingerprint = Fingerprint(i)
                           /\ db'.model # 0 => <<j, db'.model>> \in db'.job
  <1>1. IInv /\ CaptureInv /\ [Next]_vars => [Owes]_vars
    <2> SUFFICES ASSUME IInv, CaptureInv, Next PROVE Owes
      OBVIOUS
    <2>1. StoreInv /\ LifecycleInv /\ ErasureInv
      BY DEF IInv
    <2>2. CASE LifecycleNext
      <3>1. LifecycleEffect
        BY <2>1, <2>2, LifecycleKnows
      <3>2. CASE db'.outbox = db.outbox
        BY <3>2
      <3>3. ASSUME NEW o \in Op, KeysOfCapture(o) PROVE Owes
        BY <3>3 DEF KeysOfCapture, Captures
      <3> QED
        BY <3>1, <3>2, <3>3 DEF LifecycleEffect, KeysSame, SameKeys, KeysOfRefusal
    <2>3. CASE ErasureNext
      <3>1. ErasureEffect
        BY <2>1, <2>3, ErasureStepEffect
      <3>2. db'.outbox = db.outbox
        BY <3>1 DEF ErasureEffect, ErasesKeys, Destroys
      <3> QED
        BY <3>2
    <2> QED
      BY <2>2, <2>3 DEF Next
  <1> QED
    BY <1>1, Invariance, CapturesInvariant, PTL DEF Spec, CaptureOwesEmbedding

-----------------------------------------------------------------------------
(* Accounts.                                                               *)

\* An operation counts m more.
LEMMA CountGrows ==
    ASSUME NEW f \in [Operations -> Nat], NEW g \in [Operations -> Nat],
           NEW o \in Operations, NEW m \in Nat, g[o] = f[o] + m,
           \A p \in Operations \ {o} : g[p] = f[p], IsFiniteSet(Tally(f))
    PROVE  /\ IsFiniteSet(Tally(g))
           /\ Cardinality(Tally(g)) = Cardinality(Tally(f)) + m
  <1> DEFINE N == f[o]
             I == (N + 1)..(N + m)
             X == {o} \X I
  <1>1. N \in Nat
    OBVIOUS
  <1>2. IsFiniteSet(I) /\ Cardinality(I) = m
    <2>1. N + 1 \in Int /\ N + m \in Int
      BY <1>1
    <2>2. /\ IsFiniteSet(I)
          /\ Cardinality(I) = IF N + 1 > N + m THEN 0 ELSE (N + m) - (N + 1) + 1
      BY <2>1, FS_Interval
    <2> QED
      BY <1>1, <2>2
  <1>3. IsFiniteSet(X) /\ Cardinality(X) = m
    <2>1. IsFiniteSet({o}) /\ Cardinality({o}) = 1
      BY FS_Singleton
    <2> HIDE DEF I
    <2>2. IsFiniteSet(X) /\ Cardinality(X) = Cardinality({o}) * Cardinality(I)
      BY <1>2, <2>1, FS_Product
    <2> QED
      BY <1>2, <2>1, <2>2
  <1>4. \A x : x \in Tally(f) <=> \E p \in Operations : \E n \in 1..f[p] : x = <<p, n>>
    BY DEF Tally
  <1>5. \A x : x \in Tally(g) <=> \E p \in Operations : \E n \in 1..g[p] : x = <<p, n>>
    BY DEF Tally
  <1>6. \A x : x \in X <=> \E n \in I : x = <<o, n>>
    OBVIOUS
  <1>7. 1..g[o] = (1..N) \cup I
    BY <1>1
  <1>8. (1..N) \cap I = {}
    BY <1>1
  <1> HIDE DEF X, I
  <1>9. Tally(g) = Tally(f) \cup X
    <2>1. ASSUME NEW x \in Tally(g) PROVE x \in Tally(f) \cup X
      <3>0. PICK p \in Operations : \E n \in 1..g[p] : x = <<p, n>>
        BY <1>5
      <3>1. PICK n \in 1..g[p] : x = <<p, n>>
        BY <3>0
      <3> QED
        BY <1>4, <1>6, <1>7, <3>1
    <2>2. ASSUME NEW x \in Tally(f) PROVE x \in Tally(g)
      <3>0. PICK p \in Operations : \E n \in 1..f[p] : x = <<p, n>>
        BY <1>4
      <3>1. PICK n \in 1..f[p] : x = <<p, n>>
        BY <3>0
      <3> QED
        BY <1>5, <1>7, <3>1
    <2>3. ASSUME NEW x \in X PROVE x \in Tally(g)
      BY <1>5, <1>6, <1>7
    <2> QED
      BY <2>1, <2>2, <2>3
  <1>10. Tally(f) \cap X = {}
    <2> SUFFICES ASSUME NEW x, x \in Tally(f), x \in X PROVE FALSE
      OBVIOUS
    <2>0. PICK p \in Operations : \E n \in 1..f[p] : x = <<p, n>>
      BY <1>4
    <2>1. PICK n \in 1..f[p] : x = <<p, n>>
      BY <2>0
    <2>2. PICK k \in I : x = <<o, k>>
      BY <1>6
    <2>3. p = o /\ n = k
      BY <2>1, <2>2
    <2> QED
      BY <1>8, <2>1, <2>2, <2>3
  <1>11. IsFiniteSet(Tally(f) \cup X)
    BY <1>3, FS_Union
  <1> QED
    BY <1>3, <1>9, <1>10, <1>11, BucketGrows

\* What the counts range over is finite.
LEMMA AccountsFinite ==
    ASSUME StoreInv, LifecycleInv
    PROVE  /\ IsFiniteSet(ErasedRows) /\ IsFiniteSet(db.key) /\ IsFiniteSet(refused)
           /\ IsFiniteSet(Quarantined) /\ db.outbox \subseteq Ids
           /\ Cardinality(ErasedRows) \in Nat /\ Cardinality(db.key) \in Nat
           /\ Cardinality(refused) \in Nat /\ Cardinality(Quarantined) \in Nat
  <1>1. {} \in SUBSET Ids /\ db.key \in SUBSET db.key
    OBVIOUS
  <1>2. IsFiniteSet(db.key)
    BY <1>1, CountsAreNumbers
  <1>3. db.outbox \subseteq Ids
    BY DEF StoreInv, Consistent, Database
  <1>4. ErasedRows \in SUBSET Ids /\ refused \in SUBSET Ids /\ Quarantined \in SUBSET Ids
    BY <1>3 DEF ErasedRows, LifecycleInv, Quarantined
  <1>5. IsFiniteSet(ErasedRows) /\ IsFiniteSet(refused) /\ IsFiniteSet(Quarantined)
    BY <1>4, IdsFinite, FS_Subset
  <1> QED
    BY <1>2, <1>3, <1>5, FS_CardinalityType

\* What an erasure destroys, it counts once.
LEMMA ErasureAccounts ==
    ASSUME StoreInv, LifecycleInv, ErasureInv, ErasureInv', AccountInv, ErasureEffect,
           UNCHANGED lifecycleVars
    PROVE  AccountInv'
  <1> USE DEF AccountInv, EveryDestructionAccounted
  <1>1. refused' = refused
    BY DEF lifecycleVars
  <1>2. CASE UNCHANGED <<db, journal>>
    <2>1. /\ MemoriesCounted' = MemoriesCounted /\ KeysCounted' = KeysCounted
          /\ ErasedRows' = ErasedRows /\ Quarantined' = Quarantined
      BY <1>2 DEF MemoriesCounted, KeysCounted, ErasedRows, Quarantined
    <2> QED
      BY <1>1, <1>2, <2>1
  <1>3. ASSUME NEW o \in Operations, NEW shells \in SUBSET Ids,
               NEW lost \in SUBSET db.key, NEW n \in Totals,
               ErasesKeys(shells, lost), journal' = [journal EXCEPT ![o] = n],
               n.memories = journal[o].memories + Destroyed(db, shells),
               n.keys = journal[o].keys + Cardinality(lost)
        PROVE  AccountInv'
    <2> DEFINE f == [p \in Operations |-> journal[p].memories]
               g == [p \in Operations |-> journal'[p].memories]
               h == [p \in Operations |-> journal[p].keys]
               k == [p \in Operations |-> journal'[p].keys]
               M == {i \in shells : IsLive(db, i)}
    <2>1. /\ MemoriesCounted = Tally(f) /\ MemoriesCounted' = Tally(g)
          /\ KeysCounted = Tally(h) /\ KeysCounted' = Tally(k)
      BY DEF MemoriesCounted, KeysCounted, Tally
    <2>2. /\ \A p \in Operations : journal[p] \in Totals
          /\ \A p \in Operations : journal'[p] = IF p = o THEN n ELSE journal[p]
      BY <1>3 DEF ErasureInv
    <2>3. /\ f \in [Operations -> Nat] /\ g \in [Operations -> Nat]
          /\ h \in [Operations -> Nat] /\ k \in [Operations -> Nat]
      BY <2>2 DEF Totals
    <2>4. /\ g[o] = f[o] + Destroyed(db, shells) /\ k[o] = h[o] + Cardinality(lost)
          /\ \A p \in Operations \ {o} : g[p] = f[p] /\ k[p] = h[p]
      BY <1>3, <2>2
    <2> HIDE DEF f, g, h, k
    <2>5. /\ IsFiniteSet(lost) /\ Cardinality(lost) \in Nat /\ IsFiniteSet(db.key)
          /\ Destroyed(db, shells) \in Nat /\ Cardinality(db.key) \in Nat
      BY CountsAreNumbers
    <2>6. /\ IsFiniteSet(MemoriesCounted')
          /\ Cardinality(MemoriesCounted')
               = Cardinality(MemoriesCounted) + Destroyed(db, shells)
      BY <2>1, <2>3, <2>4, <2>5, CountGrows
    <2>7. /\ IsFiniteSet(KeysCounted')
          /\ Cardinality(KeysCounted') = Cardinality(KeysCounted) + Cardinality(lost)
      BY <2>1, <2>3, <2>4, <2>5, CountGrows
    <2>8. /\ Destroys(db, db', shells) /\ db'.key = db.key \ lost
      BY <1>3 DEF ErasesKeys
    <2>9. ErasedRows' = ErasedRows \cup M /\ ErasedRows \cap M = {}
      BY <2>8 DEF Destroys, ErasedRows, IsLive
    <2>10. Cardinality(ErasedRows') = Cardinality(ErasedRows) + Destroyed(db, shells)
      <3>1. IsFiniteSet(ErasedRows)
        BY AccountsFinite
      <3>2. M \in SUBSET Ids
        OBVIOUS
      <3>3. IsFiniteSet(M) /\ Destroyed(db, shells) = Cardinality(M)
        BY <3>2, IdsFinite, FS_Subset DEF Destroyed
      <3> HIDE DEF M
      <3> QED
        BY <2>9, <3>1, <3>3, BucketGrows
    <2>11. Cardinality(db'.key) = Cardinality(db.key) - Cardinality(lost)
      <3>1. Cardinality(db.key \ lost) = Cardinality(db.key) - Cardinality(db.key \cap lost)
        BY <2>5, FS_Difference
      <3>2. db.key \cap lost = lost
        OBVIOUS
      <3> QED
        BY <2>8, <3>1, <3>2
    <2>12. Quarantined' = Quarantined
      BY <2>8 DEF Destroys, Quarantined
    <2>13. Cardinality(MemoriesCounted') = Cardinality(ErasedRows')
      BY <2>6, <2>10
    <2>14. Cardinality(KeysCounted') + Cardinality(db'.key)
             = Cardinality(refused') + Cardinality(Quarantined')
      <3>1. Cardinality(KeysCounted) \in Nat
        BY FS_CardinalityType
      <3> QED
        BY <1>1, <2>5, <2>7, <2>11, <2>12, <3>1
    <2> QED
      BY <2>6, <2>7, <2>13, <2>14
  <1> QED
    BY <1>2, <1>3 DEF ErasureEffect

\* A key that a verdict stores is new.
LEMMA LifecycleAccounts ==
    ASSUME StoreInv, LifecycleInv, CaptureInv, AccountInv, LifecycleEffect,
           journal' = journal
    PROVE  AccountInv'
  <1> USE DEF AccountInv, EveryDestructionAccounted
  <1>1. MemoriesCounted' = MemoriesCounted /\ KeysCounted' = KeysCounted
    BY DEF MemoriesCounted, KeysCounted
  <1>2. ErasedRows' = ErasedRows
    BY DEF LifecycleEffect, RowsStay, NoneErased, ErasedRows
  <1>3. /\ Cardinality(db.key) \in Nat /\ Cardinality(refused) \in Nat
        /\ Cardinality(Quarantined) \in Nat /\ Cardinality(KeysCounted) \in Nat
        /\ IsFiniteSet(db.key) /\ IsFiniteSet(refused) /\ IsFiniteSet(Quarantined)
    BY AccountsFinite, FS_CardinalityType
  <1>4. ASSUME NEW a \in 0..1, NEW b \in 0..1,
               Cardinality(db'.key) = Cardinality(db.key) + a + b,
               Cardinality(refused') = Cardinality(refused) + a,
               Cardinality(Quarantined') = Cardinality(Quarantined) + b
        PROVE  AccountInv'
    BY <1>1, <1>2, <1>3, <1>4
  <1>5. CASE KeysSame
    <2>1. db'.key = db.key /\ refused' = refused /\ Quarantined' = Quarantined
      BY <1>5 DEF KeysSame, SameKeys, Quarantined
    <2>2. /\ Cardinality(db'.key) = Cardinality(db.key) + 0 + 0
          /\ Cardinality(refused') = Cardinality(refused) + 0
          /\ Cardinality(Quarantined') = Cardinality(Quarantined) + 0
      BY <1>3, <2>1
    <2> QED
      BY <1>4, <2>2
  <1>6. ASSUME NEW o \in Op, KeysOfCapture(o) PROVE AccountInv'
    <2> DEFINE k == <<o.cand, Captured(o)>>
    <2>1. /\ refused' = refused /\ o.cand \notin db.outbox
          /\ VerdictOf[o.cand] # "refuse" /\ db'.outbox = db.outbox \cup {o.cand}
          /\ db'.key = IF VerdictOf[o.cand] = "quarantine" THEN db.key \cup {k} ELSE db.key
      BY <1>6 DEF KeysOfCapture, Captures
    <2>2. k[1] = o.cand
      OBVIOUS
    <2> HIDE DEF k
    <2>3. CASE VerdictOf[o.cand] = "quarantine"
      <3>1. db'.key = db.key \cup {k} /\ k \notin db.key
        BY <2>1, <2>2, <2>3 DEF CaptureInv, KeysKnown, Quarantined
      <3>2. Quarantined' = Quarantined \cup {o.cand} /\ o.cand \notin Quarantined
        BY <2>1, <2>3 DEF Quarantined
      <3>3. /\ Cardinality(db'.key) = Cardinality(db.key) + 1
            /\ Cardinality(Quarantined') = Cardinality(Quarantined) + 1
        BY <1>3, <3>1, <3>2, FS_AddElement
      <3>4. /\ Cardinality(db'.key) = Cardinality(db.key) + 0 + 1
            /\ Cardinality(refused') = Cardinality(refused) + 0
        BY <1>3, <2>1, <3>3
      <3> QED
        BY <1>4, <3>3, <3>4
    <2>4. CASE VerdictOf[o.cand] # "quarantine"
      <3>1. db'.key = db.key /\ Quarantined' = Quarantined
        BY <2>1, <2>4 DEF Quarantined
      <3>2. /\ Cardinality(db'.key) = Cardinality(db.key) + 0 + 0
            /\ Cardinality(refused') = Cardinality(refused) + 0
            /\ Cardinality(Quarantined') = Cardinality(Quarantined) + 0
        BY <1>3, <2>1, <3>1
      <3> QED
        BY <1>4, <3>2
    <2> QED
      BY <2>3, <2>4
  <1>7. ASSUME NEW i \in Ids, KeysOfRefusal(i) PROVE AccountInv'
    <2> DEFINE k == <<i, None>>
    <2>1. /\ VerdictOf[i] = "refuse" /\ i \notin refused
          /\ refused' = refused \cup {i} /\ db'.outbox = db.outbox
          /\ db'.key = db.key \cup {k}
      BY <1>7 DEF KeysOfRefusal
    <2>2. k[1] = i
      OBVIOUS
    <2> HIDE DEF k
    <2>3. k \notin db.key /\ Quarantined' = Quarantined
      BY <2>1, <2>2 DEF CaptureInv, KeysKnown, Quarantined
    <2>4. /\ Cardinality(db'.key) = Cardinality(db.key) + 1
          /\ Cardinality(refused') = Cardinality(refused) + 1
      BY <1>3, <2>1, <2>3, FS_AddElement
    <2>5. /\ Cardinality(db'.key) = Cardinality(db.key) + 1 + 0
          /\ Cardinality(Quarantined') = Cardinality(Quarantined) + 0
      BY <1>3, <2>3, <2>4
    <2> QED
      BY <1>4, <2>4, <2>5
  <1> QED
    BY <1>5, <1>6, <1>7 DEF LifecycleEffect

\* Every tombstone and every destroyed key is counted by exactly one
\* operation's journal, whichever runs overlap, abort, crash and resume.
THEOREM DestructionAccounted == Spec => []EveryDestructionAccounted
  <1>1. Init => AccountInv
    <2> SUFFICES ASSUME Init PROVE AccountInv
      OBVIOUS
    <2>1. /\ db = EmptyDatabase /\ refused = {} /\ journal = [o \in Operations |-> NoTotals]
      BY DEF Init, StoreInit, LifecycleInit, ErasureInit
    <2>2. /\ db.key = {} /\ db.outbox = {} /\ \A i \in Ids : db.row[i].status = "absent"
      BY <2>1 DEF EmptyDatabase, NoRow
    <2>3. ErasedRows = {} /\ Quarantined = {}
      BY <2>2 DEF ErasedRows, Quarantined
    <2>4. NoTotals.memories = 0 /\ NoTotals.keys = 0
      BY DEF NoTotals
    <2>5. \A n \in 1..0 : FALSE
      OBVIOUS
    <2>6. MemoriesCounted = {} /\ KeysCounted = {}
      BY <2>1, <2>4, <2>5 DEF MemoriesCounted, KeysCounted, Tally
    <2> QED
      BY <2>1, <2>2, <2>3, <2>6, FS_EmptySet DEF AccountInv, EveryDestructionAccounted
  <1>2. IInv /\ IInv' /\ CaptureInv /\ AccountInv /\ [Next]_vars => AccountInv'
    <2> SUFFICES ASSUME IInv, IInv', CaptureInv, AccountInv, [Next]_vars PROVE AccountInv'
      OBVIOUS
    <2>1. StoreInv /\ LifecycleInv /\ ErasureInv /\ ErasureInv'
      BY DEF IInv
    <2>2. CASE LifecycleNext /\ UNCHANGED erasureVars
      <3>1. journal' = journal
        BY <2>2 DEF erasureVars
      <3> QED
        BY <2>1, <2>2, <3>1, LifecycleKnows, LifecycleAccounts
    <2>3. CASE ErasureNext /\ UNCHANGED lifecycleVars
      BY <2>1, <2>3, ErasureStepEffect, ErasureAccounts
    <2>4. CASE UNCHANGED vars
      <3>1. UNCHANGED <<db, lifecycleVars, journal>>
        BY <2>4 DEF vars, storeVars, erasureVars
      <3> QED
        BY <2>1, <3>1, ErasureAccounts DEF ErasureEffect
    <2> QED
      BY <2>2, <2>3, <2>4 DEF Next
  <1>3. AccountInv => EveryDestructionAccounted
    BY DEF AccountInv
  <1> QED
    BY <1>1, <1>2, <1>3, Invariance, CapturesInvariant, PTL DEF Spec

=============================================================================
