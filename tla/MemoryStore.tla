---------------------------- MODULE MemoryStore ----------------------------
(***************************************************************************)
(* The tables of one scope, and the statements that change them.           *)
(*                                                                         *)
(* Every write of aicortex-store is a list of SQL statements that the      *)
(* replicated store runs as one transaction.  A statement (or a group that *)
(* is always staged together) is a function from a database value to a     *)
(* database value, so a transaction is their composition; a statement that *)
(* writes NULL into a NOT NULL column when a comparison fails aborts the   *)
(* whole transaction, and is here a guard the committing action conjoins.  *)
(*                                                                         *)
(* A candidate memory is identified by its id; its kind, its normalised    *)
(* text and the parents it names in derived_from never change, so they are *)
(* constant functions of the id.                                           *)
(***************************************************************************)
EXTENDS Integers, FiniteSets

CONSTANTS
    Ids,          \* memory ids (UUIDv7, minted per candidate)
    Kinds,        \* MemoryKind
    Texts,        \* gate-normalised bodies
    KindOf,       \* the kind of each candidate
    TextOf,       \* the normalised text of each candidate
    ParentsOf,    \* provenance.derived_from of each candidate
    None          \* SQL NULL, Option::None

ASSUME IdsFinite == IsFiniteSet(Ids)
ASSUME NoneIsNoId == None \notin Ids
ASSUME KindOfType == KindOf \in [Ids -> Kinds]
ASSUME TextOfType == TextOf \in [Ids -> Texts]
ASSUME ParentsOfType == ParentsOf \in [Ids -> SUBSET Ids]
ASSUME NoSelfParent == \A i \in Ids : i \notin ParentsOf[i]
ASSUME NoneIsNoFingerprint == None \notin Kinds \X Texts

VARIABLES
    db,           \* the tables as the leader holds them
    replica,      \* the `memory` table as the local replica has applied it
    clock         \* the caller-supplied time (the crate reads no clock)

storeVars == <<db, replica, clock>>

-----------------------------------------------------------------------------
(* Row shapes.                                                             *)

Statuses == {"active", "quarantined", "superseded", "expired", "erased"}

\* A status label, or "absent" for an id no row carries.
RowStatus == Statuses \cup {"absent"}

\* blake3(scope, kind, normalised text): equal exactly when both are equal.
Fingerprint(i) == <<KindOf[i], TextOf[i]>>

\* The JSON document of a memory, to what the comparisons tell apart.
Record == [status : RowStatus, by : Ids \cup {None}, uses : Nat, updated : Nat]

Row == [status : RowStatus,
        superseded_by : Ids \cup {None},
        fingerprint : (Kinds \X Texts) \cup {None},
        valid_until : Nat \cup {None},
        origin_erased : BOOLEAN,
        record : Record]

NoRecord == [status |-> "absent", by |-> None, uses |-> 0, updated |-> 0]

NoRow == [status |-> "absent", superseded_by |-> None, fingerprint |-> None,
          valid_until |-> None, origin_erased |-> FALSE, record |-> NoRecord]

\* A row the gate admitted: Importance::at starts at one use.
NewRow(i, status, at) ==
    [status |-> status, superseded_by |-> None, fingerprint |-> Fingerprint(i),
     valid_until |-> None, origin_erased |-> FALSE,
     record |-> [status |-> status, by |-> None, uses |-> 1, updated |-> at]]

\* The database of one scope.
Database ==
    [row : [Ids -> Row],
     counter : [Kinds -> [Statuses -> Nat]],     \* scope_counter
     sources : [Ids -> Nat],                     \* rows in memory_source
     provenance : SUBSET Ids,                    \* provenance
     derivation : SUBSET (Ids \X Ids),           \* <<memory_id, parent_id>>
     key : SUBSET (Ids \X (Ids \cup {None})),    \* decision_key: <<key, memory>>
     job : SUBSET (Ids \X Nat),                  \* rahi_processing: <<memory, revision>>
     model : Nat,                                \* active revision, 0 when none
     outbox : SUBSET Ids]                        \* staged envelopes

EmptyDatabase ==
    [row |-> [i \in Ids |-> NoRow],
     counter |-> [k \in Kinds |-> [s \in Statuses |-> 0]],
     sources |-> [i \in Ids |-> 0],
     provenance |-> {}, derivation |-> {}, key |-> {}, job |-> {},
     model |-> 0, outbox |-> {}]

Present(d, i) == d.row[i].status # "absent"
IsLive(d, i) == d.row[i].status \notin {"absent", "erased"}

\* The rows of one kind in one state, which scope_counter claims to count.
Bucket(d, k, s) == {i \in Ids : KindOf[i] = k /\ d.row[i].status = s}

-----------------------------------------------------------------------------
(* What the tables promise each other.                                     *)

\* scope_counter is exact: `stats` never has to recount the rows.
CountersAgree(d) ==
    \A k \in Kinds, s \in Statuses : d.counter[k][s] = Cardinality(Bucket(d, k, s))

\* The columns are projections of the document (012 D-3), and only a
\* superseded row names a successor.
DocumentsAgree(d) ==
    \A i \in Ids :
        LET r == d.row[i] IN
        /\ r.record.status = r.status
        /\ r.record.by = r.superseded_by
        /\ r.superseded_by # None <=> r.status = "superseded"

\* No set of rows has all its successors inside itself: every walk along
\* superseded_by ends.
Acyclic(d) ==
    \A S \in SUBSET Ids :
        (\A x \in S : d.row[x].superseded_by \in S) => S = {}

\* Every capture that a live row absorbed left one source row.
SourcesAgree(d) == \A i \in Ids : d.row[i].record.uses = d.sources[i]

\* At most one live row per kind and text.
FingerprintsUnique(d) ==
    \A i, j \in Ids :
        IsLive(d, i) /\ IsLive(d, j) /\ d.row[i].fingerprint = d.row[j].fingerprint
            => i = j

\* Nothing in any table says more about an erased memory than its shell.
Bare(d, i) ==
    /\ d.row[i].fingerprint = None /\ d.row[i].valid_until = None
    /\ d.row[i].record.uses = 0 /\ d.sources[i] = 0
    /\ i \notin d.provenance
    /\ \A e \in d.derivation : e[1] # i
    /\ \A k \in d.key : k[2] # i
    /\ \A j \in d.job : j[1] # i
ErasedAreBare(d) == \A i \in Ids : d.row[i].status = "erased" => Bare(d, i)

-----------------------------------------------------------------------------
(* Reads.                                                                  *)

\* fingerprint_holder: the live rows that carry a candidate's fingerprint.
Holders(d, i) ==
    {j \in Ids : IsLive(d, j) /\ d.row[j].fingerprint = Fingerprint(i)}

\* The recursive CTE of SUPERSEDE_SQL: `to` lies in every set that contains
\* `from` and is closed under superseded_by.
Reaches(d, from, to) ==
    \A S \in SUBSET Ids :
        (/\ from \in S
         /\ \A x \in S : d.row[x].superseded_by # None
                            => d.row[x].superseded_by \in S)
        => to \in S

\* Mutant: the deadline itself is not yet due.
DueStrictly(d, now) ==
    {i \in Ids : /\ d.row[i].status = "active"
                 /\ d.row[i].valid_until # None
                 /\ d.row[i].valid_until < now}

\* DUE_SQL: what an expiry pass at `now` finds.
Due(d, now) ==
    {i \in Ids : /\ d.row[i].status = "active"
                 /\ d.row[i].valid_until # None
                 /\ d.row[i].valid_until <= now}

\* DERIVED_SQL: the rows that name `parent` in derived_from.
DerivedOf(d, parent) == {i \in Ids : <<i, parent>> \in d.derivation}

-----------------------------------------------------------------------------
(* Statements.                                                             *)

\* Counters::adjust.  A counter row that does not exist yet counts zero.
Adjust(counter, k, s, delta) ==
    [counter EXCEPT ![k][s] = IF @ + delta > 0 THEN @ + delta ELSE 0]

\* Mutant: the observed model is trusted at commit.
EmbeddingUnchecked(d, model) == TRUE

\* EmbeddingTarget::stage: the guard on the observed model, then the job.
EmbeddingGuard(d, model) == d.model = model
StageEmbedding(d, i, model) ==
    IF model = 0 THEN d ELSE [d EXCEPT !.job = @ \cup {<<i, model>>}]

\* Mutant: no unique index on the fingerprint.
InsertUnindexed(d, i) == ~Present(d, i)

\* memory_scope_fingerprint and the primary key: an insert that would break
\* either aborts its transaction.
InsertGuard(d, i) == ~Present(d, i) /\ Holders(d, i) = {}

\* ProvenanceRepo::stage: the provenance row and one row per parent.
StageProvenance(d, i) ==
    [d EXCEPT !.provenance = @ \cup {i},
              !.derivation = @ \cup {<<i, p>> : p \in ParentsOf[i]}]

\* stage_source: one more row in the source log.
StageSource(d, i) == [d EXCEPT !.sources[i] = @ + 1]

\* Mutant: the insert moves no counter.
InsertUncounted(d, i, status, model, at) ==
    LET row == [d EXCEPT !.row[i] = NewRow(i, status, at), !.outbox = @ \cup {i}]
    IN StageSource(StageEmbedding(StageProvenance(row, i), i, model), i)

\* MemoryRepo::insert followed by stage_source.
Insert(d, i, status, model, at) ==
    LET row == [d EXCEPT !.row[i] = NewRow(i, status, at),
                         !.counter = Adjust(@, KindOf[i], status, 1),
                         !.outbox = @ \cup {i}]
    IN StageSource(StageEmbedding(StageProvenance(row, i), i, model), i)

\* merge_into moves updated_at forward only, and counts one more use.
Later(s, t) == IF s < t THEN t ELSE s
MergeInto(record, at) ==
    [record EXCEPT !.uses = @ + 1, !.updated = Later(@, at)]

\* Mutant: the document is written back without the comparison.
MergeUnguarded(d, i, expected) == Present(d, i)

\* MERGE_SQL commits only over the document it was computed from.
MergeGuard(d, i, expected) ==
    d.row[i].record = expected /\ d.row[i].status # "erased"

\* MERGE_SQL, stage_source, the job and the envelope of candidate `work`.
Merge(d, i, expected, model, at, work) ==
    LET row == [d EXCEPT !.row[i].record = MergeInto(expected, at),
                         !.outbox = @ \cup {work}]
    IN StageEmbedding(StageSource(row, i), i, model)

\* Mutants: only the staging walk protects the chain; the status read on the
\* replica is trusted.
SupersedeUnwalked(d, old, new, expected) ==
    d.row[old].record = expected /\ d.row[old].status # "erased"
SupersedeUncompared(d, old, new, expected) ==
    d.row[old].status # "erased" /\ ~Reaches(d, new, old)

\* SUPERSEDE_SQL repeats the walk and compares the document.
SupersedeGuard(d, old, new, expected) ==
    /\ d.row[old].record = expected
    /\ d.row[old].status # "erased"
    /\ ~Reaches(d, new, old)

\* SUPERSEDE_SQL and its two counter moves.
Supersede(d, old, new, expected, at) ==
    LET kind == KindOf[old]
    IN [d EXCEPT
          !.row[old] = [@ EXCEPT
              !.status = "superseded", !.superseded_by = new,
              !.record = [expected EXCEPT !.status = "superseded", !.by = new,
                                          !.updated = at]],
          !.counter = Adjust(Adjust(@, kind, expected.status, -1),
                             kind, "superseded", 1)]

\* VALID_UNTIL_SQL.
SetDeadline(d, i, until) ==
    IF IsLive(d, i) THEN [d EXCEPT !.row[i].valid_until = until] ELSE d

\* Mutant: the rows read as due are expired whatever became of them.
ExpireStale(d, ids, now) ==
    [d EXCEPT !.row = [i \in Ids |->
        IF i \in ids THEN [d.row[i] EXCEPT !.status = "expired"] ELSE d.row[i]]]

\* expiry_statements: both counter moves count the rows the update changes.
Expire(d, ids, now) ==
    LET claimed == {i \in ids : d.row[i].status = "active"}
        ofKind(k) == Cardinality({i \in claimed : KindOf[i] = k})
    IN [d EXCEPT
          !.counter = [k \in Kinds |-> [s \in Statuses |->
              CASE s = "active"  -> IF d.counter[k][s] - ofKind(k) > 0
                                       THEN d.counter[k][s] - ofKind(k) ELSE 0
                [] s = "expired" -> d.counter[k][s] + ofKind(k)
                [] OTHER         -> d.counter[k][s]]],
          !.row = [i \in Ids |->
              IF i \in claimed
              THEN [d.row[i] EXCEPT !.status = "expired",
                                    !.record.status = "expired",
                                    !.record.updated = now]
              ELSE d.row[i]]]

\* The tombstone that replaces an erased row: TOMBSTONE_SQL and tombstone().
Tombstone(row, at) ==
    [row EXCEPT !.status = "erased", !.superseded_by = None,
                !.fingerprint = None, !.valid_until = None,
                !.record = [status |-> "erased", by |-> None, uses |-> 0,
                            updated |-> at]]

\* stage_sweep and stage_embedding_queue_erasure: every derivative row of the
\* shells goes, whether or not the shell is still live at commit.
Sweep(d, shells) ==
    [d EXCEPT !.sources = [i \in Ids |-> IF i \in shells THEN 0 ELSE d.sources[i]],
              !.provenance = @ \ shells,
              !.derivation = {e \in @ : e[1] \notin shells},
              !.job = {j \in @ : j[1] \notin shells}]

\* Mutant: the keys of refusals, which have no row, are missed.
DestroyRowKeys(d) == [d EXCEPT !.key = {k \in @ : k[2] = None}]

\* DESTROY_MEMORY_SQL and DESTROY_SCOPE_SQL.
DestroyKeys(d, shells) == [d EXCEPT !.key = {k \in @ : k[2] \notin shells}]
DestroyScopeKeys(d) == [d EXCEPT !.key = {}]

\* stage_tombstones: counters move from the bucket the row is in at commit,
\* and only rows that are still live move or are replaced.
Tombstones(d, shells, at) ==
    LET moved == {i \in shells : IsLive(d, i)}
        from(k, s) == Cardinality(moved \cap Bucket(d, k, s))
        ofKind(k) == Cardinality({i \in moved : KindOf[i] = k})
    IN [d EXCEPT
          !.counter = [k \in Kinds |-> [s \in Statuses |->
              IF s = "erased" THEN d.counter[k][s] + ofKind(k)
                              ELSE d.counter[k][s] - from(k, s)]],
          !.row = [i \in Ids |-> IF i \in moved THEN Tombstone(d.row[i], at)
                                                ELSE d.row[i]]]

\* MARK_DERIVED_SQL.
MarkDerived(d, parent) ==
    [d EXCEPT !.row = [i \in Ids |->
        IF i \in DerivedOf(d, parent) /\ IsLive(d, i)
        THEN [d.row[i] EXCEPT !.origin_erased = TRUE] ELSE d.row[i]]]

-----------------------------------------------------------------------------
(* Steps of the store itself.                                              *)

StoreInit ==
    /\ db = EmptyDatabase
    /\ replica = EmptyDatabase.row
    /\ clock = 0

\* The local replica applies the log up to the leader's current state.
Replicate ==
    /\ replica # db.row
    /\ replica' = db.row
    /\ UNCHANGED <<db, clock>>

=============================================================================
