------------------------------- MODULE Cortex -------------------------------
(***************************************************************************)
(* One scope with everything that writes to it: captures, corrections,     *)
(* supersessions, deadlines, expiry passes, model activations, and the     *)
(* erasure of memories and of the scope, interleaved at the granularity of *)
(* one read or one transaction.                                            *)
(***************************************************************************)
EXTENDS Lifecycle, Erasure

vars == <<storeVars, lifecycleVars, erasureVars>>

Init == StoreInit /\ LifecycleInit /\ ErasureInit

Next ==
    \/ LifecycleNext /\ UNCHANGED erasureVars
    \/ ErasureNext /\ UNCHANGED lifecycleVars

Spec == Init /\ [][Next]_vars

\* The caller of an erasure whose Decision is still owed asks again.
Retry(e) ==
    /\ \/ \E i \in Requested : /\ receipt[i].op # None /\ ~receipt[i].delivered
                               /\ EraseRedeliver(e, i)
       \/ /\ receipt[WholeScope].op # None /\ ~receipt[WholeScope].delivered
          /\ ScopeBegin(e)
    /\ UNCHANGED lifecycleVars

\* A request that is under way keeps running unless its process dies, and a
\* caller who has not seen a Decision asks again.  Somebody keeps running
\* expiry passes, and not every one of them loses its process or its lease
\* before it commits.
FairSpec ==
    /\ Spec
    /\ \A e \in Erasers : /\ WF_vars(EraserProgress(e) /\ UNCHANGED lifecycleVars)
                          /\ SF_vars(Retry(e))
    /\ \A p \in Passes : /\ SF_vars(ExpireRead(p) /\ UNCHANGED erasureVars)
                         /\ SF_vars(ExpireLease(p) /\ UNCHANGED erasureVars)
                         /\ SF_vars(ExpireCommit(p) /\ UNCHANGED erasureVars)
                         /\ WF_vars(ExpireFenced(p) /\ UNCHANGED erasureVars)

-----------------------------------------------------------------------------
(* Invariants of the tables.                                               *)

\* Type correctness.  No counter of scope_counter is ever negative, although
\* an erasure decrements without the clamp that Counters::adjust applies.
TypeOK ==
    /\ db \in Database
    /\ replica \in [Ids -> Row]
    /\ clock \in Nat
    /\ op \in [Clients -> Op]
    /\ pass \in [Passes -> Pass]
    /\ lease \in Passes \cup {None}
    /\ refused \subseteq Ids
    /\ gateLedger \subseteq Ids
    /\ receipt \in [Targets -> Receipt]
    /\ journal \in [Operations -> Totals]
    /\ ledger \subseteq [op : Operations, totals : Totals]
    /\ eraser \in [Erasers -> Eraser]
    /\ usedOps \subseteq ScopeOps
    /\ crashes \in Nat

\* scope_counter equals a count of the rows after every commit, whatever
\* transaction committed between the reads of another and its commit.  A
\* supersession moves the counter off the status it read on the replica.
CountersMatchRows == CountersAgree(db)

\* No writer leaves a document that disagrees with its columns, although
\* merge and supersede write back a document they read earlier.
DocumentsMatchColumns == DocumentsAgree(db)

\* Two supersessions that are each acyclic when they are staged never close
\* a cycle together.
SupersessionAcyclic == Acyclic(db)

\* A successor is a row of the scope: a correction that merged supersedes by
\* the row it merged into, never by the candidate that was not inserted.
SuccessorExists ==
    \A i \in Ids : db.row[i].superseded_by # None
                      => Present(db, db.row[i].superseded_by)

\* No concurrent capture of the same content is lost or counted twice: the
\* uses of a document are the source rows of its memory.
UsesMatchSources == SourcesAgree(db)

\* Two captures of the same content that both read no holder do not both
\* insert, and content may be captured again once its holder was erased.
OneLiveRowPerFingerprint == FingerprintsUnique(db)

\* After an erasure nothing about the memory is left, and no transaction
\* staged before it brings anything back: a late merge, a quarantine key, an
\* embedding job.
ErasedStaysBare == ErasedAreBare(db)

\* A tombstone is final: no pass, merge, deadline or second erasure that was
\* prepared before it changes it again.
ErasedIsFinal ==
    [][\A i \in Ids : db.row[i].status = "erased" => db'.row[i] = db.row[i]]_vars

\* A capture that commits leaves its content in a live row, and a job for the
\* model that is active at the commit, not for one observed earlier.
CaptureOwesEmbedding ==
    [][\A i \in db'.outbox \ db.outbox :
          \E j \in Ids :
             /\ IsLive(db', j)
             /\ db'.row[j].fingerprint = Fingerprint(i)
             /\ db'.model # 0 => <<j, db'.model>> \in db'.job]_vars

\* A memory whose deadline has come does not stay active: the passes get to
\* it although each takes one batch and may be fenced out.
DueIsSwept ==
    \A i \in Ids :
        LET due == /\ db.row[i].status = "active"
                   /\ db.row[i].valid_until # None
                   /\ db.row[i].valid_until <= clock
        IN due ~> ~due

-----------------------------------------------------------------------------
(* What erasure promises.                                                  *)

ErasedRows == {i \in Ids : db.row[i].status = "erased"}
Quarantined == {i \in db.outbox : VerdictOf[i] = "quarantine"}

\* One entry for everything that the operations count: as many as their sum.
Tally(count) == UNION {{o} \X (1..count[o]) : o \in Operations}
MemoriesCounted == Tally([o \in Operations |-> journal[o].memories])
KeysCounted == Tally([o \in Operations |-> journal[o].keys])

\* Every tombstone and every destroyed key is in the journal of exactly one
\* operation, however the runs overlap, crash and resume.
EveryDestructionAccounted ==
    /\ Cardinality(MemoriesCounted) = Cardinality(ErasedRows)
    /\ Cardinality(KeysCounted) + Cardinality(db.key)
         = Cardinality(refused) + Cardinality(Quarantined)

\* What the chain says about an erasure is true and complete: the memory it
\* names is a tombstone, and the totals are the operation's final totals.
ReportsAreTrue ==
    \A d \in ledger :
        /\ d.totals = journal[d.op]
        /\ d.op \in Ids => d.op \in ErasedRows

\* Whatever was destroyed is reported, or a durable receipt still owes the
\* report: a crash between the two stores loses no Decision.
OwedOrReported ==
    \A o \in Operations :
        journal[o] # NoTotals /\ ~Resident(o)
            => \E t \in Targets : receipt[t].op = o /\ ~receipt[t].delivered

\* Every completed erasure is reported in the end.
DecisionDelivered ==
    \A t \in Targets : receipt[t].ready ~> receipt[t].delivered

\* What a started scope erasure finds is erased in the end, although runs
\* crash, overlap and abort one another.
ScopeDrains ==
    \A i \in Ids :
        receipt[WholeScope].op # None /\ ~receipt[WholeScope].ready /\ IsLive(db, i)
            ~> ~IsLive(db, i)

-----------------------------------------------------------------------------
(* What the documentation says and the code does not do.                   *)

\* A memory expires only when its deadline has passed: lifecycle.rs says of
\* set_valid_until that None is how a memory "stops being swept".
ExpiresOnlyDue ==
    [][\A i \in Ids :
          db.row[i].status = "active" /\ db'.row[i].status = "expired"
              => /\ db.row[i].valid_until # None
                 /\ db.row[i].valid_until <= clock]_vars

=============================================================================
