---------------------------- MODULE EmbedWorker ----------------------------
(***************************************************************************)
(* The embedding pipeline of one scope: the model registry and its         *)
(* activations, the durable queue, the worker of every node, re-embedding  *)
(* passes and the removal of a revision's vectors, against captures and    *)
(* erasures of the memories that are being embedded.                       *)
(*                                                                         *)
(* Every step is one read or one transaction.  A worker holds what it read *)
(* across a provider call; its commit repeats the conditions inside the    *)
(* transaction.  Leases only serialise: they lapse, so nothing below       *)
(* assumes that a drain or a pass runs alone.                              *)
(*                                                                         *)
(* The queue is rahi's: a claim counts one attempt and is named by it, so  *)
(* a claim that was swept and taken again no longer fits its row.          *)
(***************************************************************************)
EXTENDS MemoryStore

CONSTANTS
    Nodes,          \* processes with a worker service and operator routes
    Identities,     \* the model identities a node may be configured to serve
    Booted,         \* the nodes whose provider the service boots (not remote)
    QuarantinedIds, \* the candidates the gate quarantines
    Rank,           \* the order of memory ids
    MaxRevision,    \* bound on activations
    MaxAttempts,    \* retry.max_attempts
    BatchSize,      \* claims of one drain
    ReembedLimit,   \* memories of one re-embedding batch
    Deactivates,    \* whether an operator clears the active flag by hand
    MaxFaults       \* bound on crashes, overdue claims and deactivations

Revisions == 1..MaxRevision
Jobs == Ids \X Revisions

ASSUME BootedAreNodes == Booted \subseteq Nodes
ASSUME NoneIsNoIdentity == None \notin Identities
ASSUME RankOrders ==
    /\ Rank \in [Ids -> Nat \ {0}]
    /\ \A i, j \in Ids : Rank[i] = Rank[j] => i = j
ASSUME BoundsAreNumbers ==
    /\ MaxRevision \in Nat \ {0} /\ MaxAttempts \in Nat \ {0}
    /\ BatchSize \in Nat \ {0} /\ ReembedLimit \in Nat \ {0}

VARIABLES
    registry,     \* embedding_model: the identity of each revision
    work,         \* rahi_processing with its attempts, by job
    vectors,      \* the jobs whose chunk and embedding rows are stored
    target,       \* the model each capture under way observed
    worker,       \* the worker service of each node
    activation,   \* activate_provider on each node
    pass,         \* the operator's re-embedding pass
    faults,
    config        \* the model identity each node is configured to serve

embedVars == <<registry, work, vectors, target, worker, activation, pass, faults, config>>
vars == <<storeVars, embedVars>>

-----------------------------------------------------------------------------
(* State.                                                                  *)

WorkState == {"none", "pending", "claimed", "failed", "dead", "done"}
ErrorClass == {"none", "item", "claim_expired", "quarantined", "model_deactivated"}

\* `admin` counts the attempts whose class is model_deactivated or
\* quarantined; `overdue` says that the claim's hold time has passed.
WorkRow == [state : WorkState, attempt : Nat, admin : Nat, class : ErrorClass,
            overdue : BOOLEAN]
NoWork == [state |-> "none", attempt |-> 0, admin |-> 0, class |-> "none",
           overdue |-> FALSE]
NewWork == [NoWork EXCEPT !.state = "pending"]

WorkerState == {"unbound", "bound", "swept", "claiming", "claimed", "reading",
                "renewing", "embedding", "committing", "reconciling",
                "rechecking", "emptying", "deferring", "quarantining", "failing"}

\* `left` is what remains of the drain's batch; a claim is a job and the
\* attempt it was taken with.
Worker == [pc : WorkerState, rev : 0..MaxRevision, left : 0..BatchSize,
           job : Jobs \cup {None}, attempt : Nat]
Unbound == [pc |-> "unbound", rev |-> 0, left |-> 0, job |-> None, attempt |-> 0]

Activation == [pc : {"idle", "read", "committing"}, rev : Nat]
IdleActivation == [pc |-> "idle", rev |-> 0]

\* `rev` is the revision of the batch under way, `whole` the revision every
\* batch so far was staged for (0 when they differ).
Pass == [pc : {"idle", "bound", "selected", "finished"}, rev : 0..MaxRevision,
         whole : 0..MaxRevision, cursor : Nat, batch : SUBSET Ids, more : BOOLEAN]
IdlePass == [pc |-> "idle", rev |-> 0, whole |-> 0, cursor |-> 0, batch |-> {},
             more |-> FALSE]

Init ==
    /\ StoreInit
    /\ registry = [r \in Revisions |-> None]
    /\ work = [j \in Jobs |-> NoWork]
    /\ vectors = {}
    /\ target = [i \in Ids |-> None]
    /\ worker = [n \in Nodes |-> Unbound]
    /\ activation = [n \in Nodes |-> IdleActivation]
    /\ pass = IdlePass
    /\ faults = 0
    /\ config \in [Nodes -> Identities]

\* Neither erased nor quarantined: what coverage, passes and workers count.
Eligible(i) == db.row[i].status \notin {"absent", "erased", "quarantined"}

Latest(reg) == LET used == {r \in Revisions : reg[r] # None}
               IN IF used = {} THEN 0 ELSE CHOOSE r \in used : \A s \in used : s <= r

\* Work::stage_work is ON CONFLICT DO NOTHING.
StageWork(w, staged) ==
    [j \in Jobs |-> IF j \in staged /\ w[j].state = "none" THEN NewWork ELSE w[j]]

-----------------------------------------------------------------------------
(* Captures and erasures of the scope.                                     *)

\* EmbeddingTarget::observe.
Observe(i) ==
    /\ ~Present(db, i) /\ target[i] = None
    /\ target' = [target EXCEPT ![i] = db.model]
    /\ UNCHANGED <<storeVars, registry, work, vectors, worker, activation, pass, faults, config>>

\* The capture commits with its job, or aborts because activation moved or
\* because a live row already has its content.
CaptureCommit(i) ==
    LET status == IF i \in QuarantinedIds THEN "quarantined" ELSE "active"
        model == target[i]
    IN
    /\ ~Present(db, i) /\ model # None
    /\ target' = [target EXCEPT ![i] = None]
    /\ IF EmbeddingGuard(db, model) /\ InsertGuard(db, i)
       THEN /\ db' = Insert(db, i, status, model, clock)
            /\ work' = IF model = 0 THEN work ELSE StageWork(work, {<<i, model>>})
       ELSE UNCHANGED <<db, work>>
    /\ UNCHANGED <<replica, clock, registry, vectors, worker, activation, pass, faults, config>>

\* Mutant: the erasure leaves the queue rows of the memory.
EraseKeepsQueue(i) ==
    /\ IsLive(db, i)
    /\ db' = Tombstones(DestroyKeys(Sweep(db, {i}), {i}), {i}, clock)
    /\ vectors' = {v \in vectors : v[1] # i}
    /\ UNCHANGED <<replica, clock, registry, work, target, worker, activation, pass, faults, config>>

\* The destructive transaction of an erasure: rows, jobs, attempts, chunks
\* and vectors of the memory go together.
EraseCommit(i) ==
    /\ IsLive(db, i)
    /\ db' = Tombstones(DestroyKeys(Sweep(db, {i}), {i}), {i}, clock)
    /\ work' = [j \in Jobs |-> IF j[1] = i THEN NoWork ELSE work[j]]
    /\ vectors' = {v \in vectors : v[1] # i}
    /\ UNCHANGED <<replica, clock, registry, target, worker, activation, pass, faults, config>>

\* Governed admission of a quarantined memory: the status and the requeue of
\* its dead job commit in one transaction (015 D-9; not in this repository).
Admitted(d, i) ==
    [d EXCEPT !.row[i] = [@ EXCEPT !.status = "active", !.record.status = "active"],
              !.counter = Adjust(Adjust(@, KindOf[i], "quarantined", -1),
                                 KindOf[i], "active", 1)]
Admit(i) ==
    /\ db.row[i].status = "quarantined"
    /\ db' = Admitted(db, i)
    /\ work' = [j \in Jobs |-> IF j[1] = i /\ work[j].state = "dead"
                               THEN [work[j] EXCEPT !.state = "pending"] ELSE work[j]]
    /\ UNCHANGED <<replica, clock, registry, vectors, target, worker, activation, pass, faults, config>>

-----------------------------------------------------------------------------
(* The registry.                                                           *)

\* ModelRegistry::activate: a NULL `active` aborts when a higher revision is
\* known or when the revision is known under another identity.
ActivateGuard(r, identity) ==
    /\ \A s \in Revisions : registry[s] # None => s <= r
    /\ registry[r] \in {None, identity}

RegistryUnchanged == UNCHANGED <<db, registry>>
ActivateRows(r, identity) ==
    /\ registry' = [registry EXCEPT ![r] = identity]
    /\ db' = [db EXCEPT !.model = r]

\* Mutant: the active model is read before the latest revision.
ActivateReadsSwapped(n) ==
    /\ \/ /\ activation[n].pc = "idle"
          /\ db.model # 0 => registry[db.model] # config[n]
          /\ activation' = [activation EXCEPT ![n] = [pc |-> "read", rev |-> 0]]
       \/ /\ activation[n].pc = "read"
          /\ Latest(registry) < MaxRevision
          /\ activation' = [activation EXCEPT ![n] =
                [pc |-> "committing", rev |-> Latest(registry) + 1]]
    /\ UNCHANGED <<storeVars, registry, work, vectors, target, worker, pass, faults, config>>

\* activate_provider reads the latest revision, then the active one; the same
\* identity is a no-op.
ActivateReads(n) ==
    /\ \/ /\ activation[n].pc = "idle"
          /\ Latest(registry) < MaxRevision
          /\ activation' = [activation EXCEPT ![n] =
                [pc |-> "read", rev |-> Latest(registry) + 1]]
       \/ /\ activation[n].pc = "read"
          /\ activation' = [activation EXCEPT ![n] =
                IF db.model # 0 /\ registry[db.model] = config[n]
                THEN IdleActivation ELSE [@ EXCEPT !.pc = "committing"]]
    /\ UNCHANGED <<storeVars, registry, work, vectors, target, worker, pass, faults, config>>

\* The activation commits, or is refused because another one came first.
ActivateCommit(n) ==
    LET r == activation[n].rev IN
    /\ activation[n].pc = "committing"
    /\ activation' = [activation EXCEPT ![n] = IdleActivation]
    /\ IF ActivateGuard(r, config[n]) THEN ActivateRows(r, config[n])
                                        ELSE RegistryUnchanged
    /\ UNCHANGED <<replica, clock, work, vectors, target, worker, pass, faults, config>>

\* An operator clears `active`; the latest revision may be activated again.
Deactivate ==
    /\ Deactivates /\ db.model # 0 /\ faults < MaxFaults
    /\ faults' = faults + 1
    /\ db' = [db EXCEPT !.model = 0]
    /\ UNCHANGED <<replica, clock, registry, work, vectors, target, worker, activation, pass, config>>

Reactivate ==
    LET r == Latest(registry) IN
    /\ db.model = 0 /\ r # 0
    /\ ActivateGuard(r, registry[r]) /\ ActivateRows(r, registry[r])
    /\ UNCHANGED <<replica, clock, work, vectors, target, worker, activation, pass, faults, config>>

-----------------------------------------------------------------------------
(* The durable queue.                                                      *)

\* The claim still is the one its row names.
Fits(w) == /\ work[w.job].state = "claimed"
           /\ work[w.job].attempt = w.attempt

\* provider_retry_policy: administrative attempts do not spend the budget.
EffectiveMax(row) == MaxAttempts + row.admin

Failed(row, class, max) ==
    [row EXCEPT !.state = IF row.attempt >= max THEN "dead" ELSE "failed",
                !.class = class, !.overdue = FALSE,
                !.admin = IF class \in {"quarantined", "model_deactivated"}
                          THEN @ + 1 ELSE @]

\* Work::fail with the attempt itself as the ceiling, then Work::requeue.
Requeued(row) == [Failed(row, "model_deactivated", row.attempt) EXCEPT !.state = "pending"]

Held(j) == \E n \in Nodes : worker[n].job = j /\ worker[n].attempt = work[j].attempt

\* The hold time of a claim passes: always in the end when its holder is
\* gone, and exceptionally while its holder is still at work.
Overdue(j) ==
    /\ work[j].state = "claimed" /\ ~work[j].overdue
    /\ Held(j) => faults < MaxFaults
    /\ faults' = IF Held(j) THEN faults + 1 ELSE faults
    /\ work' = [work EXCEPT ![j].overdue = TRUE]
    /\ UNCHANGED <<storeVars, registry, vectors, target, worker, activation, pass, config>>

-----------------------------------------------------------------------------
(* The worker of a node.                                                   *)

Goto(n, pc) == worker' = [worker EXCEPT ![n].pc = pc]

\* The next round of the drain's loop, or the end of the drain.
Continue(n) ==
    worker' = [worker EXCEPT ![n] = [Unbound EXCEPT
        !.rev = worker[n].rev, !.left = worker[n].left,
        !.pc = IF worker[n].left > 0 THEN "claiming" ELSE "bound"]]
EndDrain(n) ==
    worker' = [worker EXCEPT ![n] = [Unbound EXCEPT !.rev = worker[n].rev, !.pc = "bound"]]

elsewhere == <<storeVars, registry, vectors, target, activation, pass, faults, config>>

\* work() binds to the active revision when the configuration serves it.
Bind(n) ==
    /\ worker[n].pc = "unbound" /\ n \in Booted
    /\ db.model # 0 /\ registry[db.model] = config[n]
    /\ worker' = [worker EXCEPT ![n] = [Unbound EXCEPT !.pc = "bound", !.rev = db.model]]
    /\ UNCHANGED <<elsewhere, work>>

\* model_changed: the run stops, and a drain that does not finish within the
\* grace period is dropped where it is.
ModelChanged(n) ==
    /\ worker[n].pc # "unbound" /\ db.model # worker[n].rev
    /\ worker' = [worker EXCEPT ![n] = Unbound]
    /\ UNCHANGED <<elsewhere, work>>

\* The process stops anywhere, and starts again with the configuration it
\* finds then; what it claimed stays claimed.
Crash(n) ==
    /\ worker[n].pc # "unbound" \/ activation[n].pc # "idle"
    /\ faults < MaxFaults
    /\ faults' = faults + 1
    /\ worker' = [worker EXCEPT ![n] = Unbound]
    /\ activation' = [activation EXCEPT ![n] = IdleActivation]
    /\ \E c \in Identities : config' = [config EXCEPT ![n] = c]
    /\ UNCHANGED <<storeVars, registry, work, vectors, target, pass>>

\* Mutant: the sweep applies the provider's ceiling.
SweepWithCeiling(n) ==
    /\ worker[n].pc = "bound"
    /\ work' = [j \in Jobs |-> IF work[j].state = "claimed" /\ work[j].overdue
                               THEN Failed(work[j], "claim_expired", MaxAttempts) ELSE work[j]]
    /\ Goto(n, "swept")
    /\ UNCHANGED elsewhere

\* Mutant: the drain does not sweep.
SweepNothing(n) ==
    /\ worker[n].pc = "bound"
    /\ Goto(n, "swept")
    /\ UNCHANGED <<elsewhere, work>>

\* drain: Work::sweep closes the overdue claims of every revision, with no
\* ceiling.
DrainSweep(n) ==
    /\ worker[n].pc = "bound"
    /\ work' = [j \in Jobs |-> IF work[j].state = "claimed" /\ work[j].overdue
                               THEN [work[j] EXCEPT !.state = "failed", !.overdue = FALSE]
                               ELSE work[j]]
    /\ Goto(n, "swept")
    /\ UNCHANGED elsewhere

\* With no model active, or its revision under another identity, the drain
\* claims nothing.
DrainCheck(n) ==
    /\ worker[n].pc = "swept"
    /\ worker' = [worker EXCEPT ![n] =
          IF db.model = 0 THEN [@ EXCEPT !.pc = "bound"]
                          ELSE [@ EXCEPT !.pc = "claiming", !.left = BatchSize]]
    /\ UNCHANGED <<elsewhere, work>>

Claimable(n) == {j \in Jobs : /\ j[2] = worker[n].rev
                              /\ work[j].state \in {"pending", "failed"}}

\* Work::next in the partition of the worker's revision.
Claim(n) ==
    /\ worker[n].pc = "claiming"
    /\ \/ /\ Claimable(n) = {}
          /\ EndDrain(n)
          /\ UNCHANGED work
       \/ \E j \in Claimable(n) :
             /\ work' = [work EXCEPT ![j].state = "claimed", ![j].attempt = @ + 1]
             /\ worker' = [worker EXCEPT ![n] = [@ EXCEPT !.pc = "claimed",
                    !.left = worker[n].left - 1, !.job = j, !.attempt = work[j].attempt + 1]]
    /\ UNCHANGED elsewhere

OverBudget(w) == w.attempt > EffectiveMax(work[w.job])

\* record_expired_budget: attempts that ended by expiry spent the budget.
SpendBudget(n) ==
    LET w == worker[n] IN
    /\ w.pc = "claimed" /\ OverBudget(w)
    /\ IF Fits(w)
       THEN /\ work' = [work EXCEPT ![w.job] = Failed(@, "claim_expired", w.attempt)]
            /\ EndDrain(n)
       ELSE UNCHANGED work /\ Continue(n)
    /\ UNCHANGED elsewhere

\* process: the active model first.
ReadActive(n) ==
    LET w == worker[n] IN
    /\ w.pc = "claimed" /\ ~OverBudget(w)
    /\ Goto(n, CASE db.model = w.rev -> "reading"
                 [] db.model = 0     -> "deferring"
                 [] OTHER            -> "emptying")
    /\ UNCHANGED <<elsewhere, work>>

\* What a worker does about the memory's status; chunking may fail on a text
\* that is empty or too long.
ByStatus(i) ==
    CASE db.row[i].status \in {"absent", "erased"} -> {"emptying"}
      [] db.row[i].status = "quarantined"          -> {"quarantining"}
      [] OTHER                                     -> {"renewing", "failing"}

ReadMemory(n) ==
    /\ worker[n].pc = "reading"
    /\ \E pc \in ByStatus(worker[n].job[1]) : Goto(n, pc)
    /\ UNCHANGED <<elsewhere, work>>

\* Work::renew.  A claim that was lost is a Conflict, which skips the item.
Renew(n) ==
    LET w == worker[n] IN
    /\ w.pc = "renewing"
    /\ IF Fits(w) THEN /\ work' = [work EXCEPT ![w.job].overdue = FALSE]
                       /\ Goto(n, "embedding")
                  ELSE UNCHANGED work /\ Continue(n)
    /\ UNCHANGED elsewhere

\* The provider answers, or fails, or exceeds its deadline.
Embed(n) ==
    /\ worker[n].pc = "embedding"
    /\ \/ Goto(n, "committing")
       \/ Goto(n, "failing")
    /\ UNCHANGED <<elsewhere, work>>

\* stage_derivative_commit_guards, and the fence of Work::complete.
CommitGuard(w) == Eligible(w.job[1]) /\ db.model = w.rev /\ Fits(w)

Completed(row) == [row EXCEPT !.state = "done", !.overdue = FALSE]

\* The chunks, the vectors and the completion commit together.
Commit(n) ==
    LET w == worker[n] IN
    /\ w.pc = "committing"
    /\ IF CommitGuard(w)
       THEN /\ vectors' = vectors \cup {w.job}
            /\ work' = [work EXCEPT ![w.job] = Completed(@)]
            /\ Continue(n)
       ELSE UNCHANGED <<vectors, work>> /\ Goto(n, "reconciling")
    /\ UNCHANGED <<storeVars, registry, target, activation, pass, faults, config>>

\* reconcile_commit_failure reads the memory, then the model.
Reconcile(n) ==
    LET status == db.row[worker[n].job[1]].status IN
    /\ worker[n].pc = "reconciling"
    /\ Goto(n, CASE status = "quarantined"          -> "quarantining"
                 [] status \in {"absent", "erased"} -> "emptying"
                 [] OTHER                           -> "rechecking")
    /\ UNCHANGED <<elsewhere, work>>

Recheck(n) ==
    /\ worker[n].pc = "rechecking"
    /\ Goto(n, CASE db.model = 0              -> "deferring"
                 [] db.model = worker[n].rev  -> "failing"
                 [] OTHER                     -> "emptying")
    /\ UNCHANGED <<elsewhere, work>>

\* complete_empty.
CompleteEmpty(n) ==
    LET w == worker[n] IN
    /\ w.pc = "emptying"
    /\ work' = IF Fits(w) THEN [work EXCEPT ![w.job] = Completed(@)] ELSE work
    /\ Continue(n)
    /\ UNCHANGED elsewhere

\* Mutant: a deactivated model completes the job.
DeferCompletes(n) ==
    LET w == worker[n] IN
    /\ w.pc = "deferring"
    /\ work' = IF Fits(w) THEN [work EXCEPT ![w.job] = Completed(@)] ELSE work
    /\ IF Fits(w) THEN EndDrain(n) ELSE Continue(n)
    /\ UNCHANGED elsewhere

\* defer_inactive_model: the attempt fails and is requeued at once.
Defer(n) ==
    LET w == worker[n] IN
    /\ w.pc = "deferring"
    /\ work' = IF Fits(w) THEN [work EXCEPT ![w.job] = Requeued(@)] ELSE work
    /\ IF Fits(w) THEN EndDrain(n) ELSE Continue(n)
    /\ UNCHANGED elsewhere

\* record_quarantine: straight to the dead letter, for a later admission.
Quarantine(n) ==
    LET w == worker[n] IN
    /\ w.pc = "quarantining"
    /\ work' = IF Fits(w) THEN [work EXCEPT ![w.job] = Failed(@, "quarantined", w.attempt)]
                          ELSE work
    /\ Continue(n)
    /\ UNCHANGED elsewhere

\* Mutant: the failure is recorded whoever holds the claim now.
FailUnfenced(n) ==
    LET w == worker[n] IN
    /\ w.pc = "failing"
    /\ work' = [work EXCEPT ![w.job] = Failed(@, "item", EffectiveMax(@))]
    /\ EndDrain(n)
    /\ UNCHANGED elsewhere

\* record_failure: retry with backoff, or the dead letter at the ceiling.
RecordFailure(n) ==
    LET w == worker[n] IN
    /\ w.pc = "failing"
    /\ work' = IF Fits(w) THEN [work EXCEPT ![w.job] = Failed(@, "item", EffectiveMax(@))]
                          ELSE work
    /\ IF Fits(w) THEN EndDrain(n) ELSE Continue(n)
    /\ UNCHANGED elsewhere

-----------------------------------------------------------------------------
(* Operator verbs.                                                         *)

Missing(r, after) ==
    {i \in Ids : Eligible(i) /\ Rank[i] > after /\ <<i, r>> \notin vectors}

\* The first `n` of a set of memories in id order.
FirstOf(S, n) == {i \in S : Cardinality({k \in S : Rank[k] < Rank[i]}) < n}

\* reembed_scope reads the active model; a finished pass starts over.
PassBind ==
    /\ pass.pc \in {"idle", "finished"} /\ db.model # 0
    /\ pass' = [(IF pass.pc = "finished" THEN IdlePass ELSE pass) EXCEPT
                   !.pc = "bound", !.rev = db.model]
    /\ UNCHANGED <<storeVars, registry, work, vectors, target, worker, activation, faults, config>>

\* Mutant: one row is fetched, and `more` is never seen.
PassSelectNoLookahead ==
    LET missing == Missing(pass.rev, pass.cursor) IN
    /\ pass.pc = "bound"
    /\ pass' = [pass EXCEPT !.pc = "selected", !.batch = FirstOf(missing, ReembedLimit),
                            !.more = FALSE]
    /\ UNCHANGED <<storeVars, registry, work, vectors, target, worker, activation, faults, config>>

\* reembed_under_lease: limit + 1 rows after the cursor tell whether there
\* are more.
PassSelect ==
    LET missing == Missing(pass.rev, pass.cursor) IN
    /\ pass.pc = "bound"
    /\ pass' = [pass EXCEPT !.pc = "selected", !.batch = FirstOf(missing, ReembedLimit),
                            !.more = Cardinality(missing) > ReembedLimit]
    /\ UNCHANGED <<storeVars, registry, work, vectors, target, worker, activation, faults, config>>

\* stage_live_embedding, for every memory of the batch or for none.
PassGuard == \A i \in pass.batch : Eligible(i) /\ db.model = pass.rev

LastRank == LET S == {Rank[i] : i \in pass.batch}
            IN IF S = {} THEN pass.cursor ELSE CHOOSE m \in S : \A k \in S : k <= m

PassStage ==
    /\ pass.pc = "selected"
    /\ IF PassGuard
       THEN LET staged == {<<i, pass.rev>> : i \in pass.batch} IN
            /\ work' = StageWork(work, staged)
            /\ db' = [db EXCEPT !.job = @ \cup staged]
            /\ pass' = [pass EXCEPT
                  !.pc = IF pass.more THEN "idle" ELSE "finished",
                  !.whole = IF pass.cursor = 0 \/ pass.whole = pass.rev
                            THEN pass.rev ELSE 0,
                  !.cursor = LastRank, !.batch = {}, !.more = FALSE]
       ELSE /\ pass' = [pass EXCEPT !.pc = "idle", !.batch = {}, !.more = FALSE]
            /\ UNCHANGED <<work, db>>
    /\ UNCHANGED <<replica, clock, registry, vectors, target, worker, activation, faults, config>>

\* Mutant: the coverage read before the transaction is trusted.
DropUncovered == TRUE

\* stage_complete_embedding_coverage_guard, for the revision active now.
DropGuard == \A i \in Ids : Eligible(i) => <<i, db.model>> \in vectors

\* drop_revision.  What it reads before its transaction only refuses, and may
\* be as old as it likes; the transaction repeats the conditions, and deletes
\* under a known revision that is inactive then.
DropRevision(r) ==
    /\ registry[r] # None
    /\ vectors' = IF DropGuard /\ db.model # r THEN {v \in vectors : v[2] # r} ELSE vectors
    /\ UNCHANGED <<storeVars, registry, work, target, worker, activation, pass, faults, config>>

-----------------------------------------------------------------------------
(* The specification.                                                      *)

\* What a worker that is bound and alive goes on doing.
WorkerStep(n) ==
    \/ Bind(n) \/ DrainSweep(n) \/ DrainCheck(n) \/ Claim(n) \/ SpendBudget(n)
    \/ ReadActive(n) \/ ReadMemory(n) \/ Renew(n) \/ Embed(n) \/ Commit(n)
    \/ Reconcile(n) \/ Recheck(n) \/ CompleteEmpty(n) \/ Defer(n)
    \/ Quarantine(n) \/ RecordFailure(n)

OperatorStep ==
    \/ PassBind \/ PassSelect \/ PassStage
    \/ \E r \in Revisions : DropRevision(r)
    \/ Deactivate
    \/ Reactivate

Next ==
    \/ \E i \in Ids : Observe(i) \/ CaptureCommit(i) \/ EraseCommit(i) \/ Admit(i)
    \/ \E n \in Nodes : \/ WorkerStep(n) \/ ModelChanged(n) \/ Crash(n)
                        \/ ActivateReads(n) \/ ActivateCommit(n)
    \/ \E j \in Jobs : Overdue(j)
    \/ OperatorStep

Spec == Init /\ [][Next]_vars

\* A service never returns before shutdown: its worker keeps draining, the
\* poll notices a changed model, and time passes.
FairSpec ==
    /\ Spec
    /\ \A n \in Nodes : WF_vars(WorkerStep(n)) /\ WF_vars(ModelChanged(n))
    /\ \A j \in Jobs : WF_vars(Overdue(j) /\ ~Held(j))

-----------------------------------------------------------------------------
(* Properties.                                                             *)

\* Type correctness.  The processing rows are exactly the jobs that the
\* transactions of captures, passes and erasures leave in the scope.
TypeOK ==
    /\ db \in Database
    /\ registry \in [Revisions -> Identities \cup {None}]
    /\ work \in [Jobs -> WorkRow]
    /\ \A j \in Jobs : work[j].state # "none" <=> j \in db.job
    /\ vectors \subseteq Jobs
    /\ target \in [Ids -> 0..MaxRevision \cup {None}]
    /\ worker \in [Nodes -> Worker]
    /\ activation \in [Nodes -> Activation]
    /\ pass \in Pass
    /\ faults \in Nat
    /\ config \in [Nodes -> Identities]

\* A done job of the active revision has its vectors: a deactivation, a lost
\* claim or an aborted commit never closes the job of a memory that still
\* waits to be embedded.
DoneMeansEmbedded ==
    \A j \in Jobs :
        work[j].state = "done" /\ j[2] = db.model /\ Eligible(j[1]) => j \in vectors

\* Only provider attempts spend the provider's retries: a job is given up on
\* after MaxAttempts of them, however many attempts ended by a deactivation or
\* in quarantine.
DeadOnlyAfterBudget ==
    \A j \in Jobs :
        work[j].state = "dead" /\ work[j].class # "quarantined"
            => work[j].attempt - work[j].admin >= MaxAttempts

\* A revision keeps its identity for ever, and a new one is only minted for
\* an identity other than the one active at that moment: nodes that race to
\* activate the same model converge on one number.  (No route deactivates; a
\* flag cleared and restored by hand during an activation may mint one more.)
NoSpuriousRevision ==
    [][\A r \in Revisions : registry'[r] # registry[r]
          => /\ registry[r] = None
             /\ db.model # 0 => registry[db.model] # registry'[r]]_vars

\* After a finished pass over the active revision no memory is forgotten:
\* each has its vectors or a job, also the ones captured behind the cursor.
\* (A memory that is admitted from quarantine after the pass keeps the job it
\* was captured with, whatever revision that is for.)
PassCoversScope ==
    pass.pc = "finished" /\ pass.whole = db.model /\ db.model # 0
        => \A i \in Ids \ QuarantinedIds :
              Eligible(i) => <<i, db.model>> \in vectors \cup db.job

\* What the queue rows look like from outside: a job that is claimed, failed
\* or waiting is open.
EligibleIds == {i \in Ids : Eligible(i)}
JobState(row) == CASE row.state = "none" -> "none"
                   [] row.state = "done" -> "settled"
                   [] row.state = "dead" -> "dead"
                   [] OTHER -> "open"
JobStates == [j \in Jobs |-> JobState(work[j])]

Contract == INSTANCE EmbeddingContract WITH
    Memories <- Ids, eligible <- EligibleIds, active <- db.model,
    job <- JobStates, embedded <- vectors

\* The pipeline implements its contract: seen from outside, retries, lost
\* claims, crashes, racing activations and reads made before a provider call
\* never store a vector, settle or reopen a job, or drop vectors otherwise
\* than EmbeddingContract allows.
ImplementsContract == Contract!ContractSpec

Unsettled(j) == work[j].state \in {"pending", "claimed", "failed"}

\* The job of the active model is settled in the end, by vectors or in the
\* dead letter, when some node serves that model.
ActiveWorkSettles ==
    \A i \in Ids :
        LET owed == /\ db.model # 0
                    /\ registry[db.model] \in {config[n] : n \in Booted}
                    /\ Unsettled(<<i, db.model>>)
        IN owed ~> ~owed

=============================================================================
