------------------------------- MODULE Claims -------------------------------
(***************************************************************************)
(* Claims of one scope and subject, from proposal to tombstone: writers    *)
(* who read a context, ask the claim gate and append; policies and         *)
(* predicate documents registered meanwhile; retractions; erasures of the  *)
(* memories they cite, of a claim and of the scope; and the history pages  *)
(* readers get.  The cited memories come through the write gate.           *)
(*                                                                         *)
(* No host in the repository runs this loop: its order is that of the      *)
(* store's tests and of the external-host fixture, one claim per batch.    *)
(***************************************************************************)
EXTENDS WriteGate, ClaimGate

CONSTANTS
    ClaimIds,
    ProposalsOf,    \* the proposals that may be made under each claim id
    PolicyOffers,   \* the policy documents operators offer
    PageLimit,      \* rows of a history page
    MaxWriters,     \* bound on the claims being written at once
    MaxRetractions

\* ClaimProposal: what is proposed under an id is a claim of that id.
ASSUME ProposalsAreTheirs ==
    \A c \in ClaimIds : \A pr \in ProposalsOf[c] :
        /\ DOMAIN pr = {"claim", "proposer", "evidence", "relations"}
        /\ pr.claim.id = c

\* AdmissionPolicy: ceilings and qualifications are authority levels.
ASSUME OffersAreLevels ==
    \A p \in PolicyOffers :
        /\ \A k \in DOMAIN p.ceilings : p.ceilings[k] \in Inferred..UserCorrected
        /\ \A q \in p.qualified : q.least \in Inferred..UserCorrected

VARIABLES
    claims,       \* claim_history
    relations,    \* claim_relation: [from, kind, to, seq, document]
    retractions,  \* claim_retraction: [target, seq]
    sources,      \* claim_source: <<claim, memory>>
    admissions,   \* claim_admission
    proposals,    \* claim_proposal: the claim ids with a stored proposal
    counter,      \* claim_tx_counter
    policies,     \* the registered policies
    writer,       \* the writer of each claim id
    reviewed      \* the claim ids whose held proposal a reviewer approved

claimVars == <<claims, relations, retractions, sources, admissions, proposals, counter>>
writerVars == <<policies, writer, reviewed>>
vars == <<gateVars, registryVars, claimVars, writerVars>>

NoClaim == [state |-> "absent", seq |-> 0, authority |-> 0, sourcing |-> "none",
            content |-> None, originErased |-> FALSE]

NoAdmission == [authority |-> 0, sourcing |-> "none", policy |-> 0, evidence |-> {},
                relations |-> {}, conflicts |-> {}, reviewed |-> FALSE]

\* What a writer holds between its reads and its commit: the gate's verdict,
\* the admission it would record, and the slots of the history it read.
IdleWriter == [pc |-> "idle", proposal |-> None, verdict |-> Pass, row |-> None,
               existing |-> <<>>]

Init ==
    /\ WriteGateInit
    /\ RegistryInit
    /\ claims = [c \in ClaimIds |-> NoClaim]
    /\ relations = {} /\ retractions = {} /\ sources = {}
    /\ admissions = [c \in ClaimIds |-> NoAdmission]
    /\ proposals = {}
    /\ counter = 0
    /\ policies = {InitialPolicy}
    /\ writer = [c \in ClaimIds |-> IdleWriter]
    /\ reviewed = {}

-----------------------------------------------------------------------------
(* History pages.                                                          *)

LiveClaims == {c \in ClaimIds : claims[c].state = "live"}

\* SlotId::of; scope and subject are the same for all.
SlotOf(claim) == <<claim.predicate, claim.version, claim.slot>>

\* The rows of the page after a cursor, up to a sequence bound.  Tombstones
\* have lost their subject key and are not selected.
PageRows(after, bound, limit) ==
    LET rows == {c \in LiveClaims : claims[c].seq > after /\ claims[c].seq <= bound}
    IN  {c \in rows : Cardinality({d \in rows : claims[d].seq < claims[c].seq}) < limit}

\* ClaimRepo::history: relations with an end outside the page are skipped;
\* the append of a cross-slot supersession, or of a retraction whose target is
\* not on the page, fails the read.
PageReads(rows) ==
    \/ rows = {}
    \/ /\ \A r \in relations :
            r.document /\ r.kind = "supersedes" /\ {r.from, r.to} \subseteq rows
                => SlotOf(claims[r.from].content) = SlotOf(claims[r.to].content)
       /\ \A x \in retractions : x.target \in LiveClaims => x.target \in rows

-----------------------------------------------------------------------------
(* Policies and reviews.                                                   *)

\* stage_policy: the primary key is the version.
RegisterPolicy(p) ==
    /\ LegalPolicy(p)
    /\ \A q \in policies : q.version # p.version
    /\ policies' = policies \cup {p}
    /\ UNCHANGED <<gateVars, registryVars, claimVars, writer, reviewed>>

-----------------------------------------------------------------------------
(* Writers.                                                                *)

\* A review adds its approval to the evidence of the proposal.
Proposed(c, pr) ==
    IF c \in reviewed
    THEN [pr EXCEPT !.evidence = @ \cup {[kind |-> "review_approval"]}] ELSE pr

\* What the caller reads for the gate: the states of the cited sources and
\* ClaimAdmissionRepo::targets.
Context(pr) ==
    [sources |-> {m \in Memories : memory[m].state = "available"},
     targets |-> [d \in {r.to : r \in pr.relations}
                        \cap {d \in ClaimIds : admissions[d] # NoAdmission} |->
                    [owner |-> pr.claim.owner, authority |-> admissions[d].authority,
                     sourcing |-> admissions[d].sourcing]]]

\* AdmittedClaim, as claim_admission stores it.
AdmissionRow(pr, p, ctx) ==
    [authority |-> Authority(pr, p), sourcing |-> SourcingOf(pr), policy |-> p.version,
     evidence |-> pr.evidence, relations |-> pr.relations, conflicts |-> ConflictsOf(pr, ctx),
     reviewed |-> \E e \in pr.evidence : e.kind = "review_approval"]

\* The caller reads the registry, a policy and the context, and asks the gate.
Judge(c, offered, p) ==
    LET pr == Proposed(c, offered)
        ctx == Context(pr)
        verdict == EvaluateClaim(pr, documents, p, ctx)
    IN
    /\ writer[c].pc = "idle" /\ claims[c].state = "absent"
    /\ Cardinality({d \in ClaimIds : writer[d].pc # "idle"}) < MaxWriters
    /\ Readable(documents)
    /\ writer' = [writer EXCEPT ![c] = [IdleWriter EXCEPT
          !.pc = "judged", !.proposal = pr, !.verdict = verdict,
          !.row = IF verdict = Pass THEN AdmissionRow(pr, p, ctx) ELSE None]]
    /\ UNCHANGED <<gateVars, registryVars, claimVars, policies, reviewed>>

\* A refusal or a hold leaves a Decision; a reviewer may approve what is held.
Decline(c) ==
    /\ writer[c].pc = "judged" /\ writer[c].verdict # Pass
    /\ writer' = [writer EXCEPT ![c] = IdleWriter]
    /\ \/ UNCHANGED reviewed
       \/ writer[c].verdict.as = "hold" /\ reviewed' = reviewed \cup {c}
    /\ UNCHANGED <<gateVars, registryVars, claimVars, policies>>

\* The caller reads the subject's history, or gives up on an Integrity error.
ReadHistory(c) ==
    LET rows == PageRows(0, counter, PageLimit) IN
    /\ writer[c].pc = "judged" /\ writer[c].verdict = Pass
    /\ writer' = [writer EXCEPT ![c] =
          IF PageReads(rows)
          THEN [@ EXCEPT !.pc = "ready",
                         !.existing = [d \in rows |-> SlotOf(claims[d].content)]]
          ELSE IdleWriter]
    /\ UNCHANGED <<gateVars, registryVars, claimVars, policies, reviewed>>

\* Mutant: the slot of the superseded claim is not compared.
AnySlot(w) == TRUE

\* stage_append: a superseded claim is known from the page that was read and
\* is of the same slot.
WithinSlot(w) ==
    \A r \in w.proposal.relations :
        r.kind = "supersedes" =>
            /\ r.to \in DOMAIN w.existing
            /\ w.existing[r.to] = SlotOf(w.proposal.claim)

\* Mutant: the sequence is the number of live rows.
NextTxByCount == Cardinality(LiveClaims) + 1

\* NEXT_TX.
NextTx == counter + 1

\* The proposal, the claim, its sources, its relations and its admission
\* commit together, under one sequence number.
Append(c) ==
    LET w == writer[c]
        row == w.row
    IN
    /\ w.pc = "ready"
    /\ writer' = [writer EXCEPT ![c] = IdleWriter]
    /\ IF WithinSlot(w)
       THEN /\ counter' = NextTx
            /\ claims' = [claims EXCEPT ![c] =
                  [state |-> "live", seq |-> NextTx, authority |-> row.authority,
                   sourcing |-> row.sourcing, content |-> w.proposal.claim,
                   originErased |-> FALSE]]
            /\ sources' = sources \cup {<<c, m>> : m \in w.proposal.claim.derivedFrom}
            /\ relations' = relations \cup
                  {[from |-> c, kind |-> r.kind, to |-> r.to, seq |-> NextTx,
                    document |-> TRUE] : r \in w.proposal.relations}
            /\ admissions' = [admissions EXCEPT ![c] = row]
            /\ proposals' = proposals \cup {c}
       ELSE UNCHANGED <<counter, claims, sources, relations, admissions, proposals>>
    /\ UNCHANGED <<gateVars, registryVars, retractions, policies, reviewed>>

\* stage_retraction: a number of its own, and no look at the target.
Retract(c) ==
    /\ Cardinality(retractions) < MaxRetractions
    /\ counter' = NextTx
    /\ retractions' = retractions \cup {[target |-> c, seq |-> NextTx]}
    /\ UNCHANGED <<gateVars, registryVars, claims, relations, sources, admissions, proposals, writerVars>>

-----------------------------------------------------------------------------
(* Erasure.                                                                *)

Bare(row) == [row EXCEPT !.state = "erased", !.content = None, !.originErased = TRUE]

Scrubbed(row) == [row EXCEPT !.evidence = {}, !.relations = {}]

\* Mutant: the relation documents of an erased claim stay.
EraseRowsKeepRelations(S) ==
    /\ claims' = [c \in ClaimIds |-> IF c \in S /\ claims[c].state = "live"
                                     THEN Bare(claims[c]) ELSE claims[c]]
    /\ admissions' = [c \in ClaimIds |-> IF c \in S /\ admissions[c] # NoAdmission
                                         THEN Scrubbed(admissions[c]) ELSE admissions[c]]
    /\ UNCHANGED relations

\* stage_erase, and the three statements of a cascading erasure: the rows of
\* the claims, their relation documents and their evidence.
EraseRows(S) ==
    /\ claims' = [c \in ClaimIds |-> IF c \in S /\ claims[c].state = "live"
                                     THEN Bare(claims[c]) ELSE claims[c]]
    /\ admissions' = [c \in ClaimIds |-> IF c \in S /\ admissions[c] # NoAdmission
                                         THEN Scrubbed(admissions[c]) ELSE admissions[c]]
    /\ relations' = {[r EXCEPT !.document = r.document /\ r.from \notin S] : r \in relations}

EraseClaim(c) ==
    /\ claims[c].state = "live"
    /\ EraseRows({c})
    /\ UNCHANGED <<gateVars, registryVars, retractions, sources, proposals, counter, writerVars>>

ErasedMemory == [NoMemory EXCEPT !.state = "erased"]

\* The claims that cite a memory are erased by a cascade and marked otherwise.
EraseMemory(m, cascade) ==
    LET citing == {c \in ClaimIds : <<c, m>> \in sources} IN
    /\ memory[m].state \in {"available", "quarantined"}
    /\ memory' = [memory EXCEPT ![m] = ErasedMemory]
    /\ IF cascade THEN EraseRows(citing)
       ELSE /\ claims' = [c \in ClaimIds |->
                   IF c \in citing /\ claims[c].state = "live"
                   THEN [claims[c] EXCEPT !.originErased = TRUE] ELSE claims[c]]
            /\ UNCHANGED <<admissions, relations>>
    /\ UNCHANGED <<rules, refused, overrides, registryVars, retractions, sources,
                   proposals, counter, writerVars>>

\* Mutant: the sequence counter goes with the scope.
EraseScopeResets(batch) ==
    /\ \A m \in batch : memory[m].state \in {"available", "quarantined"}
    /\ batch # {} \/ LiveClaims # {}
    /\ memory' = [m \in Memories |-> IF m \in batch THEN ErasedMemory ELSE memory[m]]
    /\ claims' = [c \in ClaimIds |-> IF claims[c].state = "live" THEN Bare(claims[c])
                                                                 ELSE claims[c]]
    /\ relations' = {} /\ retractions' = {} /\ sources' = {} /\ proposals' = {}
    /\ admissions' = [c \in ClaimIds |-> NoAdmission]
    /\ counter' = 0
    /\ UNCHANGED <<rules, refused, overrides, registryVars, writerVars>>

\* One batch of a scope erasure: some memories, and every claim row.  The
\* counter outlives the scope.
EraseScope(batch) ==
    /\ \A m \in batch : memory[m].state \in {"available", "quarantined"}
    /\ batch # {} \/ LiveClaims # {}
    /\ memory' = [m \in Memories |-> IF m \in batch THEN ErasedMemory ELSE memory[m]]
    /\ claims' = [c \in ClaimIds |-> IF claims[c].state = "live" THEN Bare(claims[c])
                                                                 ELSE claims[c]]
    /\ relations' = {} /\ retractions' = {} /\ sources' = {} /\ proposals' = {}
    /\ admissions' = [c \in ClaimIds |-> NoAdmission]
    /\ UNCHANGED <<rules, refused, overrides, registryVars, counter, writerVars>>

-----------------------------------------------------------------------------
(* The specification.                                                      *)

ClaimStep(c) ==
    \/ \E pr \in ProposalsOf[c], p \in policies : Judge(c, pr, p)
    \/ ReadHistory(c) \/ Decline(c) \/ Append(c) \/ Retract(c) \/ EraseClaim(c)

ErasureStep ==
    \/ \E m \in Memories : \E cascade \in BOOLEAN : EraseMemory(m, cascade)
    \/ \E batch \in SUBSET Memories : EraseScope(batch)

Next ==
    \/ WriteGateNext /\ UNCHANGED <<registryVars, claimVars, writerVars>>
    \/ RegistryNext /\ UNCHANGED <<gateVars, claimVars, writerVars>>
    \/ \E p \in PolicyOffers : RegisterPolicy(p)
    \/ \E c \in ClaimIds : ClaimStep(c)
    \/ ErasureStep

Spec == Init /\ [][Next]_vars

-----------------------------------------------------------------------------
(* Properties.                                                             *)

\* Type correctness, with the rows that commit together: a live claim has its
\* admission, at its authority and sourcing.
TypeOK ==
    /\ \A m \in Memories : memory[m].state \in MemoryState
    /\ counter \in Nat
    /\ \A c \in ClaimIds :
          /\ claims[c].state \in {"absent", "live", "erased"}
          /\ claims[c].seq \in 0..counter
          /\ claims[c].state = "live" =>
                /\ claims[c].content.id = c
                /\ admissions[c] # NoAdmission
                /\ admissions[c].authority = claims[c].authority
                /\ admissions[c].sourcing = claims[c].sourcing
    /\ \A r \in relations : r.from \in ClaimIds /\ r.to \in ClaimIds
    /\ sources \subseteq ClaimIds \X Memories
    /\ proposals \cup reviewed \subseteq ClaimIds

\* After an erased claim only its tombstone is left in the history tables: no
\* content, no relation document and no evidence, whatever was being written
\* or retracted beside the erasure.
ErasedClaimsAreBare ==
    \A c \in ClaimIds :
        claims[c].state = "erased" =>
            /\ claims[c].content = None /\ claims[c].originErased
            /\ \A r \in relations : r.from = c => ~r.document
            /\ admissions[c] # NoAdmission =>
                  admissions[c].evidence = {} /\ admissions[c].relations = {}

\* No claim is replaced by one of less authority unless a reviewer approved
\* it, and the user's own word never replaces a supplier's but stands beside
\* it: whoever proposes, with whatever evidence, under any legal policy.
UserWordStands ==
    \A r \in relations :
        r.kind = "supersedes" /\ admissions[r.to] # NoAdmission =>
            /\ \/ admissions[r.from].authority >= admissions[r.to].authority
               \/ admissions[r.from].reviewed
            /\ ~(admissions[r.from].sourcing = "user" /\ admissions[r.to].sourcing = "supplier")

\* A model's score never admits a claim by itself: a claim whose evidence is
\* nothing but scores was reviewed, under every policy that can be registered.
ScoresNeedReview ==
    \A c \in LiveClaims :
        (\A e \in admissions[c].evidence : e.kind \in {"model_score", "review_approval"})
            => admissions[c].reviewed

\* A page that holds the whole subject reads without an Integrity error:
\* stored supersessions stay within a slot and retractions find their target,
\* though both were staged from an older read.
WholeHistoryReads == PageReads(LiveClaims)

\* Sequence numbers are never given twice, and the claims up to a bound only
\* ever lose rows to an erasure: what was known as of a number stays so.
KnowledgeOnlyShrinks ==
    [][/\ counter' >= counter
       /\ \A c \in ClaimIds :
             claims'[c].state = "live" /\ claims'[c].seq <= counter
                 => claims[c].state = "live" /\ claims'[c].seq = claims[c].seq]_vars

\* A live claim still is in the vocabulary of the latest document: successors
\* keep the predicate, its cardinality and type, and the units in use.
LiveClaimsStayInVocabulary ==
    \A c \in LiveClaims :
        LET claim == claims[c].content
            latest == LatestOf(documents)
        IN  /\ claim.predicate \in DOMAIN latest.predicates
            /\ LET def == latest.predicates[claim.predicate] IN
               /\ def.kind = claim.value.kind
               /\ claim.value.kind = "decimal" /\ claim.value.unit # "none"
                     => claim.value.unit \in def.units
               /\ claim.slot = "none" <=> def.cardinality = "one"

=============================================================================
