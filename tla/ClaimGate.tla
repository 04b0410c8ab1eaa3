----------------------------- MODULE ClaimGate -----------------------------
(***************************************************************************)
(* The claim gate: what becomes of a claim proposal under a registry, a    *)
(* policy and a context the caller read.  Pure, as the code is.            *)
(*                                                                         *)
(* A proposal is [claim, proposer, evidence, relations]; a claim is [id,   *)
(* owner, predicate, version, subject, value, slot, stance, nfc, secret,   *)
(* derivedFrom, spans], where `secret` says that a detector fires on its   *)
(* value, condition, slot or subject key.  A context is [sources, targets]:*)
(* the available sources, and the admission facts of the claims it names.  *)
(***************************************************************************)
EXTENDS GateWalk, PredicateRegistry

\* Authority levels, in order.
Inferred == 1
Extracted == 2
Verified == 3
UserAsserted == 4
UserCorrected == 5
IsUser(level) == level \in {UserAsserted, UserCorrected}

-----------------------------------------------------------------------------
(* The policy: [version, floor, ceilings, qualified, seeds], `ceilings` a  *)
(* function on some evidence kinds, `qualified` pairs of a predicate and a *)
(* least authority, floor 0 for none.                                      *)

\* ceiling_of: the evidence kinds that earn a level, and the highest each can.
CeilingOf == [model_score |-> Inferred, source_span |-> Extracted,
              rule_match |-> Extracted, operator_seed |-> Extracted,
              span_verified |-> Verified, user_statement |-> UserCorrected]

\* Mutant: a predicate is qualified on a model's inference.
LegalPolicyOnInference(p) ==
    /\ p.version > 0
    /\ \A k \in DOMAIN p.ceilings :
          k \in DOMAIN CeilingOf /\ p.ceilings[k] <= CeilingOf[k]

\* AdmissionPolicy::new.
LegalPolicy(p) ==
    /\ p.version > 0
    /\ \A k \in DOMAIN p.ceilings :
          k \in DOMAIN CeilingOf /\ p.ceilings[k] <= CeilingOf[k]
    /\ \A q \in p.qualified : q.least >= Extracted

InitialPolicy == [version |-> 1, floor |-> 0, ceilings |-> <<>>, qualified |-> {},
                  seeds |-> {}]

\* AdmissionPolicy::ceiling, for a kind that earns a level.
PolicyCeiling(p, kind) ==
    IF kind \in DOMAIN p.ceilings /\ p.ceilings[kind] < CeilingOf[kind]
    THEN p.ceilings[kind] ELSE CeilingOf[kind]

Qualifies(p, claim, level) ==
    \E q \in p.qualified : q.predicate = claim.predicate /\ level >= q.least

-----------------------------------------------------------------------------
(* What the evidence is worth.                                             *)

SeedsOf(pr) == {e.seed : e \in {x \in pr.evidence : x.kind = "operator_seed"}}

\* user_statements: a human speaking of themselves.
StatementsOf(pr) ==
    {e \in pr.evidence : /\ e.kind = "user_statement"
                         /\ pr.proposer.human /\ pr.proposer.id = e.by}

\* ClaimProposal::corrected.
Corrected(pr) == {r.to : r \in {x \in pr.relations : x.kind \in {"supersedes", "contradicts"}}}
Correcting(pr) == StatementsOf(pr) # {} /\ Corrected(pr) # {}

\* earned: the levels of the evidence items that count.
Earned(pr, p) ==
    LET honoured(e) == e.kind \in DOMAIN CeilingOf
                       /\ (e.kind = "user_statement" => StatementsOf(pr) # {})
        least(a, b) == IF a < b THEN a ELSE b
        level(e) == LET ceiling == PolicyCeiling(p, e.kind)
                    IN IF e.kind # "user_statement" THEN ceiling
                       ELSE least(ceiling, IF Correcting(pr) THEN UserCorrected ELSE UserAsserted)
    IN  {level(e) : e \in {x \in pr.evidence : honoured(x)}}

\* The authority: the highest level earned, or 0 for none.
Authority(pr, p) ==
    IF Earned(pr, p) = {} THEN 0
    ELSE CHOOSE l \in Earned(pr, p) : \A k \in Earned(pr, p) : k <= l

OwnData(pr) == \E s \in StatementsOf(pr) : s.by = pr.claim.owner

SourcingOf(pr) == IF OwnData(pr) THEN "user"
                  ELSE IF SeedsOf(pr) # {} THEN "seed" ELSE "supplier"

-----------------------------------------------------------------------------
(* The relations.                                                          *)

\* relate: the relations that break a rule.  Targets the context does not
\* name are unknown; those of another scope or of the claim itself are denied.
BreaksRule(pr, ctx, r) ==
    \/ r.to \notin DOMAIN ctx.targets
    \/ ctx.targets[r.to].owner # pr.claim.owner
    \/ r.to = pr.claim.id
    \/ /\ r.kind = "supersedes"
       /\ SourcingOf(pr) = "user" /\ ctx.targets[r.to].sourcing = "supplier"

\* Mutant: a superseded claim's authority is not looked at.
NeverOutranked(pr, p, ctx) == FALSE

Outranked(pr, p, ctx) ==
    \E r \in pr.relations :
        r.kind = "supersedes" /\ ctx.targets[r.to].authority > Authority(pr, p)

\* The contradicted supplier claims a correction leaves standing.
ConflictsOf(pr, ctx) ==
    {r.to : r \in {x \in pr.relations : /\ x.kind = "contradicts" /\ Correcting(pr)
                                        /\ ctx.targets[x.to].sourcing = "supplier"}}

-----------------------------------------------------------------------------
(* The walk.                                                               *)

\* aicortex_claims::validate.
InVocabulary(claim, docs) ==
    /\ Declares(docs, claim.predicate, claim.version)
    /\ LET def == Definition(docs, claim.predicate, claim.version) IN
       /\ ~def.deprecated
       /\ claim.subject \in def.subjects
       /\ claim.value.kind = def.kind
       /\ claim.value.kind = "decimal" =>
             IF claim.value.unit = "none" THEN def.units = {} ELSE claim.value.unit \in def.units
       /\ claim.value.kind = "enum" => claim.value.variant \in def.variants
       /\ claim.slot = "none" <=> def.cardinality = "one"
       /\ claim.stance \in def.stances
       /\ claim.nfc
       /\ claim.spans \subseteq claim.derivedFrom

\* unavailable_source looks at every source and span the proposal cites.
Cited(pr) == pr.claim.derivedFrom \cup pr.claim.spans
             \cup {e.span : e \in {x \in pr.evidence : x.kind \in {"source_span", "span_verified"}}}

CLAIM_STEPS == <<"vocabulary", "secrets", "provenance", "sources", "seed", "score_floor",
                 "user_level", "authority", "relations", "ground">>

\* ground: a relation that outranks the claim needs a review, and so does
\* whatever is neither the owner's word, an accepted seed nor qualified.
Ground(pr, p, ctx) ==
    LET reviewed == \E e \in pr.evidence : e.kind = "review_approval"
        seeded == SeedsOf(pr) # {} /\ SeedsOf(pr) \subseteq p.seeds
        grounded == \/ reviewed \/ OwnData(pr) \/ seeded
                    \/ Qualifies(p, pr.claim, Authority(pr, p))
    IN IF (Outranked(pr, p, ctx) /\ ~reviewed) \/ ~grounded
       THEN Hold("authority_insufficient") ELSE Pass

JudgeClaim(pr, docs, p, ctx, step) ==
    LET related == FaultIf(Authority(pr, p) = 0, "authority_insufficient")
        broken == \E r \in pr.relations : BreaksRule(pr, ctx, r)
    IN
    CASE step = "vocabulary" -> FaultIf(~InVocabulary(pr.claim, docs), "invalid_value")
      [] step = "secrets" -> FaultIf(pr.claim.secret, "secret_detected")
      [] step = "provenance" -> FaultIf(pr.evidence = {}, "no_provenance")
      [] step = "sources" -> FaultIf(~(Cited(pr) \subseteq ctx.sources), "source_unavailable")
      [] step = "seed" ->
            FaultIf(/\ SeedsOf(pr) # {}
                    /\ \E e \in pr.evidence : e.kind = "user_statement", "policy_denied")
      [] step = "score_floor" ->
            FaultIf(\E e \in pr.evidence : e.kind = "model_score" /\ e.score < p.floor,
                    "below_score_floor")
      [] step = "user_level" ->
            FaultIf(\E s \in StatementsOf(pr) : ~IsUser(s.asserted), "policy_denied")
      [] step = "authority" -> related
      [] step = "relations" -> IF related # Pass THEN related ELSE FaultIf(broken, "policy_denied")
      [] step = "ground" -> IF related # Pass THEN related
                            ELSE IF broken THEN Fault("policy_denied")
                            ELSE Ground(pr, p, ctx)

\* Gate::evaluate_claim.
EvaluateClaim(pr, docs, p, ctx) ==
    Walk(CLAIM_STEPS, {CLAIM_STEPS[k] : k \in 1..10},
         [k \in DOMAIN CLAIM_STEPS |-> JudgeClaim(pr, docs, p, ctx, CLAIM_STEPS[k])])

=============================================================================
