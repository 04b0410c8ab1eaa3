---------------------------- MODULE ClaimsProofs ----------------------------
(***************************************************************************)
(* What the two gates let through, and what the claim tables keep of it,   *)
(* for every set of claims, proposals, policies, documents and memories.   *)
(***************************************************************************)
EXTENDS Claims, WellFoundedInduction, TLAPS

-----------------------------------------------------------------------------
(* The inductive invariant of the memories behind the gate.                *)

\* Decisions name a memory and a code, an override a Decision, and what is in
\* sight is answered for.
GateInv ==
    /\ DOMAIN memory = Memories
    /\ \A m \in Memories : memory[m].state \in MemoryState
    /\ \A d \in refused : d = <<d[1], d[2]>>
    /\ overrides \subseteq refused
    /\ InSightIsAnswered

-----------------------------------------------------------------------------
(* The inductive invariant of the claim tables.                            *)

ClaimFields == {"state", "seq", "authority", "sourcing", "content", "originErased"}
AdmissionFields == {"authority", "sourcing", "policy", "evidence", "relations",
                    "conflicts", "reviewed"}
WriterFields == {"pc", "proposal", "verdict", "row", "existing"}
RelationFields == {"from", "kind", "to", "seq", "document"}

Sourcings == {"user", "seed", "supplier"}

\* The rows have their columns.
Shaped ==
    /\ DOMAIN claims = ClaimIds
    /\ DOMAIN admissions = ClaimIds
    /\ DOMAIN writer = ClaimIds
    /\ \A c \in ClaimIds : /\ DOMAIN claims[c] = ClaimFields
                           /\ DOMAIN admissions[c] = AdmissionFields
                           /\ DOMAIN writer[c] = WriterFields
    /\ \A r \in relations : DOMAIN r = RelationFields

\* A policy as it is registered.
Policy(p) ==
    /\ LegalPolicy(p)
    /\ \A k \in DOMAIN p.ceilings : p.ceilings[k] \in Inferred..UserCorrected
    /\ \A q \in p.qualified : q.least \in Inferred..UserCorrected

\* An admission row of a claim that was admitted.
Admission(row) ==
    /\ DOMAIN row = AdmissionFields
    /\ row.authority \in Nat
    /\ row.sourcing \in Sourcings

\* A claim id is written once: a writer has it only while it is absent, and
\* an absent claim has no admission and is an end of no relation.
Fresh ==
    \A c \in ClaimIds :
        /\ writer[c].pc # "idle" => claims[c].state = "absent"
        /\ claims[c].state = "absent" =>
              /\ admissions[c] = NoAdmission
              /\ \A r \in relations : r.from # c /\ r.to # c

\* `a` may supersede `b`.
MayReplace(a, b) ==
    /\ a.authority >= b.authority \/ a.reviewed
    /\ ~(a.sourcing = "user" /\ b.sourcing = "supplier")

\* A row whose evidence is only scores was reviewed.
ScoreReviewed(row) ==
    (\A e \in row.evidence : e.kind \in {"model_score", "review_approval"}) => row.reviewed

\* What stays true of a writer between the gate's yes and its commit, said of
\* the proposal and the row it would store.
Sound(c, pr, row) ==
    /\ pr.claim.id = c
    /\ pr.claim.derivedFrom \subseteq Memories
    /\ Admission(row)
    /\ ScoreReviewed(row)
    /\ \A r \in pr.relations :
          /\ r.to \in ClaimIds
          /\ claims[r.to].state # "absent"
          /\ r.kind = "supersedes" /\ admissions[r.to] # NoAdmission
                => MayReplace(row, admissions[r.to])

\* A writer to whom the gate said yes.
Promised(c) == Sound(c, writer[c].proposal, writer[c].row)

\* What was read of the history is still so of the claims that live.
StillSo(existing) ==
    \A d \in DOMAIN existing :
        /\ d \in ClaimIds
        /\ claims[d].state # "absent"
        /\ claims[d].state = "live" => existing[d] = SlotOf(claims[d].content)

WritersKeepWord ==
    \A c \in ClaimIds :
        /\ writer[c].pc \in {"idle", "judged", "ready"}
        /\ writer[c].pc = "ready" => writer[c].verdict = Pass /\ StillSo(writer[c].existing)
        /\ writer[c].pc # "idle" /\ writer[c].verdict = Pass => Promised(c)

\* Every stored relation: its claims have their admissions, one may replace
\* the other, and a stored supersession stays in its slot.
RelationSound(r) ==
    /\ r.from \in ClaimIds /\ r.to \in ClaimIds
    /\ admissions[r.from] # NoAdmission
    /\ r.kind = "supersedes" =>
          /\ admissions[r.to] # NoAdmission => MayReplace(admissions[r.from], admissions[r.to])
          /\ r.document /\ {r.from, r.to} \subseteq LiveClaims =>
                SlotOf(claims[r.from].content) = SlotOf(claims[r.to].content)

\* The rows of a claim: a live one is the one admitted, an erased one bare.
ClaimSound(c) ==
    /\ claims[c].state \in {"absent", "live", "erased"}
    /\ claims[c].seq \in 0..counter
    /\ claims[c].state = "live" =>
          /\ claims[c].content.id = c
          /\ admissions[c] # NoAdmission
          /\ admissions[c].authority = claims[c].authority
          /\ admissions[c].sourcing = claims[c].sourcing
          /\ ScoreReviewed(admissions[c])
    /\ claims[c].state = "erased" =>
          /\ claims[c].content = None /\ claims[c].originErased
          /\ \A r \in relations : r.from = c => ~r.document
          /\ admissions[c] # NoAdmission =>
                admissions[c].evidence = {} /\ admissions[c].relations = {}
    /\ admissions[c] = NoAdmission \/ Admission(admissions[c])

ClaimInv ==
    /\ counter \in Nat
    /\ \A p \in policies : Policy(p)
    /\ sources \subseteq ClaimIds \X Memories
    /\ proposals \cup reviewed \subseteq ClaimIds
    /\ Shaped
    /\ Fresh
    /\ WritersKeepWord
    /\ \A r \in relations : RelationSound(r)
    /\ \A c \in ClaimIds : ClaimSound(c)

-----------------------------------------------------------------------------
(* The walk.                                                               *)

\* A verdict of a step.
Verdict(v) == v = Pass \/ (\E reason : v = Hold(reason)) \/ (\E reason : v = Fault(reason))

\* What a verdict says of itself.
LEMMA VerdictAs ==
    ASSUME NEW v, Verdict(v)
    PROVE  /\ v.as \in {"pass", "hold", "fault"}
           /\ v.as = "pass" => v = Pass
  BY DEF Verdict, Pass, Hold, Fault

\* A non-empty set of positions has a first.
LEMMA FirstPosition ==
    ASSUME NEW S \in SUBSET Nat, S # {}
    PROVE  \E k \in S : \A j \in S : k <= j
  <1>1. PICK k \in S : \A j \in S : ~(<<j, k>> \in OpToRel(<, Nat))
    BY NatLessThanWellFounded, WFMin
  <1> SUFFICES ASSUME NEW j \in S PROVE k <= j
    OBVIOUS
  <1>2. ~(<<j, k>> \in {x \in Nat \X Nat : x[1] < x[2]})
    BY <1>1 DEF OpToRel
  <1>3. k \in Nat /\ j \in Nat /\ <<j, k>> \in Nat \X Nat
    OBVIOUS
  <1> QED
    BY <1>2, <1>3

\* walk: a fault is the verdict of a step that faulted, or names a required
\* step nobody registered; a pass means that every step passed.
LEMMA WalkVerdict ==
    ASSUME NEW steps, NEW required, NEW verdicts,
           DOMAIN verdicts \subseteq Nat,
           required \subseteq {steps[k] : k \in DOMAIN steps},
           \A k \in DOMAIN verdicts : Verdict(verdicts[k]),
           NEW v, v = Walk(steps, required, verdicts)
    PROVE  /\ v.as = "fault" => \E k \in DOMAIN verdicts : verdicts[k] = v
           /\ v.as \in {"pass", "hold", "fault"}
           /\ v.as = "pass" => \A k \in DOMAIN verdicts : verdicts[k] = Pass
  <1> DEFINE judged(as) == {k \in DOMAIN verdicts : verdicts[k].as = as}
             first(as) == CHOOSE k \in judged(as) : \A j \in judged(as) : k <= j
  <1>1. \A as : judged(as) # {} => first(as) \in judged(as)
    <2> SUFFICES ASSUME NEW as, judged(as) # {} PROVE first(as) \in judged(as)
      OBVIOUS
    <2>1. judged(as) \in SUBSET Nat
      OBVIOUS
    <2>2. \E k \in judged(as) : \A j \in judged(as) : k <= j
      BY <2>1, FirstPosition
    <2> QED
      BY <2>2
  <1>2. v = IF judged("fault") # {} THEN verdicts[first("fault")]
            ELSE IF judged("hold") # {} THEN verdicts[first("hold")] ELSE Pass
    BY DEF Walk
  <1>3. CASE judged("fault") # {}
    <2>1. v = verdicts[first("fault")]
      BY <1>2, <1>3
    <2>2. first("fault") \in judged("fault")
      BY <1>1, <1>3
    <2> HIDE DEF first
    <2> QED
      BY <2>1, <2>2
  <1>4. CASE judged("fault") = {} /\ judged("hold") # {}
    <2>1. v = verdicts[first("hold")]
      BY <1>2, <1>4
    <2>2. first("hold") \in judged("hold")
      BY <1>1, <1>4
    <2> HIDE DEF first
    <2> QED
      BY <2>1, <2>2
  <1>5. CASE judged("fault") = {} /\ judged("hold") = {}
    <2>1. v = Pass
      BY <1>2, <1>5
    <2>2. \A k \in DOMAIN verdicts : verdicts[k] = Pass
      BY <1>5, VerdictAs
    <2> QED
      BY <2>1, <2>2 DEF Pass
  <1> QED
    BY <1>3, <1>4, <1>5

-----------------------------------------------------------------------------
(* The write gate.                                                         *)

CaptureSteps == {"empty", "too_large", "media", "denied_source", "secrets", "origin"}

\* Every capture step gives a verdict.
LEMMA CaptureVerdicts ==
    ASSUME NEW c, NEW r, NEW step \in CaptureSteps
    PROVE  Verdict(JudgeCapture(c, r, step))
  BY DEF CaptureSteps, JudgeCapture, FaultIf, Verdict

\* Gate::evaluate: a fault is that of a step that refuses the candidate; a
\* pass means that none does and that the origin is established.
LEMMA CaptureVerdict ==
    ASSUME NEW c, NEW r, NEW v, v = Evaluate(c, r)
    PROVE  /\ v.as \in {"pass", "hold", "fault"}
           /\ v.as = "fault" => v.reason \in {JudgeCapture(c, r, s).reason : s \in Faults(c, r)}
           /\ v.as = "pass" => Faults(c, r) = {} /\ c.origin \in Established
  <1> DEFINE verdicts == [k \in DOMAIN CAPTURE_STEPS |-> JudgeCapture(c, r, CAPTURE_STEPS[k])]
  <1>1. /\ DOMAIN CAPTURE_STEPS = 1..6
        /\ \A k \in 1..6 : CAPTURE_STEPS[k] \in CaptureSteps
        /\ \A s \in CaptureSteps : \E k \in 1..6 : CAPTURE_STEPS[k] = s
    BY DEF CAPTURE_STEPS, CaptureSteps
  <1>2. /\ DOMAIN verdicts = 1..6
        /\ \A k \in 1..6 : verdicts[k] = JudgeCapture(c, r, CAPTURE_STEPS[k])
    BY <1>1
  <1>3. \A k \in DOMAIN verdicts : Verdict(verdicts[k])
    BY <1>1, <1>2, CaptureVerdicts
  <1>4. CaptureSteps \subseteq {CAPTURE_STEPS[k] : k \in DOMAIN CAPTURE_STEPS}
    BY <1>1
  <1>5. v = Walk(CAPTURE_STEPS, CaptureSteps, verdicts)
    BY DEF Evaluate, CaptureSteps
  <1> HIDE DEF verdicts
  <1>6. DOMAIN verdicts \subseteq Nat
    BY <1>2
  <1>7. /\ v.as = "fault" => \E k \in DOMAIN verdicts : verdicts[k] = v
        /\ v.as \in {"pass", "hold", "fault"}
        /\ v.as = "pass" => \A k \in DOMAIN verdicts : verdicts[k] = Pass
    BY <1>3, <1>4, <1>5, <1>6, WalkVerdict
  <1>8. Faults(c, r) = {s \in CaptureSteps : JudgeCapture(c, r, s).as = "fault"}
    BY DEF Faults, CaptureSteps
  <1>9. ASSUME v.as = "fault"
        PROVE  v.reason \in {JudgeCapture(c, r, s).reason : s \in Faults(c, r)}
    <2>1. PICK k \in 1..6 : verdicts[k] = v
      BY <1>2, <1>7, <1>9
    <2>2. CAPTURE_STEPS[k] \in Faults(c, r) /\ v = JudgeCapture(c, r, CAPTURE_STEPS[k])
      BY <1>1, <1>2, <1>8, <1>9, <2>1
    <2> QED
      BY <2>2
  <1>10. ASSUME v.as = "pass"
         PROVE  Faults(c, r) = {} /\ c.origin \in Established
    <2>1. \A s \in CaptureSteps : JudgeCapture(c, r, s) = Pass
      BY <1>1, <1>2, <1>7, <1>10
    <2>2. Faults(c, r) = {}
      BY <1>8, <2>1 DEF Pass
    <2>3. JudgeCapture(c, r, "origin") = Pass
      BY <2>1 DEF CaptureSteps
    <2>4. c.origin \in Established
      BY <2>3 DEF JudgeCapture, Pass, Hold, Fault
    <2> QED
      BY <2>2, <2>4
  <1> QED
    BY <1>7, <1>9, <1>10

\* What makes one memory answered for, given the recorded refusals.
Answered(m, row, decisions) ==
    row.state = "available" =>
        IF row.override = NoOverride
        THEN Faults(row.from, row.under) = {} /\ row.from.origin \in Established
        ELSE /\ row.override \in decisions
             /\ row.override[1] = m
             /\ row.override[2] \in
                   {JudgeCapture(row.from, row.under, s).reason : s \in Faults(row.from, row.under)}

\* InSightIsAnswered, memory by memory.
LEMMA InSightByMemory ==
    InSightIsAnswered <=> \A m \in Memories : Answered(m, memory[m], refused)
  BY DEF InSightIsAnswered, Answered

\* A stored memory is answered for when the gate passed it, or when an
\* override names the fault the gate found.
LEMMA StoredAnswered ==
    ASSUME NEW m, NEW c, NEW v, v = Evaluate(c, rules), NEW decisions
    PROVE  /\ v.as = "pass" => Answered(m, Stored("available", c, NoOverride), decisions)
           /\ Answered(m, Stored("quarantined", c, NoOverride), decisions)
           /\ \A over \in decisions :
                 over = <<over[1], over[2]>> /\ Applies(m, over, v)
                    => Answered(m, Stored("available", c, over), decisions)
  <1>1. /\ v.as = "fault" => v.reason \in {JudgeCapture(c, rules, s).reason : s \in Faults(c, rules)}
        /\ v.as = "pass" => Faults(c, rules) = {} /\ c.origin \in Established
    BY CaptureVerdict
  <1>2. ASSUME v.as = "pass"
        PROVE  Answered(m, Stored("available", c, NoOverride), decisions)
    BY <1>1, <1>2 DEF Answered, Stored
  <1>3. Answered(m, Stored("quarantined", c, NoOverride), decisions)
    BY DEF Answered, Stored
  <1>4. ASSUME NEW over \in decisions, over = <<over[1], over[2]>>, Applies(m, over, v)
        PROVE  Answered(m, Stored("available", c, over), decisions)
    <2>1. over # NoOverride
      BY <1>4 DEF NoOverride
    <2>2. over[1] = m /\ over[2] \in {JudgeCapture(c, rules, s).reason : s \in Faults(c, rules)}
      BY <1>1, <1>4 DEF Applies
    <2> QED
      BY <2>1, <2>2 DEF Answered, Stored
  <1> QED
    BY <1>2, <1>3, <1>4

\* More decisions never leave a memory unanswered.
LEMMA AnsweredGrows ==
    ASSUME NEW m, NEW row, NEW decisions, NEW more, decisions \subseteq more,
           Answered(m, row, decisions)
    PROVE  Answered(m, row, more)
  BY DEF Answered

\* A memory out of sight is answered for.
LEMMA OutOfSight ==
    ASSUME NEW m, NEW row, row.state # "available", NEW decisions
    PROVE  Answered(m, row, decisions)
  BY DEF Answered

\* What the gate's steps and the erasures do to the memories: each is kept,
\* stored answered for, or erased, and no decision is lost.
GateMove ==
    /\ DOMAIN memory' = Memories
    /\ \A m \in Memories :
          \/ memory'[m] = memory[m]
          \/ memory'[m].state \in MemoryState /\ Answered(m, memory'[m], refused')
    /\ refused \subseteq refused'
    /\ \A d \in refused' : d = <<d[1], d[2]>>
    /\ overrides' \subseteq refused'

\* Such a move preserves the invariant of the gate.
LEMMA GateMoveKeeps ==
    ASSUME GateInv, GateMove
    PROVE  GateInv'
  <1>1. \A m \in Memories : Answered(m, memory[m], refused)
    BY InSightByMemory DEF GateInv
  <1>2. \A m \in Memories : Answered(m, memory'[m], refused')
    BY <1>1, AnsweredGrows DEF GateMove
  <1>3. InSightIsAnswered'
    BY <1>2 DEF InSightIsAnswered, Answered
  <1>4. \A m \in Memories : memory'[m].state \in MemoryState
    BY DEF GateInv, GateMove
  <1> QED
    BY <1>3, <1>4 DEF GateInv, GateMove

\* Capture, with and without an override, configuration and decisions.
LEMMA GateStep ==
    ASSUME GateInv, WriteGateNext
    PROVE  GateMove
  <1>1. ASSUME NEW limits \in Narrowings, NEW denied \in Denials, Configure(limits, denied)
        PROVE  GateMove
    BY <1>1 DEF Configure, GateInv, GateMove
  <1>2. ASSUME NEW m \in Memories, NEW c \in OffersOf[m], Capture(m, c)
        PROVE  GateMove
    <2> DEFINE v == Evaluate(c, rules)
    <2>1. v.as \in {"pass", "hold", "fault"}
      BY CaptureVerdict
    <2>2. /\ v.as = "pass" => Answered(m, Stored("available", c, NoOverride), refused)
          /\ Answered(m, Stored("quarantined", c, NoOverride), refused)
      BY StoredAnswered
    <2>3. CASE v.as = "fault"
      <3>1. memory' = memory /\ overrides' = overrides /\ refused' = refused \cup {<<m, v.reason>>}
        BY <1>2, <2>3 DEF Capture
      <3> HIDE DEF v
      <3> QED
        BY <3>1 DEF GateInv, GateMove
    <2>4. CASE v.as # "fault"
      <3> DEFINE state == IF v.as = "hold" THEN "quarantined" ELSE "available"
                 row == Stored(state, c, NoOverride)
      <3>1. memory' = [memory EXCEPT ![m] = row] /\ overrides' = overrides /\ refused' = refused
        BY <1>2, <2>4 DEF Capture
      <3>2. row.state \in MemoryState
        BY DEF Stored, MemoryState
      <3>3. Answered(m, row, refused)
        BY <2>1, <2>2, <2>4
      <3> HIDE DEF v, row
      <3> QED
        BY <3>1, <3>2, <3>3 DEF GateInv, GateMove
    <2> QED
      BY <2>3, <2>4
  <1>3. ASSUME NEW m \in Memories, NEW c \in OffersOf[m], CaptureOverridden(m, c)
        PROVE  GateMove
    <2>1. PICK over \in overrides : /\ Applies(m, over, Evaluate(c, rules))
                                    /\ memory' = [memory EXCEPT ![m] = Stored("available", c, over)]
      BY <1>3 DEF CaptureOverridden
    <2> DEFINE row == Stored("available", c, over)
    <2>2. over \in refused /\ over = <<over[1], over[2]>>
      BY DEF GateInv
    <2>3. Answered(m, row, refused)
      BY <2>1, <2>2, StoredAnswered
    <2>4. row.state \in MemoryState
      BY DEF Stored, MemoryState
    <2>5. memory' = [memory EXCEPT ![m] = row] /\ overrides' = overrides /\ refused' = refused
      BY <1>3, <2>1 DEF CaptureOverridden
    <2> HIDE DEF row
    <2> QED
      BY <2>3, <2>4, <2>5 DEF GateInv, GateMove
  <1>4. ASSUME NEW d \in refused, Decide(d[1], d[2])
        PROVE  GateMove
    BY <1>4 DEF Decide, GateInv, GateMove
  <1> QED
    BY <1>1, <1>2, <1>3, <1>4 DEF WriteGateNext

\* An erased memory.
LEMMA ErasedMemoryState == ErasedMemory.state = "erased" /\ "erased" \in MemoryState
  BY DEF ErasedMemory, NoMemory, MemoryState

\* The steps of the claims leave the memories alone or erase them.
LEMMA ErasureGate ==
    ASSUME GateInv, ErasureStep
    PROVE  GateMove
  <1>1. ASSUME NEW m \in Memories, NEW cascade \in BOOLEAN, EraseMemory(m, cascade)
        PROVE  GateMove
    <2>1. memory' = [memory EXCEPT ![m] = ErasedMemory] /\ refused' = refused /\ overrides' = overrides
      BY <1>1 DEF EraseMemory
    <2>2. Answered(m, ErasedMemory, refused)
      BY ErasedMemoryState, OutOfSight
    <2> QED
      BY <2>1, <2>2, ErasedMemoryState DEF GateInv, GateMove
  <1>2. ASSUME NEW batch \in SUBSET Memories, EraseScope(batch)
        PROVE  GateMove
    <2>1. /\ memory' = [m \in Memories |-> IF m \in batch THEN ErasedMemory ELSE memory[m]]
          /\ refused' = refused /\ overrides' = overrides
      BY <1>2 DEF EraseScope
    <2>2. \A m \in Memories : Answered(m, ErasedMemory, refused)
      BY ErasedMemoryState, OutOfSight
    <2> QED
      BY <2>1, <2>2, ErasedMemoryState DEF GateInv, GateMove
  <1> QED
    BY <1>1, <1>2 DEF ErasureStep

\* Every step preserves the invariant of the gate.
LEMMA GateNext ==
    ASSUME GateInv, [Next]_vars
    PROVE  GateInv'
  <1>1. CASE WriteGateNext
    BY <1>1, GateStep, GateMoveKeeps
  <1>2. CASE ErasureStep
    BY <1>2, ErasureGate, GateMoveKeeps
  <1>3. CASE UNCHANGED gateVars
    BY <1>3 DEF gateVars, GateInv, InSightIsAnswered
  <1>4. ASSUME NEW c \in ClaimIds, ClaimStep(c)
        PROVE  UNCHANGED gateVars
    BY <1>4 DEF ClaimStep, Judge, ReadHistory, Decline, Append, Retract, EraseClaim
  <1>5. ASSUME NEW p \in PolicyOffers, RegisterPolicy(p)
        PROVE  UNCHANGED gateVars
    BY <1>5 DEF RegisterPolicy
  <1> QED
    BY <1>1, <1>2, <1>3, <1>4, <1>5 DEF Next, vars

\* What is in sight was let through: a memory is available only when no rule
\* in force at its capture refused or held it, or an operator's override of a
\* recorded refusal of that id answers one of the rules that did (Gate::evaluate
\* and evaluate_overridden, with rules narrowed and bodies changed meanwhile).
THEOREM InSightAnswered == Spec => []InSightIsAnswered
  <1>1. Init => GateInv
    BY DEF Init, WriteGateInit, GateInv, InSightIsAnswered, NoMemory, MemoryState
  <1>2. GateInv /\ [Next]_vars => GateInv'
    BY GateNext
  <1>3. GateInv => InSightIsAnswered
    BY DEF GateInv
  <1> QED
    BY <1>1, <1>2, <1>3, PTL DEF Spec

-----------------------------------------------------------------------------
(* The claim gate.                                                         *)

ClaimSteps == {"vocabulary", "secrets", "provenance", "sources", "seed", "score_floor",
               "user_level", "authority", "relations", "ground"}

\* Every step of the claim walk gives a verdict.
LEMMA ClaimVerdicts ==
    ASSUME NEW pr, NEW docs, NEW p, NEW ctx, NEW step \in ClaimSteps
    PROVE  Verdict(JudgeClaim(pr, docs, p, ctx, step))
  <1>1. \A b, reason : Verdict(FaultIf(b, reason))
    BY DEF FaultIf, Verdict
  <1>2. Verdict(Ground(pr, p, ctx))
    BY DEF Ground, Verdict
  <1>3. Verdict(Fault("policy_denied"))
    BY DEF Verdict
  <1> QED
    BY <1>1, <1>2, <1>3 DEF ClaimSteps, JudgeClaim

\* Gate::evaluate_claim passes a proposal only when every step does.
LEMMA ClaimWalkPasses ==
    ASSUME NEW pr, NEW docs, NEW p, NEW ctx, EvaluateClaim(pr, docs, p, ctx) = Pass,
           NEW step \in ClaimSteps
    PROVE  JudgeClaim(pr, docs, p, ctx, step) = Pass
  <1> DEFINE verdicts == [k \in DOMAIN CLAIM_STEPS |-> JudgeClaim(pr, docs, p, ctx, CLAIM_STEPS[k])]
             required == {CLAIM_STEPS[k] : k \in 1..10}
  <1>1. /\ DOMAIN CLAIM_STEPS = 1..10
        /\ \A k \in 1..10 : CLAIM_STEPS[k] \in ClaimSteps
        /\ \A s \in ClaimSteps : \E k \in 1..10 : CLAIM_STEPS[k] = s
    BY DEF CLAIM_STEPS, ClaimSteps
  <1>2. /\ DOMAIN verdicts = 1..10
        /\ \A k \in 1..10 : verdicts[k] = JudgeClaim(pr, docs, p, ctx, CLAIM_STEPS[k])
    BY <1>1
  <1>3. \A k \in DOMAIN verdicts : Verdict(verdicts[k])
    BY <1>1, <1>2, ClaimVerdicts
  <1>4. required \subseteq {CLAIM_STEPS[k] : k \in DOMAIN CLAIM_STEPS}
    BY <1>1
  <1>5. Pass = Walk(CLAIM_STEPS, required, verdicts)
    BY DEF EvaluateClaim
  <1> HIDE DEF verdicts, required
  <1>6. DOMAIN verdicts \subseteq Nat
    BY <1>2
  <1>7. Pass.as = "pass" => \A k \in DOMAIN verdicts : verdicts[k] = Pass
    BY <1>3, <1>4, <1>5, <1>6, WalkVerdict
  <1>8. Pass.as = "pass"
    BY DEF Pass
  <1> QED
    BY <1>1, <1>2, <1>7, <1>8

\* FaultIf passes only what it does not refuse.
LEMMA FaultIfPasses ==
    ASSUME NEW b \in BOOLEAN, NEW reason, FaultIf(b, reason) = Pass
    PROVE  ~b
  BY DEF FaultIf, Fault, Pass

\* What the claim gate has established of a proposal it passes.
LEMMA ClaimGatePasses ==
    ASSUME NEW pr, NEW docs, NEW p, NEW ctx, EvaluateClaim(pr, docs, p, ctx) = Pass
    PROVE  /\ InVocabulary(pr.claim, docs)
           /\ Cited(pr) \subseteq ctx.sources
           /\ \A r \in pr.relations : ~BreaksRule(pr, ctx, r)
           /\ Ground(pr, p, ctx) = Pass
  <1>1. \A s \in ClaimSteps : JudgeClaim(pr, docs, p, ctx, s) = Pass
    BY ClaimWalkPasses
  <1>2. InVocabulary(pr.claim, docs)
    <2>1. JudgeClaim(pr, docs, p, ctx, "vocabulary") = Pass
      BY <1>1 DEF ClaimSteps
    <2>2. FaultIf(~InVocabulary(pr.claim, docs), "invalid_value") = Pass
      BY <2>1 DEF JudgeClaim
    <2> QED
      BY <2>2, FaultIfPasses
  <1>3. Cited(pr) \subseteq ctx.sources
    <2>1. JudgeClaim(pr, docs, p, ctx, "sources") = Pass
      BY <1>1 DEF ClaimSteps
    <2>2. FaultIf(~(Cited(pr) \subseteq ctx.sources), "source_unavailable") = Pass
      BY <2>1 DEF JudgeClaim
    <2> QED
      BY <2>2, FaultIfPasses
  <1>4. /\ \A r \in pr.relations : ~BreaksRule(pr, ctx, r)
        /\ Ground(pr, p, ctx) = Pass
    <2> DEFINE related == FaultIf(Authority(pr, p) = 0, "authority_insufficient")
               broken == \E r \in pr.relations : BreaksRule(pr, ctx, r)
    <2>1. JudgeClaim(pr, docs, p, ctx, "ground") = Pass
      BY <1>1 DEF ClaimSteps
    <2>2. Pass = IF related # Pass THEN related
                 ELSE IF broken THEN Fault("policy_denied") ELSE Ground(pr, p, ctx)
      BY <2>1 DEF JudgeClaim
    <2>3. Fault("policy_denied") # Pass
      BY DEF Fault, Pass
    <2>4. ~broken /\ Ground(pr, p, ctx) = Pass
      <3> HIDE DEF related, broken
      <3> QED
        BY <2>2, <2>3
    <2> QED
      BY <2>4
  <1> QED
    BY <1>2, <1>3, <1>4

\* The highest level earned, when every level is one of 1..n.
LEMMA AuthorityBounded ==
    ASSUME NEW pr, NEW p, NEW n \in {1, 5}, Earned(pr, p) \subseteq 1..n
    PROVE  Authority(pr, p) \in 0..n
  <1> DEFINE S == Earned(pr, p)
  <1>1. CASE S = {}
    BY <1>1 DEF Authority
  <1>2. CASE S # {}
    <2>1. \E l \in S : \A k \in S : k <= l
      <3> DEFINE D == {n - k : k \in S}
      <3>1. D \in SUBSET Nat /\ D # {}
        BY <1>2
      <3>2. PICK d \in D : \A e \in D : d <= e
        BY <3>1, FirstPosition
      <3>3. PICK l \in S : d = n - l
        OBVIOUS
      <3>4. \A k \in S : n - l <= n - k
        BY <3>2, <3>3
      <3>5. \A k \in S : k \in Int /\ l \in Int
        OBVIOUS
      <3> HIDE DEF S
      <3> QED
        BY <3>3, <3>4, <3>5
    <2>2. Authority(pr, p) = CHOOSE l \in S : \A k \in S : k <= l
      BY <1>2 DEF Authority
    <2>3. Authority(pr, p) \in S
      <3> HIDE DEF S
      <3> QED
        BY <2>1, <2>2
    <2> QED
      BY <2>3
  <1> QED
    BY <1>1, <1>2

\* The ceiling of a kind of evidence under a policy is at most the code's.
LEMMA CeilingBounded ==
    ASSUME NEW p, Policy(p), NEW kind \in DOMAIN CeilingOf
    PROVE  /\ PolicyCeiling(p, kind) \in 1..5
           /\ kind = "model_score" => PolicyCeiling(p, kind) = 1
  <1>1. DOMAIN CeilingOf = {"model_score", "source_span", "rule_match", "operator_seed",
                            "span_verified", "user_statement"}
    BY DEF CeilingOf
  <1>2. CeilingOf[kind] \in 1..5 /\ (kind = "model_score" => CeilingOf[kind] = 1)
    BY <1>1 DEF CeilingOf, Inferred, Extracted, Verified, UserCorrected
  <1>3. kind \in DOMAIN p.ceilings => p.ceilings[kind] \in 1..5
    BY DEF Policy, Inferred, UserCorrected
  <1> QED
    BY <1>2, <1>3 DEF PolicyCeiling

\* earned: every item earns a level, and a score the lowest.
LEMMA EarnedBounded ==
    ASSUME NEW pr, NEW p, Policy(p)
    PROVE  /\ Earned(pr, p) \subseteq 1..5
           /\ (\A e \in pr.evidence : e.kind \in {"model_score", "review_approval"})
                 => Earned(pr, p) \subseteq 1..1
  <1> SUFFICES ASSUME NEW l \in Earned(pr, p)
               PROVE  /\ l \in 1..5
                      /\ (\A e \in pr.evidence : e.kind \in {"model_score", "review_approval"})
                            => l = 1
    OBVIOUS
  <1>1. PICK e \in pr.evidence :
          /\ e.kind \in DOMAIN CeilingOf
          /\ \/ e.kind # "user_statement" /\ l = PolicyCeiling(p, e.kind)
             \/ /\ e.kind = "user_statement"
                /\ l \in {PolicyCeiling(p, e.kind), UserCorrected, UserAsserted}
    BY DEF Earned
  <1>2. /\ PolicyCeiling(p, e.kind) \in 1..5
        /\ e.kind = "model_score" => PolicyCeiling(p, e.kind) = 1
    BY <1>1, CeilingBounded
  <1>3. "review_approval" \notin DOMAIN CeilingOf
    BY DEF CeilingOf
  <1>4. l \in 1..5
    BY <1>1, <1>2 DEF UserCorrected, UserAsserted
  <1>5. ASSUME \A x \in pr.evidence : x.kind \in {"model_score", "review_approval"}
        PROVE  l = 1
    BY <1>1, <1>2, <1>3, <1>5
  <1> QED
    BY <1>4, <1>5

\* Authorities are numbers, and scores alone never earn more than Inferred.
LEMMA AuthorityLevel ==
    ASSUME NEW pr, NEW p, Policy(p)
    PROVE  /\ Authority(pr, p) \in 0..5
           /\ (\A e \in pr.evidence : e.kind \in {"model_score", "review_approval"})
                 => Authority(pr, p) \in 0..1
  BY EarnedBounded, AuthorityBounded

-----------------------------------------------------------------------------
(* What a writer is promised.                                              *)

\* A proposal as it is judged, with or without an approval.
LEMMA ProposedFields ==
    ASSUME NEW c \in ClaimIds, NEW offered \in ProposalsOf[c], NEW pr, pr = Proposed(c, offered)
    PROVE  pr.claim.id = c
  BY ProposalsAreTheirs DEF Proposed

\* ground: who passes it is reviewed, or outranked by nothing it supersedes
\* and grounded in more than scores.
LEMMA GroundPasses ==
    ASSUME NEW pr, NEW p, NEW ctx, Policy(p), Ground(pr, p, ctx) = Pass,
           ~\E e \in pr.evidence : e.kind = "review_approval"
    PROVE  /\ ~Outranked(pr, p, ctx)
           /\ \E e \in pr.evidence : e.kind \notin {"model_score", "review_approval"}
  <1> DEFINE seeded == SeedsOf(pr) # {} /\ SeedsOf(pr) \subseteq p.seeds
             grounded == OwnData(pr) \/ seeded \/ Qualifies(p, pr.claim, Authority(pr, p))
  <1>1. Hold("authority_insufficient") # Pass
    BY DEF Hold, Pass
  <1>2. ~Outranked(pr, p, ctx) /\ grounded
    BY <1>1 DEF Ground
  <1>3. CASE OwnData(pr)
    BY <1>2, <1>3 DEF OwnData, StatementsOf
  <1>4. CASE SeedsOf(pr) # {}
    BY <1>2, <1>4 DEF SeedsOf
  <1>5. CASE Qualifies(p, pr.claim, Authority(pr, p))
    <2>1. PICK q \in p.qualified : Authority(pr, p) >= q.least
      BY <1>5 DEF Qualifies
    <2>2. q.least \in 1..5 /\ q.least >= 2
      BY DEF Policy, LegalPolicy, Inferred, Extracted, UserCorrected
    <2>3. Authority(pr, p) \notin 0..1
      BY <2>1, <2>2
    <2> QED
      BY <1>2, <2>3, AuthorityLevel
  <1> QED
    BY <1>2, <1>3, <1>4, <1>5

\* The row of a judgement.
LEMMA RowFields ==
    ASSUME NEW pr, NEW p, NEW ctx, NEW row, row = AdmissionRow(pr, p, ctx), Policy(p)
    PROVE  /\ Admission(row)
           /\ row.authority = Authority(pr, p)
           /\ row.sourcing = SourcingOf(pr)
           /\ row.evidence = pr.evidence
           /\ row.reviewed <=> \E e \in pr.evidence : e.kind = "review_approval"
  <1>1. Authority(pr, p) \in 0..5
    BY AuthorityLevel
  <1>2. SourcingOf(pr) \in Sourcings
    BY DEF SourcingOf, Sourcings
  <1> QED
    BY <1>1, <1>2 DEF AdmissionRow, Admission, AdmissionFields

\* What the gate says yes to is sound: the sources are there, the targets are
\* claims that were admitted, and each may be replaced.
LEMMA GateAdmits ==
    ASSUME ClaimInv, NEW c \in ClaimIds, NEW offered \in ProposalsOf[c], NEW p \in policies,
           NEW pr, pr = Proposed(c, offered), NEW ctx, ctx = Context(pr),
           NEW row, row = AdmissionRow(pr, p, ctx),
           EvaluateClaim(pr, documents, p, ctx) = Pass
    PROVE  Sound(c, pr, row)
  <1>1. Policy(p)
    BY DEF ClaimInv
  <1>2. /\ Admission(row)
        /\ row.authority = Authority(pr, p)
        /\ row.sourcing = SourcingOf(pr)
        /\ row.evidence = pr.evidence
        /\ row.reviewed <=> \E e \in pr.evidence : e.kind = "review_approval"
    BY <1>1, RowFields
  <1>3. /\ Cited(pr) \subseteq ctx.sources
        /\ \A r \in pr.relations : ~BreaksRule(pr, ctx, r)
        /\ Ground(pr, p, ctx) = Pass
    BY ClaimGatePasses
  <1>4. pr.claim.id = c
    BY ProposedFields
  <1>5. pr.claim.derivedFrom \subseteq Memories
    <2>1. ctx.sources \subseteq Memories
      BY DEF Context
    <2>2. pr.claim.derivedFrom \subseteq Cited(pr)
      BY DEF Cited
    <2> QED
      BY <1>3, <2>1, <2>2
  <1>6. ScoreReviewed(row)
    BY <1>1, <1>2, <1>3, GroundPasses DEF ScoreReviewed
  <1>7. ASSUME NEW r \in pr.relations
        PROVE  /\ r.to \in ClaimIds
               /\ claims[r.to].state # "absent"
               /\ r.kind = "supersedes" => MayReplace(row, admissions[r.to])
    <2> DEFINE d == r.to
               target == ctx.targets[d]
    <2>1. d \in DOMAIN ctx.targets
      BY <1>3 DEF BreaksRule
    <2>2. /\ d \in ClaimIds /\ admissions[d] # NoAdmission
          /\ target.authority = admissions[d].authority
          /\ target.sourcing = admissions[d].sourcing
      BY <2>1 DEF Context
    <2>3. claims[d].state # "absent" /\ Admission(admissions[d])
      BY <2>2 DEF ClaimInv, Fresh, ClaimSound
    <2>4. ASSUME r.kind = "supersedes"
          PROVE  ~(SourcingOf(pr) = "user" /\ target.sourcing = "supplier")
      BY <1>3, <2>4 DEF BreaksRule
    <2>5. ASSUME r.kind = "supersedes"
          PROVE  row.authority >= admissions[d].authority \/ row.reviewed
      <3>1. CASE \E e \in pr.evidence : e.kind = "review_approval"
        BY <1>2, <3>1
      <3>2. CASE ~\E e \in pr.evidence : e.kind = "review_approval"
        <4>1. ~Outranked(pr, p, ctx)
          BY <1>1, <1>3, <3>2, GroundPasses
        <4>2. ~(target.authority > Authority(pr, p))
          BY <2>5, <4>1 DEF Outranked
        <4>3. target.authority \in Nat /\ Authority(pr, p) \in Nat
          BY <1>2, <2>2, <2>3 DEF Admission
        <4>4. Authority(pr, p) >= target.authority
          <5> HIDE DEF target
          <5> QED
            BY <4>2, <4>3
        <4> QED
          BY <1>2, <2>2, <4>4
      <3> QED
        BY <3>1, <3>2
    <2> QED
      BY <1>2, <2>2, <2>3, <2>4, <2>5 DEF MayReplace
  <1> QED
    BY <1>2, <1>4, <1>5, <1>6, <1>7 DEF Sound

-----------------------------------------------------------------------------
(* What the steps do to a claim that is there.                             *)

\* A claim that is there stays there; while it lives it keeps its content, and
\* while it has an admission it keeps what the admission says of its rank.
Keeps(d) ==
    claims[d].state # "absent" =>
        /\ claims'[d].state # "absent"
        /\ claims'[d].state = "live" =>
              claims[d].state = "live" /\ claims'[d].content = claims[d].content
        /\ admissions'[d] # NoAdmission =>
              /\ admissions[d] # NoAdmission
              /\ admissions'[d].authority = admissions[d].authority
              /\ admissions'[d].sourcing = admissions[d].sourcing
              /\ admissions'[d].reviewed = admissions[d].reviewed

\* A promise outlives what happens to the claims it names.
LEMMA SoundKept ==
    ASSUME \A d \in ClaimIds : Keeps(d), NEW c, NEW pr, NEW row, Sound(c, pr, row)
    PROVE  Sound(c, pr, row)'
  <1>1. ASSUME NEW r \in pr.relations
        PROVE  /\ r.to \in ClaimIds
               /\ claims'[r.to].state # "absent"
               /\ r.kind = "supersedes" /\ admissions'[r.to] # NoAdmission
                     => MayReplace(row, admissions'[r.to])
    <2>1. /\ r.to \in ClaimIds
          /\ claims[r.to].state # "absent"
          /\ r.kind = "supersedes" /\ admissions[r.to] # NoAdmission
                => MayReplace(row, admissions[r.to])
      BY <1>1 DEF Sound
    <2>2. Keeps(r.to)
      BY <2>1
    <2> QED
      BY <2>1, <2>2 DEF Keeps, MayReplace
  <1> QED
    BY <1>1 DEF Sound

\* So does what was read of the history.
LEMMA StillSoKept ==
    ASSUME \A d \in ClaimIds : Keeps(d), NEW existing, StillSo(existing)
    PROVE  StillSo(existing)'
  BY DEF StillSo, Keeps

\* Writers that go on, or give up, keep their word.
LEMMA WritersKept ==
    ASSUME WritersKeepWord, \A d \in ClaimIds : Keeps(d),
           \A c \in ClaimIds : writer'[c] = writer[c] \/ writer'[c] = IdleWriter
    PROVE  WritersKeepWord'
  <1> SUFFICES ASSUME NEW c \in ClaimIds
               PROVE  /\ writer'[c].pc \in {"idle", "judged", "ready"}
                      /\ writer'[c].pc = "ready" =>
                            writer'[c].verdict = Pass /\ StillSo(writer[c].existing)'
                      /\ writer'[c].pc # "idle" /\ writer'[c].verdict = Pass => Promised(c)'
    BY DEF WritersKeepWord
  <1>1. CASE writer'[c] = IdleWriter
    BY <1>1 DEF IdleWriter
  <1>2. CASE writer'[c] = writer[c]
    <2>1. PICK w : w = writer[c]
      OBVIOUS
    <2>2. writer'[c] = w
      BY <1>2, <2>1
    <2>3. w.pc = "ready" => w.verdict = Pass /\ StillSo(w.existing)
      BY <2>1 DEF WritersKeepWord
    <2>4. w.pc # "idle" /\ w.verdict = Pass => Sound(c, w.proposal, w.row)
      BY <2>1 DEF WritersKeepWord, Promised
    <2>5. w.pc = "ready" => StillSo(w.existing)'
      BY <2>3, StillSoKept
    <2>6. w.pc # "idle" /\ w.verdict = Pass => Sound(c, w.proposal, w.row)'
      BY <2>4, SoundKept
    <2>7. w.pc \in {"idle", "judged", "ready"}
      BY <2>1 DEF WritersKeepWord
    <2>8. StillSo(writer[c].existing)' <=> StillSo(w.existing)'
      BY <2>2
    <2>9. Promised(c)' <=> Sound(c, w.proposal, w.row)'
      BY <2>2 DEF Promised
    <2> QED
      BY <2>2, <2>3, <2>5, <2>6, <2>7, <2>8, <2>9
  <1> QED
    BY <1>1, <1>2

\* A stored relation stays sound while its claim has an admission.
LEMMA RelationKept ==
    ASSUME \A d \in ClaimIds : Keeps(d), NEW r, RelationSound(r),
           claims[r.from].state # "absent", claims[r.to].state # "absent",
           NEW s, s.from = r.from, s.to = r.to, s.kind = r.kind, s.document => r.document,
           admissions'[r.from] # NoAdmission
    PROVE  RelationSound(s)'
  <1>1. r.from \in ClaimIds /\ r.to \in ClaimIds /\ Keeps(r.from) /\ Keeps(r.to)
    BY DEF RelationSound
  <1>2. r.kind = "supersedes" /\ admissions'[r.to] # NoAdmission
           => MayReplace(admissions'[r.from], admissions'[r.to])
    BY <1>1 DEF Keeps, RelationSound, MayReplace
  <1>3. ASSUME r.kind = "supersedes", s.document, claims'[r.from].state = "live", claims'[r.to].state = "live"
        PROVE  SlotOf(claims'[r.from].content) = SlotOf(claims'[r.to].content)
    BY <1>1, <1>3 DEF Keeps, RelationSound, LiveClaims
  <1> QED
    BY <1>1, <1>2, <1>3 DEF RelationSound, LiveClaims

-----------------------------------------------------------------------------
(* The steps of the claims.                                                *)

\* The tables as they are after a step that only moves a writer.
LEMMA TablesUnchanged ==
    ASSUME ClaimInv, UNCHANGED claimVars
    PROVE  /\ counter' \in Nat
           /\ sources' \subseteq ClaimIds \X Memories
           /\ proposals' \subseteq ClaimIds
           /\ \A r \in relations' : RelationSound(r)'
           /\ \A c \in ClaimIds : ClaimSound(c)' /\ Keeps(c)
  <1>1. /\ claims' = claims /\ relations' = relations /\ sources' = sources
        /\ admissions' = admissions /\ proposals' = proposals /\ counter' = counter
    BY DEF claimVars
  <1>2. \A r \in relations' : RelationSound(r)'
    BY <1>1 DEF ClaimInv, RelationSound, LiveClaims
  <1>3. \A c \in ClaimIds : ClaimSound(c)'
    BY <1>1 DEF ClaimInv, ClaimSound
  <1>4. \A c \in ClaimIds : Keeps(c)
    BY <1>1 DEF Keeps
  <1> QED
    BY <1>1, <1>2, <1>3, <1>4 DEF ClaimInv

\* A step of one writer, to a state that keeps its word.
LEMMA WriterMoves ==
    ASSUME ClaimInv, NEW c \in ClaimIds, NEW w,
           writer' = [writer EXCEPT ![c] = w],
           UNCHANGED <<claimVars, policies>>,
           reviewed' \subseteq ClaimIds,
           DOMAIN w = WriterFields,
           w.pc \in {"idle", "judged", "ready"},
           w.pc # "idle" => claims[c].state = "absent",
           w.pc = "ready" => w.verdict = Pass /\ StillSo(w.existing),
           w.pc # "idle" /\ w.verdict = Pass => Sound(c, w.proposal, w.row)
    PROVE  ClaimInv'
  <1>1. /\ claims' = claims /\ relations' = relations /\ admissions' = admissions
        /\ policies' = policies
    BY DEF claimVars
  <1>2. /\ counter' \in Nat
        /\ sources' \subseteq ClaimIds \X Memories
        /\ proposals' \subseteq ClaimIds
        /\ \A r \in relations' : RelationSound(r)'
        /\ \A d \in ClaimIds : ClaimSound(d)' /\ Keeps(d)
    BY TablesUnchanged
  <1>3. DOMAIN writer = ClaimIds
    BY DEF ClaimInv, Shaped
  <1>4. writer'[c] = w /\ DOMAIN writer' = ClaimIds
        /\ \A d \in ClaimIds \ {c} : writer'[d] = writer[d]
    BY <1>3
  <1>5. Shaped'
    BY <1>1, <1>4 DEF ClaimInv, Shaped
  <1>6. Fresh'
    BY <1>1, <1>4 DEF ClaimInv, Fresh
  <1>7. WritersKeepWord'
    <2> SUFFICES ASSUME NEW d \in ClaimIds
                 PROVE  /\ writer'[d].pc \in {"idle", "judged", "ready"}
                        /\ writer'[d].pc = "ready" =>
                              writer'[d].verdict = Pass /\ StillSo(writer[d].existing)'
                        /\ writer'[d].pc # "idle" /\ writer'[d].verdict = Pass => Promised(d)'
      BY DEF WritersKeepWord
    <2>1. PICK v : v = writer'[d]
      OBVIOUS
    <2>2. /\ v.pc \in {"idle", "judged", "ready"}
          /\ v.pc = "ready" => v.verdict = Pass /\ StillSo(v.existing)
          /\ v.pc # "idle" /\ v.verdict = Pass => Sound(d, v.proposal, v.row)
      <3>1. CASE d = c
        BY <1>4, <2>1, <3>1
      <3>2. CASE d # c
        <4>1. v = writer[d]
          BY <1>4, <2>1, <3>2
        <4> QED
          BY <4>1 DEF ClaimInv, WritersKeepWord, Promised
      <3> QED
        BY <3>1, <3>2
    <2>3. v.pc = "ready" => StillSo(v.existing)'
      BY <1>2, <2>2, StillSoKept
    <2>4. v.pc # "idle" /\ v.verdict = Pass => Sound(d, v.proposal, v.row)'
      BY <1>2, <2>2, SoundKept
    <2>5. StillSo(writer[d].existing)' <=> StillSo(v.existing)'
      BY <2>1
    <2>6. Promised(d)' <=> Sound(d, v.proposal, v.row)'
      BY <2>1 DEF Promised
    <2> QED
      BY <2>1, <2>2, <2>3, <2>4, <2>5, <2>6
  <1>8. \A p \in policies' : Policy(p)
    BY <1>1 DEF ClaimInv
  <1> QED
    BY <1>2, <1>5, <1>6, <1>7, <1>8 DEF ClaimInv

\* A writer that gives up.
LEMMA IdleFields ==
    /\ DOMAIN IdleWriter = WriterFields
    /\ IdleWriter.pc = "idle"
  BY DEF IdleWriter, WriterFields

\* Judge: the gate's yes is a promise.
LEMMA JudgeStep ==
    ASSUME ClaimInv, NEW c \in ClaimIds, NEW offered \in ProposalsOf[c], NEW p \in policies,
           Judge(c, offered, p)
    PROVE  ClaimInv'
  <1>1. PICK pr : pr = Proposed(c, offered)
    OBVIOUS
  <1>2. PICK ctx : ctx = Context(pr)
    OBVIOUS
  <1>3. PICK verdict : verdict = EvaluateClaim(pr, documents, p, ctx)
    OBVIOUS
  <1>4. PICK row : row = IF verdict = Pass THEN AdmissionRow(pr, p, ctx) ELSE None
    OBVIOUS
  <1>5. PICK w : w = [IdleWriter EXCEPT !.pc = "judged", !.proposal = pr,
                                        !.verdict = verdict, !.row = row]
    OBVIOUS
  <1>6. /\ claims[c].state = "absent"
        /\ writer' = [writer EXCEPT ![c] = w]
        /\ UNCHANGED <<claimVars, policies>>
        /\ reviewed' = reviewed
    BY <1>1, <1>2, <1>3, <1>4, <1>5 DEF Judge
  <1>7. verdict = Pass => Sound(c, pr, row)
    BY <1>1, <1>2, <1>3, <1>4, GateAdmits
  <1>8. /\ DOMAIN w = WriterFields
        /\ w.pc = "judged" /\ w.proposal = pr /\ w.verdict = verdict /\ w.row = row
    BY <1>5, IdleFields DEF WriterFields
  <1>9. reviewed' \subseteq ClaimIds
    BY <1>6 DEF ClaimInv
  <1> QED
    BY <1>6, <1>7, <1>8, <1>9, WriterMoves

\* Decline: the writer gives up, and may be approved.
LEMMA DeclineStep ==
    ASSUME ClaimInv, NEW c \in ClaimIds, Decline(c)
    PROVE  ClaimInv'
  <1>1. /\ writer' = [writer EXCEPT ![c] = IdleWriter]
        /\ UNCHANGED <<claimVars, policies>>
    BY DEF Decline
  <1>2. reviewed' \subseteq ClaimIds
    BY DEF Decline, ClaimInv
  <1> QED
    BY <1>1, <1>2, IdleFields, WriterMoves

\* ReadHistory: the slots of live claims.
LEMMA ReadHistoryStep ==
    ASSUME ClaimInv, NEW c \in ClaimIds, ReadHistory(c)
    PROVE  ClaimInv'
  <1>1. PICK rows : rows = PageRows(0, counter, PageLimit)
    OBVIOUS
  <1>2. PICK existing : existing = [d \in rows |-> SlotOf(claims[d].content)]
    OBVIOUS
  <1>3. /\ writer[c].pc = "judged" /\ writer[c].verdict = Pass
        /\ UNCHANGED <<claimVars, policies>>
        /\ reviewed' = reviewed
    BY DEF ReadHistory
  <1>4. reviewed' \subseteq ClaimIds
    BY <1>3 DEF ClaimInv
  <1>5. CASE writer' = [writer EXCEPT ![c] = IdleWriter]
    BY <1>3, <1>4, <1>5, IdleFields, WriterMoves
  <1>6. CASE writer' # [writer EXCEPT ![c] = IdleWriter]
    <2>1. PICK w : w = [writer[c] EXCEPT !.pc = "ready", !.existing = existing]
      OBVIOUS
    <2>2. writer' = [writer EXCEPT ![c] = w]
      BY <1>1, <1>2, <1>6, <2>1 DEF ReadHistory
    <2>3. DOMAIN writer[c] = WriterFields
      BY DEF ClaimInv, Shaped
    <2>4. /\ DOMAIN w = WriterFields
          /\ w.pc = "ready" /\ w.existing = existing
          /\ w.verdict = writer[c].verdict /\ w.proposal = writer[c].proposal
          /\ w.row = writer[c].row
      BY <2>1, <2>3 DEF WriterFields
    <2>5. claims[c].state = "absent"
      BY <1>3 DEF ClaimInv, Fresh
    <2>6. Sound(c, w.proposal, w.row)
      BY <1>3, <2>4 DEF ClaimInv, WritersKeepWord, Promised
    <2>7. rows \subseteq LiveClaims
      BY <1>1 DEF PageRows
    <2>8. StillSo(w.existing)
      BY <1>2, <2>4, <2>7 DEF StillSo, LiveClaims
    <2> QED
      BY <1>3, <1>4, <2>2, <2>4, <2>5, <2>6, <2>8, WriterMoves
  <1> QED
    BY <1>5, <1>6

-----------------------------------------------------------------------------
(* Erasures.                                                               *)

\* A bare row.
LEMMA BareFields ==
    ASSUME NEW row, DOMAIN row = ClaimFields, NEW b, b = Bare(row)
    PROVE  /\ DOMAIN b = ClaimFields
           /\ b.state = "erased" /\ b.content = None /\ b.originErased
           /\ b.seq = row.seq
  BY DEF Bare, ClaimFields

\* A scrubbed admission keeps its rank and stays one.
LEMMA ScrubbedFields ==
    ASSUME NEW row, Admission(row), NEW b, b = Scrubbed(row)
    PROVE  /\ Admission(b)
           /\ b.evidence = {} /\ b.relations = {}
           /\ b.authority = row.authority /\ b.sourcing = row.sourcing
           /\ b.reviewed = row.reviewed
  BY DEF Scrubbed, Admission, AdmissionFields

\* No admission has the sourcing of one.
LEMMA AdmissionIsSome ==
    ASSUME NEW row, Admission(row)
    PROVE  row # NoAdmission
  BY DEF Admission, NoAdmission, Sourcings

\* stage_erase and the cascade keep the invariant: the rows, the relation
\* documents and the evidence go together.
LEMMA EraseRowsStep ==
    ASSUME ClaimInv, NEW S, EraseRows(S), UNCHANGED <<sources, proposals, counter, writerVars>>
    PROVE  ClaimInv'
  <1>1. /\ DOMAIN claims' = ClaimIds /\ DOMAIN admissions' = ClaimIds
        /\ writer' = writer /\ policies' = policies /\ reviewed' = reviewed
        /\ sources' = sources /\ proposals' = proposals /\ counter' = counter
    BY DEF EraseRows, writerVars
  <1>2. ASSUME NEW d \in ClaimIds
        PROVE  /\ DOMAIN claims'[d] = ClaimFields
               /\ \/ claims'[d] = claims[d] /\ ~(d \in S /\ claims[d].state = "live")
                  \/ /\ d \in S /\ claims[d].state = "live"
                     /\ claims'[d].state = "erased" /\ claims'[d].content = None
                     /\ claims'[d].originErased
                     /\ claims'[d].seq = claims[d].seq
    <2>1. DOMAIN claims[d] = ClaimFields
      BY DEF ClaimInv, Shaped
    <2>2. claims'[d] = IF d \in S /\ claims[d].state = "live" THEN Bare(claims[d]) ELSE claims[d]
      BY DEF EraseRows
    <2>3. PICK b : b = Bare(claims[d])
      OBVIOUS
    <2>4. /\ DOMAIN b = ClaimFields
          /\ b.state = "erased" /\ b.content = None /\ b.originErased
          /\ b.seq = claims[d].seq
      BY <2>1, <2>3, BareFields
    <2> QED
      BY <2>1, <2>2, <2>3, <2>4
  <1>3. ASSUME NEW d \in ClaimIds
        PROVE  \/ admissions'[d] = admissions[d] /\ ~(d \in S /\ admissions[d] # NoAdmission)
               \/ /\ d \in S /\ admissions[d] # NoAdmission
                  /\ Admission(admissions'[d])
                  /\ admissions'[d].evidence = {} /\ admissions'[d].relations = {}
                  /\ admissions'[d].authority = admissions[d].authority
                  /\ admissions'[d].sourcing = admissions[d].sourcing
                  /\ admissions'[d].reviewed = admissions[d].reviewed
    <2>1. admissions[d] # NoAdmission => Admission(admissions[d])
      BY DEF ClaimInv, ClaimSound
    <2>2. admissions'[d] = IF d \in S /\ admissions[d] # NoAdmission
                           THEN Scrubbed(admissions[d]) ELSE admissions[d]
      BY DEF EraseRows
    <2>3. PICK b : b = Scrubbed(admissions[d])
      OBVIOUS
    <2>4. Admission(admissions[d]) =>
             /\ Admission(b)
             /\ b.evidence = {} /\ b.relations = {}
             /\ b.authority = admissions[d].authority /\ b.sourcing = admissions[d].sourcing
             /\ b.reviewed = admissions[d].reviewed
      BY <2>3, ScrubbedFields
    <2> QED
      BY <2>1, <2>2, <2>3, <2>4
  <1>4. ASSUME NEW s \in relations'
        PROVE  \E r \in relations : /\ s.from = r.from /\ s.to = r.to /\ s.kind = r.kind
                                    /\ s.document <=> (r.document /\ r.from \notin S)
                                    /\ DOMAIN s = RelationFields
    <2>1. PICK r \in relations : s = [r EXCEPT !.document = r.document /\ r.from \notin S]
      BY <1>4 DEF EraseRows
    <2>2. DOMAIN r = RelationFields
      BY DEF ClaimInv, Shaped
    <2>3. /\ s.from = r.from /\ s.to = r.to /\ s.kind = r.kind
          /\ DOMAIN s = RelationFields
          /\ s.document = (r.document /\ r.from \notin S)
      BY <2>1, <2>2 DEF RelationFields
    <2> QED
      BY <2>3
  <1>5. ASSUME NEW d \in ClaimIds PROVE Keeps(d)
    BY <1>2, <1>3 DEF Keeps
  <1>6. Shaped'
    BY <1>1, <1>2, <1>3, <1>4 DEF ClaimInv, Shaped, Admission
  <1>7. Fresh'
    <2> SUFFICES ASSUME NEW d \in ClaimIds
                 PROVE  /\ writer'[d].pc # "idle" => claims'[d].state = "absent"
                        /\ claims'[d].state = "absent" =>
                              /\ admissions'[d] = NoAdmission
                              /\ \A s \in relations' : s.from # d /\ s.to # d
      BY DEF Fresh
    <2>1. claims'[d].state = "absent" <=> claims[d].state = "absent"
      BY <1>2
    <2>2. claims[d].state = "absent" => \A s \in relations' : s.from # d /\ s.to # d
      BY <1>4 DEF ClaimInv, Fresh
    <2>3. claims[d].state = "absent" => admissions'[d] = NoAdmission
      BY <1>3 DEF ClaimInv, Fresh
    <2> QED
      BY <1>1, <2>1, <2>2, <2>3 DEF ClaimInv, Fresh
  <1>8. WritersKeepWord'
    BY <1>1, <1>5, WritersKept DEF ClaimInv
  <1>9. ASSUME NEW s \in relations' PROVE RelationSound(s)'
    <2>1. PICK r \in relations : /\ s.from = r.from /\ s.to = r.to /\ s.kind = r.kind
                                 /\ s.document <=> (r.document /\ r.from \notin S)
      BY <1>4, <1>9
    <2>2. RelationSound(r) /\ r.from \in ClaimIds /\ r.to \in ClaimIds
      BY DEF ClaimInv, RelationSound
    <2>3. claims[r.from].state # "absent" /\ claims[r.to].state # "absent"
      BY <2>2 DEF ClaimInv, Fresh
    <2>4. admissions[r.from] # NoAdmission
      BY <2>2 DEF RelationSound
    <2>5. admissions'[r.from] # NoAdmission
      BY <1>3, <2>2, <2>4, AdmissionIsSome
    <2> QED
      BY <1>5, <2>1, <2>2, <2>3, <2>5, RelationKept
  <1>10. ASSUME NEW d \in ClaimIds PROVE ClaimSound(d)'
    <2>1. ClaimSound(d)
      BY DEF ClaimInv
    <2>2. claims'[d].state \in {"absent", "live", "erased"} /\ claims'[d].seq \in 0..counter'
      BY <1>1, <1>2, <2>1 DEF ClaimSound
    <2>3. admissions'[d] = NoAdmission \/ Admission(admissions'[d])
      BY <1>3, <2>1 DEF ClaimSound
    <2>4. ASSUME claims'[d].state = "live"
          PROVE  /\ claims'[d].content.id = d
                 /\ admissions'[d] # NoAdmission
                 /\ admissions'[d].authority = claims'[d].authority
                 /\ admissions'[d].sourcing = claims'[d].sourcing
                 /\ ScoreReviewed(admissions'[d])
      <3>1. claims'[d] = claims[d] /\ d \notin S
        BY <1>2, <2>4
      <3>2. admissions'[d] = admissions[d]
        BY <1>3, <3>1
      <3> QED
        BY <2>1, <2>4, <3>1, <3>2 DEF ClaimSound
    <2>5. ASSUME claims'[d].state = "erased"
          PROVE  /\ claims'[d].content = None /\ claims'[d].originErased
                 /\ \A s \in relations' : s.from = d => ~s.document
                 /\ admissions'[d] # NoAdmission =>
                       admissions'[d].evidence = {} /\ admissions'[d].relations = {}
      <3>1. d \in S \/ claims[d].state = "erased"
        BY <1>2, <2>5
      <3>2. claims'[d].content = None /\ claims'[d].originErased
        BY <1>2, <2>1, <2>5 DEF ClaimSound
      <3>3. \A s \in relations' : s.from = d => ~s.document
        BY <1>4, <2>1, <3>1 DEF ClaimSound
      <3>4. admissions'[d] # NoAdmission => admissions'[d].evidence = {} /\ admissions'[d].relations = {}
        BY <1>3, <2>1, <3>1 DEF ClaimSound
      <3> QED
        BY <3>2, <3>3, <3>4
    <2> QED
      BY <2>2, <2>3, <2>4, <2>5 DEF ClaimSound
  <1> QED
    BY <1>1, <1>6, <1>7, <1>8, <1>9, <1>10 DEF ClaimInv

\* An erasure without a cascade marks the claims that cite the memory.
LEMMA MarkStep ==
    ASSUME ClaimInv, NEW S,
           claims' = [c \in ClaimIds |-> IF c \in S /\ claims[c].state = "live"
                                         THEN [claims[c] EXCEPT !.originErased = TRUE]
                                         ELSE claims[c]],
           UNCHANGED <<admissions, relations, sources, proposals, counter, writerVars>>
    PROVE  ClaimInv'
  <1>1. /\ DOMAIN claims' = ClaimIds /\ admissions' = admissions /\ relations' = relations
        /\ writer' = writer /\ policies' = policies /\ reviewed' = reviewed
        /\ sources' = sources /\ proposals' = proposals /\ counter' = counter
    BY DEF writerVars
  <1>2. ASSUME NEW d \in ClaimIds
        PROVE  /\ DOMAIN claims'[d] = ClaimFields
               /\ claims'[d].state = claims[d].state /\ claims'[d].seq = claims[d].seq
               /\ claims'[d].content = claims[d].content
               /\ claims'[d].authority = claims[d].authority
               /\ claims'[d].sourcing = claims[d].sourcing
               /\ claims[d].state = "live" \/ claims'[d] = claims[d]
    <2>1. DOMAIN claims[d] = ClaimFields
      BY DEF ClaimInv, Shaped
    <2>2. PICK b : b = [claims[d] EXCEPT !.originErased = TRUE]
      OBVIOUS
    <2>3. /\ DOMAIN b = ClaimFields
          /\ b.state = claims[d].state /\ b.seq = claims[d].seq /\ b.content = claims[d].content
          /\ b.authority = claims[d].authority /\ b.sourcing = claims[d].sourcing
      BY <2>1, <2>2 DEF ClaimFields
    <2>4. claims'[d] = IF d \in S /\ claims[d].state = "live" THEN b ELSE claims[d]
      BY <2>2
    <2> QED
      BY <2>1, <2>3, <2>4
  <1>3. \A d \in ClaimIds : Keeps(d)
    BY <1>1, <1>2 DEF Keeps
  <1>4. Shaped'
    BY <1>1, <1>2 DEF ClaimInv, Shaped
  <1>5. Fresh'
    BY <1>1, <1>2 DEF ClaimInv, Fresh
  <1>6. WritersKeepWord'
    BY <1>1, <1>3, WritersKept DEF ClaimInv
  <1>7. ASSUME NEW r \in relations' PROVE RelationSound(r)'
    <2>1. r \in relations /\ RelationSound(r)
      BY <1>1, <1>7 DEF ClaimInv
    <2>2. r.from \in ClaimIds /\ r.to \in ClaimIds /\ admissions'[r.from] # NoAdmission
      BY <1>1, <2>1 DEF RelationSound
    <2>3. claims[r.from].state # "absent" /\ claims[r.to].state # "absent"
      BY <2>1, <2>2 DEF ClaimInv, Fresh
    <2> QED
      BY <1>3, <2>1, <2>2, <2>3, RelationKept
  <1>8. ASSUME NEW d \in ClaimIds PROVE ClaimSound(d)'
    <2>1. ClaimSound(d)
      BY DEF ClaimInv
    <2> QED
      BY <1>1, <1>2, <2>1 DEF ClaimSound
  <1> QED
    BY <1>1, <1>4, <1>5, <1>6, <1>7, <1>8 DEF ClaimInv

\* A batch of a scope erasure leaves tombstones and nothing else; what is
\* being written beside it keeps its word.
LEMMA EraseScopeStep ==
    ASSUME ClaimInv, NEW batch, EraseScope(batch)
    PROVE  ClaimInv'
  <1>1. /\ claims' = [c \in ClaimIds |-> IF claims[c].state = "live" THEN Bare(claims[c])
                                                                     ELSE claims[c]]
        /\ admissions' = [c \in ClaimIds |-> NoAdmission]
        /\ relations' = {} /\ sources' = {} /\ proposals' = {} /\ counter' = counter
        /\ writer' = writer /\ policies' = policies /\ reviewed' = reviewed
    BY DEF EraseScope, writerVars
  <1>2. ASSUME NEW d \in ClaimIds
        PROVE  /\ DOMAIN claims'[d] = ClaimFields
               /\ claims'[d].seq = claims[d].seq
               /\ \/ claims'[d] = claims[d] /\ claims[d].state # "live"
                  \/ /\ claims[d].state = "live"
                     /\ claims'[d].state = "erased" /\ claims'[d].content = None
                     /\ claims'[d].originErased
    <2>1. DOMAIN claims[d] = ClaimFields
      BY DEF ClaimInv, Shaped
    <2>2. PICK b : b = Bare(claims[d])
      OBVIOUS
    <2>3. /\ DOMAIN b = ClaimFields
          /\ b.state = "erased" /\ b.content = None /\ b.originErased
          /\ b.seq = claims[d].seq
      BY <2>1, <2>2, BareFields
    <2>4. claims'[d] = IF claims[d].state = "live" THEN b ELSE claims[d]
      BY <1>1, <2>2
    <2> QED
      BY <2>1, <2>3, <2>4
  <1>3. \A d \in ClaimIds : admissions'[d] = NoAdmission
    BY <1>1
  <1>4. \A d \in ClaimIds : Keeps(d)
    BY <1>2, <1>3 DEF Keeps
  <1>5. DOMAIN NoAdmission = AdmissionFields
    BY DEF NoAdmission, AdmissionFields
  <1>6. Shaped'
    BY <1>1, <1>2, <1>3, <1>5 DEF ClaimInv, Shaped
  <1>7. Fresh'
    BY <1>1, <1>2, <1>3 DEF ClaimInv, Fresh
  <1>8. WritersKeepWord'
    BY <1>1, <1>4, WritersKept DEF ClaimInv
  <1>9. ASSUME NEW d \in ClaimIds PROVE ClaimSound(d)'
    <2>1. ClaimSound(d)
      BY DEF ClaimInv
    <2> QED
      BY <1>1, <1>2, <1>3, <2>1 DEF ClaimSound
  <1> QED
    BY <1>1, <1>6, <1>7, <1>8, <1>9 DEF ClaimInv

\* A retraction takes a number and touches no claim.
LEMMA RetractStep ==
    ASSUME ClaimInv, NEW c, Retract(c)
    PROVE  ClaimInv'
  <1>1. /\ counter' = counter + 1
        /\ claims' = claims /\ relations' = relations /\ admissions' = admissions
        /\ writer' = writer /\ policies' = policies /\ reviewed' = reviewed
        /\ sources' = sources /\ proposals' = proposals
    BY DEF Retract, NextTx, writerVars
  <1>2. counter \in Nat /\ counter' \in Nat
    BY <1>1 DEF ClaimInv
  <1>3. \A d \in ClaimIds : Keeps(d)
    BY <1>1 DEF Keeps
  <1>4. WritersKeepWord'
    BY <1>1, <1>3, WritersKept DEF ClaimInv
  <1>5. ASSUME NEW d \in ClaimIds PROVE ClaimSound(d)'
    <2>1. ClaimSound(d)
      BY DEF ClaimInv
    <2>2. claims[d].seq \in 0..counter'
      BY <1>1, <1>2, <2>1 DEF ClaimSound
    <2> QED
      BY <1>1, <2>1, <2>2 DEF ClaimSound
  <1>6. \A r \in relations' : RelationSound(r)'
    BY <1>1 DEF ClaimInv, RelationSound, LiveClaims
  <1> QED
    BY <1>1, <1>2, <1>4, <1>5, <1>6 DEF ClaimInv, Shaped, Fresh

-----------------------------------------------------------------------------
(* Appending.                                                              *)

\* stage_append: what was promised to the writer is what the tables then
\* hold; a superseded claim that still lives is of the slot that was read.
LEMMA AppendStep ==
    ASSUME ClaimInv, NEW c \in ClaimIds, Append(c)
    PROVE  ClaimInv'
  <1>1. PICK w : w = writer[c]
    OBVIOUS
  <1>2. w.pc = "ready" /\ writer' = [writer EXCEPT ![c] = IdleWriter]
        /\ policies' = policies /\ reviewed' = reviewed
    BY <1>1 DEF Append
  <1>3. /\ w.verdict = Pass /\ StillSo(w.existing) /\ Sound(c, w.proposal, w.row)
        /\ claims[c].state = "absent"
    BY <1>1, <1>2 DEF ClaimInv, WritersKeepWord, Promised, Fresh
  <1>4. CASE ~WithinSlot(w)
    <2>1. UNCHANGED <<claimVars, policies>> /\ reviewed' \subseteq ClaimIds
      BY <1>1, <1>4 DEF Append, claimVars, ClaimInv
    <2> QED
      BY <1>2, <2>1, IdleFields, WriterMoves
  <1>5. CASE WithinSlot(w)
    <2>1. PICK pr : pr = w.proposal
      OBVIOUS
    <2>2. PICK row : row = w.row
      OBVIOUS
    <2>3. PICK new : new = [state |-> "live", seq |-> counter + 1, authority |-> row.authority,
                            sourcing |-> row.sourcing, content |-> pr.claim,
                            originErased |-> FALSE]
      OBVIOUS
    <2>4. /\ counter' = counter + 1
          /\ claims' = [claims EXCEPT ![c] = new]
          /\ sources' = sources \cup {<<c, m>> : m \in pr.claim.derivedFrom}
          /\ relations' = relations \cup
                {[from |-> c, kind |-> r.kind, to |-> r.to, seq |-> counter + 1,
                  document |-> TRUE] : r \in pr.relations}
          /\ admissions' = [admissions EXCEPT ![c] = row]
          /\ proposals' = proposals \cup {c}
      BY <1>1, <1>5, <2>1, <2>2, <2>3 DEF Append, NextTx
    <2>5. /\ DOMAIN claims = ClaimIds /\ DOMAIN admissions = ClaimIds /\ DOMAIN writer = ClaimIds
      BY DEF ClaimInv, Shaped
    <2>6. /\ DOMAIN claims' = ClaimIds /\ DOMAIN admissions' = ClaimIds /\ DOMAIN writer' = ClaimIds
          /\ claims'[c] = new /\ admissions'[c] = row /\ writer'[c] = IdleWriter
          /\ \A d \in ClaimIds \ {c} : /\ claims'[d] = claims[d] /\ admissions'[d] = admissions[d]
                                       /\ writer'[d] = writer[d]
      BY <1>2, <2>4, <2>5
    <2>7. /\ DOMAIN new = ClaimFields
          /\ new.state = "live" /\ new.seq = counter + 1 /\ new.content = pr.claim
          /\ new.authority = row.authority /\ new.sourcing = row.sourcing
      BY <2>3 DEF ClaimFields
    <2>8. Sound(c, pr, row)
      BY <1>3, <2>1, <2>2
    <2>9. Admission(row) /\ ScoreReviewed(row) /\ row # NoAdmission
      BY <2>8, AdmissionIsSome DEF Sound
    <2>10. ASSUME NEW s \in relations', s \notin relations
           PROVE  /\ s.from = c /\ DOMAIN s = RelationFields
                  /\ \E r \in pr.relations : s.kind = r.kind /\ s.to = r.to
      <3>1. PICK r \in pr.relations : s = [from |-> c, kind |-> r.kind, to |-> r.to,
                                           seq |-> counter + 1, document |-> TRUE]
        BY <2>4, <2>10
      <3> QED
        BY <3>1 DEF RelationFields
    <2>11. relations \subseteq relations'
      BY <2>4
    <2>12. ASSUME NEW r \in pr.relations
           PROVE  /\ r.to \in ClaimIds /\ r.to # c /\ claims[r.to].state # "absent"
                  /\ r.kind = "supersedes" /\ admissions[r.to] # NoAdmission
                        => MayReplace(row, admissions[r.to])
      BY <1>3, <2>8 DEF Sound
    <2>13. \A d \in ClaimIds : Keeps(d)
      BY <1>3, <2>6 DEF Keeps
    <2>14. Shaped'
      <3>1. \A d \in ClaimIds : /\ DOMAIN claims'[d] = ClaimFields
                                /\ DOMAIN admissions'[d] = AdmissionFields
                                /\ DOMAIN writer'[d] = WriterFields
        BY <2>6, <2>7, <2>9, IdleFields DEF ClaimInv, Shaped, Admission
      <3>2. \A s \in relations' : DOMAIN s = RelationFields
        BY <2>10 DEF ClaimInv, Shaped
      <3> QED
        BY <2>6, <3>1, <3>2 DEF Shaped
    <2>15. Fresh'
      <3> SUFFICES ASSUME NEW d \in ClaimIds
                   PROVE  /\ writer'[d].pc # "idle" => claims'[d].state = "absent"
                          /\ claims'[d].state = "absent" =>
                                /\ admissions'[d] = NoAdmission
                                /\ \A s \in relations' : s.from # d /\ s.to # d
        BY DEF Fresh
      <3>1. CASE d = c
        BY <2>6, <2>7, <3>1, IdleFields
      <3>2. CASE d # c
        <4>1. claims'[d] = claims[d] /\ admissions'[d] = admissions[d] /\ writer'[d] = writer[d]
          BY <2>6, <3>2
        <4>2. ASSUME claims[d].state = "absent", NEW s \in relations'
              PROVE  s.from # d /\ s.to # d
          <5>1. CASE s \in relations
            BY <4>2, <5>1 DEF ClaimInv, Fresh
          <5>2. CASE s \notin relations
            BY <2>10, <2>12, <3>2, <4>2, <5>2
          <5> QED
            BY <5>1, <5>2
        <4> QED
          BY <4>1, <4>2 DEF ClaimInv, Fresh
      <3> QED
        BY <3>1, <3>2
    <2>16. WritersKeepWord'
      BY <2>6, <2>13, WritersKept DEF ClaimInv
    <2>17. ASSUME NEW s \in relations' PROVE RelationSound(s)'
      <3>1. CASE s \in relations
        <4>1. RelationSound(s) /\ s.from \in ClaimIds /\ s.to \in ClaimIds
          BY <3>1 DEF ClaimInv, RelationSound
        <4>2. claims[s.from].state # "absent" /\ claims[s.to].state # "absent"
          BY <3>1, <4>1 DEF ClaimInv, Fresh
        <4>3. s.from # c /\ admissions'[s.from] = admissions[s.from]
          BY <1>3, <2>6, <4>1, <4>2
        <4>4. admissions'[s.from] # NoAdmission
          BY <4>1, <4>3 DEF RelationSound
        <4> QED
          BY <2>13, <4>1, <4>2, <4>4, RelationKept
      <3>2. CASE s \notin relations
        <4>1. PICK r \in pr.relations : s.kind = r.kind /\ s.to = r.to
          BY <2>10, <2>17, <3>2
        <4>2. s.from = c
          BY <2>10, <2>17, <3>2
        <4>3. /\ r.to \in ClaimIds /\ r.to # c
              /\ r.kind = "supersedes" /\ admissions[r.to] # NoAdmission
                    => MayReplace(row, admissions[r.to])
          BY <2>12
        <4>4. claims'[r.to] = claims[r.to] /\ admissions'[r.to] = admissions[r.to]
          BY <2>6, <4>3
        <4>5. ASSUME r.kind = "supersedes", claims[r.to].state = "live"
              PROVE  SlotOf(claims[r.to].content) = SlotOf(pr.claim)
          <5>1. r.to \in DOMAIN w.existing /\ w.existing[r.to] = SlotOf(pr.claim)
            BY <1>5, <2>1, <4>5 DEF WithinSlot
          <5>2. w.existing[r.to] = SlotOf(claims[r.to].content)
            BY <1>3, <4>5, <5>1 DEF StillSo
          <5> QED
            BY <5>1, <5>2
        <4>6. r.kind = "supersedes" /\ claims'[r.to].state = "live"
                 => SlotOf(claims'[c].content) = SlotOf(claims'[r.to].content)
          BY <2>6, <2>7, <4>4, <4>5
        <4> QED
          BY <2>6, <2>9, <4>1, <4>2, <4>3, <4>4, <4>6 DEF RelationSound, LiveClaims
      <3> QED
        BY <3>1, <3>2
    <2>18. counter \in Nat /\ counter' \in Nat
      BY <2>4 DEF ClaimInv
    <2>19. ASSUME NEW d \in ClaimIds PROVE ClaimSound(d)'
      <3>1. CASE d = c
        <4>1. new.seq \in 0..counter'
          BY <2>4, <2>7, <2>18
        <4>2. pr.claim.id = c
          BY <2>8 DEF Sound
        <4> QED
          BY <2>6, <2>7, <2>9, <3>1, <4>1, <4>2 DEF ClaimSound
      <3>2. CASE d # c
        <4>1. claims'[d] = claims[d] /\ admissions'[d] = admissions[d] /\ ClaimSound(d)
          BY <2>6, <3>2 DEF ClaimInv
        <4>2. claims[d].seq \in 0..counter'
          BY <2>4, <2>18, <4>1 DEF ClaimSound
        <4>3. ASSUME claims[d].state = "erased", NEW s \in relations', s.from = d
              PROVE  ~s.document
          BY <2>10, <3>2, <4>1, <4>3 DEF ClaimSound
        <4> QED
          BY <4>1, <4>2, <4>3 DEF ClaimSound
      <3> QED
        BY <3>1, <3>2
    <2>20. sources' \subseteq ClaimIds \X Memories
      BY <2>4, <2>8 DEF Sound, ClaimInv
    <2> QED
      BY <1>2, <2>4, <2>14, <2>15, <2>16, <2>17, <2>18, <2>19, <2>20 DEF ClaimInv
  <1> QED
    BY <1>4, <1>5

\* A registered policy is legal.
LEMMA PolicyStep ==
    ASSUME ClaimInv, NEW p \in PolicyOffers, RegisterPolicy(p)
    PROVE  ClaimInv'
  <1>1. /\ claimVars' = claimVars /\ writer' = writer /\ reviewed' = reviewed
        /\ policies' = policies \cup {p} /\ LegalPolicy(p)
    BY DEF RegisterPolicy
  <1>2. Policy(p)
    BY <1>1, OffersAreLevels DEF Policy
  <1>3. /\ claims' = claims /\ relations' = relations /\ admissions' = admissions
    BY <1>1 DEF claimVars
  <1>4. /\ counter' \in Nat
        /\ sources' \subseteq ClaimIds \X Memories
        /\ proposals' \subseteq ClaimIds
        /\ \A r \in relations' : RelationSound(r)'
        /\ \A d \in ClaimIds : ClaimSound(d)' /\ Keeps(d)
    BY <1>1, TablesUnchanged
  <1>5. WritersKeepWord'
    BY <1>1, <1>4, WritersKept DEF ClaimInv
  <1>6. \A q \in policies' : Policy(q)
    BY <1>1, <1>2 DEF ClaimInv
  <1> QED
    BY <1>1, <1>3, <1>4, <1>5, <1>6 DEF ClaimInv, Shaped, Fresh

\* Steps of the gate and of the registry leave the claims alone.
LEMMA ElsewhereStep ==
    ASSUME ClaimInv, UNCHANGED <<claimVars, writerVars>>
    PROVE  ClaimInv'
  <1>1. /\ claims' = claims /\ relations' = relations /\ admissions' = admissions
        /\ writer' = writer /\ reviewed' = reviewed /\ policies' = policies
    BY DEF claimVars, writerVars
  <1>2. /\ counter' \in Nat
        /\ sources' \subseteq ClaimIds \X Memories
        /\ proposals' \subseteq ClaimIds
        /\ \A r \in relations' : RelationSound(r)'
        /\ \A d \in ClaimIds : ClaimSound(d)' /\ Keeps(d)
    BY TablesUnchanged
  <1>3. WritersKeepWord'
    BY <1>1, <1>2, WritersKept DEF ClaimInv
  <1> QED
    BY <1>1, <1>2, <1>3 DEF ClaimInv, Shaped, Fresh

\* Every step preserves the invariant of the claim tables.
LEMMA ClaimNext ==
    ASSUME ClaimInv, [Next]_vars
    PROVE  ClaimInv'
  <1>1. ASSUME NEW c \in ClaimIds, ClaimStep(c)
        PROVE  ClaimInv'
    <2>1. ASSUME NEW pr \in ProposalsOf[c], NEW p \in policies, Judge(c, pr, p)
          PROVE  ClaimInv'
      BY <2>1, JudgeStep
    <2>2. ASSUME EraseClaim(c)
          PROVE  ClaimInv'
      BY <2>2, EraseRowsStep DEF EraseClaim
    <2> QED
      BY <1>1, <2>1, <2>2, ReadHistoryStep, DeclineStep, AppendStep, RetractStep DEF ClaimStep
  <1>2. ASSUME NEW m \in Memories, NEW cascade \in BOOLEAN, EraseMemory(m, cascade)
        PROVE  ClaimInv'
    <2> DEFINE citing == {c \in ClaimIds : <<c, m>> \in sources}
    <2>1. UNCHANGED <<sources, proposals, counter, writerVars>>
      BY <1>2 DEF EraseMemory
    <2>2. CASE cascade
      <3>1. EraseRows(citing)
        BY <1>2, <2>2 DEF EraseMemory
      <3> QED
        BY <2>1, <3>1, EraseRowsStep
    <2>3. CASE ~cascade
      <3>1. /\ claims' = [c \in ClaimIds |-> IF c \in citing /\ claims[c].state = "live"
                                             THEN [claims[c] EXCEPT !.originErased = TRUE]
                                             ELSE claims[c]]
            /\ UNCHANGED <<admissions, relations>>
        BY <1>2, <2>3 DEF EraseMemory
      <3> HIDE DEF citing
      <3>2. UNCHANGED <<admissions, relations, sources, proposals, counter, writerVars>>
        BY <2>1, <3>1
      <3> QED
        BY <3>1, <3>2, MarkStep
    <2> QED
      BY <2>2, <2>3
  <1>3. CASE ErasureStep
    BY <1>2, <1>3, EraseScopeStep DEF ErasureStep
  <1>4. CASE UNCHANGED <<claimVars, writerVars>>
    BY <1>4, ElsewhereStep
  <1> QED
    BY <1>1, <1>3, <1>4, PolicyStep DEF Next, vars

\* The initial tables.
LEMMA ClaimInit == Init => ClaimInv
  <1> SUFFICES ASSUME Init PROVE ClaimInv
    OBVIOUS
  <1>1. /\ DOMAIN NoAdmission = AdmissionFields
        /\ DOMAIN NoClaim = ClaimFields
        /\ NoClaim.state = "absent" /\ NoClaim.seq = 0
    BY DEF NoAdmission, NoClaim, AdmissionFields, ClaimFields
  <1>2. Policy(InitialPolicy)
    BY DEF Policy, LegalPolicy, InitialPolicy
  <1>3. Shaped /\ Fresh /\ WritersKeepWord
    BY <1>1, IdleFields DEF Init, Shaped, Fresh, WritersKeepWord
  <1>4. \A c \in ClaimIds : ClaimSound(c)
    BY <1>1 DEF Init, ClaimSound
  <1> QED
    BY <1>2, <1>3, <1>4 DEF Init, ClaimInv

-----------------------------------------------------------------------------
(* What the claim tables promise.                                          *)

\* The claim tables, the writers beside them and the policies they were
\* judged under keep their invariant whatever is written, retracted, erased
\* and registered in between (Gate::evaluate_claim, stage_append, stage_erase,
\* the cascade of an erasure and the erasure of the scope).
THEOREM ClaimInvariance == Spec => []ClaimInv
  <1>1. ClaimInv /\ [Next]_vars => ClaimInv'
    BY ClaimNext
  <1> QED
    BY ClaimInit, <1>1, PTL DEF Spec

\* Type correctness: what stage_append writes together stays together, so that
\* a live claim has its admission at its authority and sourcing.
THEOREM ClaimTypes == Spec => []TypeOK
  <1>1. Init => GateInv
    BY DEF Init, WriteGateInit, GateInv, InSightIsAnswered, NoMemory, MemoryState
  <1>2. GateInv /\ [Next]_vars => GateInv'
    BY GateNext
  <1>3. GateInv /\ ClaimInv => TypeOK
    BY DEF GateInv, ClaimInv, ClaimSound, RelationSound, TypeOK
  <1> QED
    BY <1>1, <1>2, <1>3, ClaimInvariance, PTL DEF Spec

\* Only its tombstone is left of an erased claim: a writer that was under way
\* when stage_erase or the cascade ran never brings content, relation documents
\* or evidence back.
THEOREM ErasedBareClaims == Spec => []ErasedClaimsAreBare
  <1>1. ClaimInv => ErasedClaimsAreBare
    BY DEF ClaimInv, ClaimSound, ErasedClaimsAreBare
  <1> QED
    BY <1>1, ClaimInvariance, PTL

\* No claim is replaced by one of less authority without a review, and the
\* user's own word replaces no supplier's, although the gate's `relate` saw the
\* admissions of an earlier read.
THEOREM UserWord == Spec => []UserWordStands
  <1>1. ClaimInv => UserWordStands
    BY DEF ClaimInv, RelationSound, MayReplace, UserWordStands
  <1> QED
    BY <1>1, ClaimInvariance, PTL

\* A model's score admits no claim by itself under any policy that
\* AdmissionPolicy::new accepts: `ground` asks for a review.
THEOREM ScoresReviewed == Spec => []ScoresNeedReview
  <1>1. ClaimInv => ScoresNeedReview
    BY DEF ClaimInv, ClaimSound, ScoreReviewed, LiveClaims, ScoresNeedReview
  <1> QED
    BY <1>1, ClaimInvariance, PTL

\* ClaimRepo::history reads a page that holds the whole subject without an
\* Integrity error, although stage_append compared slots of an older read.
THEOREM HistoryReads == Spec => []WholeHistoryReads
  <1>1. ClaimInv => WholeHistoryReads
    BY DEF ClaimInv, RelationSound, WholeHistoryReads, PageReads
  <1> QED
    BY <1>1, ClaimInvariance, PTL

\* What a step may do to the claims as of an earlier number.
ShrinkStep ==
    /\ counter' >= counter
    /\ \A c \in ClaimIds :
          claims'[c].state = "live" /\ claims'[c].seq <= counter
              => claims[c].state = "live" /\ claims'[c].seq = claims[c].seq

\* Erasures take claims away and add none.
LEMMA EraseRowsShrink ==
    ASSUME ClaimInv, NEW S, EraseRows(S), NEW c \in ClaimIds, claims'[c].state = "live"
    PROVE  claims'[c] = claims[c]
  <1>1. DOMAIN claims[c] = ClaimFields
    BY DEF ClaimInv, Shaped
  <1>2. PICK b : b = Bare(claims[c])
    OBVIOUS
  <1>3. b.state = "erased"
    BY <1>1, <1>2, BareFields
  <1>4. claims'[c] = IF c \in S /\ claims[c].state = "live" THEN b ELSE claims[c]
    BY <1>2 DEF EraseRows
  <1> QED
    BY <1>3, <1>4

\* Every step leaves what was known as of the current number, or takes away.
LEMMA NextShrinks ==
    ASSUME ClaimInv, [Next]_vars
    PROVE  ShrinkStep
  <1>1. counter \in Nat
    BY DEF ClaimInv
  <1>2. ASSUME counter' = counter, \A c \in ClaimIds : claims'[c].state = "live" => claims'[c] = claims[c]
        PROVE  ShrinkStep
    BY <1>1, <1>2 DEF ShrinkStep
  <1>3. ASSUME NEW c \in ClaimIds, Append(c)
        PROVE  ShrinkStep
    <2>1. CASE counter' = counter /\ claims' = claims
      BY <1>2, <2>1
    <2>2. CASE ~(counter' = counter /\ claims' = claims)
      <3>1. PICK new : new = claims'[c]
        OBVIOUS
      <3>2. DOMAIN claims = ClaimIds
        BY DEF ClaimInv, Shaped
      <3>3. counter' = counter + 1
        BY <1>3, <2>2 DEF Append, NextTx
      <3>4. claims'[c].seq = counter + 1
        BY <1>3, <2>2, <3>2 DEF Append, NextTx
      <3>5. \A d \in ClaimIds \ {c} : claims'[d] = claims[d]
        BY <1>3, <2>2, <3>2 DEF Append
      <3>6. ~(claims'[c].seq <= counter)
        BY <1>1, <3>4
      <3> QED
        BY <1>1, <3>3, <3>5, <3>6 DEF ShrinkStep
    <2> QED
      BY <2>1, <2>2
  <1>4. ASSUME NEW c \in ClaimIds, ClaimStep(c)
        PROVE  ShrinkStep
    <2>1. CASE \E pr \in ProposalsOf[c], p \in policies : Judge(c, pr, p)
      BY <1>2, <2>1 DEF Judge, claimVars
    <2>2. CASE ReadHistory(c)
      BY <1>2, <2>2 DEF ReadHistory, claimVars
    <2>3. CASE Decline(c)
      BY <1>2, <2>3 DEF Decline, claimVars
    <2>4. CASE Retract(c)
      BY <1>1, <2>4 DEF Retract, NextTx, ShrinkStep
    <2>5. CASE EraseClaim(c)
      BY <1>2, <2>5, EraseRowsShrink DEF EraseClaim
    <2> QED
      BY <1>3, <1>4, <2>1, <2>2, <2>3, <2>4, <2>5 DEF ClaimStep
  <1>5. ASSUME NEW m \in Memories, NEW cascade \in BOOLEAN, EraseMemory(m, cascade)
        PROVE  ShrinkStep
    <2> DEFINE citing == {c \in ClaimIds : <<c, m>> \in sources}
    <2>1. counter' = counter
      BY <1>5 DEF EraseMemory
    <2>2. CASE cascade
      <3>1. EraseRows(citing)
        BY <1>5, <2>2 DEF EraseMemory
      <3> QED
        BY <1>2, <2>1, <3>1, EraseRowsShrink
    <2>3. CASE ~cascade
      <3> SUFFICES ASSUME NEW c \in ClaimIds
                   PROVE  claims'[c].state = claims[c].state /\ claims'[c].seq = claims[c].seq
        BY <1>1, <2>1 DEF ShrinkStep
      <3>1. DOMAIN claims[c] = ClaimFields
        BY DEF ClaimInv, Shaped
      <3>2. PICK b : b = [claims[c] EXCEPT !.originErased = TRUE]
        OBVIOUS
      <3>3. b.state = claims[c].state /\ b.seq = claims[c].seq
        BY <3>1, <3>2 DEF ClaimFields
      <3>4. claims'[c] = IF c \in citing /\ claims[c].state = "live" THEN b ELSE claims[c]
        BY <1>5, <2>3, <3>2 DEF EraseMemory
      <3> QED
        BY <3>3, <3>4
    <2> QED
      BY <2>2, <2>3
  <1>6. ASSUME NEW batch, EraseScope(batch)
        PROVE  ShrinkStep
    <2>1. counter' = counter
      BY <1>6 DEF EraseScope
    <2>2. ASSUME NEW c \in ClaimIds, claims'[c].state = "live"
          PROVE  claims'[c] = claims[c]
      <3>1. DOMAIN claims[c] = ClaimFields
        BY DEF ClaimInv, Shaped
      <3>2. PICK b : b = Bare(claims[c])
        OBVIOUS
      <3>3. b.state = "erased"
        BY <3>1, <3>2, BareFields
      <3>4. claims'[c] = IF claims[c].state = "live" THEN b ELSE claims[c]
        BY <1>6, <3>2 DEF EraseScope
      <3> QED
        BY <2>2, <3>3, <3>4
    <2> QED
      BY <1>2, <2>1, <2>2
  <1>7. CASE ErasureStep
    BY <1>5, <1>6, <1>7 DEF ErasureStep
  <1>8. CASE UNCHANGED claimVars
    BY <1>2, <1>8 DEF claimVars
  <1>9. ASSUME NEW p \in PolicyOffers, RegisterPolicy(p)
        PROVE  ShrinkStep
    BY <1>8, <1>9 DEF RegisterPolicy
  <1> QED
    BY <1>4, <1>7, <1>8, <1>9 DEF Next, vars

\* Sequence numbers only grow and are never given twice, and what was known as
\* of a number is only ever lost to an erasure: NEXT_TX outlives the scope.
THEOREM KnowledgeShrinks == Spec => KnowledgeOnlyShrinks
  <1>1. ClaimInv /\ [Next]_vars => [ShrinkStep]_vars
    BY NextShrinks
  <1>2. Spec => [][ShrinkStep]_vars
    BY <1>1, ClaimInvariance, PTL DEF Spec
  <1> QED
    BY <1>2 DEF KnowledgeOnlyShrinks, ShrinkStep

-----------------------------------------------------------------------------
(* The vocabulary, where one operator at a time registers documents.       *)

\* What a document keeps saying of a claim.
Speaks(claim, d) ==
    /\ claim.predicate \in DOMAIN d.predicates
    /\ d.predicates[claim.predicate].kind = claim.value.kind
    /\ claim.value.kind = "decimal" /\ claim.value.unit # "none"
          => claim.value.unit \in d.predicates[claim.predicate].units
    /\ claim.slot = "none" <=> d.predicates[claim.predicate].cardinality = "one"

Spoken(claim) == documents # {} /\ Speaks(claim, LatestOf(documents))

\* The registered documents: one of each version, and one that is the latest
\* and follows every other.  What an operator validated is still new.
DocumentsChain ==
    /\ \A d \in documents : d.version \in Nat
    /\ \A d, e \in documents : d.version = e.version => d = e
    /\ documents # {} =>
          \E l \in documents : \A d \in documents : d.version <= l.version /\ Successor(d, l)
    /\ DOMAIN plan = Operators
    /\ \A o \in Operators : \A d \in plan[o] :
          d.version \in Nat /\ CheckDocument(documents, d) = "new"

VocabularyInv ==
    /\ DocumentsChain
    /\ \A c \in ClaimIds :
          /\ writer[c].pc # "idle" /\ writer[c].verdict = Pass => Spoken(writer[c].proposal.claim)
          /\ claims[c].state = "live" => Spoken(claims[c].content)

\* Successor follows itself and composes.
LEMMA SuccessorOrder ==
    ASSUME NEW d, NEW e, NEW f
    PROVE  /\ Successor(d, d)
           /\ Successor(d, e) /\ Successor(e, f) => Successor(d, f)
  BY DEF Successor

\* A successor says the same of a claim.
LEMMA SpeaksFollows ==
    ASSUME NEW d, NEW e, Successor(d, e), NEW claim, Speaks(claim, d)
    PROVE  Speaks(claim, e)
  BY DEF Successor, Speaks

\* The latest document is the one with the highest version.
LEMMA LatestIs ==
    ASSUME NEW docs, \A d \in docs : d.version \in Nat,
           \A d, e \in docs : d.version = e.version => d = e,
           NEW l \in docs, \A d \in docs : d.version <= l.version
    PROVE  LatestOf(docs) = l
  <1>1. PICK k : k = LatestOf(docs)
    OBVIOUS
  <1>2. k \in docs /\ \A e \in docs : e.version <= k.version
    BY <1>1 DEF LatestOf
  <1>3. k.version <= l.version /\ l.version <= k.version /\ k.version \in Nat /\ l.version \in Nat
    BY <1>2
  <1>4. k.version = l.version
    BY <1>3
  <1> QED
    BY <1>1, <1>2, <1>4

\* A document that is new follows the latest.
LEMMA NewFollows ==
    ASSUME NEW docs, NEW d, CheckDocument(docs, d) = "new"
    PROVE  /\ \A e \in docs : e.version # d.version
           /\ docs # {} => ~(d.version < LatestOf(docs).version) /\ Successor(LatestOf(docs), d)
  BY DEF CheckDocument

\* The document an operator registers becomes the latest.
LEMMA ChainGrows ==
    ASSUME DocumentsChain, NEW d, d.version \in Nat, CheckDocument(documents, d) = "new",
           NEW docs, docs = documents \cup {d}
    PROVE  /\ \A e \in docs : e.version \in Nat
           /\ \A e, f \in docs : e.version = f.version => e = f
           /\ \A e \in docs : e.version <= d.version /\ Successor(e, d)
           /\ LatestOf(docs) = d
           /\ documents # {} => Successor(LatestOf(documents), d)
  <1>1. /\ \A e \in documents : e.version # d.version
        /\ documents # {} => /\ ~(d.version < LatestOf(documents).version)
                             /\ Successor(LatestOf(documents), d)
    BY NewFollows
  <1>2. \A e \in docs : e.version \in Nat
    BY DEF DocumentsChain
  <1>3. \A e, f \in docs : e.version = f.version => e = f
    BY <1>1 DEF DocumentsChain
  <1>4. ASSUME NEW e \in docs
        PROVE  e.version <= d.version /\ Successor(e, d)
    <2>1. CASE e = d
      BY <1>2, <2>1, SuccessorOrder
    <2>2. CASE e \in documents
      <3>1. PICK l \in documents : \A x \in documents : x.version <= l.version /\ Successor(x, l)
        BY <2>2 DEF DocumentsChain
      <3>2. LatestOf(documents) = l
        BY <3>1, LatestIs DEF DocumentsChain
      <3>3. ~(d.version < l.version) /\ Successor(l, d)
        BY <1>1, <2>2, <3>2
      <3>4. e.version <= l.version /\ Successor(e, l)
        BY <2>2, <3>1
      <3>5. e.version \in Nat /\ l.version \in Nat
        BY <2>2 DEF DocumentsChain
      <3>6. e.version <= d.version
        BY <3>3, <3>4, <3>5
      <3> QED
        BY <3>3, <3>4, <3>6, SuccessorOrder
    <2> QED
      BY <2>1, <2>2
  <1>5. d \in docs
    OBVIOUS
  <1>6. LatestOf(docs) = d
    BY <1>2, <1>3, <1>4, <1>5, LatestIs
  <1> QED
    BY <1>1, <1>2, <1>3, <1>4, <1>6

\* Validate and Register keep the chain, and no claim loses its words.
LEMMA RegistryStep ==
    ASSUME \A o, q \in Operators : o = q, DocumentsChain, RegistryNext
    PROVE  /\ DocumentsChain'
           /\ \A claim : Spoken(claim) => Spoken(claim)'
  <1>1. PICK o \in Operators : (\E d \in GrantsOf[o] : Validate(o, d)) \/ Register(o)
    BY DEF RegistryNext
  <1>2. ASSUME NEW d \in GrantsOf[o], Validate(o, d)
        PROVE  /\ DocumentsChain'
               /\ \A claim : Spoken(claim) => Spoken(claim)'
    <2>1. /\ documents' = documents /\ plan' = [plan EXCEPT ![o] = {d}]
          /\ CheckDocument(documents, d) = "new"
      BY <1>2 DEF Validate
    <2>2. d.version \in Nat
      BY GrantsAreDocuments DEF ValidDocument
    <2>3. /\ DOMAIN plan' = Operators
          /\ plan'[o] = {d}
          /\ \A q \in Operators : q = o
      BY <2>1 DEF DocumentsChain
    <2>4. \A q \in Operators : \A e \in plan'[q] :
             e.version \in Nat /\ CheckDocument(documents, e) = "new"
      BY <2>1, <2>2, <2>3
    <2>5. \A claim : Spoken(claim) => Spoken(claim)'
      BY <2>1 DEF Spoken
    <2> QED
      BY <2>1, <2>3, <2>4, <2>5 DEF DocumentsChain
  <1>3. ASSUME Register(o)
        PROVE  /\ DocumentsChain'
               /\ \A claim : Spoken(claim) => Spoken(claim)'
    <2>1. PICK d \in plan[o] : documents' = IF \E e \in documents : e.version = d.version
                                            THEN documents ELSE documents \cup {d}
      BY <1>3 DEF Register
    <2>2. d.version \in Nat /\ CheckDocument(documents, d) = "new"
      BY DEF DocumentsChain
    <2>3. documents' = documents \cup {d}
      BY <2>1, <2>2, NewFollows
    <2>4. /\ \A e \in documents' : e.version \in Nat
          /\ \A e, f \in documents' : e.version = f.version => e = f
          /\ \A e \in documents' : e.version <= d.version /\ Successor(e, d)
          /\ LatestOf(documents') = d
          /\ documents # {} => Successor(LatestOf(documents), d)
      BY <2>2, <2>3, ChainGrows
    <2>5. /\ DOMAIN plan' = Operators
          /\ \A q \in Operators : plan'[q] = {}
      BY <1>3 DEF Register, NoPlan, DocumentsChain
    <2>6. DocumentsChain'
      BY <2>3, <2>4, <2>5 DEF DocumentsChain
    <2>7. ASSUME NEW claim, Spoken(claim)
          PROVE  Spoken(claim)'
      <3>1. Speaks(claim, d)
        BY <2>4, <2>7, SpeaksFollows DEF Spoken
      <3> QED
        BY <2>3, <2>4, <3>1 DEF Spoken
    <2> QED
      BY <2>6, <2>7
  <1> QED
    BY <1>1, <1>2, <1>3

\* validate: what the gate finds in the vocabulary the latest document says.
LEMMA VocabularySpoken ==
    ASSUME DocumentsChain, NEW claim, InVocabulary(claim, documents)
    PROVE  Spoken(claim)
  <1>1. PICK d \in documents : d.version = claim.version /\ claim.predicate \in DOMAIN d.predicates
    BY DEF InVocabulary, Declares
  <1>2. d = CHOOSE e \in documents : e.version = claim.version
    BY <1>1 DEF DocumentsChain
  <1>3. Definition(documents, claim.predicate, claim.version) = d.predicates[claim.predicate]
    BY <1>2 DEF Definition
  <1>4. Speaks(claim, d)
    BY <1>1, <1>3 DEF InVocabulary, Speaks
  <1>5. PICK l \in documents : \A x \in documents : x.version <= l.version /\ Successor(x, l)
    BY <1>1 DEF DocumentsChain
  <1>6. LatestOf(documents) = l
    BY <1>5, LatestIs DEF DocumentsChain
  <1>7. Speaks(claim, l)
    BY <1>1, <1>4, <1>5, SpeaksFollows
  <1> QED
    BY <1>1, <1>6, <1>7 DEF Spoken

\* What a step makes of the live claims and of the writers the gate passed.
ContentStep ==
    \A c \in ClaimIds :
        /\ claims'[c].state = "live" =>
              \/ claims[c].state = "live" /\ claims'[c].content = claims[c].content
              \/ writer[c].pc = "ready" /\ claims'[c].content = writer[c].proposal.claim
        /\ writer'[c].pc # "idle" /\ writer'[c].verdict = Pass =>
              \/ /\ writer[c].pc # "idle" /\ writer[c].verdict = Pass
                 /\ writer'[c].proposal = writer[c].proposal
              \/ InVocabulary(writer'[c].proposal.claim, documents)

\* A step that keeps the live rows and lets writers go on or give up.
LEMMA ContentKept ==
    ASSUME \A c \in ClaimIds : claims'[c].state = "live" =>
              claims[c].state = "live" /\ claims'[c].content = claims[c].content,
           \A c \in ClaimIds : writer'[c] = writer[c] \/ writer'[c] = IdleWriter
    PROVE  ContentStep
  BY IdleFields DEF ContentStep

\* The content of a claim is what the gate saw, and stays so.
LEMMA NextContent ==
    ASSUME ClaimInv, [Next]_vars
    PROVE  ContentStep
  <1>1. DOMAIN claims = ClaimIds /\ DOMAIN writer = ClaimIds
    BY DEF ClaimInv, Shaped
  <1>2. ASSUME NEW c \in ClaimIds, NEW pr \in ProposalsOf[c], NEW p \in policies, Judge(c, pr, p)
        PROVE  ContentStep
    <2>1. PICK q : q = Proposed(c, pr)
      OBVIOUS
    <2>2. PICK verdict : verdict = EvaluateClaim(q, documents, p, Context(q))
      OBVIOUS
    <2>3. PICK row : row = IF verdict = Pass THEN AdmissionRow(q, p, Context(q)) ELSE None
      OBVIOUS
    <2>4. PICK w : w = [IdleWriter EXCEPT !.pc = "judged", !.proposal = q,
                                          !.verdict = verdict, !.row = row]
      OBVIOUS
    <2>5. writer' = [writer EXCEPT ![c] = w] /\ claims' = claims
      BY <1>2, <2>1, <2>2, <2>3, <2>4 DEF Judge, claimVars
    <2>6. w.proposal = q /\ w.verdict = verdict
      BY <2>4, IdleFields DEF WriterFields
    <2>7. w.verdict = Pass => InVocabulary(w.proposal.claim, documents)
      <3>1. PICK ctx : ctx = Context(q)
        OBVIOUS
      <3>2. EvaluateClaim(q, documents, p, ctx) = Pass => InVocabulary(q.claim, documents)
        BY ClaimGatePasses
      <3> QED
        BY <2>2, <2>6, <3>1, <3>2
    <2>8. writer'[c] = w /\ \A d \in ClaimIds \ {c} : writer'[d] = writer[d]
      BY <1>1, <2>5
    <2> QED
      BY <2>5, <2>7, <2>8 DEF ContentStep
  <1>3. ASSUME NEW c \in ClaimIds, ReadHistory(c)
        PROVE  ContentStep
    <2>1. PICK existing : existing = [d \in PageRows(0, counter, PageLimit) |->
                                         SlotOf(claims[d].content)]
      OBVIOUS
    <2>2. PICK w : w = [writer[c] EXCEPT !.pc = "ready", !.existing = existing]
      OBVIOUS
    <2>3. /\ claims' = claims
          /\ \A d \in ClaimIds \ {c} : writer'[d] = writer[d]
          /\ writer'[c] = IdleWriter \/ writer'[c] = w
          /\ writer[c].pc = "judged"
      BY <1>1, <1>3, <2>1, <2>2 DEF ReadHistory, claimVars
    <2>4. DOMAIN writer[c] = WriterFields
      BY DEF ClaimInv, Shaped
    <2>5. w.proposal = writer[c].proposal /\ w.verdict = writer[c].verdict
      BY <2>2, <2>4 DEF WriterFields
    <2> QED
      BY <2>3, <2>5, IdleFields DEF ContentStep
  <1>4. ASSUME NEW c \in ClaimIds, Decline(c)
        PROVE  ContentStep
    BY <1>1, <1>4, ContentKept DEF Decline, claimVars
  <1>5. ASSUME NEW c \in ClaimIds, Append(c)
        PROVE  ContentStep
    <2>1. writer[c].pc = "ready" /\ \A d \in ClaimIds : writer'[d] = writer[d] \/ writer'[d] = IdleWriter
      BY <1>1, <1>5 DEF Append
    <2>2. CASE claims' = claims
      BY <2>1, <2>2, ContentKept
    <2>3. CASE claims' # claims
      <3>1. PICK new : new = [state |-> "live", seq |-> NextTx, authority |-> writer[c].row.authority,
                              sourcing |-> writer[c].row.sourcing,
                              content |-> writer[c].proposal.claim, originErased |-> FALSE]
        OBVIOUS
      <3>2. claims' = [claims EXCEPT ![c] = new]
        BY <1>5, <2>3, <3>1 DEF Append
      <3>3. new.content = writer[c].proposal.claim
        BY <3>1
      <3>4. claims'[c] = new /\ \A d \in ClaimIds \ {c} : claims'[d] = claims[d]
        BY <1>1, <3>2
      <3> QED
        BY <2>1, <3>3, <3>4, IdleFields DEF ContentStep
    <2> QED
      BY <2>2, <2>3
  <1>6. ASSUME NEW S, EraseRows(S), writer' = writer
        PROVE  ContentStep
    <2>1. \A c \in ClaimIds : claims'[c].state = "live" => claims'[c] = claims[c]
      BY <1>6, EraseRowsShrink
    <2> QED
      BY <1>6, <2>1, ContentKept
  <1>7. ASSUME NEW m \in Memories, NEW cascade \in BOOLEAN, EraseMemory(m, cascade)
        PROVE  ContentStep
    <2> DEFINE citing == {c \in ClaimIds : <<c, m>> \in sources}
    <2>1. writer' = writer
      BY <1>7 DEF EraseMemory, writerVars
    <2>2. CASE cascade
      <3>1. EraseRows(citing)
        BY <1>7, <2>2 DEF EraseMemory
      <3> QED
        BY <1>6, <2>1, <3>1
    <2>3. CASE ~cascade
      <3>1. ASSUME NEW c \in ClaimIds
            PROVE  claims'[c].state = claims[c].state /\ claims'[c].content = claims[c].content
        <4>1. DOMAIN claims[c] = ClaimFields
          BY DEF ClaimInv, Shaped
        <4>2. PICK b : b = [claims[c] EXCEPT !.originErased = TRUE]
          OBVIOUS
        <4>3. b.state = claims[c].state /\ b.content = claims[c].content
          BY <4>1, <4>2 DEF ClaimFields
        <4>4. claims'[c] = IF c \in citing /\ claims[c].state = "live" THEN b ELSE claims[c]
          BY <1>7, <2>3, <4>2 DEF EraseMemory
        <4> QED
          BY <4>3, <4>4
      <3> QED
        BY <2>1, <3>1, ContentKept
    <2> QED
      BY <2>2, <2>3
  <1>8. ASSUME NEW batch, EraseScope(batch)
        PROVE  ContentStep
    <2>1. writer' = writer
      BY <1>8 DEF EraseScope, writerVars
    <2>2. ASSUME NEW c \in ClaimIds, claims'[c].state = "live"
          PROVE  claims'[c] = claims[c]
      <3>1. DOMAIN claims[c] = ClaimFields
        BY DEF ClaimInv, Shaped
      <3>2. PICK b : b = Bare(claims[c])
        OBVIOUS
      <3>3. b.state = "erased"
        BY <3>1, <3>2, BareFields
      <3>4. claims'[c] = IF claims[c].state = "live" THEN b ELSE claims[c]
        BY <1>8, <3>2 DEF EraseScope
      <3> QED
        BY <2>2, <3>3, <3>4
    <2> QED
      BY <2>1, <2>2, ContentKept
  <1>9. ASSUME claims' = claims, writer' = writer
        PROVE  ContentStep
    BY <1>9, ContentKept
  <1>10. ASSUME NEW c \in ClaimIds, ClaimStep(c)
         PROVE  ContentStep
    <2>1. CASE Retract(c)
      BY <1>9, <2>1 DEF Retract, writerVars
    <2>2. CASE EraseClaim(c)
      BY <1>6, <2>2 DEF EraseClaim, writerVars
    <2> QED
      BY <1>2, <1>3, <1>4, <1>5, <1>10, <2>1, <2>2 DEF ClaimStep
  <1>11. CASE ErasureStep
    BY <1>7, <1>8, <1>11 DEF ErasureStep
  <1>12. ASSUME NEW p \in PolicyOffers, RegisterPolicy(p)
         PROVE  ContentStep
    BY <1>9, <1>12 DEF RegisterPolicy, claimVars
  <1>13. CASE UNCHANGED <<claimVars, writerVars>>
    BY <1>9, <1>13 DEF claimVars, writerVars
  <1> QED
    BY <1>10, <1>11, <1>12, <1>13 DEF Next, vars

\* What a step makes of the registry.
LEMMA NextRegistry ==
    ASSUME [Next]_vars
    PROVE  RegistryNext \/ UNCHANGED registryVars
  <1>1. ASSUME NEW c \in ClaimIds, ClaimStep(c)
        PROVE  UNCHANGED registryVars
    BY <1>1 DEF ClaimStep, Judge, ReadHistory, Decline, Append, Retract, EraseClaim
  <1>2. CASE ErasureStep
    BY <1>2 DEF ErasureStep, EraseMemory, EraseScope
  <1> QED
    BY <1>1, <1>2 DEF Next, RegisterPolicy, vars

\* Where one operator registers documents, the vocabulary of every live claim
\* outlives every registration.
LEMMA VocabularyNext ==
    ASSUME \A o, q \in Operators : o = q, ClaimInv, VocabularyInv, [Next]_vars
    PROVE  VocabularyInv'
  <1>1. ContentStep
    BY NextContent
  <1>2. DocumentsChain
    BY DEF VocabularyInv
  <1>3. DocumentsChain' /\ \A claim : Spoken(claim) => Spoken(claim)'
    <2>1. CASE RegistryNext
      BY <1>2, <2>1, RegistryStep
    <2>2. CASE UNCHANGED registryVars
      BY <1>2, <2>2 DEF registryVars, DocumentsChain, Spoken
    <2> QED
      BY <2>1, <2>2, NextRegistry
  <1>4. ASSUME NEW c \in ClaimIds
        PROVE  /\ writer'[c].pc # "idle" /\ writer'[c].verdict = Pass
                     => Spoken(writer[c].proposal.claim)'
               /\ claims'[c].state = "live" => Spoken(claims[c].content)'
    <2>1. ASSUME writer'[c].pc # "idle", writer'[c].verdict = Pass
          PROVE  Spoken(writer[c].proposal.claim)'
      <3>1. PICK x : x = writer'[c].proposal.claim
        OBVIOUS
      <3>2. Spoken(x)
        BY <1>1, <1>2, <2>1, <3>1, VocabularySpoken DEF ContentStep, VocabularyInv
      <3>3. Spoken(x)'
        BY <1>3, <3>2
      <3> QED
        BY <3>1, <3>3
    <2>2. ASSUME claims'[c].state = "live"
          PROVE  Spoken(claims[c].content)'
      <3>1. PICK x : x = claims'[c].content
        OBVIOUS
      <3>2. writer[c].pc = "ready" => writer[c].verdict = Pass
        BY DEF ClaimInv, WritersKeepWord
      <3>3. Spoken(x)
        BY <1>1, <2>2, <3>1, <3>2 DEF ContentStep, VocabularyInv
      <3>4. Spoken(x)'
        BY <1>3, <3>3
      <3> QED
        BY <3>1, <3>4
    <2> QED
      BY <2>1, <2>2
  <1> QED
    BY <1>3, <1>4 DEF VocabularyInv

\* A live claim stays in the vocabulary of the latest document, where the
\* documents come from one operator: RegistrySnapshot::check takes nothing back
\* that a claim relies on.  Two operators racing can break the chain of
\* documents itself, as the run of the registry shows.
THEOREM VocabularyStays ==
    ASSUME \A o, q \in Operators : o = q
    PROVE  Spec => []LiveClaimsStayInVocabulary
  <1>1. Init => VocabularyInv
    <2> SUFFICES ASSUME Init PROVE VocabularyInv
      OBVIOUS
    <2>1. DocumentsChain
      BY DEF Init, RegistryInit, NoPlan, DocumentsChain
    <2> QED
      BY <2>1, IdleFields DEF Init, NoClaim, VocabularyInv
  <1>2. ClaimInv /\ VocabularyInv /\ [Next]_vars => VocabularyInv'
    BY VocabularyNext
  <1>3. VocabularyInv => LiveClaimsStayInVocabulary
    BY DEF VocabularyInv, Spoken, Speaks, LiveClaims, LiveClaimsStayInVocabulary
  <1> QED
    BY <1>1, <1>2, <1>3, ClaimInvariance, PTL DEF Spec

\* A registry that one operator fills reads back: every document could follow
\* the ones before it (RegistrySnapshot::from_sets).
THEOREM OneOperatorReadable ==
    ASSUME \A o, q \in Operators : o = q
    PROVE  Spec => []RegistryReadable
  <1> DEFINE Inv == DocumentsChain /\ Readable(documents)
  <1>1. Init => Inv
    BY DEF Init, RegistryInit, NoPlan, DocumentsChain, Readable
  <1>2. ASSUME Inv, [Next]_vars
        PROVE  Inv'
    <2>1. DocumentsChain'
      <3>1. CASE RegistryNext
        BY <1>2, <3>1, RegistryStep
      <3>2. CASE UNCHANGED registryVars
        BY <1>2, <3>2 DEF registryVars, DocumentsChain
      <3> QED
        BY <1>2, <3>1, <3>2, NextRegistry
    <2>2. CASE documents' = documents
      BY <1>2, <2>1, <2>2
    <2>3. CASE documents' # documents
      <3>1. PICK o \in Operators : Register(o)
        BY <1>2, <2>3, NextRegistry DEF RegistryNext, Validate, registryVars
      <3>2. PICK d \in plan[o] : documents' = documents \cup {d}
        BY <2>3, <3>1 DEF Register
      <3>3. d.version \in Nat /\ CheckDocument(documents, d) = "new"
        BY <1>2 DEF DocumentsChain
      <3>4. PICK docs : docs = documents \cup {d}
        OBVIOUS
      <3>5. \A e \in docs : e.version <= d.version /\ e.version \in Nat
        BY <1>2, <3>3, <3>4, ChainGrows
      <3>6. \A e \in documents : e.version # d.version
        BY <3>3, NewFollows
      <3>7. {e \in docs : e.version < d.version} = documents
        BY <3>3, <3>4, <3>5, <3>6
      <3>8. ASSUME NEW f \in documents
            PROVE  {e \in docs : e.version < f.version} = {e \in documents : e.version < f.version}
        BY <3>3, <3>4, <3>5
      <3>9. Readable(docs)
        <4> SUFFICES ASSUME NEW f \in docs
                     PROVE  CheckDocument({e \in docs : e.version < f.version}, f) = "new"
          BY DEF Readable
        <4>1. CASE f = d
          BY <3>3, <3>7, <4>1
        <4>2. CASE f \in documents
          BY <1>2, <3>8, <4>2 DEF Readable
        <4> QED
          BY <3>4, <4>1, <4>2
      <3> QED
        BY <2>1, <3>2, <3>4, <3>9
    <2> QED
      BY <2>2, <2>3
  <1>3. Inv => RegistryReadable
    BY DEF RegistryReadable
  <1> HIDE DEF Inv
  <1> QED
    BY <1>1, <1>2, <1>3, PTL DEF Spec

=============================================================================
