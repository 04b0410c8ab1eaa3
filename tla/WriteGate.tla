----------------------------- MODULE WriteGate -----------------------------
(***************************************************************************)
(* The write gate: what becomes of a candidate memory, how a deployment    *)
(* narrows the rules, and how an operator's override admits one candidate  *)
(* that was refused.                                                       *)
(*                                                                         *)
(* A candidate is what the steps tell apart after normalisation: whether   *)
(* its text is empty, its size, the top-level types of its media, its      *)
(* source system, whether a detector fires on its text or title, and its   *)
(* origin.  The detectors themselves are action-gate's.                    *)
(***************************************************************************)
EXTENDS GateWalk, Naturals, FiniteSets

CONSTANTS
    None,
    Memories,       \* memory ids clients offer
    OffersOf,       \* the candidates that may arrive under each id
    StandardRules,  \* RuleSet::standard
    Narrowings,     \* the limits a deployment may ask for
    Denials         \* the sets of source systems it may deny

VARIABLES
    rules,      \* the deployment's RuleSet
    memory,     \* the stored memory of each id
    refused,    \* the refusals recorded as Decisions: <<memory, code>>
    overrides   \* the overrides operators decided: <<memory, code>>

gateVars == <<rules, memory, refused, overrides>>

MemoryState == {"absent", "available", "quarantined", "erased"}

\* The stored memory keeps what it was admitted from and by which override.
\* `under` is the RuleSet of its judgement.
NoOverride == <<>>
NoMemory == [state |-> "absent", from |-> None, override |-> NoOverride, under |-> None]
Stored(state, c, over) ==
    [state |-> state, from |-> c, override |-> over, under |-> rules]

WriteGateInit ==
    /\ rules = StandardRules
    /\ memory = [m \in Memories |-> NoMemory]
    /\ refused = {}
    /\ overrides = {}

-----------------------------------------------------------------------------
(* The rules.                                                              *)

\* Limits::narrowed_to: no dimension may widen.
Narrower(limits, from) ==
    /\ limits.maxBody <= from.maxBody
    /\ limits.maxMedia <= from.maxMedia
    /\ limits.topLevels \subseteq from.topLevels

\* RuleSet::narrowed_to refuses a wider limit; RuleSet::denying adds a source.
Configure(limits, denied) ==
    /\ Narrower(limits, rules.limits)
    /\ rules' = [limits |-> limits, denied |-> rules.denied \cup denied]
    /\ rules' # rules
    /\ UNCHANGED <<memory, refused, overrides>>

-----------------------------------------------------------------------------
(* The capture walk.                                                       *)

CAPTURE_STEPS == <<"empty", "too_large", "media", "denied_source", "secrets", "origin">>

Established == {"authenticated", "registered_adapter"}

\* Each step's judgement of candidate `c` under rules `r`.
JudgeCapture(c, r, step) ==
    CASE step = "empty" -> FaultIf(c.size = 0, "empty_after_normalization")
      [] step = "too_large" -> FaultIf(c.size > r.limits.maxBody, "too_large")
      [] step = "media" ->
            FaultIf(\/ c.mediaCount > r.limits.maxMedia
                    \/ ~(c.media \subseteq r.limits.topLevels), "unsupported_media")
      [] step = "denied_source" -> FaultIf(c.source \in r.denied, "policy_denied")
      [] step = "secrets" -> FaultIf(c.secretText \/ c.secretTitle, "secret_detected")
      [] step = "origin" ->
            CASE c.origin \in Established -> Pass
              [] c.origin = "asserted" -> Hold("origin_unestablished")
              [] OTHER -> Fault("origin_unestablished")

\* Gate::evaluate.
Evaluate(c, r) ==
    Walk(CAPTURE_STEPS,
         {"empty", "too_large", "media", "denied_source", "secrets", "origin"},
         [k \in DOMAIN CAPTURE_STEPS |-> JudgeCapture(c, r, CAPTURE_STEPS[k])])

\* A capture with no override: stored, stored out of sight, or refused with a
\* Decision.  Ids are unique, so a stored id takes no second candidate.
Capture(m, c) ==
    LET verdict == Evaluate(c, rules) IN
    /\ memory[m].state = "absent"
    /\ IF verdict.as = "fault"
       THEN /\ refused' = refused \cup {<<m, verdict.reason>>}
            /\ UNCHANGED memory
       ELSE /\ memory' = [memory EXCEPT ![m] =
                  Stored(IF verdict.as = "hold" THEN "quarantined" ELSE "available", c, NoOverride)]
            /\ UNCHANGED refused
    /\ UNCHANGED <<rules, overrides>>

\* Override::new, by an operator who saw the refusal.
Decide(m, code) ==
    /\ <<m, code>> \in refused \ overrides
    /\ overrides' = overrides \cup {<<m, code>>}
    /\ UNCHANGED <<rules, memory, refused>>

\* Mutant: the override answers a refusal it does not name.
AppliesToAnyCode(m, over, verdict) == over[1] = m /\ verdict.as = "fault"

\* The three conditions of OverrideDoesNotApply.
Applies(m, over, verdict) ==
    /\ over[1] = m
    /\ verdict.as = "fault"
    /\ verdict.reason = over[2]

\* Gate::evaluate_overridden, for whatever candidate now comes under the id.
CaptureOverridden(m, c) ==
    /\ memory[m].state = "absent"
    /\ \E over \in overrides :
          /\ Applies(m, over, Evaluate(c, rules))
          /\ memory' = [memory EXCEPT ![m] = Stored("available", c, over)]
    /\ UNCHANGED <<rules, refused, overrides>>

WriteGateNext ==
    \/ \E limits \in Narrowings, denied \in Denials : Configure(limits, denied)
    \/ \E m \in Memories : \E c \in OffersOf[m] : Capture(m, c) \/ CaptureOverridden(m, c)
    \/ \E d \in refused : Decide(d[1], d[2])

-----------------------------------------------------------------------------
(* Properties.                                                             *)

\* The steps of the walk that refuse the memory, under the rules it met.
Faults(c, r) == {step \in {"empty", "too_large", "media", "denied_source", "secrets", "origin"} :
                    JudgeCapture(c, r, step).as = "fault"}

\* A memory is in sight only when no rule in force at its capture refused or
\* held it, or when an operator's override of a refusal of that very id
\* answers one of the rules that did: the walk's order, the narrowing of the
\* rules between refusal and retry, and a changed body never let a candidate
\* pass unanswered.
InSightIsAnswered ==
    \A m \in Memories :
        memory[m].state = "available" =>
            LET faults == Faults(memory[m].from, memory[m].under) IN
            IF memory[m].override = NoOverride
            THEN faults = {} /\ memory[m].from.origin \in Established
            ELSE /\ memory[m].override \in refused
                 /\ memory[m].override[1] = m
                 /\ memory[m].override[2] \in
                       {JudgeCapture(memory[m].from, memory[m].under, s).reason : s \in faults}

=============================================================================
