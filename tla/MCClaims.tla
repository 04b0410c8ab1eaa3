------------------------------ MODULE MCClaims ------------------------------
(***************************************************************************)
(* Small claim histories, gates and registries for TLC.                    *)
(***************************************************************************)
EXTENDS Claims

\* Candidates.
Limits(body, media, levels) == [maxBody |-> body, maxMedia |-> media, topLevels |-> levels]
Standard == [limits |-> Limits(2, 1, {"image"}), denied |-> {}]
Candidate(size, secret, origin) ==
    [size |-> size, mediaCount |-> 0, media |-> {}, source |-> "mail",
     secretText |-> secret, secretTitle |-> FALSE, origin |-> origin]
Clean == Candidate(1, FALSE, "authenticated")

\* What may come under an id: kept, held, refused for two reasons, or for one.
Mails == [m \in Memories |-> {Clean, Candidate(1, FALSE, "asserted"),
                              Candidate(2, TRUE, "authenticated"),
                              Candidate(1, TRUE, "authenticated")}]
Narrower1 == {Standard.limits, Limits(1, 1, {"image"}), Limits(3, 1, {"image"})}

\* Documents: a price with units, in two versions and a third that forgot one.
Price(units, deprecated) ==
    [subjects |-> {"trip"}, kind |-> "decimal", units |-> units, variants |-> {},
     cardinality |-> "many", accumulates |-> FALSE, stances |-> {"asserted"},
     deprecated |-> deprecated]
Document(version, units) ==
    [version |-> version, reserved |-> FALSE, kinds |-> {"trip"},
     predicates |-> [price |-> Price(units, FALSE)]]
V1 == Document(1, {"eur"})
V2 == Document(2, {"eur", "usd"})
V3 == Document(3, {"usd"})
EveryVersion == [o \in Operators |-> {V1, V2, V3}]

\* Proposals.
Claim(id, slot, version, unit, cited) ==
    [id |-> id, owner |-> "owner", predicate |-> "price", version |-> version,
     subject |-> "trip", value |-> [kind |-> "decimal", unit |-> unit], slot |-> slot,
     stance |-> "asserted", nfc |-> TRUE, secret |-> FALSE, derivedFrom |-> cited,
     spans |-> cited]
Agent == [human |-> FALSE, id |-> "owner"]
Owner == [human |-> TRUE, id |-> "owner"]
Proposal(claim, proposer, evidence, related) ==
    [claim |-> claim, proposer |-> proposer, evidence |-> evidence, relations |-> related]
Span(m) == [kind |-> "source_span", span |-> m]
Score(n) == [kind |-> "model_score", score |-> n]
Statement == [kind |-> "user_statement", by |-> "owner", asserted |-> UserAsserted]
Relates(kind, to) == [kind |-> kind, to |-> to]

\* 1: extracted by an agent, or scored.  2: the owner's word against it.
\* 3: an agent in the owner's name against the owner.
Proposals == [c \in ClaimIds |->
    CASE c = 1 -> {Proposal(Claim(1, "s", 1, "eur", Memories), Agent, {Score(5)}, {})}
      [] c = 2 -> {Proposal(Claim(2, "s", 2, "usd", {}), Owner, {Statement}, {Relates(k, 1)}) :
                      k \in {"supersedes", "contradicts"}}
      [] c = 3 -> {Proposal(Claim(3, slot, 2, "usd", Memories), Agent,
                            {Statement} \cup {Span(m) : m \in Memories}, {Relates("supersedes", 2)}) :
                      slot \in {"s", "t"}}]

\* A policy that lowers a ceiling and qualifies, and one that qualifies on scores.
Qualified(version, least, ceilings) ==
    [version |-> version, floor |-> 3, ceilings |-> ceilings,
     qualified |-> {[predicate |-> "price", least |-> least]}, seeds |-> {}]
Offered == {Qualified(2, Extracted, [user_statement |-> UserAsserted]),
            Qualified(2, Inferred, <<>>)}

=============================================================================
