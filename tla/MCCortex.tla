------------------------------ MODULE MCCortex ------------------------------
(***************************************************************************)
(* Small scopes for TLC.  Candidates with the same content collide on      *)
(* their fingerprint; a correction and a summary name other candidates in  *)
(* derived_from.                                                           *)
(***************************************************************************)
EXTENDS Cortex, TLC

CONSTANTS a, b, c

AllKinds == {"fact", "correction"}
AllTexts == {"t", "u", "v"}
NoParents == [i \in Ids |-> {}]
AllAdmitted == [i \in Ids |-> "admit"]
AllFacts == [i \in Ids |-> "fact"]

\* Requests are interchangeable.
Symmetry == Permutations(Clients) \cup Permutations(Erasers) \cup Permutations(Passes)

OneQuarantine == [i \in Ids |-> IF i = c THEN "quarantine" ELSE "admit"]

\* b and c correct a, and one of them may merge into the other.
CorrectionKind == [i \in Ids |-> IF i = a THEN "fact" ELSE "correction"]
CorrectionText == [i \in Ids |-> IF i = a THEN "t" ELSE "u"]
CorrectionParents == [i \in Ids |-> IF i = a THEN {} ELSE {a}]

DistinctTexts == [i \in Ids |-> CASE i = a -> "t" [] i = b -> "u" [] OTHER -> "v"]

\* One of each verdict: a refusal leaves a key and no row.
EachVerdict == [i \in Ids |-> CASE i = b -> "quarantine" [] i = c -> "refuse"
                                [] OTHER -> "admit"]

=============================================================================
