------------------------------- MODULE MCEmbed -------------------------------
(***************************************************************************)
(* Small embedding pipelines for TLC.                                      *)
(***************************************************************************)
EXTENDS EmbedWorker, TLC

CONSTANTS n1, n2, x, y

OneKind == {"fact"}
AllTexts == {"t", "u"}
AllFacts == [i \in Ids |-> "fact"]
DistinctTexts == [i \in Ids |-> IF i = 1 THEN "t" ELSE "u"]
NoParents == [i \in Ids |-> {}]
IdOrder == [i \in Ids |-> i]

\* The models are interchangeable.
Symmetry == Permutations(Identities)

=============================================================================
