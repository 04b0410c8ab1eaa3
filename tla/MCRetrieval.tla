----------------------------- MODULE MCRetrieval -----------------------------
(***************************************************************************)
(* Three memories of five chunks for TLC, and the bodies and configurations *)
(* over which the splitter is checked.                                     *)
(***************************************************************************)
EXTENDS Retrieval

Char(bytes, class) == [bytes |-> bytes, class |-> class]
Word == Char(1, "word")
Long == <<Word, Char(1, "stop"), Char(1, "space"), Word, Word>>

\* Memories 1 and 3 share their second; 1 and 3 have two chunks each.
SharedSecond == [m \in Memories |-> IF m = 2 THEN 2 ELSE 1]
SomeBodies == [m \in Memories |-> IF m = 2 THEN <<Word>> ELSE Long]
SmallChunks == [threshold |-> 3, target |-> 3, overlap |-> 0, maxChunks |-> 4]

\* The best chunks are the first and the last of the scan, two are equal, and
\* one vector has no direction.
SomeScores == [c \in Chunks |-> CASE c = <<1, 0>> -> 3
                                  [] c = <<1, 1>> -> 1
                                  [] c = <<2, 0>> -> 1
                                  [] c = <<3, 0>> -> None
                                  [] OTHER -> 2]
LaterFirst == [c \in Chunks |-> 10 - 2 * c[1] - c[2]]

\* Everything, or the active memories.
BothFilters == {Statuses \ {"absent"}, {"active"}}
Retrievable == {{"active"}}

\* Every body of up to five characters, one of them of three bytes.
ShortBodies == UNION {[1..n -> {Char(1, k) : k \in CharClass} \cup {Char(3, "word")}] : n \in 1..5}
SmallConfigs == {c \in [threshold : {2}, target : {2, 3, 4}, overlap : 0..2, maxChunks : {2, 9}] :
                ValidChunkConfig(c)}

=============================================================================
