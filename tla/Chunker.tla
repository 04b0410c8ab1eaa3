------------------------------ MODULE Chunker ------------------------------
(***************************************************************************)
(* How a body is cut into the chunks that are embedded one by one.  A body *)
(* is a sequence of characters of one or more bytes; every offset below is *)
(* a byte offset.                                                          *)
(***************************************************************************)
EXTENDS Integers, SequencesExt

\* A character as the splitter sees it: its UTF-8 length and its part in the
\* end of a sentence.
CharClass == {"word", "stop", "space", "newline"}
Character == [bytes : 1..4, class : CharClass]

\* ChunkConfig, in bytes and chunks.
ChunkSettings == [threshold : Nat, target : Nat, overlap : Nat, maxChunks : Nat]

\* Chunker::new refuses any other configuration.
ValidChunkConfig(c) ==
    /\ c.threshold > 0 /\ c.target > 0 /\ c.maxChunks > 0
    /\ c.overlap <= c.target \div 2

\* The offset after each character; Ends(body)[0] = 0.
Ends(body) ==
    LET end[k \in 0..Len(body)] == IF k = 0 THEN 0 ELSE end[k - 1] + body[k].bytes
    IN end

Size(body) == Ends(body)[Len(body)]

\* A sentence ends after a newline, and after a space that follows a stop.
SentenceBoundaries(body) ==
    {0, Size(body)} \cup
    {Ends(body)[k] : k \in {n \in 1..Len(body) :
        \/ body[n].class = "newline"
        \/ body[n].class = "space" /\ n > 1 /\ body[n - 1].class = "stop"}}

CharBoundaries(body) == {Ends(body)[k] : k \in 0..Len(body)}

Utf8Floor(body, offset) == Max({b \in CharBoundaries(body) : b <= offset})

\* The last boundary in (start, limit], or the last character boundary when
\* no sentence ends there.
LastOf(ends, otherwise) == IF ends # {} THEN Max(ends) ELSE otherwise
LastIn(body, start, limit) ==
    LastOf({b \in SentenceBoundaries(body) : start < b /\ b <= limit}, Utf8Floor(body, limit))

\* The end of the character at start.
FirstOf(ends, otherwise) == IF ends # {} THEN Min(ends) ELSE otherwise
NextChar(body, start) == FirstOf({b \in CharBoundaries(body) : b > start}, Size(body))

\* The end of a sentence, unless it leaves nothing beyond the overlap before
\* the end of the body, or is where the previous chunk ended already.
Prefer(end, hard, size, start, overlap, previousEnd) ==
    IF (end < size /\ end - start <= overlap) \/ end <= previousEnd THEN hard ELSE end

\* Whatever the limit allows, one whole character.
AtLeastChar(body, start, end) == IF end <= start THEN NextChar(body, start) ELSE end

EndBefore(body, c, start, previousEnd, target) ==
    AtLeastChar(body, start,
        Prefer(LastIn(body, start, target), Utf8Floor(body, target), Size(body),
               start, c.overlap, previousEnd))

ChunkEnd(body, c, start, previousEnd) ==
    EndBefore(body, c, start, previousEnd, Min({start + c.target, Size(body)}))

\* Mutant: the overlap is laid after the end instead of before it.
NextStartSkips(body, c, start, end) == LastIn(body, start, end + c.overlap)

\* Where the chunk after <<start, end>> starts: back by the overlap, but
\* always beyond start.
NextStart(body, c, start, end) ==
    AtLeastChar(body, start, LastIn(body, start, Max({end - c.overlap, 0})))

Refused == <<>>

Starting(body, c, start, previousEnd) == <<start, ChunkEnd(body, c, start, previousEnd)>>

\* One turn of the loop, after the chunk `last`.
Following(body, c, last) ==
    Starting(body, c, NextStart(body, c, last[1], last[2]), last[2])

\* The chunks of a body over the threshold.  The loop is bounded by the
\* character count, since every start is a character boundary beyond the one
\* before; it stops at the end of the body or beyond maxChunks.
Loop(body, c) ==
    LET loop[k \in 1..Len(body)] ==
            IF k = 1 THEN <<Starting(body, c, 0, 0)>>
            ELSE LET done == loop[k - 1]
                 IN IF Last(done)[2] = Size(body) \/ Len(done) > c.maxChunks THEN done
                    ELSE Append(done, Following(body, c, Last(done)))
    IN loop[Len(body)]

UpTo(most, chunks) == IF Len(chunks) > most THEN Refused ELSE chunks

\* Chunker::split: the <<start, end>> of the chunks, or Refused when there
\* would be more than maxChunks.  An empty body has no chunk either.
Split(body, c) ==
    CASE body = <<>> -> <<>>
      [] body # <<>> /\ Size(body) <= c.threshold -> <<<<0, Size(body)>>>>
      [] OTHER -> UpTo(c.maxChunks, Loop(body, c))

\* What retrieval needs of a split: it starts at the first byte and ends at
\* the last, no byte falls between two chunks, no character is cut, starts
\* move forward and ends never back, neighbours share the overlap unless the
\* next start is one character on, and no chunk is longer than the target or
\* one character.  (Before a wide character a chunk may lie inside the one
\* before it: redundant, but nothing is lost.)
Tiles(body, c, chunks) ==
    LET n == Len(chunks)
    IN /\ chunks[1][1] = 0 /\ chunks[n][2] = Size(body)
       /\ \A k \in 1..n :
            /\ chunks[k][1] < chunks[k][2]
            /\ {chunks[k][1], chunks[k][2]} \subseteq CharBoundaries(body)
            /\ \/ n = 1 /\ Size(body) <= c.threshold
               \/ chunks[k][2] - chunks[k][1] <= c.target
               \/ chunks[k][2] = NextChar(body, chunks[k][1])
       /\ \A k \in 1..(n - 1) :
            /\ chunks[k][1] < chunks[k + 1][1] /\ chunks[k + 1][1] <= chunks[k][2]
            /\ chunks[k][2] <= chunks[k + 1][2]
            /\ \/ chunks[k][2] - chunks[k + 1][1] >= c.overlap
               \/ chunks[k + 1][1] = NextChar(body, chunks[k][1])

=============================================================================
