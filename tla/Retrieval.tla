----------------------------- MODULE Retrieval -----------------------------
(***************************************************************************)
(* The two paged reads of a scope, the listing of its memories and the     *)
(* scan for the chunks nearest a query, while memories are captured,       *)
(* embedded, expired and erased between the pages.  Both page by the last  *)
(* key they saw and never by an offset.                                    *)
(*                                                                         *)
(* A page is read in one statement from the replica of the node that       *)
(* serves it.  One node is up to date and one lags; a client may carry the *)
(* cursor of a listing from either to the other, a scan stays on its node. *)
(***************************************************************************)
EXTENDS Chunker

CONSTANTS
    Memories,     \* ids, numbers in the order of their text
    CreatedOf,    \* the capture time of each memory; two may share one
    BodyOf,       \* the body of each memory
    ChunkConfig,  \* the deployment's chunking
    Bodies,       \* bodies that are split on their own, without a memory
    Configs,      \* the chunkings they are split under
    Score,        \* the similarity of each chunk to the query, or None
    ChunkRank,    \* the order of chunk ids, unrelated to that of memories
    Limit,        \* rows of one page of a listing
    PageSize,     \* rows of one page of a scan
    K,            \* candidates of a scan
    ListFilters,  \* sets of statuses a listing asks for
    ScanFilters,  \* sets of statuses a scan admits
    None

\* To both reads a quarantined or superseded memory is what an expired one is.
Statuses == {"absent", "active", "expired", "erased"}

\* The chunk rows of a memory: its id and the ordinals from 0.
ChunksOf == [m \in Memories |-> {m} \X (0..(Len(Split(BodyOf[m], ChunkConfig)) - 1))]
Chunks == UNION {ChunksOf[m] : m \in Memories}

ASSUME ChunkingIsValid ==
    \A c \in Configs \cup {ChunkConfig} : c \in ChunkSettings /\ ValidChunkConfig(c)
ASSUME BodiesAreText ==
    /\ \A m \in Memories : BodyOf[m] \in Seq(Character)
    /\ \A body \in Bodies : body \in Seq(Character)
ASSUME PagesAdvance == Limit \in Nat \ {0} /\ PageSize \in Nat \ {0} /\ K \in Nat
ASSUME ScopeIsFinite == IsFiniteSet(Memories) /\ Memories \subseteq Nat
ASSUME TimesKnown == \A m \in Memories : CreatedOf[m] \in Nat
ASSUME RanksDiffer ==
    \A c, d \in Chunks : ChunkRank[c] \in Nat /\ (ChunkRank[c] = ChunkRank[d] => c = d)
ASSUME ScoresKnown == \A c \in Chunks : Score[c] \in Nat \cup {None}

VARIABLES
    db,       \* memory.status, and the embedding rows of the queried revision
    replica,  \* the same tables on the node that lags
    walk      \* the client's listing or scan

vars == <<db, replica, walk>>

-----------------------------------------------------------------------------
(* The scope: what the other components do to it between two pages.        *)

\* `stable` remembers which rows matched on every node in every state since
\* the first page.
NoWalk == [pc |-> "idle", filter |-> {}, node |-> None, cursor |-> None, got |-> <<>>,
           top |-> {}, truncated |-> FALSE, stable |-> {}]

Init ==
    /\ db = [status |-> [m \in Memories |-> "absent"], vectors |-> {}]
    /\ replica = db
    /\ walk = NoWalk

Listed(t, filter) == {m \in Memories : t.status[m] \in filter}
Scanned(t, filter) == {c \in t.vectors : t.status[c[1]] \in filter}

\* The rows that still match, as the walk under way sees its filter.  The
\* answer of a finished walk is the client's, and is forgotten here.
Remember(w, t) ==
    CASE w.pc = "scanning" -> [w EXCEPT !.stable = @ \cap Scanned(t, w.filter)]
      [] w.pc = "listing" -> [w EXCEPT !.stable = @ \cap Listed(t, w.filter)]
      [] OTHER -> NoWalk

Commit(t) == /\ db' = t
             /\ walk' = Remember(walk, t)
             /\ UNCHANGED replica

ChangeTo(m, s, vs) == Commit([status |-> [db.status EXCEPT ![m] = s], vectors |-> vs])

\* The lagging node applies the log; the tables it leaves are ones it had.
Replicate == /\ replica # db
             /\ replica' = db
             /\ walk' = Remember(walk, db)
             /\ UNCHANGED db

Capture(m) == db.status[m] = "absent" /\ ChangeTo(m, "active", db.vectors)

Embed(m) == /\ db.status[m] \in {"active", "expired"}
            /\ ChangeTo(m, db.status[m], db.vectors \cup ChunksOf[m])

Expire(m) == db.status[m] = "active" /\ ChangeTo(m, "expired", db.vectors)

Erase(m) == /\ db.status[m] \notin {"absent", "erased"}
            /\ ChangeTo(m, "erased", db.vectors \ ChunksOf[m])

\* An operator drops the revision the client still queries.
DropRevision == db.vectors # {} /\ Commit([db EXCEPT !.vectors = {}])

-----------------------------------------------------------------------------
(* Listing: newest first, (created desc, id desc).                         *)

Newer(m, n) == \/ CreatedOf[m] > CreatedOf[n]
               \/ CreatedOf[m] = CreatedOf[n] /\ m > n

\* A cursor names a position and is signed for the filter of its page.
Encode(m, filter) == [after |-> m, signed |-> filter]

ASSUME NoneIsNoCursor ==
    /\ \A m \in Memories, f \in ListFilters : Encode(m, f) # None
    /\ None \notin Chunks

\* A cursor reads back only under the filter it was signed for.
Decode(cursor, filter) == cursor # None => cursor.signed = filter

\* Mutant: the tie on created is not broken by the id.
AfterByCreated(cursor, m) == cursor = None \/ CreatedOf[cursor.after] > CreatedOf[m]

\* The keyset predicate of a page.
After(cursor, m) == cursor = None \/ Newer(cursor.after, m)

\* The first rows of a statement that orders by `before` and ends in LIMIT.
Page(rows, before, limit) ==
    [i \in 1..Min({limit, Cardinality(rows)}) |->
        CHOOSE r \in rows : Cardinality({s \in rows : <<s, r>> \in before}) = i - 1]

ListPage(t, cursor, filter) ==
    LET rows == {m \in Listed(t, filter) : After(cursor, m)}
    IN Page(rows, {p \in rows \X rows : Newer(p[1], p[2])}, Limit)

\* What a walk starts with: the rows both nodes hold at its first page.
Started(filter, node, both) ==
    [NoWalk EXCEPT !.filter = filter, !.node = node, !.stable = both]

AtRest == walk.pc \in {"idle", "listed", "scanned"}

\* MemoryRepo::list on either node, under some filter of the client's; a
\* cursor of another filter is refused and the client keeps it.
List(t, filter) ==
    LET w == IF AtRest THEN Started(filter, None, Listed(db, filter) \cap Listed(replica, filter))
             ELSE walk
        page == ListPage(t, w.cursor, filter)
        full == Len(page) = Limit
    IN /\ AtRest \/ walk.pc = "listing"
       /\ Decode(w.cursor, filter)
       /\ walk' = [w EXCEPT !.pc = IF full THEN "listing" ELSE "listed",
                            !.got = @ \o page,
                            !.cursor = IF full THEN Encode(page[Limit], filter) ELSE None]
       /\ UNCHANGED <<db, replica>>

-----------------------------------------------------------------------------
(* The scan: pages of chunks in (memory, ordinal) order, and the best K.   *)

\* Score descending, then chunk id ascending.
Outranks(c, d) == \/ Score[c] > Score[d]
                  \/ Score[c] = Score[d] /\ ChunkRank[c] < ChunkRank[d]

Worst(top) == CHOOSE c \in top : \A d \in top \ {c} : Outranks(d, c)

\* Mutant: a tie with the worst retained entry is lost, whatever the ids.
AdmitsByScore(top, c) == /\ K > 0
                         /\ Cardinality(top) < K \/ Score[c] > Score[Worst(top)]

Admits(top, c) == /\ K > 0
                  /\ Cardinality(top) < K \/ Outranks(c, Worst(top))

\* A vector that cannot be normalised is similar to nothing.
HasDirection(c) == Score[c] # None

Offer(top, c) ==
    IF ~HasDirection(c) \/ ~Admits(top, c) THEN top
    ELSE (IF Cardinality(top) < K THEN top ELSE top \ {Worst(top)}) \cup {c}

InScanOrder(c, d) == c[1] < d[1] \/ (c[1] = d[1] /\ c[2] < d[2])

\* A scan for no candidate reads no row.
ScanPage(t, cursor, filter) ==
    LET rows == {c \in Scanned(t, filter) :
                    K > 0 /\ (cursor = None \/ InScanOrder(cursor, c))}
    IN Page(rows, {p \in rows \X rows : InScanOrder(p[1], p[2])}, PageSize)

\* The candidates after a page is offered row by row.
Best(top, page) ==
    LET best[i \in 0..Len(page)] == IF i = 0 THEN top ELSE Offer(best[i - 1], page[i])
    IN best[Len(page)]

\* scan_rows: one page is scored and dropped; a short page is the last, and
\* after a full one the budget may have run out.
Scan(node, t, filter) ==
    LET w == IF AtRest THEN Started(filter, node, Scanned(db, filter) \cap Scanned(replica, filter))
             ELSE walk
        page == ScanPage(t, w.cursor, w.filter)
        full == Len(page) >= PageSize
        top == Best(w.top, page)
        read == IF page = <<>> THEN w.cursor ELSE page[Len(page)]
    IN /\ AtRest \/ (walk.pc = "scanning" /\ filter = walk.filter /\ node = walk.node)
       /\ \E outOfBudget \in {b \in BOOLEAN : b => full} :
            walk' = [w EXCEPT !.pc = IF full /\ ~outOfBudget THEN "scanning" ELSE "scanned",
                              !.cursor = read, !.top = top, !.truncated = outOfBudget]
       /\ UNCHANGED <<db, replica>>

Next ==
    \/ \E m \in Memories : Capture(m) \/ Embed(m) \/ Expire(m) \/ Erase(m)
    \/ DropRevision
    \/ Replicate
    \/ \E f \in ListFilters, t \in {db, replica} : List(t, f)
    \/ \E f \in ScanFilters : Scan("current", db, f) \/ Scan("lagging", replica, f)

Spec == Init /\ [][Next]_vars

-----------------------------------------------------------------------------
(* Properties.                                                             *)

Covers(body, c, chunks) == chunks # Refused => Tiles(body, c, chunks)

\* Whatever body the first capture of a scope carries, Chunker::split cuts it
\* into chunks that cover it, or refuses it for its number of chunks.
SplitTiles ==
    Init => \A body \in Bodies, c \in Configs : Covers(body, c, Split(body, c))

\* A listing returns nothing twice and in order, and one that is walked to
\* its end skips no memory that matched from its first page on, whatever was
\* captured, expired or erased between the pages and whichever filter the
\* client presents with the cursor.
ListingIsExact ==
    walk.pc \in {"listing", "listed"} =>
        /\ \A i, j \in DOMAIN walk.got : i < j => Newer(walk.got[i], walk.got[j])
        /\ walk.pc = "listed" => walk.stable \subseteq {walk.got[i] : i \in DOMAIN walk.got}

\* A scan returns the exact best: a chunk that was there from the first page
\* on and is not returned is outranked by K chunks that are, unless it lies
\* beyond the page at which a truncated scan says it stopped.
ScanIsExact ==
    walk.pc = "scanned" =>
        \A c \in walk.stable \ walk.top :
            \/ ~HasDirection(c)
            \/ walk.truncated /\ InScanOrder(walk.cursor, c)
            \/ Cardinality(walk.top) = K /\ \A d \in walk.top : Outranks(d, c)

=============================================================================
