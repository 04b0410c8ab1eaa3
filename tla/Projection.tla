----------------------------- MODULE Projection -----------------------------
(***************************************************************************)
(* The current view of a claim history (aicortex-claims, projection.rs).   *)
(*                                                                         *)
(* A history is [claims, relations, retractions].  A claim record has an   *)
(* id, a slot (scope, subject, predicate and slot key in one), a value,    *)
(* its valid time, what its source says of time and revision, the stamp    *)
(* the store gave it, and what admission decided: authority and sourcing.  *)
(* A relation is a Supersedes relation between two claims.                 *)
(***************************************************************************)
EXTENDS ClaimTime, FiniteSets

CONSTANT PossibleCounts     \* ProjectionPolicy::possible_counts

WithinTx(tx, bound) ==
    IF bound.kind = "sequence" THEN tx.seq <= bound.limit ELSE tx.at <= bound.limit

\* The instants a claim is valid over.
ValidWindow(c) ==
    CASE c.valid.kind = "timeless" -> Exactly(Earliest, Latest)
      [] c.valid.kind = "from_source_time" ->
            IntervalWindow([kind |-> "inclusive", point |-> c.sourceTime], Open)
      [] OTHER -> IntervalWindow(c.valid.start, c.valid.end)

QueryWindow(valid) ==
    IF valid.kind = "instant" THEN PointWindow(valid.point)
    ELSE IntervalWindow(valid.start, valid.end)

Within(inner, outer) == outer[1] <= inner[1] /\ outer[2] >= inner[2]

Certainty(valid, query) ==
    IF valid = None THEN "unresolved"
    ELSE IF /\ valid.definite # None /\ query.definite # None
            /\ Within(query.definite, valid.definite) THEN "definite"
    ELSE IF Within(query.possible, valid.possible) THEN "possible"
    ELSE "none"

Coverage(c, query) == Certainty(ValidWindow(c), query)

Counts(certainty) ==
    certainty = "definite" \/ (certainty = "possible" /\ PossibleCounts)

\* Mutant: arrival breaks a tie.
SourceLaterByArrival(c, d) ==
    IF c.sourceSeq # None /\ d.sourceSeq # None /\ c.sourceSeq # d.sourceSeq
    THEN c.sourceSeq > d.sourceSeq
    ELSE c.tx.seq > d.tx.seq

\* Whether c is later than d by its source's revision, then by its source's time.
SourceLater(c, d) ==
    IF c.sourceSeq # None /\ d.sourceSeq # None /\ c.sourceSeq # d.sourceSeq
    THEN c.sourceSeq > d.sourceSeq
    ELSE /\ c.sourceTime # None /\ d.sourceTime # None
         /\ PointWindow(c.sourceTime) # None /\ PointWindow(d.sourceTime) # None
         /\ Before(PointWindow(d.sourceTime).possible, PointWindow(c.sourceTime).possible)

\* Comparing c and d does not need a source time that does not resolve.
SourceComparable(c, d) ==
    \/ c.sourceSeq # None /\ d.sourceSeq # None /\ c.sourceSeq # d.sourceSeq
    \/ c.sourceTime = None \/ d.sourceTime = None
    \/ PointWindow(c.sourceTime) # None /\ PointWindow(d.sourceTime) # None

\* Mutant: a retraction is applied whatever the knowledge bound.
RetractedEver(h, bound) == {r.target : r \in h.retractions}

Retracted(h, bound) == {r.target : r \in {s \in h.retractions : WithinTx(s.tx, bound)}}

\* The pairs of active claims of which the first explicitly replaces the second.
Superseding(h, active, bound) ==
    {<<r.from, r.to>> : r \in
        {s \in h.relations :
            /\ WithinTx(s.tx, bound)
            /\ \E c \in active : c.id = s.from
            /\ \E c \in active : c.id = s.to /\ s.authority >= c.authority}}

\* Some user claim and some supplier claim stand, and not all agree.
UserSupplierConflict(standing) ==
    /\ \E c \in standing : c.sourcing = "user"
    /\ \E c \in standing : c.sourcing = "supplier"
    /\ \E c, d \in standing : c.sourcing # d.sourcing /\ c.value # d.value

Strongest(standing) ==
    {c \in standing : \A d \in standing : c.authority >= d.authority}

FirstById(set) == CHOOSE c \in set : \A d \in set : c.id <= d.id

\* Mutant: the claims of lower authority still order the stronger ones.
RankedByAll(standing) ==
    {<<p[1].id, p[2].id>> : p \in
        {q \in standing \X standing : SourceLater(q[1], q[2])}}

\* Source order decides among the strongest claims.
BySourceOrder(standing) ==
    /\ ~UserSupplierConflict(standing)
    /\ standing # {}
    /\ FirstById(Strongest(standing)).supersession = "by_source_order"

\* The pairs of strongest claims of which the first is later in its source.
Ranked(standing) ==
    IF ~BySourceOrder(standing) THEN {}
    ELSE {<<p[1].id, p[2].id>> : p \in
            {q \in Strongest(standing) \X Strongest(standing) : SourceLater(q[1], q[2])}}

Covering(h, slot, bound, query) ==
    {c \in h.claims : c.slot = slot /\ WithinTx(c.tx, bound) /\ Counts(Coverage(c, query))}

\* How project() narrows the covering claims of a slot down to the ones it shows.
Narrowed(h, bound, covering) ==
    LET active == {c \in covering : c.id \notin Retracted(h, bound)}
        explicit == Superseding(h, active, bound)
        standing == {c \in active : \A p \in explicit : p[2] # c.id}
        kept == IF UserSupplierConflict(standing) THEN standing ELSE Strongest(standing)
        ranked == Ranked(standing)
    IN  [covering |-> covering, active |-> active, standing |-> standing,
         pairs |-> explicit \cup ranked,
         shown |-> {c \in kept : \A p \in ranked : p[2] # c.id}]

Selected(h, slot, asOf) ==
    Narrowed(h, asOf.knowledge,
             Covering(h, slot, asOf.knowledge, QueryWindow(asOf.valid)))

\* What the view says of one winner: its value, certainty and what it replaced.
Candidate(c, pairs, query) ==
    [id |-> c.id, value |-> c.value, authority |-> c.authority, sourcing |-> c.sourcing,
     certainty |-> Coverage(c, query),
     superseded |-> {p[2] : p \in {q \in pairs : q[1] = c.id}}]

\* The pairs proposed for review: the shown claims that disagree.
Proposals(shown) ==
    {{p[1].id, p[2].id} : p \in {q \in shown \X shown : q[1].value # q[2].value}}

\* The view of a slot of which s was selected.
Shown(s, query) ==
    [state |-> CASE s.covering = {} -> "absent"
                 [] s.covering # {} /\ s.active = {} -> "retracted"
                 [] OTHER -> IF \A c, d \in s.shown : c.value = d.value
                             THEN "value" ELSE "conflicted",
     candidates |-> {Candidate(c, s.pairs, query) : c \in s.shown},
     proposals |-> Proposals(s.shown)]

SlotView(h, slot, asOf) == Shown(Selected(h, slot, asOf), QueryWindow(asOf.valid))

\* The slots that hold a claim known at the bound.
Slots(h, bound) == {c.slot : c \in {d \in h.claims : WithinTx(d.tx, bound)}}

\* Whether the source order of c and d matters among the claims that stand.
OrdersBySource(c, d, standing) ==
    BySourceOrder(standing) /\ {c, d} \subseteq Strongest(standing)

\* Whether every time the projection has to read resolves.
Projectable(h, asOf) ==
    /\ QueryWindow(asOf.valid) # None
    /\ \A c \in h.claims : WithinTx(c.tx, asOf.knowledge) => ValidWindow(c) # None
    /\ \A c, d \in h.claims : ~SourceComparable(c, d) =>
        ~OrdersBySource(c, d, Selected(h, c.slot, asOf).standing)

Project(h, asOf) == [slot \in Slots(h, asOf.knowledge) |-> SlotView(h, slot, asOf)]

=============================================================================
