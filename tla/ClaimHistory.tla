---------------------------- MODULE ClaimHistory ----------------------------
(***************************************************************************)
(* The append-only claim history of aicortex-claims (history.rs), and what *)
(* its projection promises about it.  Claims, relations and retractions    *)
(* arrive in any order; every append is stamped with the next sequence     *)
(* number and the writer's clock.                                          *)
(***************************************************************************)
EXTENDS Projection

CONSTANTS
    ClaimIds,           \* 1..n: claim ids, which order ties on output only
    Offers,             \* what a claim may say, before it has an id and a stamp
    Times,              \* readings of the writers' clocks
    Asked,              \* the valid-time bounds a reader asks for
    MaxRetractions

VARIABLE history

ASSUME ClaimIdsAreOrdered == ClaimIds \subseteq Nat

\* The five AuthorityLevels, in order.
ASSUME OffersAreRanked == \A o \in Offers : o.authority \in 1..5

ASSUME OffersAreLegal ==
    \A o \in Offers :
        /\ o.valid.kind \in {"timeless", "from_source_time", "explicit"}
        /\ o.valid.kind = "explicit" => ValidInterval(o.valid)
        /\ o.valid.kind = "from_source_time" => o.sourceTime # None
        /\ o.sourceTime # None => ValidPoint(o.sourceTime)

ASSUME AskedAreLegal ==
    \A q \in Asked : IF q.kind = "instant" THEN ValidPoint(q.point) ELSE ValidInterval(q)

\* The points that claims and readers name.
BoundPoints(i) == {b.point : b \in {x \in {i.start, i.end} : x.kind # "open"}}

PointsNamed ==
    (UNION {BoundPoints(o.valid) : o \in {x \in Offers : x.valid.kind = "explicit"}})
    \cup ({o.sourceTime : o \in Offers} \ {None})
    \cup {q.point : q \in {x \in Asked : x.kind = "instant"}}
    \cup (UNION {BoundPoints(q) : q \in {x \in Asked : x.kind # "instant"}})

\* A wall time of a named zone is no instant, one, or either of two (chrono's
\* MappedLocalTime).
ASSUME InstantsAreFew ==
    \A p \in PointsNamed :
        p.kind = "datetime" /\ p.value.zone.form = "iana" =>
            \A wall \in {Naive(p.value), Naive(p.value) + PrecisionDuration(p.value)} :
                LET found == Instants(p.value.zone.of, wall)
                IN  found = {} \/ \E x, y \in found : {x, y} \subseteq Int /\ found = {x, y}

HistoryInit == history = [claims |-> {}, relations |-> {}, retractions |-> {}]

Known(id) == \E c \in history.claims : c.id = id

Stamps(h) == {c.tx.seq : c \in h.claims} \cup {r.tx.seq : r \in h.relations}
             \cup {r.tx.seq : r \in h.retractions}

HighWater(h) == IF Stamps(h) = {} THEN 0 ELSE CHOOSE n \in Stamps(h) : \A m \in Stamps(h) : n >= m

\* A relation joins claims of the history, and replaces only within one slot.
RelationGuard(claims, from, to) ==
    \E c, d \in claims : c.id = from /\ d.id = to /\ c.slot = d.slot

ClaimRecord(id, offer, tx) ==
    [id |-> id, slot |-> offer.slot, value |-> offer.value, valid |-> offer.valid,
     sourceTime |-> offer.sourceTime, sourceSeq |-> offer.sourceSeq,
     authority |-> offer.authority, sourcing |-> offer.sourcing,
     supersession |-> offer.supersession, tx |-> tx]

\* A claim with the relations staged beside it: one stamp for all.
AppendClaim(id, offer, at, replaced) ==
    LET tx == [seq |-> HighWater(history) + 1, at |-> at]
        claims == history.claims \cup {ClaimRecord(id, offer, tx)}
    IN  /\ ~Known(id)
        /\ \A to \in replaced : RelationGuard(claims, id, to)
        /\ history' = [history EXCEPT
            !.claims = claims,
            !.relations = @ \cup {[from |-> id, to |-> to, tx |-> tx,
                                   authority |-> offer.authority] : to \in replaced}]

AppendRetraction(target, at) ==
    /\ Known(target)
    /\ Cardinality(history.retractions) < MaxRetractions
    /\ history' = [history EXCEPT !.retractions = @ \cup
            {[target |-> target, tx |-> [seq |-> HighWater(history) + 1, at |-> at]]}]

HistoryNext ==
    \/ \E id \in ClaimIds, offer \in Offers, at \in Times :
        \E replaced \in SUBSET {c.id : c \in history.claims} :
            AppendClaim(id, offer, at, replaced)
    \/ \E target \in ClaimIds, at \in Times : AppendRetraction(target, at)

HistorySpec == HistoryInit /\ [][HistoryNext]_history

-----------------------------------------------------------------------------
(***************************************************************************)
(* What the projection promises.                                           *)
(***************************************************************************)

AsOf(limit, valid) == [knowledge |-> [kind |-> "sequence", limit |-> limit], valid |-> valid]

\* The view, or None where the projection refuses to compute one.
View(h, asOf) == IF Projectable(h, asOf) THEN Project(h, asOf) ELSE None

FullView(h, valid) == View(h, AsOf(HighWater(h), valid))

\* A view at a sequence bound, once complete, never changes (projection.rs, within_tx
\* on claims, relations and retractions): what comes later is beyond its bound.
AsOfStable ==
    [][\A valid \in Asked, limit \in 0..HighWater(history) :
        View(history', AsOf(limit, valid)) = View(history, AsOf(limit, valid))]_history

\* A history of which two stamps were delivered in the other order.
Redelivered(h, m, n) ==
    LET Moved(r) == [r EXCEPT !.tx.seq = IF @ = m THEN n ELSE IF @ = n THEN m ELSE @]
    IN  [claims |-> {Moved(c) : c \in h.claims},
         relations |-> {Moved(r) : r \in h.relations},
         retractions |-> {Moved(r) : r \in h.retractions}]

\* The full-knowledge view does not depend on the order of delivery (projection.rs,
\* project: winners are never ordered by transaction time or by id).  Exchanging
\* neighbours is enough: it leads from any order that delivers a claim before what
\* refers to it to any other.
DeliveryOrderIrrelevant ==
    \A valid \in Asked :
        LET view == FullView(history, valid)
        IN  \A m \in Stamps(history) :
                m + 1 \in Stamps(history) =>
                    FullView(Redelivered(history, m, m + 1), valid) = view

\* Why d may hide c: it explicitly replaces it, outranks it, or is later in its source.
Hides(pairs, d, c) == <<d.id, c.id>> \in pairs \/ d.authority > c.authority

\* The source order of the strongest claims is circular: in some set each is later
\* than itself only by way of others.  It happens with three claims, of which two
\* have revisions and the third only a time.
Circular(claims) ==
    \E C \in SUBSET claims : C # {} /\ \A c \in C : \E d \in C : SourceLater(d, c)

\* A set of selected claims that no claim outside it hides has one that is shown.
Explained(s) ==
    \A C \in (SUBSET s.active) \ {{}} :
        (\A c \in C, d \in s.active : Hides(s.pairs, d, c) => d \in C) =>
            C \cap s.shown # {}

\* A claim that is known, valid at the bound and not retracted is shown, or a chain
\* of replacements, higher authorities and later source revisions leads from it to
\* a claim that is shown (projection.rs, project): nothing silently disappears,
\* unless the sources' own order runs in a circle.
HiddenHasReason ==
    \A valid \in Asked :
        LET asOf == AsOf(HighWater(history), valid)
        IN  \A slot \in Slots(history, asOf.knowledge) :
                LET s == Selected(history, slot, asOf)
                IN  Explained(s) \/ Circular(Strongest(s.standing))

\* "One value, possibly corroborated by several equal claims": a slot in the state
\* `value` shows a candidate (projection.rs, SlotState::Value).
ValueHasCandidate ==
    \A valid \in Asked :
        LET view == FullView(history, valid)
        IN  view # None => \A slot \in DOMAIN view :
                view[slot].state = "value" => view[slot].candidates # {}

\* The ranges of instants a point may stand for.
Readings(p) ==
    IF p.uncertainty # None
    THEN {<<w[1], w[2]>> : w \in {PointWindow(p).possible}}
            \cup {ZonedWindow(p.uncertainty.earliest).possible,
                  ZonedWindow(p.uncertainty.latest).possible}
    ELSE IF p.kind = "datetime" /\ p.value.zone.form = "floating"
    THEN LET lo == Naive(p.value)
             hi == lo + PrecisionDuration(p.value)
         IN  {<<lo + k, hi + k>> : k \in {-FloatingWindow, 0, FloatingWindow}}
    ELSE IF p.kind = "datetime" /\ p.value.zone.form = "iana"
    THEN LET lo == Naive(p.value)
         IN  Instants(p.value.zone.of, lo)
                \X Instants(p.value.zone.of, lo + PrecisionDuration(p.value))
    ELSE {PointWindow(p).possible}

\* The ranges of instants a pair of bounds may stand for: an exclusive bound leaves
\* its point out.
Spans(start, end) ==
    LET From == IF start.kind = "open" THEN {Earliest}
                ELSE {r[IF start.kind = "inclusive" THEN 1 ELSE 2] : r \in Readings(start.point)}
        To == IF end.kind = "open" THEN {Latest}
              ELSE {r[IF end.kind = "inclusive" THEN 2 ELSE 1] : r \in Readings(end.point)}
    IN  From \X To

ClaimSpans(c) ==
    CASE c.valid.kind = "timeless" -> {<<Earliest, Latest>>}
      [] c.valid.kind = "from_source_time" ->
            Spans([kind |-> "inclusive", point |-> c.sourceTime], Open)
      [] OTHER -> Spans(c.valid.start, c.valid.end)

AskedSpans(q) == IF q.kind = "instant" THEN Readings(q.point) ELSE Spans(q.start, q.end)

\* A coverage reported as definite holds under every reading of the claim's time
\* and of the bound (projection.rs, Certainty::Definite).
DefiniteIsCertain ==
    \A c \in history.claims, valid \in Asked :
        QueryWindow(valid) # None /\ Coverage(c, QueryWindow(valid)) = "definite" =>
            \A span \in ClaimSpans(c), asked \in AskedSpans(valid) : Within(asked, span)

=============================================================================
