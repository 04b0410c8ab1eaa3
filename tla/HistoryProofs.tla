---------------------------- MODULE HistoryProofs ----------------------------
(***************************************************************************)
(* What the projection promises about a claim history, for every set of    *)
(* claims, every bound and every order of arrival.                         *)
(***************************************************************************)
EXTENDS ClaimHistory, WellFoundedInduction, TLAPS

\* A nonempty set of numbers has a least one.
LEMMA LeastNumber ==
    ASSUME NEW D \in SUBSET Nat, D # {}
    PROVE  \E n \in D : \A m \in D : n <= m
  <1>1. PICK n \in D : \A m \in D : ~(<<m, n>> \in OpToRel(<, Nat))
    BY NatLessThanWellFounded, WFMin
  <1> SUFFICES ASSUME NEW m \in D PROVE n <= m
    OBVIOUS
  <1>2. ~(<<m, n>> \in {x \in Nat \X Nat : x[1] < x[2]})
    BY <1>1 DEF OpToRel
  <1>3. n \in Nat /\ m \in Nat /\ <<m, n>> \in Nat \X Nat
    OBVIOUS
  <1> QED
    BY <1>2, <1>3

\* A nonempty set of numbers below a limit has a greatest one.
LEMMA GreatestNumber ==
    ASSUME NEW D \in SUBSET Nat, D # {}, NEW limit \in Nat, \A m \in D : m <= limit
    PROVE  \E n \in D : \A m \in D : m <= n
  <1> DEFINE gaps == {limit - m : m \in D}
  <1>0. \A m \in D : limit - m \in Nat
    OBVIOUS
  <1>1. gaps \in SUBSET Nat /\ gaps # {}
    BY <1>0
  <1>2. PICK g \in gaps : \A k \in gaps : g <= k
    BY <1>1, LeastNumber
  <1>3. PICK n \in D : g = limit - n
    BY <1>2
  <1>4. \A m \in D : limit - m \in gaps
    OBVIOUS
  <1>5. \A m \in D : g <= limit - m
    BY <1>2, <1>4
  <1> QED
    BY <1>3, <1>5

-----------------------------------------------------------------------------
(***************************************************************************)
(* What appends keep true of a history.                                    *)
(***************************************************************************)

IsStamp(tx) == tx = [seq |-> tx.seq, at |-> tx.at] /\ tx.seq \in Nat

IsClaim(c) ==
    /\ c.id \in ClaimIds
    /\ \E o \in Offers : c = ClaimRecord(c.id, o, c.tx)
    /\ IsStamp(c.tx)

IsRelation(r) ==
    /\ r = [from |-> r.from, to |-> r.to, tx |-> r.tx, authority |-> r.authority]
    /\ IsStamp(r.tx)

IsRetraction(r) == r = [target |-> r.target, tx |-> r.tx] /\ IsStamp(r.tx)

\* ClaimHistory's maps: ids are keys, and a claim replaces older ones only.
HistoryInv ==
    /\ history = [claims |-> history.claims, relations |-> history.relations,
                  retractions |-> history.retractions]
    /\ \A c \in history.claims : IsClaim(c)
    /\ \A c, d \in history.claims : c.id = d.id => c = d
    /\ \A r \in history.relations : IsRelation(r)
    /\ \A r \in history.relations :
          \E c, d \in history.claims : c.id = r.from /\ d.id = r.to
    /\ \A r \in history.relations : \A c, d \in history.claims :
          c.id = r.from /\ d.id = r.to => d.tx.seq < c.tx.seq
    /\ \A r \in history.retractions : IsRetraction(r)
    /\ HighWater(history) \in Nat
    /\ \A n \in Stamps(history) : n <= HighWater(history)

\* The stamps of the parts of a history.
LEMMA PartsStamped ==
    ASSUME NEW h
    PROVE  /\ \A c \in h.claims : c.tx.seq \in Stamps(h)
           /\ \A r \in h.relations : r.tx.seq \in Stamps(h)
           /\ \A r \in h.retractions : r.tx.seq \in Stamps(h)
           /\ \A n \in Stamps(h) : \/ \E c \in h.claims : n = c.tx.seq
                                   \/ \E r \in h.relations : n = r.tx.seq
                                   \/ \E r \in h.retractions : n = r.tx.seq
  BY DEF Stamps

\* The high water of a history with a greatest stamp.
LEMMA HighWaterIs ==
    ASSUME NEW h, NEW n \in Stamps(h), Stamps(h) \subseteq Nat, \A m \in Stamps(h) : n >= m
    PROVE  HighWater(h) = n
  <1>1. HighWater(h) = CHOOSE k \in Stamps(h) : \A m \in Stamps(h) : k >= m
    BY DEF HighWater
  <1>2. PICK k : k = HighWater(h)
    OBVIOUS
  <1>3. k \in Stamps(h) /\ \A m \in Stamps(h) : k >= m
    BY <1>1, <1>2
  <1>4. k >= n /\ n >= k /\ k \in Nat /\ n \in Nat
    BY <1>3
  <1> QED
    BY <1>2, <1>4

\* A history that got parts with one stamp beyond its high water has that stamp
\* for its high water.
LEMMA HighWaterRises ==
    ASSUME NEW h, NEW g, HighWater(h) \in Nat, \A n \in Stamps(h) : n \in Nat /\ n <= HighWater(h),
           Stamps(g) = Stamps(h) \cup {HighWater(h) + 1}
    PROVE  /\ HighWater(g) = HighWater(h) + 1
           /\ \A n \in Stamps(g) : n \in Nat /\ n <= HighWater(g)
  <1> PICK n : n = HighWater(h) + 1
    OBVIOUS
  <1>1. n \in Stamps(g) /\ n \in Nat
    OBVIOUS
  <1>2. \A m \in Stamps(g) : m \in Nat /\ n >= m
    OBVIOUS
  <1>3. HighWater(g) = n
    BY <1>1, <1>2, HighWaterIs
  <1> QED
    BY <1>2, <1>3

\* What an append adds, once and for all: its parts are stamped beyond everything
\* that was known.
Grows(new) ==
    /\ new = HighWater(history) + 1
    /\ HighWater(history') = new
    /\ history.claims \subseteq history'.claims
    /\ history.relations \subseteq history'.relations
    /\ history.retractions \subseteq history'.retractions
    /\ \A c \in history'.claims \ history.claims : c.tx.seq = new
    /\ \A r \in history'.relations \ history.relations : r.tx.seq = new
    /\ \A r \in history'.retractions \ history.retractions : r.tx.seq = new

LEMMA StampsAreNumbers ==
    ASSUME HistoryInv
    PROVE  \A n \in Stamps(history) : n \in Nat /\ n <= HighWater(history)
  <1>1. /\ \A c \in history.claims : c.tx.seq \in Nat
        /\ \A r \in history.relations : r.tx.seq \in Nat
        /\ \A r \in history.retractions : r.tx.seq \in Nat
    BY DEF HistoryInv, IsClaim, IsRelation, IsRetraction, IsStamp
  <1>2. \A n \in Stamps(history) : n \in Nat
    BY <1>1, PartsStamped
  <1> QED
    BY <1>2 DEF HistoryInv

\* append_retraction keeps the invariant.
LEMMA RetractionSound ==
    ASSUME HistoryInv, NEW target, NEW at, AppendRetraction(target, at)
    PROVE  HistoryInv' /\ Grows(HighWater(history) + 1)
  <1> PICK n : n = HighWater(history) + 1
    OBVIOUS
  <1> DEFINE r == [target |-> target, tx |-> [seq |-> n, at |-> at]]
  <1>0. n \in Nat
    BY DEF HistoryInv
  <1>1. /\ history'.claims = history.claims
        /\ history'.relations = history.relations
        /\ history'.retractions = history.retractions \cup {r}
        /\ history' = [claims |-> history'.claims, relations |-> history'.relations,
                       retractions |-> history'.retractions]
    <2>1. history' = [history EXCEPT !.retractions = @ \cup {r}]
      BY DEF AppendRetraction
    <2>2. DOMAIN history = {"claims", "relations", "retractions"}
      BY DEF HistoryInv
    <2> HIDE DEF r
    <2> QED
      BY <2>1, <2>2
  <1>2. r.tx.seq = n /\ IsRetraction(r)
    BY <1>0 DEF IsRetraction, IsStamp
  <1> HIDE DEF r
  <1>3. Stamps(history') = Stamps(history) \cup {n}
    <2>1. \A k \in Stamps(history') : k \in Stamps(history) \cup {n}
      BY <1>1, <1>2, PartsStamped
    <2>2. \A k \in Stamps(history) \cup {n} : k \in Stamps(history')
      BY <1>1, <1>2, PartsStamped
    <2> QED
      BY <2>1, <2>2
  <1>4. HighWater(history') = n /\ \A k \in Stamps(history') : k \in Nat /\ k <= HighWater(history')
    BY <1>3, StampsAreNumbers, HighWaterRises DEF HistoryInv
  <1>5. Grows(n)
    BY <1>1, <1>2, <1>4 DEF Grows
  <1>6. \A s \in history'.retractions : IsRetraction(s)
    BY <1>1, <1>2 DEF HistoryInv
  <1>7. HistoryInv'
    BY <1>0, <1>1, <1>4, <1>6 DEF HistoryInv
  <1> QED
    BY <1>5, <1>7

\* append_claim, with the relations staged beside it, keeps the invariant.
LEMMA ClaimSound ==
    ASSUME HistoryInv, NEW id \in ClaimIds, NEW offer \in Offers, NEW at,
           NEW replaced \in SUBSET {c.id : c \in history.claims},
           AppendClaim(id, offer, at, replaced)
    PROVE  HistoryInv' /\ Grows(HighWater(history) + 1)
  <1> PICK n : n = HighWater(history) + 1
    OBVIOUS
  <1> DEFINE tx == [seq |-> n, at |-> at]
             new == ClaimRecord(id, offer, tx)
             staged == {[from |-> id, to |-> to, tx |-> tx, authority |-> offer.authority] :
                           to \in replaced}
  <1>0. n \in Nat
    BY DEF HistoryInv
  <1>1. /\ history'.claims = history.claims \cup {new}
        /\ history'.relations = history.relations \cup staged
        /\ history'.retractions = history.retractions
        /\ history' = [claims |-> history'.claims, relations |-> history'.relations,
                       retractions |-> history'.retractions]
    <2>1. history' = [history EXCEPT !.claims = history.claims \cup {new},
                                     !.relations = @ \cup staged]
      BY DEF AppendClaim
    <2>2. DOMAIN history = {"claims", "relations", "retractions"}
      BY DEF HistoryInv
    <2> HIDE DEF new, staged
    <2> QED
      BY <2>1, <2>2
  <1>2. ~Known(id)
    BY DEF AppendClaim
  <1>3. new.id = id /\ new.tx = tx /\ tx.seq = n /\ IsStamp(tx) /\ IsClaim(new)
    <2>1. new.id = id /\ new.tx = tx /\ tx.seq = n /\ IsStamp(tx)
      BY <1>0 DEF ClaimRecord, IsStamp
    <2>2. new = ClaimRecord(new.id, offer, new.tx)
      BY <2>1
    <2> HIDE DEF new, tx
    <2> QED
      BY <2>1, <2>2 DEF IsClaim
  <1>4. \A r \in staged : r.from = id /\ r.to \in replaced /\ r.tx = tx /\ IsRelation(r)
    BY <1>3 DEF IsRelation
  <1>5. \A r \in staged : r.tx.seq = n
    BY <1>3, <1>4
  <1> HIDE DEF new, tx, staged
  <1>6. Stamps(history') = Stamps(history) \cup {n}
    <2>1. \A k \in Stamps(history') : k \in Stamps(history) \cup {n}
      BY <1>1, <1>3, <1>5, PartsStamped
    <2>2. \A k \in Stamps(history) \cup {n} : k \in Stamps(history')
      BY <1>1, <1>3, PartsStamped
    <2> QED
      BY <2>1, <2>2
  <1>7. HighWater(history') = n /\ \A k \in Stamps(history') : k \in Nat /\ k <= HighWater(history')
    BY <1>6, StampsAreNumbers, HighWaterRises DEF HistoryInv
  <1>8. Grows(n)
    BY <1>1, <1>3, <1>5, <1>7 DEF Grows
  <1>9. \A c \in history.claims : c.id # id /\ c.tx.seq \in Nat /\ c.tx.seq < n
    <2>1. \A c \in history.claims : c.tx.seq \in Nat /\ c.tx.seq <= HighWater(history)
      BY StampsAreNumbers, PartsStamped
    <2> QED
      BY <1>2, <2>1 DEF Known, HistoryInv
  <1>10. \A c \in history'.claims : IsClaim(c)
    BY <1>1, <1>3 DEF HistoryInv
  <1>11. \A c, d \in history'.claims : c.id = d.id => c = d
    BY <1>1, <1>3, <1>9 DEF HistoryInv
  <1>12. \A r \in history'.relations : IsRelation(r)
    BY <1>1, <1>4 DEF HistoryInv
  <1>15. \A r \in history'.relations :
            \E c, d \in history'.claims : c.id = r.from /\ d.id = r.to
    <2> SUFFICES ASSUME NEW r \in history'.relations
                 PROVE  \E c, d \in history'.claims : c.id = r.from /\ d.id = r.to
      OBVIOUS
    <2>1. CASE r \in history.relations
      BY <2>1, <1>1 DEF HistoryInv
    <2>2. CASE r \in staged
      <3>1. PICK d \in history.claims : d.id = r.to
        BY <2>2, <1>4
      <3> QED
        BY <3>1, <2>2, <1>1, <1>3, <1>4
    <2> QED
      BY <2>1, <2>2, <1>1
  <1>13. \A r \in history'.relations : \A c, d \in history'.claims :
           c.id = r.from /\ d.id = r.to => d.tx.seq < c.tx.seq
    <2> SUFFICES ASSUME NEW r \in history'.relations, NEW c \in history'.claims,
                        NEW d \in history'.claims, c.id = r.from, d.id = r.to
                 PROVE  d.tx.seq < c.tx.seq
      OBVIOUS
    <2>1. CASE r \in staged
      <3>1. c = new /\ c.tx.seq = n
        BY <2>1, <1>1, <1>3, <1>4, <1>9
      <3>2. d.id \in {x.id : x \in history.claims}
        BY <2>1, <1>4
      <3>3. d \in history.claims
        BY <3>2, <1>1, <1>3, <1>9
      <3> QED
        BY <3>1, <3>3, <1>9
    <2>2. CASE r \in history.relations /\ c \in history.claims /\ d \in history.claims
      BY <2>2 DEF HistoryInv
    <2>3. CASE r \in history.relations /\ (c = new \/ d = new)
      <3>1. \E x, y \in history.claims : x.id = r.from /\ y.id = r.to
        BY <2>3 DEF HistoryInv
      <3> QED
        BY <3>1, <2>3, <1>3, <1>9
    <2> QED
      BY <2>1, <2>2, <2>3, <1>1
  <1>14. HistoryInv'
    BY <1>0, <1>1, <1>7, <1>10, <1>11, <1>12, <1>15, <1>13 DEF HistoryInv
  <1> QED
    BY <1>8, <1>14

LEMMA NextSound ==
    ASSUME HistoryInv, HistoryNext
    PROVE  HistoryInv' /\ Grows(HighWater(history) + 1)
  <1>1. CASE \E id \in ClaimIds, offer \in Offers, at \in Times :
                \E replaced \in SUBSET {c.id : c \in history.claims} :
                    AppendClaim(id, offer, at, replaced)
    BY <1>1, ClaimSound
  <1>2. CASE \E target \in ClaimIds, at \in Times : AppendRetraction(target, at)
    BY <1>2, RetractionSound
  <1> QED
    BY <1>1, <1>2 DEF HistoryNext

\* The maps of a ClaimHistory stay well formed, and a claim replaces older ones
\* only, so that explicit replacements never run in a circle.
THEOREM HistoryInvariance == HistorySpec => []HistoryInv
  <1>1. HistoryInit => HistoryInv
    <2> SUFFICES ASSUME HistoryInit PROVE HistoryInv
      OBVIOUS
    <2>1. /\ history = [claims |-> {}, relations |-> {}, retractions |-> {}]
          /\ history.claims = {} /\ history.relations = {} /\ history.retractions = {}
      BY DEF HistoryInit
    <2>2. Stamps(history) = {} /\ HighWater(history) = 0
      BY <2>1 DEF Stamps, HighWater
    <2> QED
      BY <2>1, <2>2 DEF HistoryInv
  <1>2. HistoryInv /\ [HistoryNext]_history => HistoryInv'
    <2> SUFFICES ASSUME HistoryInv, [HistoryNext]_history PROVE HistoryInv'
      OBVIOUS
    <2>1. CASE HistoryNext
      BY <2>1, NextSound
    <2>2. CASE UNCHANGED history
      BY <2>2 DEF HistoryInv
    <2> QED
      BY <2>1, <2>2
  <1> QED
    BY <1>1, <1>2, PTL DEF HistorySpec

-----------------------------------------------------------------------------
(***************************************************************************)
(* A view depends on nothing beyond its knowledge bound.                   *)
(***************************************************************************)

KnownBy(parts, bound) == {x \in parts : WithinTx(x.tx, bound)}

SameKnowledge(h, g, bound) ==
    /\ KnownBy(h.claims, bound) = KnownBy(g.claims, bound)
    /\ KnownBy(h.relations, bound) = KnownBy(g.relations, bound)
    /\ KnownBy(h.retractions, bound) = KnownBy(g.retractions, bound)

LEMMA SameSelection ==
    ASSUME NEW h, NEW g, NEW asOf, NEW slot, SameKnowledge(h, g, asOf.knowledge)
    PROVE  Selected(h, slot, asOf) = Selected(g, slot, asOf)
  <1> PICK bound : bound = asOf.knowledge
    OBVIOUS
  <1> PICK query : query = QueryWindow(asOf.valid)
    OBVIOUS
  <1>1. Covering(h, slot, bound, query) = Covering(g, slot, bound, query)
    <2>1. \A k : Covering(k, slot, bound, query) =
                   {c \in KnownBy(k.claims, bound) : c.slot = slot /\ Counts(Coverage(c, query))}
      BY DEF Covering, KnownBy
    <2> QED
      BY <2>1 DEF SameKnowledge
  <1>2. Retracted(h, bound) = Retracted(g, bound)
    BY DEF Retracted, SameKnowledge, KnownBy
  <1>3. \A active : Superseding(h, active, bound) = Superseding(g, active, bound)
    <2> SUFFICES ASSUME NEW active
                 PROVE  Superseding(h, active, bound) = Superseding(g, active, bound)
      OBVIOUS
    <2> DEFINE Joins(s) == /\ \E c \in active : c.id = s.from
                           /\ \E c \in active : c.id = s.to /\ s.authority >= c.authority
    <2>1. \A k : {s \in k.relations : /\ WithinTx(s.tx, bound)
                                      /\ \E c \in active : c.id = s.from
                                      /\ \E c \in active : c.id = s.to /\ s.authority >= c.authority}
                 = {s \in KnownBy(k.relations, bound) : Joins(s)}
      BY DEF KnownBy
    <2> HIDE DEF Joins
    <2> QED
      BY <2>1 DEF Superseding, SameKnowledge
  <1> QED
    BY <1>1, <1>2, <1>3 DEF Selected, Narrowed

\* Everything that orders or shows claims is among the claims it selected.
LEMMA StandingIsKnown ==
    ASSUME NEW h, NEW slot, NEW asOf
    PROVE  /\ Selected(h, slot, asOf).standing \subseteq KnownBy(h.claims, asOf.knowledge)
           /\ \A c \in Strongest(Selected(h, slot, asOf).standing) :
                 c \in KnownBy(h.claims, asOf.knowledge)
  BY DEF Selected, Narrowed, Covering, KnownBy, Strongest

LEMMA SameView ==
    ASSUME NEW h, NEW g, NEW asOf, SameKnowledge(h, g, asOf.knowledge)
    PROVE  View(h, asOf) = View(g, asOf)
  <1> PICK bound : bound = asOf.knowledge
    OBVIOUS
  <1>1. \A slot : Selected(h, slot, asOf) = Selected(g, slot, asOf)
    BY SameSelection
  <1>2. Slots(h, bound) = Slots(g, bound)
    BY DEF Slots, SameKnowledge, KnownBy
  <1>3. \A slot : SlotView(h, slot, asOf) = SlotView(g, slot, asOf)
    BY <1>1 DEF SlotView
  <1>4. Project(h, asOf) = Project(g, asOf)
    BY <1>2, <1>3 DEF Project
  <1>5. ASSUME NEW k, NEW l, SameKnowledge(k, l, bound), Projectable(k, asOf),
               \A slot : Selected(k, slot, asOf) = Selected(l, slot, asOf)
        PROVE  Projectable(l, asOf)
    <2>1. \A c \in l.claims : WithinTx(c.tx, bound) => c \in k.claims
      BY <1>5 DEF SameKnowledge, KnownBy
    <2>2. \A c \in l.claims : WithinTx(c.tx, bound) => ValidWindow(c) # None
      BY <1>5, <2>1 DEF Projectable
    <2>3. ASSUME NEW c \in l.claims, NEW d \in l.claims, ~SourceComparable(c, d),
                 OrdersBySource(c, d, Selected(l, c.slot, asOf).standing)
          PROVE  FALSE
      <3>1. c \in KnownBy(l.claims, bound) /\ d \in KnownBy(l.claims, bound)
        BY <2>3, StandingIsKnown DEF OrdersBySource
      <3>2. c \in k.claims /\ d \in k.claims
        BY <3>1, <2>1 DEF KnownBy
      <3>3. OrdersBySource(c, d, Selected(k, c.slot, asOf).standing)
        BY <1>5, <2>3
      <3> QED
        BY <1>5, <2>3, <3>2, <3>3 DEF Projectable
    <2> QED
      BY <1>5, <2>2, <2>3 DEF Projectable
  <1>6. SameKnowledge(g, h, bound)
    BY DEF SameKnowledge
  <1>7. Projectable(h, asOf) <=> Projectable(g, asOf)
    BY <1>1, <1>5, <1>6
  <1> QED
    BY <1>4, <1>7 DEF View

\* What was known as of a number is never seen differently later: what is appended
\* carries a number of its own (projection.rs, within_tx).
THEOREM PastStays == HistorySpec => AsOfStable
  <1> DEFINE Stays == \A valid \in Asked, limit \in 0..HighWater(history) :
                         View(history', AsOf(limit, valid)) = View(history, AsOf(limit, valid))
  <1>1. ASSUME HistoryInv, HistoryNext
        PROVE  Stays
    <2> SUFFICES ASSUME NEW valid \in Asked, NEW limit \in 0..HighWater(history)
                 PROVE  View(history', AsOf(limit, valid)) = View(history, AsOf(limit, valid))
      OBVIOUS
    <2> PICK bound : bound = [kind |-> "sequence", limit |-> limit]
      OBVIOUS
    <2>1. AsOf(limit, valid).knowledge = bound
      BY DEF AsOf
    <2>2. Grows(HighWater(history) + 1) /\ HighWater(history) \in Nat
      BY <1>1, NextSound DEF HistoryInv
    <2>3. \A x : x.tx.seq = HighWater(history) + 1 => ~WithinTx(x.tx, bound)
      BY <2>2 DEF WithinTx
    <2>4. SameKnowledge(history', history, bound)
      BY <2>2, <2>3 DEF SameKnowledge, KnownBy, Grows
    <2> QED
      BY <2>1, <2>4, SameView
  <1>2. HistoryInv /\ [HistoryNext]_history => [Stays]_history
    BY <1>1
  <1>3. HistorySpec => [][Stays]_history
    BY <1>2, HistoryInvariance, PTL DEF HistorySpec
  <1> QED
    BY <1>3 DEF AsOfStable

-----------------------------------------------------------------------------
(***************************************************************************)
(* Nothing disappears without a reason.                                    *)
(***************************************************************************)

LEMMA SelectedParts ==
    ASSUME NEW h, NEW slot, NEW asOf, NEW s, s = Selected(h, slot, asOf)
    PROVE  /\ s.active \subseteq h.claims
           /\ s.standing = {c \in s.active :
                 \A p \in Superseding(h, s.active, asOf.knowledge) : p[2] # c.id}
           /\ s.pairs = Superseding(h, s.active, asOf.knowledge) \cup Ranked(s.standing)
           /\ UserSupplierConflict(s.standing) =>
                 s.shown = {c \in s.standing : \A p \in Ranked(s.standing) : p[2] # c.id}
           /\ ~UserSupplierConflict(s.standing) =>
                 s.shown = {c \in Strongest(s.standing) :
                               \A p \in Ranked(s.standing) : p[2] # c.id}
  BY DEF Selected, Narrowed, Covering

\* A nonempty set of claims has one of the highest authority.
LEMMA SomeIsStrongest ==
    ASSUME NEW S, S # {}, \A c \in S : c.authority \in 1..5
    PROVE  Strongest(S) # {}
  <1> DEFINE levels == {c.authority : c \in S}
  <1>1. levels \in SUBSET Nat /\ levels # {} /\ \A n \in levels : n <= 5
    OBVIOUS
  <1>2. PICK n \in levels : \A m \in levels : m <= n
    BY <1>1, GreatestNumber
  <1>3. PICK c \in S : n = c.authority
    BY <1>2
  <1>4. \A d \in S : d.authority \in levels
    OBVIOUS
  <1>5. \A d \in S : c.authority >= d.authority
    BY <1>2, <1>3, <1>4
  <1> QED
    BY <1>5 DEF Strongest

LEMMA ClaimsRanked ==
    ASSUME HistoryInv
    PROVE  \A c \in history.claims : c.authority \in 1..5 /\ c.id \in Nat /\ c.tx.seq \in Nat
  <1> SUFFICES ASSUME NEW c \in history.claims
               PROVE  c.authority \in 1..5 /\ c.id \in Nat /\ c.tx.seq \in Nat
    OBVIOUS
  <1>1. IsClaim(c)
    BY DEF HistoryInv
  <1>2. PICK o \in Offers : c = ClaimRecord(c.id, o, c.tx)
    BY <1>1 DEF IsClaim
  <1>3. c.authority = o.authority
    BY <1>2 DEF ClaimRecord
  <1> QED
    BY <1>1, <1>3, OffersAreRanked, ClaimIdsAreOrdered DEF IsClaim, IsStamp

\* Of the claims of a set that no other claim hides, the last to arrive stands: an
\* explicit replacement is newer than what it replaces.
LEMMA SomeStands ==
    ASSUME HistoryInv, NEW slot, NEW asOf, NEW s, s = Selected(history, slot, asOf),
           NEW C \in SUBSET s.active, C # {},
           \A c \in C, d \in s.active : Hides(s.pairs, d, c) => d \in C
    PROVE  C \cap s.standing # {}
  <1> SUFFICES ASSUME C \cap s.standing = {} PROVE FALSE
    OBVIOUS
  <1> PICK bound : bound = asOf.knowledge
    OBVIOUS
  <1>1. C \subseteq history.claims /\ s.active \subseteq history.claims
    BY SelectedParts
  <1> DEFINE stamps == {c.tx.seq : c \in C}
  <1>2. stamps \in SUBSET Nat /\ stamps # {}
    BY <1>1, ClaimsRanked
  <1>3. HighWater(history) \in Nat /\ \A n \in stamps : n <= HighWater(history)
    BY <1>1, StampsAreNumbers, PartsStamped DEF HistoryInv
  <1>4. PICK n \in stamps : \A m \in stamps : m <= n
    BY <1>2, <1>3, GreatestNumber
  <1>5. PICK c \in C : n = c.tx.seq
    BY <1>4
  <1>6. \A d \in C : d.tx.seq <= c.tx.seq
    BY <1>4, <1>5
  <1>7. PICK p \in Superseding(history, s.active, bound) : p[2] = c.id
    BY SelectedParts
  <1>8. PICK r \in history.relations : p = <<r.from, r.to>> /\ \E d \in s.active : d.id = r.from
    BY <1>7 DEF Superseding
  <1>9. PICK d \in s.active : d.id = r.from
    BY <1>8
  <1>10. <<d.id, c.id>> \in s.pairs
    BY <1>7, <1>8, <1>9, SelectedParts
  <1>11. d \in C
    BY <1>10 DEF Hides
  <1>12. c.tx.seq < d.tx.seq
    BY <1>1, <1>7, <1>8, <1>9, <1>11 DEF HistoryInv
  <1> QED
    BY <1>1, <1>6, <1>11, <1>12, ClaimsRanked

\* Of the claims of a set that no other claim hides one is shown, unless the
\* strongest are each later in their source than another.
LEMMA SomeIsShown ==
    ASSUME HistoryInv, NEW slot, NEW asOf, NEW s, s = Selected(history, slot, asOf),
           ~Circular(Strongest(s.standing)),
           NEW C \in SUBSET s.active, C # {},
           \A c \in C, d \in s.active : Hides(s.pairs, d, c) => d \in C
    PROVE  C \cap s.shown # {}
  <1>1. PICK c \in C : c \in s.standing
    BY SomeStands
  <1>2. s.standing \subseteq s.active /\ s.active \subseteq history.claims
    BY SelectedParts
  <1>3. CASE UserSupplierConflict(s.standing)
    <2>1. Ranked(s.standing) = {}
      BY <1>3 DEF Ranked, BySourceOrder
    <2> QED
      BY <1>1, <1>3, <2>1, SelectedParts
  <1>4. CASE ~UserSupplierConflict(s.standing)
    <2> DEFINE D == C \cap Strongest(s.standing)
    <2>1. \A d \in s.standing : d.authority \in 1..5
      BY <1>2, ClaimsRanked
    <2>2. PICK top : top \in Strongest(s.standing)
      BY <1>1, <2>1, SomeIsStrongest
    <2>3. top \in s.standing /\ top.authority >= c.authority
      BY <1>1, <2>2 DEF Strongest
    <2>4. top.authority \in 1..5 /\ c.authority \in 1..5
      BY <1>1, <2>1, <2>3
    <2>5. top.authority > c.authority \/ top.authority = c.authority
      BY <2>3, <2>4
    <2>6. D # {}
      <3>1. CASE top.authority > c.authority
        <4>1. top \in C
          BY <1>2, <2>3, <3>1 DEF Hides
        <4> QED
          BY <2>2, <4>1
      <3>2. CASE top.authority = c.authority
        <4>1. c \in Strongest(s.standing)
          BY <1>1, <2>2, <3>2 DEF Strongest
        <4> QED
          BY <4>1
      <3> QED
        BY <2>5, <3>1, <3>2
    <2> SUFFICES ASSUME D \cap s.shown = {} PROVE FALSE
      OBVIOUS
    <2>7. ASSUME NEW d \in D PROVE \E e \in D : SourceLater(e, d)
      <3>1. PICK p \in Ranked(s.standing) : p[2] = d.id
        BY <1>4, SelectedParts
      <3>2. PICK e \in Strongest(s.standing), f \in Strongest(s.standing) :
               p = <<e.id, f.id>> /\ SourceLater(e, f)
        BY <3>1 DEF Ranked
      <3>3. f \in history.claims /\ d \in history.claims /\ f.id = d.id
        BY <1>2, <3>1, <3>2 DEF Strongest
      <3>4. f = d
        BY <3>3 DEF HistoryInv
      <3>5. e \in s.active /\ <<e.id, d.id>> \in s.pairs
        BY <1>2, <3>1, <3>2, SelectedParts DEF Strongest
      <3>6. e \in C
        BY <3>5 DEF Hides
      <3> QED
        BY <3>2, <3>4, <3>6
    <2> QED
      BY <2>6, <2>7 DEF Circular
  <1> QED
    BY <1>3, <1>4

\* A claim that is known, covering and not retracted is shown, or a chain of
\* reasons leads from it to one that is (projection.rs, project): nothing silently
\* disappears, unless the sources' own order runs in a circle.
THEOREM NothingDisappears == HistorySpec => []HiddenHasReason
  <1>1. HistoryInv => HiddenHasReason
    <2> SUFFICES ASSUME HistoryInv, NEW asOf, NEW slot, NEW s,
                        s = Selected(history, slot, asOf), ~Circular(Strongest(s.standing))
                 PROVE  Explained(s)
      BY DEF HiddenHasReason
    <2> QED
      BY SomeIsShown DEF Explained
  <1> QED
    BY <1>1, HistoryInvariance, PTL

-----------------------------------------------------------------------------
(***************************************************************************)
(* The order of delivery does not matter.                                  *)
(***************************************************************************)

\* Two records of one claim, delivered at different times.
Alike(c, d) ==
    /\ c.id = d.id /\ c.slot = d.slot /\ c.value = d.value
    /\ c.valid = d.valid /\ c.sourceTime = d.sourceTime /\ c.sourceSeq = d.sourceSeq
    /\ c.authority = d.authority /\ c.sourcing = d.sourcing
    /\ c.supersession = d.supersession

Twins(A, B) ==
    /\ \A c \in A : \E d \in B : Alike(c, d)
    /\ \A d \in B : \E c \in A : Alike(c, d)

UniqueIds(A) == \A c, d \in A : c.id \in Nat /\ (c.id = d.id => c = d)

\* Nothing the projection computes of claims reads their stamps.
LEMMA AlikeCoverage ==
    ASSUME NEW c, NEW d, Alike(c, d), NEW query
    PROVE  Coverage(c, query) = Coverage(d, query) /\ (ValidWindow(c) = ValidWindow(d))
  <1>1. ValidWindow(c) = ValidWindow(d)
    BY DEF Alike, ValidWindow
  <1> QED
    BY <1>1 DEF Coverage

LEMMA AlikeOrder ==
    ASSUME NEW a, NEW b, NEW c, NEW d, Alike(a, c), Alike(b, d)
    PROVE  /\ SourceLater(a, b) <=> SourceLater(c, d)
           /\ SourceComparable(a, b) <=> SourceComparable(c, d)
  BY DEF Alike, SourceLater, SourceComparable

\* A part of one of two twin sets that is defined by what twins share.
LEMMA TwinStrongest ==
    ASSUME NEW A, NEW B, Twins(A, B)
    PROVE  Twins(Strongest(A), Strongest(B))
  <1>1. \A c \in Strongest(A) : \E d \in Strongest(B) : Alike(c, d)
    <2> SUFFICES ASSUME NEW c \in Strongest(A) PROVE \E d \in Strongest(B) : Alike(c, d)
      OBVIOUS
    <2>1. PICK d \in B : Alike(c, d)
      BY DEF Strongest, Twins
    <2>2. \A e \in B : \E f \in A : f.authority = e.authority
      BY DEF Twins, Alike
    <2>3. d.authority = c.authority /\ \A f \in A : c.authority >= f.authority
      BY <2>1 DEF Alike, Strongest
    <2>4. \A e \in B : d.authority >= e.authority
      BY <2>2, <2>3
    <2> QED
      BY <2>1, <2>4 DEF Strongest
  <1>2. \A d \in Strongest(B) : \E c \in Strongest(A) : Alike(c, d)
    <2> SUFFICES ASSUME NEW d \in Strongest(B) PROVE \E c \in Strongest(A) : Alike(c, d)
      OBVIOUS
    <2>1. PICK c \in A : Alike(c, d)
      BY DEF Strongest, Twins
    <2>2. \A e \in A : \E f \in B : f.authority = e.authority
      BY DEF Twins, Alike
    <2>3. d.authority = c.authority /\ \A f \in B : d.authority >= f.authority
      BY <2>1 DEF Alike, Strongest
    <2>4. \A e \in A : c.authority >= e.authority
      BY <2>2, <2>3
    <2> QED
      BY <2>1, <2>4 DEF Strongest
  <1> QED
    BY <1>1, <1>2 DEF Twins

LEMMA TwinConflict ==
    ASSUME NEW A, NEW B, Twins(A, B)
    PROVE  UserSupplierConflict(A) <=> UserSupplierConflict(B)
  <1>1. ASSUME NEW S, NEW T, \A c \in S : \E d \in T : Alike(c, d), UserSupplierConflict(S)
        PROVE  UserSupplierConflict(T)
    BY <1>1 DEF Alike, UserSupplierConflict
  <1>2. ASSUME NEW S, NEW T, \A d \in T : \E c \in S : Alike(c, d), UserSupplierConflict(T)
        PROVE  UserSupplierConflict(S)
    BY <1>2 DEF Alike, UserSupplierConflict
  <1> QED
    BY <1>1, <1>2 DEF Twins

\* The claim that states the rule of a slot is the same one.
LEMMA TwinFirst ==
    ASSUME NEW A, NEW B, Twins(A, B), UniqueIds(A), UniqueIds(B), A # {}
    PROVE  FirstById(A).supersession = FirstById(B).supersession
  <1>1. ASSUME NEW S, S # {}, UniqueIds(S)
        PROVE  \E c \in S : \A d \in S : c.id <= d.id
    <2> DEFINE ids == {c.id : c \in S}
    <2>1. ids \in SUBSET Nat /\ ids # {}
      BY <1>1 DEF UniqueIds
    <2>2. PICK n \in ids : \A k \in ids : n <= k
      BY <2>1, LeastNumber
    <2>3. PICK c \in S : n = c.id
      BY <2>2
    <2>4. \A d \in S : d.id \in ids
      OBVIOUS
    <2> QED
      BY <2>2, <2>3, <2>4
  <1>2. PICK a : a = FirstById(A)
    OBVIOUS
  <1>3. PICK b : b = FirstById(B)
    OBVIOUS
  <1>4. a \in A /\ \A d \in A : a.id <= d.id
    <2>1. \E c \in A : \A d \in A : c.id <= d.id
      BY <1>1
    <2> QED
      BY <1>2, <2>1 DEF FirstById
  <1>5. B # {}
    BY DEF Twins
  <1>6. b \in B /\ \A d \in B : b.id <= d.id
    <2>1. \E c \in B : \A d \in B : c.id <= d.id
      BY <1>1, <1>5
    <2> QED
      BY <1>3, <2>1 DEF FirstById
  <1>7. PICK twin \in B : Alike(a, twin)
    BY <1>4 DEF Twins
  <1>8. PICK other \in A : Alike(other, b)
    BY <1>6 DEF Twins
  <1>9. a.id <= b.id /\ b.id <= a.id
    BY <1>4, <1>6, <1>7, <1>8 DEF Alike
  <1>10. a.id \in Nat /\ b.id \in Nat
    BY <1>4, <1>6 DEF UniqueIds
  <1>11. twin.id = b.id
    BY <1>7, <1>9, <1>10 DEF Alike
  <1>12. twin = b
    BY <1>6, <1>11 DEF UniqueIds
  <1> QED
    BY <1>2, <1>3, <1>7, <1>12 DEF Alike

LEMMA TwinRule ==
    ASSUME NEW A, NEW B, Twins(A, B), UniqueIds(A), UniqueIds(B),
           \A c \in A : c.authority \in 1..5
    PROVE  BySourceOrder(A) <=> BySourceOrder(B)
  <1>1. CASE A = {}
    BY <1>1 DEF Twins, BySourceOrder
  <1>2. CASE A # {}
    <2>1. Twins(Strongest(A), Strongest(B)) /\ Strongest(A) # {}
      BY <1>2, TwinStrongest, SomeIsStrongest
    <2>2. UniqueIds(Strongest(A)) /\ UniqueIds(Strongest(B))
      BY DEF UniqueIds, Strongest
    <2>3. FirstById(Strongest(A)).supersession = FirstById(Strongest(B)).supersession
      BY <2>1, <2>2, TwinFirst
    <2>4. B # {}
      BY <1>2 DEF Twins
    <2> QED
      BY <1>2, <2>3, <2>4, TwinConflict DEF BySourceOrder
  <1> QED
    BY <1>1, <1>2

LEMMA TwinRanked ==
    ASSUME NEW A, NEW B, Twins(A, B), UniqueIds(A), UniqueIds(B),
           \A c \in A : c.authority \in 1..5
    PROVE  Ranked(A) = Ranked(B)
  <1>1. CASE ~BySourceOrder(A)
    BY <1>1, TwinRule DEF Ranked
  <1>2. CASE BySourceOrder(A)
    <2>0. BySourceOrder(B) /\ Twins(Strongest(A), Strongest(B))
      BY <1>2, TwinRule, TwinStrongest
    <2> DEFINE Of(S) == {<<p[1].id, p[2].id>> : p \in
                            {q \in S \X S : SourceLater(q[1], q[2])}}
    <2>1. \A S : \A x : x \in Of(S) <=>
             \E c, d \in S : SourceLater(c, d) /\ x = <<c.id, d.id>>
      <3> SUFFICES ASSUME NEW S, NEW x
                   PROVE  x \in Of(S) <=>
                             \E c, d \in S : SourceLater(c, d) /\ x = <<c.id, d.id>>
        OBVIOUS
      <3>1. ASSUME x \in Of(S)
            PROVE  \E c, d \in S : SourceLater(c, d) /\ x = <<c.id, d.id>>
        <4>1. PICK p \in S \X S : SourceLater(p[1], p[2]) /\ x = <<p[1].id, p[2].id>>
          BY <3>1
        <4> QED
          BY <4>1
      <3>2. ASSUME NEW c \in S, NEW d \in S, SourceLater(c, d), x = <<c.id, d.id>>
            PROVE  x \in Of(S)
        <4> PICK p : p = <<c, d>>
          OBVIOUS
        <4>1. p \in S \X S /\ p[1] = c /\ p[2] = d
          OBVIOUS
        <4>2. p \in {q \in S \X S : SourceLater(q[1], q[2])} /\ x = <<p[1].id, p[2].id>>
          BY <3>2, <4>1
        <4> QED
          BY <4>2
      <3> QED
        BY <3>1, <3>2
    <2>2. Ranked(A) = Of(Strongest(A)) /\ Ranked(B) = Of(Strongest(B))
      BY <1>2, <2>0 DEF Ranked
    <2> HIDE DEF Of
    <2>3. ASSUME NEW x \in Of(Strongest(A)) PROVE x \in Of(Strongest(B))
      <3>1. PICK c \in Strongest(A), d \in Strongest(A) : SourceLater(c, d) /\ x = <<c.id, d.id>>
        BY <2>1, <2>3
      <3>2. PICK e \in Strongest(B), f \in Strongest(B) : Alike(c, e) /\ Alike(d, f)
        BY <2>0 DEF Twins
      <3>3. SourceLater(e, f) /\ c.id = e.id /\ d.id = f.id
        BY <3>1, <3>2, AlikeOrder DEF Alike
      <3> QED
        BY <2>1, <3>1, <3>2, <3>3
    <2>4. ASSUME NEW x \in Of(Strongest(B)) PROVE x \in Of(Strongest(A))
      <3>1. PICK c \in Strongest(B), d \in Strongest(B) : SourceLater(c, d) /\ x = <<c.id, d.id>>
        BY <2>1, <2>4
      <3>2. PICK e \in Strongest(A), f \in Strongest(A) : Alike(e, c) /\ Alike(f, d)
        BY <2>0 DEF Twins
      <3>3. SourceLater(e, f) /\ c.id = e.id /\ d.id = f.id
        BY <3>1, <3>2, AlikeOrder DEF Alike
      <3> QED
        BY <2>1, <3>1, <3>2, <3>3
    <2> QED
      BY <2>2, <2>3, <2>4
  <1> QED
    BY <1>1, <1>2

\* Two histories of the same claims, relations and retractions, all of them known
\* by the bound.
SameDelivered(h, g, bound) ==
    /\ Twins(h.claims, g.claims) /\ UniqueIds(h.claims) /\ UniqueIds(g.claims)
    /\ \A c \in h.claims : c.authority \in 1..5
    /\ \A c \in h.claims \cup g.claims : WithinTx(c.tx, bound)
    /\ \A r \in h.relations \cup g.relations : WithinTx(r.tx, bound)
    /\ \A r \in h.retractions \cup g.retractions : WithinTx(r.tx, bound)
    /\ {<<r.from, r.to, r.authority>> : r \in h.relations}
         = {<<r.from, r.to, r.authority>> : r \in g.relations}
    /\ {r.target : r \in h.retractions} = {r.target : r \in g.retractions}

LEMMA TwinCovering ==
    ASSUME NEW h, NEW g, NEW bound, SameDelivered(h, g, bound), NEW slot, NEW query
    PROVE  Twins(Covering(h, slot, bound, query), Covering(g, slot, bound, query))
  <1>1. ASSUME NEW c, NEW d, Alike(c, d)
        PROVE  c.slot = d.slot /\ (Counts(Coverage(c, query)) <=> Counts(Coverage(d, query)))
    BY <1>1, AlikeCoverage DEF Alike
  <1>2. /\ Covering(h, slot, bound, query) =
              {c \in h.claims : c.slot = slot /\ Counts(Coverage(c, query))}
        /\ Covering(g, slot, bound, query) =
              {c \in g.claims : c.slot = slot /\ Counts(Coverage(c, query))}
    BY DEF Covering, SameDelivered
  <1>3. Twins(h.claims, g.claims)
    BY DEF SameDelivered
  <1> QED
    BY <1>1, <1>2, <1>3 DEF Twins

LEMMA TwinSuperseding ==
    ASSUME NEW h, NEW g, NEW bound, SameDelivered(h, g, bound), NEW A, NEW B, Twins(A, B)
    PROVE  Superseding(h, A, bound) = Superseding(g, B, bound)
  <1> DEFINE Of(k, S) == {<<r.from, r.to>> : r \in
                {s \in k.relations :
                    /\ \E c \in S : c.id = s.from
                    /\ \E c \in S : c.id = s.to /\ s.authority >= c.authority}}
             Related(S, from, to, authority) ==
                /\ \E c \in S : c.id = from
                /\ \E c \in S : c.id = to /\ authority >= c.authority
  <1>1. Superseding(h, A, bound) = Of(h, A) /\ Superseding(g, B, bound) = Of(g, B)
    BY DEF Superseding, SameDelivered
  <1>2. \A from, to, authority : Related(A, from, to, authority) <=> Related(B, from, to, authority)
    BY DEF Twins, Alike
  <1>3. \A k, S, x : x \in Of(k, S) <=>
           \E r \in k.relations : x = <<r.from, r.to>> /\ Related(S, r.from, r.to, r.authority)
    OBVIOUS
  <1>4. ASSUME NEW k, NEW l,
               {<<r.from, r.to, r.authority>> : r \in k.relations}
                 = {<<r.from, r.to, r.authority>> : r \in l.relations},
               NEW r \in k.relations
        PROVE  \E q \in l.relations : q.from = r.from /\ q.to = r.to /\ q.authority = r.authority
    <2>1. <<r.from, r.to, r.authority>> \in {<<q.from, q.to, q.authority>> : q \in l.relations}
      BY <1>4
    <2> QED
      BY <2>1
  <1> HIDE DEF Of, Related
  <1>5. \A x : x \in Of(h, A) => x \in Of(g, B)
    <2> SUFFICES ASSUME NEW x, x \in Of(h, A) PROVE x \in Of(g, B)
      OBVIOUS
    <2>1. PICK r \in h.relations : x = <<r.from, r.to>> /\ Related(A, r.from, r.to, r.authority)
      BY <1>3
    <2>2. PICK q \in g.relations : q.from = r.from /\ q.to = r.to /\ q.authority = r.authority
      BY <1>4 DEF SameDelivered
    <2>3. Related(B, q.from, q.to, q.authority)
      BY <1>2, <2>1, <2>2
    <2> QED
      BY <1>3, <2>1, <2>2, <2>3
  <1>6. \A x : x \in Of(g, B) => x \in Of(h, A)
    <2> SUFFICES ASSUME NEW x, x \in Of(g, B) PROVE x \in Of(h, A)
      OBVIOUS
    <2>1. PICK r \in g.relations : x = <<r.from, r.to>> /\ Related(B, r.from, r.to, r.authority)
      BY <1>3
    <2>2. PICK q \in h.relations : q.from = r.from /\ q.to = r.to /\ q.authority = r.authority
      BY <1>4 DEF SameDelivered
    <2>3. Related(A, q.from, q.to, q.authority)
      BY <1>2, <2>1, <2>2
    <2> QED
      BY <1>3, <2>1, <2>2, <2>3
  <1>7. Of(h, A) = Of(g, B)
    BY <1>5, <1>6
  <1> QED
    BY <1>1, <1>7

\* What is selected of two such histories.
SameSelected(s, t) ==
    /\ Twins(s.covering, t.covering) /\ Twins(s.active, t.active)
    /\ Twins(s.standing, t.standing) /\ Twins(s.shown, t.shown)
    /\ s.pairs = t.pairs
    /\ BySourceOrder(s.standing) <=> BySourceOrder(t.standing)
    /\ UniqueIds(t.standing)

LEMMA TwinSelection ==
    ASSUME NEW h, NEW g, NEW asOf, SameDelivered(h, g, asOf.knowledge), NEW slot,
           NEW s, s = Selected(h, slot, asOf), NEW t, t = Selected(g, slot, asOf)
    PROVE  SameSelected(s, t)
  <1> PICK bound : bound = asOf.knowledge
    OBVIOUS
  <1> PICK query : query = QueryWindow(asOf.valid)
    OBVIOUS
  <1>1. s = Narrowed(h, bound, Covering(h, slot, bound, query))
    BY DEF Selected
  <1>2. t = Narrowed(g, bound, Covering(g, slot, bound, query))
    BY DEF Selected
  <1>3. /\ s.covering = Covering(h, slot, bound, query)
        /\ t.covering = Covering(g, slot, bound, query)
        /\ s.active = {c \in s.covering : c.id \notin Retracted(h, bound)}
        /\ t.active = {c \in t.covering : c.id \notin Retracted(g, bound)}
    BY <1>1, <1>2 DEF Narrowed
  <1>4. Twins(s.covering, t.covering)
    BY <1>3, TwinCovering
  <1>5. Retracted(h, bound) = Retracted(g, bound)
    <2>1. /\ Retracted(h, bound) = {r.target : r \in h.retractions}
          /\ Retracted(g, bound) = {r.target : r \in g.retractions}
      BY DEF Retracted, SameDelivered
    <2> QED
      BY <2>1 DEF SameDelivered
  <1>6. Twins(s.active, t.active)
    BY <1>3, <1>4, <1>5 DEF Twins, Alike
  <1> DEFINE Parts(k, x) ==
        /\ x.active \subseteq k.claims
        /\ x.standing = {c \in x.active : \A p \in Superseding(k, x.active, bound) : p[2] # c.id}
        /\ x.pairs = Superseding(k, x.active, bound) \cup Ranked(x.standing)
        /\ UserSupplierConflict(x.standing) =>
              x.shown = {c \in x.standing : \A p \in Ranked(x.standing) : p[2] # c.id}
        /\ ~UserSupplierConflict(x.standing) =>
              x.shown = {c \in Strongest(x.standing) : \A p \in Ranked(x.standing) : p[2] # c.id}
  <1>15. Parts(h, s)
    BY SelectedParts
  <1>16. Parts(g, t)
    BY SelectedParts
  <1>e. PICK explicit : explicit = Superseding(h, s.active, bound)
    OBVIOUS
  <1>7. explicit = Superseding(g, t.active, bound)
    BY <1>e, <1>6, TwinSuperseding
  <1>8. /\ s.standing = {c \in s.active : \A p \in explicit : p[2] # c.id}
        /\ t.standing = {c \in t.active : \A p \in explicit : p[2] # c.id}
    <2>1. s.standing = {c \in s.active : \A p \in Superseding(h, s.active, bound) : p[2] # c.id}
      BY <1>15
    <2>2. t.standing = {c \in t.active : \A p \in Superseding(g, t.active, bound) : p[2] # c.id}
      BY <1>16
    <2>3. s.standing = {c \in s.active : \A p \in explicit : p[2] # c.id}
      BY <1>e, <2>1
    <2>4. t.standing = {c \in t.active : \A p \in explicit : p[2] # c.id}
      BY <1>7, <2>2
    <2> QED
      BY <2>3, <2>4
  <1>9. Twins(s.standing, t.standing)
    BY <1>6, <1>8 DEF Twins, Alike
  <1>10. s.standing \subseteq h.claims /\ t.standing \subseteq g.claims
    BY <1>8, <1>15, <1>16
  <1>11. /\ UniqueIds(s.standing) /\ UniqueIds(t.standing)
         /\ \A c \in s.standing : c.authority \in 1..5
    BY <1>10 DEF SameDelivered, UniqueIds
  <1>r. PICK ranked : ranked = Ranked(s.standing)
    OBVIOUS
  <1>12. ranked = Ranked(t.standing) /\ (BySourceOrder(s.standing) <=> BySourceOrder(t.standing))
    BY <1>r, <1>9, <1>11, TwinRanked, TwinRule
  <1>13. s.pairs = t.pairs
    <2>1. s.pairs = Superseding(h, s.active, bound) \cup Ranked(s.standing)
      BY <1>15
    <2>2. t.pairs = Superseding(g, t.active, bound) \cup Ranked(t.standing)
      BY <1>16
    <2>3. Superseding(h, s.active, bound) = Superseding(g, t.active, bound)
      BY <1>e, <1>7
    <2>4. Ranked(s.standing) = Ranked(t.standing)
      BY <1>r, <1>12
    <2> QED
      BY <2>1, <2>2, <2>3, <2>4
  <1>14. Twins(s.shown, t.shown)
    <2>1. CASE UserSupplierConflict(s.standing)
      <3>1. /\ s.shown = {c \in s.standing : \A p \in ranked : p[2] # c.id}
            /\ t.shown = {c \in t.standing : \A p \in ranked : p[2] # c.id}
        <4>1. UserSupplierConflict(t.standing)
          BY <1>9, <2>1, TwinConflict
        <4>2. s.shown = {c \in s.standing : \A p \in Ranked(s.standing) : p[2] # c.id}
          BY <1>15, <2>1
        <4>3. t.shown = {c \in t.standing : \A p \in Ranked(t.standing) : p[2] # c.id}
          BY <1>16, <4>1
        <4>4. t.shown = {c \in t.standing : \A p \in ranked : p[2] # c.id}
          BY <1>12, <4>3
        <4> QED
          BY <1>r, <4>2, <4>4
      <3> QED
        BY <1>9, <3>1 DEF Twins, Alike
    <2>2. CASE ~UserSupplierConflict(s.standing)
      <3>1. /\ s.shown = {c \in Strongest(s.standing) : \A p \in ranked : p[2] # c.id}
            /\ t.shown = {c \in Strongest(t.standing) : \A p \in ranked : p[2] # c.id}
        <4>1. ~UserSupplierConflict(t.standing)
          BY <1>9, <2>2, TwinConflict
        <4>2. s.shown = {c \in Strongest(s.standing) : \A p \in Ranked(s.standing) : p[2] # c.id}
          BY <1>15, <2>2
        <4>3. t.shown = {c \in Strongest(t.standing) : \A p \in Ranked(t.standing) : p[2] # c.id}
          BY <1>16, <4>1
        <4>4. t.shown = {c \in Strongest(t.standing) : \A p \in ranked : p[2] # c.id}
          BY <1>12, <4>3
        <4> QED
          BY <1>r, <4>2, <4>4
      <3>2. Twins(Strongest(s.standing), Strongest(t.standing))
        BY <1>9, TwinStrongest
      <3> QED
        BY <3>1, <3>2 DEF Twins, Alike
    <2> QED
      BY <2>1, <2>2
  <1> QED
    BY <1>4, <1>6, <1>9, <1>11, <1>12, <1>13, <1>14 DEF SameSelected

LEMMA TwinShown ==
    ASSUME NEW s, NEW t, SameSelected(s, t), NEW query
    PROVE  Shown(s, query) = Shown(t, query)
  <1>1. (s.covering = {} <=> t.covering = {}) /\ (s.active = {} <=> t.active = {})
    BY DEF SameSelected, Twins
  <1>2. (\A c, d \in s.shown : c.value = d.value) <=> (\A c, d \in t.shown : c.value = d.value)
    BY DEF SameSelected, Twins, Alike
  <1>3. \A c, d : Alike(c, d) => Candidate(c, s.pairs, query) = Candidate(d, t.pairs, query)
    <2> SUFFICES ASSUME NEW c, NEW d, Alike(c, d)
                 PROVE  Candidate(c, s.pairs, query) = Candidate(d, t.pairs, query)
      OBVIOUS
    <2>1. s.pairs = t.pairs /\ Coverage(c, query) = Coverage(d, query)
      BY AlikeCoverage DEF SameSelected
    <2> QED
      BY <2>1 DEF Candidate, Alike
  <1>4. {Candidate(c, s.pairs, query) : c \in s.shown} = {Candidate(c, t.pairs, query) : c \in t.shown}
    BY <1>3 DEF SameSelected, Twins
  <1>5. Proposals(s.shown) = Proposals(t.shown)
    <2>1. \A S, x : x \in Proposals(S) <=>
             \E c, d \in S : c.value # d.value /\ x = {c.id, d.id}
      <3> SUFFICES ASSUME NEW S, NEW x
                   PROVE  x \in Proposals(S) <=>
                             \E c, d \in S : c.value # d.value /\ x = {c.id, d.id}
        OBVIOUS
      <3>1. ASSUME x \in Proposals(S)
            PROVE  \E c, d \in S : c.value # d.value /\ x = {c.id, d.id}
        <4>1. PICK p \in S \X S : p[1].value # p[2].value /\ x = {p[1].id, p[2].id}
          BY <3>1 DEF Proposals
        <4> QED
          BY <4>1
      <3>2. ASSUME NEW c \in S, NEW d \in S, c.value # d.value, x = {c.id, d.id}
            PROVE  x \in Proposals(S)
        <4> PICK p : p = <<c, d>>
          OBVIOUS
        <4>1. p \in S \X S /\ p[1] = c /\ p[2] = d
          OBVIOUS
        <4>2. p \in {q \in S \X S : q[1].value # q[2].value} /\ x = {p[1].id, p[2].id}
          BY <3>2, <4>1
        <4> QED
          BY <4>2 DEF Proposals
      <3> QED
        BY <3>1, <3>2
    <2>2. ASSUME NEW x \in Proposals(s.shown) PROVE x \in Proposals(t.shown)
      <3>1. PICK c \in s.shown, d \in s.shown : c.value # d.value /\ x = {c.id, d.id}
        BY <2>1, <2>2
      <3>2. PICK e \in t.shown, f \in t.shown : Alike(c, e) /\ Alike(d, f)
        BY DEF SameSelected, Twins
      <3>3. e.value # f.value /\ x = {e.id, f.id}
        BY <3>1, <3>2 DEF Alike
      <3> QED
        BY <2>1, <3>3
    <2>3. ASSUME NEW x \in Proposals(t.shown) PROVE x \in Proposals(s.shown)
      <3>1. PICK c \in t.shown, d \in t.shown : c.value # d.value /\ x = {c.id, d.id}
        BY <2>1, <2>3
      <3>2. PICK e \in s.shown, f \in s.shown : Alike(e, c) /\ Alike(f, d)
        BY DEF SameSelected, Twins
      <3>3. e.value # f.value /\ x = {e.id, f.id}
        BY <3>1, <3>2 DEF Alike
      <3> QED
        BY <2>1, <3>3
    <2>4. \A x : x \in Proposals(s.shown) <=> x \in Proposals(t.shown)
      BY <2>2, <2>3
    <2>5. \A S : Proposals(S) = {{p[1].id, p[2].id} : p \in {q \in S \X S : q[1].value # q[2].value}}
      BY DEF Proposals
    <2> QED
      BY <2>4, <2>5
  <1> QED
    BY <1>1, <1>2, <1>4, <1>5 DEF Shown

LEMMA TwinProjectable ==
    ASSUME NEW h, NEW g, NEW asOf, SameDelivered(h, g, asOf.knowledge)
    PROVE  Projectable(h, asOf) <=> Projectable(g, asOf)
  <1> PICK bound : bound = asOf.knowledge
    OBVIOUS
  <1>1. /\ \A c \in h.claims : WithinTx(c.tx, bound)
        /\ \A c \in g.claims : WithinTx(c.tx, bound)
        /\ \A c \in h.claims : \E d \in g.claims : Alike(c, d)
        /\ \A d \in g.claims : \E c \in h.claims : Alike(c, d)
    BY DEF SameDelivered, Twins
  <1>2. (\A c \in h.claims : ValidWindow(c) # None) <=> (\A c \in g.claims : ValidWindow(c) # None)
    BY <1>1, AlikeCoverage
  <1>3. ASSUME NEW a \in h.claims, NEW b \in h.claims, NEW c \in g.claims, NEW d \in g.claims,
               Alike(a, c), Alike(b, d)
        PROVE  OrdersBySource(a, b, Selected(h, a.slot, asOf).standing)
                 <=> OrdersBySource(c, d, Selected(g, c.slot, asOf).standing)
    <2> PICK s : s = Selected(h, a.slot, asOf)
      OBVIOUS
    <2> PICK t : t = Selected(g, a.slot, asOf)
      OBVIOUS
    <2>1. a.slot = c.slot /\ a.id = c.id /\ b.id = d.id
      BY <1>3 DEF Alike
    <2>2. SameSelected(s, t)
      BY TwinSelection
    <2>3. Twins(Strongest(s.standing), Strongest(t.standing))
      BY <2>2, TwinStrongest DEF SameSelected
    <2>4. Strongest(s.standing) \subseteq h.claims /\ Strongest(t.standing) \subseteq g.claims
      BY StandingIsKnown DEF KnownBy
    <2>5. \A x \in h.claims, y \in g.claims :
             x.id = y.id => (x \in Strongest(s.standing) <=> y \in Strongest(t.standing))
      <3> SUFFICES ASSUME NEW x \in h.claims, NEW y \in g.claims, x.id = y.id
                   PROVE  x \in Strongest(s.standing) <=> y \in Strongest(t.standing)
        OBVIOUS
      <3>1. ASSUME x \in Strongest(s.standing) PROVE y \in Strongest(t.standing)
        <4>1. PICK z \in Strongest(t.standing) : Alike(x, z)
          BY <2>3, <3>1 DEF Twins
        <4>2. z = y
          BY <2>4, <4>1 DEF SameDelivered, UniqueIds, Alike
        <4> QED
          BY <4>1, <4>2
      <3>2. ASSUME y \in Strongest(t.standing) PROVE x \in Strongest(s.standing)
        <4>1. PICK z \in Strongest(s.standing) : Alike(z, y)
          BY <2>3, <3>2 DEF Twins
        <4>2. z = x
          BY <2>4, <4>1 DEF SameDelivered, UniqueIds, Alike
        <4> QED
          BY <4>1, <4>2
      <3> QED
        BY <3>1, <3>2
    <2>6. BySourceOrder(s.standing) <=> BySourceOrder(t.standing)
      BY <2>2 DEF SameSelected
    <2>7. OrdersBySource(a, b, s.standing) <=> OrdersBySource(c, d, t.standing)
      BY <2>1, <2>5, <2>6 DEF OrdersBySource
    <2> QED
      BY <2>1, <2>7
  <1>4. ASSUME NEW a \in h.claims, NEW b \in h.claims, NEW c \in g.claims, NEW d \in g.claims,
               Alike(a, c), Alike(b, d)
        PROVE  (~SourceComparable(a, b) => ~OrdersBySource(a, b, Selected(h, a.slot, asOf).standing))
           <=> (~SourceComparable(c, d) => ~OrdersBySource(c, d, Selected(g, c.slot, asOf).standing))
    BY <1>3, <1>4, AlikeOrder
  <1> DEFINE Fine(k, c, d) ==
        ~SourceComparable(c, d) => ~OrdersBySource(c, d, Selected(k, c.slot, asOf).standing)
  <1>5. \A a, b \in h.claims, c, d \in g.claims :
           Alike(a, c) /\ Alike(b, d) => (Fine(h, a, b) <=> Fine(g, c, d))
    BY <1>4
  <1> HIDE DEF Fine
  <1>6. (\A a, b \in h.claims : Fine(h, a, b)) <=> (\A c, d \in g.claims : Fine(g, c, d))
    BY <1>1, <1>5
  <1>7. /\ Projectable(h, asOf) <=>
              /\ QueryWindow(asOf.valid) # None
              /\ \A c \in h.claims : ValidWindow(c) # None
              /\ \A a, b \in h.claims : Fine(h, a, b)
        /\ Projectable(g, asOf) <=>
              /\ QueryWindow(asOf.valid) # None
              /\ \A c \in g.claims : ValidWindow(c) # None
              /\ \A a, b \in g.claims : Fine(g, a, b)
    BY <1>1 DEF Projectable, Fine
  <1> QED
    BY <1>2, <1>6, <1>7

LEMMA TwinView ==
    ASSUME NEW h, NEW g, NEW asOf, SameDelivered(h, g, asOf.knowledge)
    PROVE  View(h, asOf) = View(g, asOf)
  <1> PICK bound : bound = asOf.knowledge
    OBVIOUS
  <1>1. Slots(h, bound) = Slots(g, bound)
    <2>1. Slots(h, bound) = {c.slot : c \in h.claims} /\ Slots(g, bound) = {c.slot : c \in g.claims}
      BY DEF Slots, SameDelivered
    <2> QED
      BY <2>1 DEF SameDelivered, Twins, Alike
  <1>2. \A slot : SlotView(h, slot, asOf) = SlotView(g, slot, asOf)
    BY TwinSelection, TwinShown DEF SlotView
  <1>3. Project(h, asOf) = Project(g, asOf)
    BY <1>1, <1>2 DEF Project
  <1> QED
    BY <1>3, TwinProjectable DEF View

Exchanged(m, n, k) == IF k = m THEN n ELSE IF k = n THEN m ELSE k

Moved(m, n, r) == [r EXCEPT !.tx.seq = IF @ = m THEN n ELSE IF @ = n THEN m ELSE @]

LEMMA MovedClaim ==
    ASSUME NEW m, NEW n, NEW c, IsClaim(c)
    PROVE  /\ Alike(c, Moved(m, n, c))
           /\ Moved(m, n, c).tx.seq = Exchanged(m, n, c.tx.seq)
  <1>1. PICK o \in Offers : c = ClaimRecord(c.id, o, c.tx)
    BY DEF IsClaim
  <1>2. DOMAIN c = {"id", "slot", "value", "valid", "sourceTime", "sourceSeq", "authority",
                    "sourcing", "supersession", "tx"}
    BY <1>1 DEF ClaimRecord
  <1>3. DOMAIN c.tx = {"seq", "at"}
    BY DEF IsClaim, IsStamp
  <1> PICK d : d = Moved(m, n, c)
    OBVIOUS
  <1>4. d.tx.seq = Exchanged(m, n, c.tx.seq)
    BY <1>2, <1>3 DEF Moved, Exchanged
  <1>5. /\ c.id = d.id /\ c.slot = d.slot /\ c.value = d.value
        /\ c.valid = d.valid /\ c.sourceTime = d.sourceTime /\ c.sourceSeq = d.sourceSeq
        /\ c.authority = d.authority /\ c.sourcing = d.sourcing
        /\ c.supersession = d.supersession
    BY <1>2 DEF Moved
  <1> QED
    BY <1>4, <1>5 DEF Alike

LEMMA MovedRelation ==
    ASSUME NEW m, NEW n, NEW r, IsRelation(r)
    PROVE  /\ Moved(m, n, r).from = r.from /\ Moved(m, n, r).to = r.to
           /\ Moved(m, n, r).authority = r.authority
           /\ Moved(m, n, r).tx.seq = Exchanged(m, n, r.tx.seq)
  <1>1. DOMAIN r = {"from", "to", "tx", "authority"} /\ DOMAIN r.tx = {"seq", "at"}
    BY DEF IsRelation, IsStamp
  <1> QED
    BY <1>1 DEF Moved, Exchanged

LEMMA MovedRetraction ==
    ASSUME NEW m, NEW n, NEW r, IsRetraction(r)
    PROVE  /\ Moved(m, n, r).target = r.target
           /\ Moved(m, n, r).tx.seq = Exchanged(m, n, r.tx.seq)
  <1>1. DOMAIN r = {"target", "tx"} /\ DOMAIN r.tx = {"seq", "at"}
    BY DEF IsRetraction, IsStamp
  <1> QED
    BY <1>1 DEF Moved, Exchanged

\* Delivering two stamps in the other order delivers the same claims, relations and
\* retractions, under the same stamps.
LEMMA RedeliveredSame ==
    ASSUME HistoryInv, NEW m \in Stamps(history), NEW n \in Stamps(history),
           NEW g, g = Redelivered(history, m, n)
    PROVE  /\ Stamps(g) = Stamps(history)
           /\ SameDelivered(history, g, [kind |-> "sequence", limit |-> HighWater(history)])
  <1> DEFINE M(r) == Moved(m, n, r)
  <1> PICK bound : bound = [kind |-> "sequence", limit |-> HighWater(history)]
    OBVIOUS
  <1>1. /\ g.claims = {M(c) : c \in history.claims}
        /\ g.relations = {M(r) : r \in history.relations}
        /\ g.retractions = {M(r) : r \in history.retractions}
    BY DEF Redelivered, Moved
  <1>2. \A c \in history.claims : Alike(c, M(c)) /\ M(c).tx.seq = Exchanged(m, n, c.tx.seq)
    BY MovedClaim DEF HistoryInv
  <1>3. \A r \in history.relations :
           /\ M(r).from = r.from /\ M(r).to = r.to /\ M(r).authority = r.authority
           /\ M(r).tx.seq = Exchanged(m, n, r.tx.seq)
    BY MovedRelation DEF HistoryInv
  <1>4. \A r \in history.retractions :
           M(r).target = r.target /\ M(r).tx.seq = Exchanged(m, n, r.tx.seq)
    BY MovedRetraction DEF HistoryInv
  <1> HIDE DEF M
  <1>5. \A k \in Stamps(history) : /\ Exchanged(m, n, k) \in Stamps(history)
                                   /\ Exchanged(m, n, Exchanged(m, n, k)) = k
    BY DEF Exchanged
  <1>6. \A k \in Stamps(g) : k \in Stamps(history)
    <2> SUFFICES ASSUME NEW k \in Stamps(g) PROVE k \in Stamps(history)
      OBVIOUS
    <2>1. CASE \E c \in g.claims : k = c.tx.seq
      BY <2>1, <1>1, <1>2, <1>5, PartsStamped
    <2>2. CASE \E r \in g.relations : k = r.tx.seq
      BY <2>2, <1>1, <1>3, <1>5, PartsStamped
    <2>3. CASE \E r \in g.retractions : k = r.tx.seq
      BY <2>3, <1>1, <1>4, <1>5, PartsStamped
    <2> QED
      BY <2>1, <2>2, <2>3, PartsStamped
  <1>7. \A k \in Stamps(history) : k \in Stamps(g)
    <2> SUFFICES ASSUME NEW k \in Stamps(history) PROVE k \in Stamps(g)
      OBVIOUS
    <2> PICK e : e = Exchanged(m, n, k)
      OBVIOUS
    <2>0. e \in Stamps(history) /\ Exchanged(m, n, e) = k
      BY <1>5
    <2>1. CASE \E c \in history.claims : e = c.tx.seq
      <3>1. PICK c \in history.claims : e = c.tx.seq
        BY <2>1
      <3>2. M(c) \in g.claims /\ M(c).tx.seq = k
        BY <1>1, <1>2, <2>0, <3>1
      <3> QED
        BY <3>2, PartsStamped
    <2>2. CASE \E r \in history.relations : e = r.tx.seq
      <3>1. PICK r \in history.relations : e = r.tx.seq
        BY <2>2
      <3>2. M(r) \in g.relations /\ M(r).tx.seq = k
        BY <1>1, <1>3, <2>0, <3>1
      <3> QED
        BY <3>2, PartsStamped
    <2>3. CASE \E r \in history.retractions : e = r.tx.seq
      <3>1. PICK r \in history.retractions : e = r.tx.seq
        BY <2>3
      <3>2. M(r) \in g.retractions /\ M(r).tx.seq = k
        BY <1>1, <1>4, <2>0, <3>1
      <3> QED
        BY <3>2, PartsStamped
    <2> QED
      BY <2>0, <2>1, <2>2, <2>3, PartsStamped
  <1>8. Stamps(g) = Stamps(history)
    BY <1>6, <1>7 DEF Stamps
  <1>9. \A x : x.tx.seq \in Stamps(history) => WithinTx(x.tx, bound)
    BY StampsAreNumbers DEF WithinTx
  <1>10. /\ \A c \in history.claims \cup g.claims : WithinTx(c.tx, bound)
         /\ \A r \in history.relations \cup g.relations : WithinTx(r.tx, bound)
         /\ \A r \in history.retractions \cup g.retractions : WithinTx(r.tx, bound)
    BY <1>8, <1>9, PartsStamped
  <1>11. Twins(history.claims, g.claims)
    BY <1>1, <1>2 DEF Twins
  <1>12. UniqueIds(history.claims) /\ \A c \in history.claims : c.authority \in 1..5
    BY ClaimsRanked DEF UniqueIds, HistoryInv
  <1>13. UniqueIds(g.claims)
    <2> SUFFICES ASSUME NEW c \in g.claims, NEW d \in g.claims
                 PROVE  c.id \in Nat /\ (c.id = d.id => c = d)
      BY DEF UniqueIds
    <2>1. PICK a \in history.claims, b \in history.claims : c = M(a) /\ d = M(b)
      BY <1>1
    <2>2. c.id = a.id /\ d.id = b.id
      BY <1>2, <2>1 DEF Alike
    <2> QED
      BY <1>12, <2>1, <2>2 DEF UniqueIds
  <1>14. {<<r.from, r.to, r.authority>> : r \in history.relations}
            = {<<r.from, r.to, r.authority>> : r \in g.relations}
    BY <1>1, <1>3
  <1>15. {r.target : r \in history.retractions} = {r.target : r \in g.retractions}
    BY <1>1, <1>4
  <1> QED
    BY <1>8, <1>10, <1>11, <1>12, <1>13, <1>14, <1>15 DEF SameDelivered

\* The view at full knowledge does not depend on which of two deliveries came first
\* (projection.rs, project): claims are ordered by authority, revision and source
\* time, and by id only where the order does not show.
THEOREM OrderIrrelevant == HistorySpec => []DeliveryOrderIrrelevant
  <1>1. HistoryInv => DeliveryOrderIrrelevant
    <2> SUFFICES ASSUME HistoryInv, NEW valid \in Asked, NEW m \in Stamps(history),
                        m + 1 \in Stamps(history)
                 PROVE  FullView(Redelivered(history, m, m + 1), valid) = FullView(history, valid)
      BY DEF DeliveryOrderIrrelevant
    <2> PICK g : g = Redelivered(history, m, m + 1)
      OBVIOUS
    <2> PICK asOf : asOf = AsOf(HighWater(history), valid)
      OBVIOUS
    <2>1. Stamps(g) = Stamps(history) /\ SameDelivered(history, g, asOf.knowledge)
      BY RedeliveredSame DEF AsOf
    <2>2. HighWater(g) = HighWater(history)
      <3> DEFINE Top(S) == IF S = {} THEN 0 ELSE CHOOSE k \in S : \A j \in S : k >= j
      <3>1. HighWater(g) = Top(Stamps(g)) /\ HighWater(history) = Top(Stamps(history))
        BY DEF HighWater
      <3> HIDE DEF Top
      <3> QED
        BY <2>1, <3>1
    <2>3. View(history, asOf) = View(g, asOf)
      BY <2>1, TwinView
    <2> QED
      BY <2>2, <2>3 DEF FullView
  <1> QED
    BY <1>1, HistoryInvariance, PTL

-----------------------------------------------------------------------------
(***************************************************************************)
(* Definite is certain.                                                    *)
(***************************************************************************)

\* The least and the greatest of one or two instants agree only if they are one.
LEMMA OneInstant ==
    ASSUME NEW x \in Int, NEW y \in Int, Sets!Min({x, y}) = Sets!Max({x, y})
    PROVE  x = y
  <1> DEFINE S == {x, y}
  <1>1. \E a \in S : \A b \in S : a =< b
    OBVIOUS
  <1>2. \E a \in S : \A b \in S : a >= b
    OBVIOUS
  <1> PICK lo : lo = Sets!Min(S)
    OBVIOUS
  <1>3. lo \in S /\ \A b \in S : lo =< b
    BY <1>1 DEF Sets!Min
  <1>4. lo \in S /\ \A b \in S : lo >= b
    BY <1>2 DEF Sets!Max
  <1> QED
    BY <1>3, <1>4

\* Where a point has a definite window, it has only that reading.
LEMMA PointCertain ==
    ASSUME NEW p \in PointsNamed, NEW w, w = PointWindow(p), w # None, w.definite # None,
           NEW r \in Readings(p)
    PROVE  r[1] = w.definite[1] /\ r[2] = w.definite[2]
  <1>1. p.uncertainty = None
    <2> SUFFICES ASSUME p.uncertainty # None PROVE FALSE
      OBVIOUS
    <2>1. w = Uncertain(ZonedWindow(p.uncertainty.earliest), ZonedWindow(p.uncertainty.latest))
      BY DEF PointWindow
    <2> QED
      BY <2>1 DEF Uncertain
  <1>2. CASE p.kind = "date"
    <2>1. w = Exactly(DateStart(p.value), DateEnd(p.value)) /\ r = w.possible
      BY <1>1, <1>2 DEF PointWindow, Readings
    <2> QED
      BY <2>1 DEF Exactly
  <1>3. CASE p.kind # "date"
    <2> PICK zone : zone = p.value.zone
      OBVIOUS
    <2> PICK lo : lo = Naive(p.value)
      OBVIOUS
    <2> PICK hi : hi = Naive(p.value) + PrecisionDuration(p.value)
      OBVIOUS
    <2>0. w = InZone(zone, lo, hi)
      BY <1>1, <1>3 DEF PointWindow, ZonedWindow
    <2>1. CASE zone.form = "offset"
      <3>1. r = w.possible
        BY <1>1, <2>1 DEF Readings
      <3>2. w = Exactly(lo - zone.of, hi - zone.of)
        BY <2>0, <2>1 DEF InZone
      <3> QED
        BY <3>1, <3>2 DEF Exactly
    <2>2. CASE zone.form = "floating"
      BY <2>0, <2>2 DEF InZone
    <2>3. CASE zone.form \notin {"offset", "floating"}
      <3> PICK starts : starts = Instants(zone.of, lo)
        OBVIOUS
      <3> PICK ends : ends = Instants(zone.of, hi)
        OBVIOUS
      <3>1. w = Resolved(starts, ends)
        BY <2>0, <2>3 DEF InZone
      <3>2. /\ starts # {} /\ ends # {}
            /\ Sets!Min(starts) = Sets!Max(starts) /\ Sets!Min(ends) = Sets!Max(ends)
            /\ w.definite = <<Sets!Min(starts), Sets!Min(ends)>>
            /\ w.possible = <<Sets!Min(starts), Sets!Max(ends)>>
        BY <3>1 DEF Resolved
      <3>3. CASE p.kind = "datetime" /\ zone.form = "iana"
        <4>1. r \in starts \X ends
          BY <1>1, <3>3 DEF Readings
        <4>2. ASSUME NEW S, S # {}, Sets!Min(S) = Sets!Max(S),
                     S = {} \/ \E x, y \in S : {x, y} \subseteq Int /\ S = {x, y}
              PROVE  \A x \in S : x = Sets!Min(S)
          <5>1. PICK x \in S, y \in S : x \in Int /\ y \in Int /\ S = {x, y}
            BY <4>2
          <5>2. x = y
            BY <4>2, <5>1, OneInstant
          <5>3. S = {x}
            BY <5>1, <5>2
          <5>4. Sets!Min(S) = x
            BY <5>1, <5>3 DEF Sets!Min
          <5> QED
            BY <5>3, <5>4
        <4>3. /\ starts = {} \/ \E x, y \in starts : {x, y} \subseteq Int /\ starts = {x, y}
              /\ ends = {} \/ \E x, y \in ends : {x, y} \subseteq Int /\ ends = {x, y}
          BY <3>3, InstantsAreFew
        <4>4. r[1] \in starts /\ r[2] \in ends
          BY <4>1
        <4>5. r[1] = Sets!Min(starts) /\ r[2] = Sets!Min(ends)
          BY <3>2, <4>2, <4>3, <4>4
        <4> QED
          BY <3>2, <4>5
      <3>4. CASE ~(p.kind = "datetime" /\ zone.form = "iana")
        <4>1. r = w.possible
          BY <1>1, <2>3, <3>4 DEF Readings
        <4> QED
          BY <3>2, <4>1
      <3> QED
        BY <3>3, <3>4
    <2> QED
      BY <2>1, <2>2, <2>3
  <1> QED
    BY <1>2, <1>3

\* Where bounds have a definite window, they span only that.
LEMMA SpanCertain ==
    ASSUME NEW start, NEW end, NEW w, w = IntervalWindow(start, end), w # None, w.definite # None,
           start.kind # "open" => start.point \in PointsNamed,
           end.kind # "open" => end.point \in PointsNamed,
           NEW span \in Spans(start, end)
    PROVE  span[1] = w.definite[1] /\ span[2] = w.definite[2]
  <1> PICK s : s = StartEdge(start)
    OBVIOUS
  <1> PICK e : e = EndEdge(end)
    OBVIOUS
  <1>1. Resolves(start) /\ Resolves(end) /\ w = Joined(s, e)
    BY DEF IntervalWindow
  <1>2. s.definite # None /\ e.definite # None /\ w.definite = <<s.definite, e.definite>>
    BY <1>1 DEF Joined
  <1> DEFINE Firsts == IF start.kind = "open" THEN {Earliest}
                       ELSE {r[IF start.kind = "inclusive" THEN 1 ELSE 2] : r \in Readings(start.point)}
             Lasts == IF end.kind = "open" THEN {Latest}
                      ELSE {r[IF end.kind = "inclusive" THEN 2 ELSE 1] : r \in Readings(end.point)}
  <1>3. span \in Firsts \X Lasts
    BY DEF Spans
  <1>4. \A x \in Firsts : x = s.definite
    <2>1. CASE start.kind = "open"
      BY <2>1 DEF StartEdge
    <2>2. CASE start.kind # "open"
      <3> PICK v : v = PointWindow(start.point)
        OBVIOUS
      <3>1. v # None
        BY <1>1, <2>2 DEF Resolves
      <3>2. CASE start.kind = "inclusive"
        <4>1. v.definite # None /\ s.definite = v.definite[1]
          BY <1>2, <2>2, <3>2 DEF StartEdge, EdgeOf
        <4>2. \A r \in Readings(start.point) : r[1] = s.definite
          BY <2>2, <3>1, <4>1, PointCertain
        <4> QED
          BY <2>2, <3>2, <4>2
      <3>3. CASE start.kind # "inclusive"
        <4>1. v.definite # None /\ s.definite = v.definite[2]
          BY <1>2, <2>2, <3>3 DEF StartEdge, EdgeOf
        <4>2. \A r \in Readings(start.point) : r[2] = s.definite
          BY <2>2, <3>1, <4>1, PointCertain
        <4> QED
          BY <2>2, <3>3, <4>2
      <3> QED
        BY <3>2, <3>3
    <2> QED
      BY <2>1, <2>2
  <1>5. \A x \in Lasts : x = e.definite
    <2>1. CASE end.kind = "open"
      BY <2>1 DEF EndEdge
    <2>2. CASE end.kind # "open"
      <3> PICK v : v = PointWindow(end.point)
        OBVIOUS
      <3>1. v # None
        BY <1>1, <2>2 DEF Resolves
      <3>2. CASE end.kind = "inclusive"
        <4>1. v.definite # None /\ e.definite = v.definite[2]
          BY <1>2, <2>2, <3>2 DEF EndEdge, ClosingEdge, EdgeOf
        <4>2. \A r \in Readings(end.point) : r[2] = e.definite
          BY <2>2, <3>1, <4>1, PointCertain
        <4> QED
          BY <2>2, <3>2, <4>2
      <3>3. CASE end.kind # "inclusive"
        <4>1. v.definite # None /\ e.definite = v.definite[1]
          BY <1>2, <2>2, <3>3 DEF EndEdge, ClosingEdge, EdgeOf
        <4>2. \A r \in Readings(end.point) : r[1] = e.definite
          BY <2>2, <3>1, <4>1, PointCertain
        <4> QED
          BY <2>2, <3>3, <4>2
      <3> QED
        BY <3>2, <3>3
    <2> QED
      BY <2>1, <2>2
  <1> HIDE DEF Firsts, Lasts
  <1>6. span[1] \in Firsts /\ span[2] \in Lasts
    BY <1>3
  <1> QED
    BY <1>2, <1>4, <1>5, <1>6

\* Every date the histories and the readers name is one of PointsNamed.
LEMMA NamedParts ==
    /\ \A o \in Offers : o.sourceTime # None => o.sourceTime \in PointsNamed
    /\ \A o \in Offers : o.valid.kind = "explicit" => BoundPoints(o.valid) \subseteq PointsNamed
    /\ \A q \in Asked : q.kind = "instant" => q.point \in PointsNamed
    /\ \A q \in Asked : q.kind # "instant" => BoundPoints(q) \subseteq PointsNamed
  <1> PICK A : A = UNION {BoundPoints(o.valid) : o \in {x \in Offers : x.valid.kind = "explicit"}}
    OBVIOUS
  <1> PICK B : B = {o.sourceTime : o \in Offers}
    OBVIOUS
  <1> PICK C : C = {q.point : q \in {x \in Asked : x.kind = "instant"}}
    OBVIOUS
  <1> PICK D : D = UNION {BoundPoints(q) : q \in {x \in Asked : x.kind # "instant"}}
    OBVIOUS
  <1>1. PointsNamed = A \cup (B \ {None}) \cup C \cup D
    BY DEF PointsNamed
  <1>2. \A o \in Offers : o.sourceTime \in B
    OBVIOUS
  <1>3. \A o \in Offers : o.valid.kind = "explicit" => BoundPoints(o.valid) \subseteq A
    OBVIOUS
  <1>4. \A q \in Asked : q.kind = "instant" => q.point \in C
    OBVIOUS
  <1>5. \A q \in Asked : q.kind # "instant" => BoundPoints(q) \subseteq D
    OBVIOUS
  <1>6. A \subseteq PointsNamed /\ B \ {None} \subseteq PointsNamed
        /\ C \subseteq PointsNamed /\ D \subseteq PointsNamed
    BY <1>1
  <1> QED
    BY <1>2, <1>3, <1>4, <1>5, <1>6, Zenon

LEMMA BoundsNamed ==
    ASSUME NEW i, BoundPoints(i) \subseteq PointsNamed
    PROVE  /\ i.start.kind # "open" => i.start.point \in PointsNamed
           /\ i.end.kind # "open" => i.end.point \in PointsNamed
  BY DEF BoundPoints

\* A claim whose window is definite is valid over that window under every reading.
LEMMA ClaimCertain ==
    ASSUME HistoryInv, NEW c \in history.claims, NEW w, w = ValidWindow(c),
           w # None, w.definite # None, NEW span \in ClaimSpans(c)
    PROVE  span[1] = w.definite[1] /\ span[2] = w.definite[2]
  <1>1. PICK o \in Offers : c = ClaimRecord(c.id, o, c.tx)
    BY DEF HistoryInv, IsClaim
  <1>2. c.valid = o.valid /\ c.sourceTime = o.sourceTime
    BY <1>1 DEF ClaimRecord
  <1>3. CASE c.valid.kind = "timeless"
    <2>1. w = Exactly(Earliest, Latest) /\ span = <<Earliest, Latest>>
      BY <1>3 DEF ValidWindow, ClaimSpans
    <2> QED
      BY <2>1 DEF Exactly
  <1>4. CASE c.valid.kind = "from_source_time"
    <2> PICK start : start = [kind |-> "inclusive", point |-> c.sourceTime]
      OBVIOUS
    <2>1. w = IntervalWindow(start, Open) /\ span \in Spans(start, Open)
      BY <1>4 DEF ValidWindow, ClaimSpans
    <2>2. c.sourceTime \in PointsNamed
      BY <1>2, <1>4, OffersAreLegal, NamedParts
    <2>3. start.point \in PointsNamed /\ Open.kind = "open"
      BY <2>2 DEF Open
    <2> QED
      BY <2>1, <2>3, SpanCertain
  <1>5. CASE c.valid.kind = "explicit"
    <2>1. w = IntervalWindow(c.valid.start, c.valid.end) /\ span \in Spans(c.valid.start, c.valid.end)
      BY <1>5 DEF ValidWindow, ClaimSpans
    <2>2. BoundPoints(c.valid) \subseteq PointsNamed
      BY <1>2, <1>5, NamedParts
    <2>3. /\ c.valid.start.kind # "open" => c.valid.start.point \in PointsNamed
          /\ c.valid.end.kind # "open" => c.valid.end.point \in PointsNamed
      BY <2>2, BoundsNamed
    <2> QED
      BY <2>1, <2>3, SpanCertain
  <1> QED
    BY <1>2, <1>3, <1>4, <1>5, OffersAreLegal

\* A reader's bound with a definite window stands for that window under every reading.
LEMMA AskedCertain ==
    ASSUME NEW q \in Asked, NEW w, w = QueryWindow(q), w # None, w.definite # None,
           NEW span \in AskedSpans(q)
    PROVE  span[1] = w.definite[1] /\ span[2] = w.definite[2]
  <1>1. CASE q.kind = "instant"
    <2>1. w = PointWindow(q.point) /\ span \in Readings(q.point)
      BY <1>1 DEF QueryWindow, AskedSpans
    <2>2. q.point \in PointsNamed
      BY <1>1, NamedParts
    <2> QED
      BY <2>1, <2>2, PointCertain
  <1>2. CASE q.kind # "instant"
    <2>1. w = IntervalWindow(q.start, q.end) /\ span \in Spans(q.start, q.end)
      BY <1>2 DEF QueryWindow, AskedSpans
    <2>2. BoundPoints(q) \subseteq PointsNamed
      BY <1>2, NamedParts
    <2>3. /\ q.start.kind # "open" => q.start.point \in PointsNamed
          /\ q.end.kind # "open" => q.end.point \in PointsNamed
      BY <2>2, BoundsNamed
    <2> QED
      BY <2>1, <2>3, SpanCertain
  <1> QED
    BY <1>1, <1>2

\* A coverage reported as definite holds whichever of the instants they may stand
\* for the claim's time and the bound turn out to be (projection.rs, coverage): for
\* every zone, precision and uncertainty.
THEOREM DefiniteCertain == HistorySpec => []DefiniteIsCertain
  <1>1. HistoryInv => DefiniteIsCertain
    <2> SUFFICES ASSUME HistoryInv, NEW c \in history.claims, NEW q \in Asked,
                        QueryWindow(q) # None, Coverage(c, QueryWindow(q)) = "definite",
                        NEW span \in ClaimSpans(c), NEW asked \in AskedSpans(q)
                 PROVE  Within(asked, span)
      BY DEF DefiniteIsCertain
    <2> PICK v : v = ValidWindow(c)
      OBVIOUS
    <2> PICK w : w = QueryWindow(q)
      OBVIOUS
    <2>1. /\ v # None /\ v.definite # None /\ w.definite # None
          /\ Within(w.definite, v.definite)
      BY DEF Coverage, Certainty
    <2>2. span[1] = v.definite[1] /\ span[2] = v.definite[2]
      BY <2>1, ClaimCertain
    <2>3. asked[1] = w.definite[1] /\ asked[2] = w.definite[2]
      BY <2>1, AskedCertain
    <2> QED
      BY <2>1, <2>2, <2>3 DEF Within
  <1> QED
    BY <1>1, HistoryInvariance, PTL

=============================================================================
