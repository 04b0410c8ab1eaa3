--------------------------- MODULE RetrievalProofs ---------------------------
(***************************************************************************)
(* The paged reads are exact for whatever stayed put while they ran, for   *)
(* every scope, page size, filter and number of candidates.                *)
(***************************************************************************)
EXTENDS Retrieval, FiniteSetTheorems, SequenceTheorems, WellFoundedInduction, TLAPS

-----------------------------------------------------------------------------
(* Numbers and recursion.                                                  *)

\* A nonempty set of numbers has a least one.
LEMMA LeastNumber ==
    ASSUME NEW D \in SUBSET Nat, D # {}
    PROVE  \E n \in D : \A m \in D : n <= m
  <1>1. PICK n \in D : \A m \in D : ~(<<m, n>> \in OpToRel(<, Nat))
    BY NatLessThanWellFounded, WFMin
  <1> SUFFICES ASSUME NEW m \in D PROVE n <= m
    OBVIOUS
  <1>2. ~(<<m, n>> \in {x \in Nat \X Nat : x[1] < x[2]})
    BY <1>1 DEF OpToRel
  <1>3. n \in Nat /\ m \in Nat /\ <<m, n>> \in Nat \X Nat
    OBVIOUS
  <1> QED
    BY <1>2, <1>3

\* A nonempty set of numbers below a limit has a greatest one.
LEMMA GreatestNumber ==
    ASSUME NEW D \in SUBSET Nat, D # {}, NEW limit \in Nat, \A m \in D : m <= limit
    PROVE  \E n \in D : \A m \in D : m <= n
  <1> DEFINE gaps == {limit - m : m \in D}
  <1>0. \A m \in D : limit - m \in Nat
    OBVIOUS
  <1>1. gaps \in SUBSET Nat /\ gaps # {}
    BY <1>0
  <1>2. PICK g \in gaps : \A k \in gaps : g <= k
    BY <1>1, LeastNumber
  <1>3. PICK n \in D : g = limit - n
    BY <1>2
  <1>4. \A m \in D : limit - m \in gaps
    OBVIOUS
  <1>5. \A m \in D : g <= limit - m
    BY <1>2, <1>4
  <1> QED
    BY <1>3, <1>5

\* f is defined from its value one place before.
Iterates(f, a, n, base, G) ==
    f = [k \in a..n |-> IF k = a THEN base ELSE G[<<f[k - 1], k>>]]

Stepping(a, n, V) == [V \X ((a + 1)..n) -> V]

\* Such a function exists, and its values stay where one step leads.
LEMMA RecursionExists ==
    ASSUME NEW a \in Int, NEW n \in Int, a <= n, NEW V, NEW base \in V,
           NEW G \in Stepping(a, n, V)
    PROVE  \E f \in [a..n -> V] : Iterates(f, a, n, base, G)
  <1>0. G \in [V \X ((a + 1)..n) -> V]
    BY DEF Stepping
  <1> DEFINE Solves(f, m) == \A k \in a..m : f[k] = IF k = a THEN base ELSE G[<<f[k - 1], k>>]
             D == {j \in Nat : a + j <= n /\ ~\E f \in [a..(a + j) -> V] : Solves(f, a + j)}
  <1>1. D = {}
    <2> SUFFICES ASSUME D # {} PROVE FALSE
      OBVIOUS
    <2>0. D \in SUBSET Nat
      OBVIOUS
    <2> HIDE DEF D
    <2>1. PICK j \in D : \A i \in D : j <= i
      BY <2>0, LeastNumber
    <2>2. j \in Nat /\ a + j <= n /\ ~\E f \in [a..(a + j) -> V] : Solves(f, a + j)
      BY <2>1 DEF D
    <2>3. CASE j = 0
      <3>1. PICK f : f = [k \in a..a |-> base]
        OBVIOUS
      <3>2. f \in [a..(a + j) -> V] /\ Solves(f, a + j)
        BY <2>3, <3>1
      <3> QED
        BY <2>2, <3>2
    <2>4. CASE j # 0
      <3> PICK i : i = j - 1
        OBVIOUS
      <3>1. i \in Nat /\ i < j /\ a + i <= n /\ j = i + 1
        BY <2>2, <2>4
      <3>2. i \notin D
        BY <2>0, <2>1, <3>1
      <3>3. PICK f \in [a..(a + i) -> V] : Solves(f, a + i)
        BY <3>1, <3>2 DEF D
      <3> PICK m : m = a + j
        OBVIOUS
      <3>4. m - 1 = a + i /\ m - 1 \in a..(a + i) /\ m \in (a + 1)..n /\ m \in Int
        BY <2>2, <3>1
      <3>5. f[m - 1] \in V
        BY <3>4
      <3> PICK v : v = G[<<f[m - 1], m>>]
        OBVIOUS
      <3>6. v \in V
        BY <1>0, <3>4, <3>5
      <3> PICK g : g = [k \in a..m |-> IF k = m THEN v ELSE f[k]]
        OBVIOUS
      <3>7. \A k \in a..m : k # m => k \in a..(a + i)
        BY <3>4
      <3>8. g \in [a..m -> V]
        BY <3>6, <3>7
      <3>9. ASSUME NEW k \in a..m PROVE g[k] = IF k = a THEN base ELSE G[<<g[k - 1], k>>]
        <4>1. CASE k = m
          <5>1. m # a /\ g[m] = v /\ m - 1 \in a..m /\ m - 1 # m
            BY <3>1, <3>4
          <5>2. g[m - 1] = f[m - 1]
            BY <5>1
          <5> QED
            BY <4>1, <5>1, <5>2
        <4>2. CASE k # m
          <5>1. k \in a..(a + i) /\ g[k] = f[k]
            BY <3>7, <4>2
          <5>2. f[k] = IF k = a THEN base ELSE G[<<f[k - 1], k>>]
            BY <3>3, <5>1
          <5>3. k # a => k - 1 \in a..m /\ k - 1 # m
            BY <3>4, <4>2
          <5>4. k # a => g[k - 1] = f[k - 1]
            BY <5>3
          <5> QED
            BY <5>1, <5>2, <5>4
        <4> QED
          BY <4>1, <4>2
      <3>10. Solves(g, m)
        BY <3>9
      <3> QED
        BY <2>2, <3>8, <3>10
    <2> QED
      BY <2>3, <2>4
  <1>2. PICK j \in Nat : a + j = n
    <2>1. n - a \in Nat /\ a + (n - a) = n
      OBVIOUS
    <2> QED
      BY <2>1
  <1>3. PICK f \in [a..n -> V] : Solves(f, n)
    <2>1. j \notin D
      BY <1>1, Zenon
    <2>2. a + j <= n
      BY <1>2
    <2> QED
      BY <1>2, <2>1, <2>2
  <1>4. f = [k \in a..n |-> IF k = a THEN base ELSE G[<<f[k - 1], k>>]]
    BY <1>3
  <1> QED
    BY <1>4 DEF Iterates

-----------------------------------------------------------------------------
(* What one statement returns.                                             *)

\* An order that breaks every tie, as ORDER BY with the id last does.
TotalOrder(S, R) ==
    /\ \A x \in S : <<x, x>> \notin R
    /\ \A x, y, z \in S : <<x, y>> \in R /\ <<y, z>> \in R => <<x, z>> \in R
    /\ \A x, y \in S : x # y => <<x, y>> \in R \/ <<y, x>> \in R

Below(S, R, x) == {s \in S : <<s, x>> \in R}

\* Counting the rows before a row numbers the rows from 0 without a gap.
LEMMA RanksCount ==
    ASSUME NEW S, IsFiniteSet(S), NEW R, TotalOrder(S, R)
    PROVE  /\ Cardinality(S) \in Nat
           /\ \A x \in S : Cardinality(Below(S, R, x)) \in 0..(Cardinality(S) - 1)
           /\ \A x, y \in S : <<x, y>> \in R
                  <=> Cardinality(Below(S, R, x)) < Cardinality(Below(S, R, y))
           /\ \A i \in 0..(Cardinality(S) - 1) :
                  \E x \in S : Cardinality(Below(S, R, x)) = i
  <1>0. Cardinality(S) \in Nat
    BY FS_CardinalityType
  <1>1. ASSUME NEW x \in S
        PROVE  /\ IsFiniteSet(Below(S, R, x)) /\ Cardinality(Below(S, R, x)) \in Nat
               /\ Cardinality(Below(S, R, x)) < Cardinality(S)
    <2>1. Below(S, R, x) \in SUBSET S /\ x \notin Below(S, R, x)
      BY DEF Below, TotalOrder
    <2>2. IsFiniteSet(Below(S, R, x)) /\ Cardinality(Below(S, R, x)) <= Cardinality(S)
          /\ Cardinality(Below(S, R, x)) # Cardinality(S)
      BY <2>1, FS_Subset
    <2>3. Cardinality(Below(S, R, x)) \in Nat
      BY <2>2, FS_CardinalityType
    <2> QED
      BY <1>0, <2>2, <2>3
  <1>2. ASSUME NEW x \in S, NEW y \in S, <<x, y>> \in R
        PROVE  Cardinality(Below(S, R, x)) < Cardinality(Below(S, R, y))
    <2>1. Below(S, R, x) \in SUBSET Below(S, R, y)
      BY <1>2 DEF Below, TotalOrder
    <2>2. x \in Below(S, R, y) /\ x \notin Below(S, R, x)
      BY <1>2 DEF Below, TotalOrder
    <2>3. Cardinality(Below(S, R, x)) <= Cardinality(Below(S, R, y))
          /\ Cardinality(Below(S, R, x)) # Cardinality(Below(S, R, y))
      BY <1>1, <2>1, <2>2, FS_Subset
    <2> QED
      BY <1>1, <2>3
  <1>3. ASSUME NEW x \in S, NEW y \in S,
               Cardinality(Below(S, R, x)) < Cardinality(Below(S, R, y))
        PROVE  <<x, y>> \in R
    <2>1. x # y /\ <<y, x>> \notin R
      BY <1>1, <1>2, <1>3
    <2> QED
      BY <2>1 DEF TotalOrder
  <1> PICK rank : rank = [x \in S |-> Cardinality(Below(S, R, x))]
    OBVIOUS
  <1> PICK T : T = 0..(Cardinality(S) - 1)
    OBVIOUS
  <1>4. rank \in [S -> T]
    BY <1>0, <1>1
  <1>5. ASSUME NEW x \in S, NEW y \in S, rank[x] = rank[y] PROVE x = y
    <2>1. <<x, y>> \notin R /\ <<y, x>> \notin R
      BY <1>1, <1>2, <1>5
    <2> QED
      BY <2>1 DEF TotalOrder
  <1>6. rank \in Injection(S, T)
    BY <1>4, <1>5 DEF Injection, IsInjective
  <1>7. IsFiniteSet(T) /\ Cardinality(T) = Cardinality(S)
    BY <1>0, FS_Interval
  <1>8. rank \in Surjection(S, T)
    BY <1>6, <1>7, FS_Injection
  <1>9. \A i \in T : \E x \in S : rank[x] = i
    BY <1>8 DEF Surjection
  <1> QED
    BY <1>0, <1>1, <1>2, <1>3, <1>9

LEMMA FunctionIsSeq ==
    ASSUME NEW S, NEW n \in Nat, NEW f \in [1..n -> S]
    PROVE  f \in Seq(S) /\ Len(f) = n
  <1>1. f \in UNION {[1..m -> S] : m \in Nat}
    BY Zenon
  <1>2. f \in Seq(S)
    BY <1>1, SeqDef
  <1>3. Len(f) \in Nat /\ 1..Len(f) = 1..n
    BY <1>2, LenProperties
  <1>4. ASSUME NEW a \in Nat, NEW b \in Nat, 1..a = 1..b PROVE a <= b
    <2> SUFFICES ASSUME b < a PROVE FALSE
      OBVIOUS
    <2>1. a \in 1..a /\ a \notin 1..b
      OBVIOUS
    <2> QED
      BY <1>4, <2>1
  <1>5. Len(f) <= n /\ n <= Len(f)
    BY <1>3, <1>4
  <1> QED
    BY <1>2, <1>3, <1>5

LEMMA LesserOfTwo ==
    ASSUME NEW a \in Int, NEW b \in Int
    PROVE  Min({a, b}) = IF a <= b THEN a ELSE b
  <1>1. \E x \in {a, b} : \A y \in {a, b} : x <= y
    OBVIOUS
  <1>2. Min({a, b}) \in {a, b} /\ \A y \in {a, b} : Min({a, b}) <= y
    BY <1>1 DEF Min
  <1> QED
    BY <1>2

\* A page holds distinct rows in order; a short one holds all of them, and what
\* a full one leaves out comes after its last row.
LEMMA PageExact ==
    ASSUME NEW S, IsFiniteSet(S), NEW R, TotalOrder(S, R), NEW limit \in Nat \ {0},
           NEW page, page = Page(S, R, limit)
    PROVE  /\ page \in Seq(S) /\ Len(page) \in 0..limit
           /\ \A i, j \in 1..Len(page) : i < j => <<page[i], page[j]>> \in R
           /\ Len(page) < limit => \A x \in S : \E i \in 1..Len(page) : page[i] = x
           /\ Len(page) = limit => \A x \in S : \/ \E i \in 1..Len(page) : page[i] = x
                                                \/ <<page[limit], x>> \in R
  <1> PICK n : n = Cardinality(S)
    OBVIOUS
  <1> PICK rank : rank = [x \in S |-> Cardinality(Below(S, R, x))]
    OBVIOUS
  <1>1. /\ n \in Nat
        /\ rank \in [S -> 0..(n - 1)]
        /\ \A x, y \in S : <<x, y>> \in R <=> rank[x] < rank[y]
        /\ \A i \in 0..(n - 1) : \E x \in S : rank[x] = i
    BY RanksCount
  <1> PICK k : k = Min({limit, n})
    OBVIOUS
  <1>2. k = IF limit <= n THEN limit ELSE n
    BY <1>1, LesserOfTwo
  <1>3. page = [i \in 1..k |-> CHOOSE x \in S : Cardinality({s \in S : <<s, x>> \in R}) = i - 1]
    BY DEF Page
  <1>4. k \in Nat /\ k <= n /\ k <= limit
    BY <1>1, <1>2
  <1>5. ASSUME NEW i \in 1..k PROVE page[i] \in S /\ rank[page[i]] = i - 1
    <2>1. \E x \in S : rank[x] = i - 1
      BY <1>1, <1>4
    <2>2. \E x \in S : Cardinality({s \in S : <<s, x>> \in R}) = i - 1
      BY <2>1 DEF Below
    <2>3. page[i] = CHOOSE x \in S : Cardinality({s \in S : <<s, x>> \in R}) = i - 1
      BY <1>3
    <2>4. page[i] \in S /\ Cardinality({s \in S : <<s, page[i]>> \in R}) = i - 1
      BY <2>2, <2>3
    <2> QED
      BY <2>4 DEF Below
  <1>6. Len(page) = k /\ page \in [1..k -> S] /\ page \in Seq(S)
    <2>1. \E f : page = [i \in 1..k |-> f[i]]
      BY <1>3
    <2>2. page \in [1..k -> S]
      BY <1>5, <2>1
    <2>3. page \in Seq(S)
      BY <1>4, <2>2, FunctionIsSeq
    <2>4. Len(page) = k
      BY <1>4, <2>2, FunctionIsSeq
    <2> QED
      BY <2>2, <2>3, <2>4
  <1>7. ASSUME NEW x \in S, rank[x] + 1 <= k PROVE page[rank[x] + 1] = x
    <2> PICK i : i = rank[x] + 1
      OBVIOUS
    <2>1. rank[x] \in Nat /\ i \in 1..k
      BY <1>1, <1>4, <1>7
    <2>2. page[i] \in S /\ rank[page[i]] = rank[x]
      BY <1>5, <2>1
    <2>3. <<page[i], x>> \notin R /\ <<x, page[i]>> \notin R
      BY <1>1, <2>1, <2>2
    <2> QED
      BY <2>2, <2>3 DEF TotalOrder
  <1>8. \A i, j \in 1..k : i < j => <<page[i], page[j]>> \in R
    BY <1>1, <1>5
  <1>9. ASSUME NEW x \in S, \A i \in 1..k : page[i] # x
        PROVE  k = limit /\ <<page[limit], x>> \in R
    <2>0. rank[x] \in Nat /\ rank[x] < n
      BY <1>1
    <2>1. ~(rank[x] + 1 <= k)
      <3> SUFFICES ASSUME rank[x] + 1 <= k PROVE FALSE
        OBVIOUS
      <3>1. rank[x] + 1 \in 1..k
        BY <1>4, <2>0
      <3> QED
        BY <1>7, <1>9, <3>1
    <2>2. k = limit /\ limit \in 1..k /\ limit - 1 < rank[x]
      BY <1>1, <1>2, <2>0, <2>1
    <2>3. page[limit] \in S /\ rank[page[limit]] < rank[x]
      BY <1>5, <2>2
    <2> QED
      BY <1>1, <2>2, <2>3
  <1>10. k = limit => \A x \in S : (\E i \in 1..k : page[i] = x) \/ <<page[limit], x>> \in R
    BY <1>9
  <1>11. k < limit => \A x \in S : \E i \in 1..k : page[i] = x
    <2> SUFFICES ASSUME k < limit, NEW x \in S, \A i \in 1..k : page[i] # x PROVE FALSE
      OBVIOUS
    <2>1. k = limit
      BY <1>9
    <2> QED
      BY <1>4, <2>1
  <1>12. k \in 0..limit
    BY <1>4
  <1> QED
    BY <1>6, <1>8, <1>10, <1>11, <1>12

-----------------------------------------------------------------------------
(* The inductive invariant.                                                *)

Tables(t) ==
    /\ t = [status |-> t.status, vectors |-> t.vectors]
    /\ t.status \in [Memories -> Statuses]
    /\ t.vectors \subseteq Chunks

\* The fields of a walk.
IsWalk(w) ==
    w = [pc |-> w.pc, filter |-> w.filter, node |-> w.node, cursor |-> w.cursor, got |-> w.got,
         top |-> w.top, truncated |-> w.truncated, stable |-> w.stable]

\* What a listing has returned: memories in order, each once.
Sorted(got) ==
    /\ got \in Seq(Memories)
    /\ \A i, j \in 1..Len(got) : i < j => Newer(got[i], got[j])

Returned(got, m) == \E i \in 1..Len(got) : got[i] = m

\* A listing before its next page: its cursor is at the last row it returned,
\* and what stayed put is returned or still to come on either node.
Listing(w) ==
    /\ w.filter \in ListFilters
    /\ Sorted(w.got)
    /\ w.stable \subseteq Listed(db, w.filter) \cap Listed(replica, w.filter)
    /\ \/ w.cursor = None /\ w.got = <<>>
       \/ w.got # <<>> /\ w.cursor = Encode(w.got[Len(w.got)], w.filter)
    /\ \A m \in w.stable : Returned(w.got, m) \/ After(w.cursor, m)

Complete(w) == Sorted(w.got) /\ \A m \in w.stable : Returned(w.got, m)

ListInv ==
    /\ Tables(db) /\ Tables(replica)
    /\ IsWalk(walk)
    /\ walk.pc \in {"idle", "listing", "listed", "scanning", "scanned"}
    /\ walk.pc = "listing" => Listing(walk) /\ walk.cursor # None
    /\ walk.pc = "listed" => Complete(walk)

-----------------------------------------------------------------------------
(* A page of a listing.                                                    *)

LEMMA NewerOrders ==
    ASSUME NEW S \in SUBSET Memories
    PROVE  TotalOrder(S, {p \in S \X S : Newer(p[1], p[2])})
  BY ScopeIsFinite, TimesKnown DEF TotalOrder, Newer

LEMMA NewerTransitive ==
    ASSUME NEW m \in Memories, NEW n \in Memories, NEW o \in Memories,
           Newer(m, n), Newer(n, o)
    PROVE  Newer(m, o)
  BY ScopeIsFinite, TimesKnown DEF Newer

LEMMA ListPageExact ==
    ASSUME NEW t, NEW cursor, NEW filter, NEW page, page = ListPage(t, cursor, filter)
    PROVE  /\ page \in Seq(Memories) /\ Len(page) \in 0..Limit
           /\ \A i \in 1..Len(page) : After(cursor, page[i])
           /\ \A i, j \in 1..Len(page) : i < j => Newer(page[i], page[j])
           /\ Len(page) < Limit =>
                \A m \in Listed(t, filter) : After(cursor, m) => Returned(page, m)
           /\ Len(page) = Limit =>
                \A m \in Listed(t, filter) : After(cursor, m) =>
                    Returned(page, m) \/ Newer(page[Limit], m)
  <1>s. PICK S : S = {m \in Listed(t, filter) : After(cursor, m)}
    OBVIOUS
  <1>r. PICK R : R = {p \in S \X S : Newer(p[1], p[2])}
    OBVIOUS
  <1>1. page = Page(S, R, Limit)
    BY <1>s, <1>r DEF ListPage
  <1>2. S \in SUBSET Memories
    BY <1>s DEF Listed
  <1>3. IsFiniteSet(S) /\ TotalOrder(S, R) /\ Limit \in Nat \ {0}
    BY <1>r, <1>2, NewerOrders, ScopeIsFinite, FS_Subset, PagesAdvance
  <1>4. /\ page \in Seq(S) /\ Len(page) \in 0..Limit
        /\ \A i, j \in 1..Len(page) : i < j => <<page[i], page[j]>> \in R
        /\ Len(page) < Limit => \A x \in S : \E i \in 1..Len(page) : page[i] = x
        /\ Len(page) = Limit => \A x \in S : \/ \E i \in 1..Len(page) : page[i] = x
                                             \/ <<page[Limit], x>> \in R
    BY <1>1, <1>3, PageExact
  <1>5. page \in Seq(Memories) /\ \A i \in 1..Len(page) : page[i] \in S
    BY <1>2, <1>4, SeqMonotonic, ElementOfSeq
  <1>6. \A x, y : <<x, y>> \in R => Newer(x, y)
    BY <1>r
  <1> QED
    BY <1>s, <1>4, <1>5, <1>6 DEF Returned

\* u is s followed by t.
Joins(u, s, t) ==
    /\ Len(u) = Len(s) + Len(t)
    /\ \A i \in 1..Len(s) : i \in 1..Len(u) /\ u[i] = s[i]
    /\ \A i \in 1..Len(t) : Len(s) + i \in 1..Len(u) /\ u[Len(s) + i] = t[i]
    /\ \A k \in 1..Len(u) : k \in 1..Len(s) \/ \E i \in 1..Len(t) : k = Len(s) + i

LEMMA ConcatJoins ==
    ASSUME NEW S, NEW s \in Seq(S), NEW t \in Seq(S)
    PROVE  s \o t \in Seq(S) /\ Joins(s \o t, s, t)
  <1> PICK u : u = s \o t
    OBVIOUS
  <1>1. /\ u \in Seq(S) /\ Len(u) = Len(s) + Len(t)
        /\ \A i \in 1..(Len(s) + Len(t)) :
              u[i] = IF i <= Len(s) THEN s[i] ELSE t[i - Len(s)]
    BY ConcatProperties
  <1>2. \A a, b \in Nat :
            /\ \A i \in 1..a : i \in 1..(a + b) /\ i <= a
            /\ \A i \in 1..b : a + i \in 1..(a + b) /\ ~(a + i <= a) /\ (a + i) - a = i
            /\ \A k \in 1..(a + b) : k \in 1..a \/ (k - a \in 1..b /\ k = a + (k - a))
    OBVIOUS
  <1>3. Len(s) \in Nat /\ Len(t) \in Nat
    BY LenProperties
  <1> PICK a : a = Len(s)
    OBVIOUS
  <1> PICK b : b = Len(t)
    OBVIOUS
  <1>4. \A i \in 1..a : i \in 1..(a + b) /\ u[i] = s[i]
    BY <1>1, <1>2, <1>3
  <1>5. \A i \in 1..b : a + i \in 1..(a + b) /\ u[a + i] = t[i]
    BY <1>1, <1>2, <1>3
  <1>6. ASSUME NEW k \in 1..(a + b), k \notin 1..a PROVE \E i \in 1..b : k = a + i
    <2>1. a \in Nat /\ b \in Nat
      BY <1>3
    <2>2. k - a \in 1..b /\ k = a + (k - a)
      BY <1>6, <2>1
    <2> QED
      BY <2>2
  <1> QED
    BY <1>1, <1>4, <1>5, <1>6 DEF Joins

\* A page continues a listing.
LEMMA ListingContinues ==
    ASSUME ListInv, NEW w, Listing(w), NEW t \in {db, replica},
           NEW page, page = ListPage(t, w.cursor, w.filter),
           NEW got \in Seq(Memories), Joins(got, w.got, page)
    PROVE  /\ Sorted(got)
           /\ Len(page) < Limit => \A m \in w.stable : Returned(got, m)
           /\ Len(page) = Limit =>
                 /\ page[Limit] \in Memories /\ got # <<>> /\ got[Len(got)] = page[Limit]
                 /\ \A m \in w.stable : Returned(got, m) \/ Newer(page[Limit], m)
  <1> PICK a : a = Len(w.got)
    OBVIOUS
  <1> PICK b : b = Len(page)
    OBVIOUS
  <1>1. /\ page \in Seq(Memories) /\ b \in 0..Limit
        /\ \A i \in 1..b : After(w.cursor, page[i])
        /\ \A i, j \in 1..b : i < j => Newer(page[i], page[j])
        /\ b < Limit =>
             \A m \in Listed(t, w.filter) : After(w.cursor, m) => Returned(page, m)
        /\ b = Limit =>
             \A m \in Listed(t, w.filter) : After(w.cursor, m) =>
                 Returned(page, m) \/ Newer(page[Limit], m)
    BY ListPageExact
  <1>2. /\ w.got \in Seq(Memories) /\ a \in Nat /\ b \in Nat
        /\ \A i \in 1..a : w.got[i] \in Memories
        /\ \A i \in 1..b : page[i] \in Memories
    BY <1>1, LenProperties, ElementOfSeq DEF Listing, Sorted
  <1>3. /\ Len(got) = a + b
        /\ \A i \in 1..a : i \in 1..Len(got) /\ got[i] = w.got[i]
        /\ \A i \in 1..b : a + i \in 1..Len(got) /\ got[a + i] = page[i]
        /\ \A k \in 1..Len(got) : k \in 1..a \/ \E i \in 1..b : k = a + i
    BY DEF Joins
  <1>4. ASSUME NEW i \in 1..a, NEW j \in 1..b PROVE Newer(w.got[i], page[j])
    <2>1. w.got # <<>> /\ a \in 1..a
      BY <1>2, EmptySeq
    <2>2. w.cursor = Encode(w.got[a], w.filter) /\ w.cursor # None
      BY <1>2, <2>1, NoneIsNoCursor DEF Listing
    <2>3. Newer(w.got[a], page[j])
      BY <1>1, <2>2 DEF After, Encode
    <2>4. i = a \/ Newer(w.got[i], w.got[a])
      BY <1>2, <2>1 DEF Listing, Sorted
    <2> QED
      BY <1>2, <2>1, <2>3, <2>4, NewerTransitive
  <1>5. Sorted(got)
    <2> SUFFICES ASSUME NEW i \in 1..Len(got), NEW j \in 1..Len(got), i < j
                 PROVE  Newer(got[i], got[j])
      BY DEF Sorted
    <2>1. CASE i \in 1..a /\ j \in 1..a
      BY <1>3, <2>1 DEF Listing, Sorted
    <2>2. ASSUME i \in 1..a, NEW k \in 1..b, j = a + k PROVE Newer(got[i], got[j])
      BY <1>3, <1>4, <2>2
    <2>3. ASSUME NEW l \in 1..b, i = a + l, NEW k \in 1..b, j = a + k
          PROVE  Newer(got[i], got[j])
      <3>1. l < k
        BY <1>2, <2>3
      <3> QED
        BY <1>1, <1>3, <2>3, <3>1
    <2>4. ASSUME NEW l \in 1..b, i = a + l PROVE j \notin 1..a
      BY <1>2, <2>4
    <2> QED
      BY <1>3, <2>1, <2>2, <2>3, <2>4
  <1>6. \A m : Returned(w.got, m) => Returned(got, m)
    BY <1>3 DEF Returned
  <1>7. \A m : Returned(page, m) => Returned(got, m)
    <2> SUFFICES ASSUME NEW m, NEW i \in 1..b, page[i] = m PROVE Returned(got, m)
      BY DEF Returned
    <2> PICK k : k = a + i
      OBVIOUS
    <2>1. k \in 1..Len(got) /\ got[k] = m
      BY <1>3
    <2> QED
      BY <2>1 DEF Returned
  <1>8. \A m \in w.stable : m \in Listed(t, w.filter)
                             /\ (Returned(w.got, m) \/ After(w.cursor, m))
    BY DEF Listing
  <1>9. b = Limit => page[Limit] \in Memories /\ got # <<>> /\ got[Len(got)] = page[Limit]
    <2> SUFFICES ASSUME b = Limit
                 PROVE  page[Limit] \in Memories /\ got # <<>> /\ got[Len(got)] = page[Limit]
      OBVIOUS
    <2>1. Limit \in 1..b
      BY <1>2, PagesAdvance
    <2>2. page[Limit] \in Memories /\ got[Len(got)] = page[Limit] /\ Len(got) # 0
      BY <1>2, <1>3, <2>1
    <2> QED
      BY <2>2, EmptySeq
  <1> QED
    BY <1>1, <1>5, <1>6, <1>7, <1>8, <1>9

-----------------------------------------------------------------------------
(* The steps.                                                              *)

LEMMA NoWalkIsWalk == IsWalk(NoWalk) /\ NoWalk.pc = "idle"
  BY DEF IsWalk, NoWalk

\* Other commits take from what stayed put only what they changed.
LEMMA CommitKeeps ==
    ASSUME ListInv, NEW t, Tables(t), Commit(t)
    PROVE  ListInv'
  <1>1. db' = t /\ replica' = replica /\ walk' = Remember(walk, t)
    BY DEF Commit
  <1>2. Tables(db)' /\ Tables(replica)'
    BY <1>1 DEF ListInv, Tables
  <1>3. CASE walk.pc = "listing"
    <2>1. walk' = [walk EXCEPT !.stable = @ \cap Listed(t, walk.filter)]
      BY <1>1, <1>3 DEF Remember
    <2>2. /\ IsWalk(walk') /\ walk'.pc = "listing" /\ walk'.filter = walk.filter
          /\ walk'.cursor = walk.cursor /\ walk'.got = walk.got
          /\ walk'.stable = walk.stable \cap Listed(t, walk.filter)
      BY <1>3, <2>1 DEF ListInv, IsWalk
    <2>3. Listing(walk)'
      BY <1>1, <1>3, <2>2 DEF ListInv, Listing, Sorted, Listed, After, Encode, Returned
    <2> QED
      BY <1>2, <1>3, <2>2, <2>3 DEF ListInv, IsWalk
  <1>4. CASE walk.pc = "scanning"
    <2>1. walk' = [walk EXCEPT !.stable = @ \cap Scanned(t, walk.filter)]
      BY <1>1, <1>4 DEF Remember
    <2>2. IsWalk(walk') /\ walk'.pc = "scanning"
      BY <1>4, <2>1 DEF ListInv, IsWalk
    <2> QED
      BY <1>2, <2>2 DEF ListInv, IsWalk
  <1>5. CASE walk.pc \notin {"listing", "scanning"}
    <2>1. walk' = NoWalk
      BY <1>1, <1>5 DEF Remember
    <2> QED
      BY <1>2, <2>1, NoWalkIsWalk DEF ListInv, IsWalk
  <1> QED
    BY <1>3, <1>4, <1>5

\* A status or the vectors of a memory change.
LEMMA ChangeKeeps ==
    ASSUME ListInv, NEW m \in Memories, NEW s \in Statuses, NEW vs \in SUBSET Chunks,
           ChangeTo(m, s, vs)
    PROVE  ListInv'
  <1> PICK t : t = [status |-> [db.status EXCEPT ![m] = s], vectors |-> vs]
    OBVIOUS
  <1>1. t.status \in [Memories -> Statuses] /\ t.vectors \subseteq Chunks
    BY DEF ListInv, Tables
  <1>2. Tables(t) /\ Commit(t)
    BY <1>1 DEF Tables, ChangeTo
  <1> QED
    BY <1>2, CommitKeeps

LEMMA ScopeKeeps ==
    ASSUME ListInv, NEW m \in Memories, Capture(m) \/ Embed(m) \/ Expire(m) \/ Erase(m)
    PROVE  ListInv'
  <1>1. db.status[m] \in Statuses /\ db.vectors \in SUBSET Chunks
    BY DEF ListInv, Tables
  <1>2. ChunksOf[m] \subseteq Chunks
    BY DEF Chunks
  <1>3. db.vectors \cup ChunksOf[m] \in SUBSET Chunks /\ db.vectors \ ChunksOf[m] \in SUBSET Chunks
    BY <1>1, <1>2
  <1>4. {"active", "expired", "erased"} \subseteq Statuses
    BY DEF Statuses
  <1>5. CASE Capture(m)
    BY <1>1, <1>4, <1>5, ChangeKeeps DEF Capture
  <1>6. CASE Embed(m)
    BY <1>1, <1>3, <1>6, ChangeKeeps DEF Embed
  <1>7. CASE Expire(m)
    BY <1>1, <1>4, <1>7, ChangeKeeps DEF Expire
  <1>8. CASE Erase(m)
    BY <1>3, <1>4, <1>8, ChangeKeeps DEF Erase
  <1> QED
    BY <1>5, <1>6, <1>7, <1>8

LEMMA DropKeeps ==
    ASSUME ListInv, DropRevision
    PROVE  ListInv'
  <1> PICK t : t = [db EXCEPT !.vectors = {}]
    OBVIOUS
  <1>1. t = [status |-> db.status, vectors |-> {}]
    BY DEF ListInv, Tables
  <1>2. Tables(t) /\ Commit(t)
    BY <1>1 DEF Tables, DropRevision, ListInv
  <1> QED
    BY <1>2, CommitKeeps

LEMMA ReplicateKeeps ==
    ASSUME ListInv, Replicate
    PROVE  ListInv'
  <1>1. db' = db /\ replica' = db /\ walk' = Remember(walk, db)
    BY DEF Replicate
  <1>2. Tables(db)' /\ Tables(replica)'
    BY <1>1 DEF ListInv, Tables
  <1>3. CASE walk.pc = "listing"
    <2>1. walk' = [walk EXCEPT !.stable = @ \cap Listed(db, walk.filter)]
      BY <1>1, <1>3 DEF Remember
    <2>2. /\ IsWalk(walk') /\ walk'.pc = "listing" /\ walk'.filter = walk.filter
          /\ walk'.cursor = walk.cursor /\ walk'.got = walk.got
          /\ walk'.stable = walk.stable \cap Listed(db, walk.filter)
      BY <2>1, <1>3 DEF ListInv, IsWalk
    <2>3. Listing(walk)'
      BY <1>1, <1>3, <2>2 DEF ListInv, Listing, Sorted, Listed, After, Encode, Returned
    <2> QED
      BY <1>2, <1>3, <2>2, <2>3 DEF ListInv, IsWalk
  <1>4. CASE walk.pc = "scanning"
    <2>1. walk' = [walk EXCEPT !.stable = @ \cap Scanned(db, walk.filter)]
      BY <1>1, <1>4 DEF Remember
    <2>2. IsWalk(walk') /\ walk'.pc = "scanning"
      BY <1>4, <2>1 DEF ListInv, IsWalk
    <2> QED
      BY <1>2, <2>2 DEF ListInv, IsWalk
  <1>5. CASE walk.pc \notin {"listing", "scanning"}
    <2>1. walk' = NoWalk
      BY <1>1, <1>5 DEF Remember
    <2> QED
      BY <1>2, <2>1, NoWalkIsWalk DEF ListInv, IsWalk
  <1> QED
    BY <1>3, <1>4, <1>5

\* The listing that a page belongs to: a new one, or the one under way.
LEMMA ListReady ==
    ASSUME ListInv, NEW f \in ListFilters, NEW w,
           w = IF AtRest THEN Started(f, None, Listed(db, f) \cap Listed(replica, f)) ELSE walk,
           AtRest \/ walk.pc = "listing", Decode(w.cursor, f)
    PROVE  IsWalk(w) /\ Listing(w) /\ w.filter = f
  <1>1. CASE AtRest
    <2>1. /\ IsWalk(w) /\ w.filter = f /\ w.cursor = None /\ w.got = <<>>
          /\ w.stable = Listed(db, f) \cap Listed(replica, f)
      BY <1>1 DEF Started, NoWalk, IsWalk
    <2>2. Sorted(<<>>)
      <3>1. <<>> \in Seq(Memories) /\ Len(<<>>) = 0
        BY EmptySeq
      <3>2. 1..Len(<<>>) = {}
        BY <3>1
      <3> QED
        BY <3>1, <3>2 DEF Sorted
    <2> QED
      BY <2>1, <2>2 DEF Listing, After
  <1>2. CASE ~AtRest
    <2>1. w = walk /\ walk.pc = "listing"
      BY <1>2
    <2>2. IsWalk(w) /\ Listing(w) /\ w.cursor # None
      BY <2>1 DEF ListInv
    <2>3. \E x : w.cursor = Encode(x, w.filter)
      BY <2>2 DEF Listing
    <2>4. w.cursor.signed = w.filter
      BY <2>3 DEF Encode
    <2> QED
      BY <2>2, <2>4 DEF Decode
  <1> QED
    BY <1>1, <1>2

LEMMA ListKeeps ==
    ASSUME ListInv, NEW f \in ListFilters, NEW t \in {db, replica}, List(t, f)
    PROVE  ListInv'
  <1>w. PICK w : w = IF AtRest THEN Started(f, None, Listed(db, f) \cap Listed(replica, f)) ELSE walk
    OBVIOUS
  <1>p. PICK page : page = ListPage(t, w.cursor, f)
    OBVIOUS
  <1>1. /\ AtRest \/ walk.pc = "listing"
        /\ Decode(w.cursor, f)
        /\ walk' = [w EXCEPT !.pc = IF Len(page) = Limit THEN "listing" ELSE "listed",
                             !.got = @ \o page,
                             !.cursor = IF Len(page) = Limit THEN Encode(page[Limit], f) ELSE None]
        /\ db' = db /\ replica' = replica
    BY <1>w, <1>p DEF List
  <1>2. IsWalk(w) /\ Listing(w) /\ w.filter = f
    BY <1>w, <1>1, ListReady
  <1>g. PICK got : got = w.got \o page
    OBVIOUS
  <1>3. page \in Seq(Memories) /\ Len(page) \in 0..Limit
    BY <1>p, ListPageExact
  <1>4. w.got \in Seq(Memories)
    BY <1>2 DEF Listing, Sorted
  <1>5. got \in Seq(Memories) /\ Joins(got, w.got, page)
    BY <1>g, <1>3, <1>4, ConcatJoins
  <1>6. /\ Sorted(got)
        /\ Len(page) < Limit => \A m \in w.stable : Returned(got, m)
        /\ Len(page) = Limit =>
              /\ page[Limit] \in Memories /\ got # <<>> /\ got[Len(got)] = page[Limit]
              /\ \A m \in w.stable : Returned(got, m) \/ Newer(page[Limit], m)
    BY <1>p, <1>2, <1>5, ListingContinues
  <1>7. /\ IsWalk(walk') /\ walk'.filter = f /\ walk'.stable = w.stable /\ walk'.got = got
        /\ walk'.pc = IF Len(page) = Limit THEN "listing" ELSE "listed"
        /\ walk'.cursor = IF Len(page) = Limit THEN Encode(page[Limit], f) ELSE None
    BY <1>1, <1>2, <1>g DEF IsWalk
  <1>8. Tables(db)' /\ Tables(replica)'
    BY <1>1 DEF ListInv, Tables
  <1>9. CASE Len(page) = Limit
    <2>1. walk'.pc = "listing" /\ walk'.cursor = Encode(page[Limit], f) /\ walk'.cursor # None
      BY <1>6, <1>7, <1>9, NoneIsNoCursor
    <2>2. /\ walk'.filter \in ListFilters
          /\ Sorted(walk'.got)
          /\ walk'.stable \subseteq Listed(db, f) \cap Listed(replica, f)
          /\ walk'.got # <<>> /\ walk'.cursor = Encode(walk'.got[Len(walk'.got)], f)
          /\ \A m \in walk'.stable : Returned(walk'.got, m) \/ After(walk'.cursor, m)
      BY <1>2, <1>6, <1>7, <1>9, <2>1 DEF Listing, After, Encode
    <2>3. Listing(walk)'
      BY <1>1, <1>7, <2>2 DEF Listing, Sorted, Listed, Returned, After, Encode
    <2> QED
      BY <1>7, <1>8, <2>1, <2>3 DEF ListInv, IsWalk
  <1>10. CASE Len(page) # Limit
    <2>1. Len(page) < Limit
      BY <1>3, <1>10, PagesAdvance
    <2>2. walk'.pc = "listed" /\ Sorted(walk'.got) /\ \A m \in walk'.stable : Returned(walk'.got, m)
      BY <1>6, <1>7, <1>10, <2>1
    <2> QED
      BY <1>7, <1>8, <2>2 DEF ListInv, IsWalk, Complete, Sorted, Returned
  <1> QED
    BY <1>9, <1>10

\* The walk w after a page of which `read` is the last row.
ScanMoves(w, page, read) ==
    \E outOfBudget \in BOOLEAN :
        /\ outOfBudget => Len(page) >= PageSize
        /\ walk' = [w EXCEPT !.pc = IF Len(page) >= PageSize /\ ~outOfBudget
                                   THEN "scanning" ELSE "scanned",
                             !.cursor = read, !.top = Best(w.top, page),
                             !.truncated = outOfBudget]

\* What a page of a scan does to the walk.
LEMMA ScanStep ==
    ASSUME NEW node, NEW t, NEW f, Scan(node, t, f), NEW w, NEW page, NEW read,
           w = IF AtRest THEN Started(f, node, Scanned(db, f) \cap Scanned(replica, f)) ELSE walk,
           page = ScanPage(t, w.cursor, w.filter),
           read = IF page = <<>> THEN w.cursor ELSE page[Len(page)]
    PROVE  /\ AtRest \/ (walk.pc = "scanning" /\ f = walk.filter /\ node = walk.node)
           /\ db' = db /\ replica' = replica
           /\ ScanMoves(w, page, read)
  BY DEF Scan, ScanMoves

LEMMA ScanIsNoListing ==
    ASSUME ListInv, NEW node, NEW t, NEW f, Scan(node, t, f)
    PROVE  ListInv'
  <1>w. PICK w : w = IF AtRest THEN Started(f, node, Scanned(db, f) \cap Scanned(replica, f)) ELSE walk
    OBVIOUS
  <1>p. PICK page : page = ScanPage(t, w.cursor, w.filter)
    OBVIOUS
  <1>r. PICK read : read = IF page = <<>> THEN w.cursor ELSE page[Len(page)]
    OBVIOUS
  <1>1. db' = db /\ replica' = replica /\ ScanMoves(w, page, read)
    BY <1>w, <1>p, <1>r, ScanStep
  <1>2. IsWalk(w)
    BY <1>w DEF ListInv, Started, NoWalk, IsWalk
  <1>3. IsWalk(walk') /\ walk'.pc \in {"scanning", "scanned"}
    BY <1>1, <1>2 DEF IsWalk, ScanMoves
  <1>4. Tables(db)' /\ Tables(replica)'
    BY <1>1 DEF ListInv, Tables
  <1> QED
    BY <1>3, <1>4 DEF ListInv, IsWalk

LEMMA ListNext == ListInv /\ [Next]_vars => ListInv'
  <1> SUFFICES ASSUME ListInv, [Next]_vars PROVE ListInv'
    OBVIOUS
  <1>1. ASSUME NEW m \in Memories, Capture(m) \/ Embed(m) \/ Expire(m) \/ Erase(m) PROVE ListInv'
    BY <1>1, ScopeKeeps
  <1>2. ASSUME NEW f \in ListFilters, NEW t \in {db, replica}, List(t, f) PROVE ListInv'
    BY <1>2, ListKeeps
  <1>3. ASSUME NEW f \in ScanFilters, Scan("current", db, f) \/ Scan("lagging", replica, f)
        PROVE  ListInv'
    BY <1>3, ScanIsNoListing
  <1>4. CASE UNCHANGED vars
    <2>1. db' = db /\ replica' = replica /\ walk' = walk
      BY <1>4 DEF vars
    <2> QED
      BY <2>1 DEF ListInv, Tables, IsWalk, Listing, Complete, Sorted, Returned, Listed, After
  <1> QED
    BY <1>1, <1>2, <1>3, <1>4, DropKeeps, ReplicateKeeps DEF Next

LEMMA ListStarts == Init => ListInv
  <1> SUFFICES ASSUME Init PROVE ListInv
    OBVIOUS
  <1>1. Tables(db)
    BY DEF Init, Tables, Statuses
  <1> QED
    BY <1>1, NoWalkIsWalk DEF Init, ListInv

\* A listing that is carried from page to page, on whichever node, returns nothing
\* twice and skips nothing that matched from its first page on (memory_repo.rs,
\* list): the keyset of the last row is enough, and no offset is needed.
THEOREM ListingExact == Spec => []ListingIsExact
  <1>1. ListInv => ListingIsExact
    <2> SUFFICES ASSUME ListInv, walk.pc \in {"listing", "listed"} PROVE ListingIsExact
      BY DEF ListingIsExact
    <2>1. Sorted(walk.got)
      BY DEF ListInv, Listing, Complete
    <2>2. DOMAIN walk.got = 1..Len(walk.got)
      BY <2>1, LenProperties DEF Sorted
    <2>3. walk.pc = "listed" => \A m \in walk.stable : Returned(walk.got, m)
      BY DEF ListInv, Complete
    <2> QED
      BY <2>1, <2>2, <2>3 DEF ListingIsExact, Sorted, Returned
  <1> QED
    BY <1>1, ListStarts, ListNext, PTL DEF Spec

-----------------------------------------------------------------------------
(* The splitter: byte offsets of characters and sentences.                 *)

LEMMA EndsRecursion ==
    ASSUME NEW body \in Seq(Character)
    PROVE  /\ Len(body) \in Nat
           /\ Ends(body) \in [0..Len(body) -> Nat]
           /\ Ends(body)[0] = 0
           /\ \A k \in 1..Len(body) : Ends(body)[k - 1] < Ends(body)[k]
  <1> PICK n : n = Len(body)
    OBVIOUS
  <1>1. n \in Nat /\ \A k \in 1..n : body[k].bytes \in 1..4
    <2>1. n \in Nat
      BY LenProperties
    <2>2. \A k \in 1..n : body[k] \in Character
      BY ElementOfSeq
    <2> QED
      BY <2>1, <2>2 DEF Character
  <1>g. PICK G : G = [p \in Nat \X ((0 + 1)..n) |-> p[1] + body[p[2]].bytes]
    OBVIOUS
  <1>2. G \in Stepping(0, n, Nat)
    BY <1>g, <1>1 DEF Stepping
  <1>3. PICK f \in [0..n -> Nat] : Iterates(f, 0, n, 0, G)
    <2>1. 0 \in Int /\ n \in Int /\ 0 <= n /\ 0 \in Nat
      BY <1>1
    <2> QED
      BY <1>2, <2>1, RecursionExists
  <1>4. \A k \in 0..n : k # 0 => G[<<f[k - 1], k>>] = f[k - 1] + body[k].bytes
    <2> SUFFICES ASSUME NEW k \in 0..n, k # 0
                 PROVE  G[<<f[k - 1], k>>] = f[k - 1] + body[k].bytes
      OBVIOUS
    <2>1. k \in (0 + 1)..n /\ k - 1 \in 0..n
      BY <1>1
    <2> QED
      BY <1>g, <2>1
  <1>5. f = [k \in 0..n |-> IF k = 0 THEN 0 ELSE f[k - 1] + body[k].bytes]
    BY <1>3, <1>4 DEF Iterates
  <1>6. Ends(body) = CHOOSE e : e = [k \in 0..n |-> IF k = 0 THEN 0 ELSE e[k - 1] + body[k].bytes]
    BY DEF Ends
  <1>7. Ends(body) = [k \in 0..n |-> IF k = 0 THEN 0
                                     ELSE Ends(body)[k - 1] + body[k].bytes]
    BY <1>5, <1>6
  <1> PICK e : e = Ends(body)
    OBVIOUS
  <1>8. e = [k \in 0..n |-> IF k = 0 THEN 0 ELSE e[k - 1] + body[k].bytes]
    BY <1>7
  <1>9. \A k \in 0..n : e[k] \in Nat
    <2> DEFINE D == {k \in Nat : k <= n /\ e[k] \notin Nat}
    <2>0. D \in SUBSET Nat
      OBVIOUS
    <2> SUFFICES ASSUME D # {} PROVE FALSE
      BY <1>1
    <2> HIDE DEF D
    <2>1. PICK k \in D : \A j \in D : k <= j
      BY <2>0, LeastNumber
    <2>2. k \in Nat /\ k <= n /\ e[k] \notin Nat
      BY <2>1 DEF D
    <2>3. k # 0
      BY <1>1, <1>8, <2>2
    <2>4. k - 1 \in Nat /\ k - 1 < k /\ k - 1 <= n /\ k - 1 \notin D
      BY <1>1, <2>0, <2>1, <2>2, <2>3
    <2>5. e[k - 1] \in Nat
      BY <2>4 DEF D
    <2>6. k \in 0..n /\ k \in 1..n
      BY <1>1, <2>2, <2>3
    <2>7. e[k] = e[k - 1] + body[k].bytes
      BY <1>8, <2>3, <2>6
    <2> QED
      BY <1>1, <2>2, <2>5, <2>6, <2>7
  <1>10. ASSUME NEW k \in 1..n PROVE e[k - 1] < e[k]
    <2>1. k \in 0..n /\ k - 1 \in 0..n /\ k # 0
      BY <1>1
    <2>2. e[k] = e[k - 1] + body[k].bytes
      BY <1>8, <2>1
    <2>3. body[k].bytes \in 1..4
      BY <1>1
    <2>4. e[k - 1] \in Nat
      BY <1>9, <2>1
    <2> QED
      BY <2>2, <2>3, <2>4
  <1>11. e[0] = 0 /\ e \in [0..n -> Nat]
    BY <1>1, <1>8, <1>9
  <1> QED
    BY <1>1, <1>10, <1>11

LEMMA EndsGrow ==
    ASSUME NEW body \in Seq(Character), NEW i \in 0..Len(body), NEW j \in 0..Len(body), i < j
    PROVE  Ends(body)[i] < Ends(body)[j]
  <1> PICK e : e = Ends(body)
    OBVIOUS
  <1> PICK n : n = Len(body)
    OBVIOUS
  <1>1. n \in Nat /\ e \in [0..n -> Nat] /\ \A k \in 1..n : e[k - 1] < e[k]
    BY EndsRecursion
  <1> DEFINE D == {k \in Nat : i < k /\ k <= n /\ ~(e[i] < e[k])}
  <1>0. D \in SUBSET Nat
    OBVIOUS
  <1>2. D = {}
    <2> SUFFICES ASSUME D # {} PROVE FALSE
      OBVIOUS
    <2> HIDE DEF D
    <2>1. PICK k \in D : \A l \in D : k <= l
      BY <1>0, LeastNumber
    <2>2. k \in Nat /\ i < k /\ k <= n /\ ~(e[i] < e[k])
      BY <2>1 DEF D
    <2>3. k \in 1..n /\ k - 1 \in 0..n /\ k - 1 \in Nat /\ k - 1 < k /\ k - 1 <= n
      BY <1>1, <2>2
    <2>4. e[k - 1] < e[k] /\ e[i] \in Nat /\ e[k] \in Nat /\ e[k - 1] \in Nat
      <3>1. i \in 0..n /\ k \in 0..n
        BY <1>1, <2>3
      <3>2. e[i] \in Nat /\ e[k] \in Nat /\ e[k - 1] \in Nat
        BY <1>1, <2>3, <3>1
      <3> QED
        BY <1>1, <2>3, <3>2
    <2>5. k - 1 \notin D
      BY <1>0, <2>1, <2>3
    <2>6. k - 1 = i \/ e[i] < e[k - 1]
      BY <2>2, <2>3, <2>5 DEF D
    <2> QED
      BY <2>2, <2>4, <2>6
  <1>3. j \in Nat /\ j <= n /\ j \notin D
    BY <1>1, <1>2
  <1> QED
    BY <1>3

\* The offsets at which a chunk may start or end.
LEMMA Boundaries ==
    ASSUME NEW body \in Seq(Character)
    PROVE  /\ CharBoundaries(body) \subseteq Nat /\ Size(body) \in Nat
           /\ 0 \in CharBoundaries(body) /\ Size(body) \in CharBoundaries(body)
           /\ \A b \in CharBoundaries(body) : b <= Size(body)
           /\ SentenceBoundaries(body) \subseteq CharBoundaries(body)
           /\ body # <<>> => 0 < Size(body)
  <1> PICK n : n = Len(body)
    OBVIOUS
  <1> PICK e : e = Ends(body)
    OBVIOUS
  <1>1. n \in Nat /\ e \in [0..n -> Nat] /\ e[0] = 0
    BY EndsRecursion
  <1>2. 0 \in 0..n /\ n \in 0..n
    BY <1>1
  <1>3. CharBoundaries(body) = {e[k] : k \in 0..n} /\ Size(body) = e[n]
    BY DEF CharBoundaries, Size
  <1>4. \A k \in 0..n : e[k] <= e[n]
    <2> SUFFICES ASSUME NEW k \in 0..n PROVE e[k] <= e[n]
      OBVIOUS
    <2>1. k = n \/ k < n
      BY <1>1
    <2>2. k < n => e[k] < e[n]
      BY <1>2, EndsGrow
    <2> QED
      BY <1>1, <1>2, <2>1, <2>2
  <1>5. SentenceBoundaries(body) \subseteq CharBoundaries(body)
    <2>1. \A k \in 1..n : k \in 0..n
      BY <1>1
    <2>2. SentenceBoundaries(body) \subseteq {0, Size(body)} \cup {e[k] : k \in 1..n}
      BY DEF SentenceBoundaries
    <2> QED
      BY <1>1, <1>2, <1>3, <2>1, <2>2
  <1>6. body # <<>> => 0 < e[n]
    <2>1. body # <<>> => 0 < n
      BY <1>1, EmptySeq
    <2> QED
      BY <1>1, <1>2, <2>1, EndsGrow
  <1> QED
    BY <1>1, <1>2, <1>3, <1>4, <1>5, <1>6

LEMMA MaxOfBoundaries ==
    ASSUME NEW body \in Seq(Character), NEW X \in SUBSET CharBoundaries(body), X # {}
    PROVE  Max(X) \in X /\ \A x \in X : x <= Max(X)
  <1>1. X \in SUBSET Nat /\ Size(body) \in Nat /\ \A x \in X : x <= Size(body)
    BY Boundaries
  <1>2. \E x \in X : \A y \in X : y <= x
    BY <1>1, GreatestNumber
  <1>3. \E x \in X : \A y \in X : x >= y
    BY <1>1, <1>2
  <1>4. Max(X) \in X /\ \A y \in X : Max(X) >= y
    BY <1>3 DEF Max
  <1> QED
    BY <1>1, <1>4

LEMMA MinOfBoundaries ==
    ASSUME NEW body \in Seq(Character), NEW X \in SUBSET CharBoundaries(body), X # {}
    PROVE  Min(X) \in X /\ \A x \in X : Min(X) <= x
  <1>1. X \in SUBSET Nat
    BY Boundaries
  <1>2. \E x \in X : \A y \in X : x <= y
    BY <1>1, LeastNumber
  <1> QED
    BY <1>2 DEF Min

LEMMA FloorExact ==
    ASSUME NEW body \in Seq(Character), NEW limit \in Nat
    PROVE  /\ Utf8Floor(body, limit) \in CharBoundaries(body)
           /\ Utf8Floor(body, limit) <= limit
           /\ \A b \in CharBoundaries(body) : b <= limit => b <= Utf8Floor(body, limit)
  <1> PICK X : X = {b \in CharBoundaries(body) : b <= limit}
    OBVIOUS
  <1>1. X \in SUBSET CharBoundaries(body) /\ 0 \in X
    BY Boundaries
  <1>2. Max(X) \in X /\ \A x \in X : x <= Max(X)
    BY <1>1, MaxOfBoundaries
  <1>3. Utf8Floor(body, limit) = Max(X)
    BY DEF Utf8Floor
  <1> QED
    BY <1>2, <1>3

LEMMA LastInExact ==
    ASSUME NEW body \in Seq(Character), NEW start \in Nat, NEW limit \in Nat
    PROVE  LastIn(body, start, limit) \in CharBoundaries(body) /\ LastIn(body, start, limit) <= limit
  <1> PICK X : X = {b \in SentenceBoundaries(body) : start < b /\ b <= limit}
    OBVIOUS
  <1>1. X \in SUBSET CharBoundaries(body)
    BY Boundaries
  <1>2. LastIn(body, start, limit) = IF X # {} THEN Max(X) ELSE Utf8Floor(body, limit)
    BY DEF LastIn, LastOf
  <1>3. X # {} => Max(X) \in X
    BY <1>1, MaxOfBoundaries
  <1> QED
    BY <1>1, <1>2, <1>3, FloorExact

LEMMA NextCharExact ==
    ASSUME NEW body \in Seq(Character), NEW start \in CharBoundaries(body), start < Size(body)
    PROVE  /\ NextChar(body, start) \in CharBoundaries(body) /\ start < NextChar(body, start)
           /\ \A b \in CharBoundaries(body) : start < b => NextChar(body, start) <= b
  <1> PICK X : X = {b \in CharBoundaries(body) : b > start}
    OBVIOUS
  <1>1. X \in SUBSET CharBoundaries(body) /\ Size(body) \in X /\ X \subseteq Nat /\ start \in Nat
    BY Boundaries
  <1>2. Min(X) \in X /\ \A x \in X : Min(X) <= x
    BY <1>1, MinOfBoundaries
  <1>3. NextChar(body, start) = Min(X)
    BY <1>1 DEF NextChar, FirstOf
  <1>4. \A b \in CharBoundaries(body) : start < b <=> b \in X
    BY Boundaries
  <1> QED
    BY <1>2, <1>3, <1>4

LEMMA SettingsAreNumbers ==
    ASSUME NEW c \in ChunkSettings, ValidChunkConfig(c)
    PROVE  /\ c.threshold \in Nat /\ c.maxChunks \in Nat /\ c.overlap \in Nat
           /\ c.target \in Nat /\ 0 < c.target /\ 0 < c.maxChunks
  BY DEF ChunkSettings, ValidChunkConfig

\* A chunk is not empty, cuts no character and is no longer than the target or one
\* character; where the target reaches the end of the chunk before, it reaches as far.
LEMMA ChunkEndExact ==
    ASSUME NEW body \in Seq(Character), NEW c \in ChunkSettings, ValidChunkConfig(c),
           NEW start \in CharBoundaries(body), start < Size(body),
           NEW before \in CharBoundaries(body),
           NEW end, end = ChunkEnd(body, c, start, before)
    PROVE  /\ end \in CharBoundaries(body) /\ start < end
           /\ end - start <= c.target \/ end = NextChar(body, start)
           /\ start <= before /\ before <= start + c.target => before <= end
  <1>1. /\ start \in Nat /\ Size(body) \in Nat /\ before \in Nat /\ before <= Size(body)
        /\ CharBoundaries(body) \subseteq Nat
    BY Boundaries
  <1>2. c.target \in Nat /\ c.overlap \in Nat
    BY SettingsAreNumbers
  <1>l. PICK limit : limit = Min({start + c.target, Size(body)})
    OBVIOUS
  <1>3. limit = IF start + c.target <= Size(body) THEN start + c.target ELSE Size(body)
    BY <1>l, <1>1, <1>2, LesserOfTwo
  <1>4. limit \in Nat /\ limit <= start + c.target /\ limit <= Size(body)
    BY <1>1, <1>2, <1>3
  <1> PICK hard : hard = Utf8Floor(body, limit)
    OBVIOUS
  <1>5. /\ hard \in CharBoundaries(body) /\ hard <= limit
        /\ \A b \in CharBoundaries(body) : b <= limit => b <= hard
    BY <1>4, FloorExact
  <1> PICK last : last = LastIn(body, start, limit)
    OBVIOUS
  <1>6. last \in CharBoundaries(body) /\ last <= limit
    BY <1>1, <1>4, LastInExact
  <1> PICK p : p = Prefer(last, hard, Size(body), start, c.overlap, before)
    OBVIOUS
  <1>7. p = hard \/ (p = last /\ ~(last <= before))
    BY DEF Prefer
  <1>8. end = IF p <= start THEN NextChar(body, start) ELSE p
    BY <1>l DEF ChunkEnd, EndBefore, AtLeastChar
  <1>9. p \in CharBoundaries(body) /\ p <= limit /\ p \in Nat /\ hard \in Nat
    BY <1>1, <1>5, <1>6, <1>7
  <1>10. /\ NextChar(body, start) \in CharBoundaries(body) /\ start < NextChar(body, start)
         /\ NextChar(body, start) \in Nat
    BY <1>1, NextCharExact
  <1>11. end \in CharBoundaries(body) /\ start < end
    BY <1>1, <1>8, <1>9, <1>10
  <1>12. end - start <= c.target \/ end = NextChar(body, start)
    BY <1>1, <1>2, <1>4, <1>8, <1>9
  <1>13. ASSUME start <= before, before <= start + c.target PROVE before <= end
    <2>1. before <= limit
      BY <1>1, <1>3, <1>13
    <2>2. before <= hard
      BY <1>5, <2>1
    <2>3. before <= p
      BY <1>1, <1>6, <1>7, <1>9, <2>2
    <2>4. CASE p <= start
      BY <1>1, <1>8, <1>9, <1>10, <1>13, <2>3, <2>4
    <2>5. CASE ~(p <= start)
      BY <1>8, <2>3, <2>5
    <2> QED
      BY <2>4, <2>5
  <1> QED
    BY <1>11, <1>12, <1>13

\* The next chunk starts further on, but not beyond the end of this one, and leaves
\* the overlap unless that would not advance.
LEMMA NextStartExact ==
    ASSUME NEW body \in Seq(Character), NEW c \in ChunkSettings, ValidChunkConfig(c),
           NEW start \in CharBoundaries(body), NEW end \in CharBoundaries(body), start < end,
           NEW next, next = NextStart(body, c, start, end)
    PROVE  /\ next \in CharBoundaries(body) /\ start < next /\ next <= end
           /\ end - next >= c.overlap \/ next = NextChar(body, start)
  <1>1. /\ start \in Nat /\ end \in Nat /\ Size(body) \in Nat /\ end <= Size(body)
        /\ CharBoundaries(body) \subseteq Nat
    BY Boundaries
  <1>2. c.overlap \in Nat
    BY SettingsAreNumbers
  <1>l. PICK limit : limit = Max({end - c.overlap, 0})
    OBVIOUS
  <1>3. limit = IF end - c.overlap >= 0 THEN end - c.overlap ELSE 0
    <2>1. \A i \in Int : \E x \in {i, 0} : \A y \in {i, 0} : x >= y
      OBVIOUS
    <2>2. end - c.overlap \in Int
      BY <1>1, <1>2
    <2>3. limit \in {end - c.overlap, 0} /\ \A y \in {end - c.overlap, 0} : limit >= y
      BY <1>l, <2>1, <2>2 DEF Max
    <2> QED
      BY <2>2, <2>3
  <1>4. limit \in Nat /\ limit <= end
    BY <1>1, <1>2, <1>3
  <1> PICK last : last = LastIn(body, start, limit)
    OBVIOUS
  <1>5. last \in CharBoundaries(body) /\ last <= limit /\ last \in Nat
    BY <1>1, <1>4, LastInExact
  <1>6. next = IF last <= start THEN NextChar(body, start) ELSE last
    BY <1>l DEF NextStart, AtLeastChar
  <1>7. start < Size(body)
    BY <1>1
  <1>8. /\ NextChar(body, start) \in CharBoundaries(body) /\ start < NextChar(body, start)
        /\ NextChar(body, start) <= end
    BY <1>7, NextCharExact
  <1>9. CASE last <= start
    BY <1>6, <1>8, <1>9
  <1>10. CASE ~(last <= start)
    <2>1. next = last /\ start < last /\ 0 < limit
      BY <1>1, <1>4, <1>5, <1>6, <1>10
    <2>2. last <= end - c.overlap
      BY <1>1, <1>2, <1>3, <1>5, <2>1
    <2> QED
      BY <1>1, <1>2, <1>4, <1>5, <2>1, <2>2
  <1> QED
    BY <1>9, <1>10

-----------------------------------------------------------------------------
(* The splitter: the loop.                                                 *)

Piece(body, c, p) ==
    /\ p[1] < p[2] /\ {p[1], p[2]} \subseteq CharBoundaries(body)
    /\ p[2] - p[1] <= c.target \/ p[2] = NextChar(body, p[1])

Adjacent(body, c, p, q) ==
    /\ p[1] < q[1] /\ q[1] <= p[2] /\ p[2] <= q[2]
    /\ p[2] - q[1] >= c.overlap \/ q[1] = NextChar(body, p[1])

\* The chunks so far: from the first byte on, without a gap.
Chain(body, c, s) ==
    /\ s \in Seq(Nat \X Nat) /\ Len(s) > 0
    /\ s[1][1] = 0
    /\ \A k \in 1..Len(s) : Piece(body, c, s[k])
    /\ \A k \in 1..(Len(s) - 1) : Adjacent(body, c, s[k], s[k + 1])

Stops(body, c, s) == Last(s)[2] = Size(body) \/ Len(s) > c.maxChunks

\* One turn of the loop.
Turn(body, c, done) ==
    IF Stops(body, c, done) THEN done ELSE Append(done, Following(body, c, Last(done)))

\* After k turns the loop has stopped or is past the first k characters.
Past(body, c, s, k) == Stops(body, c, s) \/ Ends(body)[k - 1] <= Last(s)[1]

LEMMA FirstPiece ==
    ASSUME NEW body \in Seq(Character), body # <<>>, NEW c \in ChunkSettings, ValidChunkConfig(c)
    PROVE  Chain(body, c, <<Starting(body, c, 0, 0)>>)
           /\ Past(body, c, <<Starting(body, c, 0, 0)>>, 1)
  <1> PICK end : end = ChunkEnd(body, c, 0, 0)
    OBVIOUS
  <1>1. 0 \in CharBoundaries(body) /\ 0 < Size(body) /\ CharBoundaries(body) \subseteq Nat
    BY Boundaries
  <1>2. /\ end \in CharBoundaries(body) /\ 0 < end
        /\ end - 0 <= c.target \/ end = NextChar(body, 0)
    BY <1>1, ChunkEndExact
  <1> PICK p : p = Starting(body, c, 0, 0)
    OBVIOUS
  <1>3. p = <<0, end>> /\ p[1] = 0 /\ p[2] = end /\ p \in Nat \X Nat
    BY <1>1, <1>2 DEF Starting
  <1>4. Piece(body, c, p)
    BY <1>1, <1>2, <1>3 DEF Piece
  <1> PICK s : s = <<p>>
    OBVIOUS
  <1>5. s \in Seq(Nat \X Nat) /\ Len(s) = 1 /\ s[1] = p
    BY <1>3
  <1>6. Chain(body, c, s)
    BY <1>3, <1>4, <1>5 DEF Chain
  <1>7. Ends(body)[1 - 1] = 0 /\ Last(s) = p
    BY <1>5, EndsRecursion DEF Last
  <1> QED
    BY <1>3, <1>6, <1>7 DEF Past

LEMMA FollowingExact ==
    ASSUME NEW body \in Seq(Character), NEW c \in ChunkSettings, ValidChunkConfig(c),
           NEW p \in Nat \X Nat, Piece(body, c, p), p[2] # Size(body),
           NEW q, q = Following(body, c, p)
    PROVE  q \in Nat \X Nat /\ Piece(body, c, q) /\ Adjacent(body, c, p, q)
  <1>1. /\ CharBoundaries(body) \subseteq Nat /\ Size(body) \in Nat
        /\ \A b \in CharBoundaries(body) : b <= Size(body)
    BY Boundaries
  <1>2. c.target \in Nat /\ c.overlap \in Nat
    BY SettingsAreNumbers
  <1>3. /\ p[1] \in CharBoundaries(body) /\ p[2] \in CharBoundaries(body) /\ p[1] < p[2]
        /\ p[2] - p[1] <= c.target \/ p[2] = NextChar(body, p[1])
    BY DEF Piece
  <1>n. PICK next : next = NextStart(body, c, p[1], p[2])
    OBVIOUS
  <1>4. /\ next \in CharBoundaries(body) /\ p[1] < next /\ next <= p[2]
        /\ p[2] - next >= c.overlap \/ next = NextChar(body, p[1])
    BY <1>n, <1>3, NextStartExact
  <1>5. next \in Nat /\ p[1] \in Nat /\ p[2] \in Nat /\ next < Size(body) /\ p[1] < Size(body)
    BY <1>1, <1>3, <1>4
  <1>e. PICK end : end = ChunkEnd(body, c, next, p[2])
    OBVIOUS
  <1>6. /\ end \in CharBoundaries(body) /\ next < end
        /\ end - next <= c.target \/ end = NextChar(body, next)
        /\ next <= p[2] /\ p[2] <= next + c.target => p[2] <= end
    BY <1>e, <1>3, <1>4, <1>5, ChunkEndExact
  <1>7. end \in Nat
    BY <1>1, <1>6
  <1>8. p[2] <= end
    <2>1. CASE p[2] - p[1] <= c.target
      BY <1>2, <1>4, <1>5, <1>6, <1>7, <2>1
    <2>2. CASE p[2] = NextChar(body, p[1])
      <3>1. p[2] <= next
        BY <1>3, <1>4, <1>5, <2>2, NextCharExact
      <3> QED
        BY <1>4, <1>5, <1>6, <1>7, <3>1
    <2> QED
      BY <1>3, <2>1, <2>2
  <1>9. q = <<next, end>>
    BY <1>n, <1>e DEF Following, Starting
  <1>10. q[1] = next /\ q[2] = end /\ q \in Nat \X Nat
    BY <1>5, <1>7, <1>9
  <1> QED
    BY <1>4, <1>6, <1>8, <1>10 DEF Piece, Adjacent

\* Between two neighbouring offsets there is no character boundary.
LEMMA NoneBetween ==
    ASSUME NEW body \in Seq(Character), NEW k \in 1..Len(body), NEW b \in CharBoundaries(body),
           Ends(body)[k - 1] < b
    PROVE  Ends(body)[k] <= b
  <1>e. PICK e : e = Ends(body)
    OBVIOUS
  <1>1. Len(body) \in Nat /\ e \in [0..Len(body) -> Nat]
    BY <1>e, EndsRecursion
  <1>2. PICK j \in 0..Len(body) : b = e[j]
    BY <1>e DEF CharBoundaries
  <1>3. k - 1 \in 0..Len(body) /\ k \in 0..Len(body) /\ j \in Int /\ k \in Int
    BY <1>1
  <1>4. j > k - 1
    <2> SUFFICES ASSUME j <= k - 1 PROVE FALSE
      BY <1>3
    <2>1. j = k - 1 \/ j < k - 1
      BY <1>3
    <2>2. j < k - 1 => e[j] < e[k - 1]
      BY <1>e, <1>3, EndsGrow
    <2> QED
      BY <1>1, <1>2, <1>3, <1>e, <2>1, <2>2
  <1>5. j = k \/ k < j
    BY <1>3, <1>4
  <1>6. k < j => e[k] < e[j]
    BY <1>e, <1>3, EndsGrow
  <1> QED
    BY <1>1, <1>2, <1>3, <1>e, <1>5, <1>6

LEMMA ChainLast ==
    ASSUME NEW body, NEW c, NEW s, Chain(body, c, s)
    PROVE  Len(s) \in Nat /\ Len(s) \in 1..Len(s) /\ Last(s) = s[Len(s)]
           /\ Last(s) \in Nat \X Nat /\ Piece(body, c, Last(s))
  <1>1. s \in Seq(Nat \X Nat) /\ Len(s) > 0 /\ \A k \in 1..Len(s) : Piece(body, c, s[k])
    BY DEF Chain
  <1>2. Len(s) \in Nat
    BY <1>1, LenProperties
  <1>3. Len(s) \in 1..Len(s)
    BY <1>1, <1>2
  <1>4. s[Len(s)] \in Nat \X Nat
    BY <1>1, <1>3, ElementOfSeq
  <1> QED
    BY <1>1, <1>2, <1>3, <1>4 DEF Last

LEMMA TurnChains ==
    ASSUME NEW body \in Seq(Character), NEW c \in ChunkSettings, ValidChunkConfig(c),
           NEW done, Chain(body, c, done), NEW s, s = Turn(body, c, done)
    PROVE  /\ Chain(body, c, s)
           /\ \A k \in 2..Len(body) : Past(body, c, done, k - 1) => Past(body, c, s, k)
  <1>1. CASE Stops(body, c, done)
    BY <1>1 DEF Turn, Past
  <1>2. CASE ~Stops(body, c, done)
    <2>n. PICK n : n = Len(done)
      OBVIOUS
    <2>p. PICK p : p = Last(done)
      OBVIOUS
    <2>q. PICK q : q = Following(body, c, p)
      OBVIOUS
    <2>1. n \in Nat /\ n \in 1..n /\ p = done[n] /\ p \in Nat \X Nat /\ Piece(body, c, p)
      BY <2>n, <2>p, ChainLast
    <2>2. p[2] # Size(body)
      BY <1>2, <2>p DEF Stops
    <2>3. q \in Nat \X Nat /\ Piece(body, c, q) /\ Adjacent(body, c, p, q)
      BY <2>q, <2>1, <2>2, FollowingExact
    <2>4. done \in Seq(Nat \X Nat) /\ s = Append(done, q)
      BY <1>2, <2>p, <2>q DEF Chain, Turn
    <2>5. /\ s \in Seq(Nat \X Nat) /\ Len(s) = n + 1
          /\ \A k \in 1..n : s[k] = done[k]
          /\ s[n + 1] = q
      BY <2>n, <2>3, <2>4, AppendProperties
    <2>6. \A k \in 1..(n + 1) : Piece(body, c, s[k])
      <3> SUFFICES ASSUME NEW k \in 1..(n + 1) PROVE Piece(body, c, s[k])
        OBVIOUS
      <3>1. k = n + 1 \/ k \in 1..n
        BY <2>1
      <3>2. k \in 1..n => Piece(body, c, done[k])
        BY <2>n DEF Chain
      <3> QED
        BY <2>3, <2>5, <3>1, <3>2
    <2>7. \A k \in 1..n : Adjacent(body, c, s[k], s[k + 1])
      <3> SUFFICES ASSUME NEW k \in 1..n PROVE Adjacent(body, c, s[k], s[k + 1])
        OBVIOUS
      <3>1. k = n \/ (k \in 1..(n - 1) /\ k + 1 \in 1..n)
        BY <2>1
      <3>2. k \in 1..(n - 1) => Adjacent(body, c, done[k], done[k + 1])
        BY <2>n DEF Chain
      <3> QED
        BY <2>1, <2>3, <2>5, <3>1, <3>2
    <2>8. s[1][1] = 0 /\ Len(s) > 0 /\ Len(s) - 1 = n
      <3>1. 1 \in 1..n
        BY <2>1
      <3>2. done[1][1] = 0
        BY DEF Chain
      <3> QED
        BY <2>1, <2>5, <3>1, <3>2
    <2>9. Chain(body, c, s)
      BY <2>5, <2>6, <2>7, <2>8 DEF Chain
    <2>10. Last(s) = q
      BY <2>5 DEF Last
    <2>11. ASSUME NEW k \in 2..Len(body), Past(body, c, done, k - 1) PROVE Past(body, c, s, k)
      <3>1. Len(body) \in Nat /\ Ends(body) \in [0..Len(body) -> Nat]
        BY EndsRecursion
      <3>2. k - 1 \in 1..Len(body) /\ (k - 1) - 1 \in 0..Len(body) /\ k - 1 \in 0..Len(body)
        BY <3>1
      <3>3. Ends(body)[(k - 1) - 1] <= p[1]
        BY <1>2, <2>p, <2>11 DEF Past
      <3>4. p[1] < q[1] /\ q[1] \in CharBoundaries(body) /\ p[1] \in Nat /\ q[1] \in Nat
        BY <2>1, <2>3 DEF Adjacent, Piece
      <3>5. Ends(body)[(k - 1) - 1] \in Nat
        BY <3>1, <3>2
      <3>6. Ends(body)[(k - 1) - 1] < q[1]
        BY <3>3, <3>4, <3>5
      <3>7. Ends(body)[k - 1] <= q[1]
        BY <3>2, <3>4, <3>6, NoneBetween
      <3> QED
        BY <2>10, <3>7 DEF Past
    <2> QED
      BY <2>9, <2>11
  <1> QED
    BY <1>1, <1>2

\* The loop ends within the number of characters.
LEMMA LoopExact ==
    ASSUME NEW body \in Seq(Character), body # <<>>, NEW c \in ChunkSettings, ValidChunkConfig(c)
    PROVE  Chain(body, c, Loop(body, c)) /\ Stops(body, c, Loop(body, c))
  <1>n. PICK n : n = Len(body)
    OBVIOUS
  <1>1. n \in Nat /\ n > 0
    BY <1>n, EmptySeq, LenProperties
  <1>b. PICK base : base = <<Starting(body, c, 0, 0)>>
    OBVIOUS
  <1>v. PICK V : V = {s \in Seq(Nat \X Nat) : Chain(body, c, s)}
    OBVIOUS
  <1>2. Chain(body, c, base) /\ Past(body, c, base, 1) /\ base \in V
    BY <1>b, <1>v, FirstPiece DEF Chain
  <1>3. \A s \in V : Turn(body, c, s) \in V
    <2> SUFFICES ASSUME NEW s \in V PROVE Turn(body, c, s) \in V
      OBVIOUS
    <2>u. PICK u : u = Turn(body, c, s)
      OBVIOUS
    <2>1. Chain(body, c, s)
      BY <1>v
    <2>2. Chain(body, c, u)
      BY <2>u, <2>1, TurnChains
    <2>3. u \in Seq(Nat \X Nat)
      BY <2>2 DEF Chain
    <2> QED
      BY <1>v, <2>u, <2>2, <2>3
  <1>g. PICK G : G = [p \in V \X ((1 + 1)..n) |-> Turn(body, c, p[1])]
    OBVIOUS
  <1>4. G \in Stepping(1, n, V)
    BY <1>g, <1>3 DEF Stepping
  <1>5. PICK f \in [1..n -> V] : Iterates(f, 1, n, base, G)
    <2>1. 1 \in Int /\ n \in Int /\ 1 <= n
      BY <1>1
    <2> QED
      BY <1>2, <1>4, <2>1, RecursionExists
  <1>6. \A k \in 1..n : k # 1 => G[<<f[k - 1], k>>] = Turn(body, c, f[k - 1])
    <2> SUFFICES ASSUME NEW k \in 1..n, k # 1
                 PROVE  G[<<f[k - 1], k>>] = Turn(body, c, f[k - 1])
      OBVIOUS
    <2>1. k \in (1 + 1)..n /\ k - 1 \in 1..n
      BY <1>1
    <2>2. <<f[k - 1], k>> \in V \X ((1 + 1)..n)
      BY <2>1
    <2> QED
      BY <1>g, <2>2
  <1>7. f = [k \in 1..n |-> IF k = 1 THEN base ELSE Turn(body, c, f[k - 1])]
    BY <1>5, <1>6 DEF Iterates
  <1>l. PICK l : l = CHOOSE x : x = [k \in 1..n |-> IF k = 1 THEN base ELSE Turn(body, c, x[k - 1])]
    OBVIOUS
  <1>8. l = [k \in 1..n |-> IF k = 1 THEN base ELSE Turn(body, c, l[k - 1])]
    BY <1>l, <1>7
  <1>9. Loop(body, c) = l[n]
    BY <1>l, <1>b, <1>n DEF Loop, Turn, Stops
  <1> DEFINE D == {k \in Nat : k \in 1..n /\ ~(Chain(body, c, l[k]) /\ Past(body, c, l[k], k))}
  <1>10. D = {}
    <2> SUFFICES ASSUME D # {} PROVE FALSE
      OBVIOUS
    <2>0. D \in SUBSET Nat
      OBVIOUS
    <2> HIDE DEF D
    <2>1. PICK k \in D : \A j \in D : k <= j
      BY <2>0, LeastNumber
    <2>2. k \in 1..n /\ ~(Chain(body, c, l[k]) /\ Past(body, c, l[k], k))
      BY <2>1 DEF D
    <2>3. k # 1
      BY <1>2, <1>8, <2>2
    <2>4. k - 1 \in 1..n /\ k - 1 \in Nat /\ ~(k <= k - 1) /\ k \in 2..n
      BY <1>1, <2>2, <2>3
    <2>5. k - 1 \notin D
      BY <2>1, <2>4
    <2>6. Chain(body, c, l[k - 1]) /\ Past(body, c, l[k - 1], k - 1)
      BY <2>4, <2>5 DEF D
    <2>7. l[k] = Turn(body, c, l[k - 1])
      BY <1>8, <2>2, <2>3
    <2> QED
      BY <1>n, <2>2, <2>4, <2>6, <2>7, TurnChains
  <1>11. Chain(body, c, l[n]) /\ Past(body, c, l[n], n)
    <2>1. n \in 1..n /\ n \notin D
      BY <1>1, <1>10
    <2> QED
      BY <1>1, <2>1
  <1>12. Stops(body, c, l[n])
    <2> SUFFICES ASSUME Ends(body)[n - 1] <= Last(l[n])[1] PROVE Last(l[n])[2] = Size(body)
      BY <1>11 DEF Past, Stops
    <2>p. PICK p : p = Last(l[n])
      OBVIOUS
    <2>1. p \in Nat \X Nat /\ Piece(body, c, p)
      BY <2>p, <1>11, ChainLast
    <2>2. p[1] < p[2] /\ p[2] \in CharBoundaries(body) /\ p[1] \in Nat /\ p[2] \in Nat
      BY <2>1 DEF Piece
    <2>3. n \in 1..n /\ n - 1 \in 0..n /\ Ends(body) \in [0..n -> Nat]
      BY <1>n, <1>1, EndsRecursion
    <2>4. Ends(body)[n - 1] \in Nat
      BY <2>3
    <2>5. Ends(body)[n - 1] < p[2]
      BY <2>p, <2>2, <2>4
    <2>6. Ends(body)[n] <= p[2]
      BY <1>n, <2>2, <2>3, <2>5, NoneBetween
    <2>7. p[2] <= Size(body) /\ Size(body) \in Nat /\ Size(body) = Ends(body)[n]
      BY <1>n, <2>2, Boundaries DEF Size
    <2> QED
      BY <2>p, <2>2, <2>6, <2>7
  <1> QED
    BY <1>9, <1>11, <1>12

LEMMA ChainTiles ==
    ASSUME NEW body, NEW c, NEW s, Chain(body, c, s), Last(s)[2] = Size(body)
    PROVE  Tiles(body, c, s)
  <1>n. PICK n : n = Len(s)
    OBVIOUS
  <1>1. s[1][1] = 0 /\ s[n][2] = Size(body)
    BY <1>n, ChainLast DEF Chain
  <1>2. \A k \in 1..n : Piece(body, c, s[k])
    BY <1>n DEF Chain
  <1>3. \A k \in 1..(n - 1) : Adjacent(body, c, s[k], s[k + 1])
    BY <1>n DEF Chain
  <1> QED
    BY <1>n, <1>1, <1>2, <1>3 DEF Tiles, Piece, Adjacent

\* Chunker::split, for every body and every configuration that Chunker::new
\* accepts: the chunks cover the body, or there are none.
LEMMA SplitExact ==
    ASSUME NEW body \in Seq(Character), NEW c \in ChunkSettings, ValidChunkConfig(c)
    PROVE  Split(body, c) \in Seq(Nat \X Nat) /\ Covers(body, c, Split(body, c))
  <1>s. PICK s : s = Split(body, c)
    OBVIOUS
  <1>1. CASE body = <<>>
    BY <1>1 DEF Split, Covers, Refused
  <1>2. CASE body # <<>> /\ Size(body) <= c.threshold
    <2>1. s = <<<<0, Size(body)>>>>
      BY <1>2, <1>s DEF Split
    <2>2. Size(body) \in Nat /\ 0 < Size(body)
          /\ {0, Size(body)} \subseteq CharBoundaries(body)
      BY <1>2, Boundaries
    <2>3. s \in Seq(Nat \X Nat) /\ Len(s) = 1 /\ s[1][1] = 0 /\ s[1][2] = Size(body)
      BY <2>1, <2>2
    <2>4. \A k \in 1..1 : k = 1
      OBVIOUS
    <2>5. 1..(1 - 1) = {}
      OBVIOUS
    <2>6. Tiles(body, c, s)
      BY <1>2, <2>2, <2>3, <2>4, <2>5 DEF Tiles
    <2> QED
      BY <1>s, <2>3, <2>6 DEF Covers
  <1>3. CASE body # <<>> /\ ~(Size(body) <= c.threshold)
    <2>l. PICK l : l = Loop(body, c)
      OBVIOUS
    <2>1. Chain(body, c, l) /\ Stops(body, c, l)
      BY <1>3, <2>l, LoopExact
    <2>2. s = IF Len(l) > c.maxChunks THEN Refused ELSE l
      BY <1>3, <1>s, <2>l DEF Split, UpTo
    <2>3. CASE Len(l) > c.maxChunks
      BY <1>s, <2>2, <2>3 DEF Covers, Refused
    <2>4. CASE ~(Len(l) > c.maxChunks)
      <3>1. Last(l)[2] = Size(body)
        BY <2>1, <2>4 DEF Stops
      <3>2. Tiles(body, c, l)
        BY <2>1, <3>1, ChainTiles
      <3>3. l \in Seq(Nat \X Nat)
        BY <2>1 DEF Chain
      <3> QED
        BY <1>s, <2>2, <2>4, <3>2, <3>3 DEF Covers
    <2> QED
      BY <2>3, <2>4
  <1> QED
    BY <1>1, <1>2, <1>3

\* Whatever the bodies and the accepted chunkings, Chunker::split loses no
\* byte, cuts no character and keeps the overlap.
THEOREM SplitCovers == Spec => []SplitTiles
  <1>1. SplitTiles
    <2> SUFFICES ASSUME NEW body \in Bodies, NEW c \in Configs
                 PROVE  Covers(body, c, Split(body, c))
      BY DEF SplitTiles
    <2>1. body \in Seq(Character) /\ c \in ChunkSettings /\ ValidChunkConfig(c)
      BY BodiesAreText, ChunkingIsValid
    <2> QED
      BY <2>1, SplitExact
  <1> QED
    BY <1>1, PTL

-----------------------------------------------------------------------------
(* The scan: chunks and their two orders.                                  *)

LEMMA ChunkRows ==
    /\ IsFiniteSet(Chunks)
    /\ \A c \in Chunks : c[1] \in Memories /\ c[1] \in Nat /\ c[2] \in Nat /\ c = <<c[1], c[2]>>
  <1>1. ASSUME NEW m \in Memories
        PROVE  /\ IsFiniteSet(ChunksOf[m])
               /\ \A c \in ChunksOf[m] :
                    c[1] \in Memories /\ c[1] \in Nat /\ c[2] \in Nat /\ c = <<c[1], c[2]>>
    <2>n. PICK n : n = Len(Split(BodyOf[m], ChunkConfig))
      OBVIOUS
    <2>1. BodyOf[m] \in Seq(Character) /\ ChunkConfig \in ChunkSettings
          /\ ValidChunkConfig(ChunkConfig)
      BY BodiesAreText, ChunkingIsValid
    <2>2. Split(BodyOf[m], ChunkConfig) \in Seq(Nat \X Nat)
      BY <2>1, SplitExact
    <2>3. n \in Nat
      BY <2>n, <2>2, LenProperties
    <2>4. ChunksOf[m] = {m} \X (0..(n - 1))
      BY <2>n DEF ChunksOf
    <2>5. IsFiniteSet({m})
      BY FS_Singleton
    <2>o. PICK ordinals : ordinals = 0..(n - 1)
      OBVIOUS
    <2>i. IsFiniteSet(ordinals)
      <3>1. 0 \in Int /\ n - 1 \in Int
        BY <2>3
      <3> QED
        BY <2>o, <3>1, FS_Interval
    <2>6. IsFiniteSet(ChunksOf[m])
      <3>1. ChunksOf[m] = {m} \X ordinals
        BY <2>4, <2>o
      <3>2. IsFiniteSet({m} \X ordinals)
        BY <2>5, <2>i, FS_Product
      <3> QED
        BY <3>1, <3>2
    <2>7. 0..(n - 1) \subseteq Nat /\ m \in Nat
      BY <2>3, ScopeIsFinite
    <2> QED
      BY <2>4, <2>6, <2>7
  <1>r. PICK rows : rows = {ChunksOf[m] : m \in Memories}
    OBVIOUS
  <1>2. ChunksOf \in Surjection(Memories, rows)
    BY <1>r DEF Surjection, ChunksOf
  <1>3. IsFiniteSet(rows)
    BY <1>2, ScopeIsFinite, FS_Surjection
  <1>4. \A T \in rows : IsFiniteSet(T)
    BY <1>1, <1>r
  <1>5. IsFiniteSet(UNION rows)
    BY <1>3, <1>4, FS_UNION
  <1>6. Chunks = UNION rows
    BY <1>r DEF Chunks
  <1> QED
    BY <1>1, <1>5, <1>6, <1>r

LEMMA ScanOrders ==
    ASSUME NEW S \in SUBSET Chunks
    PROVE  TotalOrder(S, {p \in S \X S : InScanOrder(p[1], p[2])})
  <1>r. PICK R : R = {p \in S \X S : InScanOrder(p[1], p[2])}
    OBVIOUS
  <1>1. \A x, y \in S : <<x, y>> \in R <=> InScanOrder(x, y)
    BY <1>r
  <1>2. \A c \in S : c[1] \in Nat /\ c[2] \in Nat /\ c = <<c[1], c[2]>>
    BY ChunkRows
  <1>3. \A x \in S : ~InScanOrder(x, x)
    BY <1>2 DEF InScanOrder
  <1>4. \A x, y, z \in S : InScanOrder(x, y) /\ InScanOrder(y, z) => InScanOrder(x, z)
    BY <1>2 DEF InScanOrder
  <1>5. ASSUME NEW x \in S, NEW y \in S, x # y PROVE InScanOrder(x, y) \/ InScanOrder(y, x)
    <2>1. x[1] # y[1] \/ x[2] # y[2]
      BY <1>2, <1>5
    <2> QED
      BY <1>2, <2>1 DEF InScanOrder
  <1>6. TotalOrder(S, R)
    BY <1>1, <1>3, <1>4, <1>5 DEF TotalOrder
  <1> QED
    BY <1>r, <1>6

LEMMA ScanTransitive ==
    ASSUME NEW c \in Chunks, NEW d \in Chunks, NEW e \in Chunks,
           InScanOrder(c, d), InScanOrder(d, e)
    PROVE  InScanOrder(c, e)
  BY ChunkRows DEF InScanOrder

LEMMA ScanIrreflexive ==
    ASSUME NEW c \in Chunks, NEW d \in Chunks, InScanOrder(c, d)
    PROVE  ~InScanOrder(d, c) /\ c # d
  BY ChunkRows DEF InScanOrder

\* The chunks that have a score.
Scored == {c \in Chunks : HasDirection(c)}

LEMMA RankOrders ==
    /\ \A x \in Scored : ~Outranks(x, x)
    /\ \A x, y, z \in Scored : Outranks(x, y) /\ Outranks(y, z) => Outranks(x, z)
    /\ \A x, y \in Scored : x # y => Outranks(x, y) \/ Outranks(y, x)
  <1>1. \A c \in Scored : Score[c] \in Nat /\ ChunkRank[c] \in Nat /\ c \in Chunks
    BY ScoresKnown, RanksDiffer DEF Scored, HasDirection
  <1>2. \A x, y \in Scored : x # y => ChunkRank[x] # ChunkRank[y]
    BY RanksDiffer DEF Scored
  <1> QED
    BY <1>1, <1>2 DEF Outranks

\* Candidates have a worst one.
LEMMA WorstExists ==
    ASSUME NEW top \in SUBSET Scored, IsFiniteSet(top), top # {}
    PROVE  Worst(top) \in top /\ \A d \in top \ {Worst(top)} : Outranks(d, Worst(top))
  <1>r. PICK R : R = {p \in top \X top : Outranks(p[1], p[2])}
    OBVIOUS
  <1>1. \A x, y \in top : <<x, y>> \in R <=> Outranks(x, y)
    BY <1>r
  <1>2. TotalOrder(top, R)
    BY <1>1, RankOrders DEF TotalOrder
  <1>n. PICK n : n = Cardinality(top)
    OBVIOUS
  <1>3. /\ n \in Nat
        /\ \A x \in top : Cardinality(Below(top, R, x)) \in 0..(n - 1)
        /\ \A x, y \in top : <<x, y>> \in R
                <=> Cardinality(Below(top, R, x)) < Cardinality(Below(top, R, y))
        /\ \A i \in 0..(n - 1) : \E x \in top : Cardinality(Below(top, R, x)) = i
    BY <1>2, <1>n, RanksCount
  <1>4. n # 0
    BY <1>n, FS_EmptySet
  <1>5. n - 1 \in 0..(n - 1)
    BY <1>3, <1>4
  <1>6. PICK c \in top : Cardinality(Below(top, R, c)) = n - 1
    BY <1>3, <1>5
  <1>7. \A d \in top : <<c, d>> \notin R
    BY <1>3, <1>6
  <1>8. \A d \in top \ {c} : Outranks(d, c)
    BY <1>1, <1>2, <1>7 DEF TotalOrder
  <1> QED
    BY <1>8 DEF Worst

-----------------------------------------------------------------------------
(* The scan: the best K.                                                   *)

Candidates(top) == top \subseteq Scored /\ IsFiniteSet(top) /\ Cardinality(top) <= K

\* The answer on a chunk that was offered.
Settled(top, c) ==
    \/ c \in top
    \/ ~HasDirection(c)
    \/ Cardinality(top) = K /\ \A d \in top : Outranks(d, c)

\* What one more offer does to the candidates.
Follows(next, top, c) ==
    /\ Candidates(next) /\ next \subseteq top \cup {c}
    /\ Settled(next, c)
    /\ \A d \in Chunks : Settled(top, d) => Settled(next, d)

LEMMA OfferFollows ==
    ASSUME NEW top, Candidates(top), NEW c \in Chunks, c \notin top
    PROVE  Follows(Offer(top, c), top, c)
  <1>k. K \in Nat /\ Cardinality(top) \in Nat /\ Cardinality(top) <= K
    BY PagesAdvance, FS_CardinalityType DEF Candidates
  <1>t. top \in SUBSET Scored /\ IsFiniteSet(top)
    BY DEF Candidates
  <1>w. PICK w : w = Worst(top)
    OBVIOUS
  <1>1. CASE ~HasDirection(c)
    <2>1. Offer(top, c) = top
      BY <1>1 DEF Offer
    <2> QED
      BY <1>1, <2>1 DEF Follows, Settled
  <1>2. CASE HasDirection(c) /\ ~Admits(top, c)
    <2>1. Offer(top, c) = top
      BY <1>2 DEF Offer
    <2>2. Cardinality(top) = K
      BY <1>2, <1>k DEF Admits
    <2>3. ASSUME NEW d \in top PROVE Outranks(d, c)
      <3>1. Cardinality(top) # 0
        BY <1>t, <2>3, FS_EmptySet
      <3>2. w \in top /\ \A e \in top \ {w} : Outranks(e, w)
        BY <1>t, <1>w, <2>3, WorstExists
      <3>3. ~Outranks(c, w)
        BY <1>2, <1>k, <1>w, <2>2, <3>1 DEF Admits
      <3>4. c \in Scored /\ w \in Scored /\ d \in Scored /\ c # w
        BY <1>2, <1>t, <3>2 DEF Scored
      <3>5. Outranks(w, c)
        BY <3>3, <3>4, RankOrders
      <3> QED
        BY <3>2, <3>4, <3>5, RankOrders
    <2> QED
      BY <2>1, <2>2, <2>3 DEF Follows, Settled
  <1>3. CASE HasDirection(c) /\ Admits(top, c) /\ Cardinality(top) < K
    <2>n. PICK next : next = top \cup {c}
      OBVIOUS
    <2>1. Offer(top, c) = next
      BY <1>3, <2>n DEF Offer
    <2>2. IsFiniteSet(next) /\ Cardinality(next) = Cardinality(top) + 1
      BY <1>t, <2>n, FS_AddElement
    <2>3. Candidates(next)
      BY <1>3, <1>k, <1>t, <2>n, <2>2 DEF Candidates, Scored
    <2>4. Cardinality(top) # K
      BY <1>3, <1>k
    <2> QED
      BY <2>n, <2>1, <2>3, <2>4 DEF Follows, Settled
  <1>4. CASE HasDirection(c) /\ Admits(top, c) /\ ~(Cardinality(top) < K)
    <2>n. PICK next : next = (top \ {w}) \cup {c}
      OBVIOUS
    <2>1. Offer(top, c) = next
      BY <1>4, <1>w, <2>n DEF Offer
    <2>2. K > 0 /\ Outranks(c, w) /\ Cardinality(top) = K /\ Cardinality(top) # 0
      BY <1>4, <1>k, <1>w DEF Admits
    <2>3. top # {}
      BY <1>t, <2>2, FS_EmptySet
    <2>4. w \in top /\ \A e \in top \ {w} : Outranks(e, w)
      BY <1>t, <1>w, <2>3, WorstExists
    <2>5. IsFiniteSet(top \ {w}) /\ Cardinality(top \ {w}) = K - 1 /\ c \notin top \ {w}
      BY <1>t, <2>2, <2>4, FS_RemoveElement
    <2>6. IsFiniteSet(next) /\ Cardinality(next) = K - 1 + 1
      BY <2>n, <2>5, FS_AddElement
    <2>7. Cardinality(next) = K
      BY <1>k, <2>6
    <2>8. c \in Scored
      BY <1>4 DEF Scored
    <2>9. Candidates(next)
      BY <1>k, <1>t, <2>n, <2>6, <2>7, <2>8 DEF Candidates
    <2>10. \A e \in next : Outranks(e, w)
      BY <2>n, <2>2, <2>4
    <2>11. ASSUME NEW d \in Chunks, Settled(top, d) PROVE Settled(next, d)
      <3>1. CASE d \in next \/ ~HasDirection(d)
        BY <3>1 DEF Settled
      <3>2. CASE d \notin next /\ HasDirection(d)
        <4>1. d \in Scored
          BY <3>2 DEF Scored
        <4>2. d = w \/ \A e \in top : Outranks(e, d)
          BY <2>n, <2>11, <3>2 DEF Settled
        <4>3. d = w \/ Outranks(w, d)
          BY <2>4, <4>2
        <4>4. w \in Scored /\ \A e \in next : e \in Scored
          BY <1>t, <2>4, <2>n, <2>8
        <4>5. \A e \in next : Outranks(e, d)
          BY <2>10, <4>1, <4>3, <4>4, RankOrders
        <4> QED
          BY <2>7, <4>5 DEF Settled
      <3> QED
        BY <3>1, <3>2
    <2>12. c \in next /\ next \subseteq top \cup {c}
      BY <2>n
    <2> QED
      BY <2>1, <2>9, <2>11, <2>12 DEF Follows, Settled
  <1> QED
    BY <1>1, <1>2, <1>3, <1>4

\* The candidates after the first k rows of a page.
Offered(next, top, page, k) ==
    /\ Candidates(next)
    /\ \A c \in next : c \in top \/ \E i \in 1..k : page[i] = c
    /\ \A i \in 1..k : Settled(next, page[i])
    /\ \A d \in Chunks : Settled(top, d) => Settled(next, d)

LEMMA OneMoreOffered ==
    ASSUME NEW top, NEW page \in Seq(Chunks), NEW k \in 1..Len(page),
           \A i \in 1..Len(page) : page[i] \notin top,
           \A i, j \in 1..Len(page) : i < j => page[i] # page[j],
           NEW done, Offered(done, top, page, k - 1), NEW next, next = Offer(done, page[k])
    PROVE  Offered(next, top, page, k)
  <1>c. PICK c : c = page[k]
    OBVIOUS
  <1>1. Len(page) \in Nat /\ c \in Chunks /\ \A i \in 1..Len(page) : page[i] \in Chunks
    BY <1>c, LenProperties, ElementOfSeq
  <1>2. \A i \in 1..k : i \in 1..Len(page) /\ (i = k \/ (i \in 1..(k - 1) /\ i < k))
    BY <1>1
  <1>3. \A i \in 1..(k - 1) : i \in 1..k /\ i < k
    BY <1>1
  <1>4. c \notin done
    BY <1>c, <1>2, <1>3 DEF Offered
  <1>5. Candidates(done)
    BY DEF Offered
  <1>6. Follows(next, done, c)
    BY <1>c, <1>1, <1>4, <1>5, OfferFollows
  <1>7. Candidates(next)
    BY <1>6 DEF Follows
  <1>8. ASSUME NEW d \in next PROVE d \in top \/ \E i \in 1..k : page[i] = d
    <2>1. d \in done \/ d = c
      BY <1>6, <1>8 DEF Follows
    <2>2. k \in 1..k
      BY <1>1
    <2>3. d \in done => d \in top \/ \E i \in 1..(k - 1) : page[i] = d
      BY DEF Offered
    <2> QED
      BY <1>c, <1>3, <2>1, <2>2, <2>3
  <1>9. ASSUME NEW i \in 1..k PROVE Settled(next, page[i])
    <2>1. CASE i = k
      BY <1>c, <1>6, <2>1 DEF Follows
    <2>2. CASE i \in 1..(k - 1)
      <3>1. Settled(done, page[i]) /\ page[i] \in Chunks
        BY <1>1, <1>2, <2>2 DEF Offered
      <3> QED
        BY <1>6, <3>1 DEF Follows
    <2> QED
      BY <1>2, <2>1, <2>2
  <1>10. \A d \in Chunks : Settled(top, d) => Settled(next, d)
    BY <1>6 DEF Follows, Offered
  <1> QED
    BY <1>7, <1>8, <1>9, <1>10 DEF Offered

LEMMA BestExact ==
    ASSUME NEW top, Candidates(top), NEW page \in Seq(Chunks),
           \A i \in 1..Len(page) : page[i] \notin top,
           \A i, j \in 1..Len(page) : i < j => page[i] # page[j]
    PROVE  Offered(Best(top, page), top, page, Len(page))
  <1>n. PICK n : n = Len(page)
    OBVIOUS
  <1>1. n \in Nat /\ \A i \in 1..n : page[i] \in Chunks
    BY <1>n, LenProperties, ElementOfSeq
  <1>v. PICK V : V = SUBSET Chunks
    OBVIOUS
  <1>2. top \in V
    BY <1>v DEF Candidates, Scored
  <1>3. \A s \in V, c \in Chunks : Offer(s, c) \in V
    BY <1>v DEF Offer
  <1>g. PICK G : G = [p \in V \X ((0 + 1)..n) |-> Offer(p[1], page[p[2]])]
    OBVIOUS
  <1>4. G \in Stepping(0, n, V)
    <2>1. \A p \in V \X ((0 + 1)..n) : p[1] \in V /\ page[p[2]] \in Chunks
      BY <1>1
    <2>2. \A p \in V \X ((0 + 1)..n) : Offer(p[1], page[p[2]]) \in V
      BY <1>3, <2>1
    <2> QED
      BY <1>g, <2>2 DEF Stepping
  <1>5. PICK f \in [0..n -> V] : Iterates(f, 0, n, top, G)
    <2>1. 0 \in Int /\ n \in Int /\ 0 <= n
      BY <1>1
    <2> QED
      BY <1>2, <1>4, <2>1, RecursionExists
  <1>6. \A k \in 0..n : k # 0 => G[<<f[k - 1], k>>] = Offer(f[k - 1], page[k])
    <2> SUFFICES ASSUME NEW k \in 0..n, k # 0
                 PROVE  G[<<f[k - 1], k>>] = Offer(f[k - 1], page[k])
      OBVIOUS
    <2>1. k \in (0 + 1)..n /\ k - 1 \in 0..n
      BY <1>1
    <2>2. <<f[k - 1], k>> \in V \X ((0 + 1)..n)
      BY <2>1
    <2> QED
      BY <1>g, <2>2
  <1>7. f = [k \in 0..n |-> IF k = 0 THEN top ELSE Offer(f[k - 1], page[k])]
    BY <1>5, <1>6 DEF Iterates
  <1>b. PICK b : b = CHOOSE x : x = [k \in 0..n |-> IF k = 0 THEN top ELSE Offer(x[k - 1], page[k])]
    OBVIOUS
  <1>8. b = [k \in 0..n |-> IF k = 0 THEN top ELSE Offer(b[k - 1], page[k])]
    BY <1>b, <1>7
  <1>9. Best(top, page) = b[n]
    BY <1>b, <1>n DEF Best
  <1>10. Offered(top, top, page, 0)
    <2>1. 1..0 = {}
      OBVIOUS
    <2> QED
      BY <2>1 DEF Offered
  <1> DEFINE D == {k \in Nat : k \in 0..n /\ ~Offered(b[k], top, page, k)}
  <1>11. D = {}
    <2> SUFFICES ASSUME D # {} PROVE FALSE
      OBVIOUS
    <2>0. D \in SUBSET Nat
      OBVIOUS
    <2> HIDE DEF D
    <2>1. PICK k \in D : \A j \in D : k <= j
      BY <2>0, LeastNumber
    <2>2. k \in 0..n /\ ~Offered(b[k], top, page, k)
      BY <2>1 DEF D
    <2>3. k # 0
      BY <1>8, <1>10, <2>2
    <2>4. k - 1 \in 0..n /\ k - 1 \in Nat /\ ~(k <= k - 1) /\ k \in 1..n
      BY <1>1, <2>2, <2>3
    <2>5. k - 1 \notin D
      BY <2>1, <2>4
    <2>6. Offered(b[k - 1], top, page, k - 1)
      BY <2>4, <2>5 DEF D
    <2>7. b[k] = Offer(b[k - 1], page[k])
      BY <1>8, <2>2, <2>3
    <2> QED
      BY <1>n, <2>2, <2>4, <2>6, <2>7, OneMoreOffered
  <1>12. n \in Nat /\ n \in 0..n /\ n \notin D
    BY <1>1, <1>11
  <1>13. Offered(b[n], top, page, n)
    BY <1>12
  <1> QED
    BY <1>9, <1>13, <1>n

-----------------------------------------------------------------------------
(* The scan: a page.                                                       *)

\* The rows a scan has still to read.
Ahead(cursor, c) == cursor = None \/ InScanOrder(cursor, c)

LEMMA ScanPageExact ==
    ASSUME NEW t, Tables(t), NEW cursor, NEW filter,
           NEW page, page = ScanPage(t, cursor, filter)
    PROVE  /\ page \in Seq(Chunks) /\ Len(page) \in 0..PageSize
           /\ \A i \in 1..Len(page) : page[i] \in Chunks /\ Ahead(cursor, page[i])
           /\ \A i, j \in 1..Len(page) : i < j => InScanOrder(page[i], page[j])
           /\ K > 0 /\ Len(page) < PageSize =>
                \A c \in Scanned(t, filter) : Ahead(cursor, c) => \E i \in 1..Len(page) : page[i] = c
           /\ K > 0 /\ Len(page) = PageSize =>
                \A c \in Scanned(t, filter) : Ahead(cursor, c) =>
                    \/ \E i \in 1..Len(page) : page[i] = c
                    \/ InScanOrder(page[PageSize], c)
  <1>s. PICK S : S = {c \in Scanned(t, filter) : K > 0 /\ Ahead(cursor, c)}
    OBVIOUS
  <1>r. PICK R : R = {p \in S \X S : InScanOrder(p[1], p[2])}
    OBVIOUS
  <1>1. page = Page(S, R, PageSize)
    BY <1>s, <1>r DEF ScanPage, Ahead
  <1>2. S \in SUBSET Chunks
    BY <1>s DEF Scanned, Tables
  <1>3. IsFiniteSet(S) /\ TotalOrder(S, R) /\ PageSize \in Nat \ {0}
    BY <1>r, <1>2, ScanOrders, ChunkRows, FS_Subset, PagesAdvance
  <1>4. /\ page \in Seq(S) /\ Len(page) \in 0..PageSize
        /\ \A i, j \in 1..Len(page) : i < j => <<page[i], page[j]>> \in R
        /\ Len(page) < PageSize => \A x \in S : \E i \in 1..Len(page) : page[i] = x
        /\ Len(page) = PageSize => \A x \in S : \/ \E i \in 1..Len(page) : page[i] = x
                                                \/ <<page[PageSize], x>> \in R
    BY <1>1, <1>3, PageExact
  <1>5. page \in Seq(Chunks) /\ \A i \in 1..Len(page) : page[i] \in S
    BY <1>2, <1>4, SeqMonotonic, ElementOfSeq
  <1>6. \A x, y : <<x, y>> \in R => InScanOrder(x, y)
    BY <1>r
  <1> QED
    BY <1>s, <1>2, <1>4, <1>5, <1>6

-----------------------------------------------------------------------------
(* The scan: the inductive invariant.                                      *)

\* A scan before its next page: no candidate is ahead of the cursor, and what
\* stayed put is settled or still to come on either node.
Scanning(w) ==
    /\ Candidates(w.top)
    /\ w.stable \subseteq Scanned(db, w.filter) \cap Scanned(replica, w.filter)
    /\ w.cursor = None \/ w.cursor \in Chunks
    /\ \A c \in w.top : ~Ahead(w.cursor, c)
    /\ \A c \in w.stable : Settled(w.top, c) \/ Ahead(w.cursor, c)

Answered(w) ==
    \A c \in w.stable : Settled(w.top, c) \/ (w.truncated /\ InScanOrder(w.cursor, c))

ScanInv ==
    /\ ListInv
    /\ walk.pc = "scanning" => Scanning(walk)
    /\ walk.pc = "scanned" => Answered(walk)

LEMMA ScanContinues ==
    ASSUME ListInv, NEW w, Scanning(w), NEW t \in {db, replica},
           NEW page, page = ScanPage(t, w.cursor, w.filter),
           NEW top, top = Best(w.top, page),
           NEW read, read = IF page = <<>> THEN w.cursor ELSE page[Len(page)]
    PROVE  /\ Candidates(top)
           /\ Len(page) < PageSize => \A c \in w.stable : Settled(top, c)
           /\ Len(page) >= PageSize =>
                 /\ read \in Chunks
                 /\ \A c \in top : ~Ahead(read, c)
                 /\ \A c \in w.stable : Settled(top, c) \/ InScanOrder(read, c)
  <1>n. PICK n : n = Len(page)
    OBVIOUS
  <1>t. Tables(t)
    BY DEF ListInv
  <1>1. /\ page \in Seq(Chunks) /\ n \in 0..PageSize
        /\ \A i \in 1..n : page[i] \in Chunks /\ Ahead(w.cursor, page[i])
        /\ \A i, j \in 1..n : i < j => InScanOrder(page[i], page[j])
        /\ K > 0 /\ n < PageSize =>
             \A c \in Scanned(t, w.filter) : Ahead(w.cursor, c) => \E i \in 1..n : page[i] = c
        /\ K > 0 /\ n = PageSize =>
             \A c \in Scanned(t, w.filter) : Ahead(w.cursor, c) =>
                 \/ \E i \in 1..n : page[i] = c
                 \/ InScanOrder(page[PageSize], c)
    BY <1>n, <1>t, ScanPageExact
  <1>2. \A i \in 1..n : page[i] \notin w.top
    BY <1>1 DEF Scanning
  <1>3. \A i, j \in 1..n : i < j => page[i] # page[j]
    BY <1>1, ScanIrreflexive
  <1>4. Candidates(w.top)
    BY DEF Scanning
  <1>5. Offered(top, w.top, page, n)
    BY <1>n, <1>1, <1>2, <1>3, <1>4, BestExact
  <1>6. /\ Candidates(top)
        /\ \A c \in top : c \in w.top \/ \E i \in 1..n : page[i] = c
        /\ \A i \in 1..n : Settled(top, page[i])
        /\ \A d \in Chunks : Settled(w.top, d) => Settled(top, d)
    BY <1>5 DEF Offered
  <1>7. \A c \in w.stable : c \in Scanned(t, w.filter) /\ c \in Chunks
    BY <1>t DEF Scanning, Scanned, Tables
  <1>8. \A c \in w.stable : Settled(top, c) \/ (K > 0 /\ Ahead(w.cursor, c))
    <2>1. CASE K > 0
      BY <1>6, <1>7, <2>1 DEF Scanning
    <2>2. CASE ~(K > 0)
      <3>1. IsFiniteSet(top) /\ Cardinality(top) <= K
        BY <1>6 DEF Candidates
      <3>2. Cardinality(top) = 0 /\ K = 0
        BY <2>2, <3>1, FS_CardinalityType, PagesAdvance
      <3>3. top = {}
        BY <3>1, <3>2, FS_EmptySet
      <3> QED
        BY <3>2, <3>3 DEF Settled
    <2> QED
      BY <2>1, <2>2
  <1>9. CASE n < PageSize
    <2>1. \A c \in w.stable : Settled(top, c)
      BY <1>1, <1>6, <1>7, <1>8, <1>9
    <2>2. ~(n >= PageSize)
      BY <1>1, <1>9, PagesAdvance
    <2> QED
      BY <1>n, <1>6, <2>1, <2>2
  <1>10. CASE ~(n < PageSize)
    <2>1. n = PageSize /\ n \in Nat /\ n \in 1..n
      BY <1>1, <1>10, PagesAdvance
    <2>2. page # <<>>
      <3>1. n # 0
        BY <2>1
      <3> QED
        BY <1>n, <3>1, EmptySeq
    <2>3. read = page[n] /\ read \in Chunks /\ Ahead(w.cursor, read)
      BY <1>n, <1>1, <2>1, <2>2
    <2>4. read # None
      BY <2>3, NoneIsNoCursor
    <2>5. \A c \in w.stable : Settled(top, c) \/ InScanOrder(read, c)
      BY <1>1, <1>6, <1>7, <1>8, <2>1, <2>3
    <2>6. ASSUME NEW c \in top, InScanOrder(read, c) PROVE FALSE
      <3>1. CASE c \in w.top
        <4>1. ~Ahead(w.cursor, c)
          BY <3>1 DEF Scanning
        <4>2. w.cursor \in Chunks /\ InScanOrder(w.cursor, read)
          BY <2>3, <4>1 DEF Scanning, Ahead
        <4>3. c \in Chunks
          BY <1>6, <2>6 DEF Candidates, Scored
        <4>4. InScanOrder(w.cursor, c)
          BY <2>3, <2>6, <4>2, <4>3, ScanTransitive
        <4> QED
          BY <4>1, <4>4 DEF Ahead
      <3>2. ASSUME NEW i \in 1..n, page[i] = c PROVE FALSE
        <4>1. i = n \/ i < n
          BY <2>1
        <4>2. i < n => InScanOrder(c, read)
          BY <1>1, <2>1, <2>3, <3>2
        <4>3. c \in Chunks
          BY <1>1, <3>2
        <4> QED
          BY <2>3, <2>6, <3>2, <4>1, <4>2, <4>3, ScanIrreflexive
      <3> QED
        BY <1>6, <3>1, <3>2
    <2>7. \A c \in top : ~Ahead(read, c)
      BY <2>4, <2>6 DEF Ahead
    <2> QED
      BY <1>n, <1>6, <1>10, <2>3, <2>5, <2>7
  <1> QED
    BY <1>9, <1>10

\* The scan that a page belongs to: a new one, or the one under way.
LEMMA ScanReady ==
    ASSUME ScanInv, NEW f, NEW node, NEW w,
           w = IF AtRest THEN Started(f, node, Scanned(db, f) \cap Scanned(replica, f)) ELSE walk,
           AtRest \/ walk.pc = "scanning"
    PROVE  IsWalk(w) /\ Scanning(w)
  <1>1. CASE AtRest
    <2>1. /\ IsWalk(w) /\ w.filter = f /\ w.cursor = None /\ w.top = {}
          /\ w.stable = Scanned(db, f) \cap Scanned(replica, f)
      BY <1>1 DEF Started, NoWalk, IsWalk
    <2>2. Candidates({})
      BY FS_EmptySet, PagesAdvance DEF Candidates
    <2> QED
      BY <2>1, <2>2 DEF Scanning, Ahead
  <1>2. CASE ~AtRest
    BY <1>2 DEF ScanInv, ListInv
  <1> QED
    BY <1>1, <1>2

LEMMA ScanKeeps ==
    ASSUME ScanInv, ListInv', NEW node, NEW t \in {db, replica}, NEW f, Scan(node, t, f)
    PROVE  ScanInv'
  <1>w. PICK w : w = IF AtRest THEN Started(f, node, Scanned(db, f) \cap Scanned(replica, f)) ELSE walk
    OBVIOUS
  <1>p. PICK page : page = ScanPage(t, w.cursor, w.filter)
    OBVIOUS
  <1>r. PICK read : read = IF page = <<>> THEN w.cursor ELSE page[Len(page)]
    OBVIOUS
  <1>t. PICK top : top = Best(w.top, page)
    OBVIOUS
  <1>1. /\ AtRest \/ walk.pc = "scanning"
        /\ db' = db /\ replica' = replica
        /\ ScanMoves(w, page, read)
    BY <1>w, <1>p, <1>r, ScanStep
  <1>2. IsWalk(w) /\ Scanning(w)
    BY <1>w, <1>1, ScanReady
  <1>3. /\ Candidates(top)
        /\ Len(page) < PageSize => \A c \in w.stable : Settled(top, c)
        /\ Len(page) >= PageSize =>
              /\ read \in Chunks
              /\ \A c \in top : ~Ahead(read, c)
              /\ \A c \in w.stable : Settled(top, c) \/ InScanOrder(read, c)
    BY <1>p, <1>r, <1>t, <1>2, ScanContinues DEF ScanInv
  <1>4. PICK out \in BOOLEAN :
            /\ out => Len(page) >= PageSize
            /\ walk' = [w EXCEPT !.pc = IF Len(page) >= PageSize /\ ~out
                                       THEN "scanning" ELSE "scanned",
                                 !.cursor = read, !.top = top, !.truncated = out]
    BY <1>1, <1>t DEF ScanMoves
  <1>5. /\ walk'.pc = IF Len(page) >= PageSize /\ ~out THEN "scanning" ELSE "scanned"
        /\ walk'.filter = w.filter /\ walk'.cursor = read /\ walk'.top = top
        /\ walk'.truncated = out /\ walk'.stable = w.stable
    BY <1>2, <1>4 DEF IsWalk
  <1>6. ASSUME walk'.pc = "scanning" PROVE Scanning(walk)'
    <2>1. Len(page) >= PageSize
      BY <1>5, <1>6
    <2>2. /\ Candidates(top) /\ read \in Chunks
          /\ \A c \in top : ~Ahead(read, c)
          /\ \A c \in w.stable : Settled(top, c) \/ Ahead(read, c)
      BY <1>3, <2>1 DEF Ahead
    <2>3. w.stable \subseteq Scanned(db, w.filter) \cap Scanned(replica, w.filter)
      BY <1>2 DEF Scanning
    <2> QED
      BY <1>1, <1>5, <2>2, <2>3 DEF Scanning, Candidates, Scored, Settled, Ahead, Scanned
  <1>7. ASSUME walk'.pc = "scanned" PROVE Answered(walk)'
    <2>0. Len(page) \in Nat /\ PageSize \in Nat
      <3>1. Tables(t)
        BY DEF ScanInv, ListInv
      <3>2. page \in Seq(Chunks)
        BY <1>p, <3>1, ScanPageExact
      <3> QED
        BY <3>2, LenProperties, PagesAdvance
    <2>1. out \/ Len(page) < PageSize
      BY <1>5, <1>7, <2>0
    <2>2. \A c \in w.stable : Settled(top, c) \/ (out /\ InScanOrder(read, c))
      BY <1>3, <1>4, <2>1
    <2> QED
      BY <1>5, <2>2 DEF Answered, Settled
  <1> QED
    BY <1>6, <1>7 DEF ScanInv

\* A commit, or a batch of the log, leaves a scan where it was; what it changed
\* no longer counts as having stayed put.
LEMMA RememberKeeps ==
    ASSUME ScanInv, ListInv', NEW t, walk' = Remember(walk, t),
           {db', replica'} \subseteq {t, db, replica}
    PROVE  ScanInv'
  <1>1. CASE walk.pc = "scanning"
    <2>1. walk' = [walk EXCEPT !.stable = @ \cap Scanned(t, walk.filter)]
      BY <1>1 DEF Remember
    <2>2. /\ walk'.pc = "scanning" /\ walk'.filter = walk.filter
          /\ walk'.cursor = walk.cursor /\ walk'.top = walk.top
          /\ walk'.stable = walk.stable \cap Scanned(t, walk.filter)
      BY <1>1, <2>1 DEF ScanInv, ListInv, IsWalk
    <2>3. Scanning(walk)
      BY <1>1 DEF ScanInv
    <2>4. walk'.stable \subseteq Scanned(db', walk.filter) \cap Scanned(replica', walk.filter)
      <3>1. \A c \in walk'.stable : /\ c \in Scanned(t, walk.filter)
                                    /\ c \in Scanned(db, walk.filter)
                                    /\ c \in Scanned(replica, walk.filter)
        BY <2>2, <2>3 DEF Scanning
      <3> QED
        BY <3>1
    <2>5. Scanning(walk)'
      BY <2>2, <2>3, <2>4 DEF Scanning, Candidates, Scored, Settled, Ahead, Scanned
    <2> QED
      BY <2>2, <2>5 DEF ScanInv
  <1>2. CASE walk.pc # "scanning"
    <2>1. walk'.pc \notin {"scanning", "scanned"}
      <3>1. CASE walk.pc = "listing"
        <4>1. walk' = [walk EXCEPT !.stable = @ \cap Listed(t, walk.filter)]
          BY <3>1 DEF Remember
        <4> QED
          BY <3>1, <4>1 DEF ScanInv, ListInv, IsWalk
      <3>2. CASE walk.pc # "listing"
        <4>1. walk' = NoWalk
          BY <1>2, <3>2 DEF Remember
        <4> QED
          BY <4>1, NoWalkIsWalk
      <3> QED
        BY <3>1, <3>2
    <2> QED
      BY <2>1 DEF ScanInv
  <1> QED
    BY <1>1, <1>2

LEMMA ScanNext == ScanInv /\ [Next]_vars => ScanInv'
  <1> SUFFICES ASSUME ScanInv, [Next]_vars PROVE ScanInv'
    OBVIOUS
  <1>0. ListInv'
    BY ListNext DEF ScanInv
  <1>1. ASSUME NEW t, Commit(t) PROVE ScanInv'
    <2>1. walk' = Remember(walk, t) /\ {db', replica'} \subseteq {t, db, replica}
      BY <1>1 DEF Commit
    <2> QED
      BY <1>0, <2>1, RememberKeeps
  <1>2. ASSUME NEW m \in Memories, Capture(m) \/ Embed(m) \/ Expire(m) \/ Erase(m) PROVE ScanInv'
    <2>1. \E t : Commit(t)
      BY <1>2 DEF Capture, Embed, Expire, Erase, ChangeTo
    <2> QED
      BY <1>1, <2>1
  <1>3. ASSUME DropRevision PROVE ScanInv'
    BY <1>1, <1>3 DEF DropRevision
  <1>4. ASSUME Replicate PROVE ScanInv'
    <2>1. walk' = Remember(walk, db) /\ {db', replica'} \subseteq {db, replica}
      BY <1>4 DEF Replicate
    <2> QED
      BY <1>0, <2>1, RememberKeeps
  <1>5. ASSUME NEW f \in ListFilters, NEW t \in {db, replica}, List(t, f) PROVE ScanInv'
    <2>w. PICK w : w = IF AtRest THEN Started(f, None, Listed(db, f) \cap Listed(replica, f)) ELSE walk
      OBVIOUS
    <2>p. PICK page : page = ListPage(t, w.cursor, f)
      OBVIOUS
    <2>1. walk' = [w EXCEPT !.pc = IF Len(page) = Limit THEN "listing" ELSE "listed",
                            !.got = @ \o page,
                            !.cursor = IF Len(page) = Limit THEN Encode(page[Limit], f) ELSE None]
      BY <1>5, <2>w, <2>p DEF List
    <2>2. IsWalk(w)
      BY <2>w DEF ScanInv, ListInv, Started, NoWalk, IsWalk
    <2>3. walk'.pc \in {"listing", "listed"}
      BY <2>1, <2>2 DEF IsWalk
    <2> QED
      BY <1>0, <2>3 DEF ScanInv
  <1>6. ASSUME NEW f \in ScanFilters, Scan("current", db, f) \/ Scan("lagging", replica, f)
        PROVE  ScanInv'
    BY <1>0, <1>6, ScanKeeps
  <1>7. CASE UNCHANGED vars
    <2>1. db' = db /\ replica' = replica /\ walk' = walk
      BY <1>7 DEF vars
    <2> QED
      BY <1>0, <2>1 DEF ScanInv, Scanning, Answered, Candidates, Scored, Settled, Ahead, Scanned
  <1> QED
    BY <1>2, <1>3, <1>4, <1>5, <1>6, <1>7 DEF Next

LEMMA ScanStarts == Init => ScanInv
  BY ListStarts, NoWalkIsWalk DEF Init, ScanInv

\* A scan that ran to its end, or says where it stopped, holds the exact best K
\* of what stayed put (scan.rs, scan_rows), for every page size, K,
\* score and interleaving with captures, embeddings, expiries and erasures.
THEOREM ScanExact == Spec => []ScanIsExact
  <1>1. ScanInv => ScanIsExact
    BY DEF ScanInv, Answered, Settled, ScanIsExact
  <1> QED
    BY <1>1, ScanStarts, ScanNext, PTL DEF Spec

=============================================================================
