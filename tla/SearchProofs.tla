---------------------------- MODULE SearchProofs ----------------------------
(***************************************************************************)
(* What a client that reads page after page gets, for every number of      *)
(* aggregates, table, request and number of writes: while nothing is       *)
(* written its pages are the rows in their order, and while rows are only  *)
(* created none is hidden from it.                                         *)
(*                                                                         *)
(* A row's place is the number of matching rows that come before it.       *)
(* Where the order leaves no choice, a page has at its n-th position the   *)
(* row whose place is offset + n - 1.  A row that is created can only move *)
(* others to later places, so what has been passed stays passed.           *)
(*                                                                         *)
(* And what one search key finds: where there is a single alternative, the *)
(* anchors of its regular expression make the prefix, the suffix and the   *)
(* exact match that the parameter's description promises.                  *)
(***************************************************************************)
EXTENDS Search, SequenceTheorems, FiniteSetTheorems, FunctionTheorems, TLAPS

TableType == [Ids -> Rows \cup {None}]

\* No two rows were created at the same time.
Untied(t) ==
    \A a, b \in Ids : t[a] # None /\ t[b] # None /\ a # b => t[a].created_at # t[b].created_at

\* b comes before a.
Before(t, s, b, a) ==
    IF Head(OrderBy(s)).order = "-" THEN t[b].created_at > t[a].created_at
    ELSE t[b].created_at < t[a].created_at

Earlier(t, s, a) == {b \in Matching(t, s) : Before(t, s, b, a)}
Place(t, s, a) == Cardinality(Earlier(t, s, a))

Typed == TypeOK /\ search \in Searches /\ first \in TableType

\* The total is of the table as it is, if that has not changed.
Counted == written = {} /\ pc # "count" => total = Cardinality(Matching(table, search))

\* Every page but the last is as long as was asked for, and on a quiet table no
\* page begins after the end.
PagesAreFull ==
    /\ pc # "end" => Len(pages) = offset
    /\ written = {} => Len(pages) <= Cardinality(Matching(table, search))
    /\ written = {} /\ pc = "end" => Len(pages) >= Cardinality(Matching(table, search))

\* On a quiet table the pages have the rows by place.
PagesAreRanked ==
    written = {} /\ Ordered(table) =>
        \A n \in 1 .. Len(pages) :
            pages[n] \in Matching(table, search) /\ Place(table, search, pages[n]) = n - 1

\* On a table that only grows, the rows of the beginning are as they were.
Kept ==
    written \subseteq {"insert"} =>
        \A id \in Ids : first[id] # None => table[id] = first[id]

\* What is now in a place before the offset has been read.
Passed ==
    written \subseteq {"insert"} /\ Ordered(table) =>
        \A a \in Matching(first, search) :
            pc = "end" \/ Place(table, search, a) < offset => a \in ToSet(pages)

SearchInvariant == Typed /\ Counted /\ PagesAreFull /\ PagesAreRanked /\ Kept /\ Passed

-----------------------------------------------------------------------------
(* The statements *)

\* Sets whose elements match one to one have as many.
LEMMA Matched ==
    ASSUME NEW S, NEW T, IsFiniteSet(S), NEW f \in [S -> T],
           \A a, b \in S : f[a] = f[b] => a = b, \A t \in T : \E s \in S : f[s] = t
    PROVE  IsFiniteSet(T) /\ Cardinality(T) = Cardinality(S)
  <1>1. f \in Bijection(S, T)
    BY Fun_IsBij
  <1> QED BY <1>1, FS_Bijection DEF ExistsBijection

\* A page is the part of the rows from the offset, to the limit or to the end.
LEMMA SliceIs ==
    ASSUME NEW s, s.limit \in Nat, NEW off \in Nat, NEW ids \in Seq(Ids)
    PROVE  LET page == Slice(s, off, ids) IN
           /\ page \in Seq(Ids) /\ Len(page) \in Nat
           /\ \A n \in 1 .. Len(page) : off + n \in 1 .. Len(ids) /\ page[n] = ids[off + n]
           /\ s.limit > 0 => Len(page) <= s.limit
           /\ (s.limit > 0 /\ Len(page) = s.limit) \/ off + Len(page) >= Len(ids)
  <1> DEFINE rest == SubSeq(ids, off + 1, Len(ids))
             short == SubSeq(rest, 1, s.limit)
             part == Slice(s, off, ids)
  <1>1. /\ rest \in Seq(Ids)
        /\ Len(rest) = IF off + 1 <= Len(ids) THEN Len(ids) - off ELSE 0
        /\ \A n \in 1 .. Len(ids) - off : rest[n] = ids[off + n]
    <2> QED OBVIOUS
  <1> HIDE DEF rest
  <1>3. CASE s.limit > 0 /\ s.limit < Len(rest)
    <2>1. \A n \in 1 .. s.limit : rest[n] \in Ids
      BY <1>1, <1>3
    <2>2. /\ short \in Seq(Ids)
          /\ Len(short) = IF 1 <= s.limit THEN s.limit - 1 + 1 ELSE 0
          /\ \A n \in 1 .. s.limit - 1 + 1 : short[n] = rest[1 + n - 1]
      BY <2>1
    <2>3. part = short
      BY <1>3 DEF Slice, rest
    <2> HIDE DEF short, part
    <2>4. /\ part \in Seq(Ids) /\ Len(part) = s.limit
          /\ \A n \in 1 .. s.limit : part[n] = rest[n]
      BY <2>2, <2>3
    <2>5. /\ part \in Seq(Ids) /\ Len(part) \in Nat
          /\ \A n \in 1 .. Len(part) : off + n \in 1 .. Len(ids) /\ part[n] = ids[off + n]
          /\ s.limit > 0 => Len(part) <= s.limit
          /\ (s.limit > 0 /\ Len(part) = s.limit) \/ off + Len(part) >= Len(ids)
      BY <1>1, <1>3, <2>4
    <2> QED BY <2>5 DEF part
  <1>4. CASE ~(s.limit > 0 /\ s.limit < Len(rest))
    <2>1. part = rest
      BY <1>4 DEF Slice, rest
    <2> HIDE DEF part
    <2>2. /\ part \in Seq(Ids) /\ Len(part) \in Nat
          /\ \A n \in 1 .. Len(part) : off + n \in 1 .. Len(ids) /\ part[n] = ids[off + n]
          /\ s.limit > 0 => Len(part) <= s.limit
          /\ (s.limit > 0 /\ Len(part) = s.limit) \/ off + Len(part) >= Len(ids)
      BY <1>1, <1>4, <2>1
    <2> QED BY <2>2 DEF part
  <1> QED BY <1>3, <1>4

\* There are finitely many matching rows.
LEMMA MatchingIsFinite ==
    ASSUME NEW t, NEW s
    PROVE  /\ Matching(t, s) \subseteq Ids /\ IsFiniteSet(Matching(t, s))
           /\ Cardinality(Matching(t, s)) \in 0 .. Cardinality(Ids)
  <1>1. Matching(t, s) \subseteq Ids
    BY DEF Matching
  <1>2. IsFiniteSet(Matching(t, s)) /\ Cardinality(Matching(t, s)) <= Cardinality(Ids)
    BY <1>1, IdsAssumption, FS_Subset
  <1>3. Cardinality(Matching(t, s)) \in Nat /\ Cardinality(Ids) \in Nat
    BY <1>2, IdsAssumption, FS_CardinalityType
  <1> QED BY <1>1, <1>2, <1>3

LEMMA PlaceIsNat == ASSUME NEW t, NEW s, NEW a PROVE Place(t, s, a) \in Nat
  <1>1. Earlier(t, s, a) \subseteq Matching(t, s)
    BY DEF Earlier
  <1>2. IsFiniteSet(Earlier(t, s, a))
    BY <1>1, MatchingIsFinite, FS_Subset
  <1> QED BY <1>2, FS_CardinalityType DEF Place

\* What the statement may return has each matching row once.
LEMMA ListIs ==
    ASSUME NEW t, NEW s, NEW ids \in SetToSeqs(Matching(t, s))
    PROVE  /\ ids \in Seq(Ids) /\ Len(ids) = Cardinality(Matching(t, s)) /\ Len(ids) \in Nat
           /\ \A n \in 1 .. Len(ids) : ids[n] \in Matching(t, s)
           /\ \A m, n \in 1 .. Len(ids) : m # n => ids[m] # ids[n]
           /\ \A a \in Matching(t, s) : \E n \in 1 .. Len(ids) : ids[n] = a
  <1> DEFINE M == Matching(t, s)
             N == Cardinality(M)
  <1>1. M \subseteq Ids /\ IsFiniteSet(M) /\ N \in Nat
    BY MatchingIsFinite
  <1>2. ids \in [1 .. N -> M] /\ \A m, n \in 1 .. N : m # n => ids[m] # ids[n]
    BY DEF SetToSeqs
  <1> HIDE DEF M, N
  <1>3. ids \in Injection(1 .. N, M)
    BY <1>2, Fun_IsInj
  <1>4. Cardinality(1 .. N) = N
    BY <1>1, FS_Interval
  <1>5. N = Cardinality(M)
    BY DEF N
  <1>6. ids \in Surjection(1 .. N, M)
    BY <1>1, <1>3, <1>4, <1>5, FS_Injection
  <1>7. ids \in Seq(Ids) /\ Len(ids) = N
    BY <1>1, <1>2
  <1>8. \A a \in M : \E n \in 1 .. N : ids[n] = a
    BY <1>6 DEF Surjection
  <1> QED BY <1>2, <1>5, <1>7, <1>8 DEF M

\* The order that was asked for is the one the statement has.
LEMMA OrderIsAsked ==
    ASSUME NEW t, Ordered(t)
    PROVE  OrderBy(search) # <<>> /\ Untied(t)
  <1>1. CreateSortByExp(search.sort_by) # <<>>
    BY DEF Ordered, CreateSortByExp, Known
  <1> QED BY <1>1 DEF OrderBy, Ordered, Untied

\* Where the order leaves no choice, a row's place is the one it is returned in.
LEMMA PlaceInList ==
    ASSUME NEW t \in TableType, Untied(t), NEW s, OrderBy(s) # <<>>,
           NEW ids \in SetToSeqs(Matching(t, s)), InOrder(t, OrderBy(s), ids),
           NEW n \in 1 .. Len(ids)
    PROVE  Place(t, s, ids[n]) = n - 1
  <1> DEFINE M == Matching(t, s)
             E == Earlier(t, s, ids[n])
             C(a) == t[a].created_at
             f == [m \in 1 .. n - 1 |-> ids[m]]
  <1>1. /\ Len(ids) \in Nat /\ DOMAIN ids = 1 .. Len(ids)
        /\ \A m \in 1 .. Len(ids) : ids[m] \in M
        /\ \A k, m \in 1 .. Len(ids) : k # m => ids[k] # ids[m]
        /\ \A a \in M : \E m \in 1 .. Len(ids) : ids[m] = a
    BY ListIs
  <1>2. \A a \in M : a \in Ids /\ t[a] # None /\ C(a) \in Int
    BY RowsAssumption DEF Matching, TableType
  <1>3. \A a, b \in M : a # b => C(a) # C(b)
    BY <1>2 DEF Untied
  <1>5. \A m \in 1 .. Len(ids) : Before(t, s, ids[m], ids[n]) <=> m < n
    <2>1. CASE Head(OrderBy(s)).order = "-"
      <3>1. \A k, m \in 1 .. Len(ids) : k < m => C(ids[k]) >= C(ids[m])
        BY <2>1 DEF InOrder
      <3>2. \A k, m \in 1 .. Len(ids) : k < m => C(ids[k]) > C(ids[m])
        BY <1>1, <1>2, <1>3, <3>1
      <3>3. \A m \in 1 .. Len(ids) : C(ids[m]) > C(ids[n]) <=> m < n
        BY <1>1, <1>2, <3>2
      <3> QED BY <2>1, <3>3 DEF Before
    <2>2. CASE Head(OrderBy(s)).order # "-"
      <3>1. \A k, m \in 1 .. Len(ids) : k < m => C(ids[k]) <= C(ids[m])
        BY <2>2 DEF InOrder
      <3>2. \A k, m \in 1 .. Len(ids) : k < m => C(ids[k]) < C(ids[m])
        BY <1>1, <1>2, <1>3, <3>1
      <3>3. \A m \in 1 .. Len(ids) : C(ids[m]) < C(ids[n]) <=> m < n
        BY <1>1, <1>2, <3>2
      <3> QED BY <2>2, <3>3 DEF Before
    <2> QED BY <2>1, <2>2
  <1>6. \A a : a \in E <=> a \in M /\ Before(t, s, a, ids[n])
    BY DEF Earlier
  <1> HIDE DEF M, E
  <1>8. f \in [1 .. n - 1 -> E]
    BY <1>1, <1>5, <1>6
  <1>9. \A a, b \in 1 .. n - 1 : f[a] = f[b] => a = b
    BY <1>1
  <1>10. \A e \in E : \E m \in 1 .. n - 1 : f[m] = e
    BY <1>1, <1>5, <1>6
  <1>11. IsFiniteSet(1 .. n - 1) /\ Cardinality(1 .. n - 1) = n - 1
    BY FS_Interval
  <1> DEFINE D == 1 .. n - 1
  <1>12. /\ IsFiniteSet(D) /\ Cardinality(D) = n - 1 /\ f \in [D -> E]
         /\ \A a, b \in D : f[a] = f[b] => a = b
         /\ \A e \in E : \E m \in D : f[m] = e
    BY <1>8, <1>9, <1>10, <1>11
  <1> HIDE DEF f, D
  <1>13. Cardinality(E) = Cardinality(D)
    BY <1>12, Matched
  <1> QED BY <1>12, <1>13 DEF E, Place

\* Rows that were created, and nothing else: they only move others to later
\* places, and an order that leaves no choice now left none before.
LEMMA Growth ==
    ASSUME NEW t \in TableType, NEW u \in TableType, \A id \in Ids : t[id] # None => u[id] = t[id],
           Ordered(u)
    PROVE  /\ Ordered(t)
           /\ \A a \in Matching(t, search) :
                a \in Matching(u, search) /\ Place(t, search, a) <= Place(u, search, a)
  <1>1. Ordered(t)
    BY DEF Ordered
  <1>2. Matching(t, search) \subseteq Matching(u, search)
    BY DEF Matching
  <1>3. ASSUME NEW a \in Matching(t, search)
        PROVE  Place(t, search, a) <= Place(u, search, a)
    <2>1. \A b \in Matching(t, search) : b \in Ids /\ t[b] # None /\ u[b] = t[b]
      BY DEF Matching
    <2>2. Earlier(t, search, a) \subseteq Earlier(u, search, a)
      BY <1>2, <2>1 DEF Earlier, Before
    <2>3. IsFiniteSet(Earlier(u, search, a))
      BY MatchingIsFinite, FS_Subset DEF Earlier
    <2> QED BY <2>2, <2>3, FS_Subset DEF Place
  <1> QED BY <1>1, <1>2, <1>3

-----------------------------------------------------------------------------
(* The steps *)

LEMMA InitHolds == Init => SearchInvariant
  <1> SUFFICES ASSUME Init PROVE SearchInvariant
    OBVIOUS
  <1>1. table \in TableType /\ first \in TableType
    BY TablesAssumption DEF Init, TableType
  <1>2. Cardinality(Ids) \in Nat /\ Cardinality(Matching(table, search)) \in Nat
    BY MatchingIsFinite, IdsAssumption, FS_CardinalityType
  <1>3. search \in Searches /\ search.limit \in Nat
    BY SearchesAssumption DEF Init, SearchRequest
  <1>4. Typed
    BY <1>1, <1>2, <1>3 DEF Init, Typed, TypeOK, TableType
  <1>5. Counted /\ PagesAreRanked /\ PagesAreFull /\ Kept
    BY <1>2 DEF Init, Counted, PagesAreRanked, PagesAreFull, Kept
  <1>6. Passed
    <2>1. ASSUME NEW a \in Matching(first, search) PROVE ~(Place(table, search, a) < 0)
      BY MatchingIsFinite, FS_Subset, FS_CardinalityType DEF Place, Earlier
    <2> QED BY <2>1 DEF Init, Passed
  <1> QED BY <1>4, <1>5, <1>6 DEF SearchInvariant

LEMMA CountKeeps == SearchInvariant /\ Count => SearchInvariant'
  <1> SUFFICES ASSUME SearchInvariant, Count PROVE SearchInvariant'
    OBVIOUS
  <1>1. Typed'
    BY MatchingIsFinite DEF SearchInvariant, Count, Typed, TypeOK
  <1>2. Counted' /\ PagesAreRanked' /\ PagesAreFull' /\ Kept'
    BY DEF SearchInvariant, Count, Counted, PagesAreRanked, PagesAreFull, Kept, Ordered
  <1>3. Passed'
    BY DEF SearchInvariant, Count, Passed, Ordered
  <1> QED BY <1>1, <1>2, <1>3 DEF SearchInvariant

LEMMA PageKeeps == SearchInvariant /\ Page => SearchInvariant'
  <1> SUFFICES ASSUME SearchInvariant, Page PROVE SearchInvariant'
    OBVIOUS
  <1> DEFINE M == Matching(table, search)
  <1>1. PICK ids \in SetToSeqs(M) :
            /\ InOrder(table, OrderBy(search), ids)
            /\ LET page == Slice(search, offset, ids)
                   more == search.limit > 0 /\ Len(page) = search.limit
               IN /\ results' = [n \in DOMAIN page |-> <<page[n], table[page[n]]>>]
                  /\ pages' = pages \o page
                  /\ pc' = IF more THEN "count" ELSE "end"
                  /\ offset' = IF more THEN offset + search.limit ELSE offset
    BY DEF Page
  <1> DEFINE page == Slice(search, offset, ids)
             more == search.limit > 0 /\ Len(page) = search.limit
  <1>2. /\ pc = "page"
        /\ UNCHANGED <<table, search, total, first, written>>
    BY DEF Page
  <1>3. /\ results' = [n \in DOMAIN page |-> <<page[n], table[page[n]]>>]
        /\ pages' = pages \o page
        /\ more => pc' = "count" /\ offset' = offset + search.limit
        /\ ~more => pc' = "end" /\ offset' = offset
    BY <1>1
  <1>4. /\ table \in TableType /\ offset \in Nat /\ pages \in Seq(Ids)
        /\ search \in Searches /\ search.limit \in Nat
        /\ Len(pages) = offset
    BY <1>2, SearchesAssumption DEF SearchInvariant, Typed, TypeOK, TableType, SearchRequest, PagesAreFull
  <1>5. /\ ids \in Seq(Ids) /\ Len(ids) = Cardinality(M) /\ Len(ids) \in Nat
        /\ \A n \in 1 .. Len(ids) : ids[n] \in M
        /\ \A a \in M : \E n \in 1 .. Len(ids) : ids[n] = a
    BY ListIs
  <1>6. /\ page \in Seq(Ids) /\ Len(page) \in Nat
        /\ \A n \in 1 .. Len(page) : offset + n \in 1 .. Len(ids) /\ page[n] = ids[offset + n]
        /\ search.limit > 0 => Len(page) <= search.limit
        /\ more \/ offset + Len(page) >= Len(ids)
    BY <1>4, <1>5, SliceIs
  <1> HIDE DEF page
  <1>7. /\ pages' \in Seq(Ids) /\ Len(pages') = offset + Len(page)
        /\ \A n \in 1 .. offset + Len(page) :
            pages'[n] = IF n <= offset THEN pages[n] ELSE page[n - offset]
    BY <1>3, <1>4, <1>6, ConcatProperties
  <1>8. \A n \in 1 .. offset + Len(page) : n > offset => pages'[n] = ids[n] /\ n \in 1 .. Len(ids)
    <2>1. ASSUME NEW n \in 1 .. offset + Len(page), n > offset
          PROVE  pages'[n] = ids[n] /\ n \in 1 .. Len(ids)
      <3>1. n - offset \in 1 .. Len(page) /\ offset + (n - offset) = n
        BY <1>4, <2>1
      <3> QED BY <1>4, <1>6, <1>7, <3>1
    <2> QED BY <2>1
  <1>9. Typed'
    <2>1. /\ DOMAIN results' = 1 .. Len(page)
          /\ \A n \in DOMAIN results' : results'[n] = <<page[n], table[page[n]]>>
      BY <1>3
    <2>2. \A n \in 1 .. Len(page) : page[n] \in Ids /\ table[page[n]] \in Rows
      <3>1. \A a \in M : a \in Ids /\ table[a] # None
        BY DEF Matching
      <3> QED BY <1>4, <1>5, <1>6, <3>1 DEF TableType
    <2>3. Len(results') = Len(page)
      BY <2>1
    <2>4. offset' \in Nat /\ pc' \in {"count", "page", "end"}
      BY <1>3, <1>4
    <2>5. ASSUME NEW n \in DOMAIN results' PROVE results'[n] \in Ids \X Rows
      <3>1. page[n] \in Ids /\ table[page[n]] \in Rows /\ results'[n] = <<page[n], table[page[n]]>>
        BY <2>1, <2>2
      <3> QED BY <3>1
    <2>6. search'.limit > 0 => Len(results') <= search'.limit
      BY <1>2, <1>6, <2>3
    <2> QED BY <1>2, <1>7, <2>4, <2>5, <2>6 DEF SearchInvariant, Typed, TypeOK
  <1>10. Counted'
    BY <1>2 DEF SearchInvariant, Counted
  <1>11. PagesAreFull'
    <2>1. Len(page) = 0 \/ offset + Len(page) <= Len(ids)
      BY <1>6
    <2>2. written = {} => offset <= Len(ids)
      BY <1>4, <1>5 DEF SearchInvariant, PagesAreFull
    <2>3. pc' # "end" => Len(pages') = offset'
      BY <1>3, <1>7
    <2>4. written = {} => Len(pages') <= Len(ids)
      BY <1>4, <1>7, <2>1, <2>2
    <2>5. pc' = "end" => Len(pages') >= Len(ids)
      BY <1>3, <1>6, <1>7
    <2> QED BY <1>2, <1>5, <2>3, <2>4, <2>5 DEF PagesAreFull
  <1>12. Ordered(table) =>
            \A n \in 1 .. Len(ids) : Place(table, search, ids[n]) = n - 1
    BY <1>1, <1>4, OrderIsAsked, PlaceInList
  <1>13. PagesAreRanked'
    <2> SUFFICES ASSUME written = {}, Ordered(table), NEW n \in 1 .. offset + Len(page)
                 PROVE  pages'[n] \in M /\ Place(table, search, pages'[n]) = n - 1
      BY <1>2, <1>7 DEF PagesAreRanked, Ordered
    <2>1. CASE n <= offset
      <3>1. n \in 1 .. Len(pages) /\ pages'[n] = pages[n]
        BY <1>4, <1>7, <2>1
      <3> QED BY <3>1 DEF SearchInvariant, PagesAreRanked
    <2>2. CASE n > offset
      BY <1>5, <1>8, <1>12, <2>2
    <2> QED BY <1>4, <2>1, <2>2
  <1>14. Kept'
    BY <1>2 DEF SearchInvariant, Kept
  <1>15. Passed'
    <2> SUFFICES ASSUME written \subseteq {"insert"}, Ordered(table), NEW a \in Matching(first, search),
                        pc' = "end" \/ Place(table, search, a) < offset'
                 PROVE  a \in ToSet(pages')
      BY <1>2 DEF Passed, Ordered
    <2>1. a \in M
      BY DEF SearchInvariant, Kept, Matching
    <2>2. PICK n \in 1 .. Len(ids) : ids[n] = a
      BY <1>5, <2>1
    <2>3. Place(table, search, a) = n - 1
      BY <1>12, <2>2
    <2>4. n <= offset + Len(page)
      BY <1>3, <1>4, <1>6, <2>3
    <2>5. CASE n <= offset
      <3>1. a \in ToSet(pages)
        BY <1>4, <2>3, <2>5 DEF SearchInvariant, Passed
      <3>2. PICK k \in 1 .. offset : pages[k] = a
        BY <1>4, <3>1 DEF ToSet
      <3>3. k \in 1 .. Len(pages') /\ pages'[k] = a
        BY <1>4, <1>7, <3>2
      <3> QED BY <3>3 DEF ToSet
    <2>6. CASE n > offset
      <3>1. n \in 1 .. Len(pages') /\ pages'[n] = a
        BY <1>7, <1>8, <2>2, <2>4, <2>6
      <3> QED BY <3>1 DEF ToSet
    <2> QED BY <1>4, <2>5, <2>6
  <1> QED BY <1>9, <1>10, <1>11, <1>13, <1>14, <1>15 DEF SearchInvariant

LEMMA WriteKeeps == SearchInvariant /\ Write => SearchInvariant'
  <1> SUFFICES ASSUME SearchInvariant, Write PROVE SearchInvariant'
    OBVIOUS
  <1>1. PICK id \in Ids, row \in Rows \cup {None} :
            /\ row # table[id]
            /\ table' = [table EXCEPT ![id] = row]
            /\ written' = written \cup {CASE table[id] = None -> "insert"
                                          [] row = None -> "delete"
                                          [] OTHER -> "update"}
    BY DEF Write
  <1>2. pc # "end" /\ UNCHANGED <<search, pc, offset, total, results, pages, first>>
    BY DEF Write, client
  <1>3. written' # {}
    BY <1>1
  <1>4. table \in TableType /\ table' \in TableType
    BY <1>1 DEF SearchInvariant, Typed, TypeOK, TableType
  <1>5. Typed'
    BY <1>2, <1>4 DEF SearchInvariant, Typed, TypeOK, TableType
  <1>6. Counted' /\ PagesAreRanked' /\ PagesAreFull'
    BY <1>2, <1>3 DEF SearchInvariant, Counted, PagesAreRanked, PagesAreFull
  <1>7. written' \subseteq {"insert"} =>
            written \subseteq {"insert"} /\ \A a \in Ids : table[a] # None => table'[a] = table[a]
    <2>1. CASE table[id] = None
      BY <1>1
    <2>2. CASE table[id] # None
      <3>1. "delete" \in written' \/ "update" \in written'
        BY <1>1, <2>2
      <3> QED BY <3>1
    <2> QED BY <2>1, <2>2
  <1>8. Kept'
    BY <1>2, <1>7 DEF SearchInvariant, Kept
  <1>9. Passed'
    <2> SUFFICES ASSUME written' \subseteq {"insert"}, Ordered(table)',
                        NEW a \in Matching(first, search), Place(table', search, a) < offset
                 PROVE  a \in ToSet(pages)
      BY <1>2 DEF Passed
    <2>1. Ordered(table')
      BY <1>2 DEF Ordered
    <2>2. a \in Matching(table, search)
      BY <1>7 DEF SearchInvariant, Kept, Matching
    <2>3. Ordered(table) /\ Place(table, search, a) <= Place(table', search, a)
      BY <1>4, <1>7, <2>1, <2>2, Growth
    <2>4. Place(table, search, a) \in Nat /\ Place(table', search, a) \in Nat /\ offset \in Nat
      BY PlaceIsNat DEF SearchInvariant, Typed, TypeOK
    <2> QED BY <1>7, <2>3, <2>4 DEF SearchInvariant, Passed
  <1> QED BY <1>5, <1>6, <1>8, <1>9 DEF SearchInvariant

-----------------------------------------------------------------------------

THEOREM SearchInvariantHolds == Spec => []SearchInvariant
  <1>1. SearchInvariant /\ [Next]_vars => SearchInvariant'
    <2> SUFFICES ASSUME SearchInvariant, [Next]_vars PROVE SearchInvariant'
      OBVIOUS
    <2>1. CASE Count
      BY <2>1, CountKeeps
    <2>2. CASE Page
      BY <2>2, PageKeeps
    <2>3. CASE Write
      BY <2>3, WriteKeeps
    <2>4. CASE UNCHANGED vars
      BY <2>4 DEF vars, client, SearchInvariant, Typed, TypeOK, Counted, PagesAreFull, PagesAreRanked,
                  Kept, Passed, Ordered
    <2> QED BY <2>1, <2>2, <2>3, <2>4 DEF Next, AllOver
  <1> QED BY <1>1, InitHolds, PTL DEF Spec

\* Types, and no page longer than was asked for: OFFSET and LIMIT in _search.
THEOREM SearchTypeCorrect == Spec => []TypeOK
  <1>1. SearchInvariant => TypeOK
    BY DEF SearchInvariant, Typed
  <1> QED BY <1>1, SearchInvariantHolds, PTL

\* While nothing is written, a client that asks for an order without ties gets
\* every matching row once, and a total that says how many, from the separate
\* count and page statements of _search.
THEOREM QuietPagesAlwaysComplete == Spec => []QuietPagesAreComplete
  <1>1. SearchInvariant => QuietPagesAreComplete
    <2> SUFFICES ASSUME SearchInvariant, pc = "end", written = {}, Ordered(table)
                 PROVE  ToSet(pages) = Matching(table, search) /\ Len(pages) = total
      BY DEF QuietPagesAreComplete
    <2> DEFINE M == Matching(table, search)
               N == Cardinality(M)
               D == 1 .. N
    <2>1. IsFiniteSet(M) /\ N \in Nat
      BY MatchingIsFinite
    <2>2. pages \in Seq(Ids) /\ Len(pages) = N /\ N = total /\ DOMAIN pages = D
      BY DEF SearchInvariant, Typed, TypeOK, PagesAreFull, Counted
    <2>3. \A n \in D : pages[n] \in M /\ Place(table, search, pages[n]) = n - 1
      BY <2>2 DEF SearchInvariant, PagesAreRanked
    <2>4. IsFiniteSet(D) /\ Cardinality(D) = N
      BY <2>1, FS_Interval
    <2>5. pages \in [D -> M] /\ \A a, b \in D : pages[a] = pages[b] => a = b
      BY <2>2, <2>3
    <2>6. N = Cardinality(M)
      OBVIOUS
    <2> HIDE DEF D, M, N
    <2>7. pages \in Surjection(D, M)
      BY <2>1, <2>4, <2>5, <2>6, Fun_IsInj, FS_Injection
    <2>8. ToSet(pages) = M
      BY <2>7 DEF ToSet, Surjection
    <2> QED BY <2>2, <2>8 DEF M
  <1> QED BY <1>1, SearchInvariantHolds, PTL

\* Rows that other requests create between two pages hide none of the others,
\* wherever in the order they come in.
THEOREM InsertsNeverHide == Spec => []InsertsHideNothing
  <1>1. SearchInvariant => InsertsHideNothing
    BY DEF SearchInvariant, Passed, InsertsHideNothing
  <1> QED BY <1>1, SearchInvariantHolds, PTL

-----------------------------------------------------------------------------
(* One search key means what its field's description says *)

\* The requests and rows that the descriptions are about: a key is given with
\* the fields to look for it in, and they and the date field are ones that the
\* repository knows.
Described(Chars) ==
    /\ \A row \in Rows : row.value \in Seq(Chars)
    /\ \A s \in Searches :
        /\ s.search_keys \in Seq(Seq(Chars))
        /\ s.search_keys # <<>> => s.search_key_fields # {}
        /\ \A f \in s.search_key_fields : f.field \in SearchKeyFields
        /\ s.date_fields \subseteq {"created_at"}

LEMMA PartIs ==
    ASSUME NEW S, NEW v \in Seq(S), NEW k \in Nat, NEW n \in Nat, k + n <= Len(v)
    PROVE  /\ SubSeq(v, k + 1, k + n) \in Seq(S) /\ Len(SubSeq(v, k + 1, k + n)) = n
           /\ \A i \in 1 .. n : SubSeq(v, k + 1, k + n)[i] = v[k + i]
  <1> DEFINE part == SubSeq(v, k + 1, k + n)
  <1> HIDE DEF part
  <1> QED OBVIOUS

LEMMA FoundWhere ==
    ASSUME NEW S, NEW key \in Seq(S), NEW v \in Seq(S), NEW k \in 0 .. Len(v) - Len(key)
    PROVE  FoundAt(key, v, k) <=> \A i \in 1 .. Len(key) : v[k + i] = key[i]
  <1>1. Len(key) \in Nat /\ Len(v) \in Nat /\ k \in Nat /\ k + Len(key) <= Len(v)
    BY LenProperties
  <1> DEFINE part == SubSeq(v, k + 1, k + Len(key))
  <1>2. /\ part \in Seq(S) /\ Len(part) = Len(key)
        /\ \A i \in 1 .. Len(key) : part[i] = v[k + i]
    BY <1>1, PartIs
  <1>3. FoundAt(key, v, k) <=> part = key
    BY DEF FoundAt
  <1> HIDE DEF part
  <1>4. part = key <=> \A i \in 1 .. Len(key) : part[i] = key[i]
    BY <1>2, SeqEqual
  <1> QED BY <1>2, <1>3, <1>4

LEMMA PrefixIs ==
    ASSUME NEW S, NEW key \in Seq(S), NEW v \in Seq(S)
    PROVE  IsPrefix(key, v) <=> Len(key) <= Len(v) /\ \A i \in 1 .. Len(key) : v[i] = key[i]
  <1>2. CASE Len(key) <= Len(v)
    <2> DEFINE a == SubSeq(key, 1, Len(key))
               b == SubSeq(v, 1, Len(key))
    <2>1. a \in Seq(S) /\ Len(a) = Len(key) /\ \A i \in 1 .. Len(key) : a[i] = key[0 + i]
      OBVIOUS
    <2>2. b \in Seq(S) /\ Len(b) = Len(key) /\ \A i \in 1 .. Len(key) : b[i] = v[0 + i]
      BY <1>2
    <2>3. IsPrefix(key, v) <=> a = b
      BY <1>2 DEF IsPrefix
    <2> HIDE DEF a, b
    <2>4. a = b <=> \A i \in 1 .. Len(key) : a[i] = b[i]
      BY <2>1, <2>2
    <2>5. \A i \in 1 .. Len(key) : a[i] = key[i] /\ b[i] = v[i]
      BY <2>1, <2>2
    <2> QED BY <1>2, <2>3, <2>4, <2>5
  <1>3. CASE ~(Len(key) <= Len(v))
    BY DEF IsPrefix
  <1> QED BY <1>2, <1>3

LEMMA SuffixIs ==
    ASSUME NEW S, NEW key \in Seq(S), NEW v \in Seq(S)
    PROVE  IsSuffix(key, v) <=>
              /\ Len(key) <= Len(v)
              /\ \A i \in 1 .. Len(key) : v[Len(v) - Len(key) + i] = key[i]
  <1>1. Len(key) \in Nat /\ Len(v) \in Nat
    BY LenProperties
  <1>2. /\ Reverse(key) \in Seq(S) /\ Len(Reverse(key)) = Len(key)
        /\ \A i \in 1 .. Len(key) : Reverse(key)[i] = key[Len(key) - i + 1]
    BY <1>1, ElementOfSeq DEF Reverse
  <1>3. /\ Reverse(v) \in Seq(S) /\ Len(Reverse(v)) = Len(v)
        /\ \A i \in 1 .. Len(v) : Reverse(v)[i] = v[Len(v) - i + 1]
    BY <1>1, ElementOfSeq DEF Reverse
  <1> DEFINE r == Reverse(key)
             w == Reverse(v)
  <1>4. IsSuffix(key, v) <=> IsPrefix(r, w)
    BY DEF IsSuffix
  <1>5. /\ r \in Seq(S) /\ w \in Seq(S) /\ Len(r) = Len(key) /\ Len(w) = Len(v)
        /\ \A i \in 1 .. Len(key) : r[i] = key[Len(key) - i + 1]
        /\ \A i \in 1 .. Len(v) : w[i] = v[Len(v) - i + 1]
    BY <1>2, <1>3
  <1> HIDE DEF r, w
  <1>6. IsPrefix(r, w) <=> Len(r) <= Len(w) /\ \A i \in 1 .. Len(r) : w[i] = r[i]
    BY <1>5, PrefixIs
  <1>7. IsSuffix(key, v) <=>
            /\ Len(key) <= Len(v)
            /\ \A i \in 1 .. Len(key) : v[Len(v) - i + 1] = key[Len(key) - i + 1]
    <2>1. Len(key) <= Len(v) =>
            \A i \in 1 .. Len(key) :
                w[i] = r[i] <=> v[Len(v) - i + 1] = key[Len(key) - i + 1]
      <3> SUFFICES ASSUME Len(key) <= Len(v), NEW i \in 1 .. Len(key)
                   PROVE  w[i] = r[i] <=> v[Len(v) - i + 1] = key[Len(key) - i + 1]
        OBVIOUS
      <3>1. i \in 1 .. Len(v)
        BY <1>1
      <3>2. w[i] = v[Len(v) - i + 1] /\ r[i] = key[Len(key) - i + 1]
        BY <1>5, <3>1
      <3> QED BY <3>2
    <2> QED BY <1>4, <1>5, <1>6, <2>1
  <1>8. ASSUME Len(key) <= Len(v), NEW i \in 1 .. Len(key),
               \A j \in 1 .. Len(key) : v[Len(v) - j + 1] = key[Len(key) - j + 1]
        PROVE  v[Len(v) - Len(key) + i] = key[i]
    <2>1. /\ Len(key) - i + 1 \in 1 .. Len(key)
          /\ Len(v) - (Len(key) - i + 1) + 1 = Len(v) - Len(key) + i
          /\ Len(key) - (Len(key) - i + 1) + 1 = i
      BY <1>1
    <2> QED BY <1>8, <2>1
  <1>9. ASSUME Len(key) <= Len(v), NEW i \in 1 .. Len(key),
               \A j \in 1 .. Len(key) : v[Len(v) - Len(key) + j] = key[j]
        PROVE  v[Len(v) - i + 1] = key[Len(key) - i + 1]
    <2>1. /\ Len(key) - i + 1 \in 1 .. Len(key)
          /\ Len(v) - Len(key) + (Len(key) - i + 1) = Len(v) - i + 1
      BY <1>1
    <2> QED BY <1>9, <2>1
  <1> QED BY <1>7, <1>8, <1>9

\* With one alternative the anchors bind as the operators say: the regular
\* expression of create_search_key_regexp finds what the description names.
LEMMA OneKeyIsDescribed ==
    ASSUME NEW S, NEW key \in Seq(S), NEW v \in Seq(S), NEW op \in Operators
    PROVE  RegexpMatch(CreateSearchKeyRegexp(op, <<key>>), v) <=> MatchesField(op, key, v)
  <1> DEFINE At(k) == \A i \in 1 .. Len(key) : v[k + i] = key[i]
  <1>2. \A k \in 0 .. Len(v) - Len(key) : FoundAt(key, v, k) <=> At(k)
    BY FoundWhere
  <1>3. RegexpMatch(CreateSearchKeyRegexp(op, <<key>>), v) <=>
            \E k \in 0 .. Len(v) - Len(key) :
                /\ FoundAt(key, v, k)
                /\ op \in {"starts", "equals"} => k = 0
                /\ op \in {"ends", "equals"} => k + Len(key) = Len(v)
    <2> DEFINE alt == [key |-> key, from_start |-> op \in {"starts", "equals"},
                       to_end |-> op \in {"ends", "equals"}]
    <2>1. CreateSearchKeyRegexp(op, <<key>>) = [n \in {1} |-> alt]
      BY DEF CreateSearchKeyRegexp
    <2>2. /\ alt.key = key
          /\ alt.from_start <=> op \in {"starts", "equals"}
          /\ alt.to_end <=> op \in {"ends", "equals"}
      OBVIOUS
    <2> HIDE DEF alt
    <2>3. RegexpMatch([n \in {1} |-> alt], v) <=>
            \E k \in 0 .. Len(v) - Len(alt.key) :
                /\ FoundAt(alt.key, v, k)
                /\ alt.from_start => k = 0
                /\ alt.to_end => k + Len(alt.key) = Len(v)
      BY DEF RegexpMatch
    <2> QED BY <2>1, <2>2, <2>3
  <1>4. CASE op = "starts"
    <2>1. MatchesField(op, key, v) <=> IsPrefix(key, v)
      BY <1>4 DEF MatchesField
    <2>2. IsPrefix(key, v) <=> Len(key) <= Len(v) /\ \A i \in 1 .. Len(key) : v[i] = key[i]
      BY PrefixIs
    <2> QED BY <1>2, <1>3, <1>4, <2>1, <2>2
  <1>5. CASE op = "ends"
    <2>1. MatchesField(op, key, v) <=> IsSuffix(key, v)
      BY <1>5 DEF MatchesField
    <2>2. IsSuffix(key, v) <=> Len(key) <= Len(v) /\ At(Len(v) - Len(key))
      BY SuffixIs
    <2> HIDE DEF At
    <2> QED BY <1>2, <1>3, <1>5, <2>1, <2>2
  <1>6. CASE op = "equals"
    <2>1. MatchesField(op, key, v) <=> v = key
      BY <1>6 DEF MatchesField
    <2> QED BY <1>2, <1>3, <1>6, <2>1
  <1>7. CASE op = ""
    <2>1. MatchesField(op, key, v) <=> \E k \in 0 .. Len(v) - Len(key) : FoundAt(key, v, k)
      BY <1>7 DEF MatchesField
    <2> QED BY <1>3, <1>7, <2>1
  <1> QED BY <1>4, <1>5, <1>6, <1>7 DEF Operators

\* With one key at most, the WHERE clause lets through what was asked for.
LEMMA MatchingIsAsked ==
    ASSUME NEW Chars, Described(Chars), Typed, Len(search.search_keys) <= 1
    PROVE  Matching(table, search) = AskedIds
  <1>1. /\ search \in Searches /\ search.search_keys \in Seq(Seq(Chars))
        /\ search.search_keys # <<>> => search.search_key_fields # {}
        /\ \A f \in search.search_key_fields : f.field \in SearchKeyFields /\ f.op \in Operators
        /\ search.date_fields \subseteq {"created_at"}
    BY SearchesAssumption DEF Typed, Described, SearchRequest
  <1>2. ASSUME NEW id \in Ids, table[id] # None
        PROVE  id \in Matching(table, search) <=> id \in AskedIds
    <2> DEFINE row == table[id]
    <2>1. row \in Rows /\ row.value \in Seq(Chars)
      BY <1>2 DEF Typed, TypeOK, Described
    <2>2. DateFilter(search, row) <=>
            (search.date_fields # {} =>
                /\ search.start_time # None => search.start_time <= row.created_at
                /\ search.end_time # None => row.created_at <= search.end_time)
      BY <1>1 DEF DateFilter
    <2>3. KeyFilter(search, row) <=> (search.search_keys # <<>> => MatchesKeys(search, row.value))
      <3>1. CASE search.search_keys = <<>>
        BY <3>1 DEF KeyFilter
      <3>2. CASE search.search_keys # <<>>
        <4> DEFINE key == search.search_keys[1]
        <4>1. Len(search.search_keys) = 1 /\ search.search_keys = <<key>> /\ key \in Seq(Chars)
          <5>1. Len(search.search_keys) \in Nat /\ Len(search.search_keys) # 0
            BY <3>2
          <5>2. Len(search.search_keys) = 1
            <6> DEFINE N == Len(search.search_keys)
            <6>1. N \in Nat /\ N # 0 /\ N <= 1
              BY <5>1
            <6> HIDE DEF N
            <6>2. N = 1
              BY <6>1
            <6> QED BY <6>2 DEF N
          <5>3. key \in Seq(Chars)
            BY <1>1, <5>2
          <5>6. search.search_keys = <<key>>
            BY <1>1, <5>2
          <5> QED BY <5>3, <5>6
        <4>3. KeyFilter(search, row) <=>
                \E f \in search.search_key_fields :
                    RegexpMatch(CreateSearchKeyRegexp(f.op, search.search_keys), row.value)
          BY <1>1, <3>2 DEF KeyFilter
        <4>4. MatchesKeys(search, row.value) <=>
                \E f \in search.search_key_fields : MatchesField(f.op, key, row.value)
          BY <4>1 DEF MatchesKeys
        <4> HIDE DEF key
        <4>5. \A f \in search.search_key_fields :
                RegexpMatch(CreateSearchKeyRegexp(f.op, search.search_keys), row.value)
                    <=> MatchesField(f.op, key, row.value)
          BY <1>1, <2>1, <4>1, OneKeyIsDescribed
        <4> QED BY <3>2, <4>3, <4>4, <4>5
      <3> QED BY <3>1, <3>2
    <2>4. id \in AskedIds <=> (search.ids # None => id \in search.ids) /\ Asked(search, row)
      BY DEF AskedIds
    <2> QED BY <2>2, <2>3, <2>4 DEF Matching, Asked
  <1>3. \A id \in Matching(table, search) \cup AskedIds : id \in Ids /\ table[id] # None
    BY DEF Matching, AskedIds, Asked
  <1> QED BY <1>2, <1>3

\* With one search key, count and page are of the rows asked for, as they are
\* committed at that statement, and of no others.
THEOREM ResultsAlwaysAsked ==
    ASSUME NEW Chars, Described(Chars)
    PROVE  Spec => ResultsAreAsked
  <1> DEFINE RightCount == pc = "count" /\ pc' = "page" => total' = Cardinality(AskedIds)
             RightPage ==
                pc = "page" /\ pc' # "page" =>
                    /\ \A n \in DOMAIN results' : results'[n][1] \in AskedIds
                    /\ search.limit = 0 \/ Len(results') < search.limit =>
                            offset + Len(results') >= Cardinality(AskedIds)
             Right == Len(search.search_keys) <= 1 => RightCount /\ RightPage
  <1>1. SearchInvariant /\ [Next]_vars => [Right]_vars
    <2> SUFFICES ASSUME SearchInvariant, Next, Len(search.search_keys) <= 1
                 PROVE  RightCount /\ RightPage
      OBVIOUS
    <2>1. Matching(table, search) = AskedIds
      BY MatchingIsAsked DEF SearchInvariant
    <2>2. CASE Count
      BY <2>1, <2>2 DEF Count
    <2>3. CASE Page
      <3>1. PICK ids \in SetToSeqs(Matching(table, search)) :
                LET page == Slice(search, offset, ids)
                IN results' = [n \in DOMAIN page |-> <<page[n], table[page[n]]>>]
        BY <2>3 DEF Page
      <3> DEFINE page == Slice(search, offset, ids)
      <3>2. results' = [n \in DOMAIN page |-> <<page[n], table[page[n]]>>] /\ pc = "page"
        BY <2>3, <3>1 DEF Page
      <3>3. /\ ids \in Seq(Ids) /\ Len(ids) = Cardinality(AskedIds) /\ Len(ids) \in Nat
            /\ \A n \in 1 .. Len(ids) : ids[n] \in AskedIds
        BY <2>1, ListIs
      <3>4. offset \in Nat /\ search.limit \in Nat
        BY SearchesAssumption DEF SearchInvariant, Typed, TypeOK, SearchRequest
      <3>5. /\ page \in Seq(Ids) /\ Len(page) \in Nat
            /\ \A n \in 1 .. Len(page) : offset + n \in 1 .. Len(ids) /\ page[n] = ids[offset + n]
            /\ (search.limit > 0 /\ Len(page) = search.limit) \/ offset + Len(page) >= Len(ids)
        BY <3>3, <3>4, SliceIs
      <3> HIDE DEF page
      <3> QED BY <3>2, <3>3, <3>5
    <2>4. CASE Write
      BY <2>4 DEF Write, client
    <2>5. CASE AllOver
      BY <2>5 DEF AllOver
    <2> QED BY <2>2, <2>3, <2>4, <2>5 DEF Next
  <1>2. Spec => [][Right]_vars
    BY <1>1, SearchInvariantHolds, PTL DEF Spec
  <1>3. Right <=> (Len(search.search_keys) <= 1 =>
                    /\ pc = "count" /\ pc' = "page" => total' = Cardinality(AskedIds)
                    /\ pc = "page" /\ pc' # "page" =>
                        /\ \A n \in DOMAIN results' : results'[n][1] \in AskedIds
                        /\ search.limit = 0 \/ Len(results') < search.limit =>
                                offset + Len(results') >= Cardinality(AskedIds))
    OBVIOUS
  <1> QED BY <1>2, <1>3, PTL DEF ResultsAreAsked
=============================================================================
