---------------------------- MODULE PagingProofs ----------------------------
(***************************************************************************)
(* Theorems of everything that is read page by page: keyset pagination     *)
(* itself (Keyset), the walks through an inbox and a thread while people   *)
(* write (Reading), the address of /browse and its controls (BrowseQuery,  *)
(* FilterBar) and the walk through the grid behind its cache (Browse), for *)
(* any rows, page sizes, addresses and controls.                           *)
(***************************************************************************)
EXTENDS ConversationsProofs, Reading, Browse, FilterBar

-----------------------------------------------------------------------------
(* The order of the rows *)

\* A row as far as the order is concerned.
Keyed == [key: Int, id: Int]

\* Rows are in a strict total order.
LEMMA RowsAreOrdered ==
  /\ \A a \in Keyed : ~Precedes(a, a)
  /\ \A a, b \in Keyed : Precedes(a, b) => ~Precedes(b, a)
  /\ \A a, b, c \in Keyed : Precedes(a, b) /\ Precedes(b, c) => Precedes(a, c)
  /\ \A a, b \in Keyed : a # b => Precedes(a, b) \/ Precedes(b, a)
<1>1. \A a, b \in Keyed : a # b => Precedes(a, b) \/ Precedes(b, a)
  <2>1. \A a, b \in Keyed : a.key = b.key /\ a.id = b.id => a = b
    BY DEF Keyed
  <2> QED
    BY <2>1 DEF Precedes, Keyed
<1> QED
  BY <1>1 DEF Precedes, Keyed

Above(rows, r) == {x \in rows : Precedes(x, r)}

Rank(rows) == [r \in rows |-> Cardinality(Above(rows, r))]

\* A row that precedes another has a smaller rank.
LEMMA RankGrows ==
  ASSUME NEW rows \in SUBSET Keyed, IsFiniteSet(rows), NEW a \in rows, NEW b \in rows, Precedes(a, b)
  PROVE  Cardinality(Above(rows, a)) < Cardinality(Above(rows, b))
<1>1. Above(rows, a) \subseteq Above(rows, b) /\ Above(rows, b) \subseteq rows
  BY RowsAreOrdered DEF Above
<1>2. a \in Above(rows, b) /\ a \notin Above(rows, a)
  BY RowsAreOrdered DEF Above
<1>3. IsFiniteSet(Above(rows, b)) /\ IsFiniteSet(Above(rows, a))
  BY <1>1, FS_Subset
<1>4. Cardinality(Above(rows, a)) <= Cardinality(Above(rows, b))
      /\ (Cardinality(Above(rows, b)) = Cardinality(Above(rows, a)) => Above(rows, a) = Above(rows, b))
  BY <1>1, <1>3, FS_Subset
<1>5. Cardinality(Above(rows, a)) \in Nat /\ Cardinality(Above(rows, b)) \in Nat
  BY <1>3, FS_CardinalityType
<1> QED
  BY <1>2, <1>4, <1>5

\* The ranks of n rows are 0 to n - 1, each of one row.
LEMMA RankIsBijection ==
  ASSUME NEW rows \in SUBSET Keyed, IsFiniteSet(rows)
  PROVE  /\ Cardinality(rows) \in Nat
         /\ Rank(rows) \in [rows -> 0..(Cardinality(rows) - 1)]
         /\ \A a, b \in rows : Rank(rows)[a] = Rank(rows)[b] => a = b
         /\ \A n \in 0..(Cardinality(rows) - 1) : \E r \in rows : Rank(rows)[r] = n
<1> DEFINE n == Cardinality(rows)
           f == Rank(rows)
<1>1. n \in Nat
  BY FS_CardinalityType
<1>2. ASSUME NEW r \in rows
      PROVE  Cardinality(Above(rows, r)) \in 0..(n - 1)
  <2>1. Above(rows, r) \subseteq rows /\ r \notin Above(rows, r)
    BY RowsAreOrdered DEF Above
  <2>2. IsFiniteSet(Above(rows, r)) /\ Cardinality(Above(rows, r)) <= n
        /\ (Cardinality(rows) = Cardinality(Above(rows, r)) => rows = Above(rows, r))
    BY <2>1, FS_Subset
  <2>3. Cardinality(Above(rows, r)) \in Nat
    BY <2>2, FS_CardinalityType
  <2> QED
    BY <1>1, <2>1, <2>2, <2>3
<1>3. f \in [rows -> 0..(n - 1)]
  BY <1>2 DEF Rank
<1>4. \A a, b \in rows : f[a] = f[b] => a = b
  <2> SUFFICES ASSUME NEW a \in rows, NEW b \in rows, f[a] = f[b], a # b PROVE FALSE
    OBVIOUS
  <2>1. Precedes(a, b) \/ Precedes(b, a)
    BY RowsAreOrdered
  <2>2. Cardinality(Above(rows, a)) \in Nat /\ Cardinality(Above(rows, b)) \in Nat
    BY <1>1, <1>2
  <2>3. Cardinality(Above(rows, a)) = Cardinality(Above(rows, b))
    BY DEF Rank
  <2> QED
    BY <2>1, <2>2, <2>3, RankGrows
<1>5. f \in Injection(rows, 0..(n - 1))
  BY <1>3, <1>4 DEF Injection, IsInjective
<1>6. IsFiniteSet(0..(n - 1)) /\ Cardinality(0..(n - 1)) = n
  BY <1>1, FS_Interval
<1>7. f \in Surjection(rows, 0..(n - 1))
  BY <1>5, <1>6, FS_Injection
<1>8. \A k \in 0..(n - 1) : \E r \in rows : f[r] = k
  BY <1>7 DEF Surjection
<1> QED
  BY <1>1, <1>3, <1>4, <1>8

\* The k-th row exists, and every row is the k-th for one k.
LEMMA RankedRows ==
  ASSUME NEW rows \in SUBSET Keyed, IsFiniteSet(rows)
  PROVE  /\ Cardinality(rows) \in Nat
         /\ \A k \in 1..Cardinality(rows) : Ranked(rows, k) \in rows
         /\ \A r \in rows : \E k \in 1..Cardinality(rows) : r = Ranked(rows, k)
         /\ \A j, k \in 1..Cardinality(rows) :
               j < k <=> Precedes(Ranked(rows, j), Ranked(rows, k))
<1> DEFINE n == Cardinality(rows)
           f == Rank(rows)
<1>1. /\ n \in Nat /\ f \in [rows -> 0..(n - 1)]
      /\ \A a, b \in rows : f[a] = f[b] => a = b
      /\ \A k \in 0..(n - 1) : \E r \in rows : f[r] = k
  BY RankIsBijection
<1>2. \A r \in rows : f[r] = Cardinality({x \in rows : Precedes(x, r)})
  BY DEF Rank, Above
<1>3. ASSUME NEW k \in 1..n
      PROVE  Ranked(rows, k) \in rows /\ f[Ranked(rows, k)] = k - 1
  <2>1. k - 1 \in 0..(n - 1)
    BY <1>1
  <2>2. \E r \in rows : f[r] = k - 1
    BY <1>1, <2>1
  <2>3. \E r \in rows : Cardinality({x \in rows : Precedes(x, r)}) = k - 1
    BY <1>2, <2>2
  <2>4. /\ Ranked(rows, k) \in rows
        /\ Cardinality({x \in rows : Precedes(x, Ranked(rows, k))}) = k - 1
    BY <2>3 DEF Ranked
  <2> QED
    BY <1>2, <2>4
<1>4. ASSUME NEW r \in rows
      PROVE  \E k \in 1..n : r = Ranked(rows, k)
  <2>1. f[r] + 1 \in 1..n /\ (f[r] + 1) - 1 = f[r]
    BY <1>1
  <2> HIDE DEF f
  <2>2. Ranked(rows, f[r] + 1) \in rows /\ f[Ranked(rows, f[r] + 1)] = f[r]
    BY <1>3, <2>1
  <2> QED
    BY <1>1, <2>1, <2>2
<1>5. \A a, b \in rows : Precedes(a, b) => f[a] < f[b]
  BY <1>2, RankGrows DEF Above
<1>6. ASSUME NEW j \in 1..n, NEW k \in 1..n
      PROVE  j < k <=> Precedes(Ranked(rows, j), Ranked(rows, k))
  <2> DEFINE a == Ranked(rows, j)
             b == Ranked(rows, k)
  <2>1. a \in rows /\ b \in rows /\ f[a] = j - 1 /\ f[b] = k - 1
    BY <1>3
  <2>2. Precedes(a, b) => f[a] < f[b]
    BY <1>5, <2>1
  <2>3. Precedes(b, a) => f[b] < f[a]
    BY <1>5, <2>1
  <2>4. a # b => Precedes(a, b) \/ Precedes(b, a)
    BY <2>1, RowsAreOrdered
  <2>5. j \in Int /\ k \in Int
    BY <1>1
  <2> HIDE DEF a, b, f
  <2>6. j < k => Precedes(a, b)
    BY <2>1, <2>3, <2>4, <2>5
  <2>7. Precedes(a, b) => j < k
    BY <2>1, <2>2, <2>5
  <2> QED
    BY <2>6, <2>7 DEF a, b
<1> QED
  BY <1>1, <1>3, <1>4, <1>6

-----------------------------------------------------------------------------
(* Pages *)

CursorFor(o) == [owner: {o}, key: Int, id: Int]

\* A cursor's place in the order.
At(c) == [key |-> c.key, id |-> c.id]

\* The next cursor is that of a row of the page, and splits what was left: the page
\* is what is not after it, each row once.
LEMMA PageSplits ==
  ASSUME NEW rows \in SUBSET Keyed, IsFiniteSet(rows), NEW cursor, NEW size \in Nat \ {0}, NEW o,
         NoCursor \notin CursorFor(o),
         NEW page, page = Rows(rows, cursor, size),
         NEW next, next = NextCursor(rows, cursor, size, o)
  PROVE  /\ page \in Seq(Rest(rows, cursor))
         /\ \A j, k \in DOMAIN page : page[j] = page[k] => j = k
         /\ next # NoCursor => next \in CursorFor(o) /\ At(next) \in Rest(rows, cursor)
         /\ \A r \in Rest(rows, cursor) :
               (\E k \in DOMAIN page : page[k] = r) <=> next = NoCursor \/ ~After(r, next)
<1> DEFINE rest == Rest(rows, cursor)
           n == Cardinality(rest)
           len == IF n < size THEN n ELSE size
<1>1. rest \in SUBSET Keyed /\ IsFiniteSet(rest)
  BY FS_Subset DEF Rest
<1>2. n \in Nat
  BY <1>1, RankedRows
<1>3. len \in Nat /\ len <= n /\ len <= size
  BY <1>2
<1>4. page = [k \in 1..len |-> Ranked(rest, k)]
  BY DEF Rows
<1> DEFINE more == IF n < size + 1 THEN n ELSE size + 1
           extra == [k \in 1..more |-> Ranked(rest, k)]
<1>5. Rows(rows, cursor, size + 1) = extra
  BY DEF Rows
<1>6. more \in Nat /\ Len(extra) = more /\ (more > size <=> n > size)
  BY <1>2
<1>7. next = IF Len(extra) > size THEN [owner |-> o, key |-> extra[size].key, id |-> extra[size].id]
             ELSE NoCursor
  BY <1>5 DEF NextCursor
<1> HIDE DEF rest
<1>8. /\ \A k \in 1..n : Ranked(rest, k) \in rest
      /\ \A r \in rest : \E k \in 1..n : r = Ranked(rest, k)
      /\ \A j, k \in 1..n : j < k <=> Precedes(Ranked(rest, j), Ranked(rest, k))
  BY <1>1, RankedRows
<1> HIDE DEF n
<1>9. DOMAIN page = 1..len /\ \A k \in 1..len : k \in 1..n /\ page[k] = Ranked(rest, k)
  BY <1>2, <1>3, <1>4
<1>10. page \in Seq(rest)
  BY <1>3, <1>4, <1>8, <1>9
<1>11. ASSUME NEW j \in 1..n, NEW k \in 1..n, Ranked(rest, j) = Ranked(rest, k)
       PROVE  j = k
  <2>1. ~Precedes(Ranked(rest, j), Ranked(rest, j))
    BY <1>1, <1>8, RowsAreOrdered
  <2>2. ~(j < k) /\ ~(k < j)
    BY <1>8, <1>11, <2>1
  <2> QED
    BY <1>2, <2>2
<1>12. \A j, k \in DOMAIN page : page[j] = page[k] => j = k
  BY <1>9, <1>11
<1>13. CASE n <= size
  <2>1. next = NoCursor
    BY <1>2, <1>6, <1>7, <1>13
  <2>2. len = n
    BY <1>2, <1>13
  <2>3. \A r \in rest : \E k \in DOMAIN page : page[k] = r
    BY <1>8, <1>9, <2>2
  <2> QED
    BY <1>10, <1>12, <2>1, <2>3 DEF rest
<1>14. CASE n > size
  <2> DEFINE last == Ranked(rest, size)
  <2>1. size \in 1..n /\ size \in 1..more /\ len = size
    BY <1>2, <1>6, <1>14
  <2>2. last \in rest /\ last \in Keyed /\ extra[size] = last
    BY <1>1, <1>8, <2>1
  <2>3. next = [owner |-> o, key |-> last.key, id |-> last.id]
    BY <1>6, <1>7, <1>14, <2>2
  <2> HIDE DEF last, len, more, extra
  <2>4. next \in CursorFor(o) /\ At(next) = last /\ next.key = last.key /\ next.id = last.id
    BY <2>2, <2>3 DEF CursorFor, At, Keyed
  <2>5. \A r : After(r, next) <=> Precedes(last, r)
    BY <2>4 DEF After, Precedes
  <2>6. ASSUME NEW r \in rest
        PROVE  (\E k \in DOMAIN page : page[k] = r) <=> ~Precedes(last, r)
    <3>1. PICK k \in 1..n : r = Ranked(rest, k)
      BY <1>8
    <3>2. size < k <=> Precedes(last, r)
      BY <1>8, <2>1, <3>1 DEF last
    <3>3. ASSUME NEW j \in DOMAIN page, page[j] = r
          PROVE  ~(size < k)
      <4>1. j = k
        BY <1>9, <1>11, <3>1, <3>3
      <4> QED
        BY <1>9, <2>1, <4>1
    <3>4. ~(size < k) => k \in DOMAIN page /\ page[k] = r
      BY <1>2, <1>9, <2>1, <3>1
    <3> QED
      BY <3>2, <3>3, <3>4
  <2>7. next # NoCursor
    BY <2>4
  <2> QED
    BY <1>10, <1>12, <2>2, <2>4, <2>5, <2>6, <2>7 DEF rest
<1> QED
  BY <1>2, <1>13, <1>14

-----------------------------------------------------------------------------
(* Walks, whatever the rows are *)

\* A walk about to ask for what follows a cursor: what it has seen is not after it,
\* and what was there in the beginning was seen, moved to the front or is after it.
SoFar(w, rows, cursor) ==
    /\ NoRepeat(w.seen)
    /\ \A k \in DOMAIN w.seen : \E r \in rows : r.id = w.seen[k] /\ r \notin Rest(rows, cursor)
    /\ \A s \in w.start : \/ Once(w.seen, s.id)
                          \/ \E r \in rows : r.id = s.id /\ r.key > s.key
                          \/ s \in Rest(rows, cursor)

\* A walk that goes on, or is over.
Walked(w, rows, o) ==
    /\ w \in [pc: {"none", "more", "end"}, who: {w.who}, of: {w.of}, cursor: {w.cursor},
              seen: Seq(Int), start: SUBSET Keyed]
    /\ w.pc = "more" => w.cursor \in CursorFor(o) /\ SoFar(w, rows, w.cursor)
    /\ w.pc # "more" =>
         /\ NoRepeat(w.seen)
         /\ \A s \in w.start : Once(w.seen, s.id) \/ \E r \in rows : r.id = s.id /\ r.key > s.key

Numbered(rows) == \A a, b \in rows : a.id = b.id => a = b

\* One page on.
LEMMA PageWalks ==
  ASSUME NEW rows \in SUBSET Keyed, IsFiniteSet(rows), Numbered(rows),
         NEW o, NoCursor \notin CursorFor(o), NEW size \in Nat \ {0},
         NEW cursor, cursor \in CursorFor(o) \union {NoCursor},
         NEW w, w \in [pc: {"none", "more", "end"}, who: {w.who}, of: {w.of}, cursor: {w.cursor},
                       seen: Seq(Int), start: SUBSET Keyed],
         SoFar(w, rows, cursor)
  PROVE  /\ Walked(Step(w, rows, cursor, size, o), rows, o)
         /\ Step(w, rows, cursor, size, o).who = w.who
         /\ Step(w, rows, cursor, size, o).of = w.of
         /\ Step(w, rows, cursor, size, o).start = w.start
<1> DEFINE page == Rows(rows, cursor, size)
           next == NextCursor(rows, cursor, size, o)
           rest == Rest(rows, cursor)
           more == [k \in DOMAIN page |-> page[k].id]
           t == Step(w, rows, cursor, size, o)
<1>1. /\ page \in Seq(rest)
      /\ \A j, k \in DOMAIN page : page[j] = page[k] => j = k
      /\ next # NoCursor => next \in CursorFor(o) /\ At(next) \in rest
      /\ \A r \in rest : (\E k \in DOMAIN page : page[k] = r) <=> next = NoCursor \/ ~After(r, next)
  BY PageSplits
<1>2. /\ t.pc = (IF next = NoCursor THEN "end" ELSE "more") /\ t.cursor = next
      /\ t.seen = w.seen \o more /\ t.who = w.who /\ t.of = w.of /\ t.start = w.start
      /\ t = [pc |-> t.pc, who |-> t.who, of |-> t.of, cursor |-> t.cursor, seen |-> t.seen, start |-> t.start]
  <2>1. t = [w EXCEPT !.pc = IF next = NoCursor THEN "end" ELSE "more", !.cursor = next, !.seen = @ \o more]
    BY DEF Step
  <2> HIDE DEF page, next, rest, more, t
  <2> QED
    BY <2>1
<1> HIDE DEF t, next
<1>3. rest \subseteq rows /\ rest \subseteq Keyed
  BY DEF Rest
<1> HIDE DEF page, rest
<1>4. page \in Seq(rest) /\ \A k \in DOMAIN page : page[k] \in rest /\ page[k].id \in Int
  <2>1. \A k \in DOMAIN page : page[k] \in rest
    BY <1>1
  <2> QED
    BY <1>1, <1>3, <2>1 DEF Keyed
<1>5. more \in Seq(Int) /\ DOMAIN more = DOMAIN page /\ \A k \in DOMAIN page : more[k] = page[k].id
  <2>1. Len(page) \in Nat /\ DOMAIN page = 1..Len(page)
    BY <1>4
  <2> QED
    BY <1>4, <2>1
<1> HIDE DEF more
<1> DEFINE n == Len(w.seen)
<1>6. /\ w.seen \in Seq(Int) /\ n \in Nat /\ DOMAIN w.seen = 1..n
      /\ t.seen \in Seq(Int) /\ DOMAIN t.seen = 1..(n + Len(more)) /\ DOMAIN more = 1..Len(more)
      /\ \A k \in 1..n : t.seen[k] = w.seen[k]
      /\ \A k \in 1..Len(more) : t.seen[n + k] = more[k]
      /\ Len(more) \in Nat
  BY <1>2, <1>5
<1>7. \A k \in DOMAIN t.seen :
        \/ k \in DOMAIN w.seen /\ t.seen[k] = w.seen[k]
        \/ k - n \in DOMAIN page /\ t.seen[k] = page[k - n].id /\ k > n
  <2> SUFFICES ASSUME NEW k \in DOMAIN t.seen, k \notin DOMAIN w.seen
               PROVE  k - n \in DOMAIN page /\ t.seen[k] = page[k - n].id /\ k > n
    BY <1>6
  <2>1. k > n /\ k - n \in 1..Len(more) /\ n + (k - n) = k
    BY <1>6
  <2>2. t.seen[k] = more[k - n]
    BY <1>6, <2>1
  <2> QED
    BY <1>5, <1>6, <2>1, <2>2
<1>8. \A k \in DOMAIN w.seen : \E j \in DOMAIN t.seen : t.seen[j] = w.seen[k]
  BY <1>6
<1>9. \A k \in DOMAIN page : \E j \in DOMAIN t.seen : t.seen[j] = page[k].id
  <2> SUFFICES ASSUME NEW k \in DOMAIN page PROVE n + k \in DOMAIN t.seen /\ t.seen[n + k] = page[k].id
    OBVIOUS
  <2> QED
    BY <1>5, <1>6
<1>10. NoRepeat(t.seen)
  <2> SUFFICES ASSUME NEW j \in DOMAIN t.seen, NEW k \in DOMAIN t.seen, t.seen[j] = t.seen[k]
               PROVE  j = k
    BY DEF NoRepeat
  <2>0. n \in Nat /\ j \in Int /\ k \in Int
    BY <1>6
  <2>1. CASE j \in DOMAIN w.seen /\ k \in DOMAIN w.seen
    BY <1>6, <2>1 DEF SoFar, NoRepeat
  <2>2. ASSUME NEW i \in DOMAIN w.seen, NEW h \in DOMAIN page PROVE w.seen[i] # page[h].id
    BY <1>1, <1>3, <1>4 DEF SoFar, Numbered, rest
  <2>3. CASE j \notin DOMAIN w.seen /\ k \notin DOMAIN w.seen
    <3>1. j - n \in DOMAIN page /\ k - n \in DOMAIN page /\ page[j - n].id = page[k - n].id
      BY <1>7, <2>3
    <3>2. page[j - n] = page[k - n]
      BY <1>3, <1>4, <3>1 DEF Numbered
    <3>3. j - n = k - n
      BY <1>1, <3>1, <3>2
    <3> QED
      BY <2>0, <3>3
  <2> QED
    BY <1>7, <2>1, <2>2, <2>3
<1>11. ASSUME NEW s \in w.start, ~\E r \in rows : r.id = s.id /\ r.key > s.key
       PROVE  Once(t.seen, s.id) \/ (s \in rest /\ next # NoCursor /\ After(s, next))
  <2>1. Once(w.seen, s.id) => Once(t.seen, s.id)
    BY <1>8 DEF Once
  <2>2. ASSUME s \in rest, next = NoCursor \/ ~After(s, next) PROVE Once(t.seen, s.id)
    BY <1>1, <1>9, <2>2 DEF Once
  <2> QED
    BY <1>11, <2>1, <2>2 DEF SoFar, rest
<1>12. t \in [pc: {"none", "more", "end"}, who: {t.who}, of: {t.of}, cursor: {t.cursor},
              seen: Seq(Int), start: SUBSET Keyed]
  BY <1>2, <1>6
<1>13. CASE next = NoCursor
  BY <1>2, <1>10, <1>11, <1>12, <1>13 DEF Walked, t
<1>14. CASE next # NoCursor
  <2>1. next \in CursorFor(o) /\ At(next) \in rest /\ At(next) \in Keyed
    BY <1>1, <1>3, <1>14
  <2>2. \A r \in Keyed : After(r, next) <=> Precedes(At(next), r)
    BY DEF After, Precedes, At
  <2>3. \A r \in rows : r \in rest /\ ~After(r, next) => r \notin Rest(rows, next)
    BY <1>14 DEF Rest
  <2>4. \A r \in rows : r \notin rest => r \notin Rest(rows, next)
    <3> SUFFICES ASSUME NEW r \in rows, Precedes(At(next), r) PROVE r \in rest
      BY <1>14, <2>2 DEF Rest
    <3>1. CASE cursor = NoCursor
      BY <3>1 DEF rest, Rest
    <3>2. CASE cursor # NoCursor
      <4>1. Precedes(cursor, At(next))
        BY <2>1, <3>2 DEF rest, Rest, After
      <4>2. Precedes(cursor, r)
        <5>1. cursor.key \in Int /\ cursor.id \in Int
          BY <3>2 DEF CursorFor
        <5> QED
          BY <2>1, <4>1, <5>1 DEF Precedes, Keyed
      <4> QED
        BY <4>2 DEF rest, Rest, After
    <3> QED
      BY <3>1, <3>2
  <2>5. ASSUME NEW k \in DOMAIN t.seen
        PROVE  \E r \in rows : r.id = t.seen[k] /\ r \notin Rest(rows, next)
    <3>1. CASE k \in DOMAIN w.seen /\ t.seen[k] = w.seen[k]
      BY <2>4, <3>1 DEF SoFar, rest
    <3>2. CASE k - n \in DOMAIN page /\ t.seen[k] = page[k - n].id
      <4>1. page[k - n] \in rest /\ ~After(page[k - n], next)
        BY <1>1, <1>4, <1>14, <3>2
      <4> QED
        BY <1>3, <2>3, <3>2, <4>1
    <3> QED
      BY <1>7, <3>1, <3>2
  <2>6. \A s \in rest : After(s, next) => s \in Rest(rows, next)
    BY <1>3 DEF Rest
  <2>7. SoFar(t, rows, next)
    BY <1>2, <1>10, <1>11, <2>5, <2>6 DEF SoFar
  <2> QED
    BY <1>2, <1>12, <1>14, <2>1, <2>7 DEF Walked, t
<1> QED
  BY <1>2, <1>13, <1>14 DEF t

\* Rows that are only added, and move only to the front, keep a walk what it is.
LEMMA RowsMove ==
  ASSUME NEW rows \in SUBSET Keyed, NEW later \in SUBSET Keyed, NEW o, NEW w, Walked(w, rows, o),
         NoCursor \notin CursorFor(o),
         \A r \in rows : \E x \in later : x.id = r.id /\ x.key >= r.key
  PROVE  Walked(w, later, o)
<1>1. \A s \in Keyed : (\E r \in rows : r.id = s.id /\ r.key > s.key) =>
                          \E r \in later : r.id = s.id /\ r.key > s.key
  BY DEF Keyed
<1>2. w.start \subseteq Keyed
  BY DEF Walked
<1>3. CASE w.pc # "more"
  BY <1>1, <1>2, <1>3 DEF Walked
<1>4. CASE w.pc = "more"
  <2> DEFINE c == w.cursor
  <2>1. c \in CursorFor(o) /\ c # NoCursor /\ c.key \in Int /\ c.id \in Int
    BY <1>4 DEF Walked, CursorFor
  <2>2. SoFar(w, rows, c)
    BY <1>4 DEF Walked
  <2> HIDE DEF c
  <2>3. ASSUME NEW r \in rows, NEW x \in later, x.id = r.id, x.key >= r.key, ~After(r, c)
        PROVE  ~After(x, c)
    BY <2>1, <2>3 DEF After, Precedes, Keyed
  <2>4. ASSUME NEW k \in DOMAIN w.seen
        PROVE  \E x \in later : x.id = w.seen[k] /\ x \notin Rest(later, c)
    <3>1. PICK r \in rows : r.id = w.seen[k] /\ r \notin Rest(rows, c)
      BY <2>2 DEF SoFar
    <3>2. ~After(r, c)
      BY <3>1 DEF Rest
    <3>3. PICK x \in later : x.id = r.id /\ x.key >= r.key
      OBVIOUS
    <3>4. x \notin Rest(later, c)
      BY <2>1, <2>3, <3>2, <3>3 DEF Rest
    <3> QED
      BY <3>1, <3>3, <3>4
  <2>5. ASSUME NEW s \in w.start, s \in Rest(rows, c)
        PROVE  \/ \E r \in later : r.id = s.id /\ r.key > s.key
               \/ s \in Rest(later, c)
    <3>1. s \in rows /\ After(s, c) /\ s \in Keyed
      BY <1>2, <2>1, <2>5 DEF Rest
    <3>2. PICK x \in later : x.id = s.id /\ x.key >= s.key
      BY <3>1
    <3>3. x.key > s.key \/ x = s
      BY <3>1, <3>2 DEF Keyed
    <3> QED
      BY <3>1, <3>2, <3>3 DEF Rest
  <2>6. SoFar(w, later, c)
    BY <1>1, <1>2, <2>2, <2>4, <2>5 DEF SoFar
  <2> QED
    BY <1>4, <2>1, <2>6 DEF Walked, c
<1> QED
  BY <1>3, <1>4

-----------------------------------------------------------------------------
(* What happens between two pages of an inbox or of a thread *)

SomeStored == IsFiniteSet(messages) /\ IsFiniteSet(Taken)

\* A row has become another of the same conversation that is at least as recent.
AsRecent(i) ==
    /\ conversations'[i] # NoConversation
    /\ conversations'[i].buyer = conversations[i].buyer
    /\ conversations'[i].lastMessageAt >= conversations[i].lastMessageAt

\* Messages are added one by one and none goes; conversations too, and activity moves
\* them forward only.
LEMMA TalkGrows ==
  ASSUME TypeInv, SomeStored, [TalkStep]_talkVars
  PROVE  /\ messages \subseteq messages'
         /\ \A i \in Taken : AsRecent(i)
         /\ SomeStored'
<1>1. messages \subseteq messages' /\ IsFiniteSet(messages')
  <2>1. CASE messages' = messages
    BY <2>1 DEF SomeStored
  <2>2. ASSUME NEW x, messages' = messages \union {x}
        PROVE  messages \subseteq messages' /\ IsFiniteSet(messages')
    BY <2>2, FS_AddElement DEF SomeStored
  <2> QED
    BY <2>1, <2>2, MessageSteps
<1>2. \A i \in Taken : i \in ConversationIds /\ conversations[i] \in Conversation
  BY DEF Taken, TypeInv, TalkTypeOK
<1>3. CASE UNCHANGED conversations
  <2>1. \A i \in Taken : AsRecent(i)
    BY <1>2, <1>3, RowIsNotNone, TalkAssumption DEF AsRecent, Conversation
  <2> QED
    BY <1>1, <1>3, <2>1 DEF SomeStored, Taken
<1>4. ASSUME NEW j \in ConversationIds,
             \A i \in ConversationIds \ {j} : conversations'[i] = conversations[i],
             j \in Taken => AsRecent(j)
      PROVE  (\A i \in Taken : AsRecent(i)) /\ IsFiniteSet(Taken')
  <2>1. ASSUME NEW i \in Taken, i # j PROVE AsRecent(i)
    BY <1>2, <1>4, <2>1, RowIsNotNone, TalkAssumption DEF AsRecent, Conversation
  <2>2. Taken' \subseteq Taken \union {j}
    BY <1>4 DEF Taken
  <2>3. IsFiniteSet(Taken \union {j})
    BY FS_AddElement DEF SomeStored
  <2> QED
    BY <1>4, <2>1, <2>2, <2>3, FS_Subset
<1>5. ASSUME NEW b, NEW l, NEW i \in Unused, Created(i, b, l)
      PROVE  (\A j \in Taken : AsRecent(j)) /\ IsFiniteSet(Taken')
  <2>1. i \in ConversationIds /\ i \notin Taken
    BY DEF Unused, Taken
  <2>2. \A j \in ConversationIds \ {i} : conversations'[j] = conversations[j]
    BY <1>5 DEF Created, TypeInv, TalkTypeOK
  <2> QED
    BY <1>4, <2>1, <2>2
<1>6. ASSUME NEW l \in Listings, ListingRemoved(l)
      PROVE  (\A i \in Taken : AsRecent(i)) /\ IsFiniteSet(Taken')
  <2>1. ASSUME NEW i \in ConversationIds
        PROVE  conversations'[i] = IF conversations[i].listing = l
                                   THEN [conversations[i] EXCEPT !.listing = NoListing] ELSE conversations[i]
    BY <1>6 DEF ListingRemoved
  <2>2. ASSUME NEW i \in Taken
        PROVE  AsRecent(i)
    <3>1. conversations'[i] \in Conversation /\ conversations'[i].buyer = conversations[i].buyer
          /\ conversations'[i].lastMessageAt = conversations[i].lastMessageAt
      BY <1>2, <2>1 DEF Conversation
    <3> QED
      BY <3>1, RowIsNotNone, TalkAssumption DEF AsRecent, Conversation
  <2>3. Taken' \subseteq Taken
    BY <2>1, TalkAssumption DEF Taken, NoConversation
  <2> QED
    BY <2>2, <2>3, FS_Subset DEF SomeStored
<1>7. ASSUME NEW s \in sends, s.createdAt # 0, InsertMessage(s)
      PROVE  (\A i \in Taken : AsRecent(i)) /\ IsFiniteSet(Taken')
  <2> DEFINE j == s.what.conversation
  <2>1. j \in ConversationIds /\ conversations[j] \in Conversation /\ s.createdAt \in Int
    BY <1>7 DEF TypeInv, TalkTypeOK, Stamped, Send, Submission
  <2>2. conversations' = [conversations EXCEPT ![j].lastMessageAt = IF @ < s.createdAt THEN s.createdAt ELSE @]
    BY <1>7 DEF InsertMessage, BumpActivity
  <2> HIDE DEF j
  <2>3. conversations[j].lastMessageAt \in Int
    BY <2>1, TalkAssumption DEF Conversation
  <2>4. /\ \A i \in ConversationIds \ {j} : conversations'[i] = conversations[i]
        /\ conversations'[j].buyer = conversations[j].buyer
        /\ conversations'[j].snapshot = conversations[j].snapshot
        /\ conversations'[j].lastMessageAt >= conversations[j].lastMessageAt
    BY <2>1, <2>2, <2>3 DEF TypeInv, TalkTypeOK, Conversation
  <2>5. conversations'[j] # NoConversation
    BY <2>1, <2>4, TalkAssumption DEF Conversation, NoConversation
  <2> QED
    BY <1>4, <2>1, <2>4, <2>5 DEF AsRecent
<1>8. \/ UNCHANGED conversations
      \/ \E b, l : \E i \in Unused : Created(i, b, l)
      \/ \E l \in Listings : ListingRemoved(l)
      \/ \E s \in sends : s.createdAt # 0 /\ InsertMessage(s)
  <2>1. CASE StartStep
    BY <2>1 DEF StartStep, StartCreate, StartFails, StartBegin, ListingMoves, storeVars
  <2>2. CASE SendStep
    BY <2>2 DEF SendStep, Mount, AnswerLost, OpenThread, Submit, SendBegin, SendInsert, SendFails,
        SendRepeated, TimePasses, storeVars
  <2>3. CASE UNCHANGED talkVars
    BY <2>3 DEF talkVars
  <2> QED
    BY <2>1, <2>2, <2>3 DEF TalkStep
<1> QED
  BY <1>1, <1>3, <1>5, <1>6, <1>7, <1>8 DEF SomeStored

\* A message's place in a thread.
LEMMA MessageIsKeyed == \A m \in Message : m.createdAt \in Int /\ m.id \in Int
<1>1. \A m \in Message : m.createdAt \in 1..MaxTime /\ m.id \in MessageIds
  BY DEF Message
<1>2. MessageIds \subseteq Int /\ 1..MaxTime \subseteq Int
  BY ReadAssumption, TalkAssumption DEF ReadAssumption, TalkAssumption
<1> QED
  BY <1>1, <1>2

\* The rows of a thread are finitely many and numbered.
LEMMA ThreadRowsOrdered ==
  ASSUME TypeInv, SomeStored, NEW i
  PROVE  /\ ThreadRows(i) \in SUBSET Keyed /\ IsFiniteSet(ThreadRows(i)) /\ Numbered(ThreadRows(i))
<1> DEFINE mine == {n \in messages : n.conversation = i}
           f == [m \in mine |-> [key |-> m.createdAt, id |-> m.id]]
<1>1. \A m \in messages : m.createdAt \in Int /\ m.id \in Int
  BY MessageIsKeyed DEF TypeInv, TalkTypeOK
<1>2. ThreadRows(i) \in SUBSET Keyed
  BY <1>1 DEF ThreadRows, Keyed
<1>3. IsFiniteSet(mine)
  BY FS_Subset DEF SomeStored
<1>4. f \in Surjection(mine, ThreadRows(i))
  BY DEF ThreadRows, Surjection
<1>5. IsFiniteSet(ThreadRows(i))
  BY <1>3, <1>4, FS_Surjection
<1>6. Numbered(ThreadRows(i))
  BY DEF ThreadRows, Numbered, TypeInv, TalkTypeOK
<1> QED
  BY <1>2, <1>5, <1>6

\* So are those of an inbox.
LEMMA InboxRowsOrdered ==
  ASSUME TypeInv, SomeStored, NEW who
  PROVE  /\ InboxRows(who) \in SUBSET Keyed /\ IsFiniteSet(InboxRows(who)) /\ Numbered(InboxRows(who))
<1> DEFINE mine == {j \in ConversationIds : Access(who, j)}
           f == [j \in mine |-> [key |-> conversations[j].lastMessageAt, id |-> j]]
<1>1. \A j \in mine : j \in Taken /\ conversations[j].lastMessageAt \in Int /\ j \in Int
  BY ReadAssumption, TalkAssumption DEF TypeInv, TalkTypeOK, Conversation, Access, Taken
<1>2. InboxRows(who) \in SUBSET Keyed
  BY <1>1 DEF InboxRows, Keyed
<1>3. IsFiniteSet(mine)
  <2>1. mine \in SUBSET Taken
    BY <1>1
  <2> QED
    BY <2>1, FS_Subset DEF SomeStored
<1>4. f \in Surjection(mine, InboxRows(who))
  BY DEF InboxRows, Surjection
<1>5. IsFiniteSet(InboxRows(who))
  BY <1>3, <1>4, FS_Surjection
<1>6. Numbered(InboxRows(who))
  BY DEF InboxRows, Numbered
<1> QED
  BY <1>2, <1>5, <1>6

-----------------------------------------------------------------------------
(* The two walks *)

ThreadWalked == Walked(thread, ThreadRows(thread.of), thread.of) /\ thread.start \subseteq ThreadRows(thread.of)

InboxWalked ==
    /\ Walked(inbox, InboxRows(inbox.who), inbox.who)
    /\ \A s \in inbox.start : \E r \in InboxRows(inbox.who) : r.id = s.id /\ r.key >= s.key

Readers ==
    /\ thread.pc # "none" => thread.of \in ConversationIds
    /\ inbox.pc # "none" => inbox.who \in Participants

ReadInv == SomeStored /\ ThreadWalked /\ InboxWalked /\ Readers

\* No cursor of a conversation or of a participant is the first page's.
LEMMA CursorsAreCursors ==
  \A o \in Participants \union ConversationIds : NoCursor \notin CursorFor(o)
  BY ReadAssumption DEF CursorFor

\* Nobody reads yet.
LEMMA InitReadInv == TalkInit /\ ReadInit => ReadInv
<1> SUFFICES ASSUME TalkInit, ReadInit PROVE ReadInv
  OBVIOUS
<1>1. SomeStored
  <2>1. messages = {} /\ Taken = {}
    BY DEF TalkInit, Taken
  <2> QED
    BY <2>1, FS_EmptySet DEF SomeStored
<1>2. ASSUME NEW rows, NEW o
      PROVE  Walked(NoWalk, rows, o) /\ NoWalk.start = {} /\ NoWalk.pc = "none"
  <2>1. <<>> \in Seq(Int) /\ NoRepeat(<<>>)
    BY DEF NoRepeat
  <2>2. /\ NoWalk.seen = <<>> /\ NoWalk.start = {} /\ NoWalk.pc = "none"
        /\ NoWalk = [pc |-> "none", who |-> NoWalk.who, of |-> NoWalk.of, cursor |-> NoWalk.cursor,
                     seen |-> <<>>, start |-> {}]
    BY DEF NoWalk
  <2> HIDE DEF NoWalk
  <2>3. NoWalk \in [pc: {"none", "more", "end"}, who: {NoWalk.who}, of: {NoWalk.of}, cursor: {NoWalk.cursor},
                    seen: Seq(Int), start: SUBSET Keyed]
    BY <2>1, <2>2
  <2> QED
    BY <2>1, <2>2, <2>3 DEF Walked
<1> QED
  BY <1>1, <1>2 DEF ReadInit, ReadInv, ThreadWalked, InboxWalked, Readers

\* A walk that begins has everything before it.
LEMMA WalkBegins ==
  ASSUME NEW rows \in SUBSET Keyed, NEW w, w.seen = <<>>, w.start = rows
  PROVE  SoFar(w, rows, NoCursor)
<1>1. Rest(rows, NoCursor) = rows
  BY DEF Rest
<1> QED
  BY <1>1 DEF SoFar, NoRepeat

\* The shape of a walk that begins.
LEMMA BeginsShaped ==
  ASSUME NEW rows \in SUBSET Keyed, NEW w, w.pc = "none", w.seen = <<>>, w.start = rows,
         w = [pc |-> w.pc, who |-> w.who, of |-> w.of, cursor |-> w.cursor, seen |-> w.seen, start |-> w.start]
  PROVE  w \in [pc: {"none", "more", "end"}, who: {w.who}, of: {w.of}, cursor: {w.cursor},
                seen: Seq(Int), start: SUBSET Keyed]
<1>1. <<>> \in Seq(Int)
  OBVIOUS
<1> QED
  BY <1>1

\* Reading a page keeps both walks what they are.
LEMMA ReadStepInv ==
  ASSUME TypeInv, ReadInv, ReadStep, UNCHANGED talkVars
  PROVE  ReadInv'
<1>1. SomeStored' /\ UNCHANGED <<messages, conversations>>
  BY DEF ReadInv, SomeStored, talkVars, Taken
<1>2. (\A i : ThreadRows(i)' = ThreadRows(i)) /\ (\A who : InboxRows(who)' = InboxRows(who))
  BY <1>1 DEF ThreadRows, InboxRows, Access
<1>3. ASSUME UNCHANGED thread PROVE ThreadWalked' /\ (thread.pc # "none" => thread.of \in ConversationIds)'
  BY <1>2, <1>3 DEF ReadInv, ThreadWalked, Readers
<1>4. ASSUME UNCHANGED inbox PROVE InboxWalked' /\ (inbox.pc # "none" => inbox.who \in Participants)'
  BY <1>2, <1>4 DEF ReadInv, InboxWalked, Readers
<1>5. ASSUME NEW who \in Participants, OpenInbox(who)
      PROVE  ReadInv'
  <2> DEFINE rows == InboxRows(who)
  <2>1. PICK w : w = [NoWalk EXCEPT !.who = who, !.start = rows]
    OBVIOUS
  <2>2. inbox' = Step(w, rows, NoCursor, InboxSize, who) /\ UNCHANGED thread
    BY <1>5, <2>1 DEF OpenInbox
  <2>3. rows \in SUBSET Keyed /\ IsFiniteSet(rows) /\ Numbered(rows)
    BY InboxRowsOrdered DEF ReadInv
  <2> HIDE DEF rows
  <2>4. /\ w \in [pc: {"none", "more", "end"}, who: {w.who}, of: {w.of}, cursor: {w.cursor},
                  seen: Seq(Int), start: SUBSET Keyed]
        /\ w.who = who /\ w.of = 0 /\ w.seen = <<>> /\ w.start = rows
    <3>1. /\ w.pc = "none" /\ w.who = who /\ w.of = 0 /\ w.seen = <<>> /\ w.start = rows
          /\ w = [pc |-> w.pc, who |-> w.who, of |-> w.of, cursor |-> w.cursor, seen |-> w.seen, start |-> w.start]
      BY <2>1 DEF NoWalk
    <3> QED
      BY <2>3, <3>1, BeginsShaped
  <2>5. SoFar(w, rows, NoCursor)
    BY <2>3, <2>4, WalkBegins
  <2>6. Walked(inbox', rows, who) /\ inbox'.who = who /\ inbox'.start = rows
    BY <2>2, <2>3, <2>4, <2>5, PageWalks, CursorsAreCursors, ReadAssumption
  <2>7. InboxRows(inbox.who)' = rows
    BY <1>1, <2>6 DEF rows, InboxRows, Access
  <2>8. \A s \in rows : s.key >= s.key
    BY <2>3 DEF Keyed
  <2>9. InboxWalked'
    BY <2>6, <2>7, <2>8 DEF InboxWalked
  <2> QED
    BY <1>1, <1>3, <2>2, <2>6, <2>9 DEF ReadInv, Readers
<1>6. ASSUME OlderConversations
      PROVE  ReadInv'
  <2>1. PICK who \in Participants : who = inbox.who
    BY <1>6 DEF OlderConversations, ReadInv, Readers
  <2> DEFINE rows == InboxRows(who)
             c == inbox.cursor
  <2>2. Walked(inbox, rows, who) /\ inbox.pc = "more"
    BY <1>6, <2>1 DEF ReadInv, InboxWalked, OlderConversations
  <2>3. rows \in SUBSET Keyed /\ IsFiniteSet(rows) /\ Numbered(rows)
    BY InboxRowsOrdered DEF ReadInv
  <2>4. NoCursor \notin CursorFor(who) /\ c \in CursorFor(who) /\ SoFar(inbox, rows, c)
    BY <2>2, CursorsAreCursors DEF Walked
  <2>5. Decode(c, who) = c
    BY <2>4 DEF Decode, CursorFor
  <2>6. inbox' = Step(inbox, rows, c, InboxSize, who) /\ UNCHANGED thread
    BY <1>6, <2>1, <2>5 DEF OlderConversations
  <2>7. \A s \in inbox.start : \E r \in rows : r.id = s.id /\ r.key >= s.key
    BY <2>1 DEF ReadInv, InboxWalked
  <2> HIDE DEF rows, c
  <2>8. Walked(inbox', rows, who) /\ inbox'.who = who /\ inbox'.start = inbox.start
    <3>1. inbox \in [pc: {"none", "more", "end"}, who: {inbox.who}, of: {inbox.of}, cursor: {inbox.cursor},
                     seen: Seq(Int), start: SUBSET Keyed]
      BY <2>2 DEF Walked
    <3> QED
      BY <2>1, <2>3, <2>4, <2>6, <3>1, PageWalks, ReadAssumption
  <2>9. InboxRows(inbox.who)' = rows
    BY <1>1, <2>1, <2>8 DEF rows, InboxRows, Access
  <2>10. InboxWalked'
    BY <2>7, <2>8, <2>9 DEF InboxWalked
  <2> QED
    BY <1>1, <1>3, <2>6, <2>8, <2>10 DEF ReadInv, Readers
<1>7. ASSUME NEW who \in Participants, NEW i \in ConversationIds, OpenMessages(who, i)
      PROVE  ReadInv'
  <2> DEFINE rows == ThreadRows(i)
  <2>1. PICK w : w = [NoWalk EXCEPT !.who = who, !.of = i, !.start = rows]
    OBVIOUS
  <2>2. thread' = Step(w, rows, NoCursor, ThreadSize, i) /\ UNCHANGED inbox
    BY <1>7, <2>1 DEF OpenMessages
  <2>3. rows \in SUBSET Keyed /\ IsFiniteSet(rows) /\ Numbered(rows)
    BY ThreadRowsOrdered DEF ReadInv
  <2> HIDE DEF rows
  <2>4. /\ w \in [pc: {"none", "more", "end"}, who: {w.who}, of: {w.of}, cursor: {w.cursor},
                  seen: Seq(Int), start: SUBSET Keyed]
        /\ w.who = who /\ w.of = i /\ w.seen = <<>> /\ w.start = rows
    <3>1. /\ w.pc = "none" /\ w.who = who /\ w.of = i /\ w.seen = <<>> /\ w.start = rows
          /\ w = [pc |-> w.pc, who |-> w.who, of |-> w.of, cursor |-> w.cursor, seen |-> w.seen, start |-> w.start]
      BY <2>1 DEF NoWalk
    <3> QED
      BY <2>3, <3>1, BeginsShaped
  <2>5. SoFar(w, rows, NoCursor)
    BY <2>3, <2>4, WalkBegins
  <2>6. Walked(thread', rows, i) /\ thread'.of = i /\ thread'.start = rows
    BY <2>2, <2>3, <2>4, <2>5, PageWalks, CursorsAreCursors, ReadAssumption
  <2>7. ThreadRows(thread.of)' = rows
    BY <1>1, <2>6 DEF rows, ThreadRows
  <2>8. ThreadWalked'
    BY <2>6, <2>7 DEF ThreadWalked
  <2> QED
    BY <1>1, <1>4, <2>2, <2>6, <2>8 DEF ReadInv, Readers
<1>8. ASSUME OlderMessages
      PROVE  ReadInv'
  <2>1. PICK i \in ConversationIds : i = thread.of
    BY <1>8 DEF OlderMessages, ReadInv, Readers
  <2> DEFINE rows == ThreadRows(i)
             c == thread.cursor
  <2>2. Walked(thread, rows, i) /\ thread.pc = "more" /\ thread.start \subseteq rows
    BY <1>8, <2>1 DEF ReadInv, ThreadWalked, OlderMessages
  <2>3. rows \in SUBSET Keyed /\ IsFiniteSet(rows) /\ Numbered(rows)
    BY ThreadRowsOrdered DEF ReadInv
  <2>4. NoCursor \notin CursorFor(i) /\ c \in CursorFor(i) /\ SoFar(thread, rows, c)
    BY <2>2, CursorsAreCursors DEF Walked
  <2>5. Decode(c, i) = c
    BY <2>4 DEF Decode, CursorFor
  <2>6. thread' = Step(thread, rows, c, ThreadSize, i) /\ UNCHANGED inbox
    BY <1>8, <2>1, <2>5 DEF OlderMessages
  <2> HIDE DEF rows, c
  <2>7. Walked(thread', rows, i) /\ thread'.of = i /\ thread'.start = thread.start
    <3>1. thread \in [pc: {"none", "more", "end"}, who: {thread.who}, of: {thread.of}, cursor: {thread.cursor},
                      seen: Seq(Int), start: SUBSET Keyed]
      BY <2>2 DEF Walked
    <3> QED
      BY <2>1, <2>3, <2>4, <2>6, <3>1, PageWalks, ReadAssumption
  <2>8. ThreadRows(thread.of)' = rows
    BY <1>1, <2>1, <2>7 DEF rows, ThreadRows
  <2>9. ThreadWalked'
    BY <2>2, <2>7, <2>8 DEF ThreadWalked
  <2> QED
    BY <1>1, <1>4, <2>6, <2>7, <2>9 DEF ReadInv, Readers
<1> QED
  BY <1>5, <1>6, <1>7, <1>8 DEF ReadStep

\* What others do meanwhile keeps both walks what they are.
LEMMA TalkStepReadInv ==
  ASSUME TypeInv, TypeInv', ReadInv, [TalkStep]_talkVars, UNCHANGED readVars
  PROVE  ReadInv'
<1>1. /\ messages \subseteq messages' /\ (\A i \in Taken : AsRecent(i)) /\ SomeStored'
      /\ UNCHANGED <<inbox, thread>>
  BY TalkGrows DEF ReadInv, readVars
<1>2. SomeStored
  BY DEF ReadInv
<1>3. ThreadWalked'
  <2>1. PICK i : i = thread.of
    OBVIOUS
  <2> DEFINE rows == ThreadRows(i)
             later == ThreadRows(i)'
  <2>2. rows \subseteq later
    BY <1>1 DEF ThreadRows
  <2>3. rows \in SUBSET Keyed
    BY <1>2, ThreadRowsOrdered
  <2>4. later \in SUBSET Keyed
    <3>1. \A m \in messages' : m.createdAt \in Int /\ m.id \in Int
      BY MessageIsKeyed DEF TypeInv, TalkTypeOK
    <3> QED
      BY <3>1 DEF ThreadRows, Keyed
  <2>5. Walked(thread, rows, i) /\ thread.start \subseteq rows
    BY <2>1 DEF ReadInv, ThreadWalked
  <2>6. thread.pc # "none" => i \in ConversationIds
    BY <2>1 DEF ReadInv, Readers
  <2>7. ThreadRows(thread.of)' = later /\ thread'.of = i
    BY <1>1, <2>1
  <2> HIDE DEF rows, later
  <2>8. Walked(thread, later, i)
    <3>1. CASE thread.pc # "none"
      <4>1. NoCursor \notin CursorFor(i)
        BY <2>6, <3>1, CursorsAreCursors
      <4>2. \A r \in rows : \E x \in later : x.id = r.id /\ x.key >= r.key
        BY <2>2, <2>3 DEF Keyed
      <4> QED
        BY <2>3, <2>4, <2>5, <4>1, <4>2, RowsMove
    <3>2. CASE thread.pc = "none"
      <4>1. \A r \in rows : r \in later
        BY <2>2
      <4> QED
        BY <2>5, <3>2, <4>1 DEF Walked
    <3> QED
      BY <3>1, <3>2
  <2> QED
    BY <1>1, <2>2, <2>5, <2>7, <2>8 DEF ThreadWalked
<1>4. InboxWalked'
  <2>1. PICK who : who = inbox.who
    OBVIOUS
  <2> DEFINE rows == InboxRows(who)
             later == InboxRows(who)'
  <2>2. ASSUME NEW r \in rows
        PROVE  \E x \in later : x.id = r.id /\ x.key >= r.key
    <3>1. PICK j \in ConversationIds : Access(who, j) /\ r = [key |-> conversations[j].lastMessageAt, id |-> j]
      BY <2>2 DEF InboxRows
    <3>2. j \in Taken /\ AsRecent(j)
      BY <1>1, <3>1 DEF Access, Taken
    <3>3. Access(who, j)'
      BY <3>1, <3>2 DEF Access, AsRecent
    <3>4. [key |-> conversations'[j].lastMessageAt, id |-> j] \in later
      BY <3>3 DEF InboxRows
    <3> QED
      BY <3>1, <3>2, <3>4 DEF AsRecent
  <2>3. rows \in SUBSET Keyed
    BY <1>2, InboxRowsOrdered
  <2>4. later \in SUBSET Keyed
    <3>1. \A j \in ConversationIds : Access(who, j)' => conversations'[j].lastMessageAt \in Int /\ j \in Int
      BY ReadAssumption, TalkAssumption DEF TypeInv, TalkTypeOK, Conversation, Access
    <3> QED
      BY <3>1 DEF InboxRows, Keyed
  <2>5. Walked(inbox, rows, who) /\ \A s \in inbox.start : \E r \in rows : r.id = s.id /\ r.key >= s.key
    BY <2>1 DEF ReadInv, InboxWalked
  <2>6. inbox.pc # "none" => who \in Participants
    BY <2>1 DEF ReadInv, Readers
  <2>7. InboxRows(inbox.who)' = later /\ inbox'.who = who
    BY <1>1, <2>1
  <2> HIDE DEF rows, later
  <2>8. inbox.start \subseteq Keyed
    BY <2>5 DEF Walked
  <2>9. \A s \in inbox.start : \E x \in later : x.id = s.id /\ x.key >= s.key
    BY <2>2, <2>3, <2>4, <2>5, <2>8 DEF Keyed
  <2>10. Walked(inbox, later, who)
    <3>1. CASE inbox.pc # "none"
      <4>1. NoCursor \notin CursorFor(who)
        BY <2>6, <3>1, CursorsAreCursors
      <4> QED
        BY <2>2, <2>3, <2>4, <2>5, <4>1, RowsMove
    <3>2. CASE inbox.pc = "none"
      <4>1. \A s \in inbox.start : (\E r \in rows : r.id = s.id /\ r.key > s.key) =>
                                      \E x \in later : x.id = s.id /\ x.key > s.key
        BY <2>2, <2>3, <2>4, <2>8 DEF Keyed
      <4> QED
        BY <2>5, <3>2, <4>1 DEF Walked
    <3> QED
      BY <3>1, <3>2
  <2> QED
    BY <1>1, <2>7, <2>9, <2>10 DEF InboxWalked
<1> QED
  BY <1>1, <1>3, <1>4 DEF ReadInv, Readers

\* Both walks are sound throughout.
LEMMA WalksAreSound == ReadSpec => [](TypeInv /\ ReadInv)
<1> DEFINE next == (StartStep /\ UNCHANGED readVars) \/ (SendStep /\ UNCHANGED readVars) \/ (ReadStep /\ UNCHANGED talkVars)
<1>1. TalkInit /\ ReadInit => TypeInv /\ ReadInv
  BY InitTypeInv, InitReadInv
<1>2. TypeInv /\ ReadInv /\ [next]_<<talkVars, readVars>> => TypeInv' /\ ReadInv'
  <2> SUFFICES ASSUME TypeInv, ReadInv, [next]_<<talkVars, readVars>> PROVE TypeInv' /\ ReadInv'
    OBVIOUS
  <2>1. [TalkStep]_talkVars
    BY DEF TalkStep
  <2>2. TypeInv'
    BY <2>1, TypeInvStep
  <2>3. CASE ReadStep /\ UNCHANGED talkVars
    BY <2>2, <2>3, ReadStepInv
  <2>4. CASE UNCHANGED readVars
    BY <2>1, <2>2, <2>4, TalkStepReadInv
  <2> QED
    BY <2>2, <2>3, <2>4
<1> QED
  BY <1>1, <1>2, PTL DEF ReadSpec

\* A walk through a thread shows every message that was there when it began exactly
\* once, while others are stored in another order than they are stamped.
THEOREM ThreadsAreReadWhole == ReadSpec => []ThreadPagesComplete
<1>1. TypeInv /\ ReadInv => ThreadPagesComplete
  <2> SUFFICES ASSUME TypeInv, ReadInv PROVE ThreadPagesComplete
    OBVIOUS
  <2> DEFINE rows == ThreadRows(thread.of)
  <2>1. rows \in SUBSET Keyed /\ Numbered(rows)
    BY ThreadRowsOrdered DEF ReadInv
  <2>2. Walked(thread, rows, thread.of) /\ thread.start \subseteq rows
    BY DEF ReadInv, ThreadWalked
  <2> HIDE DEF rows
  <2>3. NoRepeat(thread.seen)
    BY <2>2 DEF Walked, SoFar
  <2>4. ASSUME thread.pc = "end", NEW s \in thread.start
        PROVE  Once(thread.seen, s.id)
    <3>1. \A r \in rows : r.id = s.id => ~(r.key > s.key)
      BY <2>1, <2>2, <2>4 DEF Numbered, Keyed
    <3> QED
      BY <2>2, <2>4, <3>1 DEF Walked
  <2> QED
    BY <2>3, <2>4 DEF ThreadPagesComplete
<1> QED
  BY <1>1, WalksAreSound, PTL

\* A walk through an inbox shows no conversation twice, and every one that was there
\* when it began unless it was active since.
THEOREM InboxesAreReadWhole == ReadSpec => []InboxPagesComplete
<1>1. TypeInv /\ ReadInv => InboxPagesComplete
  <2> SUFFICES ASSUME TypeInv, ReadInv PROVE InboxPagesComplete
    OBVIOUS
  <2> DEFINE rows == InboxRows(inbox.who)
  <2>1. Walked(inbox, rows, inbox.who)
    BY DEF ReadInv, InboxWalked
  <2>2. \A r \in rows : r.key = conversations[r.id].lastMessageAt
    BY DEF InboxRows
  <2> HIDE DEF rows
  <2> QED
    BY <2>1, <2>2 DEF Walked, SoFar, InboxPagesComplete
<1> QED
  BY <1>1, WalksAreSound, PTL

-----------------------------------------------------------------------------
(* What a URL means *)

\* A query that has been read: reading it again changes nothing.
Canonical(url) ==
    /\ url \in Urls
    /\ url.sort # NoSort
    /\ ~(url.sort = "relevance" /\ url.q = NoWord)
    /\ ~(url.minPrice > MaxPrice) /\ ~(url.maxPrice > MaxPrice)
    /\ ~(url.minPrice # NoPrice /\ url.maxPrice # NoPrice /\ url.minPrice > url.maxPrice)

\* The cap changes only what is above it, and keeps the order.
LEMMA CapFacts ==
  /\ \A price \in Prices \union {NoPrice} :
       /\ Capped(price) \in Prices \union {NoPrice} /\ ~(Capped(price) > MaxPrice)
       /\ ~(price > MaxPrice) => Capped(price) = price
       /\ Capped(price) = NoPrice <=> price = NoPrice
  /\ \A low, high \in Prices \union {NoPrice} : ~(low > high) => ~(Capped(low) > Capped(high))
<1>1. MaxPrice \in Prices /\ MaxPrice \in Nat /\ \A price \in Prices \union {NoPrice} : price \in Int
  BY QueryAssumption DEF QueryAssumption, NoPrice
<1>2. \A price \in Prices : price \in Nat
  BY QueryAssumption DEF QueryAssumption
<1> QED
  BY <1>1, <1>2 DEF Capped, NoPrice

\* Whatever a URL says, reading it gives a canonical query.
LEMMA ReadingIsCanonical ==
  ASSUME NEW raw \in Urls
  PROVE  Canonical(ParseBrowseQuery(raw))
<1>1. NoPrice \in Prices \union {NoPrice} /\ DefaultSortFor(raw.q) \in BrowseSorts
      /\ NoSort \notin BrowseSorts /\ ~(DefaultSortFor(raw.q) = "relevance" /\ raw.q = NoWord)
      /\ ~(NoPrice > MaxPrice)
  <2>1. MaxPrice \in Nat
    BY QueryAssumption DEF QueryAssumption
  <2> QED
    BY <2>1 DEF DefaultSortFor, BrowseSorts, NoSort, NoPrice
<1>2. PICK url : url = Priced(raw, Capped(raw.minPrice), Capped(raw.maxPrice))
  OBVIOUS
<1>3. url \in Urls /\ url.q = raw.q /\ ~(url.minPrice > MaxPrice) /\ ~(url.maxPrice > MaxPrice)
  <2>1. raw.minPrice \in Prices \union {NoPrice} /\ raw.maxPrice \in Prices \union {NoPrice}
    BY DEF Urls
  <2>2. PICK low \in Prices \union {NoPrice}, high \in Prices \union {NoPrice} :
          /\ low = Capped(raw.minPrice) /\ ~(low > MaxPrice)
          /\ high = Capped(raw.maxPrice) /\ ~(high > MaxPrice)
    BY <2>1, CapFacts
  <2> QED
    BY <1>2, <2>2 DEF Priced, Urls
<1> DEFINE low == ParseBrowseQuery(raw).minPrice
           high == ParseBrowseQuery(raw).maxPrice
           sort == ParseBrowseQuery(raw).sort
<1>4. /\ ParseBrowseQuery(raw) = [url EXCEPT !.minPrice = low, !.maxPrice = high, !.sort = sort]
      /\ low \in Prices \union {NoPrice} /\ high \in Prices \union {NoPrice}
      /\ sort \in BrowseSorts \union {NoSort}
      /\ ~(low # NoPrice /\ high # NoPrice /\ low > high)
      /\ ~(low > MaxPrice) /\ ~(high > MaxPrice)
      /\ sort # NoSort /\ ~(sort = "relevance" /\ url.q = NoWord)
  BY <1>1, <1>2, <1>3 DEF ParseBrowseQuery, Urls
<1> HIDE DEF low, high, sort
<1>5. ParseBrowseQuery(raw) \in Urls /\ ParseBrowseQuery(raw).q = url.q
  BY <1>3, <1>4 DEF Urls
<1> QED
  BY <1>3, <1>4, <1>5 DEF Canonical, low, high, sort

\* The canonical URL of a query leaves its default sort out, and means the same query.
LEMMA RoundTrip ==
  ASSUME NEW next, Canonical(next)
  PROVE  ParseBrowseQuery(BuildBrowseHref(next)) = next
<1> DEFINE url == BuildBrowseHref(next)
<1>1. next \in Urls
  BY DEF Canonical
<1>2. url \in Urls /\ url = [next EXCEPT !.sort = url.sort]
      /\ url.sort = (IF next.sort = DefaultSortFor(next.q) THEN NoSort ELSE next.sort)
      /\ url.q = next.q /\ url.minPrice = next.minPrice /\ url.maxPrice = next.maxPrice
  BY <1>1 DEF BuildBrowseHref, Urls
<1> HIDE DEF url
<1>3. Capped(url.minPrice) = url.minPrice /\ Capped(url.maxPrice) = url.maxPrice
  BY <1>2, CapFacts DEF Canonical, Urls
<1>4. Priced(url, Capped(url.minPrice), Capped(url.maxPrice)) = url
  BY <1>2, <1>3 DEF Priced, Urls
<1>5. ParseBrowseQuery(url) = [url EXCEPT !.minPrice = next.minPrice, !.maxPrice = next.maxPrice, !.sort = next.sort]
  BY <1>2, <1>4 DEF ParseBrowseQuery, Canonical
<1>6. [url EXCEPT !.minPrice = next.minPrice, !.maxPrice = next.maxPrice, !.sort = next.sort] = next
  BY <1>1, <1>2 DEF Urls
<1> QED
  BY <1>5, <1>6 DEF url

\* Of a query with prices that are not reversed, what is above the cap is read as the cap.
LEMMA PricesAreCapped ==
  ASSUME NEW query0, Canonical(query0),
         NEW low \in Prices \union {NoPrice}, NEW high \in Prices \union {NoPrice},
         low = NoPrice \/ high = NoPrice \/ ~(low > high)
  PROVE  /\ Canonical(Priced(query0, Capped(low), Capped(high)))
         /\ ParseBrowseQuery(BuildBrowseHref(Priced(query0, low, high)))
              = Priced(query0, Capped(low), Capped(high))
<1> DEFINE meant == Priced(query0, Capped(low), Capped(high))
           url == BuildBrowseHref(Priced(query0, low, high))
           href == BuildBrowseHref(meant)
<1>1. PICK low2 \in Prices \union {NoPrice}, high2 \in Prices \union {NoPrice} :
        /\ low2 = Capped(low) /\ ~(low2 > MaxPrice) /\ Capped(low2) = low2
        /\ high2 = Capped(high) /\ ~(high2 > MaxPrice) /\ Capped(high2) = high2
        /\ low2 = NoPrice \/ high2 = NoPrice \/ ~(low2 > high2)
  BY CapFacts
<1>2. query0 \in Urls
  BY DEF Canonical
<1>3. Canonical(meant)
  <2>1. meant = [query0 EXCEPT !.minPrice = low2, !.maxPrice = high2]
    BY <1>1 DEF Priced
  <2> HIDE DEF meant
  <2> QED
    BY <1>1, <1>2, <2>1 DEF Canonical, Urls
<1>4. ParseBrowseQuery(href) = meant
  BY <1>3, RoundTrip
<1>5. PICK sort \in BrowseSorts \union {NoSort} :
        /\ url = [query0 EXCEPT !.minPrice = low, !.maxPrice = high, !.sort = sort]
        /\ href = [query0 EXCEPT !.minPrice = low2, !.maxPrice = high2, !.sort = sort]
  <2>1. PICK sort \in BrowseSorts \union {NoSort} :
          sort = IF query0.sort = DefaultSortFor(query0.q) THEN NoSort ELSE query0.sort
    BY <1>2 DEF Urls
  <2>2. url = [query0 EXCEPT !.minPrice = low, !.maxPrice = high, !.sort = sort]
    BY <1>2, <2>1 DEF BuildBrowseHref, Priced, Urls
  <2>3. href = [query0 EXCEPT !.minPrice = low2, !.maxPrice = high2, !.sort = sort]
    BY <1>1, <1>2, <2>1 DEF BuildBrowseHref, Priced, Urls
  <2> QED
    BY <2>2, <2>3
<1> HIDE DEF meant, url, href
<1>6. Priced(url, Capped(url.minPrice), Capped(url.maxPrice)) = href
  BY <1>1, <1>2, <1>5 DEF Priced, Urls
<1>7. Priced(href, Capped(href.minPrice), Capped(href.maxPrice)) = href
  BY <1>1, <1>2, <1>5 DEF Priced, Urls
<1>8. url.q = href.q /\ url.sort = href.sort
  BY <1>2, <1>5 DEF Urls
<1>9. ParseBrowseQuery(url) = ParseBrowseQuery(href)
  BY <1>6, <1>7, <1>8 DEF ParseBrowseQuery
<1> QED
  BY <1>3, <1>4, <1>9 DEF meant, url

\* The plain query, the cleared one and a link to a search are canonical.
LEMMA LinksAreCanonical ==
  /\ Plain \in Urls /\ Canonical([Plain EXCEPT !.sort = "newest"])
  /\ \A word \in Words : Canonical([Plain EXCEPT !.q = word, !.sort = "relevance"])
<1>1. Plain \in Urls
  BY DEF Plain, Urls
<1>2. [Plain EXCEPT !.sort = "newest"] =
        [ q |-> NoWord, tags |-> {}, kind |-> NoKind, place |-> NoPlace,
          minPrice |-> NoPrice, maxPrice |-> NoPrice, sort |-> "newest" ]
  BY DEF Plain
<1>3. Canonical([Plain EXCEPT !.sort = "newest"])
  <2>1. ~(NoPrice > MaxPrice)
    BY QueryAssumption DEF QueryAssumption, NoPrice
  <2> QED
    BY <1>2, <2>1 DEF Canonical, Urls, BrowseSorts, NoSort
<1>4. ASSUME NEW word \in Words
      PROVE  Canonical([Plain EXCEPT !.q = word, !.sort = "relevance"])
  <2> DEFINE link == [Plain EXCEPT !.q = word, !.sort = "relevance"]
  <2>0. Plain.minPrice = NoPrice /\ Plain.maxPrice = NoPrice /\ ~(NoPrice > MaxPrice)
    BY QueryAssumption DEF QueryAssumption, Plain, NoPrice
  <2>1. link \in Urls /\ link.q = word /\ link.sort = "relevance"
        /\ link.minPrice = NoPrice /\ link.maxPrice = NoPrice
    BY <1>1, <2>0 DEF Urls, BrowseSorts
  <2> HIDE DEF link
  <2>2. word # NoWord
    BY BarAssumption
  <2>3. Canonical(link)
    BY <2>0, <2>1, <2>2 DEF Canonical, NoSort
  <2> QED
    BY <2>3 DEF link
<1> QED
  BY <1>1, <1>3, <1>4

\* What a control makes of a URL is a URL.
LEMMA ControlsKeepUrls ==
  ASSUME NEW url \in Urls
  PROVE  /\ \A tag \in Tags : Toggled(url, tag) \in Urls
         /\ \A kind \in Kinds \union {NoKind} : [url EXCEPT !.kind = kind] \in Urls
         /\ \A place \in Places \union {NoPlace} : [url EXCEPT !.place = place] \in Urls
         /\ \A sort \in BrowseSorts : [url EXCEPT !.sort = sort] \in Urls
         /\ \A text \in Words \union {NoWord} : Searching(url, text) \in Urls
         /\ AnyPrice(url) \in Urls
         /\ \A low, high \in Prices \union {NoPrice} :
              Priced(url, low, high) \in Urls
<1>1. ASSUME NEW tag \in Tags PROVE Toggled(url, tag) \in Urls
  <2>1. url.tags \ {tag} \in SUBSET Tags /\ url.tags \union {tag} \in SUBSET Tags
    BY DEF Urls
  <2> DEFINE tags == IF tag \in url.tags THEN url.tags \ {tag} ELSE url.tags \union {tag}
  <2>2. tags \in SUBSET Tags /\ Toggled(url, tag) = [url EXCEPT !.tags = tags]
    BY <2>1 DEF Toggled
  <2> HIDE DEF tags
  <2> QED
    BY <2>2 DEF Urls
<1>2. "newest" \in BrowseSorts
  BY DEF BrowseSorts
<1>3. \A text \in Words \union {NoWord} : Searching(url, text) \in Urls
  BY <1>2 DEF Searching, Urls
<1>4. AnyPrice(url) \in Urls
  BY DEF AnyPrice, Priced, Urls
<1> QED
  BY <1>1, <1>3, <1>4 DEF Priced, Urls

\* What a control makes of a canonical query is canonical: a cleared search takes the
\* relevance sort with it, and relevance is offered with a search only.
LEMMA ControlsKeepCanonical ==
  ASSUME NEW url, Canonical(url)
  PROVE  /\ \A tag \in Tags : Canonical(Toggled(url, tag))
         /\ \A kind \in Kinds \union {NoKind} : Canonical([url EXCEPT !.kind = kind])
         /\ \A place \in Places \union {NoPlace} : Canonical([url EXCEPT !.place = place])
         /\ \A sort \in BrowseSorts :
              (sort = "relevance" => url.q # NoWord) => Canonical([url EXCEPT !.sort = sort])
         /\ \A text \in Words \union {NoWord} :
              Canonical(Searching(url, text)) /\ Searching(url, text).q = text
                /\ Searching(url, text).place = url.place
         /\ Canonical(AnyPrice(url))
<1>0. url \in Urls /\ "newest" # NoSort /\ NoSort \notin BrowseSorts
  BY DEF Canonical, NoSort, BrowseSorts
<1>1. ASSUME NEW tag \in Tags PROVE Canonical(Toggled(url, tag))
  <2>1. Toggled(url, tag) \in Urls
    BY <1>0, ControlsKeepUrls
  <2>2. /\ Toggled(url, tag).q = url.q /\ Toggled(url, tag).sort = url.sort
        /\ Toggled(url, tag).minPrice = url.minPrice /\ Toggled(url, tag).maxPrice = url.maxPrice
    BY <1>0 DEF Toggled, Urls
  <2> QED
    BY <2>1, <2>2 DEF Canonical
<1>2. ASSUME NEW kind \in Kinds \union {NoKind} PROVE Canonical([url EXCEPT !.kind = kind])
  BY <1>0, ControlsKeepUrls DEF Canonical, Urls
<1>3. ASSUME NEW place \in Places \union {NoPlace} PROVE Canonical([url EXCEPT !.place = place])
  BY <1>0, ControlsKeepUrls DEF Canonical, Urls
<1>4. ASSUME NEW sort \in BrowseSorts, sort = "relevance" => url.q # NoWord
      PROVE  Canonical([url EXCEPT !.sort = sort])
  BY <1>0, <1>4, ControlsKeepUrls DEF Canonical, Urls
<1>5. ASSUME NEW text \in Words \union {NoWord}
      PROVE  Canonical(Searching(url, text)) /\ Searching(url, text).q = text
               /\ Searching(url, text).place = url.place
  <2>1. Searching(url, text) \in Urls
    BY <1>0, ControlsKeepUrls
  <2>2. /\ Searching(url, text).q = text /\ Searching(url, text).place = url.place
        /\ Searching(url, text).minPrice = url.minPrice /\ Searching(url, text).maxPrice = url.maxPrice
        /\ Searching(url, text).sort = (IF text = NoWord /\ url.sort = "relevance" THEN "newest" ELSE url.sort)
    BY <1>0 DEF Searching, Urls
  <2> QED
    BY <1>0, <2>1, <2>2 DEF Canonical
<1>6. Canonical(AnyPrice(url))
  <2>1. AnyPrice(url) \in Urls
    BY <1>0, ControlsKeepUrls
  <2>2. /\ AnyPrice(url).q = url.q /\ AnyPrice(url).sort = url.sort
        /\ AnyPrice(url).minPrice = NoPrice /\ AnyPrice(url).maxPrice = NoPrice
    BY <1>0 DEF AnyPrice, Priced, Urls
  <2>3. ~(NoPrice > MaxPrice)
    BY QueryAssumption DEF QueryAssumption, NoPrice
  <2> QED
    BY <2>1, <2>2, <2>3 DEF Canonical
<1> QED
  BY <1>1, <1>2, <1>3, <1>4, <1>5, <1>6

-----------------------------------------------------------------------------
(* The filter bar *)

\* As long as one change was let finish before the next: at rest the page shows what the
\* user means, one box at most is ahead of it, and what is on its way is what they mean.
Following ==
    /\ Canonical(intent)
    /\ IF nav = {}
       THEN /\ query = intent
            /\ qBox.timer \in {{}, {query}} /\ placeBox.timer \in {{}, {query}}
            /\ qBox.timer = {} \/ placeBox.timer = {}
            /\ qBox.timer = {} => qBox.text = query.q
            /\ placeBox.timer = {} => placeBox.text = query.place
       ELSE /\ nav = {intent}
            /\ qBox.timer = {} /\ placeBox.timer = {}
            /\ intent.q = query.q => qBox.text = query.q
            /\ intent.place = query.place => placeBox.text = query.place

PagesRead == Canonical(query) /\ \A next \in nav : Canonical(next)

BarInv == BarTypeOK /\ PagesRead /\ (~overlapped => Following)

\* The types of the boxes, with their records spelled out.
QBoxOK == qBox.text \in Words \union {NoWord} /\ qBox.timer \subseteq Urls

PlaceBoxOK == placeBox.text \in Places \union {NoPlace} /\ placeBox.timer \subseteq Urls

RestOK ==
    /\ {minText, maxText} \subseteq Prices \union {NoPrice, Unreadable}
    /\ priceErr \in BOOLEAN /\ drawer \in BOOLEAN /\ wide \in BOOLEAN /\ ~(drawer /\ wide)

UserOK == intent \in Urls /\ overlapped \in BOOLEAN

\* A page that is asked for is a canonical query.
LEMMA PushedIsRead ==
  ASSUME BarInv, NEW next \in Urls, Push(next)
  PROVE  /\ query' = query /\ query' \in Urls /\ nav' \subseteq Urls /\ PagesRead'
         /\ nav' = {ParseBrowseQuery(BuildBrowseHref(next))}
         /\ Canonical(next) => nav' = {next}
<1> DEFINE shown == ParseBrowseQuery(BuildBrowseHref(next))
<1>1. BuildBrowseHref(next) \in Urls
  <2>1. NoSort \in BrowseSorts \union {NoSort}
    OBVIOUS
  <2> QED
    BY <2>1 DEF BuildBrowseHref, Urls
<1>2. Canonical(shown)
  BY <1>1, ReadingIsCanonical
<1>3. nav' = {shown} /\ query' = query
  BY DEF Push
<1>4. Canonical(next) => shown = next
  BY RoundTrip
<1> HIDE DEF shown
<1>5. nav' = {ParseBrowseQuery(BuildBrowseHref(next))}
  BY DEF Push
<1> QED
  BY <1>2, <1>3, <1>4, <1>5 DEF BarInv, PagesRead, BarTypeOK, Canonical

\* A select, a chip or a link: what the page shows is changed as the user means it.
LEMMA PatchKeepsInv ==
  ASSUME BarInv, NEW next \in Urls, NEW meant \in Urls, Patched(next, meant),
         ~overlapped /\ query = intent => meant = next /\ Canonical(next)
  PROVE  BarInv'
<1>1. /\ query' = query /\ query' \in Urls /\ nav' \subseteq Urls /\ PagesRead'
      /\ Canonical(next) => nav' = {next}
  BY PushedIsRead DEF Patched
<1>2. /\ intent' = meant /\ overlapped' = (overlapped \/ Pending)
      /\ UNCHANGED <<qBox, placeBox, textVars, drawerVars>>
  BY DEF Patched, Means
<1>3. BarTypeOK'
  BY <1>1, <1>2 DEF BarInv, BarTypeOK, textVars, drawerVars, Pending
<1>4. ASSUME ~overlapped' PROVE Following'
  <2>1. ~overlapped /\ nav = {} /\ qBox.timer = {} /\ placeBox.timer = {}
    BY <1>2, <1>4 DEF Pending
  <2>2. query = intent /\ qBox.text = query.q /\ placeBox.text = query.place
    BY <2>1 DEF BarInv, Following
  <2>3. Canonical(intent') /\ nav' = {intent'}
    BY <1>1, <1>2, <2>1, <2>2
  <2> QED
    BY <1>1, <1>2, <2>1, <2>2, <2>3 DEF Following
<1> QED
  BY <1>1, <1>3, <1>4 DEF BarInv

\* The URL is read and the boxes follow what has changed in it.
LEMMA ArriveKeepsInv == ASSUME BarInv, Arrive PROVE BarInv'
<1>1. PICK next \in nav :
        /\ query' = next /\ nav' = {}
        /\ qBox' = IF next.q = query.q \/ next.q = qBox.text THEN qBox ELSE Box(next.q)
        /\ placeBox' = IF next.place = query.place \/ next.place = placeBox.text THEN placeBox ELSE Box(next.place)
        /\ IF <<next.minPrice, next.maxPrice>> = <<query.minPrice, query.maxPrice>>
           THEN UNCHANGED textVars
           ELSE minText' = next.minPrice /\ maxText' = next.maxPrice /\ priceErr' = FALSE
        /\ UNCHANGED <<drawerVars, userVars>>
  BY DEF Arrive
<1>2. Canonical(next) /\ next \in Urls
  BY DEF BarInv, PagesRead, Canonical
<1>3. next.q \in Words \union {NoWord} /\ next.place \in Places \union {NoPlace}
      /\ {next.minPrice, next.maxPrice} \subseteq Prices \union {NoPrice}
  BY <1>2 DEF Urls
<1>4. QBoxOK' /\ PlaceBoxOK'
  BY <1>1, <1>3 DEF BarInv, BarTypeOK, QBoxOK, PlaceBoxOK, Box
<1>5. RestOK' /\ UserOK'
  BY <1>1, <1>3 DEF BarInv, BarTypeOK, RestOK, UserOK, textVars, drawerVars, userVars
<1>6. BarTypeOK' /\ PagesRead'
  BY <1>1, <1>2, <1>4, <1>5 DEF BarTypeOK, PagesRead, QBoxOK, PlaceBoxOK, RestOK, UserOK
<1>7. ASSUME ~overlapped' PROVE Following'
  <2>1. ~overlapped /\ intent' = intent
    BY <1>1, <1>7 DEF userVars
  <2>2. /\ Canonical(intent) /\ next = intent
        /\ qBox.timer = {} /\ placeBox.timer = {}
        /\ intent.q = query.q => qBox.text = query.q
        /\ intent.place = query.place => placeBox.text = query.place
    BY <2>1, <1>1 DEF BarInv, Following
  <2>3. qBox'.timer = {} /\ qBox'.text = query'.q
    BY <1>1, <2>2 DEF Box
  <2>4. placeBox'.timer = {} /\ placeBox'.text = query'.place
    BY <1>1, <2>2 DEF Box
  <2> QED
    BY <1>1, <2>1, <2>2, <2>3, <2>4 DEF Following
<1> QED
  BY <1>6, <1>7 DEF BarInv

\* A box runs ahead of the page: its timer holds the page as it is.
LEMMA TypingKeepsInv ==
  ASSUME BarInv,
         \/ \E text \in Words \union {NoWord} : TypeText(text)
         \/ \E text \in Places \union {NoPlace} : TypePlace(text)
  PROVE  BarInv'
<1>0. query \in Urls
  BY DEF BarInv, BarTypeOK
<1>1. CASE \E text \in Words \union {NoWord} : TypeText(text)
  <2> PICK text \in Words \union {NoWord} : TypeText(text)
    BY <1>1
  <2>1. /\ qBox' = [text |-> text, timer |-> IF text = query.q THEN {} ELSE {query}]
        /\ intent' = intent /\ overlapped' = (overlapped \/ nav # {} \/ placeBox.timer # {})
        /\ UNCHANGED <<query, nav, placeBox, textVars, drawerVars>>
    BY DEF TypeText, Means, pageVars
  <2>2. BarTypeOK' /\ PagesRead'
    BY <1>0, <2>1 DEF BarInv, BarTypeOK, PagesRead, textVars, drawerVars
  <2>3. ASSUME ~overlapped' PROVE Following'
    <3>1. ~overlapped /\ nav = {} /\ placeBox.timer = {} /\ Following
      BY <2>1, <2>3 DEF BarInv
    <3> QED
      BY <2>1, <3>1 DEF Following
  <2> QED
    BY <2>2, <2>3 DEF BarInv
<1>2. CASE \E text \in Places \union {NoPlace} : TypePlace(text)
  <2> PICK text \in Places \union {NoPlace} : TypePlace(text)
    BY <1>2
  <2>1. /\ placeBox' = [text |-> text, timer |-> IF text = query.place THEN {} ELSE {query}]
        /\ intent' = intent /\ overlapped' = (overlapped \/ nav # {} \/ qBox.timer # {})
        /\ UNCHANGED <<query, nav, qBox, textVars, drawerVars>>
    BY DEF TypePlace, Means, pageVars
  <2>2. BarTypeOK' /\ PagesRead'
    BY <1>0, <2>1 DEF BarInv, BarTypeOK, PagesRead, textVars, drawerVars
  <2>3. ASSUME ~overlapped' PROVE Following'
    <3>1. ~overlapped /\ nav = {} /\ qBox.timer = {} /\ Following
      BY <2>1, <2>3 DEF BarInv
    <3> QED
      BY <2>1, <3>1 DEF Following
  <2> QED
    BY <2>2, <2>3 DEF BarInv
<1> QED
  BY <1>1, <1>2

\* The pause is over: the text goes into the query that its timer closed over, and that
\* is what the user means as long as nothing else happened meanwhile.
LEMMA TextPauseKeepsInv == ASSUME BarInv, TextPause PROVE BarInv'
<1>1. PICK old \in qBox.timer :
        /\ Push(Searching(old, qBox.text))
        /\ Means(Searching(intent, qBox.text), nav # {} \/ placeBox.timer # {})
        /\ qBox' = Box(qBox.text)
        /\ UNCHANGED <<placeBox, textVars, drawerVars>>
  BY DEF TextPause
<1> DEFINE next == Searching(old, qBox.text)
           meant == Searching(intent, qBox.text)
<1>2. old \in Urls /\ intent \in Urls /\ qBox.text \in Words \union {NoWord}
  BY DEF BarInv, BarTypeOK
<1>3. next \in Urls /\ meant \in Urls
  BY <1>2, ControlsKeepUrls
<1>4. /\ query' = query /\ query' \in Urls /\ nav' \subseteq Urls /\ PagesRead'
      /\ Canonical(next) => nav' = {next}
  BY <1>1, <1>3, PushedIsRead
<1>5. /\ intent' = meant /\ overlapped' = (overlapped \/ nav # {} \/ placeBox.timer # {})
      /\ qBox' = [text |-> qBox.text, timer |-> {}]
      /\ UNCHANGED <<placeBox, textVars, drawerVars>>
  BY <1>1 DEF Means, Box
<1>6. ASSUME ~overlapped' PROVE Following'
  <2>1. ~overlapped /\ nav = {} /\ placeBox.timer = {} /\ Following
    BY <1>5, <1>6 DEF BarInv
  <2>2. Canonical(intent) /\ query = intent /\ old = intent /\ placeBox.text = query.place
    BY <2>1 DEF Following
  <2>3. Canonical(next) /\ next = meant /\ next.q = qBox.text
    BY <1>2, <2>2, ControlsKeepCanonical
  <2>4. nav' = {intent'} /\ Canonical(intent') /\ intent'.q = qBox.text
    BY <1>4, <1>5, <2>3
  <2> QED
    BY <1>4, <1>5, <2>1, <2>2, <2>4 DEF Following
<1> HIDE DEF next, meant
<1>7. BarTypeOK'
  BY <1>2, <1>3, <1>4, <1>5 DEF BarInv, BarTypeOK, textVars, drawerVars
<1> QED
  BY <1>4, <1>6, <1>7 DEF BarInv

\* The same for the location.
LEMMA PlacePauseKeepsInv == ASSUME BarInv, PlacePause PROVE BarInv'
<1>1. PICK old \in placeBox.timer :
        /\ Push([old EXCEPT !.place = placeBox.text])
        /\ Means([intent EXCEPT !.place = placeBox.text], nav # {} \/ qBox.timer # {})
        /\ placeBox' = Box(placeBox.text)
        /\ UNCHANGED <<qBox, textVars, drawerVars>>
  BY DEF PlacePause
<1> DEFINE next == [old EXCEPT !.place = placeBox.text]
           meant == [intent EXCEPT !.place = placeBox.text]
<1>2. old \in Urls /\ intent \in Urls /\ placeBox.text \in Places \union {NoPlace}
  BY DEF BarInv, BarTypeOK
<1>3. next \in Urls /\ meant \in Urls
  BY <1>2, ControlsKeepUrls
<1>4. /\ query' = query /\ query' \in Urls /\ nav' \subseteq Urls /\ PagesRead'
      /\ Canonical(next) => nav' = {next}
  BY <1>1, <1>3, PushedIsRead
<1>5. /\ intent' = meant /\ overlapped' = (overlapped \/ nav # {} \/ qBox.timer # {})
      /\ placeBox' = [text |-> placeBox.text, timer |-> {}]
      /\ UNCHANGED <<qBox, textVars, drawerVars>>
  BY <1>1 DEF Means, Box
<1>6. ASSUME ~overlapped' PROVE Following'
  <2>1. ~overlapped /\ nav = {} /\ qBox.timer = {} /\ Following
    BY <1>5, <1>6 DEF BarInv
  <2>2. Canonical(intent) /\ query = intent /\ old = intent /\ qBox.text = query.q
    BY <2>1 DEF Following
  <2>3. Canonical(next) /\ next = meant
    BY <1>2, <2>2, ControlsKeepCanonical
  <2>4. nav' = {intent'} /\ Canonical(intent') /\ intent'.place = placeBox.text
    BY <1>2, <1>4, <1>5, <2>3 DEF Urls
  <2> QED
    BY <1>4, <1>5, <2>1, <2>2, <2>4 DEF Following
<1> HIDE DEF next, meant
<1>7. BarTypeOK'
  BY <1>2, <1>3, <1>4, <1>5 DEF BarInv, BarTypeOK, textVars, drawerVars
<1> QED
  BY <1>4, <1>6, <1>7 DEF BarInv

\* A price range that can be read and is not reversed goes into the URL on blur.
LEMMA ApplyPriceKeepsInv == ASSUME BarInv, ApplyPrice PROVE BarInv'
<1> DEFINE wrong == \/ Unreadable \in {minText, maxText}
                    \/ minText # NoPrice /\ maxText # NoPrice /\ minText > maxText
           next == Priced(query, minText, maxText)
           meant == Priced(intent, Capped(minText), Capped(maxText))
<1>1. /\ priceErr' = wrong
      /\ IF wrong \/ next = query
         THEN UNCHANGED <<pageVars, userVars>>
         ELSE Push(next) /\ Means(meant, Pending)
      /\ UNCHANGED <<qBox, placeBox, minText, maxText, drawerVars>>
  BY DEF ApplyPrice
<1>2. query \in Urls /\ intent \in Urls /\ wrong \in BOOLEAN
  BY DEF BarInv, BarTypeOK
<1>3. CASE wrong \/ next = query
  <2>1. UNCHANGED <<query, nav, intent, overlapped, qBox, placeBox, minText, maxText, drawer, wide>>
    BY <1>1, <1>3 DEF pageVars, userVars, drawerVars
  <2>2. priceErr' \in BOOLEAN
    BY <1>1, <1>2
  <2> HIDE DEF wrong, next, meant
  <2>3. BarTypeOK' /\ PagesRead' /\ (~overlapped' => Following')
    BY <2>1, <2>2 DEF BarInv, BarTypeOK, PagesRead, Following
  <2> QED
    BY <2>3 DEF BarInv
<1>4. CASE ~(wrong \/ next = query)
  <2>1. minText \in Prices \union {NoPrice} /\ maxText \in Prices \union {NoPrice}
        /\ (minText = NoPrice \/ maxText = NoPrice \/ ~(minText > maxText))
    BY <1>4 DEF BarInv, BarTypeOK
  <2>2. next \in Urls /\ meant \in Urls
    BY <1>2, <2>1, CapFacts, ControlsKeepUrls
  <2>3. Push(next) /\ intent' = meant /\ overlapped' = (overlapped \/ Pending)
        /\ UNCHANGED <<qBox, placeBox, minText, maxText, drawer, wide>> /\ priceErr' \in BOOLEAN
    BY <1>1, <1>2, <1>4 DEF Means, drawerVars
  <2>4. /\ query' = query /\ query' \in Urls /\ nav' \subseteq Urls /\ PagesRead'
        /\ nav' = {ParseBrowseQuery(BuildBrowseHref(next))}
    BY <2>2, <2>3, PushedIsRead
  <2>5. ASSUME ~overlapped' PROVE Following'
    <3>1. ~overlapped /\ nav = {} /\ qBox.timer = {} /\ placeBox.timer = {} /\ Following
      BY <2>3, <2>5 DEF Pending, BarInv
    <3>2. Canonical(intent) /\ query = intent /\ qBox.text = query.q /\ placeBox.text = query.place
      BY <3>1 DEF Following
    <3>3. Canonical(meant) /\ ParseBrowseQuery(BuildBrowseHref(next)) = meant
      BY <2>1, <3>2, PricesAreCapped
    <3>4. nav' = {intent'} /\ Canonical(intent')
      BY <2>3, <2>4, <3>3
    <3> QED
      BY <2>3, <2>4, <3>1, <3>2, <3>4 DEF Following
  <2> HIDE DEF wrong, next, meant
  <2>6. BarTypeOK'
    BY <2>2, <2>3, <2>4 DEF BarInv, BarTypeOK, Pending
  <2> QED
    BY <2>4, <2>5, <2>6 DEF BarInv
<1> QED
  BY <1>3, <1>4

\* The price boxes and the drawer change nothing of the query.
LEMMA RestKeepsInv ==
  ASSUME BarInv, UNCHANGED <<pageVars, qBox, placeBox, userVars>>, RestOK'
  PROVE  BarInv'
<1>1. UNCHANGED <<query, nav, qBox, placeBox, intent, overlapped>>
  BY DEF pageVars, userVars
<1>2. BarTypeOK'
  BY <1>1 DEF BarInv, BarTypeOK, RestOK
<1>3. PagesRead' /\ (~overlapped' => Following')
  BY <1>1 DEF BarInv, PagesRead, Following
<1> QED
  BY <1>2, <1>3 DEF BarInv

\* Every step of the bar keeps the invariant.
LEMMA BarStepInv == BarInv /\ BarStep => BarInv'
<1> SUFFICES ASSUME BarInv, BarStep PROVE BarInv'
  OBVIOUS
<1>0. query \in Urls /\ intent \in Urls /\ Canonical(query) /\ RestOK
      /\ NoKind \in Kinds \union {NoKind} /\ NoPlace \in Places \union {NoPlace}
  BY DEF BarInv, BarTypeOK, PagesRead, RestOK
<1>1. ASSUME NEW kind \in Kinds \union {NoKind}, Choose(kind) PROVE BarInv'
  <2> DEFINE next == [query EXCEPT !.kind = kind]
             meant == [intent EXCEPT !.kind = kind]
  <2>1. next \in Urls /\ meant \in Urls /\ Canonical(next) /\ Patched(next, meant)
        /\ (query = intent => meant = next)
    BY <1>0, <1>1, ControlsKeepUrls, ControlsKeepCanonical DEF Choose
  <2> HIDE DEF next, meant
  <2> QED
    BY <2>1, PatchKeepsInv
<1>2. ASSUME NEW tag \in Tags, ToggleTag(tag) PROVE BarInv'
  <2>1. Toggled(query, tag) \in Urls /\ Toggled(intent, tag) \in Urls /\ Canonical(Toggled(query, tag))
    BY <1>0, ControlsKeepUrls, ControlsKeepCanonical
  <2> QED
    BY <1>2, <2>1, PatchKeepsInv DEF ToggleTag
<1>3. ASSUME NEW sort \in BrowseSorts, ChooseSort(sort) PROVE BarInv'
  <2> DEFINE next == [query EXCEPT !.sort = sort]
             meant == [intent EXCEPT !.sort = sort]
  <2>1. next \in Urls /\ meant \in Urls /\ Canonical(next) /\ Patched(next, meant)
        /\ (query = intent => meant = next)
    BY <1>0, <1>3, ControlsKeepUrls, ControlsKeepCanonical DEF ChooseSort
  <2> HIDE DEF next, meant
  <2> QED
    BY <2>1, PatchKeepsInv
<1>4. CASE RemoveChip
  <2>1. CASE Choose(NoKind)
    BY <1>0, <1>1, <2>1
  <2>2. CASE Patched([query EXCEPT !.place = NoPlace], [intent EXCEPT !.place = NoPlace])
    <3> DEFINE next == [query EXCEPT !.place = NoPlace]
               meant == [intent EXCEPT !.place = NoPlace]
    <3>1. next \in Urls /\ meant \in Urls /\ Canonical(next) /\ Patched(next, meant)
          /\ (query = intent => meant = next)
      BY <1>0, <2>2, ControlsKeepUrls, ControlsKeepCanonical
    <3> HIDE DEF next, meant
    <3> QED
      BY <3>1, PatchKeepsInv
  <2>3. CASE Patched(AnyPrice(query), AnyPrice(intent))
    <3>1. AnyPrice(query) \in Urls /\ AnyPrice(intent) \in Urls /\ Canonical(AnyPrice(query))
      BY <1>0, ControlsKeepUrls, ControlsKeepCanonical
    <3> QED
      BY <2>3, <3>1, PatchKeepsInv
  <2> QED
    BY <1>4, <2>1, <2>2, <2>3 DEF RemoveChip
<1>5. ASSUME NEW url, Canonical(url), Anew(url) PROVE BarInv'
  <2>1. url \in Urls
    BY <1>5 DEF Canonical
  <2> QED
    BY <1>5, <2>1, PatchKeepsInv DEF Anew
<1>6. CASE ClearAll
  BY <1>5, <1>6, LinksAreCanonical DEF ClearAll
<1>7. ASSUME NEW word \in Words, Elsewhere(word) PROVE BarInv'
  BY <1>5, <1>7, LinksAreCanonical DEF Elsewhere
<1>8. ASSUME NEW low \in Prices \union {NoPrice, Unreadable}, NEW high \in Prices \union {NoPrice, Unreadable},
             TypePrice(low, high)
      PROVE  BarInv'
  <2>1. UNCHANGED <<pageVars, qBox, placeBox, userVars>> /\ RestOK'
    BY <1>0, <1>8 DEF TypePrice, RestOK, drawerVars
  <2> QED
    BY <2>1, RestKeepsInv
<1>9. CASE OpenDrawer \/ CloseDrawer \/ Resize
  <2>0. UNCHANGED <<pageVars, qBox, placeBox, userVars>> /\ UNCHANGED <<minText, maxText, priceErr>>
    BY <1>9 DEF OpenDrawer, CloseDrawer, Resize, textVars
  <2>a. drawer \in BOOLEAN /\ wide \in BOOLEAN
    BY <1>0 DEF RestOK
  <2>b. drawer' \in BOOLEAN /\ wide' \in BOOLEAN /\ ~(drawer' /\ wide')
    <3>1. CASE OpenDrawer
      BY <2>a, <3>1 DEF OpenDrawer
    <3>2. CASE CloseDrawer
      BY <2>a, <3>2 DEF CloseDrawer
    <3>3. CASE Resize
      BY <2>a, <3>3 DEF Resize
    <3> QED
      BY <1>9, <3>1, <3>2, <3>3
  <2>1. UNCHANGED <<pageVars, qBox, placeBox, userVars>> /\ RestOK'
    BY <1>0, <2>0, <2>b DEF RestOK
  <2> QED
    BY <2>1, RestKeepsInv
<1> QED
  BY <1>1, <1>2, <1>3, <1>4, <1>6, <1>7, <1>8, <1>9, ArriveKeepsInv, TypingKeepsInv,
     TextPauseKeepsInv, PlacePauseKeepsInv, ApplyPriceKeepsInv DEF BarStep

\* The invariant holds of every behaviour of the bar.
LEMMA BarInvariant == BarSpec => []BarInv
<1>1. BarInit => BarInv
  <2> SUFFICES ASSUME BarInit PROVE BarInv
    OBVIOUS
  <2>1. Canonical(query)
    BY LinksAreCanonical, ReadingIsCanonical DEF BarInit
  <2>2. query.q = NoWord /\ query.place = NoPlace
    BY DEF BarInit, ParseBrowseQuery, Priced, Plain
  <2> QED
    BY <2>1, <2>2 DEF BarInit, BarInv, BarTypeOK, PagesRead, Following, Box, Canonical
<1>2. BarInv /\ [BarStep]_barVars => BarInv'
  <2>1. BarInv /\ UNCHANGED barVars => BarInv'
    BY DEF BarInv, BarTypeOK, PagesRead, Following, barVars
  <2> QED
    BY <2>1, BarStepInv
<1> QED
  BY <1>1, <1>2, PTL DEF BarSpec

\* Whatever sets of words, tags, kinds, places and prices there are, changes that are each
\* let finish end with a page that shows the query they amount to and boxes that say so.
THEOREM BarAlwaysFollows == BarSpec => []BarFollowsUser
<1>1. BarInv => BarFollowsUser
  BY DEF BarInv, Following, BarFollowsUser, Pending
<1> QED
  BY <1>1, BarInvariant, PTL

-----------------------------------------------------------------------------
(* A page of the grid *)

Belongs(g, shop, q) == Matches(g, q) /\ InShop(g, shop)

\* What lies between two cursors.
Lies(row, bound, next) ==
    /\ bound = NoCursor \/ After(row, bound)
    /\ next = NoCursor \/ ~After(row, next)

\* The row by newest, whatever the filters are.
AgeRow(g) == [key |-> goods[g].createdAt, id |-> g]

\* A row is keyed, and tells its listing.
LEMMA SortRowFacts ==
  ASSUME goods \in [Goods -> Good], NEW g \in Goods, NEW q, q.sort \in BrowseSorts
  PROVE  /\ SortRow(g, q) \in Keyed /\ Item(SortRow(g, q)) = g
         /\ AgeRow(g) \in Keyed
         /\ q.sort = "newest" => SortRow(g, q) = AgeRow(g)
<1>1. goods[g].createdAt \in Int /\ goods[g].price \in Int /\ g \in Int /\ g > 0
  <2>1. \A x \in Good : x.createdAt \in 1..2 /\ x.price \in Prices
    BY DEF Good
  <2>2. (\A x \in Prices : x \in Int) /\ (\A x \in Goods : x \in Int /\ x > 0)
    BY BrowseAssumption, QueryAssumption DEF BrowseAssumption, QueryAssumption
  <2>3. goods[g] \in Good
    OBVIOUS
  <2> QED
    BY <2>1, <2>2, <2>3
<1>2. q.sort \in {"newest", "price_asc", "price_desc", "relevance"}
  BY DEF BrowseSorts
<1>3. CASE q.sort = "newest"
  BY <1>1, <1>3 DEF SortRow, Keyed, Item, AgeRow
<1>4. CASE q.sort = "price_asc"
  <2>1. SortRow(g, q) = [key |-> -goods[g].price, id |-> -g]
    BY <1>4 DEF SortRow
  <2> QED
    BY <1>1, <1>4, <2>1 DEF Keyed, Item, AgeRow
<1>5. CASE q.sort = "price_desc"
  BY <1>1, <1>5 DEF SortRow, Keyed, Item, AgeRow
<1>6. CASE q.sort = "relevance"
  <2>1. SortRow(g, q) = [key |-> IF goods[g].word = q.q THEN 1 ELSE 0, id |-> g]
    BY <1>6 DEF SortRow
  <2> QED
    BY <1>1, <1>6, <2>1 DEF Keyed, Item, AgeRow
<1> QED
  BY <1>2, <1>3, <1>4, <1>5, <1>6

\* The rows of a query are finitely many.
LEMMA ListedRows ==
  ASSUME goods \in [Goods -> Good], NEW shop, NEW q, q.sort \in BrowseSorts
  PROVE  Listed(shop, q) \in SUBSET Keyed /\ IsFiniteSet(Listed(shop, q))
<1> DEFINE some == {h \in Goods : Matches(h, q) /\ InShop(h, shop)}
           f == [g \in some |-> SortRow(g, q)]
<1>1. Listed(shop, q) \in SUBSET Keyed
  BY SortRowFacts DEF Listed
<1>2. IsFiniteSet(some)
  BY BrowseAssumption, FS_Subset DEF BrowseAssumption
<1>3. f \in Surjection(some, Listed(shop, q))
  BY DEF Listed, Surjection
<1> QED
  BY <1>1, <1>2, <1>3, FS_Surjection

\* The links' queries have a sort.
LEMMA CanonicalSort == \A q : Canonical(q) => q \in Urls /\ q.sort \in BrowseSorts
  BY DEF Canonical, Urls

\* The first page's cursor is bound to nothing.
LEMMA BoundCursors ==
  ASSUME NEW q, Canonical(q)
  PROVE  NoCursor \notin CursorFor(Binding(q))
<1>1. q \in Urls /\ q.sort \in BrowseSorts
  BY CanonicalSort
<1>2. Filters(q) \in Urls
  <2>1. NoSort \in BrowseSorts \union {NoSort}
    OBVIOUS
  <2> QED
    BY <1>1, <2>1 DEF Filters, Urls
<1>3. Binding(q) \in BrowseSorts \X {Hash[url] : url \in Urls}
  BY <1>1, <1>2 DEF Binding, FilterFingerprint
<1> QED
  BY <1>3, BrowseAssumption DEF CursorFor, BrowseAssumption

\* Sort and filters make the query.
LEMMA SortAndFilters ==
  ASSUME NEW q \in Urls, NEW r \in Urls, q.sort = r.sort, Filters(q) = Filters(r)
  PROVE  q = r
<1> DEFINE f == Filters(q)
           f2 == Filters(r)
<1>1. /\ f.q = q.q /\ f.tags = q.tags /\ f.kind = q.kind /\ f.place = q.place
      /\ f.minPrice = q.minPrice /\ f.maxPrice = q.maxPrice
      /\ f2.q = r.q /\ f2.tags = r.tags /\ f2.kind = r.kind /\ f2.place = r.place
      /\ f2.minPrice = r.minPrice /\ f2.maxPrice = r.maxPrice
  BY DEF Filters, Urls
<1>2. f = f2
  OBVIOUS
<1> HIDE DEF f, f2
<1>3. q = [q |-> q.q, tags |-> q.tags, kind |-> q.kind, place |-> q.place,
           minPrice |-> q.minPrice, maxPrice |-> q.maxPrice, sort |-> q.sort]
      /\ r = [q |-> r.q, tags |-> r.tags, kind |-> r.kind, place |-> r.place,
              minPrice |-> r.minPrice, maxPrice |-> r.maxPrice, sort |-> r.sort]
  BY DEF Urls
<1> QED
  BY <1>1, <1>2, <1>3

HasItem(items, g) == \E k \in DOMAIN items : items[k] = g

\* A page, of whatever age and whatever filters of one fingerprint, repeats nothing, leads
\* on to a later cursor of its sort, and by newest has nothing that lies elsewhere.
PageInOrder(page, q, cursor) ==
    LET bound == Decode(cursor, Binding(q))
    IN  /\ page.first = (bound = NoCursor)
        /\ page.items \in Seq(Goods) /\ NoRepeat(page.items)
        /\ page.next \in CursorFor(Binding(q)) \union {NoCursor}
        /\ bound # NoCursor /\ page.next # NoCursor => Precedes(bound, page.next)
        /\ q.sort = "newest" =>
              \A g \in Goods : HasItem(page.items, g) => Lies(AgeRow(g), bound, page.next)

\* Of what nobody touched since, it has what belongs there and lies between its cursors.
Exact(page, shop, q, cursor) ==
    LET bound == Decode(cursor, Binding(q))
    IN  \A g \in Goods \ touched :
          HasItem(page.items, g) <=> Belongs(g, shop, q) /\ Lies(SortRow(g, q), bound, page.next)

\* A page that is fetched is both.
LEMMA FetchedIsSound ==
  ASSUME goods \in [Goods -> Good], NEW shop, NEW q, Canonical(q), NEW cursor
  PROVE  PageInOrder(PageOf(shop, q, cursor), q, cursor) /\ Exact(PageOf(shop, q, cursor), shop, q, cursor)
<1> DEFINE bound == Decode(cursor, Binding(q))
           all == Listed(shop, q)
           rows == Rows(all, bound, PageSize)
           next == NextCursor(all, bound, PageSize, Binding(q))
           items == [k \in DOMAIN rows |-> Item(rows[k])]
           page == PageOf(shop, q, cursor)
<1>0. q \in Urls /\ q.sort \in BrowseSorts
  BY CanonicalSort
<1>1. page = [items |-> items, next |-> next, first |-> bound = NoCursor]
  BY DEF PageOf
<1>2. all \in SUBSET Keyed /\ IsFiniteSet(all)
  BY <1>0, ListedRows
<1>3. NoCursor \notin CursorFor(Binding(q)) /\ PageSize \in Nat \ {0}
  BY BoundCursors, BrowseAssumption DEF BrowseAssumption
<1> HIDE DEF all, bound
<1>4. /\ rows \in Seq(Rest(all, bound))
      /\ \A j, k \in DOMAIN rows : rows[j] = rows[k] => j = k
      /\ next # NoCursor => next \in CursorFor(Binding(q)) /\ At(next) \in Rest(all, bound)
      /\ \A r \in Rest(all, bound) :
            (\E k \in DOMAIN rows : rows[k] = r) <=> next = NoCursor \/ ~After(r, next)
  <2>1. PICK o : o = Binding(q)
    OBVIOUS
  <2>2. rows = Rows(all, bound, PageSize) /\ next = NextCursor(all, bound, PageSize, o)
    BY <2>1
  <2> HIDE DEF rows, next
  <2>3. NoCursor \notin CursorFor(o)
    BY <1>3, <2>1
  <2>4. /\ rows \in Seq(Rest(all, bound))
        /\ \A j, k \in DOMAIN rows : rows[j] = rows[k] => j = k
        /\ next # NoCursor => next \in CursorFor(o) /\ At(next) \in Rest(all, bound)
        /\ \A r \in Rest(all, bound) :
              (\E k \in DOMAIN rows : rows[k] = r) <=> next = NoCursor \/ ~After(r, next)
    BY <1>2, <1>3, <2>2, <2>3, PageSplits
  <2> QED
    BY <2>1, <2>4
<1> HIDE DEF rows, next, page
<1>5. page.items = items /\ page.next = next /\ page.first = (bound = NoCursor)
  BY <1>1
<1>6. \A r \in all : \E h \in Goods : Belongs(h, shop, q) /\ r = SortRow(h, q)
  BY DEF all, Listed, Belongs
<1>7. \A h \in Goods : Belongs(h, shop, q) => SortRow(h, q) \in all
  BY DEF all, Listed, Belongs
<1>8. \A k \in DOMAIN rows : rows[k] \in Rest(all, bound) /\ rows[k] \in all
  <2>1. \A k \in DOMAIN rows : rows[k] \in Rest(all, bound)
    BY <1>4
  <2> QED
    BY <2>1 DEF Rest
<1>9. ASSUME NEW k \in DOMAIN rows
      PROVE  /\ items[k] \in Goods /\ rows[k] = SortRow(items[k], q)
             /\ Belongs(items[k], shop, q)
             /\ After(rows[k], bound) \/ bound = NoCursor
  <2>1. PICK h \in Goods : Belongs(h, shop, q) /\ rows[k] = SortRow(h, q)
    BY <1>6, <1>8
  <2>2. items[k] = h
    BY <1>0, <2>1, SortRowFacts
  <2>3. After(rows[k], bound) \/ bound = NoCursor
    BY <1>8 DEF Rest
  <2> QED
    BY <2>1, <2>2, <2>3
<1> HIDE DEF items
<1>10. DOMAIN items = DOMAIN rows
  BY DEF items
<1>11. items \in Seq(Goods)
  <2>1. Len(rows) \in Nat /\ DOMAIN rows = 1..Len(rows)
    BY <1>4
  <2>2. items = [k \in 1..Len(rows) |-> items[k]]
    BY <2>1 DEF items
  <2>3. \A k \in 1..Len(rows) : items[k] \in Goods
    BY <1>9, <2>1
  <2> QED
    BY <2>1, <2>2, <2>3
<1>12. NoRepeat(items)
  BY <1>4, <1>9, <1>10 DEF NoRepeat
<1>13. ASSUME NEW g \in Goods
       PROVE  HasItem(items, g) <=> Belongs(g, shop, q) /\ Lies(SortRow(g, q), bound, next)
  <2>1. ASSUME HasItem(items, g) PROVE Belongs(g, shop, q) /\ Lies(SortRow(g, q), bound, next)
    <3>1. PICK k \in DOMAIN rows : items[k] = g
      BY <1>10, <2>1 DEF HasItem
    <3>2. rows[k] = SortRow(g, q) /\ Belongs(g, shop, q) /\ (After(rows[k], bound) \/ bound = NoCursor)
      BY <1>9, <3>1
    <3>3. next = NoCursor \/ ~After(rows[k], next)
      BY <1>4, <1>8
    <3> QED
      BY <3>2, <3>3 DEF Lies
  <2>2. ASSUME Belongs(g, shop, q), Lies(SortRow(g, q), bound, next) PROVE HasItem(items, g)
    <3>1. SortRow(g, q) \in Rest(all, bound)
      BY <1>7, <2>2 DEF Rest, Lies
    <3>2. PICK k \in DOMAIN rows : rows[k] = SortRow(g, q)
      BY <1>4, <2>2, <3>1 DEF Lies
    <3>3. items[k] = g
      BY <1>0, <3>2, SortRowFacts DEF items
    <3> QED
      BY <1>10, <3>2, <3>3 DEF HasItem
  <2> QED
    BY <2>1, <2>2
<1>14. bound # NoCursor /\ next # NoCursor => Precedes(bound, next)
  BY <1>4 DEF Rest, After, Precedes, At
<1>15. next \in CursorFor(Binding(q)) \union {NoCursor}
  BY <1>4
<1>16. q.sort = "newest" => \A g \in Goods : HasItem(items, g) => Lies(AgeRow(g), bound, next)
  BY <1>0, <1>13, SortRowFacts
<1> QED
  BY <1>5, <1>11, <1>12, <1>13, <1>14, <1>15, <1>16 DEF PageInOrder, Exact, page, bound

-----------------------------------------------------------------------------
(* The cache and the walk *)

\* The key of the cache tells everything that defines a page, up to its hash.
LEMMA KeyTells ==
  ASSUME NEW shop, NEW q, NEW cursor, NEW shop2, NEW q2, NEW cursor2,
         CacheKey(shop, q, cursor) = CacheKey(shop2, q2, cursor2)
  PROVE  /\ shop = shop2 /\ q.sort = q2.sort /\ cursor = cursor2 /\ Binding(q) = Binding(q2)
         /\ Hash[Filters(q)] = Hash[Filters(q2)]
BY DEF CacheKey, Binding, FilterFingerprint

\* Every page in the cache is in order for what it is found by.
CacheOrdered ==
    \A shop, cursor, q :
        Canonical(q) /\ CacheKey(shop, q, cursor) \in DOMAIN held =>
            PageInOrder(held[CacheKey(shop, q, cursor)], q, cursor)

\* It was asked for.
CacheAsked ==
    \A shop, cursor, q : CacheKey(shop, q, cursor) \in DOMAIN held =>
        \E r \in asked : r.sort = q.sort /\ Hash[Filters(r)] = Hash[Filters(q)]

\* It is exact as long as the hash tells the filters apart.
CacheExact ==
    HashTells => \A shop, cursor : \A q \in asked :
        CacheKey(shop, q, cursor) \in DOMAIN held =>
            Exact(held[CacheKey(shop, q, cursor)], shop, q, cursor)

AskedRead == \A q \in asked : Canonical(q)

Walks(v) ==
    /\ v.pc \in {"none", "more", "end"}
    /\ Canonical(v.query)
    /\ v.seen \in Seq(Goods)
    /\ v.pc = "more" => v.cursor \in CursorFor(Binding(v.query))
    /\ v.pc = "none" => v.seen = <<>>
    /\ v.pc # "none" => v.query \in asked
    /\ v.pc # "more" => v.cursor = NoCursor

OnceAtMost(seen, g) == \A j, k \in DOMAIN seen : seen[j] = g /\ seen[k] = g => j = k

\* By newest, what was shown is not after the cursor.
ShownInOrder(v) ==
    v.query.sort = "newest" => \A g \in Goods :
        /\ OnceAtMost(v.seen, g)
        /\ HasItem(v.seen, g) => Lies(AgeRow(g), NoCursor, v.cursor)

\* Of what nobody touched, what belongs there and is not after the cursor was shown.
ShownExactly(v) ==
    HashTells /\ v.pc # "none" => \A g \in Goods \ touched :
        /\ OnceAtMost(v.seen, g)
        /\ HasItem(v.seen, g) <=> Belongs(g, v.shop, v.query) /\ Lies(SortRow(g, v.query), NoCursor, v.cursor)

BrowseInv ==
    /\ goods \in [Goods -> Good] /\ touched \subseteq Goods
    /\ AskedRead /\ CacheOrdered /\ CacheAsked /\ CacheExact
    /\ Walks(visit) /\ ShownInOrder(visit) /\ ShownExactly(visit)

\* What is served is in order.
LEMMA ServedIsOrdered ==
  ASSUME BrowseInv, NEW shop, NEW q, Canonical(q), NEW cursor
  PROVE  PageInOrder(Served(shop, q, cursor), q, cursor)
<1>1. CASE CacheKey(shop, q, cursor) \in DOMAIN held
  BY <1>1 DEF BrowseInv, CacheOrdered, Served
<1>2. CASE CacheKey(shop, q, cursor) \notin DOMAIN held
  BY <1>2, FetchedIsSound DEF BrowseInv, Served
<1> QED
  BY <1>1, <1>2

\* It is exact, if the hash tells its filters from all that were asked for.
LEMMA ServedIsExact ==
  ASSUME BrowseInv, HashTells, NEW shop, NEW q, Canonical(q), NEW cursor,
         \A r \in asked : Hash[Filters(r)] = Hash[Filters(q)] => Filters(r) = Filters(q)
  PROVE  Exact(Served(shop, q, cursor), shop, q, cursor)
<1>1. CASE CacheKey(shop, q, cursor) \in DOMAIN held
  <2>1. PICK r \in asked : r.sort = q.sort /\ Hash[Filters(r)] = Hash[Filters(q)]
    BY <1>1 DEF BrowseInv, CacheAsked
  <2>2. r \in Urls /\ q \in Urls /\ Filters(r) = Filters(q)
    BY <2>1, CanonicalSort DEF BrowseInv, AskedRead
  <2>3. r = q
    BY <2>1, <2>2, SortAndFilters
  <2> QED
    BY <1>1, <2>1, <2>3 DEF BrowseInv, CacheExact, Served
<1>2. CASE CacheKey(shop, q, cursor) \notin DOMAIN held
  BY <1>2, FetchedIsSound DEF BrowseInv, Served
<1> QED
  BY <1>1, <1>2

\* Two lists that show nothing in common show each thing once at most.
LEMMA JoinedItems ==
  ASSUME NEW a \in Seq(Goods), NEW b \in Seq(Goods)
  PROVE  /\ a \o b \in Seq(Goods)
         /\ \A g \in Goods :
              /\ HasItem(a \o b, g) <=> HasItem(a, g) \/ HasItem(b, g)
              /\ OnceAtMost(a, g) /\ NoRepeat(b) /\ ~(HasItem(a, g) /\ HasItem(b, g)) => OnceAtMost(a \o b, g)
<1> DEFINE n == Len(a)
           c == a \o b
<1>1. /\ c \in Seq(Goods) /\ n \in Nat /\ Len(b) \in Nat
      /\ DOMAIN a = 1..n /\ DOMAIN b = 1..Len(b) /\ DOMAIN c = 1..(n + Len(b))
      /\ \A k \in 1..n : c[k] = a[k]
      /\ \A k \in 1..Len(b) : c[n + k] = b[k]
  OBVIOUS
<1> HIDE DEF c, n
<1>2. \A k \in DOMAIN c : \/ k \in DOMAIN a /\ c[k] = a[k]
                          \/ k \notin DOMAIN a /\ k - n \in DOMAIN b /\ c[k] = b[k - n]
  <2> SUFFICES ASSUME NEW k \in DOMAIN c, k \notin DOMAIN a
               PROVE  k - n \in DOMAIN b /\ c[k] = b[k - n]
    BY <1>1
  <2>1. k - n \in 1..Len(b) /\ n + (k - n) = k
    BY <1>1
  <2> QED
    BY <1>1, <2>1
<1>3. ASSUME NEW g \in Goods
      PROVE  HasItem(c, g) <=> HasItem(a, g) \/ HasItem(b, g)
  <2>1. \A k \in DOMAIN a : k \in DOMAIN c
    BY <1>1
  <2>2. \A k \in DOMAIN b : n + k \in DOMAIN c /\ c[n + k] = b[k]
    BY <1>1
  <2> QED
    BY <1>1, <1>2, <2>1, <2>2 DEF HasItem
<1>4. ASSUME NEW g \in Goods, OnceAtMost(a, g), NoRepeat(b), ~(HasItem(a, g) /\ HasItem(b, g))
      PROVE  OnceAtMost(c, g)
  <2> SUFFICES ASSUME NEW j \in DOMAIN c, NEW k \in DOMAIN c, c[j] = g, c[k] = g PROVE j = k
    BY DEF OnceAtMost
  <2>1. CASE j \in DOMAIN a /\ k \in DOMAIN a
    BY <1>2, <1>4, <2>1 DEF OnceAtMost
  <2>2. CASE j \notin DOMAIN a /\ k \notin DOMAIN a
    <3>1. j - n = k - n
      BY <1>2, <1>4, <2>2 DEF NoRepeat
    <3> QED
      BY <1>1, <3>1
  <2>3. CASE j \in DOMAIN a <=> k \notin DOMAIN a
    BY <1>2, <1>4, <2>3 DEF HasItem
  <2> QED
    BY <2>1, <2>2, <2>3
<1> QED
  BY <1>1, <1>3, <1>4 DEF c

\* The rows that are beyond a later cursor are beyond an earlier one.
LEMMA CursorsAdvance ==
  ASSUME NEW q, NEW a \in CursorFor(q), NEW b \in CursorFor(q), Precedes(a, b), NEW r \in Keyed, After(r, b)
  PROVE  After(r, a)
<1>1. a.key \in Int /\ a.id \in Int /\ b.key \in Int /\ b.id \in Int /\ r.key \in Int /\ r.id \in Int
  BY DEF CursorFor, Keyed
<1> QED
  BY <1>1 DEF After, Precedes

\* A row is before a cursor or beyond it, and before a later one if it is before an
\* earlier one.
LEMMA LiesSplits ==
  ASSUME NEW row \in Keyed, NEW o, NoCursor \notin CursorFor(o), NEW bound \in CursorFor(o),
         NEW next \in CursorFor(o) \union {NoCursor}, next # NoCursor => Precedes(bound, next)
  PROVE  /\ ~(Lies(row, NoCursor, bound) /\ Lies(row, bound, next))
         /\ Lies(row, NoCursor, bound) => Lies(row, NoCursor, next)
         /\ Lies(row, bound, next) => Lies(row, NoCursor, next)
         /\ Lies(row, NoCursor, next) => Lies(row, NoCursor, bound) \/ Lies(row, bound, next)
<1>1. next # NoCursor /\ After(row, next) => After(row, bound)
  BY CursorsAdvance
<1> QED
  BY <1>1 DEF Lies

\* Another page: what was shown, and what it has besides.
LEMMA PageJoins ==
  ASSUME NEW a \in Seq(Goods), NEW b \in Seq(Goods), NoRepeat(b), NEW g \in Goods, NEW row \in Keyed,
         NEW o, NoCursor \notin CursorFor(o), NEW bound \in CursorFor(o),
         NEW next \in CursorFor(o) \union {NoCursor}, next # NoCursor => Precedes(bound, next),
         OnceAtMost(a, g),
         HasItem(a, g) => Lies(row, NoCursor, bound), HasItem(b, g) => Lies(row, bound, next)
  PROVE  /\ OnceAtMost(a \o b, g)
         /\ HasItem(a \o b, g) <=> HasItem(a, g) \/ HasItem(b, g)
         /\ HasItem(a \o b, g) => Lies(row, NoCursor, next)
         /\ Lies(row, NoCursor, next) => Lies(row, NoCursor, bound) \/ Lies(row, bound, next)
<1>1. /\ ~(Lies(row, NoCursor, bound) /\ Lies(row, bound, next))
      /\ Lies(row, NoCursor, bound) => Lies(row, NoCursor, next)
      /\ Lies(row, bound, next) => Lies(row, NoCursor, next)
      /\ Lies(row, NoCursor, next) => Lies(row, NoCursor, bound) \/ Lies(row, bound, next)
  BY LiesSplits
<1>2. /\ HasItem(a \o b, g) <=> HasItem(a, g) \/ HasItem(b, g)
      /\ OnceAtMost(a, g) /\ NoRepeat(b) /\ ~(HasItem(a, g) /\ HasItem(b, g)) => OnceAtMost(a \o b, g)
  BY JoinedItems
<1> QED
  BY <1>1, <1>2

\* A page that begins a walk, or goes on where it stopped.
LEMMA PageGoesOn ==
  ASSUME BrowseInv, UNCHANGED <<goods, touched>>,
         NEW shop, NEW q, Canonical(q), NEW cursor, NEW page, PageInOrder(page, q, cursor),
         HashTells' => HashTells /\ Exact(page, shop, q, cursor),
         asked' = asked \union {q}, AskedRead',
         visit' = [ pc |-> IF page.next = NoCursor THEN "end" ELSE "more",
                    shop |-> shop, query |-> q, cursor |-> page.next,
                    seen |-> IF page.first THEN page.items ELSE visit.seen \o page.items ],
         \/ Decode(cursor, Binding(q)) = NoCursor
         \/ visit.pc = "more" /\ shop = visit.shop /\ cursor = visit.cursor
  PROVE  Walks(visit)' /\ ShownInOrder(visit)' /\ ShownExactly(visit)'
<1> DEFINE bound == Decode(cursor, Binding(q))
           next == page.next
           seen == visit'.seen
<1>1. /\ page.first = (bound = NoCursor)
      /\ page.items \in Seq(Goods) /\ NoRepeat(page.items)
      /\ next \in CursorFor(Binding(q)) \union {NoCursor}
      /\ bound # NoCursor /\ next # NoCursor => Precedes(bound, next)
      /\ q.sort = "newest" =>
            \A g \in Goods : HasItem(page.items, g) => Lies(AgeRow(g), bound, next)
  BY DEF PageInOrder
<1>2. HashTells' => HashTells /\ \A g \in Goods \ touched :
         HasItem(page.items, g) <=> Belongs(g, shop, q) /\ Lies(SortRow(g, q), bound, next)
  BY DEF Exact
<1>3. q \in Urls /\ q.sort \in BrowseSorts /\ NoCursor \notin CursorFor(Binding(q))
  BY CanonicalSort, BoundCursors
<1>4. /\ visit'.pc = (IF next = NoCursor THEN "end" ELSE "more")
      /\ visit'.shop = shop /\ visit'.query = q /\ visit'.cursor = next
      /\ seen = (IF bound = NoCursor THEN page.items ELSE visit.seen \o page.items)
  BY <1>1
<1> HIDE DEF next, seen
<1>5. \A g \in Goods : SortRow(g, q) \in Keyed /\ AgeRow(g) \in Keyed
  BY <1>3, SortRowFacts DEF BrowseInv
<1>6. \A g \in Goods : OnceAtMost(page.items, g)
  BY <1>1 DEF OnceAtMost, NoRepeat
<1>7. ASSUME bound # NoCursor
      PROVE  /\ visit.pc = "more" /\ shop = visit.shop /\ bound = visit.cursor
             /\ bound \in CursorFor(Binding(q)) /\ visit.query.sort = q.sort
             /\ HashTells' => visit.query = q
             /\ visit.seen \in Seq(Goods)
  <2>1. visit.pc = "more" /\ shop = visit.shop /\ bound = visit.cursor /\ bound.owner = Binding(q)
    BY <1>7 DEF Decode
  <2>2. visit.query \in asked /\ visit.seen \in Seq(Goods) /\ bound \in CursorFor(Binding(visit.query))
    BY <2>1 DEF BrowseInv, Walks
  <2>3. Binding(visit.query) = Binding(q)
    BY <2>1, <2>2 DEF CursorFor
  <2>4. visit.query.sort = q.sort /\ Hash[Filters(visit.query)] = Hash[Filters(q)]
    BY <2>3 DEF Binding, FilterFingerprint
  <2>5. ASSUME HashTells' PROVE visit.query = q
    <3>1. Filters(visit.query) = Filters(q)
      BY <2>2, <2>4, <2>5 DEF HashTells
    <3>2. visit.query \in Urls
      BY <2>2, CanonicalSort DEF BrowseInv, AskedRead
    <3> QED
      BY <1>3, <2>4, <3>1, <3>2, SortAndFilters
  <2> QED
    BY <2>1, <2>2, <2>3, <2>4, <2>5
<1> HIDE DEF bound
<1>8. seen \in Seq(Goods)
  <2>1. CASE bound = NoCursor
    BY <1>1, <1>4, <2>1
  <2>2. CASE bound # NoCursor
    BY <1>1, <1>4, <1>7, <2>2
  <2> QED
    BY <2>1, <2>2
<1>9. ASSUME q.sort = "newest", NEW g \in Goods
      PROVE  OnceAtMost(seen, g) /\ (HasItem(seen, g) => Lies(AgeRow(g), NoCursor, next))
  <2>1. CASE bound = NoCursor
    BY <1>1, <1>4, <1>6, <1>9, <2>1
  <2>2. CASE bound # NoCursor
    <3>1. PICK a \in Seq(Goods), b \in Seq(Goods) : a = visit.seen /\ b = page.items
      BY <1>1, <1>7, <2>2
    <3>2. OnceAtMost(a, g) /\ (HasItem(a, g) => Lies(AgeRow(g), NoCursor, bound))
      BY <1>7, <1>9, <2>2, <3>1 DEF BrowseInv, ShownInOrder
    <3>3. NoRepeat(b) /\ (HasItem(b, g) => Lies(AgeRow(g), bound, next))
      BY <1>1, <1>9, <3>1
    <3>4. OnceAtMost(a \o b, g) /\ (HasItem(a \o b, g) => Lies(AgeRow(g), NoCursor, next))
      BY <1>1, <1>3, <1>5, <1>7, <2>2, <3>2, <3>3, PageJoins
    <3>5. seen = a \o b
      BY <1>4, <2>2, <3>1
    <3> QED
      BY <3>4, <3>5
  <2> QED
    BY <2>1, <2>2
<1>10. ASSUME HashTells', NEW g \in Goods \ touched
       PROVE  /\ OnceAtMost(seen, g)
              /\ HasItem(seen, g) <=> Belongs(g, shop, q) /\ Lies(SortRow(g, q), NoCursor, next)
  <2>1. CASE bound = NoCursor
    BY <1>2, <1>4, <1>6, <1>10, <2>1
  <2>2. CASE bound # NoCursor
    <3>1. PICK a \in Seq(Goods), b \in Seq(Goods) : a = visit.seen /\ b = page.items
      BY <1>1, <1>7, <2>2
    <3>2. OnceAtMost(a, g)
          /\ (HasItem(a, g) <=> Belongs(g, shop, q) /\ Lies(SortRow(g, q), NoCursor, bound))
      BY <1>2, <1>7, <1>10, <2>2, <3>1 DEF BrowseInv, ShownExactly
    <3>3. NoRepeat(b) /\ (HasItem(b, g) <=> Belongs(g, shop, q) /\ Lies(SortRow(g, q), bound, next))
      BY <1>1, <1>2, <1>10, <3>1
    <3>4. /\ OnceAtMost(a \o b, g)
          /\ HasItem(a \o b, g) <=> HasItem(a, g) \/ HasItem(b, g)
          /\ HasItem(a \o b, g) => Lies(SortRow(g, q), NoCursor, next)
          /\ Lies(SortRow(g, q), NoCursor, next) =>
               Lies(SortRow(g, q), NoCursor, bound) \/ Lies(SortRow(g, q), bound, next)
      BY <1>1, <1>3, <1>5, <1>7, <2>2, <3>2, <3>3, PageJoins
    <3>5. seen = a \o b
      BY <1>4, <2>2, <3>1
    <3> QED
      BY <3>2, <3>3, <3>4, <3>5
  <2> QED
    BY <2>1, <2>2
<1>11. Walks(visit)'
  BY <1>1, <1>3, <1>4, <1>8 DEF Walks, seen
<1>12. ShownInOrder(visit)'
  <2>1. \A g \in Goods : (Lies(AgeRow(g), NoCursor, visit.cursor)') <=> Lies(AgeRow(g), NoCursor, next)
    BY <1>4 DEF Lies, AgeRow
  <2> QED
    BY <1>4, <1>9, <2>1 DEF ShownInOrder, seen
<1>13. ShownExactly(visit)'
  <2>1. \A g \in Goods :
          /\ (Belongs(g, visit.shop, visit.query)') <=> Belongs(g, shop, q)
          /\ (Lies(SortRow(g, visit.query), NoCursor, visit.cursor)') <=> Lies(SortRow(g, q), NoCursor, next)
    BY <1>4 DEF Belongs, Matches, Found, InShop, Lies, SortRow
  <2> QED
    BY <1>4, <1>10, <2>1 DEF ShownExactly, seen
<1> QED
  BY <1>11, <1>12, <1>13

\* A page is asked for.
LEMMA VisitKeepsInv ==
  ASSUME BrowseInv, NEW shop, NEW q, Canonical(q), NEW cursor, Visit(shop, q, cursor),
         \/ Decode(cursor, Binding(q)) = NoCursor
         \/ visit.pc = "more" /\ shop = visit.shop /\ cursor = visit.cursor
  PROVE  BrowseInv'
<1>1. PICK page : page = Served(shop, q, cursor)
  OBVIOUS
<1> DEFINE key == CacheKey(shop, q, cursor)
<1>2. /\ visit' = [ pc |-> IF page.next = NoCursor THEN "end" ELSE "more",
                    shop |-> shop, query |-> q, cursor |-> page.next,
                    seen |-> IF page.first THEN page.items ELSE visit.seen \o page.items ]
      /\ held' = [k \in DOMAIN held \union {key} |-> IF k \in DOMAIN held THEN held[k] ELSE page]
      /\ asked' = asked \union {q}
      /\ UNCHANGED <<goods, touched>>
  BY <1>1 DEF Visit
<1>3. AskedRead'
  BY <1>2 DEF BrowseInv, AskedRead
<1>4. HashTells' =>
        HashTells /\ \A r \in asked : Hash[Filters(r)] = Hash[Filters(q)] => Filters(r) = Filters(q)
  BY <1>2 DEF HashTells
<1>5. PageInOrder(page, q, cursor)
  BY <1>1, ServedIsOrdered
<1>6. HashTells' => HashTells /\ Exact(page, shop, q, cursor)
  BY <1>1, <1>4, ServedIsExact
<1>7. Walks(visit)' /\ ShownInOrder(visit)' /\ ShownExactly(visit)'
  BY <1>2, <1>3, <1>5, <1>6, PageGoesOn
<1> HIDE DEF key
<1>8. \A k \in DOMAIN held' :
        \/ k \in DOMAIN held /\ held'[k] = held[k]
        \/ k \notin DOMAIN held /\ k = key /\ held'[k] = page
  BY <1>2
<1>9. CacheOrdered'
  <2> SUFFICES ASSUME NEW s, NEW c, NEW r, Canonical(r), CacheKey(s, r, c) \in DOMAIN held'
               PROVE  PageInOrder(held[CacheKey(s, r, c)], r, c)'
    BY DEF CacheOrdered
  <2>1. PICK p : p = held'[CacheKey(s, r, c)]
    OBVIOUS
  <2>2. PageInOrder(p, r, c)
    <3>1. CASE CacheKey(s, r, c) \in DOMAIN held
      BY <1>8, <2>1, <3>1 DEF BrowseInv, CacheOrdered
    <3>2. CASE CacheKey(s, r, c) \notin DOMAIN held
      <4>1. CacheKey(s, r, c) = CacheKey(shop, q, cursor) /\ p = page
        BY <1>8, <2>1, <3>2 DEF key
      <4>2. c = cursor /\ r.sort = q.sort /\ Binding(r) = Binding(q)
        BY <4>1, KeyTells
      <4> QED
        BY <1>5, <4>1, <4>2 DEF PageInOrder
    <3> QED
      BY <3>1, <3>2
  <2>3. PageInOrder(p, r, c)'
    BY <1>2, <2>2 DEF PageInOrder, Lies, AgeRow
  <2> QED
    BY <2>1, <2>3 DEF PageInOrder, Lies, AgeRow
<1>10. CacheAsked'
  <2> SUFFICES ASSUME NEW s, NEW c, NEW r, CacheKey(s, r, c) \in DOMAIN held'
               PROVE  \E x \in asked' : x.sort = r.sort /\ Hash[Filters(x)] = Hash[Filters(r)]
    BY DEF CacheAsked
  <2>1. CASE CacheKey(s, r, c) \in DOMAIN held
    BY <1>2, <2>1 DEF BrowseInv, CacheAsked
  <2>2. CASE CacheKey(s, r, c) \notin DOMAIN held
    <3>1. CacheKey(s, r, c) = CacheKey(shop, q, cursor)
      BY <1>8, <2>2 DEF key
    <3> QED
      BY <1>2, <3>1, KeyTells
  <2> QED
    BY <2>1, <2>2
<1>11. CacheExact'
  <2> SUFFICES ASSUME HashTells', NEW s, NEW c, NEW r \in asked', CacheKey(s, r, c) \in DOMAIN held'
               PROVE  Exact(held[CacheKey(s, r, c)], s, r, c)'
    BY DEF CacheExact
  <2>1. PICK p : p = held'[CacheKey(s, r, c)]
    OBVIOUS
  <2>2. Exact(p, s, r, c)
    <3>1. CASE CacheKey(s, r, c) \in DOMAIN held
      <4>1. PICK x \in asked : x.sort = r.sort /\ Hash[Filters(x)] = Hash[Filters(r)]
        BY <3>1 DEF BrowseInv, CacheAsked
      <4>2. x \in asked'
        BY <1>2
      <4>3. x \in Urls /\ r \in Urls /\ Filters(x) = Filters(r)
        BY <1>3, <4>1, <4>2, CanonicalSort DEF HashTells, AskedRead
      <4>4. x = r
        BY <4>1, <4>3, SortAndFilters
      <4> QED
        BY <1>4, <1>8, <2>1, <3>1, <4>4 DEF BrowseInv, CacheExact
    <3>2. CASE CacheKey(s, r, c) \notin DOMAIN held
      <4>1. CacheKey(s, r, c) = CacheKey(shop, q, cursor) /\ p = page
        BY <1>8, <2>1, <3>2 DEF key
      <4>2. s = shop /\ c = cursor /\ r.sort = q.sort /\ Hash[Filters(r)] = Hash[Filters(q)]
        BY <4>1, KeyTells
      <4>3. r \in Urls /\ q \in Urls /\ Filters(r) = Filters(q)
        BY <1>2, <1>3, <4>2, CanonicalSort DEF HashTells, AskedRead
      <4>4. r = q
        BY <4>2, <4>3, SortAndFilters
      <4> QED
        BY <1>6, <4>1, <4>2, <4>4
    <3> QED
      BY <3>1, <3>2
  <2>3. /\ \A g : Belongs(g, s, r)' <=> Belongs(g, s, r)
        /\ \A g, b, n : Lies(SortRow(g, r), b, n)' <=> Lies(SortRow(g, r), b, n)
    BY <1>2 DEF Belongs, Matches, Found, InShop, Lies, SortRow
  <2>4. Exact(p, s, r, c)'
    BY <1>2, <2>2, <2>3 DEF Exact
  <2> QED
    BY <2>1, <2>4 DEF Exact, Belongs, Matches, Found, InShop, Lies, SortRow
<1> QED
  BY <1>2, <1>3, <1>7, <1>9, <1>10, <1>11 DEF BrowseInv

\* A seller changes a listing, or a page expires: what is kept or shown tells of the
\* others what it told.
LEMMA OthersKeepInv ==
  ASSUME BrowseInv, UNCHANGED <<visit, asked>>,
         goods' \in [Goods -> Good], touched' \subseteq Goods, touched \subseteq touched',
         \A g \in Goods : goods'[g].createdAt = goods[g].createdAt,
         \A g \in Goods \ touched' : goods'[g] = goods[g],
         \A key \in DOMAIN held' : key \in DOMAIN held /\ held'[key] = held[key]
  PROVE  BrowseInv'
<1>1. ASSUME NEW g \in Goods \ touched', NEW shop, NEW q, NEW bound, NEW next
      PROVE  /\ Belongs(g, shop, q)' <=> Belongs(g, shop, q)
             /\ Lies(SortRow(g, q), bound, next)' <=> Lies(SortRow(g, q), bound, next)
  <2>1. goods'[g] = goods[g]
    OBVIOUS
  <2> QED
    BY <2>1 DEF Belongs, Matches, Found, InShop, Lies, SortRow
<1>2. ASSUME NEW g \in Goods, NEW bound, NEW next
      PROVE  Lies(AgeRow(g), bound, next)' <=> Lies(AgeRow(g), bound, next)
  <2>1. AgeRow(g)' = AgeRow(g)
    BY DEF AgeRow
  <2> QED
    BY <2>1 DEF Lies
<1>3. (HashTells' <=> HashTells) /\ AskedRead' /\ Walks(visit)'
  BY DEF HashTells, BrowseInv, AskedRead, Walks
<1>4. CacheOrdered'
  <2> SUFFICES ASSUME NEW s, NEW c, NEW r, Canonical(r), CacheKey(s, r, c) \in DOMAIN held'
               PROVE  PageInOrder(held[CacheKey(s, r, c)], r, c)'
    BY DEF CacheOrdered
  <2>1. PICK p : p = held[CacheKey(s, r, c)]
    OBVIOUS
  <2>2. PageInOrder(p, r, c) /\ held'[CacheKey(s, r, c)] = p
    BY <2>1 DEF BrowseInv, CacheOrdered
  <2>3. PICK b : b = Decode(c, Binding(r))
    OBVIOUS
  <2>4. r.sort = "newest" => \A g \in Goods : HasItem(p.items, g) => Lies(AgeRow(g), b, p.next)'
    BY <1>2, <2>2, <2>3 DEF PageInOrder
  <2>5. PageInOrder(p, r, c)'
    BY <2>2, <2>3, <2>4 DEF PageInOrder
  <2> QED
    BY <2>2, <2>5 DEF PageInOrder, Lies, AgeRow
<1>5. CacheAsked'
  BY DEF BrowseInv, CacheAsked
<1>6. CacheExact'
  <2> SUFFICES ASSUME HashTells, NEW s, NEW c, NEW r \in asked, CacheKey(s, r, c) \in DOMAIN held'
               PROVE  Exact(held[CacheKey(s, r, c)], s, r, c)'
    BY <1>3 DEF CacheExact
  <2>1. PICK p : p = held[CacheKey(s, r, c)]
    OBVIOUS
  <2>2. Exact(p, s, r, c) /\ held'[CacheKey(s, r, c)] = p
    BY <2>1 DEF BrowseInv, CacheExact
  <2>3. PICK b : b = Decode(c, Binding(r))
    OBVIOUS
  <2>4. \A g \in Goods \ touched' :
           HasItem(p.items, g) <=> Belongs(g, s, r)' /\ Lies(SortRow(g, r), b, p.next)'
    BY <1>1, <2>2, <2>3 DEF Exact
  <2>5. Exact(p, s, r, c)'
    BY <2>3, <2>4 DEF Exact
  <2> QED
    BY <2>2, <2>5 DEF Exact, Belongs, Matches, Found, InShop, Lies, SortRow
<1>7. PICK v : v = visit
  OBVIOUS
<1>8. ShownInOrder(visit)'
  <2>1. v.query.sort = "newest" => \A g \in Goods :
           OnceAtMost(v.seen, g) /\ (HasItem(v.seen, g) => Lies(AgeRow(g), NoCursor, v.cursor)')
    BY <1>2, <1>7 DEF BrowseInv, ShownInOrder
  <2>2. \A g : (Lies(AgeRow(g), NoCursor, visit.cursor)') <=> Lies(AgeRow(g), NoCursor, v.cursor)'
    BY <1>7 DEF Lies, AgeRow
  <2> QED
    BY <1>7, <2>1, <2>2 DEF ShownInOrder
<1>9. ShownExactly(visit)'
  <2>1. HashTells /\ v.pc # "none" => \A g \in Goods \ touched' :
             /\ OnceAtMost(v.seen, g)
             /\ HasItem(v.seen, g) <=>
                  Belongs(g, v.shop, v.query)' /\ Lies(SortRow(g, v.query), NoCursor, v.cursor)'
    BY <1>1, <1>7 DEF BrowseInv, ShownExactly
  <2>2. \A g : /\ (Belongs(g, visit.shop, visit.query)') <=> Belongs(g, v.shop, v.query)'
               /\ (Lies(SortRow(g, visit.query), NoCursor, visit.cursor)')
                    <=> Lies(SortRow(g, v.query), NoCursor, v.cursor)'
    BY <1>7 DEF Belongs, Matches, Found, InShop, Lies, SortRow
  <2> QED
    BY <1>3, <1>7, <2>1, <2>2 DEF ShownExactly
<1> QED
  BY <1>3, <1>4, <1>5, <1>6, <1>8, <1>9 DEF BrowseInv

\* Every step keeps the invariant.
LEMMA BrowseStepInv == BrowseInv /\ [BrowseStep(Urls)]_browseVars => BrowseInv'
<1> SUFFICES ASSUME BrowseInv, [BrowseStep(Urls)]_browseVars PROVE BrowseInv'
  OBVIOUS
<1>0. goods \in [Goods -> Good] /\ touched \subseteq Goods
  BY DEF BrowseInv
<1>1. ASSUME NEW url \in Urls, OpenBrowse(url) PROVE BrowseInv'
  BY <1>1, ReadingIsCanonical, VisitKeepsInv DEF OpenBrowse, Decode
<1>2. ASSUME NEW url \in Urls, MixedUrl(url) PROVE BrowseInv'
  <2>1. PICK s, q, c : s = visit.shop /\ q = ParseBrowseQuery(url) /\ c = visit.cursor
    OBVIOUS
  <2>2. Canonical(q) /\ Visit(s, q, c) /\ visit.pc = "more"
    BY <1>2, <2>1, ReadingIsCanonical DEF MixedUrl
  <2> QED
    BY <2>1, <2>2, VisitKeepsInv
<1>3. ASSUME NEW shop, OpenShop(shop) PROVE BrowseInv'
  <2>1. Plain \in Urls
    BY DEF Plain, Urls, NoWord, NoKind, NoPlace, NoPrice, NoSort
  <2> QED
    BY <1>3, <2>1, ReadingIsCanonical, VisitKeepsInv DEF OpenShop, Decode
<1>4. ASSUME NextPage PROVE BrowseInv'
  <2>1. Canonical(visit.query) /\ visit.pc = "more"
    BY <1>4 DEF NextPage, BrowseInv, Walks
  <2>2. Visit(visit.shop, visit.query, visit.cursor)
    BY <1>4, <2>1, RoundTrip DEF NextPage
  <2>3. PICK s, q, c : s = visit.shop /\ q = visit.query /\ c = visit.cursor
    OBVIOUS
  <2>4. Visit(s, q, c)
    BY <2>2, <2>3
  <2> QED
    BY <2>1, <2>3, <2>4, VisitKeepsInv
<1>5. ASSUME NEW key \in DOMAIN held, Expire(key) PROVE BrowseInv'
  BY <1>0, <1>5, OthersKeepInv DEF Expire
<1>6. ASSUME NEW g \in Goods, Changes(g) PROVE BrowseInv'
  <2>1. touched' = touched \union {g} /\ UNCHANGED <<visit, asked>>
    BY <1>6 DEF Changes
  <2>2. \A key \in DOMAIN held' : key \in DOMAIN held /\ held'[key] = held[key]
    BY <1>6 DEF Changes
  <2>3. goods' \in [Goods -> Good] /\ (\A h \in Goods : goods'[h].createdAt = goods[h].createdAt)
        /\ \A h \in Goods \ {g} : goods'[h] = goods[h]
    <3>1. ASSUME NEW x \in Good
          PROVE  /\ [x EXCEPT !.published = ~@] \in Good
                 /\ [x EXCEPT !.published = ~@].createdAt = x.createdAt
                 /\ \A p \in Prices : [x EXCEPT !.price = p] \in Good
                                      /\ [x EXCEPT !.price = p].createdAt = x.createdAt
      BY DEF Good
    <3>2. PICK x \in Good : /\ goods' = [goods EXCEPT ![g] = x]
                            /\ x.createdAt = goods[g].createdAt
      <4>1. CASE goods' = [goods EXCEPT ![g].published = ~@]
        BY <1>0, <3>1, <4>1
      <4>2. ASSUME NEW p \in Prices, goods' = [goods EXCEPT ![g].price = p]
            PROVE  \E x \in Good : goods' = [goods EXCEPT ![g] = x] /\ x.createdAt = goods[g].createdAt
        BY <1>0, <3>1, <4>2
      <4> QED
        BY <1>6, <4>1, <4>2 DEF Changes
    <3> QED
      BY <1>0, <3>2
  <2> QED
    BY <1>0, <2>1, <2>2, <2>3, OthersKeepInv
<1>7. CASE UNCHANGED browseVars
  BY <1>0, <1>7, OthersKeepInv DEF browseVars
<1> QED
  BY <1>1, <1>2, <1>3, <1>4, <1>5, <1>6, <1>7 DEF BrowseStep

\* The cache and the walk through the grid are sound throughout.
LEMMA BrowseInvariant == BrowseSpec => []BrowseInv
<1>1. BrowseInit => BrowseInv
  <2> SUFFICES ASSUME BrowseInit PROVE BrowseInv
    OBVIOUS
  <2>1. Plain \in Urls
    BY DEF Plain, Urls, NoWord, NoKind, NoPlace, NoPrice, NoSort
  <2>2. Canonical(ParseBrowseQuery(Plain)) /\ <<>> \in Seq(Goods)
    BY <2>1, ReadingIsCanonical
  <2>3. Walks(visit) /\ visit.pc = "none" /\ visit.seen = <<>>
    BY <2>2 DEF BrowseInit, NoVisit, Walks
  <2>4. ShownInOrder(visit) /\ ShownExactly(visit)
    BY <2>3 DEF ShownInOrder, ShownExactly, OnceAtMost, HasItem
  <2>5. CacheOrdered /\ CacheAsked /\ CacheExact /\ AskedRead
    BY DEF BrowseInit, CacheOrdered, CacheAsked, CacheExact, AskedRead
  <2> QED
    BY <2>3, <2>4, <2>5 DEF BrowseInit, BrowseInv
<1> QED
  BY <1>1, BrowseStepInv, PTL DEF BrowseSpec

\* A visitor who walks to the end sees every listing that belongs there and that nobody
\* touched once, from whatever cached pages the walk is pieced together, as long as no two
\* filters that somebody asked for have one hash; by newest nothing is seen twice, whatever
\* the hash does.
THEOREM GridIsReadWhole == BrowseSpec => []BrowsePagesComplete
<1>1. BrowseInv => BrowsePagesComplete
  <2> SUFFICES ASSUME BrowseInv PROVE BrowsePagesComplete
    OBVIOUS
  <2>1. ASSUME NEW g \in Goods
        PROVE  /\ ~HasItem(visit.seen, g) => Cardinality(Shown(g)) = 0
               /\ HasItem(visit.seen, g) /\ OnceAtMost(visit.seen, g) => Cardinality(Shown(g)) = 1
    <3>1. ASSUME ~HasItem(visit.seen, g) PROVE Cardinality(Shown(g)) = 0
      <4>1. Shown(g) = {}
        BY <3>1 DEF HasItem, Shown
      <4> QED
        BY <4>1, FS_EmptySet
    <3>2. ASSUME HasItem(visit.seen, g), OnceAtMost(visit.seen, g) PROVE Cardinality(Shown(g)) = 1
      <4>1. PICK k \in DOMAIN visit.seen : visit.seen[k] = g
        BY <3>2 DEF HasItem
      <4>2. Shown(g) = {k}
        BY <3>2, <4>1 DEF OnceAtMost, Shown
      <4> QED
        BY <4>2, FS_Singleton
    <3> QED
      BY <3>1, <3>2
  <2>2. ASSUME HashTells, NEW g \in Goods \ touched, visit.pc = "end"
        PROVE  Cardinality(Shown(g)) = IF Matches(g, visit.query) /\ InShop(g, visit.shop) THEN 1 ELSE 0
    <3>1. visit.cursor = NoCursor
      BY <2>2 DEF BrowseInv, Walks
    <3>2. OnceAtMost(visit.seen, g)
          /\ (HasItem(visit.seen, g) <=> Matches(g, visit.query) /\ InShop(g, visit.shop))
      BY <2>2, <3>1 DEF BrowseInv, ShownExactly, Lies, Belongs
    <3> QED
      BY <2>1, <3>2
  <2>3. ASSUME visit.query.sort = "newest", NEW g \in Goods
        PROVE  Cardinality(Shown(g)) <= 1
    <3>1. OnceAtMost(visit.seen, g)
      BY <2>3 DEF BrowseInv, ShownInOrder
    <3> QED
      BY <2>1, <3>1
  <2> QED
    BY <2>2, <2>3 DEF BrowsePagesComplete
<1> QED
  BY <1>1, BrowseInvariant, PTL

-----------------------------------------------------------------------------
(* Types of the readers *)

IsWalk(w) == {"pc", "who", "of", "cursor", "seen"} \subseteq DOMAIN w

\* One page on, the walk is its owner's, of the same conversation.
LEMMA StepKeepsOwner ==
  ASSUME NEW w, IsWalk(w), NEW rows, NEW cursor, NEW size, NEW owner
  PROVE  /\ Step(w, rows, cursor, size, owner).pc \in {"more", "end"}
         /\ Step(w, rows, cursor, size, owner).who = w.who /\ Step(w, rows, cursor, size, owner).of = w.of
<1> DEFINE next == NextCursor(rows, cursor, size, owner)
           items == Rows(rows, cursor, size)
           more == [k \in DOMAIN items |-> items[k].id]
<1>1. Step(w, rows, cursor, size, owner) =
        [w EXCEPT !.pc = IF next = NoCursor THEN "end" ELSE "more", !.cursor = next, !.seen = @ \o more]
  BY DEF Step
<1> HIDE DEF next, more
<1> QED
  BY <1>1 DEF IsWalk

\* Who reads is a participant, and what is read a conversation.
LEMMA WalksAreTyped == ReadSpec => []ReadTypeOK
<1> DEFINE next == (StartStep /\ UNCHANGED readVars) \/ (SendStep /\ UNCHANGED readVars) \/ (ReadStep /\ UNCHANGED talkVars)
<1>1. ReadInit => ReadTypeOK
  BY DEF ReadInit, NoWalk, ReadTypeOK
<1>2. ReadTypeOK /\ ReadInv /\ [next]_<<talkVars, readVars>> => ReadTypeOK'
  <2> SUFFICES ASSUME ReadTypeOK, ReadInv, [next]_<<talkVars, readVars>> PROVE ReadTypeOK'
    OBVIOUS
  <2>1. CASE UNCHANGED readVars
    BY <2>1 DEF ReadTypeOK, readVars
  <2>2. ASSUME NEW who \in Participants, OpenInbox(who) PROVE ReadTypeOK'
    <3> DEFINE rows == InboxRows(who)
               w == [NoWalk EXCEPT !.who = who, !.start = rows]
    <3>1. inbox' = Step(w, rows, NoCursor, InboxSize, who) /\ thread' = thread
      BY <2>2 DEF OpenInbox
    <3> HIDE DEF rows
    <3>2. IsWalk(w)
      BY DEF NoWalk, IsWalk
    <3>3. w.who = who /\ w.of = 0
      BY DEF NoWalk
    <3> HIDE DEF w
    <3>4. inbox'.pc \in {"more", "end"} /\ inbox'.who = who /\ inbox'.of = 0
      BY <3>1, <3>2, <3>3, StepKeepsOwner
    <3> QED
      BY <3>1, <3>4 DEF ReadTypeOK
  <2>3. CASE OlderConversations
    <3>1. inbox' = Step(inbox, InboxRows(inbox.who), Decode(inbox.cursor, inbox.who), InboxSize, inbox.who)
          /\ thread' = thread
      BY <2>3 DEF OlderConversations
    <3>2. IsWalk(inbox)
      <4>1. inbox \in [pc: {"none", "more", "end"}, who: {inbox.who}, of: {inbox.of}, cursor: {inbox.cursor},
                        seen: Seq(Int), start: SUBSET Keyed]
        BY DEF ReadInv, InboxWalked, Walked
      <4> QED
        BY <4>1 DEF IsWalk
    <3>3. inbox'.pc \in {"more", "end"} /\ inbox'.who = inbox.who /\ inbox'.of = inbox.of
      BY <3>1, <3>2, StepKeepsOwner
    <3> QED
      BY <3>1, <3>3 DEF ReadTypeOK
  <2>4. ASSUME NEW who \in Participants, NEW i \in ConversationIds, OpenMessages(who, i) PROVE ReadTypeOK'
    <3> DEFINE rows == ThreadRows(i)
               w == [NoWalk EXCEPT !.who = who, !.of = i, !.start = rows]
    <3>1. thread' = Step(w, rows, NoCursor, ThreadSize, i) /\ inbox' = inbox
      BY <2>4 DEF OpenMessages
    <3> HIDE DEF rows
    <3>2. IsWalk(w)
      BY DEF NoWalk, IsWalk
    <3>3. w.who = who /\ w.of = i
      BY DEF NoWalk
    <3> HIDE DEF w
    <3>4. thread'.pc \in {"more", "end"} /\ thread'.who = who /\ thread'.of = i
      BY <3>1, <3>2, <3>3, StepKeepsOwner
    <3> QED
      BY <3>1, <3>4 DEF ReadTypeOK
  <2>5. CASE OlderMessages
    <3>1. thread' = Step(thread, ThreadRows(thread.of), Decode(thread.cursor, thread.of), ThreadSize, thread.of)
          /\ inbox' = inbox
      BY <2>5 DEF OlderMessages
    <3>2. IsWalk(thread)
      <4>1. thread \in [pc: {"none", "more", "end"}, who: {thread.who}, of: {thread.of}, cursor: {thread.cursor},
                         seen: Seq(Int), start: SUBSET Keyed]
        BY DEF ReadInv, ThreadWalked, Walked
      <4> QED
        BY <4>1 DEF IsWalk
    <3>3. thread'.pc \in {"more", "end"} /\ thread'.who = thread.who /\ thread'.of = thread.of
      BY <3>1, <3>2, StepKeepsOwner
    <3> QED
      BY <3>1, <3>3 DEF ReadTypeOK
  <2> QED
    BY <2>1, <2>2, <2>3, <2>4, <2>5 DEF ReadStep
<1> QED
  BY <1>1, <1>2, WalksAreSound, PTL DEF ReadSpec
=============================================================================
