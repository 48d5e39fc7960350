-------------------------- MODULE SheetSyncProofs --------------------------
(***************************************************************************)
(* Proofs about the synchronization.                                       *)
(*                                                                         *)
(* SheetSync, for any streams, names, sizes of requests and numbers of     *)
(* edits, drifts and failures: no rerun gives a stream a second row or     *)
(* opens an incident twice, and a bundle shows what its run read and       *)
(* wrote, with every stream in doubt quarantined.                          *)
(*                                                                         *)
(* ReviewQueue, for any streams, servers, limits and rotation: the target  *)
(* that a local guide replaced is never lost, no run takes a row out of an *)
(* editor's hands or exceeds its limits, and while a row waits each run    *)
(* decides something.                                                      *)
(***************************************************************************)
EXTENDS SheetSync, ReviewQueue, FiniteSetTheorems, FunctionTheorems, SequenceTheorems,
        WellFoundedInduction, TLAPS

-----------------------------------------------------------------------------
(* Sets of numbers, and what is put in their order.                         *)

Rank(K, k) == Cardinality({x \in K : x < k})

LEMMA RankType ==
    ASSUME NEW K \in SUBSET Nat, IsFiniteSet(K), NEW k \in K
    PROVE  /\ Rank(K, k) \in Nat /\ Rank(K, k) < Cardinality(K)
           /\ \A l \in K : k < l => Rank(K, k) < Rank(K, l)
<1> DEFINE below(l) == {x \in K : x < l}
<1>1. Cardinality(K) \in Nat
  BY FS_CardinalityType
<1>2. ASSUME NEW l \in K PROVE IsFiniteSet(below(l)) /\ Cardinality(below(l)) \in Nat
  <2>1. below(l) \in SUBSET K
    OBVIOUS
  <2>2. IsFiniteSet(below(l))
    BY <2>1, FS_Subset
  <2> QED
    BY <2>2, FS_CardinalityType
<1>3. Cardinality(below(k)) < Cardinality(K)
  <2>1. below(k) \in SUBSET K /\ k \in K /\ k \notin below(k)
    OBVIOUS
  <2>2. Cardinality(below(k)) <= Cardinality(K) /\ Cardinality(below(k)) # Cardinality(K)
    BY <2>1, FS_Subset
  <2> QED
    BY <2>2, <1>1, <1>2
<1>4. ASSUME NEW l \in K, k < l PROVE Cardinality(below(k)) < Cardinality(below(l))
  <2>1. \A x \in K : x \in Nat /\ (x < k => x < l)
    <3>1. \A x \in K : x \in Nat
      OBVIOUS
    <3> QED
      BY <3>1, <1>4
  <2>2. k \in Nat /\ ~(k < k)
    OBVIOUS
  <2>3. below(k) \in SUBSET below(l) /\ k \in below(l) /\ k \notin below(k)
    BY <2>1, <2>2, <1>4
  <2>4. Cardinality(below(k)) <= Cardinality(below(l)) /\ Cardinality(below(k)) # Cardinality(below(l))
    BY <2>3, <1>2, FS_Subset
  <2> QED
    BY <2>4, <1>2
<1> QED
  BY <1>2, <1>3, <1>4 DEF Rank

LEMMA RankInjective ==
    ASSUME NEW K \in SUBSET Nat, IsFiniteSet(K), NEW k \in K, NEW l \in K, Rank(K, k) = Rank(K, l)
    PROVE  k = l
<1>1. Rank(K, k) \in Nat /\ (k < l => Rank(K, k) < Rank(K, l))
  BY RankType
<1>2. l < k => Rank(K, l) < Rank(K, k)
  BY RankType
<1> QED
  BY <1>1, <1>2

LEMMA RankOnto ==
    ASSUME NEW K \in SUBSET Nat, IsFiniteSet(K), NEW i \in 1 .. Cardinality(K)
    PROVE  \E k \in K : Rank(K, k) = i - 1
<1> DEFINE n == Cardinality(K)
           ranks == 0 .. n - 1
           f == [k \in K |-> Rank(K, k)]
<1>1. n \in Nat
  BY FS_CardinalityType
<1>2. \A k \in K : Rank(K, k) \in ranks
  BY <1>1, RankType
<1>3. f \in Injection(K, ranks)
  <2>1. f \in [K -> ranks]
    BY <1>2
  <2>2. \A k, l \in K : f[k] = f[l] => k = l
    BY RankInjective
  <2> QED
    BY <2>1, <2>2, Fun_IsInj
<1>4. IsFiniteSet(ranks) /\ Cardinality(ranks) = n
  <2>1. 0 \in Int /\ n - 1 \in Int
    BY <1>1
  <2>2. /\ IsFiniteSet(0 .. n - 1)
        /\ Cardinality(0 .. n - 1) = IF 0 > n - 1 THEN 0 ELSE n - 1 - 0 + 1
    BY <2>1, FS_Interval, Zenon
  <2> QED
    BY <2>2, <1>1
<1>5. f \in Surjection(K, ranks)
  BY <1>3, <1>4, FS_Injection
<1>6. i - 1 \in ranks
  BY <1>1
<1>7. \A r \in ranks : \E k \in K : f[k] = r
  BY <1>5 DEF Surjection
<1> QED
  BY <1>6, <1>7

LEMMA MaxProperties ==
    ASSUME NEW S \in SUBSET Nat, IsFiniteSet(S), S # {}
    PROVE  Max(S) \in S /\ \A y \in S : Max(S) >= y
<1> DEFINE n == Cardinality(S)
<1>1. n \in Nat /\ n # 0
  BY FS_CardinalityType, FS_EmptySet
<1>2. PICK k \in S : Rank(S, k) = n - 1
  BY <1>1, RankOnto
<1> DEFINE below == {x \in S : x < k}
<1>3. IsFiniteSet(S \ {k}) /\ Cardinality(S \ {k}) = n - 1
  BY FS_RemoveElement
<1>4. below \in SUBSET (S \ {k}) /\ Cardinality(below) = n - 1
  BY <1>2 DEF Rank
<1>5. S \ {k} = below
  BY <1>3, <1>4, FS_Subset
<1>6. \A y \in S : k >= y
  BY <1>5
<1> QED
  BY <1>6 DEF Max

OneEach(rows) == \A i, j \in 1 .. Len(rows) : rows[i].key = rows[j].key => i = j

LEMMA InKeyOrderProperties ==
    ASSUME NEW S, NEW rows \in SUBSET S,
           \A r \in rows : r.key \in Keys,
           \A r, t \in rows : r.key = t.key => r = t
    PROVE  /\ InKeyOrder(rows) \in Seq(S)
           /\ ToSet(InKeyOrder(rows)) = rows
           /\ OneEach(InKeyOrder(rows))
<1> DEFINE K == {r.key : r \in rows}
           n == Cardinality(K)
           at(i) == CHOOSE r \in rows : Rank(K, r.key) = i - 1
           s == InKeyOrder(rows)
<1>1. K \in SUBSET Nat /\ K \in SUBSET Keys
  BY SheetSyncAssumption
<1>2. IsFiniteSet(K)
  BY <1>1, SheetSyncAssumption, FS_Subset
<1>3. n \in Nat
  BY <1>2, FS_CardinalityType
<1>4. s = [i \in 1 .. n |-> at(i)]
  BY DEF InKeyOrder, Rank
<1>5. ASSUME NEW i \in 1 .. n PROVE at(i) \in rows /\ Rank(K, at(i).key) = i - 1
  <2>1. \E k \in K : Rank(K, k) = i - 1
    BY <1>1, <1>2, RankOnto
  <2>2. \E r \in rows : Rank(K, r.key) = i - 1
    BY <2>1
  <2> QED
    BY <2>2
<1> HIDE DEF at, s
<1>6. s \in Seq(S) /\ Len(s) = n
  BY <1>3, <1>4, <1>5
<1>7. OneEach(s)
  <2> SUFFICES ASSUME NEW i \in 1 .. n, NEW j \in 1 .. n, at(i).key = at(j).key PROVE i = j
    BY <1>4, <1>6 DEF OneEach
  <2>1. i - 1 = j - 1
    BY <1>5
  <2> QED
    BY <2>1, <1>3
<1>8. ASSUME NEW r \in rows PROVE \E i \in 1 .. n : at(i) = r
  <2> DEFINE i == Rank(K, r.key) + 1
  <2>1. r.key \in K
    OBVIOUS
  <2>2. Rank(K, r.key) \in Nat /\ Rank(K, r.key) < n
    BY <2>1, <1>1, <1>2, RankType
  <2>3. i \in 1 .. n /\ i - 1 = Rank(K, r.key)
    BY <2>2, <1>3
  <2>4. at(i) \in rows /\ Rank(K, at(i).key) = Rank(K, r.key)
    BY <2>3, <1>5
  <2>5. at(i).key = r.key
    BY <2>4, <2>1, <1>1, <1>2, RankInjective
  <2> QED
    BY <2>3, <2>4, <2>5
<1>9. ToSet(s) = rows
  BY <1>4, <1>5, <1>8 DEF ToSet
<1> QED
  BY <1>6, <1>7, <1>9 DEF s

-----------------------------------------------------------------------------
(* Tables.                                                                   *)

LEMMA KeysOfRows ==
    ASSUME NEW S, NEW rows \in Seq(S)
    PROVE  KeysOf(rows) = {rows[i].key : i \in 1 .. Len(rows)}
BY DEF KeysOf, ToSet

\* As many keys as rows: each row has one of its own.
LEMMA KeysCount ==
    ASSUME NEW S, NEW rows \in Seq(S)
    PROVE  /\ IsFiniteSet(KeysOf(rows))
           /\ Cardinality(KeysOf(rows)) = Len(rows) <=> OneEach(rows)
<1> DEFINE f == [i \in 1 .. Len(rows) |-> rows[i].key]
           D == 1 .. Len(rows)
<1>1. Len(rows) \in Nat
  OBVIOUS
<1>2. IsFiniteSet(D) /\ Cardinality(D) = Len(rows)
  <2>1. 1 \in Int /\ Len(rows) \in Int
    BY <1>1
  <2>2. /\ IsFiniteSet(1 .. Len(rows))
        /\ Cardinality(1 .. Len(rows)) = IF 1 > Len(rows) THEN 0 ELSE Len(rows) - 1 + 1
    BY <2>1, FS_Interval, Zenon
  <2> QED
    BY <2>2, <1>1
<1>3. f \in Surjection(D, KeysOf(rows))
  <2>1. f \in [D -> KeysOf(rows)] /\ \A k \in KeysOf(rows) : \E i \in D : f[i] = k
    BY KeysOfRows
  <2> QED
    BY <2>1, Fun_IsSurj
<1>4. /\ IsFiniteSet(KeysOf(rows))
      /\ Cardinality(KeysOf(rows)) = Cardinality(D) <=> f \in Injection(D, KeysOf(rows))
  BY <1>2, <1>3, FS_Surjection
<1>5. f \in Injection(D, KeysOf(rows)) <=> OneEach(rows)
  <2>1. f \in Injection(D, KeysOf(rows)) <=> \A i, j \in D : f[i] = f[j] => i = j
    BY <1>3 DEF Surjection, Injection, IsInjective
  <2> QED
    BY <2>1 DEF OneEach
<1> QED
  BY <1>2, <1>4, <1>5

LEMMA ReadableRows ==
    ASSUME NEW rows \in Seq(Rows), Readable(rows)
    PROVE  OneEach(rows) /\ \A i \in 1 .. Len(rows) : rows[i] \in Rows /\ rows[i].key \in Keys
<1>1. OneEach(rows)
  BY KeysCount DEF Readable
<1>2. ASSUME NEW i \in 1 .. Len(rows) PROVE rows[i] \in Rows /\ rows[i].key \in Keys
  <2>1. rows[i] \in Rows
    OBVIOUS
  <2>2. rows[i].key \in KeysOf(rows)
    BY KeysOfRows
  <2> QED
    BY <2>1, <2>2 DEF Readable, Rows
<1> QED
  BY <1>1, <1>2

LEMMA ChunkProperties ==
    ASSUME NEW S, NEW rows \in Seq(S), NEW sent \in 0 .. Len(rows), NEW size \in Nat \ {0}
    PROVE  /\ Chunk(rows, sent, size) \in Seq(S) /\ Len(Chunk(rows, sent, size)) \in Nat
           /\ sent + Len(Chunk(rows, sent, size)) \in sent .. Len(rows)
           /\ \A n \in 1 .. Len(Chunk(rows, sent, size)) : Chunk(rows, sent, size)[n] = rows[sent + n]
<1> DEFINE to == Min({sent + size, Len(rows)})
           chunk == Chunk(rows, sent, size)
<1>1. Len(rows) \in Nat /\ sent \in Nat /\ sent <= Len(rows)
  OBVIOUS
<1>2. to \in {sent + size, Len(rows)}
  <2>1. \E x \in {sent + size, Len(rows)} : \A y \in {sent + size, Len(rows)} : x <= y
    BY <1>1
  <2> QED
    BY <2>1 DEF Min
<1>3. to \in sent .. Len(rows)
  <2>1. \A y \in {sent + size, Len(rows)} : to <= y
    <3>1. \E x \in {sent + size, Len(rows)} : \A y \in {sent + size, Len(rows)} : x <= y
      BY <1>1
    <3> QED
      BY <3>1 DEF Min
  <2> QED
    BY <1>1, <1>2, <2>1
<1>4. chunk = SubSeq(rows, sent + 1, to)
  BY DEF Chunk
<1> HIDE DEF to, chunk
<1>5. chunk \in Seq(S) /\ Len(chunk) = to - sent
  BY <1>1, <1>3, <1>4
<1>6. \A n \in 1 .. to - sent : chunk[n] = rows[sent + n]
  BY <1>1, <1>3, <1>4
<1> QED
  BY <1>1, <1>3, <1>5, <1>6 DEF chunk

\* The rows of a chunk are none of those before it, nor of those after it.
Apart(chunk, rows, sent, to) ==
    /\ OneEach(chunk) /\ to \in 0 .. Len(rows)
    /\ \A n \in 1 .. Len(chunk) :
         \E m \in sent + 1 .. Len(rows) : m \in 1 .. Len(rows) /\ m \in 1 .. to /\ chunk[n] = rows[m]
    /\ \A m \in 1 .. sent : m \in 1 .. to /\ rows[m].key \notin KeysOf(chunk)
    /\ \A m \in to + 1 .. Len(rows) : m \in sent + 1 .. Len(rows) /\ rows[m].key \notin KeysOf(chunk)

LEMMA ChunkKeys ==
    ASSUME NEW S, NEW rows \in Seq(S), OneEach(rows), NEW sent \in 0 .. Len(rows), NEW size \in Nat \ {0}
    PROVE  Apart(Chunk(rows, sent, size), rows, sent, sent + Len(Chunk(rows, sent, size)))
<1> DEFINE chunk == Chunk(rows, sent, size)
           to == sent + Len(chunk)
<1>1. Len(rows) \in Nat /\ sent \in Nat /\ sent <= Len(rows)
  OBVIOUS
<1>2. /\ chunk \in Seq(S) /\ Len(chunk) \in Nat /\ to \in sent .. Len(rows)
      /\ \A n \in 1 .. Len(chunk) : chunk[n] = rows[sent + n]
  BY ChunkProperties
<1> HIDE DEF chunk
<1>3. ASSUME NEW n \in 1 .. Len(chunk)
      PROVE  /\ sent + n \in sent + 1 .. Len(rows) /\ sent + n \in 1 .. Len(rows)
             /\ sent + n \in sent + 1 .. to /\ sent + n \in 1 .. to
  BY <1>1, <1>2
<1>4. OneEach(chunk)
  <2> SUFFICES ASSUME NEW n \in 1 .. Len(chunk), NEW m \in 1 .. Len(chunk), chunk[n].key = chunk[m].key
               PROVE  n = m
    BY DEF OneEach
  <2>1. rows[sent + n].key = rows[sent + m].key
    BY <1>2
  <2>2. sent + n = sent + m
    BY <2>1, <1>3 DEF OneEach
  <2> QED
    BY <2>2, <1>1
<1>5. KeysOf(chunk) = {chunk[n].key : n \in 1 .. Len(chunk)}
  BY <1>2, KeysOfRows
<1>6. ASSUME NEW m \in 1 .. Len(rows), m \notin sent + 1 .. to PROVE rows[m].key \notin KeysOf(chunk)
  <2> SUFFICES ASSUME NEW n \in 1 .. Len(chunk), rows[m].key = chunk[n].key PROVE FALSE
    BY <1>5
  <2>1. rows[m].key = rows[sent + n].key
    BY <1>2
  <2>2. m = sent + n
    BY <2>1, <1>3 DEF OneEach
  <2> QED
    BY <2>2, <1>3, <1>6
<1>7. \A m \in 1 .. sent : m \in 1 .. Len(rows) /\ m \in 1 .. to /\ m \notin sent + 1 .. to
  BY <1>1, <1>2
<1>8. \A m \in to + 1 .. Len(rows) :
        m \in 1 .. Len(rows) /\ m \in sent + 1 .. Len(rows) /\ m \notin sent + 1 .. to
  BY <1>1, <1>2
<1> QED
  <2>1. to \in 0 .. Len(rows)
    BY <1>1, <1>2
  <2> HIDE DEF to
  <2>2. Apart(chunk, rows, sent, to)
    BY <2>1, <1>2, <1>3, <1>4, <1>6, <1>7, <1>8 DEF Apart
  <2> QED
    BY <2>2 DEF chunk, to

\* What an update request makes of a row that is there.
For(batch, i) == {u \in ToSet(batch) : u.row = i}
UpdatedFrom(new, rows, batch) ==
    /\ new \in Seq(Rows) /\ Len(new) >= Len(rows)
    /\ (\A u \in ToSet(batch) : u.row <= Len(rows)) => Len(new) = Len(rows)
    /\ \A i \in 1 .. Len(rows) :
         /\ new[i].key = rows[i].key /\ new[i].name = rows[i].name
         /\ For(batch, i) = {} => new[i] = rows[i]
         /\ For(batch, i) # {} =>
              \E u \in For(batch, i) : new[i] = [rows[i] EXCEPT !.guide = u.guide]
    /\ \A i \in Len(rows) + 1 .. Len(new) : new[i] = Fragment

LEMMA UpdatedProperties ==
    ASSUME NEW rows \in Seq(Rows), NEW batch \in Seq(Updates)
    PROVE  UpdatedFrom(Updated(rows, batch), rows, batch)
<1> DEFINE at(i) == {u \in ToSet(batch) : u.row = i}
           numbers == {u.row : u \in ToSet(batch)}
           S == {Len(rows)} \cup numbers
           last == Max(S)
           some(i) == CHOOSE u \in at(i) : TRUE
           cell(i) == IF i > Len(rows) THEN Fragment
                      ELSE IF at(i) = {} THEN rows[i]
                      ELSE [rows[i] EXCEPT !.guide = some(i).guide]
           new == Updated(rows, batch)
<1>1. \A u \in ToSet(batch) : u \in Updates
  BY DEF ToSet
<1>2. Len(rows) \in Nat /\ Len(batch) \in Nat
  OBVIOUS
<1>3. S \in SUBSET Nat /\ S # {}
  BY <1>1, <1>2 DEF Updates
<1>4. IsFiniteSet(S)
  <2> DEFINE D == 1 .. Len(batch)
             f == [i \in D |-> batch[i].row]
  <2>1. 1 \in Int /\ Len(batch) \in Int
    BY <1>2
  <2>2. IsFiniteSet(1 .. Len(batch))
    BY <2>1, FS_Interval
  <2>3. f \in [D -> numbers] /\ \A k \in numbers : \E i \in D : f[i] = k
    BY DEF ToSet
  <2>4. f \in Surjection(D, numbers)
    BY <2>3, Fun_IsSurj
  <2>5. IsFiniteSet(numbers)
    BY <2>2, <2>4, FS_Surjection
  <2>6. S = numbers \cup {Len(rows)}
    OBVIOUS
  <2> QED
    BY <2>5, <2>6, FS_AddElement
<1>5. last \in S /\ \A y \in S : last >= y
  BY <1>3, <1>4, MaxProperties
<1>6. last \in Nat /\ last >= Len(rows)
  BY <1>3, <1>5
<1>7. new = [i \in 1 .. last |-> cell(i)]
  BY DEF Updated
<1>8. \A i : at(i) # {} => some(i) \in at(i)
  OBVIOUS
<1>9. (\A u \in ToSet(batch) : u.row <= Len(rows)) => last = Len(rows)
  BY <1>5, <1>6, <1>2
<1>10. ASSUME NEW i \in 1 .. Len(rows), at(i) # {}
       PROVE  /\ [rows[i] EXCEPT !.guide = some(i).guide] \in Rows
              /\ [rows[i] EXCEPT !.guide = some(i).guide].key = rows[i].key
              /\ [rows[i] EXCEPT !.guide = some(i).guide].name = rows[i].name
  <2>1. rows[i] \in Rows
    OBVIOUS
  <2>2. some(i).guide \in Guides
    BY <1>1, <1>8, <1>10 DEF Updates, Guides
  <2> HIDE DEF some
  <2> QED
    BY <2>1, <2>2 DEF Rows
<1>11. Fragment \in Rows
  BY DEF Fragment, Rows, Guides
<1> HIDE DEF last, at, some, new
<1>12. ASSUME NEW i \in 1 .. last PROVE cell(i) \in Rows
  <2>1. CASE i > Len(rows)
    BY <2>1, <1>11
  <2>2. CASE ~(i > Len(rows))
    <3>1. i \in 1 .. Len(rows)
      BY <2>2, <1>2, <1>6
    <3>2. rows[i] \in Rows
      BY <3>1
    <3> QED
      BY <2>2, <3>1, <3>2, <1>10
  <2> QED
    BY <2>1, <2>2
<1>13. new \in Seq(Rows) /\ Len(new) = last
  <2> HIDE DEF cell
  <2> QED
    BY <1>6, <1>7, <1>12
<1>14. ASSUME NEW i \in 1 .. Len(rows)
       PROVE  /\ new[i].key = rows[i].key /\ new[i].name = rows[i].name
              /\ at(i) = {} => new[i] = rows[i]
              /\ at(i) # {} => \E u \in at(i) : new[i] = [rows[i] EXCEPT !.guide = u.guide]
  <2>1. i \in 1 .. last /\ ~(i > Len(rows))
    BY <1>2, <1>6
  <2>2. new[i] = cell(i)
    BY <1>7, <2>1
  <2>3. CASE at(i) = {}
    BY <2>1, <2>2, <2>3
  <2>4. CASE at(i) # {}
    <3>1. new[i] = [rows[i] EXCEPT !.guide = some(i).guide]
      BY <2>1, <2>2, <2>4
    <3> QED
      BY <3>1, <2>4, <1>8, <1>10
  <2> QED
    BY <2>3, <2>4
<1>15. \A i \in Len(rows) + 1 .. last : new[i] = Fragment
  BY <1>2, <1>6, <1>7
<1> QED
  BY <1>6, <1>9, <1>13, <1>14, <1>15 DEF at, new, For, UpdatedFrom

-----------------------------------------------------------------------------
(***************************************************************************)
(* The inductive invariant.                                                *)
(***************************************************************************)
Tidy == [key : Keys, name : Names, guide : Guides]
Proper(rows) == rows \in Seq(Tidy) /\ OneEach(rows)

\* Only what is left of a late update has no name.
Named(rows) == \A i \in 1 .. Len(rows) : rows[i].key \in Keys => rows[i].name \in Names

\* A request in flight repeats nothing, and no run is on that could send it again.
LateOK(request, j, keys, open) ==
    request # NoRequest =>
      /\ request.kind = "rows" =>
           /\ j = NoJob /\ Proper(request.body)
           /\ \A n \in 1 .. Len(request.body) : request.body[n].key \notin keys
      /\ request.kind = "alerts" =>
           /\ OneEach(request.body)
           /\ \A n \in 1 .. Len(request.body) : request.body[n].key \notin open

Reading == {"fetching", "reading", "matching"}
Early == Reading \cup {"deduplicating", "alerting"}
Unwritten == Early \cup {"confirming", "revalidating", "comparing", "clearing", "appending", "appended"}

\* What a run decided, from the tables it read.
DecisionInv(j) ==
    /\ Proper(j.base)
    /\ Proper(j.proposals)
    /\ \A n \in 1 .. Len(j.proposals) :
         /\ j.proposals[n].key \notin KeysOf(j.base)
         /\ j.proposals[n].name = j.inventory[j.proposals[n].key]
    /\ OneEach(j.pending)
    /\ \A n \in 1 .. Len(j.updates) :
         /\ j.updates[n].row \in 1 .. Len(j.base)
         /\ j.updates[n].key = j.base[j.updates[n].row].key
         /\ j.updates[n].guide = j.base[j.updates[n].row].name
    /\ j.step \in Reading => j.proposals = << >> /\ j.pending = << >> /\ j.updates = << >>
    /\ j.step \notin Reading => Reused(j.base, j.inventory) \subseteq j.blocked

\* Its table: what it read, the rows it appended, the updates it made.
Worked(j) ==
    /\ Len(j.table) >= Len(j.base)
    /\ \A i \in 1 .. Len(j.base) :
         j.table[i] = IF \E n \in 1 .. j.done : j.updates[n].row = i
                      THEN [j.base[i] EXCEPT !.guide = j.base[i].name] ELSE j.base[i]
    /\ {j.table[i] : i \in Len(j.base) + 1 .. Len(j.table)} = ToSet(j.proposals)

\* How far it is.
ProgressInv(j) ==
    /\ j.sent \in 0 .. Len(j.proposals) /\ j.alerted \in 0 .. Len(j.pending)
    /\ j.done \in 0 .. Len(j.updates)
    /\ j.step \in Reading \cup {"deduplicating"} => j.alerted = 0
    /\ j.step \in Early \cup {"confirming"} => j.sent = 0
    /\ j.step = "appended" => j.sent = Len(j.proposals)
    /\ j.step \in Unwritten => j.table = j.base /\ j.done = 0
    /\ j.step \notin Unwritten => Worked(j)
    /\ j.step \in {"terminal", "bundling"} => j.done = Len(j.updates)
    /\ j.step = "bundling" => Readable(j.table)

\* The streams that can be in the Sheet while it runs, and those it has yet to alert.
Known(j) == {NoKey} \cup KeysOf(j.base) \cup {j.proposals[n].key : n \in 1 .. j.sent}
Unopened(j, open) ==
    j.step = "alerting" =>
      \A n \in j.alerted + 1 .. Len(j.pending) : j.pending[n].key \notin open

RunOK(j, keys, open, request) ==
    j # NoJob =>
      /\ DecisionInv(j) /\ ProgressInv(j)
      /\ keys \subseteq Known(j)
      /\ Unopened(j, open)
      /\ j.step \in Early => request = NoRequest

IInv ==
    /\ TypeOK /\ Named(mappings) /\ OneRowPerStream /\ OneOpenAlertPerStream
    /\ LateOK(late, job, KeysOf(mappings), OpenKeys)
    /\ RunOK(job, KeysOf(mappings), OpenKeys, late)

-----------------------------------------------------------------------------
(* Steps of the run's own state.                                            *)

LEMMA GoToJob ==
    ASSUME NEW j \in Jobs, NEW step \in Steps
    PROVE  LET g == [j EXCEPT !.step = step]
           IN  /\ g \in Jobs /\ g.step = step
               /\ g.mode = j.mode /\ g.inventory = j.inventory /\ g.base = j.base
               /\ g.table = j.table /\ g.blocked = j.blocked /\ g.pending = j.pending
               /\ g.alerted = j.alerted /\ g.proposals = j.proposals /\ g.sent = j.sent
               /\ g.updates = j.updates /\ g.done = j.done
BY DEF Jobs

\* Most checks let a run go on to a step at which nothing more is required of it.
LEMMA ForwardJob ==
    ASSUME NEW j \in Jobs, DecisionInv(j), ProgressInv(j),
           NEW step \in Steps,
           \/ j.step \in {"alerting", "confirming"} /\ step = "confirming"
           \/ j.step \in Unwritten \ Reading
              /\ step \in {"revalidating", "comparing", "clearing", "appending"}
           \/ j.step \notin Unwritten
              /\ step \in {"checking", "rereading", "rechecking", "patching", "patched"}
    PROVE  LET g == [j EXCEPT !.step = step]
           IN  DecisionInv(g) /\ ProgressInv(g) /\ Known(g) = Known(j)
<1> DEFINE g == [j EXCEPT !.step = step]
<1>1. /\ g.step = step /\ g.inventory = j.inventory /\ g.base = j.base
      /\ g.table = j.table /\ g.blocked = j.blocked /\ g.pending = j.pending
      /\ g.alerted = j.alerted /\ g.proposals = j.proposals /\ g.sent = j.sent
      /\ g.updates = j.updates /\ g.done = j.done
  BY GoToJob
<1> HIDE DEF g
<1>2. DecisionInv(g)
  BY <1>1 DEF DecisionInv, Reading, Early, Unwritten
<1>3. ProgressInv(g)
  <2>1. Worked(j) => Worked(g)
    BY <1>1 DEF Worked
  <2> QED
    BY <1>1, <2>1 DEF ProgressInv, Reading, Early, Unwritten
<1>4. Known(g) = Known(j)
  BY <1>1 DEF Known
<1> QED
  BY <1>2, <1>3, <1>4 DEF g

\* Before it has written anything a run's table is what it read.
LEMMA NothingWorked ==
    ASSUME NEW j \in Jobs, Proper(j.base), j.table = j.base, j.done = 0, j.proposals = << >>
    PROVE  Worked(j)
BY DEF Worked, Proper, ToSet

\* From the confirmed alerts to the first write, if there is one.
LEMMA NextWriteJob ==
    ASSUME NEW j \in Jobs, DecisionInv(j), ProgressInv(j), j.step = "confirming",
           NEW step,
           step = IF j.proposals # << >> /\ j.sent = 0 THEN "revalidating"
                  ELSE IF j.updates # << >> THEN "updating" ELSE "terminal"
    PROVE  LET g == [j EXCEPT !.step = step]
           IN  g \in Jobs /\ DecisionInv(g) /\ ProgressInv(g) /\ Known(g) = Known(j)
<1> DEFINE g == [j EXCEPT !.step = step]
<1>1. step \in Steps
  BY DEF Steps
<1>2. CASE step = "revalidating"
  BY <1>1, <1>2, ForwardJob, GoToJob DEF Unwritten, Reading, Early
<1>3. CASE step \in {"updating", "terminal"}
  <2>1. j.sent = 0 /\ j.table = j.base /\ j.done = 0 /\ Proper(j.base)
    BY DEF ProgressInv, DecisionInv, Unwritten, Early
  <2>2. j.proposals = << >> /\ (step = "terminal" => j.updates = << >>)
    BY <2>1, <1>3
  <2>3. /\ g \in Jobs
        /\ g.step = step /\ g.inventory = j.inventory /\ g.base = j.base
        /\ g.table = j.table /\ g.blocked = j.blocked /\ g.pending = j.pending
        /\ g.alerted = j.alerted /\ g.proposals = j.proposals /\ g.sent = j.sent
        /\ g.updates = j.updates /\ g.done = j.done
    BY <1>1, GoToJob
  <2> HIDE DEF g
  <2>4. Worked(g)
    BY <2>1, <2>2, <2>3, NothingWorked
  <2>5. DecisionInv(g)
    BY <2>3, <1>3 DEF DecisionInv, Reading
  <2>6. ProgressInv(g)
    BY <2>1, <2>2, <2>3, <2>4, <1>3 DEF ProgressInv, Reading, Early, Unwritten
  <2>7. Known(g) = Known(j)
    BY <2>3 DEF Known
  <2> QED
    BY <2>3, <2>5, <2>6, <2>7 DEF g
<1> QED
  BY <1>2, <1>3

\* After the append: the table read back, which shows the rows it had and its own.
LEMMA AppendedJob ==
    ASSUME NEW j \in Jobs, DecisionInv(j), ProgressInv(j), j.step = "appended",
           NEW table \in Seq(Rows), Readable(table), Len(table) >= Len(j.base),
           SubSeq(table, 1, Len(j.base)) = j.base,
           ToSet(table) = ToSet(j.base) \cup ToSet(j.proposals),
           NEW step,
           step = IF j.proposals # << >> /\ j.sent = 0 THEN "revalidating"
                  ELSE IF j.updates # << >> THEN "updating" ELSE "terminal"
    PROVE  LET g == [j EXCEPT !.table = table, !.step = step]
           IN  g \in Jobs /\ DecisionInv(g) /\ ProgressInv(g) /\ Known(g) = Known(j)
<1> DEFINE g == [j EXCEPT !.table = table, !.step = step]
           B == j.base
           P == j.proposals
           rest == Len(B) + 1 .. Len(table)
<1>1. j.done = 0 /\ Proper(B) /\ Proper(P) /\ j.sent = Len(P)
  BY DEF ProgressInv, DecisionInv, Unwritten, Early
<1>2. step \in {"updating", "terminal"} /\ (step = "terminal" => j.updates = << >>)
  BY <1>1 DEF Proper
<1>3. step \in Steps
  BY <1>2 DEF Steps
<1>4. /\ g \in Jobs
      /\ g.step = step /\ g.inventory = j.inventory /\ g.base = j.base
      /\ g.table = table /\ g.blocked = j.blocked /\ g.pending = j.pending
      /\ g.alerted = j.alerted /\ g.proposals = j.proposals /\ g.sent = j.sent
      /\ g.updates = j.updates /\ g.done = j.done
  BY <1>3 DEF Jobs
<1>5. Len(B) \in Nat /\ Len(table) \in Nat /\ B \in Seq(Tidy) /\ P \in Seq(Tidy)
  BY <1>1 DEF Proper
<1>6. \A i \in 1 .. Len(B) : table[i] = B[i]
  <2>1. \A i \in 1 .. Len(B) : SubSeq(table, 1, Len(B))[i] = table[i]
    BY <1>5
  <2> QED
    BY <2>1
<1>7. OneEach(table)
  BY ReadableRows
<1>8. {table[i] : i \in rest} = ToSet(P)
  <2>1. ASSUME NEW i \in rest PROVE table[i] \in ToSet(P)
    <3>1. i \in 1 .. Len(table) /\ table[i] \in ToSet(table)
      BY <1>5 DEF ToSet
    <3>2. SUFFICES table[i] \notin ToSet(B)
      BY <3>1
    <3>3. ASSUME NEW h \in 1 .. Len(B), table[i] = B[h] PROVE FALSE
      <4>1. h \in 1 .. Len(table) /\ table[h] = B[h] /\ h # i
        BY <1>5, <1>6
      <4> QED
        BY <3>1, <3>3, <4>1, <1>7 DEF OneEach
    <3>4. DOMAIN B = 1 .. Len(B)
      BY <1>5
    <3> QED
      BY <3>3, <3>4, Zenon DEF ToSet
  <2>2. ASSUME NEW p \in ToSet(P) PROVE \E i \in rest : table[i] = p
    <3>1. PICK n \in 1 .. Len(P) : p = P[n]
      BY <1>5 DEF ToSet
    <3>2. p \in ToSet(table)
      OBVIOUS
    <3>3. PICK i \in 1 .. Len(table) : table[i] = p
      BY <3>2, <1>5 DEF ToSet
    <3>4. i \notin 1 .. Len(B)
      <4>1. SUFFICES ASSUME i \in 1 .. Len(B) PROVE FALSE
        OBVIOUS
      <4>2. P[n].key \in KeysOf(B)
        BY <1>5, <1>6, <3>1, <3>3, <4>1, KeysOfRows
      <4> QED
        BY <4>2 DEF DecisionInv
    <3> QED
      <4>1. i \in rest
        BY <3>4, <1>5
      <4> QED
        BY <3>3, <4>1
  <2> QED
    BY <2>1, <2>2
<1> HIDE DEF g
<1>9. Worked(g)
  BY <1>1, <1>4, <1>5, <1>6, <1>8 DEF Worked
<1>10. DecisionInv(g)
  BY <1>2, <1>4 DEF DecisionInv, Reading
<1>11. ProgressInv(g)
  BY <1>1, <1>2, <1>4, <1>9 DEF ProgressInv, Reading, Early, Unwritten
<1>12. Known(g) = Known(j)
  BY <1>4 DEF Known
<1> QED
  BY <1>4, <1>10, <1>11, <1>12 DEF g

\* After an update request: the table with its batch.
Batched(j) ==
    LET batch == Chunk(j.updates, j.done, BatchRows)
        done == j.done + Len(batch)
    IN  [j EXCEPT !.table = Updated(j.table, batch), !.done = done,
                  !.step = IF done = Len(j.updates) THEN "terminal" ELSE "checking"]

LEMMA BatchJob ==
    ASSUME NEW j \in Jobs, DecisionInv(j), ProgressInv(j), j.step \notin Unwritten
    PROVE  /\ Batched(j) \in Jobs /\ DecisionInv(Batched(j)) /\ ProgressInv(Batched(j))
           /\ Known(Batched(j)) = Known(j) /\ Batched(j).step \notin Early
<1> DEFINE batch == Chunk(j.updates, j.done, BatchRows)
           table == Updated(j.table, batch)
           done == j.done + Len(batch)
           step == IF done = Len(j.updates) THEN "terminal" ELSE "checking"
           g == [j EXCEPT !.table = table, !.done = done, !.step = step]
           B == j.base
           U == j.updates
           T == j.table
           at(i) == {u \in ToSet(batch) : u.row = i}
           own(i, to) == IF \E n \in 1 .. to : U[n].row = i
                         THEN [B[i] EXCEPT !.guide = B[i].name] ELSE B[i]
<1>a. g = Batched(j)
  BY DEF Batched
<1>b. /\ batch = Chunk(j.updates, j.done, BatchRows) /\ table = Updated(j.table, batch)
      /\ done = j.done + Len(batch)
      /\ step = IF done = Len(j.updates) THEN "terminal" ELSE "checking"
  OBVIOUS
<1> HIDE DEF batch, table, done, step
<1> USE <1>b
<1>1. /\ U \in Seq(Updates) /\ T \in Seq(Rows) /\ B \in Seq(Rows)
      /\ j.done \in 0 .. Len(U) /\ BatchRows \in Nat \ {0}
  BY SheetSyncAssumption DEF Jobs, ProgressInv
<1>2. /\ batch \in Seq(Updates) /\ Len(batch) \in Nat
      /\ done \in j.done .. Len(U)
      /\ \A n \in 1 .. Len(batch) : batch[n] = U[j.done + n]
  <2>1. batch = Chunk(U, j.done, BatchRows)
    OBVIOUS
  <2> DEFINE sent == j.done
  <2> HIDE DEF U, sent
  <2>2. U \in Seq(Updates) /\ sent \in 0 .. Len(U) /\ BatchRows \in Nat \ {0}
    BY <1>1 DEF sent
  <2>3. /\ Chunk(U, sent, BatchRows) \in Seq(Updates)
        /\ Len(Chunk(U, sent, BatchRows)) \in Nat
        /\ sent + Len(Chunk(U, sent, BatchRows)) \in sent .. Len(U)
        /\ \A n \in 1 .. Len(Chunk(U, sent, BatchRows)) :
             Chunk(U, sent, BatchRows)[n] = U[sent + n]
    BY <2>2, ChunkProperties
  <2>4. /\ Chunk(U, j.done, BatchRows) \in Seq(Updates)
        /\ Len(Chunk(U, j.done, BatchRows)) \in Nat
        /\ j.done + Len(Chunk(U, j.done, BatchRows)) \in j.done .. Len(U)
        /\ \A n \in 1 .. Len(Chunk(U, j.done, BatchRows)) :
             Chunk(U, j.done, BatchRows)[n] = U[j.done + n]
    BY <2>3 DEF sent
  <2> QED
    BY <2>1, <2>4
<1>3. /\ Len(T) >= Len(B)
      /\ \A i \in 1 .. Len(B) : T[i] = own(i, j.done)
      /\ {T[i] : i \in Len(B) + 1 .. Len(T)} = ToSet(j.proposals)
  BY DEF ProgressInv, Worked
<1>4. ASSUME NEW u \in ToSet(batch)
      PROVE  \E n \in j.done + 1 .. done : u = U[n]
  <2>1. PICK n \in 1 .. Len(batch) : u = batch[n]
    BY <1>2 DEF ToSet
  <2>2. j.done + n \in j.done + 1 .. done /\ u = U[j.done + n]
    BY <1>1, <1>2, <2>1
  <2> QED
    BY <2>2
<1>5. ASSUME NEW n \in j.done + 1 .. done PROVE U[n] \in ToSet(batch)
  <2>1. n - j.done \in 1 .. Len(batch) /\ j.done + (n - j.done) = n
    BY <1>1, <1>2
  <2>2. batch[n - j.done] = U[n]
    BY <1>2, <2>1
  <2> QED
    BY <1>2, <2>1, <2>2 DEF ToSet
<1>6. ASSUME NEW n \in 1 .. Len(U)
      PROVE  U[n].row \in 1 .. Len(B) /\ U[n].guide = B[U[n].row].name
  BY DEF DecisionInv
<1>7. \A u \in ToSet(batch) : u.row \in 1 .. Len(B) /\ u.guide = B[u.row].name
  <2> SUFFICES ASSUME NEW u \in ToSet(batch) PROVE u.row \in 1 .. Len(B) /\ u.guide = B[u.row].name
    OBVIOUS
  <2>1. PICK n \in j.done + 1 .. done : u = U[n]
    BY <1>4
  <2>2. n \in 1 .. Len(U)
    BY <1>1, <1>2
  <2> QED
    BY <2>1, <2>2, <1>6
<1>8. Len(B) \in Nat /\ Len(T) \in Nat
  BY <1>1
<1>9. \A u \in ToSet(batch) : u.row <= Len(T)
  BY <1>3, <1>7, <1>8
<1>10. /\ table \in Seq(Rows) /\ Len(table) = Len(T)
       /\ \A i \in 1 .. Len(T) :
            /\ at(i) = {} => table[i] = T[i]
            /\ at(i) # {} => \E u \in at(i) : table[i] = [T[i] EXCEPT !.guide = u.guide]
  <2>1. UpdatedFrom(Updated(j.table, batch), j.table, batch)
    BY <1>1, <1>2, UpdatedProperties
  <2>2. UpdatedFrom(table, j.table, batch)
    BY <2>1, Zenon
  <2> QED
    BY <1>9, <2>2 DEF UpdatedFrom, For
<1>11. ASSUME NEW i \in 1 .. Len(B) PROVE table[i] = own(i, done)
  <2>1. i \in 1 .. Len(T) /\ T[i] = own(i, j.done) /\ B[i] \in Rows
    <3>1. i \in 1 .. Len(T)
      BY <1>3, <1>8
    <3>2. T[i] = own(i, j.done)
      BY <1>3
    <3>3. B[i] \in Rows
      BY <1>1
    <3> QED
      BY <3>1, <3>2, <3>3
  <2>2. CASE at(i) = {}
    <3>1. ~\E n \in j.done + 1 .. done : U[n].row = i
      BY <1>5, <2>2
    <3>2. (\E n \in 1 .. done : U[n].row = i) <=> (\E n \in 1 .. j.done : U[n].row = i)
      BY <3>1, <1>1, <1>2
    <3> QED
      BY <2>1, <2>2, <3>2, <1>10
  <2>3. CASE at(i) # {}
    <3>1. PICK u \in at(i) : table[i] = [T[i] EXCEPT !.guide = u.guide]
      BY <2>1, <2>3, <1>10
    <3>2. u \in ToSet(batch) /\ u.row = i /\ u.guide = B[i].name
      BY <1>7
    <3>3. \E n \in 1 .. done : U[n].row = i
      <4>1. PICK n \in j.done + 1 .. done : u = U[n]
        BY <3>2, <1>4
      <4> QED
        BY <4>1, <3>2, <1>1, <1>2
    <3>4. T[i] = B[i] \/ T[i] = [B[i] EXCEPT !.guide = B[i].name]
      BY <2>1
    <3>5. table[i] = [B[i] EXCEPT !.guide = B[i].name]
      BY <2>1, <3>1, <3>2, <3>4 DEF Rows
    <3> QED
      BY <3>3, <3>5
  <2> QED
    BY <2>2, <2>3
<1>12. {table[i] : i \in Len(B) + 1 .. Len(table)} = ToSet(j.proposals)
  <2>1. \A i \in Len(B) + 1 .. Len(T) : i \in 1 .. Len(T) /\ at(i) = {}
    BY <1>7, <1>8
  <2>2. \A i \in Len(B) + 1 .. Len(T) : table[i] = T[i]
    BY <2>1, <1>10
  <2> QED
    BY <2>2, <1>3, <1>10
<1>13. step \in {"terminal", "checking"} /\ step \in Steps /\ done \in Nat
  BY <1>1, <1>2 DEF Steps
<1>14. /\ g \in Jobs
       /\ g.step = step /\ g.inventory = j.inventory /\ g.base = j.base
       /\ g.table = table /\ g.blocked = j.blocked /\ g.pending = j.pending
       /\ g.alerted = j.alerted /\ g.proposals = j.proposals /\ g.sent = j.sent
       /\ g.updates = j.updates /\ g.done = done
  BY <1>10, <1>13 DEF Jobs
<1> HIDE DEF g
<1>15. Worked(g)
  BY <1>3, <1>10, <1>11, <1>12, <1>14, SMTT(40) DEF Worked
<1>16. DecisionInv(g)
  BY <1>13, <1>14 DEF DecisionInv, Reading, Early, Unwritten
<1>17. ProgressInv(g)
  <2>1. done \in 0 .. Len(U)
    BY <1>1, <1>2
  <2> QED
    BY <1>13, <1>14, <1>15, <2>1 DEF ProgressInv, Reading, Early, Unwritten
<1>18. Known(g) = Known(j)
  BY <1>14 DEF Known
<1>19. g.step \notin Early
  BY <1>13, <1>14 DEF Early, Reading
<1> QED
  BY <1>a, <1>14, <1>16, <1>17, <1>18, <1>19

\* The decisions of a run: alerts to open, rows to add, rows to update.
MatchedWith(j, open, approved) ==
    LET pending == InKeyOrder(
          {[key |-> k, was |-> RowOf(j.base, k).name, now |-> j.inventory[k], open |-> TRUE] :
             k \in Reused(j.base, j.inventory) \ open})
        blocked == open \cup BlankKeys(j.base, j.inventory) \cup KeysOf(pending)
        rechecked == {i \in Rechecked(j.base, j.inventory, blocked) : j.base[i].key \in approved}
    IN  [j EXCEPT !.blocked = blocked, !.pending = pending, !.step = "deduplicating",
                  !.proposals = Proposed(j.base, j.inventory, approved \ blocked),
                  !.updates = InKeyOrder({[row |-> i, key |-> j.base[i].key, guide |-> j.base[i].name] :
                                            i \in rechecked})]

LEMMA MatchedJob ==
    ASSUME NEW j \in Jobs, DecisionInv(j), ProgressInv(j), j.step = "matching",
           NEW open \in SUBSET Keys, NEW allowed \in SUBSET Keys
    PROVE  LET g == MatchedWith(j, open, allowed)
           IN  /\ g \in Jobs /\ DecisionInv(g) /\ ProgressInv(g) /\ Known(g) = Known(j)
               /\ g.step = "deduplicating"
<1> DEFINE B == j.base
           I == j.inventory
           S == {[key |-> k, was |-> RowOf(B, k).name, now |-> I[k], open |-> TRUE] : k \in Reused(B, I) \ open}
           pending == InKeyOrder(S)
           blocked == open \cup BlankKeys(B, I) \cup KeysOf(pending)
           approved == allowed \ blocked
           rechecked == {i \in Rechecked(B, I, blocked) : B[i].key \in allowed}
           proposals == Proposed(B, I, approved)
           updates == InKeyOrder({[row |-> i, key |-> B[i].key, guide |-> B[i].name] : i \in rechecked})
           g == [j EXCEPT !.blocked = blocked, !.pending = pending, !.step = "deduplicating",
                          !.proposals = proposals, !.updates = updates]
           listed == {x \in Keys : I[x] \in Names} \ KeysOf(B)
           P == {[key |-> k, name |-> I[k], guide |-> Decided(I, approved)[k]] : k \in listed}
           W == {[row |-> i, key |-> B[i].key, guide |-> B[i].name] : i \in rechecked}
<1>a. g = MatchedWith(j, open, allowed)
  BY DEF MatchedWith
<1>b. /\ pending = InKeyOrder(S)
      /\ blocked = open \cup BlankKeys(B, I) \cup KeysOf(pending)
      /\ rechecked \in SUBSET (1 .. Len(B)) /\ approved \in SUBSET Keys
      /\ proposals = Proposed(B, I, approved)
      /\ updates = InKeyOrder({[row |-> i, key |-> B[i].key, guide |-> B[i].name] : i \in rechecked})
  BY DEF Rechecked
<1> HIDE DEF pending, blocked, approved, rechecked, proposals, updates
<1> USE <1>b
<1>1. /\ B \in Seq(Tidy) /\ OneEach(B) /\ I \in Lineups
      /\ j.alerted = 0 /\ j.sent = 0 /\ j.done = 0 /\ j.table = B
  BY DEF DecisionInv, ProgressInv, Proper, Jobs, Reading, Early, Unwritten
<1>2. Len(B) \in Nat /\ \A i \in 1 .. Len(B) : B[i] \in Tidy /\ B[i].key \in Keys /\ B[i].name \in Names
  <2>1. Len(B) \in Nat /\ \A i \in 1 .. Len(B) : B[i] \in Tidy
    BY <1>1
  <2> QED
    BY <2>1 DEF Tidy
<1>3. KeysOf(B) \in SUBSET Keys
  BY <1>1, <1>2, KeysOfRows
<1>4. ASSUME NEW k \in KeysOf(B) PROVE RowOf(B, k) \in ToSet(B) /\ RowOf(B, k).name \in Names
  <2>1. \E row \in ToSet(B) : row.key = k
    BY DEF KeysOf
  <2>2. RowOf(B, k) \in ToSet(B)
    BY <2>1 DEF RowOf
  <2>3. \E i \in 1 .. Len(B) : RowOf(B, k) = B[i]
    BY <1>1, <2>2 DEF ToSet
  <2> QED
    BY <1>2, <2>2, <2>3
<1>5. pending \in Seq(Alerts) /\ ToSet(pending) = S /\ OneEach(pending)
  <2>1. \A k \in Reused(B, I) : k \in KeysOf(B) /\ k \in Keys /\ I[k] \in Names
    BY <1>3 DEF Reused
  <2>2. ASSUME NEW r \in S PROVE r \in Alerts
    <3>1. PICK k \in Reused(B, I) \ open :
            r = [key |-> k, was |-> RowOf(B, k).name, now |-> I[k], open |-> TRUE]
      OBVIOUS
    <3>2. k \in Keys /\ I[k] \in Names /\ RowOf(B, k).name \in Names
      BY <1>4, <2>1
    <3> QED
      BY <3>1, <3>2 DEF Alerts
  <2>3. \A r \in S : r.key \in Keys
    BY <2>2 DEF Alerts
  <2>4. ASSUME NEW r \in S, NEW t \in S, r.key = t.key PROVE r = t
    <3>1. PICK k \in Reused(B, I) \ open :
            r = [key |-> k, was |-> RowOf(B, k).name, now |-> I[k], open |-> TRUE]
      OBVIOUS
    <3>2. PICK l \in Reused(B, I) \ open :
            t = [key |-> l, was |-> RowOf(B, l).name, now |-> I[l], open |-> TRUE]
      OBVIOUS
    <3>3. k = l
      BY <2>4, <3>1, <3>2
    <3> QED
      BY <3>1, <3>2, <3>3
  <2> HIDE DEF B, I
  <2> QED
    BY <2>2, <2>3, <2>4, InKeyOrderProperties
<1>6. KeysOf(pending) = Reused(B, I) \ open
  <2>1. KeysOf(pending) = {r.key : r \in S}
    BY <1>5 DEF KeysOf
  <2>2. ASSUME NEW k \in Reused(B, I) \ open PROVE \E r \in S : r.key = k
    <3> DEFINE r == [key |-> k, was |-> RowOf(B, k).name, now |-> I[k], open |-> TRUE]
    <3>1. r \in S
      OBVIOUS
    <3>2. r.key = k
      OBVIOUS
    <3> QED
      BY <3>1, <3>2
  <2>3. ASSUME NEW r \in S PROVE r.key \in Reused(B, I) \ open
    <3>1. PICK k \in Reused(B, I) \ open :
            r = [key |-> k, was |-> RowOf(B, k).name, now |-> I[k], open |-> TRUE]
      OBVIOUS
    <3> QED
      BY <3>1
  <2> QED
    BY <2>1, <2>2, <2>3, Zenon
<1>7. blocked \in SUBSET Keys /\ Reused(B, I) \subseteq blocked
  BY <1>3, <1>6 DEF Reused, BlankKeys
<1>8. /\ proposals \in Seq(Tidy) /\ ToSet(proposals) = P /\ OneEach(proposals)
  <2>1. \A k \in Keys : I[k] \in Names => Decided(I, approved)[k] \in Guides
    BY DEF Decided, Guides
  <2>2. P \in SUBSET Tidy
    BY <2>1 DEF Tidy
  <2>3. \A r \in P : r.key \in Keys
    OBVIOUS
  <2>4. \A r, t \in P : r.key = t.key => r = t
    OBVIOUS
  <2>5. proposals = InKeyOrder(P)
    BY DEF Proposed
  <2> HIDE DEF P
  <2> QED
    BY <2>2, <2>3, <2>4, <2>5, InKeyOrderProperties
<1>9. /\ updates \in Seq(Updates) /\ ToSet(updates) = W /\ OneEach(updates)
  <2>1. W \in SUBSET Updates
    BY <1>2 DEF Updates
  <2>2. \A r \in W : r.key \in Keys
    BY <1>2
  <2>3. \A r, t \in W : r.key = t.key => r = t
    BY <1>1, <1>2 DEF OneEach
  <2> HIDE DEF W
  <2>4. updates = InKeyOrder(W)
    BY DEF W
  <2> QED
    BY <2>1, <2>2, <2>3, <2>4, InKeyOrderProperties
<1>10. \A n \in 1 .. Len(proposals) : proposals[n].key \notin KeysOf(B) /\ proposals[n].name = I[proposals[n].key]
  <2>1. \A n \in 1 .. Len(proposals) : proposals[n] \in P
    <3> HIDE DEF P
    <3> QED
      BY <1>8 DEF ToSet
  <2>2. ASSUME NEW p \in P PROVE p.key \notin KeysOf(B) /\ p.name = I[p.key]
    <3>1. PICK k \in listed : p = [key |-> k, name |-> I[k], guide |-> Decided(I, approved)[k]]
      OBVIOUS
    <3> QED
      BY <3>1
  <2> HIDE DEF P, B, I
  <2> QED
    BY <2>1, <2>2
<1>11. \A n \in 1 .. Len(updates) :
         /\ updates[n].row \in 1 .. Len(B)
         /\ updates[n].key = B[updates[n].row].key /\ updates[n].guide = B[updates[n].row].name
  <2>1. \A n \in 1 .. Len(updates) : updates[n] \in W
    <3> HIDE DEF W
    <3>1. DOMAIN updates = 1 .. Len(updates)
      BY <1>9
    <3> QED
      BY <1>9, <3>1, Zenon DEF ToSet
  <2>2. ASSUME NEW u \in W
        PROVE  u.row \in 1 .. Len(B) /\ u.key = B[u.row].key /\ u.guide = B[u.row].name
    <3>1. PICK i \in rechecked : u = [row |-> i, key |-> B[i].key, guide |-> B[i].name]
      OBVIOUS
    <3> QED
      BY <3>1
  <2> HIDE DEF W, B
  <2> QED
    BY <2>1, <2>2
<1>12. proposals \in Seq(Rows)
  <2>1. \A n \in 1 .. Len(proposals) : proposals[n] \in Tidy
    BY <1>8
  <2>2. Tidy \in SUBSET Rows
    BY DEF Tidy, Rows
  <2> QED
    BY <1>8, <2>1, <2>2
<1>13. "deduplicating" \in Steps
  BY DEF Steps
<1>14. /\ g \in Jobs
       /\ g.step = "deduplicating" /\ g.inventory = I /\ g.base = B
       /\ g.table = j.table /\ g.blocked = blocked /\ g.pending = pending
       /\ g.alerted = j.alerted /\ g.proposals = proposals /\ g.sent = j.sent
       /\ g.updates = updates /\ g.done = j.done
  <2> HIDE DEF B, I, P, W
  <2> QED
    BY <1>5, <1>7, <1>9, <1>12, <1>13, ZenonT(60) DEF Jobs, B, I
<1> HIDE DEF g
<1>15. DecisionInv(g)
  BY <1>1, <1>5, <1>7, <1>8, <1>10, <1>11, <1>14, ZenonT(60) DEF DecisionInv, Proper, Reading
<1>16. ProgressInv(g)
  <2>1. Len(pending) \in Nat /\ Len(proposals) \in Nat /\ Len(updates) \in Nat
    BY <1>5, <1>8, <1>9
  <2> QED
    BY <1>1, <1>14, <2>1 DEF ProgressInv, Reading, Early, Unwritten
<1>17. Known(g) = Known(j)
  BY <1>1, <1>14 DEF Known
<1> QED
  BY <1>a, <1>14, <1>15, <1>16, <1>17

\* Alerts an incident was opened for meanwhile are dropped.
Deduplicated(j, open) ==
    LET pending == InKeyOrder({p \in ToSet(j.pending) : p.key \notin open})
    IN  [j EXCEPT !.pending = pending, !.step = IF pending = << >> THEN "confirming" ELSE "alerting"]

LEMMA DeduplicatedJob ==
    ASSUME NEW j \in Jobs, DecisionInv(j), ProgressInv(j), j.step = "deduplicating", NEW open
    PROVE  LET g == Deduplicated(j, open)
           IN  /\ g \in Jobs /\ DecisionInv(g) /\ ProgressInv(g) /\ Known(g) = Known(j)
               /\ Unopened(g, open) /\ (g.step \in Early => j.step \in Early)
<1> DEFINE S == {p \in ToSet(j.pending) : p.key \notin open}
           pending == InKeyOrder(S)
           step == IF pending = << >> THEN "confirming" ELSE "alerting"
           g == [j EXCEPT !.pending = pending, !.step = step]
<1>a. g = Deduplicated(j, open)
  BY DEF Deduplicated
<1>b. pending = InKeyOrder(S) /\ step = IF pending = << >> THEN "confirming" ELSE "alerting"
  OBVIOUS
<1> HIDE DEF pending, step
<1> USE <1>b
<1>1. j.pending \in Seq(Alerts) /\ OneEach(j.pending) /\ j.alerted = 0
  BY DEF Jobs, DecisionInv, ProgressInv
<1>2. pending \in Seq(Alerts) /\ ToSet(pending) = S /\ OneEach(pending)
  <2>1. \A p \in S : \E n \in 1 .. Len(j.pending) : p = j.pending[n]
    BY <1>1 DEF ToSet
  <2>2. S \in SUBSET Alerts
    BY <1>1, <2>1
  <2>3. \A p \in S : p.key \in Keys
    BY <2>2 DEF Alerts
  <2>4. \A p, q \in S : p.key = q.key => p = q
    BY <1>1, <2>1 DEF OneEach
  <2> HIDE DEF S
  <2>5. pending = InKeyOrder(S)
    BY DEF S
  <2> QED
    BY <2>2, <2>3, <2>4, <2>5, InKeyOrderProperties
<1>3. \A n \in 1 .. Len(pending) : pending[n].key \notin open
  <2>1. DOMAIN pending = 1 .. Len(pending)
    BY <1>2
  <2>2. \A n \in 1 .. Len(pending) : pending[n] \in S
    BY <1>2, <2>1, Zenon DEF ToSet
  <2> QED
    BY <2>2
<1>4. step \in {"confirming", "alerting"} /\ step \in Steps
  BY DEF Steps
<1>5. /\ g \in Jobs
      /\ g.step = step /\ g.inventory = j.inventory /\ g.base = j.base
      /\ g.table = j.table /\ g.blocked = j.blocked /\ g.pending = pending
      /\ g.alerted = j.alerted /\ g.proposals = j.proposals /\ g.sent = j.sent
      /\ g.updates = j.updates /\ g.done = j.done
  BY <1>2, <1>4 DEF Jobs
<1> HIDE DEF g
<1>6. DecisionInv(g)
  BY <1>2, <1>4, <1>5 DEF DecisionInv, Reading
<1>7. ProgressInv(g)
  <2>1. Len(pending) \in Nat
    BY <1>2
  <2> QED
    BY <1>1, <1>4, <1>5, <2>1 DEF ProgressInv, Reading, Early, Unwritten
<1>8. Known(g) = Known(j)
  BY <1>5 DEF Known
<1>9. Unopened(g, open)
  BY <1>1, <1>3, <1>5 DEF Unopened
<1>10. j.step \in Early
  BY DEF Early
<1> QED
  BY <1>a, <1>5, <1>6, <1>7, <1>8, <1>9, <1>10

\* A run that starts, or reads the Sheet again: a table that parses.
LEMMA ReadJob ==
    ASSUME NEW j \in Jobs, j.step \in Reading,
           NEW rows, j.base = rows, j.table = rows,
           rows \in Seq(Rows), Readable(rows), Named(rows),
           j.sent = 0, j.alerted = 0, j.done = 0,
           j.proposals = << >>, j.pending = << >>, j.updates = << >>
    PROVE  /\ DecisionInv(j) /\ ProgressInv(j) /\ KeysOf(rows) \subseteq Known(j)
           /\ \A open : Unopened(j, open)
<1>1. OneEach(rows) /\ \A i \in 1 .. Len(rows) : rows[i] \in Rows /\ rows[i].key \in Keys
  BY ReadableRows
<1>2. \A i \in 1 .. Len(rows) : rows[i] \in Tidy
  BY <1>1 DEF Named, Rows, Tidy
<1>3. Proper(rows)
  BY <1>1, <1>2 DEF Proper
<1>4. OneEach(<< >>) /\ << >> \in Seq(Tidy) /\ Len(<< >>) = 0
  BY DEF OneEach
<1>5. DecisionInv(j)
  BY <1>3, <1>4 DEF DecisionInv, Proper
<1>6. ProgressInv(j)
  BY <1>4 DEF ProgressInv, Reading, Early, Unwritten
<1> QED
  BY <1>5, <1>6 DEF Known, Unopened, Reading

\* The lineup: it changes nothing of what was read.
Fetched(j, inventory) ==
    [j EXCEPT !.inventory = inventory, !.step = IF j.mode = "apply" THEN "reading" ELSE "matching"]

LEMMA FetchedJob ==
    ASSUME NEW j \in Jobs, DecisionInv(j), ProgressInv(j), j.step = "fetching", NEW inventory \in Lineups
    PROVE  LET g == Fetched(j, inventory)
           IN  /\ g \in Jobs /\ DecisionInv(g) /\ ProgressInv(g) /\ Known(g) = Known(j)
               /\ g.step \in {"reading", "matching"}
<1> DEFINE step == IF j.mode = "apply" THEN "reading" ELSE "matching"
           g == [j EXCEPT !.inventory = inventory, !.step = step]
<1>a. g = Fetched(j, inventory)
  BY DEF Fetched
<1>b. step \in {"reading", "matching"}
  OBVIOUS
<1> HIDE DEF step
<1> USE <1>b
<1>1. step \in Steps /\ step \in Reading
  BY DEF Steps, Reading
<1>2. /\ g \in Jobs
      /\ g.step = step /\ g.inventory = inventory /\ g.base = j.base
      /\ g.table = j.table /\ g.blocked = j.blocked /\ g.pending = j.pending
      /\ g.alerted = j.alerted /\ g.proposals = j.proposals /\ g.sent = j.sent
      /\ g.updates = j.updates /\ g.done = j.done
  BY <1>1 DEF Jobs
<1>3. j.proposals = << >> /\ j.pending = << >> /\ j.updates = << >> /\ j.step \in Reading
  BY DEF DecisionInv, Reading
<1> HIDE DEF g
<1>4. DecisionInv(g)
  BY <1>1, <1>2, <1>3 DEF DecisionInv
<1>5. ProgressInv(g)
  BY <1>1, <1>2, <1>3 DEF ProgressInv, Reading, Early, Unwritten
<1>6. Known(g) = Known(j)
  BY <1>2 DEF Known
<1> QED
  BY <1>a, <1>2, <1>4, <1>5, <1>6

\* The terminal read, of the table the run expects.
LEMMA TerminalJob ==
    ASSUME NEW j \in Jobs, DecisionInv(j), ProgressInv(j), j.step = "terminal", Readable(j.table),
           NEW table, table = j.table
    PROVE  LET g == [j EXCEPT !.table = table, !.step = "bundling"]
           IN  g \in Jobs /\ DecisionInv(g) /\ ProgressInv(g) /\ Known(g) = Known(j) /\ g.step = "bundling"
<1> DEFINE g == [j EXCEPT !.table = table, !.step = "bundling"]
<1>1. "bundling" \in Steps
  BY DEF Steps
<1>2. /\ g \in Jobs
      /\ g.step = "bundling" /\ g.inventory = j.inventory /\ g.base = j.base
      /\ g.table = j.table /\ g.blocked = j.blocked /\ g.pending = j.pending
      /\ g.alerted = j.alerted /\ g.proposals = j.proposals /\ g.sent = j.sent
      /\ g.updates = j.updates /\ g.done = j.done
  BY <1>1 DEF Jobs
<1> HIDE DEF g
<1>3. DecisionInv(g)
  BY <1>2 DEF DecisionInv, Reading
<1>4. ProgressInv(g)
  <2>1. Worked(j)
    BY DEF ProgressInv, Unwritten, Early, Reading
  <2>2. Worked(g)
    BY <1>2, <2>1 DEF Worked
  <2> QED
    BY <1>2, <2>2 DEF ProgressInv, Reading, Early, Unwritten
<1>5. Known(g) = Known(j)
  BY <1>2 DEF Known
<1> QED
  BY <1>2, <1>3, <1>4, <1>5 DEF g

-----------------------------------------------------------------------------
(* The Sheet.                                                               *)

OneRow(rows) ==
    \A i, j \in 1 .. Len(rows) : rows[i].key = rows[j].key /\ rows[i].key # NoKey => i = j
OneOpen(incidents) ==
    \A i, j \in 1 .. Len(incidents) :
      incidents[i].key = incidents[j].key /\ incidents[i].open /\ incidents[j].open => i = j
OpenIn(incidents) == {a.key : a \in {x \in ToSet(incidents) : x.open}}

\* Rows of streams that are not in the table.
LEMMA AppendedTable ==
    ASSUME NEW rows \in Seq(Rows), OneRow(rows), Named(rows),
           NEW more, Proper(more), \A n \in 1 .. Len(more) : more[n].key \notin KeysOf(rows)
    PROVE  /\ rows \o more \in Seq(Rows) /\ OneRow(rows \o more) /\ Named(rows \o more)
           /\ KeysOf(rows \o more) = KeysOf(rows) \cup KeysOf(more)
<1> DEFINE new == rows \o more
<1>1. Len(rows) \in Nat /\ Len(more) \in Nat /\ more \in Seq(Tidy) /\ OneEach(more)
  BY DEF Proper
<1>2. more \in Seq(Rows)
  <2>1. \A n \in 1 .. Len(more) : more[n] \in Tidy
    BY <1>1
  <2>2. \A x \in Tidy : x \in Rows
    BY DEF Tidy, Rows
  <2> QED
    BY <1>1, <2>1, <2>2
<1>3. /\ new \in Seq(Rows) /\ Len(new) = Len(rows) + Len(more)
      /\ \A i \in 1 .. Len(rows) : new[i] = rows[i]
      /\ \A i \in Len(rows) + 1 .. Len(new) : i - Len(rows) \in 1 .. Len(more) /\ new[i] = more[i - Len(rows)]
  BY <1>1, <1>2
<1> HIDE DEF new
<1>4. \A i \in 1 .. Len(rows) : rows[i].key \in KeysOf(rows)
  BY KeysOfRows
<1>5. OneRow(new)
  <2> SUFFICES ASSUME NEW i \in 1 .. Len(new), NEW j \in 1 .. Len(new),
                      new[i].key = new[j].key, new[i].key # NoKey
               PROVE  i = j
    BY DEF OneRow
  <2>1. CASE i <= Len(rows) /\ j <= Len(rows)
    <3>1. i \in 1 .. Len(rows) /\ j \in 1 .. Len(rows)
      BY <1>1, <1>3, <2>1
    <3> QED
      BY <3>1, <1>3 DEF OneRow
  <2>2. CASE i > Len(rows) /\ j > Len(rows)
    <3>1. i \in Len(rows) + 1 .. Len(new) /\ j \in Len(rows) + 1 .. Len(new)
      BY <1>1, <1>3, <2>2
    <3>2. /\ i - Len(rows) \in 1 .. Len(more) /\ new[i] = more[i - Len(rows)]
          /\ j - Len(rows) \in 1 .. Len(more) /\ new[j] = more[j - Len(rows)]
      BY <3>1, <1>3
    <3>3. i - Len(rows) = j - Len(rows)
      BY <3>2, <1>1 DEF OneEach
    <3> QED
      BY <3>1, <3>3, <1>1
  <2>3. CASE i <= Len(rows) /\ j > Len(rows)
    <3>1. i \in 1 .. Len(rows) /\ j \in Len(rows) + 1 .. Len(new)
      BY <1>1, <1>3, <2>3
    <3> QED
      BY <3>1, <1>3, <1>4, ZenonT(60)
  <2>4. CASE i > Len(rows) /\ j <= Len(rows)
    <3>1. j \in 1 .. Len(rows) /\ i \in Len(rows) + 1 .. Len(new)
      BY <1>1, <1>3, <2>4
    <3> QED
      BY <3>1, <1>3, <1>4
  <2> QED
    BY <1>1, <2>1, <2>2, <2>3, <2>4
<1>6. Named(new)
  <2> SUFFICES ASSUME NEW i \in 1 .. Len(new), new[i].key \in Keys PROVE new[i].name \in Names
    BY DEF Named
  <2>1. CASE i <= Len(rows)
    <3>1. i \in 1 .. Len(rows)
      BY <1>1, <1>3, <2>1
    <3> QED
      BY <3>1, <1>3 DEF Named
  <2>2. CASE i > Len(rows)
    <3>1. i \in Len(rows) + 1 .. Len(new)
      BY <1>1, <1>3, <2>2
    <3>2. i - Len(rows) \in 1 .. Len(more) /\ new[i] = more[i - Len(rows)]
      BY <3>1, <1>3
    <3>3. new[i] \in Tidy
      BY <3>2, <1>1
    <3> QED
      BY <3>3 DEF Tidy
  <2> QED
    BY <1>1, <2>1, <2>2
<1>7. KeysOf(new) = KeysOf(rows) \cup KeysOf(more)
  <2>1. /\ KeysOf(new) = {new[i].key : i \in 1 .. Len(new)}
        /\ KeysOf(rows) = {rows[i].key : i \in 1 .. Len(rows)}
        /\ KeysOf(more) = {more[i].key : i \in 1 .. Len(more)}
    <3>1. KeysOf(new) = {new[i].key : i \in 1 .. Len(new)}
      BY <1>3, KeysOfRows
    <3>2. KeysOf(rows) = {rows[i].key : i \in 1 .. Len(rows)}
      BY KeysOfRows
    <3>3. KeysOf(more) = {more[i].key : i \in 1 .. Len(more)}
      BY <1>2, KeysOfRows
    <3> QED
      BY <3>1, <3>2, <3>3
  <2>2. ASSUME NEW i \in 1 .. Len(new) PROVE new[i].key \in KeysOf(rows) \cup KeysOf(more)
    <3>1. i \in 1 .. Len(rows) \/ i \in Len(rows) + 1 .. Len(new)
      BY <1>1, <1>3
    <3> QED
      BY <3>1, <2>1, <1>3
  <2>3. ASSUME NEW i \in 1 .. Len(rows) PROVE rows[i].key \in KeysOf(new)
    <3>1. i \in 1 .. Len(new) /\ new[i] = rows[i]
      BY <1>1, <1>3
    <3> QED
      BY <3>1, <2>1
  <2>4. ASSUME NEW i \in 1 .. Len(more) PROVE more[i].key \in KeysOf(new)
    <3>1. Len(rows) + i \in Len(rows) + 1 .. Len(new) /\ (Len(rows) + i) - Len(rows) = i
      BY <1>1, <1>3
    <3>2. new[Len(rows) + i] = more[i] /\ Len(rows) + i \in 1 .. Len(new)
      BY <3>1, <1>1, <1>3
    <3> QED
      BY <3>2, <2>1
  <2> QED
    BY <2>1, <2>2, <2>3, <2>4, ZenonT(60)
<1> QED
  BY <1>3, <1>5, <1>6, <1>7 DEF new

\* Incidents for streams without an open one.
LEMMA OpenedAlerts ==
    ASSUME NEW old \in Seq(Alerts), OneOpen(old), NEW more \in Seq(Alerts), OneEach(more),
           \A n \in 1 .. Len(more) : more[n].key \notin OpenIn(old)
    PROVE  /\ old \o more \in Seq(Alerts) /\ OneOpen(old \o more)
           /\ OpenIn(old \o more) \subseteq OpenIn(old) \cup KeysOf(more)
<1> DEFINE new == old \o more
<1>1. Len(old) \in Nat /\ Len(more) \in Nat
  OBVIOUS
<1>2. /\ new \in Seq(Alerts) /\ Len(new) = Len(old) + Len(more)
      /\ \A i \in 1 .. Len(old) : new[i] = old[i]
      /\ \A i \in Len(old) + 1 .. Len(new) : i - Len(old) \in 1 .. Len(more) /\ new[i] = more[i - Len(old)]
  BY <1>1
<1> HIDE DEF new
<1>3. \A i \in 1 .. Len(old) : old[i].open => old[i].key \in OpenIn(old)
  <2>1. \A i \in 1 .. Len(old) : old[i] \in ToSet(old)
    BY DEF ToSet
  <2> QED
    BY <2>1 DEF OpenIn
<1>4. OneOpen(new)
  <2> SUFFICES ASSUME NEW i \in 1 .. Len(new), NEW j \in 1 .. Len(new),
                      new[i].key = new[j].key, new[i].open, new[j].open
               PROVE  i = j
    BY DEF OneOpen
  <2>1. CASE i <= Len(old) /\ j <= Len(old)
    <3>1. i \in 1 .. Len(old) /\ j \in 1 .. Len(old)
      BY <1>1, <1>2, <2>1
    <3> QED
      BY <3>1, <1>2 DEF OneOpen
  <2>2. CASE i > Len(old) /\ j > Len(old)
    <3>1. i \in Len(old) + 1 .. Len(new) /\ j \in Len(old) + 1 .. Len(new)
      BY <1>1, <1>2, <2>2
    <3>2. i - Len(old) = j - Len(old)
      BY <3>1, <1>2, SMTT(40) DEF OneEach
    <3> QED
      BY <3>1, <3>2, <1>1
  <2>3. CASE i <= Len(old) /\ j > Len(old)
    <3>1. i \in 1 .. Len(old) /\ j \in Len(old) + 1 .. Len(new)
      BY <1>1, <1>2, <2>3
    <3> QED
      BY <3>1, <1>2, <1>3
  <2>4. CASE i > Len(old) /\ j <= Len(old)
    <3>1. j \in 1 .. Len(old) /\ i \in Len(old) + 1 .. Len(new)
      BY <1>1, <1>2, <2>4
    <3> QED
      BY <3>1, <1>2, <1>3, SMTT(40)
  <2> QED
    BY <1>1, <2>1, <2>2, <2>3, <2>4
<1>5. OpenIn(new) \subseteq OpenIn(old) \cup KeysOf(more)
  <2> SUFFICES ASSUME NEW i \in 1 .. Len(new), new[i].open
               PROVE  new[i].key \in OpenIn(old) \cup KeysOf(more)
    <3>1. DOMAIN new = 1 .. Len(new)
      BY <1>2
    <3> QED
      BY <3>1 DEF OpenIn, ToSet
  <2>1. i \in 1 .. Len(old) \/ i \in Len(old) + 1 .. Len(new)
    BY <1>1, <1>2
  <2>2. KeysOf(more) = {more[n].key : n \in 1 .. Len(more)}
    BY KeysOfRows
  <2> QED
    BY <2>1, <2>2, <1>2, <1>3
<1> QED
  BY <1>2, <1>4, <1>5 DEF new

\* A late update finds the rows it was prepared for, others, or none.
LEMMA UpdatedTable ==
    ASSUME NEW rows \in Seq(Rows), OneRow(rows), Named(rows), NEW batch \in Seq(Updates)
    PROVE  /\ Updated(rows, batch) \in Seq(Rows)
           /\ OneRow(Updated(rows, batch)) /\ Named(Updated(rows, batch))
           /\ KeysOf(Updated(rows, batch)) \subseteq KeysOf(rows) \cup {NoKey}
<1> DEFINE new == Updated(rows, batch)
<1>1. UpdatedFrom(new, rows, batch)
  BY UpdatedProperties
<1> HIDE DEF new
<1>2. new \in Seq(Rows) /\ Len(new) \in Nat /\ Len(rows) \in Nat /\ Len(new) >= Len(rows)
  BY <1>1 DEF UpdatedFrom
<1>3. \A i \in 1 .. Len(rows) : new[i].key = rows[i].key /\ new[i].name = rows[i].name
  BY <1>1 DEF UpdatedFrom
<1>4. \A i \in 1 .. Len(new) : i \notin 1 .. Len(rows) => new[i].key = NoKey
  <2>1. \A i \in 1 .. Len(new) : i \notin 1 .. Len(rows) => i \in Len(rows) + 1 .. Len(new)
    BY <1>2
  <2> QED
    BY <1>1, <2>1 DEF UpdatedFrom, Fragment
<1>5. OneRow(new)
  BY <1>2, <1>3, <1>4 DEF OneRow
<1>6. Named(new)
  BY <1>2, <1>3, <1>4, SheetSyncAssumption DEF Named
<1>7. KeysOf(new) \subseteq KeysOf(rows) \cup {NoKey}
  <2>1. /\ KeysOf(new) = {new[i].key : i \in 1 .. Len(new)}
        /\ KeysOf(rows) = {rows[i].key : i \in 1 .. Len(rows)}
    BY <1>2, KeysOfRows
  <2> QED
    BY <2>1, <1>3, <1>4
<1> QED
  BY <1>2, <1>5, <1>6, <1>7 DEF new

\* What an editor can do to the rows: each row left has the key of a row of its own.
Rekeyed(new, rows, from) ==
    /\ \A i \in 1 .. Len(new) : from[i] \in 1 .. Len(rows) /\ new[i].key = rows[from[i]].key
    /\ \A i, j \in 1 .. Len(new) : from[i] = from[j] => i = j

LEMMA EditedTable ==
    ASSUME NEW rows \in Seq(Rows), OneRow(rows),
           NEW new \in Seq(Rows), NEW from, Rekeyed(new, rows, from)
    PROVE  OneRow(new) /\ KeysOf(new) \subseteq KeysOf(rows)
<1>1. OneRow(new)
  BY DEF OneRow, Rekeyed
<1>2. KeysOf(new) = {new[i].key : i \in 1 .. Len(new)}
  BY KeysOfRows
<1>3. KeysOf(rows) = {rows[i].key : i \in 1 .. Len(rows)}
  BY KeysOfRows
<1> QED
  BY <1>1, <1>2, <1>3 DEF Rekeyed

LEMMA EditedRow ==
    ASSUME NEW rows \in Seq(Rows), OneRow(rows), Named(rows),
           NEW i \in 1 .. Len(rows), NEW n \in Names, NEW g \in Guides,
           NEW new, new = [rows EXCEPT ![i] = [key |-> @.key, name |-> n, guide |-> g]]
    PROVE  new \in Seq(Rows) /\ OneRow(new) /\ Named(new) /\ KeysOf(new) \subseteq KeysOf(rows)
<1> DEFINE row == [key |-> rows[i].key, name |-> n, guide |-> g]
<1>1. row \in Rows /\ row.key = rows[i].key /\ row.name = n
  <2>1. rows[i] \in Rows
    OBVIOUS
  <2> QED
    BY <2>1 DEF Rows
<1>2. new = [rows EXCEPT ![i] = row]
  OBVIOUS
<1> HIDE DEF row
<1>3. new \in Seq(Rows) /\ Len(new) = Len(rows)
  BY <1>1, <1>2
<1>4. \A h \in 1 .. Len(rows) : new[h] = IF h = i THEN row ELSE rows[h]
  BY <1>2
<1>5. Named(new)
  BY <1>1, <1>3, <1>4 DEF Named
<1> DEFINE from == [h \in 1 .. Len(rows) |-> h]
<1>6. /\ \A h \in 1 .. Len(new) : from[h] \in 1 .. Len(rows) /\ new[h].key = rows[from[h]].key
      /\ \A h, l \in 1 .. Len(new) : from[h] = from[l] => h = l
  BY <1>1, <1>3, <1>4
<1> HIDE DEF from
<1>7. OneRow(new) /\ KeysOf(new) \subseteq KeysOf(rows)
  <2>1. Rekeyed(new, rows, from)
    BY <1>6 DEF Rekeyed
  <2> QED
    BY <1>3, <2>1, EditedTable
<1> QED
  BY <1>3, <1>5, <1>7

LEMMA SwappedRows ==
    ASSUME NEW rows \in Seq(Rows), OneRow(rows), Named(rows),
           NEW i \in 1 .. Len(rows), NEW j \in 1 .. Len(rows),
           NEW new, new = [rows EXCEPT ![i] = rows[j], ![j] = rows[i]]
    PROVE  new \in Seq(Rows) /\ OneRow(new) /\ Named(new) /\ KeysOf(new) \subseteq KeysOf(rows)
<1> DEFINE from == [h \in 1 .. Len(rows) |-> IF h = j THEN i ELSE IF h = i THEN j ELSE h]
<1>1. rows[i] \in Rows /\ rows[j] \in Rows
  OBVIOUS
<1>2. new \in Seq(Rows) /\ Len(new) = Len(rows)
  BY <1>1
<1>3. \A h \in 1 .. Len(rows) : new[h] = rows[from[h]] /\ from[h] \in 1 .. Len(rows)
  OBVIOUS
<1>4. \A h, l \in 1 .. Len(rows) : from[h] = from[l] => h = l
  OBVIOUS
<1> HIDE DEF from
<1>5. Named(new)
  BY <1>2, <1>3 DEF Named
<1>6. OneRow(new) /\ KeysOf(new) \subseteq KeysOf(rows)
  <2>1. \A h \in 1 .. Len(new) : from[h] \in 1 .. Len(rows) /\ new[h].key = rows[from[h]].key
    BY <1>2, <1>3
  <2>2. \A h, l \in 1 .. Len(new) : from[h] = from[l] => h = l
    BY <1>2, <1>4
  <2>3. Rekeyed(new, rows, from)
    BY <2>1, <2>2 DEF Rekeyed
  <2> QED
    BY <1>2, <2>3, EditedTable
<1> QED
  BY <1>2, <1>5, <1>6

LEMMA DeletedRow ==
    ASSUME NEW rows \in Seq(Rows), OneRow(rows), Named(rows),
           NEW i \in 1 .. Len(rows), NEW new, new = RemoveAt(rows, i)
    PROVE  new \in Seq(Rows) /\ OneRow(new) /\ Named(new) /\ KeysOf(new) \subseteq KeysOf(rows)
<1> DEFINE n == Len(rows)
           before == SubSeq(rows, 1, i - 1)
           after == SubSeq(rows, i + 1, n)
           from == [h \in 1 .. n - 1 |-> IF h < i THEN h ELSE h + 1]
<1>1. n \in Nat /\ i \in Nat /\ 1 <= i /\ i <= n
  OBVIOUS
<1>2. before \in Seq(Rows) /\ Len(before) = i - 1 /\ \A h \in 1 .. i - 1 : before[h] = rows[h]
  BY <1>1
<1>3. after \in Seq(Rows) /\ Len(after) = n - i /\ \A h \in 1 .. n - i : after[h] = rows[i + h]
  BY <1>1
<1>4. new = before \o after
  BY DEF RemoveAt
<1> HIDE DEF before, after
<1>5. new \in Seq(Rows) /\ Len(new) = n - 1
  <2>1. before \o after \in Seq(Rows) /\ Len(before \o after) = Len(before) + Len(after)
    BY <1>2, <1>3, ConcatProperties, Zenon
  <2>2. (i - 1) + (n - i) = n - 1
    BY <1>1
  <2> QED
    BY <1>2, <1>3, <1>4, <2>1, <2>2
<1>6. ASSUME NEW h \in 1 .. n - 1 PROVE new[h] = rows[from[h]] /\ from[h] \in 1 .. n
  <2>1. CASE h < i
    <3>1. h \in 1 .. i - 1 /\ new[h] = before[h]
      BY <1>1, <1>2, <1>3, <1>4, <2>1
    <3> QED
      BY <1>1, <1>2, <2>1, <3>1
  <2>2. CASE ~(h < i)
    <3>1. h - (i - 1) \in 1 .. n - i /\ new[h] = after[h - (i - 1)]
      BY <1>1, <1>2, <1>3, <1>4, <2>2
    <3>2. new[h] = rows[i + (h - (i - 1))] /\ i + (h - (i - 1)) = h + 1
      BY <1>1, <1>3, <3>1
    <3> QED
      BY <1>1, <2>2, <3>2
  <2> QED
    BY <2>1, <2>2
<1>7. \A h, l \in 1 .. n - 1 : from[h] = from[l] => h = l
  BY <1>1
<1> HIDE DEF from
<1>8. Named(new)
  BY <1>5, <1>6 DEF Named
<1>9. OneRow(new) /\ KeysOf(new) \subseteq KeysOf(rows)
  <2>1. \A h \in 1 .. Len(new) : from[h] \in 1 .. Len(rows) /\ new[h].key = rows[from[h]].key
    BY <1>5, <1>6
  <2>2. \A h, l \in 1 .. Len(new) : from[h] = from[l] => h = l
    BY <1>5, <1>7
  <2>3. Rekeyed(new, rows, from)
    BY <2>1, <2>2 DEF Rekeyed
  <2> QED
    BY <1>5, <2>3, EditedTable
<1> QED
  BY <1>5, <1>8, <1>9

LEMMA ResolvedAlert ==
    ASSUME NEW old \in Seq(Alerts), OneOpen(old), NEW j \in 1 .. Len(old),
           NEW new, new = [old EXCEPT ![j].open = FALSE]
    PROVE  new \in Seq(Alerts) /\ OneOpen(new) /\ OpenIn(new) \subseteq OpenIn(old)
<1> DEFINE a == [old[j] EXCEPT !.open = FALSE]
<1>1. a \in Alerts /\ a.key = old[j].key /\ a.open = FALSE
  <2>1. old[j] \in Alerts
    OBVIOUS
  <2> QED
    BY <2>1 DEF Alerts
<1>2. new = [old EXCEPT ![j] = a]
  OBVIOUS
<1> HIDE DEF a
<1>3. new \in Seq(Alerts) /\ Len(new) = Len(old)
  <2>1. [old EXCEPT ![j] = a] \in Seq(Alerts) /\ Len([old EXCEPT ![j] = a]) = Len(old)
    BY <1>1, ExceptSeq
  <2> QED
    BY <1>2, <2>1, Zenon
<1>4. \A h \in 1 .. Len(old) : new[h] = IF h = j THEN a ELSE old[h]
  <2>1. \A h \in 1 .. Len(old) : [old EXCEPT ![j] = a][h] = IF h = j THEN a ELSE old[h]
    BY <1>1, ExceptSeq
  <2> QED
    BY <1>2, <2>1, Zenon
<1>5. OneOpen(new)
  BY <1>1, <1>3, <1>4 DEF OneOpen
<1>6. OpenIn(new) \subseteq OpenIn(old)
  <2>1. DOMAIN new = 1 .. Len(old) /\ DOMAIN old = 1 .. Len(old)
    BY <1>3
  <2>2. ASSUME NEW h \in 1 .. Len(old), new[h].open PROVE new[h].key \in OpenIn(old)
    <3>1. new[h] = old[h] /\ old[h].open
      BY <2>2, <1>1, <1>4
    <3> QED
      BY <3>1, <2>1 DEF OpenIn, ToSet
  <2>3. \A k \in OpenIn(new) : \E h \in 1 .. Len(old) : new[h].open /\ k = new[h].key
    BY <2>1, ZenonT(60) DEF OpenIn, ToSet
  <2> QED
    BY <2>2, <2>3, ZenonT(60)
<1> QED
  BY <1>3, <1>5, <1>6

-----------------------------------------------------------------------------
(* Steps.                                                                    *)

LateType(request) ==
    \/ request = NoRequest
    \/ request.kind = "rows" /\ request.body \in Seq(Rows)
    \/ request.kind = "alerts" /\ request.body \in Seq(Alerts)
    \/ request.kind = "updates" /\ request.body \in Seq(Updates)
BundleType(b) == b = NoBundle \/ b \in [rows : Seq(Rows), quarantined : SUBSET Keys, inventory : Lineups]

\* The edits, from what the Sheet was.
LEMMA EditKeeps ==
    ASSUME IInv, UNCHANGED <<late, job, bundle, failures>>,
           mappings' \in Seq(Rows), OneRow(mappings'), Named(mappings'),
           KeysOf(mappings') \subseteq KeysOf(mappings),
           alerts' \in Seq(Alerts), OneOpen(alerts'), OpenIn(alerts') \subseteq OpenIn(alerts),
           provider' \in Lineups, edits' \in 0 .. MaxEdits, drifts' \in 0 .. MaxDrifts
    PROVE  IInv'
<1>1. TypeOK'
  BY DEF IInv, TypeOK
<1>2. Named(mappings)' /\ OneRowPerStream' /\ OneOpenAlertPerStream'
  BY DEF OneRowPerStream, OneOpenAlertPerStream, OneRow, OneOpen
<1>3. OpenKeys = OpenIn(alerts) /\ OpenKeys' = OpenIn(alerts')
  BY DEF OpenKeys, OpenIn
<1>4. LateOK(late, job, KeysOf(mappings), OpenKeys)'
  BY <1>3 DEF IInv, LateOK
<1>5. RunOK(job, KeysOf(mappings), OpenKeys, late)'
  <2>1. Unopened(job, OpenKeys) => Unopened(job, OpenKeys')
    BY <1>3 DEF Unopened
  <2> QED
    BY <1>3, <2>1 DEF IInv, RunOK
<1> QED
  BY <1>1, <1>2, <1>4, <1>5 DEF IInv

\* The steps of a run that write nothing, the bundle apart.
LEMMA ReadKeeps ==
    ASSUME IInv, UNCHANGED <<mappings, alerts, late, environment>>,
           failures' \in 0 .. MaxFailures, BundleType(bundle'),
           job # NoJob \/ late = NoRequest,
           job' \in Jobs \cup {NoJob}, RunOK(job', KeysOf(mappings), OpenKeys, late)
    PROVE  IInv'
<1>1. TypeOK'
  BY DEF IInv, TypeOK, BundleType, environment
<1>2. Named(mappings)' /\ OneRowPerStream' /\ OneOpenAlertPerStream'
  BY DEF IInv, OneRowPerStream, OneOpenAlertPerStream
<1>3. OpenKeys' = OpenKeys
  BY DEF OpenKeys
<1>4. LateOK(late, job, KeysOf(mappings), OpenKeys)'
  BY <1>3 DEF IInv, LateOK
<1>5. RunOK(job, KeysOf(mappings), OpenKeys, late)'
  BY <1>3
<1> QED
  BY <1>1, <1>2, <1>4, <1>5 DEF IInv

LEMMA StopKeeps ==
    ASSUME IInv, Stop, Reads, job # NoJob
    PROVE  IInv'
BY ReadKeeps DEF IInv, TypeOK, Stop, Reads, RunOK, BundleType

\* A check that lets the run go on.
LEMMA GoesOn ==
    ASSUME IInv, Reads, job # NoJob,
           NEW g \in Jobs, job' = g, DecisionInv(g), ProgressInv(g), Known(g) = Known(job),
           g.step \notin Early
    PROVE  IInv'
<1>1. RunOK(g, KeysOf(mappings), OpenKeys, late)
  BY DEF IInv, RunOK, Unopened, Early
<1> QED
  BY <1>1, ReadKeeps DEF IInv, TypeOK, Reads, BundleType

LEMMA RunFacts ==
    ASSUME IInv, job # NoJob
    PROVE  /\ job \in Jobs /\ DecisionInv(job) /\ ProgressInv(job)
           /\ KeysOf(mappings) \subseteq Known(job) /\ Unopened(job, OpenKeys)
           /\ job.step \in Early => late = NoRequest
           /\ late # NoRequest => late.kind # "rows"
           /\ mappings \in Seq(Rows) /\ alerts \in Seq(Alerts) /\ provider \in Lineups
           /\ OneRow(mappings) /\ Named(mappings) /\ OneOpen(alerts)
           /\ OpenKeys = OpenIn(alerts) /\ OpenKeys \in SUBSET Keys
<1>1. OpenKeys \in SUBSET Keys
  <2>1. alerts \in Seq(Alerts)
    BY DEF IInv, TypeOK
  <2>2. \A a \in ToSet(alerts) : a \in Alerts
    BY <2>1 DEF ToSet
  <2> QED
    BY <2>2 DEF OpenKeys, Alerts
<1>2. job \in Jobs /\ mappings \in Seq(Rows) /\ alerts \in Seq(Alerts) /\ provider \in Lineups
  BY DEF IInv, TypeOK
<1>3. OneRow(mappings) /\ Named(mappings) /\ OneOpen(alerts) /\ OpenKeys = OpenIn(alerts)
  BY DEF IInv, OneRowPerStream, OneOpenAlertPerStream, OneRow, OneOpen, OpenKeys, OpenIn
<1>4. late # NoRequest => late.kind # "rows"
  BY DEF IInv, LateOK
<1> QED
  BY <1>1, <1>2, <1>3, <1>4 DEF IInv, RunOK

LEMMA ForwardKeeps ==
    ASSUME IInv, Reads, job # NoJob, NEW step, GoTo(step),
           \/ job.step \in Unwritten \ Early /\ step \in {"revalidating", "comparing", "clearing", "appending"}
           \/ job.step \notin Unwritten
              /\ step \in {"checking", "rereading", "rechecking", "patching", "patched"}
    PROVE  IInv'
<1> DEFINE g == [job EXCEPT !.step = step]
<1>1. job \in Jobs /\ DecisionInv(job) /\ ProgressInv(job)
  BY RunFacts
<1>2. step \in Steps
  BY DEF Steps
<1>3. g \in Jobs /\ g.step = step
  BY <1>1, <1>2, GoToJob
<1>4. DecisionInv(g) /\ ProgressInv(g) /\ Known(g) = Known(job)
  BY <1>1, <1>2, ForwardJob DEF Early
<1>5. job' = g
  BY DEF GoTo
<1>6. g.step \notin Early
  BY <1>3 DEF Early, Reading
<1> HIDE DEF g
<1> QED
  BY <1>3, <1>4, <1>5, <1>6, GoesOn

LEMMA ConfirmAlertsKeeps ==
    ASSUME IInv, ConfirmAlerts
    PROVE  IInv'
<1>1. job # NoJob /\ job.step = "confirming" /\ Reads
  BY DEF ConfirmAlerts, At
<1>2. CASE Stop
  BY <1>1, <1>2, StopKeeps
<1>3. CASE GoTo(NextWrite)
  <2> DEFINE g == [job EXCEPT !.step = NextWrite]
  <2>1. job \in Jobs /\ DecisionInv(job) /\ ProgressInv(job)
    BY <1>1, RunFacts
  <2>2. NextWrite = IF job.proposals # << >> /\ job.sent = 0 THEN "revalidating"
                    ELSE IF job.updates # << >> THEN "updating" ELSE "terminal"
    BY DEF NextWrite
  <2>3. g \in Jobs /\ DecisionInv(g) /\ ProgressInv(g) /\ Known(g) = Known(job)
    BY <1>1, <2>1, <2>2, NextWriteJob
  <2>4. NextWrite \in Steps \ Early
    BY <2>2 DEF Early, Reading, Steps
  <2>5. g.step = NextWrite
    BY <2>1, <2>4, GoToJob
  <2>6. job' = g
    BY <1>3 DEF GoTo
  <2> HIDE DEF g
  <2> QED
    BY <1>1, <2>3, <2>4, <2>5, <2>6, GoesOn
<1> QED
  BY <1>2, <1>3 DEF ConfirmAlerts

LEMMA BeforeAppendKeeps ==
    ASSUME IInv, RevalidateNew \/ CompareBeforeAppend \/ ClearAppend
    PROVE  IInv'
<1>1. /\ job # NoJob /\ Reads /\ job.step \in {"revalidating", "comparing", "clearing"}
      /\ Stop \/ GoTo("comparing") \/ GoTo("clearing") \/ GoTo("appending")
  BY DEF RevalidateNew, CompareBeforeAppend, ClearAppend, At
<1>2. CASE Stop
  BY <1>1, <1>2, StopKeeps
<1>3. ASSUME NEW step \in {"comparing", "clearing", "appending"}, GoTo(step) PROVE IInv'
  <2>1. job.step \in Unwritten \ Early
    BY <1>1 DEF Unwritten, Early, Reading
  <2> QED
    BY <1>1, <1>3, <2>1, ForwardKeeps
<1> QED
  BY <1>1, <1>2, <1>3

LEMMA BeforeBatchKeeps ==
    ASSUME IInv, ClearUpdates \/ RevalidateBatch \/ CompareBeforeBatch \/ ClearBatch
    PROVE  IInv'
<1>1. /\ job # NoJob /\ Reads /\ job.step \in {"updating", "checking", "rereading", "rechecking"}
      /\ Stop \/ GoTo("checking") \/ GoTo("rereading") \/ GoTo("rechecking") \/ GoTo("patching")
  BY DEF ClearUpdates, RevalidateBatch, CompareBeforeBatch, ClearBatch, At
<1>2. CASE Stop
  BY <1>1, <1>2, StopKeeps
<1>3. ASSUME NEW step \in {"checking", "rereading", "rechecking", "patching"}, GoTo(step) PROVE IInv'
  <2>1. job.step \notin Unwritten
    BY <1>1 DEF Unwritten, Early, Reading
  <2> QED
    BY <1>1, <1>3, <2>1, ForwardKeeps
<1> QED
  BY <1>1, <1>2, <1>3

LEMMA VerifyAppendKeeps ==
    ASSUME IInv, VerifyAppend
    PROVE  IInv'
<1>1. job # NoJob /\ job.step = "appended" /\ Reads
  BY DEF VerifyAppend, At
<1>2. CASE Stop
  BY <1>1, <1>2, StopKeeps
<1>3. CASE AppendVerified /\ job' = [job EXCEPT !.table = mappings, !.step = NextWrite]
  <2> DEFINE g == [job EXCEPT !.table = mappings, !.step = NextWrite]
  <2>1. job \in Jobs /\ DecisionInv(job) /\ ProgressInv(job) /\ mappings \in Seq(Rows)
    BY <1>1, RunFacts
  <2>2. NextWrite = IF job.proposals # << >> /\ job.sent = 0 THEN "revalidating"
                    ELSE IF job.updates # << >> THEN "updating" ELSE "terminal"
    BY DEF NextWrite
  <2>3. g \in Jobs /\ DecisionInv(g) /\ ProgressInv(g) /\ Known(g) = Known(job)
    BY <1>1, <1>3, <2>1, <2>2, AppendedJob, ZenonT(60) DEF AppendVerified
  <2>4. NextWrite \in Steps \ Early
    BY <2>2 DEF Early, Reading, Steps
  <2>5. g.step = NextWrite
    BY <2>1 DEF Jobs
  <2>6. job' = g
    BY <1>3
  <2> HIDE DEF g
  <2> QED
    BY <1>1, <2>3, <2>4, <2>5, <2>6, GoesOn
<1> QED
  BY <1>2, <1>3 DEF VerifyAppend

LEMMA VerifyBatchKeeps ==
    ASSUME IInv, VerifyBatch
    PROVE  IInv'
<1>1. job # NoJob /\ job.step = "patched" /\ Reads
  BY DEF VerifyBatch, At
<1>2. Stop \/ job' = Batched(job)
  BY DEF VerifyBatch, Unchanged, Batch, Batched
<1>3. CASE Stop
  BY <1>1, <1>3, StopKeeps
<1>4. CASE job' = Batched(job)
  <2>1. job \in Jobs /\ DecisionInv(job) /\ ProgressInv(job)
    BY <1>1, RunFacts
  <2>2. job.step \notin Unwritten
    BY <1>1 DEF Unwritten, Early, Reading
  <2>3. /\ Batched(job) \in Jobs /\ DecisionInv(Batched(job)) /\ ProgressInv(Batched(job))
        /\ Known(Batched(job)) = Known(job) /\ Batched(job).step \notin Early
    BY <2>1, <2>2, BatchJob
  <2> QED
    BY <1>1, <1>4, <2>3, GoesOn
<1> QED
  BY <1>2, <1>3, <1>4

LEMMA CompareTerminalKeeps ==
    ASSUME IInv, CompareTerminal
    PROVE  IInv'
<1>1. job # NoJob /\ job.step = "terminal" /\ Reads
  BY DEF CompareTerminal, At
<1>2. CASE Stop
  BY <1>1, <1>2, StopKeeps
<1>3. CASE TerminalAgrees /\ job' = [job EXCEPT !.table = mappings, !.step = "bundling"]
  <2> DEFINE g == [job EXCEPT !.table = mappings, !.step = "bundling"]
  <2>1. job \in Jobs /\ DecisionInv(job) /\ ProgressInv(job)
    BY <1>1, RunFacts
  <2>2. Readable(job.table) /\ mappings = job.table
    BY <1>3 DEF TerminalAgrees, Unchanged
  <2>3. g \in Jobs /\ DecisionInv(g) /\ ProgressInv(g) /\ Known(g) = Known(job) /\ g.step = "bundling"
    BY <1>1, <2>1, <2>2, TerminalJob
  <2>4. g.step \notin Early /\ job' = g
    BY <1>3, <2>3 DEF Early, Reading
  <2> HIDE DEF g
  <2> QED
    BY <1>1, <2>3, <2>4, GoesOn
<1> QED
  BY <1>2, <1>3 DEF CompareTerminal

LEMMA StartKeeps ==
    ASSUME IInv, NEW mode \in Modes, Start(mode)
    PROVE  IInv'
<1>1. late = NoRequest /\ Reads /\ mappings \in Seq(Rows) /\ Readable(mappings) /\ Named(mappings)
  BY DEF Start, IInv, TypeOK
<1>2. job' \in Jobs
  <2>1. [k \in Keys |-> Absent] \in Lineups
    BY DEF Lineups
  <2>2. /\ job'.step = "fetching" /\ "fetching" \in Steps
        /\ << >> \in Seq(Alerts) /\ << >> \in Seq(Rows) /\ << >> \in Seq(Updates)
    BY DEF Start, Steps
  <2> QED
    BY <1>1, <2>1, <2>2 DEF Start, Jobs
<1>3. /\ job'.step = "fetching" /\ job'.base = mappings /\ job'.table = mappings
      /\ job'.sent = 0 /\ job'.alerted = 0 /\ job'.done = 0
      /\ job'.proposals = << >> /\ job'.pending = << >> /\ job'.updates = << >>
  BY DEF Start
<1>4. job'.step \in Reading
  BY <1>3 DEF Reading
<1>5. /\ DecisionInv(job') /\ ProgressInv(job') /\ KeysOf(mappings) \subseteq Known(job')
      /\ Unopened(job', OpenKeys)
  BY <1>1, <1>2, <1>3, <1>4, ReadJob
<1>6. RunOK(job', KeysOf(mappings), OpenKeys, late)
  BY <1>1, <1>5 DEF RunOK
<1> QED
  BY <1>1, <1>2, <1>6, ReadKeeps DEF IInv, TypeOK, Reads, BundleType

LEMMA FetchKeeps ==
    ASSUME IInv, Fetch
    PROVE  IInv'
<1> DEFINE g == Fetched(job, provider)
<1>1. job # NoJob /\ job.step = "fetching" /\ Reads /\ job' = g
  BY DEF Fetch, At, Fetched
<1>2. /\ job \in Jobs /\ DecisionInv(job) /\ ProgressInv(job) /\ provider \in Lineups
      /\ KeysOf(mappings) \subseteq Known(job) /\ (job.step \in Early => late = NoRequest)
  BY <1>1, RunFacts
<1>3. /\ g \in Jobs /\ DecisionInv(g) /\ ProgressInv(g) /\ Known(g) = Known(job)
      /\ g.step \in {"reading", "matching"}
  BY <1>1, <1>2, FetchedJob
<1> HIDE DEF g
<1>4. RunOK(g, KeysOf(mappings), OpenKeys, late)
  BY <1>1, <1>2, <1>3 DEF RunOK, Unopened, Early, Reading
<1> QED
  BY <1>1, <1>3, <1>4, ReadKeeps DEF IInv, TypeOK, Reads, BundleType

LEMMA ReadMappingsKeeps ==
    ASSUME IInv, ReadMappings
    PROVE  IInv'
<1>1. job # NoJob /\ job.step = "reading" /\ Reads
  BY DEF ReadMappings, At
<1>2. CASE Stop
  BY <1>1, <1>2, StopKeeps
<1>3. CASE /\ Readable(mappings)
           /\ job' = [job EXCEPT !.base = mappings, !.table = mappings, !.step = "matching"]
  <2>1. /\ job \in Jobs /\ DecisionInv(job) /\ ProgressInv(job) /\ mappings \in Seq(Rows)
        /\ Named(mappings) /\ (job.step \in Early => late = NoRequest)
    BY <1>1, RunFacts
  <2>2. "matching" \in Steps
    BY DEF Steps
  <2>3. /\ job' \in Jobs
        /\ job'.step = "matching" /\ job'.base = mappings /\ job'.table = mappings
        /\ job'.pending = job.pending /\ job'.alerted = job.alerted
        /\ job'.proposals = job.proposals /\ job'.sent = job.sent
        /\ job'.updates = job.updates /\ job'.done = job.done
    BY <1>3, <2>1, <2>2 DEF Jobs
  <2>4. /\ job.sent = 0 /\ job.alerted = 0 /\ job.done = 0
        /\ job.proposals = << >> /\ job.pending = << >> /\ job.updates = << >>
    BY <1>1, <2>1 DEF DecisionInv, ProgressInv, Reading, Early, Unwritten
  <2>5. job'.step \in Reading
    BY <2>3 DEF Reading
  <2>6. /\ DecisionInv(job') /\ ProgressInv(job') /\ KeysOf(mappings) \subseteq Known(job')
        /\ Unopened(job', OpenKeys)
    BY <1>3, <2>1, <2>3, <2>4, <2>5, ReadJob
  <2>7. RunOK(job', KeysOf(mappings), OpenKeys, late)
    BY <1>1, <2>1, <2>6 DEF RunOK, Early, Reading
  <2> QED
    BY <1>1, <2>3, <2>7, ReadKeeps DEF IInv, TypeOK, Reads, BundleType
<1> QED
  BY <1>2, <1>3 DEF ReadMappings

LEMMA MatchKeeps ==
    ASSUME IInv, Match
    PROVE  IInv'
<1>1. job # NoJob /\ job.step = "matching" /\ Reads
  BY DEF Match, At
<1>2. PICK approved \in Approvals(job.inventory) : MatchWith(approved)
  BY DEF Match
<1>3. /\ job \in Jobs /\ DecisionInv(job) /\ ProgressInv(job) /\ OpenKeys \in SUBSET Keys
      /\ KeysOf(mappings) \subseteq Known(job) /\ (job.step \in Early => late = NoRequest)
  BY <1>1, RunFacts
<1> DEFINE g == MatchedWith(job, OpenKeys, approved)
<1>4. job' = g
  BY <1>2 DEF MatchWith, Pending, MatchedWith
<1>5. approved \in SUBSET Keys
  BY <1>2 DEF Approvals
<1>6. /\ g \in Jobs /\ DecisionInv(g) /\ ProgressInv(g) /\ Known(g) = Known(job)
      /\ g.step = "deduplicating"
  BY <1>1, <1>3, <1>5, MatchedJob
<1> HIDE DEF g
<1>7. RunOK(g, KeysOf(mappings), OpenKeys, late)
  BY <1>1, <1>3, <1>6 DEF RunOK, Unopened, Early, Reading
<1> QED
  BY <1>1, <1>4, <1>6, <1>7, ReadKeeps DEF IInv, TypeOK, Reads, BundleType

LEMMA DeduplicateKeeps ==
    ASSUME IInv, Deduplicate
    PROVE  IInv'
<1> DEFINE g == Deduplicated(job, OpenKeys)
<1>1. job # NoJob /\ job.step = "deduplicating" /\ Reads /\ job' = g
  BY DEF Deduplicate, At, Deduplicated
<1>2. /\ job \in Jobs /\ DecisionInv(job) /\ ProgressInv(job)
      /\ KeysOf(mappings) \subseteq Known(job) /\ (job.step \in Early => late = NoRequest)
  BY <1>1, RunFacts
<1>3. /\ g \in Jobs /\ DecisionInv(g) /\ ProgressInv(g) /\ Known(g) = Known(job)
      /\ Unopened(g, OpenKeys) /\ (g.step \in Early => job.step \in Early)
  BY <1>1, <1>2, DeduplicatedJob
<1> HIDE DEF g
<1>4. RunOK(g, KeysOf(mappings), OpenKeys, late)
  BY <1>2, <1>3 DEF RunOK
<1> QED
  BY <1>1, <1>3, <1>4, ReadKeeps DEF IInv, TypeOK, Reads, BundleType

LEMMA FailedType ==
    ASSUME TypeOK, Failed
    PROVE  failures' \in 0 .. MaxFailures
<1>1. MaxFailures \in Nat /\ failures \in 0 .. MaxFailures
  BY SheetSyncAssumption DEF TypeOK
<1> QED
  BY <1>1 DEF Failed

\* One request of alerts.
Alerted(j, alerted) ==
    [j EXCEPT !.alerted = alerted, !.step = IF alerted = Len(j.pending) THEN "confirming" ELSE @]

LEMMA AlertedJob ==
    ASSUME NEW j \in Jobs, DecisionInv(j), ProgressInv(j), j.step = "alerting",
           NEW alerted \in 0 .. Len(j.pending)
    PROVE  LET g == Alerted(j, alerted)
           IN  /\ g \in Jobs /\ DecisionInv(g) /\ ProgressInv(g) /\ Known(g) = Known(j)
               /\ g.pending = j.pending /\ g.alerted = alerted
<1> DEFINE step == IF alerted = Len(j.pending) THEN "confirming" ELSE "alerting"
           g == [j EXCEPT !.alerted = alerted, !.step = step]
<1>1. g = Alerted(j, alerted)
  BY DEF Alerted
<1>2. step \in {"confirming", "alerting"}
  OBVIOUS
<1> HIDE DEF step
<1>3. step \in Steps /\ alerted \in Nat
  <2>1. j.pending \in Seq(Alerts)
    BY DEF Jobs
  <2>2. Len(j.pending) \in Nat
    BY <2>1
  <2> QED
    BY <1>2, <2>2 DEF Steps
<1>4. /\ g \in Jobs
      /\ g.step = step /\ g.inventory = j.inventory /\ g.base = j.base
      /\ g.table = j.table /\ g.blocked = j.blocked /\ g.pending = j.pending
      /\ g.alerted = alerted /\ g.proposals = j.proposals /\ g.sent = j.sent
      /\ g.updates = j.updates /\ g.done = j.done
  BY <1>3 DEF Jobs
<1> HIDE DEF g
<1>5. DecisionInv(g)
  BY <1>2, <1>4 DEF DecisionInv, Reading
<1>6. ProgressInv(g)
  BY <1>2, <1>4 DEF ProgressInv, Reading, Early, Unwritten
<1>7. Known(g) = Known(j)
  BY <1>4 DEF Known
<1> QED
  BY <1>1, <1>4, <1>5, <1>6, <1>7

LEMMA AppendAlertsKeeps ==
    ASSUME IInv, AppendAlerts
    PROVE  IInv'
<1> DEFINE chunk == Chunk(job.pending, job.alerted, ChunkRows)
           alerted == job.alerted + Len(chunk)
<1>1. job # NoJob /\ job.step = "alerting" /\ UNCHANGED <<mappings, bundle, environment>>
  BY DEF AppendAlerts, At
<1>2. /\ job \in Jobs /\ DecisionInv(job) /\ ProgressInv(job) /\ OpenKeys \in SUBSET Keys
      /\ KeysOf(mappings) \subseteq Known(job) /\ Unopened(job, OpenKeys)
      /\ alerts \in Seq(Alerts) /\ OneOpen(alerts) /\ OpenKeys = OpenIn(alerts)
      /\ late = NoRequest
  BY <1>1, RunFacts DEF Early
<1>3. /\ job.pending \in Seq(Alerts) /\ OneEach(job.pending)
      /\ job.alerted \in 0 .. Len(job.pending) /\ ChunkRows \in Nat \ {0}
  BY <1>2, SheetSyncAssumption DEF Jobs, DecisionInv, ProgressInv
<1>4. chunk \in Seq(Alerts)
  BY <1>3, ChunkProperties
<1>5. /\ OneEach(chunk) /\ alerted \in 0 .. Len(job.pending)
      /\ \A n \in 1 .. Len(chunk) :
           \E m \in job.alerted + 1 .. Len(job.pending) : chunk[n] = job.pending[m]
      /\ \A m \in alerted + 1 .. Len(job.pending) :
           m \in job.alerted + 1 .. Len(job.pending) /\ job.pending[m].key \notin KeysOf(chunk)
  <2>1. Apart(chunk, job.pending, job.alerted, alerted)
    BY <1>3, ChunkKeys
  <2> HIDE DEF chunk, alerted
  <2> QED
    BY <2>1 DEF Apart
<1> HIDE DEF chunk, alerted
<1>6. \A m \in job.alerted + 1 .. Len(job.pending) : job.pending[m].key \notin OpenKeys
  BY <1>1, <1>2 DEF Unopened
<1>7. \A n \in 1 .. Len(chunk) : chunk[n].key \notin OpenIn(alerts)
  BY <1>2, <1>5, <1>6
<1>8. /\ alerts \o chunk \in Seq(Alerts) /\ OneOpen(alerts \o chunk)
      /\ OpenIn(alerts \o chunk) \subseteq OpenIn(alerts) \cup KeysOf(chunk)
  BY <1>2, <1>4, <1>5, <1>7, OpenedAlerts
<1>9. OpenKeys' = OpenIn(alerts')
  BY DEF OpenKeys, OpenIn
<1>10. (alerts' = alerts \/ alerts' = alerts \o chunk) => alerts' \in Seq(Alerts) /\ OneOpen(alerts')
  BY <1>2, <1>8
<1>11. CASE /\ alerts' = alerts \o chunk /\ job' = Alerted(job, alerted)
            /\ UNCHANGED <<late, failures>>
  <2>1. /\ job' \in Jobs /\ DecisionInv(job') /\ ProgressInv(job') /\ Known(job') = Known(job)
        /\ job'.pending = job.pending /\ job'.alerted = alerted
    BY <1>1, <1>2, <1>5, <1>11, AlertedJob
  <2>2. Unopened(job', OpenKeys')
    <3> SUFFICES ASSUME NEW n \in alerted + 1 .. Len(job.pending)
                 PROVE  job.pending[n].key \notin OpenKeys'
      BY <2>1 DEF Unopened
    <3> QED
      BY <1>2, <1>5, <1>6, <1>8, <1>9, <1>11
  <2>3. TypeOK'
    BY <1>1, <1>2, <1>10, <1>11, <2>1 DEF IInv, TypeOK, environment
  <2>4. RunOK(job, KeysOf(mappings), OpenKeys, late)'
    BY <1>1, <1>2, <1>11, <2>1, <2>2 DEF RunOK
  <2>5. LateOK(late, job, KeysOf(mappings), OpenKeys)'
    BY <1>2, <1>11 DEF LateOK
  <2>6. Named(mappings)' /\ OneRowPerStream' /\ OneOpenAlertPerStream'
    BY <1>1, <1>10, <1>11 DEF IInv, OneRowPerStream, OneOpenAlertPerStream, OneOpen
  <2> QED
    BY <2>3, <2>4, <2>5, <2>6 DEF IInv
<1>12. CASE /\ Failed /\ GoTo("confirming")
            /\ \/ UNCHANGED <<alerts, late>>
               \/ alerts' = alerts \o chunk /\ UNCHANGED late
               \/ late' = [kind |-> "alerts", body |-> chunk] /\ UNCHANGED alerts
  <2> DEFINE g == [job EXCEPT !.step = "confirming"]
  <2>1. "confirming" \in Steps
    BY DEF Steps
  <2>2. /\ g \in Jobs /\ DecisionInv(g) /\ ProgressInv(g) /\ Known(g) = Known(job)
        /\ g.step = "confirming"
    BY <1>1, <1>2, <2>1, ForwardJob, GoToJob
  <2>3. job' = g
    BY <1>12 DEF GoTo
  <2> HIDE DEF g
  <2>4. alerts' \in Seq(Alerts) /\ OneOpen(alerts')
    BY <1>2, <1>10, <1>12
  <2>5. LateType(late')
    BY <1>2, <1>4, <1>12 DEF LateType
  <2>6. TypeOK'
    <3>1. /\ mappings' \in Seq(Rows) /\ provider' \in Lineups /\ BundleType(bundle')
          /\ edits' \in 0 .. MaxEdits /\ drifts' \in 0 .. MaxDrifts
      BY <1>1 DEF IInv, TypeOK, environment, BundleType
    <3>2. failures' \in 0 .. MaxFailures
      BY <1>12, FailedType DEF IInv
    <3> QED
      BY <2>2, <2>3, <2>4, <2>5, <3>1, <3>2 DEF TypeOK, BundleType, LateType
  <2>7. RunOK(job, KeysOf(mappings), OpenKeys, late)'
    BY <1>1, <1>2, <2>2, <2>3 DEF RunOK, Unopened, Early, Reading
  <2>8. LateOK(late, job, KeysOf(mappings), OpenKeys)'
    <3>1. CASE late' = late
      BY <1>2, <3>1 DEF LateOK
    <3>2. CASE late' = [kind |-> "alerts", body |-> chunk] /\ UNCHANGED alerts
      <4>1. late'.kind = "alerts" /\ late'.body = chunk
        BY <3>2
      <4>2. OpenKeys' = OpenIn(alerts)
        BY <1>9, <3>2
      <4> QED
        BY <4>1, <4>2, <1>5, <1>7 DEF LateOK
    <3> QED
      BY <1>12, <3>1, <3>2
  <2>9. Named(mappings)' /\ OneRowPerStream' /\ OneOpenAlertPerStream'
    BY <1>1, <2>4 DEF IInv, OneRowPerStream, OneOpenAlertPerStream, OneOpen
  <2> QED
    BY <2>6, <2>7, <2>8, <2>9 DEF IInv
<1> QED
  BY <1>11, <1>12 DEF AppendAlerts, AfterFailedAlert, Alerted, chunk, alerted

\* One request of new rows.
Sent(j, sent) ==
    [j EXCEPT !.sent = sent, !.step = IF sent = Len(j.proposals) THEN "appended" ELSE @]

LEMMA SentJob ==
    ASSUME NEW j \in Jobs, DecisionInv(j), ProgressInv(j), j.step = "appending",
           NEW sent \in 0 .. Len(j.proposals)
    PROVE  LET g == Sent(j, sent)
           IN  /\ g \in Jobs /\ DecisionInv(g) /\ ProgressInv(g) /\ g.step \notin Early
               /\ g.base = j.base /\ g.proposals = j.proposals /\ g.sent = sent
<1> DEFINE step == IF sent = Len(j.proposals) THEN "appended" ELSE "appending"
           g == [j EXCEPT !.sent = sent, !.step = step]
<1>1. g = Sent(j, sent)
  BY DEF Sent
<1>2. step \in {"appended", "appending"} /\ (step = "appended" => sent = Len(j.proposals))
  OBVIOUS
<1> HIDE DEF step
<1>3. step \in Steps /\ sent \in Nat
  <2>1. j.proposals \in Seq(Rows)
    BY DEF Jobs
  <2>2. Len(j.proposals) \in Nat
    BY <2>1
  <2> QED
    BY <1>2, <2>2 DEF Steps
<1>4. /\ g \in Jobs
      /\ g.step = step /\ g.inventory = j.inventory /\ g.base = j.base
      /\ g.table = j.table /\ g.blocked = j.blocked /\ g.pending = j.pending
      /\ g.alerted = j.alerted /\ g.proposals = j.proposals /\ g.sent = sent
      /\ g.updates = j.updates /\ g.done = j.done
  BY <1>3 DEF Jobs
<1> HIDE DEF g
<1>5. DecisionInv(g)
  BY <1>2, <1>4 DEF DecisionInv, Reading
<1>6. ProgressInv(g)
  BY <1>2, <1>4 DEF ProgressInv, Reading, Early, Unwritten
<1>7. g.step \notin Early
  BY <1>2, <1>4 DEF Early, Reading
<1> QED
  BY <1>1, <1>4, <1>5, <1>6, <1>7

LEMMA AppendRowsKeeps ==
    ASSUME IInv, AppendRows
    PROVE  IInv'
<1> DEFINE chunk == Chunk(job.proposals, job.sent, ChunkRows)
           sent == job.sent + Len(chunk)
<1>1. job # NoJob /\ job.step = "appending" /\ UNCHANGED <<alerts, bundle, environment>>
  BY DEF AppendRows, At
<1>2. /\ job \in Jobs /\ DecisionInv(job) /\ ProgressInv(job)
      /\ KeysOf(mappings) \subseteq Known(job)
      /\ mappings \in Seq(Rows) /\ OneRow(mappings) /\ Named(mappings)
      /\ (late # NoRequest => late.kind # "rows")
  BY <1>1, RunFacts
<1>3. /\ job.proposals \in Seq(Tidy) /\ OneEach(job.proposals)
      /\ job.sent \in 0 .. Len(job.proposals) /\ ChunkRows \in Nat \ {0}
  BY <1>2, SheetSyncAssumption DEF DecisionInv, ProgressInv, Proper
<1>4. chunk \in Seq(Tidy)
  BY <1>3, ChunkProperties
<1>5. /\ OneEach(chunk) /\ sent \in 0 .. Len(job.proposals)
      /\ \A n \in 1 .. Len(chunk) :
           \E m \in 1 .. Len(job.proposals) : m \in 1 .. sent /\ chunk[n] = job.proposals[m]
      /\ \A m \in 1 .. job.sent : m \in 1 .. sent /\ job.proposals[m].key \notin KeysOf(chunk)
  <2>1. Apart(chunk, job.proposals, job.sent, sent)
    BY <1>3, ChunkKeys
  <2> HIDE DEF chunk, sent
  <2> QED
    BY <2>1 DEF Apart
<1> HIDE DEF chunk, sent
<1>6. KeysOf(chunk) = {chunk[n].key : n \in 1 .. Len(chunk)}
  BY <1>4, KeysOfRows
<1>7. Proper(chunk)
  BY <1>4, <1>5 DEF Proper
<1>8. ASSUME NEW n \in 1 .. Len(chunk) PROVE chunk[n].key \notin KeysOf(mappings)
  <2>1. chunk[n].key \notin KeysOf(job.base)
    BY <1>2, <1>5 DEF DecisionInv
  <2>2. chunk[n].key # NoKey
    <3>1. chunk[n] \in Tidy
      BY <1>4
    <3> QED
      BY <3>1, SheetSyncAssumption DEF Tidy
  <2>3. \A m \in 1 .. job.sent : job.proposals[m].key # chunk[n].key
    BY <1>5, <1>6
  <2> QED
    BY <2>1, <2>2, <2>3, <1>2 DEF Known
<1>9. /\ mappings \o chunk \in Seq(Rows) /\ OneRow(mappings \o chunk) /\ Named(mappings \o chunk)
       /\ KeysOf(mappings \o chunk) = KeysOf(mappings) \cup KeysOf(chunk)
  BY <1>2, <1>7, <1>8, AppendedTable
<1>10. (mappings' = mappings \/ mappings' = mappings \o chunk) =>
         mappings' \in Seq(Rows) /\ OneRow(mappings') /\ Named(mappings')
  BY <1>2, <1>9
<1>11. OpenKeys' = OpenKeys
  BY <1>1 DEF OpenKeys
<1>12. /\ alerts' \in Seq(Alerts) /\ provider' \in Lineups /\ BundleType(bundle')
       /\ edits' \in 0 .. MaxEdits /\ drifts' \in 0 .. MaxDrifts /\ OneOpenAlertPerStream'
  BY <1>1 DEF IInv, TypeOK, environment, BundleType, OneOpenAlertPerStream
<1>13. CASE /\ mappings' = mappings \o chunk /\ UNCHANGED <<late, failures>>
            /\ job' = Sent(job, sent) \/ Stop
  <2>1. TypeOK' /\ OneRowPerStream' /\ Named(mappings)'
    <3>1. job' \in Jobs \cup {NoJob}
      BY <1>1, <1>2, <1>5, <1>13, SentJob DEF Stop
    <3>2. LateType(late') /\ failures' \in 0 .. MaxFailures
      BY <1>13 DEF IInv, TypeOK, LateType
    <3> QED
      BY <1>10, <1>12, <1>13, <3>1, <3>2 DEF TypeOK, LateType, BundleType, OneRowPerStream, OneRow
  <2>2. LateOK(late, job, KeysOf(mappings), OpenKeys)'
    BY <1>2, <1>11, <1>13 DEF IInv, LateOK
  <2>3. RunOK(job, KeysOf(mappings), OpenKeys, late)'
    <3>1. CASE Stop
      BY <3>1 DEF Stop, RunOK
    <3>2. CASE job' = Sent(job, sent)
      <4>1. /\ DecisionInv(job') /\ ProgressInv(job') /\ job'.step \notin Early
            /\ job'.base = job.base /\ job'.proposals = job.proposals /\ job'.sent = sent
        BY <1>1, <1>2, <1>5, <3>2, SentJob
      <4>2. KeysOf(chunk) \subseteq Known(job')
        BY <4>1, <1>5, <1>6 DEF Known
      <4>3. Known(job) \subseteq Known(job')
        BY <4>1, <1>5 DEF Known
      <4> QED
        BY <4>1, <4>2, <4>3, <1>2, <1>9, <1>13 DEF RunOK, Unopened, Early
    <3> QED
      BY <1>13, <3>1, <3>2
  <2> QED
    BY <1>12, <2>1, <2>2, <2>3 DEF IInv
<1>14. CASE /\ Failed /\ Stop
            /\ \/ UNCHANGED <<mappings, late>>
               \/ mappings' = mappings \o chunk /\ UNCHANGED late
               \/ late' = [kind |-> "rows", body |-> chunk] /\ UNCHANGED mappings
  <2>1. LateType(late')
    <3>1. \A n \in 1 .. Len(chunk) : chunk[n] \in Rows
      <4>1. \A n \in 1 .. Len(chunk) : chunk[n] \in Tidy
        BY <1>4
      <4> QED
        BY <4>1 DEF Tidy, Rows
    <3>2. chunk \in Seq(Rows)
      BY <1>4, <3>1
    <3> QED
      BY <1>14, <3>2 DEF IInv, TypeOK, LateType
  <2>2. failures' \in 0 .. MaxFailures
    BY <1>14, FailedType DEF IInv
  <2>3. mappings' \in Seq(Rows) /\ OneRow(mappings') /\ Named(mappings')
    BY <1>2, <1>10, <1>14
  <2>4. TypeOK' /\ OneRowPerStream' /\ Named(mappings)'
    BY <1>12, <1>14, <2>1, <2>2, <2>3 DEF TypeOK, LateType, BundleType, OneRowPerStream, OneRow, Stop
  <2>5. RunOK(job, KeysOf(mappings), OpenKeys, late)'
    BY <1>14 DEF Stop, RunOK
  <2>6. LateOK(late, job, KeysOf(mappings), OpenKeys)'
    <3>1. CASE late' = late
      BY <1>2, <1>11, <3>1 DEF IInv, LateOK
    <3>2. CASE late' = [kind |-> "rows", body |-> chunk] /\ UNCHANGED mappings
      <4>1. late'.kind = "rows" /\ late'.body = chunk
        BY <3>2
      <4> QED
        BY <4>1, <3>2, <1>7, <1>8, <1>14 DEF LateOK, Stop
    <3> QED
      BY <1>14, <3>1, <3>2
  <2> QED
    BY <1>12, <2>4, <2>5, <2>6 DEF IInv
<1> QED
  BY <1>13, <1>14 DEF AppendRows, AfterFailedAppend, Sent, chunk, sent

LEMMA PatchRowsKeeps ==
    ASSUME IInv, PatchRows
    PROVE  IInv'
<1> DEFINE g == [job EXCEPT !.step = "patched"]
<1>1. job # NoJob /\ job.step = "patching" /\ job' = g /\ UNCHANGED <<alerts, bundle, environment>>
  BY DEF PatchRows, At, GoTo
<1>2. /\ job \in Jobs /\ DecisionInv(job) /\ ProgressInv(job)
      /\ KeysOf(mappings) \subseteq Known(job)
      /\ mappings \in Seq(Rows) /\ OneRow(mappings) /\ Named(mappings)
      /\ (late # NoRequest => late.kind # "rows")
  BY <1>1, RunFacts
<1>3. "patched" \in Steps /\ job.step \notin Unwritten
  BY <1>1 DEF Steps, Unwritten, Early, Reading
<1>4. /\ g \in Jobs /\ DecisionInv(g) /\ ProgressInv(g) /\ Known(g) = Known(job)
      /\ g.step = "patched"
  BY <1>2, <1>3, ForwardJob, GoToJob
<1> HIDE DEF g
<1>5. Batch \in Seq(Updates)
  <2>1. /\ job.updates \in Seq(Updates) /\ job.done \in 0 .. Len(job.updates)
        /\ BatchRows \in Nat \ {0}
    BY <1>2, SheetSyncAssumption DEF Jobs, ProgressInv
  <2> QED
    BY <2>1, ChunkProperties DEF Batch
<1>6. /\ Updated(mappings, Batch) \in Seq(Rows)
      /\ OneRow(Updated(mappings, Batch)) /\ Named(Updated(mappings, Batch))
      /\ KeysOf(Updated(mappings, Batch)) \subseteq KeysOf(mappings) \cup {NoKey}
  BY <1>2, <1>5, UpdatedTable
<1>7. OpenKeys' = OpenKeys
  BY <1>1 DEF OpenKeys
<1>8. /\ alerts' \in Seq(Alerts) /\ provider' \in Lineups /\ BundleType(bundle')
      /\ edits' \in 0 .. MaxEdits /\ drifts' \in 0 .. MaxDrifts /\ OneOpenAlertPerStream'
  BY <1>1 DEF IInv, TypeOK, environment, BundleType, OneOpenAlertPerStream
<1>9. mappings' = mappings \/ mappings' = Updated(mappings, Batch)
  BY DEF PatchRows
<1>10. /\ mappings' \in Seq(Rows) /\ OneRow(mappings') /\ Named(mappings')
       /\ KeysOf(mappings') \subseteq KeysOf(mappings) \cup {NoKey}
  BY <1>2, <1>6, <1>9
<1>11. /\ failures' \in 0 .. MaxFailures
       /\ late' = late \/ late' = [kind |-> "updates", body |-> Batch]
  BY FailedType DEF PatchRows, IInv, TypeOK
<1>12. LateType(late')
  BY <1>5, <1>11 DEF IInv, TypeOK, LateType
<1>13. TypeOK' /\ OneRowPerStream' /\ Named(mappings)'
  BY <1>1, <1>4, <1>8, <1>10, <1>11, <1>12 DEF TypeOK, LateType, BundleType, OneRowPerStream, OneRow
<1>14. LateOK(late, job, KeysOf(mappings), OpenKeys)'
  <2>1. CASE late' = late
    BY <1>2, <1>7, <2>1 DEF IInv, LateOK
  <2>2. CASE late' = [kind |-> "updates", body |-> Batch]
    BY <2>2 DEF LateOK
  <2> QED
    BY <1>11, <2>1, <2>2
<1>15. RunOK(job, KeysOf(mappings), OpenKeys, late)'
  <2>1. KeysOf(mappings') \subseteq Known(g)
    BY <1>2, <1>4, <1>10 DEF Known
  <2> QED
    BY <1>1, <1>4, <2>1 DEF RunOK, Unopened, Early, Reading
<1> QED
  BY <1>8, <1>13, <1>14, <1>15 DEF IInv

\* A run's end, with or without a bundle.
LEMMA FinishKeeps ==
    ASSUME IInv, job # NoJob, NEW rows \in Seq(Rows), KeysOf(rows) \subseteq Keys, NEW blocked,
           Finish(rows, blocked)
    PROVE  IInv'
<1>1. job \in Jobs
  BY RunFacts
<1>2. job.inventory \in Lineups
  BY <1>1 DEF Jobs
<1>3. BundleType(bundle')
  <2>1. CASE UNCHANGED bundle
    BY <2>1 DEF IInv, TypeOK, BundleType
  <2>2. CASE /\ Quarantined(rows, blocked) \subseteq KeysOf(rows)
             /\ bundle' = [rows |-> rows, quarantined |-> Quarantined(rows, blocked),
                           inventory |-> job.inventory]
    <3>1. Quarantined(rows, blocked) \in SUBSET Keys
      BY <2>2
    <3> HIDE DEF Quarantined
    <3> QED
      BY <1>2, <2>2, <3>1 DEF BundleType
  <2> QED
    BY <2>1, <2>2 DEF Finish
<1>4. UNCHANGED <<mappings, alerts, late, failures, environment>> /\ Stop
  BY DEF Finish
<1> QED
  BY <1>3, <1>4, ReadKeeps DEF IInv, TypeOK, Stop, RunOK

LEMMA BundleKeeps ==
    ASSUME IInv, Bundle \/ BundleExisting
    PROVE  IInv'
<1>1. job # NoJob /\ (Bundle => job.step = "bundling")
  BY DEF Bundle, BundleExisting, At
<1>2. job \in Jobs /\ DecisionInv(job) /\ ProgressInv(job)
  BY <1>1, RunFacts
<1>3. CASE Bundle
  <2>1. CASE Stop /\ Reads
    BY <1>1, <2>1, StopKeeps
  <2>2. CASE Finish(job.table, job.blocked)
    <3>1. job.table \in Seq(Rows) /\ Readable(job.table)
      BY <1>1, <1>2, <1>3 DEF Jobs, ProgressInv
    <3>2. KeysOf(job.table) \subseteq Keys
      BY <3>1, ReadableRows, KeysOfRows
    <3> QED
      BY <1>1, <2>2, <3>1, <3>2, FinishKeeps
  <2> QED
    BY <1>3, <2>1, <2>2 DEF Bundle
<1>4. CASE BundleExisting
  <2>1. job.base \in Seq(Rows) /\ Proper(job.base)
    BY <1>2 DEF Jobs, DecisionInv
  <2>2. KeysOf(job.base) \subseteq Keys
    <3>1. \A i \in 1 .. Len(job.base) : job.base[i] \in Tidy
      BY <2>1 DEF Proper
    <3>2. KeysOf(job.base) = {job.base[i].key : i \in 1 .. Len(job.base)}
      BY <2>1, KeysOfRows
    <3> QED
      BY <3>1, <3>2 DEF Tidy
  <2> QED
    BY <1>1, <1>4, <2>1, <2>2, FinishKeeps DEF BundleExisting
<1> QED
  BY <1>3, <1>4

LEMMA InterruptKeeps ==
    ASSUME IInv, Interrupt
    PROVE  IInv'
<1>1. failures' \in 0 .. MaxFailures
  BY FailedType DEF IInv, Interrupt, Failed
<1> QED
  BY <1>1, ReadKeeps DEF IInv, TypeOK, Interrupt, Stop, RunOK, BundleType

LEMMA EditSteps ==
    ASSUME IInv, Edit
    PROVE  IInv'
<1>1. /\ mappings \in Seq(Rows) /\ OneRow(mappings) /\ Named(mappings)
      /\ alerts \in Seq(Alerts) /\ OneOpen(alerts) /\ provider \in Lineups
      /\ edits \in 0 .. MaxEdits /\ drifts \in 0 .. MaxDrifts
  BY DEF IInv, TypeOK, OneRowPerStream, OneOpenAlertPerStream, OneRow, OneOpen
<1>2. Edited => edits' \in 0 .. MaxEdits
  BY <1>1, SheetSyncAssumption DEF Edited
<1>3. ASSUME /\ Edited /\ UNCHANGED <<alerts, late, job, bundle, failures, provider, drifts>>
             /\ mappings' \in Seq(Rows) /\ OneRow(mappings') /\ Named(mappings')
             /\ KeysOf(mappings') \subseteq KeysOf(mappings)
      PROVE  IInv'
  BY <1>1, <1>2, <1>3, EditKeeps
<1>4. ASSUME NEW i \in 1 .. Len(mappings), EditRow(i) PROVE IInv'
  <2>1. PICK n \in Names, g \in {Review, Manual} :
          mappings' = [mappings EXCEPT ![i] = [key |-> @.key, name |-> n, guide |-> g]]
    BY <1>4 DEF EditRow
  <2>2. g \in Guides
    BY DEF Guides
  <2>3. /\ mappings' \in Seq(Rows) /\ OneRow(mappings') /\ Named(mappings')
        /\ KeysOf(mappings') \subseteq KeysOf(mappings)
    BY <1>1, <2>1, <2>2, EditedRow
  <2> QED
    BY <1>3, <1>4, <2>3 DEF EditRow
<1>5. ASSUME NEW i \in 1 .. Len(mappings), DeleteRow(i) PROVE IInv'
  <2>1. mappings' = RemoveAt(mappings, i)
    BY <1>5 DEF DeleteRow
  <2>2. /\ mappings' \in Seq(Rows) /\ OneRow(mappings') /\ Named(mappings')
        /\ KeysOf(mappings') \subseteq KeysOf(mappings)
    BY <1>1, <2>1, DeletedRow
  <2> QED
    BY <1>3, <1>5, <2>2 DEF DeleteRow
<1>6. ASSUME NEW i \in 1 .. Len(mappings), NEW j \in 1 .. Len(mappings), SwapRows(i, j) PROVE IInv'
  <2>1. mappings' = [mappings EXCEPT ![i] = mappings[j], ![j] = mappings[i]]
    BY <1>6 DEF SwapRows
  <2>2. /\ mappings' \in Seq(Rows) /\ OneRow(mappings') /\ Named(mappings')
        /\ KeysOf(mappings') \subseteq KeysOf(mappings)
    BY <1>1, <2>1, SwappedRows
  <2> QED
    BY <1>3, <1>6, <2>2 DEF SwapRows
<1>7. ASSUME NEW j \in 1 .. Len(alerts), ResolveAlert(j) PROVE IInv'
  <2>1. alerts' = [alerts EXCEPT ![j].open = FALSE]
    BY <1>7 DEF ResolveAlert
  <2>2. alerts' \in Seq(Alerts) /\ OneOpen(alerts') /\ OpenIn(alerts') \subseteq OpenIn(alerts)
    BY <1>1, <2>1, ResolvedAlert
  <2> QED
    BY <1>1, <1>2, <1>7, <2>2, EditKeeps DEF ResolveAlert
<1> QED
  BY <1>4, <1>5, <1>6, <1>7 DEF Edit

LEMMA DriftKeeps ==
    ASSUME IInv, NEW k \in Keys, Drift(k)
    PROVE  IInv'
<1>1. /\ mappings \in Seq(Rows) /\ OneRow(mappings) /\ Named(mappings)
      /\ alerts \in Seq(Alerts) /\ OneOpen(alerts) /\ provider \in Lineups
      /\ edits \in 0 .. MaxEdits /\ drifts \in 0 .. MaxDrifts
  BY DEF IInv, TypeOK, OneRowPerStream, OneOpenAlertPerStream, OneRow, OneOpen
<1>2. drifts' \in 0 .. MaxDrifts
  BY <1>1, SheetSyncAssumption DEF Drift
<1>3. provider' \in Lineups
  BY <1>1 DEF Drift, Lineups
<1>4. UNCHANGED <<mappings, alerts, late, job, bundle, failures, edits>>
  BY DEF Drift
<1> QED
  BY <1>1, <1>2, <1>3, <1>4, EditKeeps

LEMMA LandKeeps ==
    ASSUME IInv, Land
    PROVE  IInv'
<1>1. /\ late # NoRequest /\ late' = NoRequest /\ UNCHANGED <<job, bundle, failures, environment>>
      /\ mappings \in Seq(Rows) /\ OneRow(mappings) /\ Named(mappings)
      /\ alerts \in Seq(Alerts) /\ OneOpen(alerts) /\ OpenKeys = OpenIn(alerts)
  BY DEF Land, IInv, TypeOK, OneRowPerStream, OneOpenAlertPerStream, OneRow, OneOpen, OpenKeys, OpenIn
<1>2. /\ LateType(late) /\ LateOK(late, job, KeysOf(mappings), OpenKeys)
      /\ RunOK(job, KeysOf(mappings), OpenKeys, late)
  BY DEF IInv, TypeOK, LateType
<1>3. SUFFICES /\ mappings' \in Seq(Rows) /\ OneRow(mappings') /\ Named(mappings')
               /\ alerts' \in Seq(Alerts) /\ OneOpen(alerts')
               /\ RunOK(job, KeysOf(mappings'), OpenKeys', NoRequest)
  <2>1. TypeOK' /\ OneRowPerStream' /\ OneOpenAlertPerStream'
    BY <1>1, <1>3 DEF IInv, TypeOK, environment, OneRowPerStream, OneOpenAlertPerStream, OneRow, OneOpen
  <2>2. LateOK(late, job, KeysOf(mappings), OpenKeys)'
    BY <1>1 DEF LateOK
  <2>3. RunOK(job, KeysOf(mappings), OpenKeys, late)'
    BY <1>1, <1>3
  <2> QED
    BY <1>3, <2>1, <2>2, <2>3 DEF IInv
<1>4. CASE late.kind = "rows" /\ mappings' = mappings \o late.body /\ UNCHANGED alerts
  <2>1. /\ job = NoJob /\ Proper(late.body)
        /\ \A n \in 1 .. Len(late.body) : late.body[n].key \notin KeysOf(mappings)
    BY <1>1, <1>2, <1>4 DEF LateOK
  <2>2. mappings' \in Seq(Rows) /\ OneRow(mappings') /\ Named(mappings')
    BY <1>1, <1>4, <2>1, AppendedTable
  <2> QED
    BY <1>1, <1>4, <2>1, <2>2 DEF RunOK
<1>5. CASE late.kind = "alerts" /\ alerts' = alerts \o late.body /\ UNCHANGED mappings
  <2>1. /\ OneEach(late.body) /\ late.body \in Seq(Alerts)
        /\ \A n \in 1 .. Len(late.body) : late.body[n].key \notin OpenIn(alerts)
    BY <1>1, <1>2, <1>5 DEF LateOK, LateType
  <2>2. alerts' \in Seq(Alerts) /\ OneOpen(alerts')
    BY <1>1, <1>5, <2>1, OpenedAlerts
  <2>3. RunOK(job, KeysOf(mappings'), OpenKeys', NoRequest)
    BY <1>1, <1>2, <1>5 DEF RunOK, Unopened, Early
  <2> QED
    BY <1>1, <1>5, <2>2, <2>3
<1>6. CASE late.kind = "updates" /\ mappings' = Updated(mappings, late.body) /\ UNCHANGED alerts
  <2>1. late.body \in Seq(Updates)
    BY <1>1, <1>2, <1>6 DEF LateType
  <2>2. /\ mappings' \in Seq(Rows) /\ OneRow(mappings') /\ Named(mappings')
        /\ KeysOf(mappings') \subseteq KeysOf(mappings) \cup {NoKey}
    BY <1>1, <1>6, <2>1, UpdatedTable
  <2>3. OpenKeys' = OpenKeys
    BY <1>6 DEF OpenKeys
  <2>4. RunOK(job, KeysOf(mappings'), OpenKeys', NoRequest)
    BY <1>2, <2>2, <2>3 DEF RunOK, Known
  <2> QED
    BY <1>1, <1>6, <2>2, <2>4
<1> QED
  BY <1>4, <1>5, <1>6 DEF Land

-----------------------------------------------------------------------------
LEMMA InitIInv ==
    ASSUME Init
    PROVE  IInv
<1>1. /\ mappings \in Seq(Tidy) /\ OneEach(mappings)
  BY SheetSyncAssumption DEF Init, Tidy, OneEach
<1>2. /\ Len(mappings) \in Nat
      /\ \A i \in 1 .. Len(mappings) : mappings[i] \in Rows /\ mappings[i].name \in Names
  <2>1. Len(mappings) \in Nat /\ \A i \in 1 .. Len(mappings) : mappings[i] \in Tidy
    BY <1>1
  <2> QED
    BY <2>1 DEF Tidy, Rows
<1>3. mappings \in Seq(Rows)
  BY <1>1, <1>2
<1>4. Named(mappings) /\ OneRowPerStream
  BY <1>1, <1>2 DEF Named, OneRowPerStream, OneEach
<1>5. OneOpenAlertPerStream
  BY DEF Init, OneOpenAlertPerStream
<1>6. TypeOK
  BY <1>3, SheetSyncAssumption DEF Init, TypeOK, Lineups
<1> QED
  BY <1>4, <1>5, <1>6 DEF Init, IInv, LateOK, RunOK

LEMMA NextIInv ==
    ASSUME IInv, [Next]_vars
    PROVE  IInv'
<1>1. CASE Edit
  BY <1>1, EditSteps
<1>2. ASSUME NEW k \in Keys, Drift(k) PROVE IInv'
  BY <1>2, DriftKeeps
<1>3. CASE Land
  BY <1>3, LandKeeps
<1>4. CASE Interrupt
  BY <1>4, InterruptKeeps
<1>5. ASSUME NEW mode \in Modes, Start(mode) PROVE IInv'
  BY <1>5, StartKeeps
<1>6. CASE Work
  <2>1. CASE Fetch \/ ReadMappings \/ Match \/ Deduplicate \/ AppendAlerts \/ ConfirmAlerts
    BY <2>1, FetchKeeps, ReadMappingsKeeps, MatchKeeps, DeduplicateKeeps, AppendAlertsKeeps,
       ConfirmAlertsKeeps
  <2>2. CASE RevalidateNew \/ CompareBeforeAppend \/ ClearAppend \/ AppendRows \/ VerifyAppend
    BY <2>2, BeforeAppendKeeps, AppendRowsKeeps, VerifyAppendKeeps
  <2>3. CASE \/ ClearUpdates \/ RevalidateBatch \/ CompareBeforeBatch \/ ClearBatch
             \/ PatchRows \/ VerifyBatch
    BY <2>3, BeforeBatchKeeps, PatchRowsKeeps, VerifyBatchKeeps
  <2>4. CASE CompareTerminal \/ Bundle \/ BundleExisting
    BY <2>4, CompareTerminalKeeps, BundleKeeps
  <2> QED
    BY <1>6, <2>1, <2>2, <2>3, <2>4 DEF Work
<1>7. CASE UNCHANGED vars
  <2>1. OpenKeys' = OpenKeys
    BY <1>7 DEF vars, OpenKeys
  <2>2. TypeOK' /\ OneRowPerStream' /\ OneOpenAlertPerStream' /\ Named(mappings)'
    BY <1>7 DEF vars, environment, IInv, TypeOK, OneRowPerStream, OneOpenAlertPerStream
  <2> QED
    BY <1>7, <2>1, <2>2 DEF vars, IInv
<1> QED
  BY <1>1, <1>2, <1>3, <1>4, <1>5, <1>6, <1>7 DEF Next

\* Every reachable state satisfies the inductive invariant.
THEOREM InductiveInvariant == Spec => []IInv
<1>1. Init => IInv
  BY InitIInv
<1>2. IInv /\ [Next]_vars => IInv'
  BY NextIInv
<1> QED
  BY <1>1, <1>2, PTL DEF Spec

\* No rerun gives a stream a second row or opens an open incident again, for
\* any number of edits, drifts, failures and late requests (append_raw_sheet_rows).
THEOREM SheetInvHolds == Spec => []SheetInv
<1>1. IInv => SheetInv
  BY DEF IInv, SheetInv
<1> QED
  BY <1>1, InductiveInvariant, PTL

-----------------------------------------------------------------------------
(* What a bundle shows.                                                     *)

Own(B, P, U) ==
    LET decided(k) == {u \in ToSet(U) : u.key = k}
    IN  {IF decided(row.key) = {} THEN row
         ELSE [row EXCEPT !.guide = (CHOOSE u \in decided(row.key) : TRUE).guide] : row \in ToSet(B \o P)}

\* Rows that were read, updated in place, with rows of other streams after them.
Done(B, P, U, T) ==
    /\ OneEach(B) /\ OneEach(P) /\ OneEach(T) /\ Len(T) >= Len(B)
    /\ \A n \in 1 .. Len(P) : P[n].key \notin KeysOf(B)
    /\ \A n \in 1 .. Len(U) : /\ U[n].row \in 1 .. Len(B) /\ U[n].key = B[U[n].row].key
                              /\ U[n].guide = B[U[n].row].name
    /\ \A i \in 1 .. Len(B) :
         T[i] = IF \E n \in 1 .. Len(U) : U[n].row = i
                THEN [B[i] EXCEPT !.guide = B[i].name] ELSE B[i]
    /\ {T[i] : i \in Len(B) + 1 .. Len(T)} = ToSet(P)

LEMMA OwnRows ==
    ASSUME NEW B \in Seq(Rows), NEW P \in Seq(Rows), NEW U \in Seq(Updates), NEW T \in Seq(Rows),
           Done(B, P, U, T)
    PROVE  /\ Len(T) = Len(B) + Len(P)
           /\ \A i \in 1 .. Len(B) : T[i].key = B[i].key /\ T[i].name = B[i].name
           /\ \A i \in 1 .. Len(T) : i \notin 1 .. Len(B) => T[i] \in ToSet(P)
           /\ ToSet(T) = Own(B, P, U)
<1> DEFINE rest == SubSeq(T, Len(B) + 1, Len(T))
           decided(k) == {u \in ToSet(U) : u.key = k}
           own(row) == IF decided(row.key) = {} THEN row
                       ELSE [row EXCEPT !.guide = (CHOOSE u \in decided(row.key) : TRUE).guide]
<1>1. T \in Seq(Rows) /\ B \in Seq(Rows) /\ P \in Seq(Rows) /\ U \in Seq(Updates)
  OBVIOUS
<1>2. Len(B) \in Nat /\ Len(T) \in Nat /\ Len(P) \in Nat /\ Len(U) \in Nat
  BY <1>1
<1>3. /\ Len(T) >= Len(B)
      /\ \A i \in 1 .. Len(B) :
           T[i] = IF \E n \in 1 .. Len(U) : U[n].row = i
                  THEN [B[i] EXCEPT !.guide = B[i].name] ELSE B[i]
      /\ {T[i] : i \in Len(B) + 1 .. Len(T)} = ToSet(P)
  BY DEF Done
<1>4. OneEach(B) /\ OneEach(P) /\ OneEach(T)
  BY DEF Done
<1>5. rest \in Seq(Rows) /\ Len(rest) = Len(T) - Len(B)
  BY <1>1, <1>2, <1>3
<1>6. \A i \in 1 .. Len(T) - Len(B) : rest[i] = T[Len(B) + i]
  BY <1>1, <1>2, <1>3
<1> HIDE DEF rest
<1>7. OneEach(rest)
  <2> SUFFICES ASSUME NEW n \in 1 .. Len(T) - Len(B), NEW m \in 1 .. Len(T) - Len(B),
                      rest[n].key = rest[m].key
               PROVE  n = m
    BY <1>5 DEF OneEach
  <2>1. Len(B) + n \in 1 .. Len(T) /\ Len(B) + m \in 1 .. Len(T)
    BY <1>2, <1>3
  <2>2. T[Len(B) + n].key = T[Len(B) + m].key
    BY <1>6
  <2>3. Len(B) + n = Len(B) + m
    BY <1>4, <2>1, <2>2 DEF OneEach
  <2> QED
    BY <2>3, <1>2
<1>8. KeysOf(rest) = KeysOf(P)
  <2>1. ToSet(rest) = {T[i] : i \in Len(B) + 1 .. Len(T)}
    <3>1. DOMAIN rest = 1 .. Len(T) - Len(B)
      BY <1>5
    <3>2. \A i \in 1 .. Len(T) - Len(B) : Len(B) + i \in Len(B) + 1 .. Len(T)
      BY <1>2, <1>3
    <3>3. \A i \in Len(B) + 1 .. Len(T) : /\ i - Len(B) \in 1 .. Len(T) - Len(B)
                                          /\ Len(B) + (i - Len(B)) = i
      BY <1>2, <1>3
    <3>4. \A i \in DOMAIN rest : rest[i] \in {T[h] : h \in Len(B) + 1 .. Len(T)}
      BY <1>6, <3>1, <3>2
    <3>5. \A i \in Len(B) + 1 .. Len(T) : T[i] = rest[i - Len(B)] /\ i - Len(B) \in DOMAIN rest
      BY <1>6, <3>1, <3>3
    <3> QED
      BY <3>4, <3>5 DEF ToSet
  <2> QED
    BY <1>3, <2>1 DEF KeysOf
<1>9. Len(rest) = Len(P)
  <2>1. Cardinality(KeysOf(rest)) = Len(rest)
    BY <1>5, <1>7, KeysCount
  <2>2. Cardinality(KeysOf(P)) = Len(P)
    BY <1>1, <1>4, KeysCount
  <2> QED
    BY <1>8, <2>1, <2>2
<1>10. Len(T) = Len(B) + Len(P)
  <2>1. Len(T) - Len(B) = Len(P)
    BY <1>5, <1>9
  <2> QED
    BY <1>2, <2>1
<1>11. ASSUME NEW i \in 1 .. Len(B) PROVE T[i].key = B[i].key /\ T[i].name = B[i].name
  <2>1. B[i] \in Rows
    BY <1>1
  <2>2. T[i] = B[i] \/ T[i] = [B[i] EXCEPT !.guide = B[i].name]
    BY <1>3
  <2> QED
    BY <2>1, <2>2 DEF Rows
<1>12. ASSUME NEW i \in 1 .. Len(T), i \notin 1 .. Len(B) PROVE T[i] \in ToSet(P)
  <2>1. i \in Len(B) + 1 .. Len(T)
    BY <1>2, <1>12
  <2> QED
    BY <1>3, <2>1
<1>13. ASSUME NEW n \in 1 .. Len(U)
       PROVE  /\ U[n].row \in 1 .. Len(B) /\ U[n].key = B[U[n].row].key
              /\ U[n].guide = B[U[n].row].name
  BY DEF Done
<1>14. \A u : u \in ToSet(U) <=> \E n \in 1 .. Len(U) : u = U[n]
  <2>1. DOMAIN U = 1 .. Len(U)
    BY <1>1
  <2> QED
    BY <2>1 DEF ToSet
<1>15. ASSUME NEW i \in 1 .. Len(B) PROVE own(B[i]) = T[i]
  <2>1. ASSUME NEW u \in decided(B[i].key)
        PROVE  u.guide = B[i].name /\ \E n \in 1 .. Len(U) : U[n].row = i
    <3>1. PICK n \in 1 .. Len(U) : u = U[n]
      BY <1>14
    <3>2. U[n].row = i
      <4>1. U[n].row \in 1 .. Len(B) /\ B[U[n].row].key = B[i].key
        BY <3>1, <1>13
      <4> QED
        BY <4>1, <1>4 DEF OneEach
    <3> QED
      BY <3>1, <3>2, <1>13
  <2>2. ASSUME NEW n \in 1 .. Len(U), U[n].row = i PROVE U[n] \in decided(B[i].key)
    BY <2>2, <1>13, <1>14
  <2>3. CASE decided(B[i].key) = {}
    <3>1. ~\E n \in 1 .. Len(U) : U[n].row = i
      BY <2>2, <2>3
    <3> QED
      BY <2>3, <3>1, <1>3
  <2>4. CASE decided(B[i].key) # {}
    <3>1. (CHOOSE u \in decided(B[i].key) : TRUE) \in decided(B[i].key)
      BY <2>4
    <3>2. /\ (CHOOSE u \in decided(B[i].key) : TRUE).guide = B[i].name
          /\ \E n \in 1 .. Len(U) : U[n].row = i
      BY <2>1, <3>1
    <3> HIDE DEF decided
    <3>3. own(B[i]) = [B[i] EXCEPT !.guide = B[i].name]
      BY <2>4, <3>2
    <3> QED
      BY <3>2, <3>3, <1>3
  <2> QED
    BY <2>3, <2>4
<1>16. ASSUME NEW n \in 1 .. Len(P) PROVE own(P[n]) = P[n]
  <2>1. P[n].key \notin KeysOf(B)
    BY DEF Done
  <2>2. \A m \in 1 .. Len(B) : B[m].key # P[n].key
    BY <2>1, <1>1, KeysOfRows
  <2>3. decided(P[n].key) = {}
    <3> SUFFICES ASSUME NEW u \in ToSet(U), u.key = P[n].key PROVE FALSE
      OBVIOUS
    <3>1. PICK m \in 1 .. Len(U) : u = U[m]
      BY <1>14
    <3>2. U[m].row \in 1 .. Len(B) /\ U[m].key = B[U[m].row].key
      BY <1>13
    <3> QED
      BY <2>2, <3>1, <3>2
  <2> HIDE DEF decided
  <2> QED
    BY <2>3
<1>17. Own(B, P, U) = {own(row) : row \in ToSet(B \o P)}
  BY DEF Own
<1> HIDE DEF own
<1>18. ToSet(B \o P) = {B[i] : i \in 1 .. Len(B)} \cup {P[n] : n \in 1 .. Len(P)}
  <2>1. /\ B \o P \in Seq(Rows) /\ Len(B \o P) = Len(B) + Len(P)
        /\ \A i \in 1 .. Len(B) + Len(P) : (B \o P)[i] = IF i <= Len(B) THEN B[i] ELSE P[i - Len(B)]
    BY <1>1, ConcatProperties
  <2>2. DOMAIN (B \o P) = 1 .. Len(B) + Len(P)
    BY <2>1, <1>2
  <2>3. \A i \in 1 .. Len(B) : i \in 1 .. Len(B) + Len(P) /\ i <= Len(B)
    BY <1>2
  <2>4. \A n \in 1 .. Len(P) : /\ Len(B) + n \in 1 .. Len(B) + Len(P) /\ ~(Len(B) + n <= Len(B))
                               /\ (Len(B) + n) - Len(B) = n
    BY <1>2
  <2>5. \A i \in 1 .. Len(B) + Len(P) : i <= Len(B) => i \in 1 .. Len(B)
    BY <1>2
  <2>6. \A i \in 1 .. Len(B) + Len(P) : ~(i <= Len(B)) => i - Len(B) \in 1 .. Len(P)
    BY <1>2
  <2> DEFINE C == B \o P
  <2>7. /\ \A i \in 1 .. Len(B) : C[i] = B[i]
        /\ \A n \in 1 .. Len(P) : C[Len(B) + n] = P[n]
        /\ \A i \in DOMAIN C : C[i] \in {B[h] : h \in 1 .. Len(B)} \cup {P[n] : n \in 1 .. Len(P)}
    BY <2>1, <2>2, <2>3, <2>4, <2>5, <2>6
  <2> HIDE DEF C
  <2>8. ToSet(C) = {B[i] : i \in 1 .. Len(B)} \cup {P[n] : n \in 1 .. Len(P)}
    <3>1. DOMAIN C = 1 .. Len(B) + Len(P)
      BY <2>2 DEF C
    <3>2. \A i \in 1 .. Len(B) : B[i] = C[i] /\ i \in DOMAIN C
      BY <2>3, <2>7, <3>1
    <3>3. \A n \in 1 .. Len(P) : P[n] = C[Len(B) + n] /\ Len(B) + n \in DOMAIN C
      BY <2>4, <2>7, <3>1
    <3>4. ToSet(C) = {C[i] : i \in DOMAIN C}
      BY DEF ToSet
    <3>5. \A i \in 1 .. Len(B) : B[i] \in ToSet(C)
      BY <3>2, <3>4
    <3>6. \A n \in 1 .. Len(P) : P[n] \in ToSet(C)
      BY <3>3, <3>4
    <3> QED
      BY <2>7, <3>4, <3>5, <3>6, SMTT(40)
  <2> QED
    BY <2>8 DEF C
<1>19. Own(B, P, U) = {T[i] : i \in 1 .. Len(B)} \cup {P[n] : n \in 1 .. Len(P)}
  <2>1. \A row \in ToSet(B \o P) :
          own(row) \in {T[i] : i \in 1 .. Len(B)} \cup {P[n] : n \in 1 .. Len(P)}
    BY <1>15, <1>16, <1>18
  <2>2. \A i \in 1 .. Len(B) : B[i] \in ToSet(B \o P) /\ own(B[i]) = T[i]
    BY <1>15, <1>18
  <2>3. \A n \in 1 .. Len(P) : P[n] \in ToSet(B \o P) /\ own(P[n]) = P[n]
    BY <1>16, <1>18
  <2> QED
    BY <1>17, <2>1, <2>2, <2>3, Zenon
<1>20. ToSet(T) = {T[i] : i \in 1 .. Len(B)} \cup {T[i] : i \in Len(B) + 1 .. Len(T)}
  <2>1. DOMAIN T = 1 .. Len(T)
    BY <1>1
  <2>2. \A i : i \in 1 .. Len(T) <=> i \in 1 .. Len(B) \/ i \in Len(B) + 1 .. Len(T)
    BY <1>2, <1>3
  <2> QED
    BY <2>1, <2>2 DEF ToSet
<1>21. ToSet(P) = {P[n] : n \in 1 .. Len(P)}
  <2>1. DOMAIN P = 1 .. Len(P)
    BY <1>1
  <2> QED
    BY <2>1 DEF ToSet
<1> QED
  BY <1>3, <1>10, <1>11, <1>12, <1>19, <1>20, <1>21

LEMMA OwnTable ==
    ASSUME NEW j \in Jobs, DecisionInv(j), ProgressInv(j), j.step = "bundling"
    PROVE  /\ Len(j.table) = Len(j.base) + Len(j.proposals)
           /\ \A i \in 1 .. Len(j.base) :
                j.table[i].key = j.base[i].key /\ j.table[i].name = j.base[i].name
           /\ \A i \in 1 .. Len(j.table) : i \notin 1 .. Len(j.base) => j.table[i] \in ToSet(j.proposals)
           /\ ToSet(j.table) = Own(j.base, j.proposals, j.updates)
<1>1. /\ j.base \in Seq(Rows) /\ j.proposals \in Seq(Rows)
      /\ j.updates \in Seq(Updates) /\ j.table \in Seq(Rows)
  BY DEF Jobs
<1>2. /\ OneEach(j.base) /\ OneEach(j.proposals)
      /\ \A n \in 1 .. Len(j.proposals) : j.proposals[n].key \notin KeysOf(j.base)
      /\ \A n \in 1 .. Len(j.updates) :
           /\ j.updates[n].row \in 1 .. Len(j.base) /\ j.updates[n].key = j.base[j.updates[n].row].key
           /\ j.updates[n].guide = j.base[j.updates[n].row].name
  BY DEF DecisionInv, Proper
<1>3. Worked(j) /\ Readable(j.table) /\ j.done = Len(j.updates)
  BY DEF ProgressInv, Unwritten, Early, Reading
<1>4. OneEach(j.table)
  BY <1>1, <1>3, ReadableRows
<1>5. /\ Len(j.table) >= Len(j.base)
      /\ \A i \in 1 .. Len(j.base) :
           j.table[i] = IF \E n \in 1 .. Len(j.updates) : j.updates[n].row = i
                        THEN [j.base[i] EXCEPT !.guide = j.base[i].name] ELSE j.base[i]
      /\ {j.table[i] : i \in Len(j.base) + 1 .. Len(j.table)} = ToSet(j.proposals)
  BY <1>3 DEF Worked
<1> QED
  <2>1. Done(j.base, j.proposals, j.updates, j.table)
    BY <1>2, <1>4, <1>5 DEF Done
  <2> QED
    BY <1>1, <2>1, OwnRows, ZenonT(60)

\* Only a run that is done leaves a bundle.
LEMMA NewBundle ==
    ASSUME IInv, [Next]_vars, bundle' # bundle
    PROVE  /\ job \in Jobs /\ DecisionInv(job) /\ ProgressInv(job)
           /\ \E rows, blocked :
                /\ \/ /\ job.step = "bundling" /\ rows = job.table
                      /\ blocked = job.blocked /\ AlertsAgree
                   \/ /\ job.mode = "existing" /\ rows = job.base
                      /\ blocked = OpenKeys \cup BlankKeys(job.base, job.inventory)
                /\ alerts' = alerts
                /\ bundle' = [rows |-> rows, quarantined |-> Quarantined(rows, blocked),
                              inventory |-> job.inventory]
<1>1. Bundle \/ BundleExisting
  <2>1. ~Edit
    BY DEF Edit, EditRow, DeleteRow, SwapRows, ResolveAlert
  <2>2. ~Land /\ ~Interrupt /\ \A k \in Keys : ~Drift(k)
    BY DEF Land, Interrupt, Drift
  <2>3. \A mode \in Modes : ~Start(mode)
    BY DEF Start, Reads
  <2>4. ~(Fetch \/ ReadMappings \/ Match \/ Deduplicate \/ AppendAlerts \/ ConfirmAlerts)
    BY DEF Fetch, ReadMappings, Match, Deduplicate, AppendAlerts, ConfirmAlerts, Reads
  <2>5. ~(RevalidateNew \/ CompareBeforeAppend \/ ClearAppend \/ AppendRows \/ VerifyAppend)
    BY DEF RevalidateNew, CompareBeforeAppend, ClearAppend, AppendRows, VerifyAppend, Reads
  <2>6. ~(ClearUpdates \/ RevalidateBatch \/ CompareBeforeBatch \/ ClearBatch \/ PatchRows \/ VerifyBatch)
    BY DEF ClearUpdates, RevalidateBatch, CompareBeforeBatch, ClearBatch, PatchRows, VerifyBatch, Reads
  <2>7. ~CompareTerminal
    BY DEF CompareTerminal, Reads
  <2>8. ~UNCHANGED vars
    BY DEF vars
  <2> QED
    BY <2>1, <2>2, <2>3, <2>4, <2>5, <2>6, <2>7, <2>8 DEF Next, Work
<1>2. job # NoJob
  BY <1>1 DEF Bundle, BundleExisting, At
<1>3. job \in Jobs /\ DecisionInv(job) /\ ProgressInv(job)
  BY <1>2, RunFacts
<1>4. CASE Bundle
  BY <1>3, <1>4 DEF Bundle, At, Finish, Reads
<1>5. CASE BundleExisting
  BY <1>3, <1>5 DEF BundleExisting, At, Finish
<1> QED
  BY <1>1, <1>4, <1>5

\* A run that writes bundles what it read plus its own confirmed writes.
THEOREM BundleIsOwnWorkHolds == Spec => BundleIsOwnWork
<1> DEFINE A == bundle' # bundle /\ job.mode = "apply" =>
                  /\ Len(bundle'.rows) = Len(job.base) + Len(job.proposals)
                  /\ ToSet(bundle'.rows) = OwnWork
<1>1. ASSUME IInv, [Next]_vars PROVE [A]_vars
  <2> SUFFICES ASSUME bundle' # bundle, job.mode = "apply"
               PROVE  /\ Len(bundle'.rows) = Len(job.base) + Len(job.proposals)
                      /\ ToSet(bundle'.rows) = OwnWork
    OBVIOUS
  <2>1. /\ job \in Jobs /\ DecisionInv(job) /\ ProgressInv(job)
        /\ job.step = "bundling" /\ bundle'.rows = job.table
    BY <1>1, NewBundle
  <2>2. /\ Len(job.table) = Len(job.base) + Len(job.proposals)
        /\ ToSet(job.table) = Own(job.base, job.proposals, job.updates)
    BY <2>1, OwnTable
  <2>3. OwnWork = Own(job.base, job.proposals, job.updates)
    BY DEF OwnWork, Own
  <2> QED
    BY <2>1, <2>2, <2>3
<1>2. IInv /\ [Next]_vars => [A]_vars
  BY <1>1
<1> QED
  BY <1>2, InductiveInvariant, PTL DEF Spec, BundleIsOwnWork

\* The stream of a row that was read under another name than the lineup's is in doubt.
LEMMA ReusedRow ==
    ASSUME NEW rows \in Seq(Rows), OneEach(rows), NEW inventory, NEW i \in 1 .. Len(rows),
           inventory[rows[i].key] \in Names, inventory[rows[i].key] # rows[i].name
    PROVE  rows[i].key \in Reused(rows, inventory)
<1>1. rows[i] \in ToSet(rows) /\ rows[i].key \in KeysOf(rows)
  BY DEF ToSet, KeysOf
<1>2. RowOf(rows, rows[i].key) \in ToSet(rows) /\ RowOf(rows, rows[i].key).key = rows[i].key
  BY <1>1 DEF RowOf
<1>3. PICK h \in 1 .. Len(rows) : RowOf(rows, rows[i].key) = rows[h]
  BY <1>2 DEF ToSet
<1>4. h = i
  BY <1>2, <1>3 DEF OneEach
<1> QED
  BY <1>1, <1>3, <1>4 DEF Reused

\* In a bundle every stream in doubt is quarantined, and a run that writes has
\* opened an alert for every stream that seems to be reused.
THEOREM BundleQuarantinesHolds == Spec => BundleQuarantines
<1> DEFINE blank == {r \in ToSet(bundle'.rows) : bundle'.inventory[r.key] = Blank}
           reused == {r \in ToSet(bundle'.rows) : bundle'.inventory[r.key] \in Names \ {r.name}}
           C == /\ KeysOf(bundle'.rows) \cap OpenKeys \subseteq bundle'.quarantined
                /\ {r.key : r \in blank \cup reused} \subseteq bundle'.quarantined
                /\ job.mode = "apply" => {r.key : r \in reused} \subseteq OpenKeys
<1>1. ASSUME IInv, [Next]_vars, bundle' # bundle PROVE C
  <2>1. job \in Jobs /\ DecisionInv(job) /\ ProgressInv(job)
    BY <1>1, NewBundle
  <2>2. PICK rows, blocked :
          /\ \/ /\ job.step = "bundling" /\ rows = job.table
                /\ blocked = job.blocked /\ AlertsAgree
             \/ /\ job.mode = "existing" /\ rows = job.base
                /\ blocked = OpenKeys \cup BlankKeys(job.base, job.inventory)
          /\ bundle' = [rows |-> rows, quarantined |-> Quarantined(rows, blocked),
                        inventory |-> job.inventory]
    BY <1>1, NewBundle
  <2>3. /\ bundle'.rows = rows /\ bundle'.quarantined = Quarantined(rows, blocked)
        /\ bundle'.inventory = job.inventory
    BY <2>2
  <2>4. blocked = OpenKeys \cup BlankKeys(job.base, job.inventory)
    BY <2>2 DEF AlertsAgree
  <2>5. /\ job.base \in Seq(Rows) /\ OneEach(job.base) /\ job.proposals \in Seq(Tidy)
        /\ \A n \in 1 .. Len(job.proposals) :
             job.proposals[n].name = job.inventory[job.proposals[n].key]
    BY <2>1 DEF Jobs, DecisionInv, Proper
  <2>6. rows \in Seq(Rows)
    BY <2>1, <2>2 DEF Jobs
  <2>7. ASSUME NEW r \in reused PROVE r.key \in Reused(job.base, job.inventory)
    <3>1. job.inventory[r.key] \in Names /\ job.inventory[r.key] # r.name
      BY <2>3
    <3>2. PICK i \in 1 .. Len(rows) : r = rows[i]
      BY <2>3, <2>6 DEF ToSet
    <3>3. CASE rows = job.base
      BY <2>5, <3>1, <3>2, <3>3, ReusedRow
    <3>4. CASE job.step = "bundling" /\ rows = job.table
      <4>1. CASE i \in 1 .. Len(job.base)
        <5>1. r.key = job.base[i].key /\ r.name = job.base[i].name
          BY <2>1, <3>2, <3>4, <4>1, OwnTable
        <5> QED
          BY <2>5, <3>1, <4>1, <5>1, ReusedRow
      <4>2. CASE i \notin 1 .. Len(job.base)
        <5>1. r \in ToSet(job.proposals)
          BY <2>1, <3>2, <3>4, <4>2, OwnTable
        <5>2. PICK n \in 1 .. Len(job.proposals) : r = job.proposals[n]
          BY <2>5, <5>1 DEF ToSet
        <5> QED
          BY <2>5, <3>1, <5>2
      <4> QED
        BY <4>1, <4>2
    <3> QED
      BY <2>2, <3>3, <3>4
  <2>8. ASSUME NEW r \in blank PROVE r.key \in BlankKeys(rows, job.inventory)
    BY <2>3 DEF BlankKeys, KeysOf
  <2>9. /\ KeysOf(bundle'.rows) \cap OpenKeys \subseteq bundle'.quarantined
        /\ {r.key : r \in blank \cup reused} \subseteq bundle'.quarantined
    BY <2>3, <2>4, <2>7, <2>8 DEF Quarantined
  <2>10. ASSUME job.mode = "apply", NEW r \in reused PROVE r.key \in OpenKeys
    <3>1. job.step = "bundling" /\ blocked = job.blocked
      BY <2>2, <2>10
    <3>2. r.key \in job.blocked
      BY <2>1, <2>7, <3>1 DEF DecisionInv, Reading
    <3>3. r.key \notin BlankKeys(job.base, job.inventory)
      BY <2>3, SheetSyncAssumption DEF BlankKeys
    <3> QED
      BY <2>4, <3>1, <3>2, <3>3
  <2> QED
    BY <2>9, <2>10
<1>2. IInv /\ [Next]_vars => [bundle' # bundle => C]_vars
  BY <1>1
<1>3. BundleQuarantines <=> [][bundle' # bundle => C]_vars
  BY DEF BundleQuarantines
<1> HIDE DEF C
<1> QED
  BY <1>2, <1>3, InductiveInvariant, PTL DEF Spec

-----------------------------------------------------------------------------
(* What a row becomes.                                                       *)

\* A mark that approves a target is one of a schedule that was found.
Sound(row) == row.mark.kind = "v2" => row.mark.target = "real"

LEMMA MarkType ==
    ASSUME NEW kind \in Kinds, NEW name \in ChannelNames, NEW target \in Targets
    PROVE  /\ Mark(kind, name, target) \in Marks
           /\ Mark(kind, name, target).kind = kind /\ Mark(kind, name, target).name = name
           /\ Mark(kind, name, target).target = target
BY DEF Mark, Marks

DecidedRow(row, mark, action, target, reason) ==
    [Marked(row, mark) EXCEPT !.action = action, !.target = target, !.reason = reason]

LEMMA DecidedType ==
    ASSUME NEW row \in QueueRows, NEW mark \in Marks,
           NEW action \in Actions, NEW target \in Targets, NEW reason \in Reasons
    PROVE  LET new == DecidedRow(row, mark, action, target, reason) IN
           /\ new \in QueueRows /\ new.name = row.name /\ new.mark = mark
           /\ new.action = action /\ new.target = target
BY DEF DecidedRow, Marked, QueueRows, Marks

LEMMA MatchedType ==
    ASSUME NEW s, NEW row \in QueueRows
    PROVE  /\ Matched(s, row) \in QueueRows /\ Matched(s, row).name = row.name /\ Sound(Matched(s, row))
           /\ Matched(s, row).action = "AUTO_EPGSHARE" => Matched(s, row).target = "real"
           /\ Matched(s, row).action \in {"AUTO_DUMMY", "IGNORE"} => Matched(s, row).target = "dummy"
           /\ Matched(s, row).target \in {"real", "dummy", "weak", row.target}
           /\ verdict[s] # "real" => Matched(s, row).action # "AUTO_EPGSHARE"
<1> DEFINE found == Mark("v2", row.name, "real")
           tried == Mark("v1", row.name, "none")
<1>1. row.name \in ChannelNames /\ row.target \in Targets /\ "text" \in Reasons
  BY DEF QueueRows, Reasons
<1>2. /\ found \in Marks /\ found.kind = "v2" /\ found.target = "real"
      /\ tried \in Marks /\ tried.kind = "v1"
  BY <1>1, MarkType DEF Kinds, Targets
<1>3. {"REVIEW", "AUTO_EPGSHARE", "AUTO_DUMMY", "IGNORE"} \subseteq Actions
      /\ {"real", "dummy", "weak"} \subseteq Targets
  BY DEF Actions, Targets
<1> HIDE DEF found, tried
<1>4. CASE verdict[s] = "real"
  <2>1. Matched(s, row) = DecidedRow(row, found, "AUTO_EPGSHARE", "real", "text")
    BY <1>4 DEF Matched, DecidedRow, found
  <2>3. LET new == DecidedRow(row, found, "AUTO_EPGSHARE", "real", "text") IN
        /\ new \in QueueRows /\ new.name = row.name /\ new.mark = found
        /\ new.action = "AUTO_EPGSHARE" /\ new.target = "real"
    BY <1>1, <1>2, <1>3, DecidedType
  <2> QED
    BY <1>2, <1>4, <2>1, <2>3 DEF Sound
<1>5. CASE verdict[s] = "dummy"
  <2>1. Matched(s, row) = DecidedRow(row, tried, "AUTO_DUMMY", "dummy", "text")
    BY <1>5 DEF Matched, DecidedRow, tried
  <2>3. LET new == DecidedRow(row, tried, "AUTO_DUMMY", "dummy", "text") IN
        /\ new \in QueueRows /\ new.name = row.name /\ new.mark = tried
        /\ new.action = "AUTO_DUMMY" /\ new.target = "dummy"
    BY <1>1, <1>2, <1>3, DecidedType
  <2> QED
    BY <1>2, <1>5, <2>1, <2>3 DEF Sound
<1>6. CASE verdict[s] = "heading"
  <2>1. Matched(s, row) = DecidedRow(row, tried, "IGNORE", "dummy", "text")
    BY <1>6 DEF Matched, DecidedRow, tried
  <2>3. LET new == DecidedRow(row, tried, "IGNORE", "dummy", "text") IN
        /\ new \in QueueRows /\ new.name = row.name /\ new.mark = tried
        /\ new.action = "IGNORE" /\ new.target = "dummy"
    BY <1>1, <1>2, <1>3, DecidedType
  <2> QED
    BY <1>2, <1>6, <2>1, <2>3 DEF Sound
<1>7. CASE verdict[s] = "weak"
  <2>1. Matched(s, row) = DecidedRow(row, tried, "REVIEW", "weak", "text")
    BY <1>7 DEF Matched, DecidedRow, tried
  <2>3. LET new == DecidedRow(row, tried, "REVIEW", "weak", "text") IN
        /\ new \in QueueRows /\ new.name = row.name /\ new.mark = tried
        /\ new.action = "REVIEW" /\ new.target = "weak"
    BY <1>1, <1>2, <1>3, DecidedType
  <2> QED
    BY <1>2, <1>7, <2>1, <2>3 DEF Sound
<1>8. CASE verdict[s] \notin {"real", "dummy", "heading", "weak"}
  <2>1. Matched(s, row) = [Marked(row, tried) EXCEPT !.action = "REVIEW", !.reason = "text"]
    BY <1>8 DEF Matched, tried
  <2>2. [Marked(row, tried) EXCEPT !.action = "REVIEW", !.reason = "text"]
          = DecidedRow(row, tried, "REVIEW", row.target, "text")
    BY <1>2 DEF DecidedRow, Marked, QueueRows
  <2>3. LET new == DecidedRow(row, tried, "REVIEW", row.target, "text") IN
        /\ new \in QueueRows /\ new.name = row.name /\ new.mark = tried
        /\ new.action = "REVIEW" /\ new.target = row.target
    BY <1>1, <1>2, <1>3, DecidedType
  <2> QED
    BY <1>2, <1>8, <2>1, <2>2, <2>3 DEF Sound
<1> QED
  BY <1>4, <1>5, <1>6, <1>7, <1>8

LEMMA MatchedAction ==
    ASSUME NEW s, NEW row \in QueueRows
    PROVE  Matched(s, row).action \in {"REVIEW", "AUTO_EPGSHARE", "AUTO_DUMMY", "IGNORE"}
BY DEF Matched, Marked, QueueRows

\* A local guide gives back what it took the place of.
LEMMA FallbackType ==
    ASSUME NEW original \in QueueRows, NEW patched \in QueueRows, patched.name = original.name
    PROVE  LET new == Fallback(original, patched) IN
           /\ new \in QueueRows /\ Sound(new) /\ new.target = "synthetic"
           /\ original.mark.kind # "fallback" => IsFallback(new) /\ Preimage(new).target = original.target
<1> DEFINE new == Fallback(original, patched)
           mark == Mark("fallback", original.name, original.target)
<1>1. /\ original.name \in ChannelNames /\ original.target \in Targets /\ original.target \in Reasons
      /\ original.mark \in Marks /\ original.mark.kind \in Kinds
  BY DEF QueueRows, Marks, Reasons
<1>2. mark \in Marks /\ mark.kind = "fallback" /\ mark.name = original.name /\ mark.target = original.target
  BY <1>1, MarkType DEF Kinds
<1> HIDE DEF mark
<1>3. new = [patched EXCEPT !.action = "AUTO_DUMMY", !.target = "synthetic", !.reason = original.target,
                            !.mark = mark, !.under = original.mark.kind]
  BY DEF Fallback, mark
<1>4. /\ new \in QueueRows /\ new.action = "AUTO_DUMMY" /\ new.target = "synthetic" /\ new.reason = original.target
      /\ new.mark = mark /\ new.under = original.mark.kind /\ new.name = original.name
  BY <1>1, <1>2, <1>3 DEF QueueRows, Actions, Targets
<1> HIDE DEF new
<1>5. Sound(new)
  BY <1>2, <1>4 DEF Sound
<1>6. ASSUME original.mark.kind # "fallback" PROVE IsFallback(new) /\ Preimage(new).target = original.target
  <2>1. IsFallback(new)
    BY <1>2, <1>4, <1>6 DEF IsFallback
  <2>2. [new EXCEPT !.action = "REVIEW", !.target = new.reason].target = new.reason
    BY <1>4 DEF QueueRows
  <2> QED
    BY <1>4, <2>1, <2>2 DEF Preimage
<1> QED
  BY <1>4, <1>5, <1>6 DEF new

LEMMA NativeType ==
    ASSUME NEW row \in QueueRows, Sound(row)
    PROVE  Native(row) \in QueueRows /\ Sound(Native(row)) /\ Native(row).target = "panel"
BY DEF Native, QueueRows, Sound, Actions, Targets, Reasons

\* Nothing but a found schedule is bound to the machine: no editor's target.
LEMMA BoundTarget ==
    ASSUME NEW row \in QueueRows, Sound(row), BoundToMachine(row)
    PROVE  row.target = "real"
<1>1. row.name \in ChannelNames /\ row.target \in Targets
  BY DEF QueueRows
<1>2. row.mark.kind = "v2" /\ row.mark.target = row.target
  BY <1>1, MarkType DEF BoundToMachine, Kinds
<1> QED
  BY <1>2 DEF Sound

-----------------------------------------------------------------------------
(* What the rows of the Sheet have in common.                                *)

\* No row carries an approval of anything but a schedule that was found.
SheetSound == \A s \in Streams : sheet[s] # NoRow => Sound(sheet[s])

\* The marks are what tells a machine's target from an editor's.
ReviewIInv == QueueTypeOK /\ FallbackRestores /\ SheetSound

\* A local guide gives back what it took the place of, unless that was one too.
Restorable(old, new) ==
    (new.target = "synthetic" /\ old.mark.kind # "fallback")
        => IsFallback(new) /\ Preimage(new).target = old.target

LEMMA PresentRow ==
    ASSUME QueueTypeOK, SheetSound, NEW s \in Present
    PROVE  s \in Streams /\ sheet[s] # NoRow /\ sheet[s] \in QueueRows /\ Sound(sheet[s])
BY DEF QueueTypeOK, SheetSound, Present

LEMMA NewRowType ==
    ASSUME QueueTypeOK, NEW s \in NewStreams
    PROVE  /\ s \in Streams /\ NewRow(s) \in QueueRows /\ Sound(NewRow(s))
           /\ NewRow(s).action = "REVIEW" /\ NewRow(s).target \in {"none", "panel"}
<1> DEFINE mark == Mark("found", lineup[s], "none")
           target == IF NativeOf(s) THEN "panel" ELSE "none"
<1>1. s \in Streams /\ lineup[s] \in ChannelNames
  BY DEF QueueTypeOK, NewStreams
<1>2. mark \in Marks /\ mark.kind = "found"
  BY <1>1, MarkType DEF Kinds, Targets
<1>3. target \in {"none", "panel"} /\ target \in Targets
  BY DEF Targets
<1> HIDE DEF mark, target
<1>4. NewRow(s) = [name |-> lineup[s], action |-> "REVIEW", reason |-> "text", target |-> target,
                   mark |-> mark, under |-> "found"]
  BY DEF NewRow, mark, target
<1> QED
  BY <1>1, <1>2, <1>3, <1>4 DEF QueueRows, Sound, Actions, Reasons, Kinds

LEMMA InTurnPart ==
    ASSUME NEW n, NEW keys, NEW rotation
    PROVE  InTurn(n, keys, rotation) \subseteq keys
BY DEF InTurn

LEMMA FallbacksPart == Fallbacks \subseteq {s \in Streams : Recheckable(s)}
<1> DEFINE leading == Leading(ApplyLimit)
           open == {s \in Streams :
                      /\ Recheckable(s) /\ s \notin leading
                      /\ \/ FallbackClass(s, sheet[s], Result(s)) = "open"
                         \/ FallbackClass(s, sheet[s], Result(s)) = "protected_native" /\ s \in Admitted}
<1>1. PICK n : Fallbacks = InTurn(n, open, day)
  BY DEF Fallbacks
<1>2. Fallbacks \subseteq open
  <2> HIDE DEF open
  <2> QED
    BY <1>1, InTurnPart
<1> QED
  BY <1>2

\* A run changes only rows it took up, each on one of five lanes.
LEMMA UpdateLanes ==
    ASSUME NEW n
    PROVE  ReviewUpdates(n) \subseteq Real \cup NativeVerified \cup Placeholders \cup Fallbacks \cup Headings
<1>1. \A m : Leading(m) \subseteq Real \cup NativeVerified
  BY InTurnPart DEF Leading
<1> DEFINE synthetic == (Placeholders \cup Fallbacks) \ Leading(ApplyLimit)
           left == Minus(n, Cardinality(Real \cup NativeVerified))
           rest == Minus(left, Cardinality(synthetic))
<1>2. ReviewUpdates(n) = Leading(n) \cup InTurn(left, synthetic, 0) \cup InTurn(rest, Headings, 0)
  BY DEF ReviewUpdates
<1>3. synthetic \subseteq Placeholders \cup Fallbacks
  OBVIOUS
<1> HIDE DEF synthetic, left, rest
<1>4. InTurn(left, synthetic, 0) \subseteq synthetic /\ InTurn(rest, Headings, 0) \subseteq Headings
  BY InTurnPart
<1> QED
  BY <1>1, <1>2, <1>3, <1>4

LEMMA AdditionsPart ==
    ASSUME NEW n
    PROVE  Additions(n) \subseteq NewStreams
BY DEF Additions

-----------------------------------------------------------------------------
(* What a run writes.                                                        *)

\* A new channel's row.
LEMMA AppendedRow ==
    ASSUME QueueTypeOK, NEW s \in NewStreams
    PROVE  /\ Appended[s] \in QueueRows /\ Sound(Appended[s])
           /\ Restorable(NewRow(s), Appended[s])
<1> DEFINE row == NewRow(s)
           result == NewResult(s)
           waiting == [result EXCEPT !.action = "REVIEW", !.reason = "deferred"]
<1>1. row \in QueueRows /\ Sound(row) /\ row.target \in {"none", "panel"}
  BY NewRowType
<1>2. /\ result \in QueueRows /\ result.name = row.name /\ Sound(result)
      /\ result.target \in {"real", "dummy", "weak", row.target}
  BY <1>1, MatchedType DEF NewResult
<1>3. Appended[s] = IF s \in NewFallbacks THEN Fallback(row, result)
                    ELSE IF s \in Deferred THEN waiting ELSE result
  BY DEF Appended
<1> HIDE DEF row, result
<1>4. waiting \in QueueRows /\ waiting.target = result.target /\ Sound(waiting)
  BY <1>2 DEF QueueRows, Sound, Actions, Reasons
<1> HIDE DEF waiting
<1>5. CASE s \in NewFallbacks
  BY <1>1, <1>2, <1>3, <1>5, FallbackType DEF Restorable, row
<1>6. CASE s \notin NewFallbacks
  <2>1. Appended[s] \in {waiting, result}
    BY <1>3, <1>6
  <2>2. /\ Appended[s] \in QueueRows /\ Sound(Appended[s])
        /\ Appended[s].target \in {"real", "dummy", "weak", "none", "panel"}
    BY <1>1, <1>2, <1>4, <2>1
  <2> QED
    BY <2>2 DEF Restorable
<1> QED
  BY <1>5, <1>6

\* A row of the Sheet: one an editor has no say in.
LEMMA ReviewedRow ==
    ASSUME QueueTypeOK, SheetSound, NEW n, NEW s \in ReviewUpdates(n)
    PROVE  /\ s \in Taken /\ s \in Present
           /\ Reviewed[s] \in QueueRows /\ Sound(Reviewed[s])
           /\ Restorable(sheet[s], Reviewed[s])
           /\ IsFallback(sheet[s]) => Reviewed[s].target \in {"real", "panel"}
<1> DEFINE row == sheet[s]
           result == Result(s)
<1>1. s \in Real \cup NativeVerified \cup Placeholders \cup Fallbacks \cup Headings
  BY UpdateLanes
<1>2. s \in Streams /\ (Recheckable(s) \/ Upgradable(s))
  BY <1>1, FallbacksPart DEF Real, Taken, NativeVerified, NativeCandidate, Placeholders, Headings
<1>3. s \in Taken /\ s \in Present
  BY <1>2 DEF Taken, Recheckable, Upgradable, Available
<1>4. row \in QueueRows /\ Sound(row)
  BY <1>3, PresentRow
<1>5. Recheckable(s) => row.action = "REVIEW" /\ row.target \in {"none", "real", "panel"}
  BY <1>4, BoundTarget DEF Recheckable
<1>6. IsFallback(row) => ~Recheckable(s)
  BY <1>5 DEF IsFallback
<1>7. /\ Matched(s, row) \in QueueRows /\ Matched(s, row).name = row.name /\ Sound(Matched(s, row))
      /\ Matched(s, row).action = "AUTO_EPGSHARE" => Matched(s, row).target = "real"
      /\ Matched(s, row).target \in {"real", "dummy", "weak", row.target}
  BY <1>4, MatchedType
<1>8. Recheckable(s) => result = Matched(s, row)
  BY <1>6 DEF Result, Upgradable
<1>9. s \in Real => result = Matched(s, row) /\ result.action = "AUTO_EPGSHARE"
  BY DEF Real, Result, Upgradable, IsFallback
<1>10. Reviewed[s] = IF s \in NativeVerified THEN Native(row)
                     ELSE IF s \in Fallbacks THEN Fallback(row, result) ELSE result
  BY <1>3 DEF Reviewed
<1> HIDE DEF row, result
<1>11. CASE s \in NativeVerified
  BY <1>3, <1>4, <1>10, <1>11, NativeType DEF Restorable, row
<1>12. CASE s \notin NativeVerified /\ s \in Fallbacks
  <2>1. Recheckable(s)
    BY <1>12, FallbacksPart
  <2>2. result \in QueueRows /\ result.name = row.name
    BY <1>7, <1>8, <2>1
  <2>3. Reviewed[s] = Fallback(row, result)
    BY <1>10, <1>12
  <2> QED
    BY <1>3, <1>4, <1>6, <2>1, <2>2, <2>3, FallbackType DEF Restorable, row
<1>13. CASE s \notin NativeVerified /\ s \notin Fallbacks
  <2>1. Reviewed[s] = result
    BY <1>10, <1>13
  <2>2. CASE s \in Real
    <3>1. Reviewed[s] \in QueueRows /\ Sound(Reviewed[s]) /\ Reviewed[s].target = "real"
      BY <1>7, <1>9, <2>1, <2>2
    <3> QED
      BY <1>3, <3>1 DEF Restorable
  <2>3. CASE s \notin Real
    <3>1. Recheckable(s)
      BY <1>1, <1>13, <2>3 DEF Placeholders, Headings
    <3>2. /\ Reviewed[s] \in QueueRows /\ Sound(Reviewed[s])
          /\ Reviewed[s].target \in {"real", "dummy", "weak", "none", "panel"}
      BY <1>5, <1>7, <1>8, <2>1, <3>1
    <3> QED
      BY <1>3, <1>6, <3>1, <3>2 DEF Restorable, row
  <2> QED
    BY <2>2, <2>3
<1> QED
  BY <1>11, <1>12, <1>13

\* Whatever a run comes to write.
LEMMA WrittenRows ==
    ASSUME ReviewIInv, NEW n, NEW written, written \subseteq NewStreams \cup ReviewUpdates(n), Written(written)
    PROVE  /\ sheet' \in [Streams -> QueueRows \cup {NoRow}] /\ undo' \in [Streams -> QueueRows \cup {NoRow}]
           /\ Present \subseteq Present' /\ edited' \subseteq Present'
           /\ FallbackRestores' /\ SheetSound'
<1> DEFINE after(s) == IF s \in NewStreams THEN Appended[s] ELSE Reviewed[s]
           before(s) == IF sheet[s] = NoRow THEN NewRow(s) ELSE sheet[s]
<1> USE DEF ReviewIInv
<1>1. \A s \in NewStreams : s \in Streams /\ sheet[s] = NoRow
  BY DEF NewStreams
<1>2. \A s \in Present : s \in Streams /\ sheet[s] # NoRow
  BY DEF Present
<1>3. \A s \in written : /\ s \in Streams
                         /\ after(s) \in QueueRows /\ Sound(after(s)) /\ Restorable(before(s), after(s))
                         /\ before(s) \in QueueRows
  <2> SUFFICES ASSUME NEW s \in written
               PROVE  /\ s \in Streams
                      /\ after(s) \in QueueRows /\ Sound(after(s)) /\ Restorable(before(s), after(s))
                      /\ before(s) \in QueueRows
    OBVIOUS
  <2>1. CASE s \in NewStreams
    BY <1>1, <2>1, AppendedRow, NewRowType
  <2>2. CASE s \notin NewStreams
    BY <1>2, <2>2, ReviewedRow, PresentRow
  <2> QED
    BY <2>1, <2>2
<1>4. /\ sheet' = [s \in Streams |-> IF s \in written THEN after(s) ELSE sheet[s]]
      /\ edited' = edited \ written
      /\ undo' = [s \in Streams |->
                    IF s \notin written THEN undo[s]
                    ELSE IF after(s).target # "synthetic" THEN NoRow ELSE before(s)]
  BY DEF Written
<1> HIDE DEF after, before
<1>5. sheet' \in [Streams -> QueueRows \cup {NoRow}] /\ undo' \in [Streams -> QueueRows \cup {NoRow}]
  BY <1>3, <1>4 DEF QueueTypeOK
<1>6. \A s \in written : sheet'[s] # NoRow
  BY <1>3, <1>4, NoRowAssumption
<1>7. Present \subseteq Present' /\ edited' \subseteq Present'
  BY <1>4, <1>6 DEF QueueTypeOK, Present
<1>8. FallbackRestores'
  <2> SUFFICES ASSUME NEW s \in Streams, undo'[s] # NoRow, undo'[s].mark.kind # "fallback"
               PROVE  IsFallback(sheet'[s]) /\ Preimage(sheet'[s]).target = undo'[s].target
    BY DEF FallbackRestores, IsFallback, Preimage
  <2>1. CASE s \in written
    <3>1. sheet'[s] = after(s) /\ after(s).target = "synthetic" /\ undo'[s] = before(s)
      BY <1>4, <2>1
    <3> QED
      BY <1>3, <2>1, <3>1 DEF Restorable
  <2>2. CASE s \notin written
    BY <1>4, <2>2 DEF FallbackRestores
  <2> QED
    BY <2>1, <2>2
<1>9. SheetSound'
  <2> SUFFICES ASSUME NEW s \in Streams, sheet'[s] # NoRow
               PROVE  Sound(sheet'[s])
    BY DEF SheetSound, Sound
  <2> QED
    BY <1>3, <1>4 DEF SheetSound
<1> QED
  BY <1>5, <1>7, <1>8, <1>9

\* Nothing else gives a row a mark or a target of the machine.
LEMMA EditedRows ==
    ASSUME ReviewIInv, NEW s \in Present, NEW row \in QueueRows, row.mark = sheet[s].mark, EditorWrites(s, row)
    PROVE  /\ sheet' \in [Streams -> QueueRows \cup {NoRow}] /\ undo' \in [Streams -> QueueRows \cup {NoRow}]
           /\ Present' = Present /\ edited' \subseteq Present'
           /\ FallbackRestores' /\ SheetSound'
<1> USE DEF ReviewIInv
<1>1. s \in Streams /\ sheet[s] # NoRow /\ Sound(sheet[s])
  BY PresentRow
<1>2. /\ sheet' = [sheet EXCEPT ![s] = row] /\ undo' = [undo EXCEPT ![s] = NoRow] /\ edited' = edited \cup {s}
  BY DEF EditorWrites
<1>3. \A t \in Streams : /\ sheet'[t] = IF t = s THEN row ELSE sheet[t]
                         /\ undo'[t] = IF t = s THEN NoRow ELSE undo[t]
  BY <1>2 DEF QueueTypeOK
<1>4. sheet' \in [Streams -> QueueRows \cup {NoRow}] /\ undo' \in [Streams -> QueueRows \cup {NoRow}]
  BY <1>2 DEF QueueTypeOK
<1>5. Present' = Present /\ edited' \subseteq Present'
  BY <1>1, <1>2, <1>3, NoRowAssumption DEF QueueTypeOK, Present
<1>6. Sound(row)
  BY <1>1 DEF Sound
<1>7. SheetSound'
  <2> SUFFICES ASSUME NEW t \in Streams, sheet'[t] # NoRow
               PROVE  Sound(sheet'[t])
    BY DEF SheetSound, Sound
  <2> QED
    BY <1>3, <1>6 DEF SheetSound
<1>8. FallbackRestores'
  <2> SUFFICES ASSUME NEW t \in Streams, undo'[t] # NoRow, undo'[t].mark.kind # "fallback"
               PROVE  IsFallback(sheet'[t]) /\ Preimage(sheet'[t]).target = undo'[t].target
    BY DEF FallbackRestores, IsFallback, Preimage
  <2> QED
    BY <1>3 DEF FallbackRestores
<1> QED
  BY <1>4, <1>5, <1>7, <1>8

LEMMA EditorRow ==
    ASSUME NEW row \in QueueRows, NEW action \in Actions, NEW target \in Targets, NEW name \in ChannelNames
    PROVE  /\ [row EXCEPT !.action = action] \in QueueRows /\ [row EXCEPT !.action = action].mark = row.mark
           /\ [row EXCEPT !.target = target] \in QueueRows /\ [row EXCEPT !.target = target].mark = row.mark
           /\ [row EXCEPT !.name = name] \in QueueRows /\ [row EXCEPT !.name = name].mark = row.mark
           /\ [row EXCEPT !.action = action, !.target = target] \in QueueRows
           /\ [row EXCEPT !.action = action, !.target = target].mark = row.mark
BY DEF QueueRows

-----------------------------------------------------------------------------
(* The invariant.                                                            *)

LEMMA ReviewInitial == QueueInit => ReviewIInv
<1> SUFFICES ASSUME QueueInit
             PROVE  ReviewIInv
  OBVIOUS
<1> USE DEF QueueInit
<1>1. lineup \in [Streams -> ChannelNames \cup {Gone}] /\ \A s \in Streams : lineup[s] \in ChannelNames
  BY DEF ChannelNames
<1>2. \A s \in Streams : Legacy(s) \in QueueRows /\ Sound(Legacy(s))
  <2> SUFFICES ASSUME NEW s \in Streams
               PROVE  Legacy(s) \in QueueRows /\ Sound(Legacy(s))
    OBVIOUS
  <2> DEFINE mark == Mark("legacy", lineup[s], "none")
  <2>1. mark \in Marks /\ mark.kind = "legacy"
    BY <1>1, MarkType DEF Kinds, Targets
  <2> HIDE DEF mark
  <2>2. Legacy(s) = [name |-> lineup[s], action |-> "REVIEW", target |-> "panel", reason |-> "legacy",
                     mark |-> mark, under |-> "legacy"]
    BY DEF Legacy, mark
  <2> QED
    BY <1>1, <2>1, <2>2 DEF QueueRows, Sound, Actions, Targets, Reasons, Kinds
<1>3. /\ sheet \in [Streams -> {NoRow} \cup {Legacy(s) : s \in Streams}]
      /\ \A s \in Streams : sheet[s] = NoRow \/ sheet[s] = Legacy(s)
  OBVIOUS
<1>4. sheet \in [Streams -> QueueRows \cup {NoRow}]
  BY <1>2, <1>3
<1>5. undo \in [Streams -> QueueRows \cup {NoRow}] /\ FallbackRestores
  BY DEF FallbackRestores
<1>6. SheetSound
  BY <1>2, <1>3 DEF SheetSound
<1>7. guide \in [Streams -> Answers]
  OBVIOUS
<1>8. day \in 0 .. Cycle - 1 /\ upsets \in 0 .. MaxUpsets
  BY ReviewQueueAssumption
<1> QED
  BY <1>1, <1>4, <1>5, <1>6, <1>7, <1>8 DEF ReviewIInv, QueueTypeOK

LEMMA ReviewStep == ReviewIInv /\ [QueueNext]_queueVars => ReviewIInv'
<1> SUFFICES ASSUME ReviewIInv, [QueueNext]_queueVars
             PROVE  ReviewIInv'
  OBVIOUS
<1>1. ASSUME UNCHANGED sheet, UNCHANGED undo
      PROVE  FallbackRestores' /\ SheetSound' /\ Present' = Present
  BY <1>1 DEF ReviewIInv, FallbackRestores, SheetSound, Present, IsFallback, Preimage, Sound
<1>2. DayPasses => day' \in 0 .. Cycle - 1
  BY ReviewQueueAssumption DEF DayPasses, ReviewIInv, QueueTypeOK
<1>3. Upset => upsets' \in 0 .. MaxUpsets
  BY ReviewQueueAssumption DEF Upset, ReviewIInv, QueueTypeOK
<1>4. CASE Run
  <2>1. day' \in 0 .. Cycle - 1 /\ UNCHANGED <<server, lineup, verdict, guide, upsets>>
    BY <1>2, <1>4 DEF Run, world
  <2>2. CASE Aborts
    <3>1. UNCHANGED <<sheet, openAlerts, edited, undo>>
      BY <1>4, <2>2 DEF Run
    <3> QED
      BY <1>1, <2>1, <3>1 DEF ReviewIInv, QueueTypeOK
  <2>3. CASE ~Aborts
    <3>1. Written(NewStreams \cup ReviewUpdates(ApplyLimit)) /\ openAlerts' = openAlerts \cup Changed
      BY <1>4, <2>3 DEF Run
    <3>2. /\ sheet' \in [Streams -> QueueRows \cup {NoRow}] /\ undo' \in [Streams -> QueueRows \cup {NoRow}]
          /\ Present \subseteq Present' /\ edited' \subseteq Present'
          /\ FallbackRestores' /\ SheetSound'
      BY <3>1, WrittenRows
    <3>3. openAlerts' \subseteq Present'
      BY <3>1, <3>2 DEF ReviewIInv, QueueTypeOK, Changed
    <3> QED
      BY <2>1, <3>2, <3>3 DEF ReviewIInv, QueueTypeOK
  <2> QED
    BY <2>2, <2>3
<1>5. CASE FailedRun
  <2>1. /\ day' \in 0 .. Cycle - 1 /\ upsets' \in 0 .. MaxUpsets
        /\ UNCHANGED <<server, lineup, verdict, guide>>
        /\ openAlerts' \subseteq openAlerts \cup Changed
    BY <1>2, <1>3, <1>5 DEF FailedRun, world
  <2>2. PICK n \in 0 .. Cardinality(NewStreams) + ApplyLimit :
           Written(Additions(n) \cup ReviewUpdates(Minus(n, Cardinality(NewStreams))))
    BY <1>5 DEF FailedRun
  <2>3. /\ sheet' \in [Streams -> QueueRows \cup {NoRow}] /\ undo' \in [Streams -> QueueRows \cup {NoRow}]
        /\ Present \subseteq Present' /\ edited' \subseteq Present'
        /\ FallbackRestores' /\ SheetSound'
    BY <2>2, AdditionsPart, WrittenRows
  <2>4. openAlerts' \subseteq Present'
    BY <2>1, <2>3 DEF ReviewIInv, QueueTypeOK, Changed
  <2> QED
    BY <2>1, <2>3, <2>4 DEF ReviewIInv, QueueTypeOK
<1>6. ASSUME NEW s \in Present, Return(s) \/ Clear(s) \/ Choose(s) \/ Retarget(s) \/ Accept(s)
      PROVE  ReviewIInv'
  <2>1. s \in Streams /\ sheet[s] \in QueueRows
    BY PresentRow DEF ReviewIInv
  <2>2. PICK row \in QueueRows : row.mark = sheet[s].mark /\ EditorWrites(s, row)
    <3>1. CASE Return(s)
      BY <2>1, <3>1, EditorRow DEF Return, Actions, Targets, ChannelNames
    <3>2. CASE Clear(s)
      BY <2>1, <3>2, EditorRow DEF Clear, Actions, Targets, ChannelNames
    <3>3. CASE Choose(s)
      BY <2>1, <3>3, EditorRow DEF Choose, Actions, Targets, ChannelNames
    <3>4. CASE Retarget(s)
      BY <2>1, <3>4, EditorRow DEF Retarget, Actions, Targets, ChannelNames
    <3>5. CASE Accept(s)
      <4>1. lineup[s] \in ChannelNames
        BY <2>1, <3>5 DEF Accept, ReviewIInv, QueueTypeOK
      <4> QED
        BY <2>1, <3>5, <4>1, EditorRow DEF Accept, Actions, Targets
    <3> QED
      BY <1>6, <3>1, <3>2, <3>3, <3>4, <3>5
  <2>3. /\ sheet' \in [Streams -> QueueRows \cup {NoRow}] /\ undo' \in [Streams -> QueueRows \cup {NoRow}]
        /\ Present' = Present /\ edited' \subseteq Present'
        /\ FallbackRestores' /\ SheetSound'
    BY <2>2, EditedRows
  <2>4. upsets' \in 0 .. MaxUpsets /\ UNCHANGED <<server, lineup, verdict, guide, day>>
    BY <1>3, <2>2 DEF EditorWrites, world
  <2>5. openAlerts' \subseteq openAlerts
    BY <1>6 DEF Return, Clear, Choose, Retarget, Accept
  <2> QED
    BY <2>3, <2>4, <2>5 DEF ReviewIInv, QueueTypeOK
<1>7. ASSUME NEW s \in Present, Dismiss(s)
      PROVE  ReviewIInv'
  <2>1. /\ upsets' \in 0 .. MaxUpsets /\ openAlerts' \subseteq openAlerts
        /\ UNCHANGED <<server, lineup, verdict, guide, sheet, day, edited, undo>>
    BY <1>3, <1>7 DEF Dismiss, world
  <2> QED
    BY <1>1, <2>1 DEF ReviewIInv, QueueTypeOK
<1>8. ASSUME NEW s \in Streams, Shift(s)
      PROVE  ReviewIInv'
  <2>1. upsets' \in 0 .. MaxUpsets /\ UNCHANGED <<server, sheet, openAlerts, day, edited, undo>>
    BY <1>3, <1>8 DEF Shift
  <2>2. /\ lineup' \in [Streams -> ChannelNames \cup {Gone}]
        /\ verdict' \in [Streams -> Verdicts] /\ guide' \in [Streams -> Answers]
    BY <1>8 DEF Shift, ReviewIInv, QueueTypeOK
  <2> QED
    BY <1>1, <2>1, <2>2 DEF ReviewIInv, QueueTypeOK
<1>9. CASE UNCHANGED queueVars
  <2>1. UNCHANGED <<server, sheet, openAlerts, lineup, verdict, guide, day, edited, undo, upsets>>
    BY <1>9 DEF queueVars
  <2> QED
    BY <1>1, <2>1 DEF ReviewIInv, QueueTypeOK
<1> QED
  BY <1>4, <1>5, <1>6, <1>7, <1>8, <1>9 DEF QueueNext

\* A target that a local guide replaced is never lost: as long as nobody wrote
\* the row since, whatever renames, runs, failed runs and edits of other rows
\* follow, the row is known for a local guide and gives that target back.
THEOREM ReplacedTargetsAreRestored == QueueSpec => []ReviewInv
<1>1. ReviewIInv => ReviewInv
  BY DEF ReviewIInv, ReviewInv
<1> QED
  BY <1>1, ReviewInitial, ReviewStep, PTL DEF QueueSpec

-----------------------------------------------------------------------------
(* Runs and editors.                                                         *)

\* A run takes nothing out of an editor's hands.
LEMMA RespectedRow ==
    ASSUME QueueTypeOK, SheetSound, NEW s \in Taken
    PROVE  /\ s \notin openAlerts /\ sheet[s].name = lineup[s] /\ sheet[s].target # "manual"
           /\ sheet[s].action = "REVIEW" \/ IsFallback(sheet[s])
<1>1. Recheckable(s) \/ Upgradable(s)
  BY DEF Taken
<1>2. s \in Present /\ s \notin Blocked /\ lineup[s] # Gone
  BY <1>1 DEF Recheckable, Upgradable, Available
<1>3. sheet[s] \in QueueRows /\ Sound(sheet[s])
  BY <1>2, PresentRow
<1>4. s \notin openAlerts /\ sheet[s].name = lineup[s]
  BY <1>2 DEF Blocked, Changed
<1>5. CASE Recheckable(s)
  BY <1>3, <1>4, <1>5, BoundTarget DEF Recheckable
<1>6. CASE Upgradable(s)
  BY <1>4, <1>6 DEF Upgradable, IsFallback
<1> QED
  BY <1>1, <1>5, <1>6

LEMMA RespectedWrites ==
    ASSUME ReviewIInv, NEW n, NEW written, written \subseteq NewStreams \cup ReviewUpdates(n), Written(written),
           NEW s \in Present, sheet'[s] # sheet[s]
    PROVE  /\ s \notin openAlerts /\ sheet[s].name = lineup[s]
           /\ sheet[s].target # "manual"
           /\ \/ sheet[s].action = "REVIEW"
              \/ IsFallback(sheet[s]) /\ sheet'[s].target \in {"real", "panel"}
<1> DEFINE after(t) == IF t \in NewStreams THEN Appended[t] ELSE Reviewed[t]
<1> USE DEF ReviewIInv
<1>1. s \in Streams /\ s \notin NewStreams
  BY DEF Present, NewStreams
<1>2. sheet' = [t \in Streams |-> IF t \in written THEN after(t) ELSE sheet[t]]
  BY DEF Written
<1>3. s \in ReviewUpdates(n) /\ sheet'[s] = Reviewed[s]
  BY <1>1, <1>2
<1>4. s \in Taken /\ (IsFallback(sheet[s]) => sheet'[s].target \in {"real", "panel"})
  BY <1>3, ReviewedRow
<1> QED
  BY <1>4, RespectedRow

\* An automatic run never overwrites a decision of an editor, a row whose
\* channel has another name now, or one with an open alert; and it takes back a
\* local guide only for a schedule or the provider's own guide.
THEOREM EditorsDecisionsStand == QueueSpec => RunsRespectEditors
<1>1. ReviewIInv /\ [QueueNext]_queueVars =>
        (day' # day =>
           \A s \in Present : sheet'[s] # sheet[s] =>
             /\ s \notin openAlerts /\ sheet[s].name = lineup[s]
             /\ sheet[s].target # "manual"
             /\ \/ sheet[s].action = "REVIEW"
                \/ IsFallback(sheet[s]) /\ sheet'[s].target \in {"real", "panel"})
  <2> SUFFICES ASSUME ReviewIInv, [QueueNext]_queueVars, day' # day,
                      NEW s \in Present, sheet'[s] # sheet[s]
               PROVE  /\ s \notin openAlerts /\ sheet[s].name = lineup[s]
                      /\ sheet[s].target # "manual"
                      /\ \/ sheet[s].action = "REVIEW"
                         \/ IsFallback(sheet[s]) /\ sheet'[s].target \in {"real", "panel"}
    OBVIOUS
  <2>1. Run \/ FailedRun
    BY DEF QueueNext, queueVars, Return, Clear, Choose, Retarget, Accept, Dismiss, Shift, EditorWrites
  <2>2. PICK n, written : written \subseteq NewStreams \cup ReviewUpdates(n) /\ Written(written)
    <3>1. CASE Run
      <4>1. ~Aborts
        BY <3>1 DEF Run
      <4> QED
        BY <3>1, <4>1 DEF Run
    <3>2. CASE FailedRun
      BY <3>2, AdditionsPart DEF FailedRun
    <3> QED
      BY <2>1, <3>1, <3>2
  <2> QED
    BY <2>2, RespectedWrites
<1> QED
  BY <1>1, ReviewInitial, ReviewStep, PTL DEF QueueSpec, RunsRespectEditors

-----------------------------------------------------------------------------
(* Turns: no two streams share one, and of those that wait one is first.     *)

LEMMA SmallMultiple ==
    ASSUME NEW k \in Nat \ {0}, NEW q \in Int, NEW d \in Int, d = k * q, d < k, -k < d
    PROVE  d = 0
<1>1. CASE q >= 1
  <2>1. k * q >= k
    BY <1>1, SMT
  <2> QED BY <2>1
<1>2. CASE q <= -1
  <2>1. k * q <= -k
    BY <1>2, SMT
  <2> QED BY <2>1
<1>3. CASE q = 0
  BY <1>3
<1> QED BY <1>1, <1>2, <1>3

LEMMA Division ==
    ASSUME NEW k \in Nat \ {0}, NEW n \in Int
    PROVE  n = k * (n \div k) + (n % k)
OBVIOUS

LEMMA SameRemainder ==
    ASSUME NEW k \in Nat \ {0}, NEW a \in 0 .. k - 1, NEW b \in 0 .. k - 1, NEW c \in Int,
           (a - c) % k = (b - c) % k
    PROVE  a = b
<1> DEFINE m == a - c
           n == b - c
           x == m \div k
           y == n \div k
           r == m % k
<1>1. m \in Int /\ n \in Int /\ m - n = a - b
  OBVIOUS
<1>2. r = n % k
  OBVIOUS
<1> HIDE DEF m, n
<1>3. m = k * x + r /\ n = k * y + r
  BY <1>1, <1>2, Division
<1>4. x \in Int /\ y \in Int /\ r \in Int
  BY <1>1
<1> HIDE DEF x, y, r
<1>5. m - n = k * (x - y)
  BY <1>1, <1>3, <1>4
<1> DEFINE d == a - b
           q == x - y
<1>6. d \in Int /\ q \in Int /\ d < k /\ -k < d /\ d = k * q
  BY <1>1, <1>4, <1>5
<1> HIDE DEF q
<1>7. d = 0
  <2> HIDE DEF d
  <2> QED
    BY <1>6, SmallMultiple
<1> QED
  BY <1>7

LEMMA LeastNumber ==
    ASSUME NEW T \in SUBSET Nat, T # {}
    PROVE  \E x \in T : \A y \in T : x <= y
<1> DEFINE R == OpToRel(<, Nat)
<1>1. PICK x \in T : \A y \in T : <<y, x>> \notin R
  <2>1. IsWellFoundedOn(R, Nat)
    BY NatLessThanWellFounded
  <2> HIDE DEF R
  <2> QED
    BY <2>1, WFMin
<1>2. \A y \in T : ~(y < x)
  <2> SUFFICES ASSUME NEW y \in T, y < x PROVE FALSE
    OBVIOUS
  <2>1. <<y, x>> \in R
    BY DEF OpToRel
  <2> QED
    BY <1>1, <2>1
<1> QED
  BY <1>2

ServersOf(keys) == {server[s] : s \in keys}
SameServer(keys, s) == {t \in keys : server[t] = server[s]}
Place(keys, rotation, s) ==
    (Rank(SameServer(keys, s), s) - rotation \div Cardinality(ServersOf(keys)))
      % Cardinality(SameServer(keys, s))
Turn(keys, rotation, s) == (Rank(ServersOf(keys), server[s]) - rotation) % Cardinality(ServersOf(keys))
Sooner(keys, rotation, s, t) ==
    \/ Place(keys, rotation, s) < Place(keys, rotation, t)
    \/ Place(keys, rotation, s) = Place(keys, rotation, t) /\ Turn(keys, rotation, s) < Turn(keys, rotation, t)
Before(keys, rotation, s) == {t \in keys : Sooner(keys, rotation, t, s)}

LEMMA InTurnBefore ==
    ASSUME NEW n, NEW keys, NEW rotation
    PROVE  InTurn(n, keys, rotation) = {s \in keys : Cardinality(Before(keys, rotation, s)) < n}
<1> DEFINE place == [s \in keys |-> Place(keys, rotation, s)]
           turn == [s \in keys |-> Turn(keys, rotation, s)]
           before(s) == {t \in keys : place[t] < place[s] \/ (place[t] = place[s] /\ turn[t] < turn[s])}
<1>1. InTurn(n, keys, rotation) = {s \in keys : Cardinality(before(s)) < n}
  BY DEF InTurn, Place, Turn, Rank, SameServer, ServersOf
<1>2. \A s \in keys : before(s) = Before(keys, rotation, s)
  BY DEF Before, Sooner
<1> HIDE DEF before
<1> QED
  BY <1>1, <1>2

\* Each server's streams, and the servers, are numbered from 0.
LEMMA TurnRanks ==
    ASSUME QueueTypeOK, NEW keys \in SUBSET Streams, NEW s \in keys
    PROVE  /\ SameServer(keys, s) \in SUBSET Nat /\ IsFiniteSet(SameServer(keys, s)) /\ s \in SameServer(keys, s)
           /\ ServersOf(keys) \in SUBSET Nat /\ IsFiniteSet(ServersOf(keys)) /\ server[s] \in ServersOf(keys)
           /\ Cardinality(SameServer(keys, s)) \in Nat \ {0} /\ Cardinality(ServersOf(keys)) \in Nat \ {0}
           /\ Rank(SameServer(keys, s), s) \in 0 .. Cardinality(SameServer(keys, s)) - 1
           /\ Rank(ServersOf(keys), server[s]) \in 0 .. Cardinality(ServersOf(keys)) - 1
<1>1. SameServer(keys, s) \in SUBSET Streams /\ Streams \in SUBSET Nat /\ IsFiniteSet(Streams)
  BY ReviewQueueAssumption DEF SameServer
<1>2. ServersOf(keys) \in SUBSET (1 .. 3)
  BY ReviewQueueAssumption DEF QueueTypeOK, ServersOf
<1>3. IsFiniteSet(1 .. 3)
  BY FS_Interval, 1 \in Int, 3 \in Int
<1>4. IsFiniteSet(SameServer(keys, s)) /\ IsFiniteSet(ServersOf(keys))
  BY <1>1, <1>2, <1>3, FS_Subset
<1>5. s \in SameServer(keys, s) /\ server[s] \in ServersOf(keys)
  BY DEF SameServer, ServersOf
<1>6. SameServer(keys, s) \in SUBSET Nat /\ ServersOf(keys) \in SUBSET Nat
  <2>1. SameServer(keys, s) \in SUBSET Nat
    BY <1>1, Zenon
  <2>2. 1 .. 3 \in SUBSET Nat
    OBVIOUS
  <2>3. ServersOf(keys) \in SUBSET Nat
    BY <1>2, <2>2, Zenon
  <2> QED
    BY <2>1, <2>3
<1>7. \A K : (IsFiniteSet(K) /\ K # {}) => Cardinality(K) \in Nat \ {0}
  BY FS_CardinalityType, FS_EmptySet
<1>8. Cardinality(SameServer(keys, s)) \in Nat \ {0} /\ Cardinality(ServersOf(keys)) \in Nat \ {0}
  BY <1>4, <1>5, <1>7
<1>9. /\ Rank(SameServer(keys, s), s) \in Nat /\ Rank(ServersOf(keys), server[s]) \in Nat
      /\ Rank(SameServer(keys, s), s) < Cardinality(SameServer(keys, s))
      /\ Rank(ServersOf(keys), server[s]) < Cardinality(ServersOf(keys))
  BY <1>4, <1>5, <1>6, RankType
<1> QED
  BY <1>4, <1>5, <1>6, <1>8, <1>9

LEMMA TurnType ==
    ASSUME QueueTypeOK, NEW keys \in SUBSET Streams, NEW s \in keys, NEW rotation \in Nat
    PROVE  Place(keys, rotation, s) \in Nat /\ Turn(keys, rotation, s) \in Nat
<1> DEFINE a == Rank(SameServer(keys, s), s)
           b == Rank(ServersOf(keys), server[s])
           k == Cardinality(ServersOf(keys))
           m == Cardinality(SameServer(keys, s))
<1>1. Place(keys, rotation, s) = (a - rotation \div k) % m /\ Turn(keys, rotation, s) = (b - rotation) % k
  BY DEF Place, Turn
<1>2. a \in Int /\ b \in Int /\ k \in Nat \ {0} /\ m \in Nat \ {0}
  BY TurnRanks
<1> HIDE DEF a, b, k, m
<1>3. rotation \div k \in Int
  BY <1>2
<1>4. (a - rotation \div k) % m \in Nat /\ (b - rotation) % k \in Nat
  BY <1>2, <1>3
<1> QED
  BY <1>1, <1>4

\* No two streams have the same turn.
LEMMA TurnInjective ==
    ASSUME QueueTypeOK, NEW keys \in SUBSET Streams, NEW s \in keys, NEW t \in keys, NEW rotation \in Nat,
           Place(keys, rotation, s) = Place(keys, rotation, t), Turn(keys, rotation, s) = Turn(keys, rotation, t)
    PROVE  s = t
<1> DEFINE V == ServersOf(keys)
           k == Cardinality(V)
           c == rotation \div k
<1>1. /\ V \in SUBSET Nat /\ IsFiniteSet(V) /\ server[s] \in V /\ server[t] \in V /\ k \in Nat \ {0}
      /\ Rank(V, server[s]) \in 0 .. k - 1 /\ Rank(V, server[t]) \in 0 .. k - 1
  BY TurnRanks
<1>2. (Rank(V, server[s]) - rotation) % k = (Rank(V, server[t]) - rotation) % k
  BY DEF Turn
<1>3. c \in Int
  <2> HIDE DEF k
  <2> QED
    BY <1>1
<1>4. server[s] = server[t]
  <2> DEFINE x == server[s]
             y == server[t]
  <2>1. rotation \in Int
    OBVIOUS
  <2> HIDE DEF V, k, x, y
  <2>2. /\ V \in SUBSET Nat /\ IsFiniteSet(V) /\ x \in V /\ y \in V /\ k \in Nat \ {0}
        /\ Rank(V, x) \in 0 .. k - 1 /\ Rank(V, y) \in 0 .. k - 1
        /\ (Rank(V, x) - rotation) % k = (Rank(V, y) - rotation) % k
    BY <1>1, <1>2 DEF x, y
  <2>3. Rank(V, x) = Rank(V, y)
    BY <2>1, <2>2, SameRemainder
  <2>4. x = y
    BY <2>2, <2>3, RankInjective
  <2> QED
    BY <2>4 DEF x, y
<1> DEFINE K == SameServer(keys, s)
           m == Cardinality(K)
<1>5. SameServer(keys, t) = K
  BY <1>4 DEF SameServer
<1>6. /\ K \in SUBSET Nat /\ IsFiniteSet(K) /\ s \in K /\ t \in K /\ m \in Nat \ {0}
      /\ Rank(K, s) \in 0 .. m - 1 /\ Rank(K, t) \in 0 .. m - 1
  BY <1>5, TurnRanks
<1>7. (Rank(K, s) - c) % m = (Rank(K, t) - c) % m
  BY <1>5 DEF Place
<1> HIDE DEF K, m, c
<1>8. Rank(K, s) = Rank(K, t)
  BY <1>3, <1>6, <1>7, SameRemainder
<1> QED
  BY <1>6, <1>8, RankInjective

\* Whoever waits for a turn, somebody gets one.
LEMMA InTurnSome ==
    ASSUME QueueTypeOK, NEW keys \in SUBSET Streams, keys # {}, NEW n \in Nat \ {0}, NEW rotation \in Nat
    PROVE  InTurn(n, keys, rotation) # {}
<1> DEFINE place == [s \in keys |-> Place(keys, rotation, s)]
           turn == [s \in keys |-> Turn(keys, rotation, s)]
<1>1. \A s \in keys : /\ place[s] = Place(keys, rotation, s) /\ turn[s] = Turn(keys, rotation, s)
                      /\ place[s] \in Nat /\ turn[s] \in Nat
  BY TurnType
<1> HIDE DEF place, turn
<1>2. PICK p \in {place[s] : s \in keys} : \A x \in {place[s] : s \in keys} : p <= x
  <2>1. {place[s] : s \in keys} \in SUBSET Nat /\ {place[s] : s \in keys} # {}
    BY <1>1
  <2> QED
    BY <2>1, LeastNumber
<1> DEFINE leaders == {s \in keys : place[s] = p}
<1>3. PICK q \in {turn[s] : s \in leaders} : \A x \in {turn[s] : s \in leaders} : q <= x
  <2>1. {turn[s] : s \in leaders} \in SUBSET Nat /\ {turn[s] : s \in leaders} # {}
    BY <1>1, <1>2
  <2> QED
    BY <2>1, LeastNumber
<1>4. PICK s \in keys : place[s] = p /\ turn[s] = q
  BY <1>3
<1>5. Before(keys, rotation, s) = {}
  <2> SUFFICES ASSUME NEW t \in keys, Sooner(keys, rotation, t, s)
               PROVE  FALSE
    BY DEF Before
  <2>1. place[t] < place[s] \/ (place[t] = place[s] /\ turn[t] < turn[s])
    BY <1>1 DEF Sooner
  <2>2. CASE place[t] < place[s]
    <3>1. p <= place[t] /\ place[t] \in Nat /\ p \in Nat
      BY <1>1, <1>2
    <3> QED
      BY <1>4, <2>2, <3>1
  <2>3. CASE place[t] = place[s] /\ turn[t] < turn[s]
    BY <1>1, <1>3, <1>4, <2>3
  <2> QED
    BY <2>1, <2>2, <2>3
<1>6. Cardinality(Before(keys, rotation, s)) = 0
  BY <1>5, FS_EmptySet
<1> QED
  BY <1>6, InTurnBefore

\* No more than n of them.
LEMMA InTurnBound ==
    ASSUME QueueTypeOK, NEW keys \in SUBSET Streams, NEW n \in Nat, NEW rotation \in Nat
    PROVE  LET some == InTurn(n, keys, rotation) IN
           IsFiniteSet(some) /\ Cardinality(some) \in Nat
           /\ Cardinality(some) <= n /\ Cardinality(some) <= Cardinality(keys)
<1> DEFINE some == InTurn(n, keys, rotation)
           B(s) == Before(keys, rotation, s)
           f == [s \in some |-> Cardinality(B(s))]
<1>1. some \in SUBSET keys /\ \A s \in some : Cardinality(B(s)) < n
  BY InTurnBefore
<1>2. IsFiniteSet(keys) /\ IsFiniteSet(some) /\ Cardinality(some) <= Cardinality(keys)
  <2>1. IsFiniteSet(Streams)
    BY ReviewQueueAssumption
  <2>2. IsFiniteSet(keys)
    BY <2>1, FS_Subset
  <2> HIDE DEF some
  <2> QED
    BY <1>1, <2>2, FS_Subset
<1>3. \A s \in keys : IsFiniteSet(B(s)) /\ Cardinality(B(s)) \in Nat
  <2> SUFFICES ASSUME NEW s \in keys PROVE IsFiniteSet(B(s)) /\ Cardinality(B(s)) \in Nat
    OBVIOUS
  <2>1. B(s) \in SUBSET keys
    BY DEF Before
  <2> HIDE DEF B
  <2> QED
    BY <1>2, <2>1, FS_Subset, FS_CardinalityType
<1>4. ASSUME NEW s \in keys, NEW t \in keys, Sooner(keys, rotation, s, t)
      PROVE  Cardinality(B(s)) < Cardinality(B(t))
  <2>1. B(s) \in SUBSET B(t)
    <3> SUFFICES ASSUME NEW u \in keys, Sooner(keys, rotation, u, s) PROVE Sooner(keys, rotation, u, t)
      BY DEF Before
    <3> QED
      BY <1>4, TurnType DEF Sooner
  <2>2. s \in B(t) /\ s \notin B(s)
    BY <1>4, TurnType DEF Before, Sooner
  <2> HIDE DEF B
  <2>3. Cardinality(B(s)) <= Cardinality(B(t)) /\ Cardinality(B(s)) # Cardinality(B(t))
    BY <1>3, <2>1, <2>2, FS_Subset
  <2> QED
    BY <1>3, <2>3
<1>5. ASSUME NEW s \in keys, NEW t \in keys, s # t
      PROVE  Cardinality(B(s)) # Cardinality(B(t))
  <2>1. Sooner(keys, rotation, s, t) \/ Sooner(keys, rotation, t, s)
    BY <1>5, TurnType, TurnInjective DEF Sooner
  <2> HIDE DEF B
  <2> QED
    BY <1>3, <1>4, <2>1
<1>6. f \in [some -> 0 .. n - 1]
  <2> HIDE DEF some, B
  <2> QED
    BY <1>1, <1>3
<1>7. \A s, t \in some : s # t => f[s] # f[t]
  <2> HIDE DEF some, B
  <2> QED
    BY <1>1, <1>5
<1>8. IsFiniteSet(0 .. n - 1) /\ Cardinality(0 .. n - 1) = n
  <2>1. 0 \in Int /\ n - 1 \in Int
    OBVIOUS
  <2>2. /\ IsFiniteSet(0 .. n - 1)
        /\ Cardinality(0 .. n - 1) = IF 0 > n - 1 THEN 0 ELSE n - 1 - 0 + 1
    BY <2>1, FS_Interval, Zenon
  <2> QED
    BY <2>2
<1> HIDE DEF some, f
<1>9. Cardinality(some) \in Nat
  BY <1>2, FS_CardinalityType
<1>10. Cardinality(some) <= n
  <2>1. CASE Cardinality(0 .. n - 1) < Cardinality(some)
    BY <1>2, <1>6, <1>7, <1>8, <2>1, FS_PigeonHole
  <2> QED
    BY <1>8, <1>9, <2>1
<1> QED
  BY <1>2, <1>9, <1>10 DEF some

-----------------------------------------------------------------------------
(* Runs decide.                                                              *)

LEMMA MinusNothing ==
    ASSUME NEW a \in Nat
    PROVE  Minus(a, Cardinality({})) = a
BY FS_EmptySet DEF Minus

LEMMA UpdateStreams == Real \subseteq Streams /\ NativeVerified \subseteq Streams
                       /\ Placeholders \subseteq Streams /\ Headings \subseteq Streams
BY DEF Real, Taken, NativeVerified, Placeholders, Headings

\* Every update says something else than the row.
LEMMA UpdatesChange ==
    ASSUME QueueTypeOK, SheetSound, NEW n, NEW s \in ReviewUpdates(n)
    PROVE  Reviewed[s] # sheet[s]
<1> DEFINE row == sheet[s]
           result == Result(s)
<1>1. s \in Taken /\ s \in Present
  BY ReviewedRow
<1>2. row \in QueueRows
  BY <1>1, PresentRow
<1>3. s \in Real \cup NativeVerified \cup Placeholders \cup Fallbacks \cup Headings
  BY UpdateLanes
<1>4. Recheckable(s) => row.action = "REVIEW"
  BY DEF Recheckable
<1>5. row.action \in {"REVIEW", "AUTO_DUMMY"}
  BY <1>1, <1>4 DEF Taken, Upgradable, IsFallback
<1>6. Reviewed[s] = IF s \in NativeVerified THEN Native(row)
                    ELSE IF s \in Fallbacks THEN Fallback(row, result) ELSE result
  BY <1>1 DEF Reviewed
<1>7. CASE s \in NativeVerified
  <2>1. Native(row).action = "KEEP_PANEL"
    BY <1>2 DEF Native, QueueRows
  <2> QED
    BY <1>5, <1>6, <1>7, <2>1
<1>8. CASE s \notin NativeVerified /\ s \in Fallbacks
  <2>1. Recheckable(s)
    BY <1>8, FallbacksPart
  <2>2. result \in QueueRows
    BY <1>2, <1>4, <2>1, MatchedType DEF Result, Upgradable, IsFallback
  <2>3. Fallback(row, result).action = "AUTO_DUMMY"
    <3> HIDE DEF row, result
    <3> QED
      BY <2>2 DEF Fallback, QueueRows
  <2> QED
    BY <1>4, <1>6, <1>8, <2>1, <2>3
<1>9. CASE s \notin NativeVerified /\ s \notin Fallbacks
  <2>1. Reviewed[s] = result
    BY <1>6, <1>9
  <2>2. s \in Real => result.action = "AUTO_EPGSHARE"
    BY DEF Real
  <2>3. s \in Placeholders \cup Headings => Recheckable(s) /\ result.action \in {"AUTO_DUMMY", "IGNORE"}
    BY DEF Placeholders, Headings
  <2> QED
    BY <1>3, <1>4, <1>5, <1>9, <2>1, <2>2, <2>3
<1> QED
  BY <1>7, <1>8, <1>9

\* A row that waits is on a lane, and the first row of a lane is written.
LEMMA WaitingGetsTurn ==
    ASSUME ReviewIInv, NEW w \in Streams, Waiting(w), NewStreams = {}
    PROVE  ReviewUpdates(ApplyLimit) # {}
<1> USE DEF ReviewIInv
<1> DEFINE row == sheet[w]
           result == Result(w)
           leading == Leading(ApplyLimit)
           synthetic == (Placeholders \cup Fallbacks) \ leading
           class(s) == FallbackClass(s, sheet[s], Result(s))
           open == {s \in Streams : /\ Recheckable(s) /\ s \notin leading
                                    /\ \/ class(s) = "open"
                                       \/ class(s) = "protected_native" /\ s \in Admitted}
<1>1. ApplyLimit \in Nat \ {0} /\ FallbackLimit \in Nat \ {0} /\ day \in Nat /\ 0 \in Nat
  BY ReviewQueueAssumption DEF QueueTypeOK
<1>2. Recheckable(w) /\ w \in Present
  BY DEF Waiting, Recheckable, Available
<1>3. row \in QueueRows /\ row.action = "REVIEW"
  BY <1>2, PresentRow DEF Recheckable
<1>4. result = Matched(w, row) /\ ~Upgradable(w)
  BY <1>3 DEF Result, Upgradable, IsFallback
<1>5. result.action \in {"REVIEW", "AUTO_EPGSHARE", "AUTO_DUMMY", "IGNORE"}
  BY <1>3, <1>4, MatchedAction
<1>6. CASE Real \cup NativeVerified # {}
  <2>1. leading # {}
    <3>1. CASE Real # {}
      BY <1>1, <3>1, UpdateStreams, InTurnSome DEF Leading
    <3>2. CASE Real = {}
      <4>1. Minus(ApplyLimit, Cardinality(Real)) = ApplyLimit
        BY <1>1, <3>2, MinusNothing
      <4> QED
        BY <1>1, <1>6, <3>2, <4>1, UpdateStreams, InTurnSome DEF Leading
    <3> QED
      BY <3>1, <3>2
  <2> QED
    BY <2>1 DEF ReviewUpdates
<1>7. CASE Real \cup NativeVerified = {}
  <2>1. leading = {}
    BY <1>7, InTurnPart DEF Leading
  <2>2. Minus(ApplyLimit, Cardinality(Real \cup NativeVerified)) = ApplyLimit
    BY <1>1, <1>7, MinusNothing
  <2>3. synthetic # {} => ReviewUpdates(ApplyLimit) # {}
    <3> SUFFICES ASSUME synthetic # {} PROVE InTurn(ApplyLimit, synthetic, 0) # {}
      BY <2>2 DEF ReviewUpdates
    <3>1. synthetic \in SUBSET Streams
      BY UpdateStreams, FallbacksPart
    <3> HIDE DEF synthetic
    <3> QED
      BY <1>1, <3>1, InTurnSome
  <2>4. result.action # "AUTO_EPGSHARE" /\ w \notin NativeVerified
    BY <1>2, <1>7 DEF Real, Taken
  <2>5. ProtectedNative(w) => w \in Admitted \/ result.action = "IGNORE"
    <3> SUFFICES ASSUME ProtectedNative(w), result.action # "IGNORE"
                 PROVE  w \in Admitted
      OBVIOUS
    <3>1. server[w] # 1 /\ row.target = "panel"
      BY DEF ProtectedNative
    <3>2. FallbackClass(w, row, row) = "protected_native"
      BY <1>3, <3>1 DEF FallbackClass
    <3>3. guide[w] = "miss"
      BY <3>2 DEF Waiting
    <3>4. NativeOf(w) /\ Preimage(row).target = "panel"
      BY <1>3, <3>1, <3>3 DEF NativeOf, Preimage, IsFallback
    <3> QED
      BY <1>2, <1>5, <2>4, <3>3, <3>4 DEF Admitted, NativeCandidate
  <2>6. CASE result.action = "AUTO_DUMMY"
    <3>1. w \in Placeholders
      BY <1>2, <2>4, <2>5, <2>6 DEF Placeholders
    <3> QED
      BY <2>1, <2>3, <3>1
  <2>7. CASE result.action = "IGNORE"
    <3>1. w \in Headings
      BY <1>2, <2>4, <2>7 DEF Headings
    <3>2. CASE synthetic = {}
      <4>1. Minus(ApplyLimit, Cardinality(synthetic)) = ApplyLimit
        BY <1>1, <3>2, MinusNothing
      <4>2. InTurn(ApplyLimit, Headings, 0) # {}
        BY <1>1, <3>1, UpdateStreams, InTurnSome
      <4> QED
        BY <2>2, <4>1, <4>2 DEF ReviewUpdates
    <3> QED
      BY <2>3, <3>2
  <2>8. CASE result.action = "REVIEW"
    <3>1. class(w) = "open" \/ (class(w) = "protected_native" /\ w \in Admitted)
      <4>1. class(w) = FallbackClass(w, row, row)
        BY <1>3, <2>8 DEF FallbackClass
      <4>2. CASE FallbackClass(w, row, row) = "open"
        BY <4>1, <4>2
      <4>3. CASE FallbackClass(w, row, row) # "open"
        <5>1. ProtectedNative(w)
          BY <4>3 DEF Waiting
        <5>2. FallbackClass(w, row, row) = "protected_native"
          BY <1>3, <5>1 DEF FallbackClass, ProtectedNative
        <5> QED
          BY <2>5, <2>8, <4>1, <5>1, <5>2
      <4> QED
        BY <4>2, <4>3
    <3>2. w \in open
      BY <1>2, <2>1, <3>1
    <3> DEFINE room == Minus(ApplyLimit, Cardinality(leading))
               guides == Minus(FallbackLimit, Cardinality(NewFallbacks))
               n == IF room < guides THEN room ELSE guides
    <3>3. room = ApplyLimit
      BY <1>1, <2>1, MinusNothing
    <3>4. guides = FallbackLimit
      <4>1. NewFallbacks = {}
        BY InTurnPart DEF NewFallbacks
      <4> QED
        BY <1>1, <4>1, MinusNothing
    <3>5. n \in Nat \ {0}
      BY <1>1, <3>3, <3>4
    <3>6. Fallbacks = InTurn(n, open, day)
      BY DEF Fallbacks
    <3>7. Fallbacks # {}
      <4>1. open \in SUBSET Streams /\ open # {}
        BY <3>2
      <4> HIDE DEF n, open
      <4> QED
        BY <1>1, <3>5, <3>6, <4>1, InTurnSome
    <3> QED
      BY <2>1, <2>3, <3>7
  <2> QED
    BY <1>5, <2>4, <2>6, <2>7, <2>8
<1> QED
  BY <1>6, <1>7

\* No row spends the limits of the others day after day: while any row waits
\* that no editor has a say in, a run that neither fails nor stops stores a
\* decision, a guide or a new channel.
THEOREM WaitingRowsAreDecided == QueueSpec => RunsDecide
<1>1. ReviewIInv /\ [QueueNext]_queueVars =>
        ((day' # day /\ upsets' = upsets /\ ~Aborts /\ \E s \in Streams : Waiting(s)) => sheet' # sheet)
  <2> SUFFICES ASSUME ReviewIInv, [QueueNext]_queueVars, day' # day, upsets' = upsets, ~Aborts,
                      NEW w \in Streams, Waiting(w)
               PROVE  sheet' # sheet
    OBVIOUS
  <2>1. Run
    <3>1. Upset => upsets' # upsets
      BY DEF Upset, ReviewIInv, QueueTypeOK
    <3> QED
      BY <3>1 DEF QueueNext, queueVars, FailedRun,
                  Return, Clear, Choose, Retarget, Accept, Dismiss, Shift, EditorWrites
  <2> DEFINE written == NewStreams \cup ReviewUpdates(ApplyLimit)
             after(t) == IF t \in NewStreams THEN Appended[t] ELSE Reviewed[t]
  <2>2. sheet' = [t \in Streams |-> IF t \in written THEN after(t) ELSE sheet[t]]
    BY <2>1 DEF Run, Written
  <2>3. CASE NewStreams # {}
    <3>1. PICK s \in NewStreams : TRUE
      BY <2>3
    <3>2. s \in Streams /\ sheet[s] = NoRow
      BY DEF NewStreams
    <3>3. sheet'[s] = Appended[s]
      BY <2>2, <3>2
    <3> QED
      BY <3>2, <3>3, AppendedRow, NoRowAssumption DEF ReviewIInv
  <2>4. CASE NewStreams = {}
    <3>1. PICK s \in ReviewUpdates(ApplyLimit) : TRUE
      BY <2>4, WaitingGetsTurn
    <3>2. s \in Streams /\ sheet'[s] = Reviewed[s]
      BY <2>2, <2>4, ReviewedRow DEF ReviewIInv, Present
    <3> QED
      BY <3>2, UpdatesChange DEF ReviewIInv
  <2> QED
    BY <2>3, <2>4
<1> QED
  BY <1>1, ReviewInitial, ReviewStep, PTL DEF QueueSpec, RunsDecide

-----------------------------------------------------------------------------
(* Limits.                                                                   *)

LEMMA UnionBound ==
    ASSUME NEW S, NEW T, IsFiniteSet(S), IsFiniteSet(T)
    PROVE  /\ IsFiniteSet(S \cup T) /\ Cardinality(S \cup T) \in Nat
           /\ Cardinality(S \cup T) <= Cardinality(S) + Cardinality(T)
<1>1. /\ IsFiniteSet(S \cup T)
      /\ Cardinality(S \cup T) = Cardinality(S) + Cardinality(T) - Cardinality(S \cap T)
  BY FS_Union
<1>2. IsFiniteSet(S \cap T)
  BY FS_Subset
<1>3. Cardinality(S) \in Nat /\ Cardinality(T) \in Nat /\ Cardinality(S \cap T) \in Nat
      /\ Cardinality(S \cup T) \in Nat
  BY <1>1, <1>2, FS_CardinalityType
<1> QED
  BY <1>1, <1>3

\* The lanes share one limit.
LEMMA UpdatesBound ==
    ASSUME QueueTypeOK, NEW n \in Nat
    PROVE  IsFiniteSet(ReviewUpdates(n)) /\ Cardinality(ReviewUpdates(n)) \in 0 .. n
<1> DEFINE synthetic == (Placeholders \cup Fallbacks) \ Leading(ApplyLimit)
           left == Minus(n, Cardinality(Real \cup NativeVerified))
           A == InTurn(n, Real, 0)
           B == InTurn(Minus(n, Cardinality(Real)), NativeVerified, 0)
           C == InTurn(left, synthetic, 0)
           D == InTurn(Minus(left, Cardinality(synthetic)), Headings, 0)
<1>1. ReviewUpdates(n) = ((A \cup B) \cup C) \cup D
  BY DEF ReviewUpdates, Leading
<1>2. /\ Real \in SUBSET Streams /\ NativeVerified \in SUBSET Streams /\ synthetic \in SUBSET Streams
      /\ Headings \in SUBSET Streams
  BY UpdateStreams, FallbacksPart
<1>3. IsFiniteSet(Real) /\ IsFiniteSet(NativeVerified) /\ IsFiniteSet(synthetic)
  <2> HIDE DEF synthetic
  <2> QED
    BY <1>2, ReviewQueueAssumption, FS_Subset
<1>4. Cardinality(Real) \in Nat /\ Cardinality(NativeVerified) \in Nat /\ Cardinality(synthetic) \in Nat
  <2> HIDE DEF synthetic
  <2> QED
    BY <1>3, FS_CardinalityType
<1>5. Cardinality(Real \cup NativeVerified) = Cardinality(Real) + Cardinality(NativeVerified)
  <2>1. Real \cap NativeVerified = {}
    BY DEF Real
  <2>2. Cardinality(Real \cap NativeVerified) = 0
    BY <2>1, FS_EmptySet
  <2>3. Cardinality(Real \cup NativeVerified)
          = Cardinality(Real) + Cardinality(NativeVerified) - Cardinality(Real \cap NativeVerified)
    BY <1>3, FS_Union
  <2> QED
    BY <1>4, <2>2, <2>3
<1>6. \A a, b \in Nat : Minus(a, b) \in Nat /\ (a > b => Minus(a, b) = a - b) /\ (a <= b => Minus(a, b) = 0)
  BY DEF Minus
<1> HIDE DEF synthetic
<1> DEFINE r == Cardinality(Real)
           v == Cardinality(NativeVerified)
           y == Cardinality(synthetic)
<1>7. left = Minus(n, r + v)
  BY <1>5
<1> HIDE DEF left
<1>8. left \in Nat /\ Minus(n, r) \in Nat /\ Minus(left, y) \in Nat
  BY <1>4, <1>6, <1>7
<1>9. /\ IsFiniteSet(A) /\ Cardinality(A) \in Nat /\ Cardinality(A) <= n /\ Cardinality(A) <= r
      /\ IsFiniteSet(B) /\ Cardinality(B) \in Nat /\ Cardinality(B) <= Minus(n, r) /\ Cardinality(B) <= v
      /\ IsFiniteSet(C) /\ Cardinality(C) \in Nat /\ Cardinality(C) <= left /\ Cardinality(C) <= y
      /\ IsFiniteSet(D) /\ Cardinality(D) \in Nat /\ Cardinality(D) <= Minus(left, y)
  <2>1. 0 \in Nat
    OBVIOUS
  <2> QED
    BY <1>2, <1>8, <2>1, InTurnBound
<1> HIDE DEF A, B, C, D
<1>10. /\ IsFiniteSet(((A \cup B) \cup C) \cup D) /\ Cardinality(((A \cup B) \cup C) \cup D) \in Nat
       /\ Cardinality(((A \cup B) \cup C) \cup D)
             <= Cardinality(A) + Cardinality(B) + Cardinality(C) + Cardinality(D)
  <2>1. /\ IsFiniteSet(A \cup B) /\ Cardinality(A \cup B) \in Nat
        /\ Cardinality(A \cup B) <= Cardinality(A) + Cardinality(B)
    BY <1>9, UnionBound
  <2>2. /\ IsFiniteSet((A \cup B) \cup C) /\ Cardinality((A \cup B) \cup C) \in Nat
        /\ Cardinality((A \cup B) \cup C) <= Cardinality(A \cup B) + Cardinality(C)
    BY <1>9, <2>1, UnionBound
  <2>3. /\ IsFiniteSet(((A \cup B) \cup C) \cup D) /\ Cardinality(((A \cup B) \cup C) \cup D) \in Nat
        /\ Cardinality(((A \cup B) \cup C) \cup D) <= Cardinality((A \cup B) \cup C) + Cardinality(D)
    BY <1>9, <2>2, UnionBound
  <2> QED
    BY <1>9, <2>1, <2>2, <2>3
<1> HIDE DEF r, v, y
<1>11. r \in Nat /\ v \in Nat /\ y \in Nat
  BY <1>4 DEF r, v, y
<1>12. Cardinality(A) + Cardinality(B) + Cardinality(C) + Cardinality(D) <= n
  <2>1. Cardinality(C) + Cardinality(D) <= left
    <3>1. (left > y => Minus(left, y) = left - y) /\ (left <= y => Minus(left, y) = 0)
      BY <1>6, <1>8, <1>11
    <3> QED
      BY <1>8, <1>9, <1>11, <3>1
  <2>2. CASE r + v < n
    <3>1. left = n - (r + v)
      BY <1>6, <1>7, <1>11, <2>2
    <3> QED
      BY <1>9, <1>11, <2>1, <3>1
  <2>3. CASE r + v >= n
    <3>1. left = 0
      BY <1>6, <1>7, <1>11, <2>3
    <3>2. (n > r => Minus(n, r) = n - r) /\ (n <= r => Minus(n, r) = 0)
      BY <1>6, <1>11
    <3>3. Cardinality(A) + Cardinality(B) <= n
      BY <1>8, <1>9, <1>11, <3>2
    <3> QED
      BY <1>9, <2>1, <3>1, <3>3
  <2> QED
    BY <1>11, <2>2, <2>3
<1> QED
  BY <1>1, <1>9, <1>10, <1>12

\* So do the local guides of new channels and of the rows of the Sheet.
LEMMA GuidesBound ==
    ASSUME QueueTypeOK
    PROVE  /\ IsFiniteSet(NewFallbacks \cup Fallbacks)
           /\ Cardinality(NewFallbacks \cup Fallbacks) \in 0 .. FallbackLimit
<1> DEFINE new == {s \in NewStreams : FallbackClass(s, NewRow(s), NewResult(s)) = "open"}
           leading == Leading(ApplyLimit)
           old == {s \in Streams : /\ Recheckable(s) /\ s \notin leading
                                   /\ \/ FallbackClass(s, sheet[s], Result(s)) = "open"
                                      \/ FallbackClass(s, sheet[s], Result(s)) = "protected_native"
                                         /\ s \in Admitted}
           room == Minus(ApplyLimit, Cardinality(leading))
           guides == Minus(FallbackLimit, Cardinality(NewFallbacks))
           n == IF room < guides THEN room ELSE guides
<1>1. NewFallbacks = InTurn(FallbackLimit, new, day) /\ Fallbacks = InTurn(n, old, day)
  BY DEF NewFallbacks, Fallbacks
<1>2. new \in SUBSET Streams /\ old \in SUBSET Streams /\ Real \in SUBSET Streams /\ NativeVerified \in SUBSET Streams
  BY UpdateStreams DEF NewStreams
<1>3. ApplyLimit \in Nat /\ FallbackLimit \in Nat /\ day \in Nat /\ 0 \in Nat
  BY ReviewQueueAssumption DEF QueueTypeOK
<1>4. \A a, b \in Nat : Minus(a, b) \in Nat /\ (a > b => Minus(a, b) = a - b) /\ (a <= b => Minus(a, b) = 0)
  BY DEF Minus
<1>5. Cardinality(leading) \in Nat
  <2>1. leading \in SUBSET Streams
    BY <1>2, InTurnPart DEF Leading
  <2>2. IsFiniteSet(Streams)
    BY ReviewQueueAssumption
  <2> HIDE DEF leading
  <2> QED
    BY <2>1, <2>2, FS_Subset, FS_CardinalityType
<1> HIDE DEF new, old, leading
<1>6. /\ IsFiniteSet(NewFallbacks) /\ Cardinality(NewFallbacks) \in Nat
      /\ Cardinality(NewFallbacks) <= FallbackLimit
  BY <1>1, <1>2, <1>3, InTurnBound
<1>7. n \in Nat /\ n <= FallbackLimit - Cardinality(NewFallbacks)
  <2>1. room \in Nat /\ guides \in Nat /\ guides = FallbackLimit - Cardinality(NewFallbacks)
    <3> DEFINE c == Cardinality(leading)
               d == Cardinality(NewFallbacks)
    <3>1. c \in Nat /\ d \in Nat /\ d <= FallbackLimit
      BY <1>5, <1>6
    <3> HIDE DEF c, d
    <3>2. Minus(ApplyLimit, c) \in Nat /\ Minus(FallbackLimit, d) \in Nat
      BY <1>3, <1>4, <3>1
    <3>3. Minus(FallbackLimit, d) = FallbackLimit - d
      BY <1>3, <3>1 DEF Minus
    <3> QED
      BY <3>2, <3>3 DEF c, d
  <2> HIDE DEF room, guides
  <2> QED
    BY <2>1
<1> HIDE DEF n
<1>8. IsFiniteSet(Fallbacks) /\ Cardinality(Fallbacks) \in Nat /\ Cardinality(Fallbacks) <= n
  BY <1>1, <1>2, <1>3, <1>7, InTurnBound
<1>9. /\ IsFiniteSet(NewFallbacks \cup Fallbacks) /\ Cardinality(NewFallbacks \cup Fallbacks) \in Nat
      /\ Cardinality(NewFallbacks \cup Fallbacks) <= Cardinality(NewFallbacks) + Cardinality(Fallbacks)
  BY <1>6, <1>8, UnionBound
<1> QED
  BY <1>3, <1>6, <1>7, <1>8, <1>9

\* No other lane writes a local guide.
LEMMA GuideLanes ==
    ASSUME QueueTypeOK, SheetSound
    PROVE  /\ \A s \in NewStreams : Appended[s].target = "synthetic" => s \in NewFallbacks
           /\ \A n : \A s \in ReviewUpdates(n) : Reviewed[s].target = "synthetic" => s \in Fallbacks
<1>1. ASSUME NEW s \in NewStreams, s \notin NewFallbacks
      PROVE  Appended[s].target # "synthetic"
  <2> DEFINE result == NewResult(s)
             waiting == [result EXCEPT !.action = "REVIEW", !.reason = "deferred"]
  <2>1. NewRow(s) \in QueueRows /\ NewRow(s).target \in {"none", "panel"}
    BY NewRowType
  <2>2. result \in QueueRows /\ result.target \in {"real", "dummy", "weak", "none", "panel"}
    BY <2>1, MatchedType DEF NewResult
  <2>3. Appended[s] \in {waiting, result}
    BY <1>1 DEF Appended
  <2> HIDE DEF result
  <2>4. waiting.target = result.target
    BY <2>2 DEF QueueRows
  <2> QED
    BY <2>2, <2>3, <2>4
<1>2. ASSUME NEW n, NEW s \in ReviewUpdates(n), s \notin Fallbacks
      PROVE  Reviewed[s].target # "synthetic"
  <2> DEFINE row == sheet[s]
             result == Result(s)
  <2>1. s \in Taken /\ s \in Present
    BY ReviewedRow
  <2>2. row \in QueueRows /\ Sound(row)
    BY <2>1, PresentRow
  <2>3. Reviewed[s] = IF s \in NativeVerified THEN Native(row) ELSE result
    BY <1>2, <2>1 DEF Reviewed
  <2>4. s \in Real \cup NativeVerified \cup Placeholders \cup Fallbacks \cup Headings
    BY UpdateLanes
  <2>5. CASE s \in NativeVerified
    BY <2>2, <2>3, <2>5, NativeType
  <2>6. CASE s \in Real
    <3>1. result = Matched(s, row) /\ result.action = "AUTO_EPGSHARE"
      BY <2>6 DEF Real, Result, Upgradable, IsFallback
    <3>2. result.target = "real" /\ s \notin NativeVerified
      BY <2>2, <2>6, <3>1, MatchedType DEF Real
    <3> QED
      BY <2>3, <3>2
  <2>7. CASE s \in Placeholders \cup Headings
    <3>1. Recheckable(s) /\ s \notin NativeVerified
      BY <2>7 DEF Placeholders, Headings
    <3>2. result = Matched(s, row)
      BY <3>1 DEF Recheckable, Result, Upgradable, IsFallback
    <3>3. row.target \in {"none", "real", "panel"}
      BY <2>2, <3>1, BoundTarget DEF Recheckable
    <3>4. result.target \in {"real", "dummy", "weak", "none", "panel"}
      BY <2>2, <3>2, <3>3, MatchedType
    <3> QED
      BY <2>3, <3>1, <3>4
  <2> QED
    BY <1>2, <2>4, <2>5, <2>6, <2>7
<1> QED
  BY <1>1, <1>2

LEMMA WrittenBound ==
    ASSUME ReviewIInv, NEW n \in 0 .. ApplyLimit,
           NEW written, written \subseteq NewStreams \cup ReviewUpdates(n), Written(written)
    PROVE  /\ Cardinality({s \in Present : sheet'[s] # sheet[s]}) <= ApplyLimit
           /\ Cardinality({s \in Streams : sheet'[s] # sheet[s] /\ sheet'[s].target = "synthetic"}) <= FallbackLimit
<1> DEFINE after(t) == IF t \in NewStreams THEN Appended[t] ELSE Reviewed[t]
           rows == {s \in Present : sheet'[s] # sheet[s]}
           guides == {s \in Streams : sheet'[s] # sheet[s] /\ sheet'[s].target = "synthetic"}
<1> USE DEF ReviewIInv
<1>1. sheet' = [t \in Streams |-> IF t \in written THEN after(t) ELSE sheet[t]]
  BY DEF Written
<1>2. ApplyLimit \in Nat /\ FallbackLimit \in Nat /\ n \in Nat /\ n <= ApplyLimit
  BY ReviewQueueAssumption
<1>3. rows \in SUBSET ReviewUpdates(n)
  BY <1>1 DEF Present, NewStreams
<1>4. guides \in SUBSET (NewFallbacks \cup Fallbacks)
  <2> SUFFICES ASSUME NEW s \in Streams, sheet'[s] # sheet[s], sheet'[s].target = "synthetic"
               PROVE  s \in NewFallbacks \cup Fallbacks
    OBVIOUS
  <2>1. s \in written /\ sheet'[s] = after(s)
    BY <1>1
  <2> QED
    BY <2>1, GuideLanes
<1> HIDE DEF rows, guides
<1>5. Cardinality(rows) <= ApplyLimit
  <2>1. IsFiniteSet(ReviewUpdates(n)) /\ Cardinality(ReviewUpdates(n)) \in 0 .. n
    BY <1>2, UpdatesBound
  <2>2. IsFiniteSet(rows) /\ Cardinality(rows) <= Cardinality(ReviewUpdates(n))
    BY <1>3, <2>1, FS_Subset
  <2>3. Cardinality(rows) \in Nat
    BY <2>2, FS_CardinalityType
  <2> QED
    BY <1>2, <2>1, <2>2, <2>3
<1>6. Cardinality(guides) <= FallbackLimit
  <2>1. /\ IsFiniteSet(NewFallbacks \cup Fallbacks)
        /\ Cardinality(NewFallbacks \cup Fallbacks) \in 0 .. FallbackLimit
    BY GuidesBound
  <2>2. IsFiniteSet(guides) /\ Cardinality(guides) <= Cardinality(NewFallbacks \cup Fallbacks)
    BY <1>4, <2>1, FS_Subset
  <2>3. Cardinality(guides) \in Nat
    BY <2>2, FS_CardinalityType
  <2> QED
    BY <1>2, <2>1, <2>2, <2>3
<1> QED
  BY <1>5, <1>6 DEF rows, guides

\* Whatever waits, a run changes at most ApplyLimit rows of the Sheet, on all
\* lanes together, and gives at most FallbackLimit local guides, to new channels
\* and old ones together, also when it fails half way.
THEOREM RunsKeepTheirLimits ==
    QueueSpec => [][day' # day =>
        /\ Cardinality({s \in Present : sheet'[s] # sheet[s]}) <= ApplyLimit
        /\ Cardinality({s \in Streams : sheet'[s] # sheet[s] /\ sheet'[s].target = "synthetic"})
             <= FallbackLimit]_queueVars
<1>1. ReviewIInv /\ [QueueNext]_queueVars =>
        (day' # day =>
          /\ Cardinality({s \in Present : sheet'[s] # sheet[s]}) <= ApplyLimit
          /\ Cardinality({s \in Streams : sheet'[s] # sheet[s] /\ sheet'[s].target = "synthetic"})
               <= FallbackLimit)
  <2> SUFFICES ASSUME ReviewIInv, [QueueNext]_queueVars, day' # day
               PROVE  /\ Cardinality({s \in Present : sheet'[s] # sheet[s]}) <= ApplyLimit
                      /\ Cardinality({s \in Streams : sheet'[s] # sheet[s] /\ sheet'[s].target = "synthetic"})
                           <= FallbackLimit
    OBVIOUS
  <2>1. Run \/ FailedRun
    BY DEF QueueNext, queueVars, Return, Clear, Choose, Retarget, Accept, Dismiss, Shift, EditorWrites
  <2>2. ApplyLimit \in Nat /\ FallbackLimit \in Nat
    BY ReviewQueueAssumption
  <2>3. CASE Run /\ Aborts
    <3>1. sheet' = sheet
      BY <2>3 DEF Run
    <3> DEFINE rows == {s \in Present : sheet'[s] # sheet[s]}
               guides == {s \in Streams : sheet'[s] # sheet[s] /\ sheet'[s].target = "synthetic"}
    <3>2. rows = {} /\ guides = {}
      BY <3>1
    <3> HIDE DEF rows, guides
    <3>3. Cardinality(rows) = 0 /\ Cardinality(guides) = 0
      BY <3>2, FS_EmptySet
    <3> QED
      BY <2>2, <3>3 DEF rows, guides
  <2>4. CASE Run /\ ~Aborts
    <3>1. Written(NewStreams \cup ReviewUpdates(ApplyLimit))
      BY <2>4 DEF Run
    <3>2. ApplyLimit \in 0 .. ApplyLimit
      BY <2>2
    <3> QED
      BY <3>1, <3>2, WrittenBound
  <2>5. CASE FailedRun
    <3>1. PICK n \in 0 .. Cardinality(NewStreams) + ApplyLimit :
             Written(Additions(n) \cup ReviewUpdates(Minus(n, Cardinality(NewStreams))))
      BY <2>5 DEF FailedRun
    <3>2. Cardinality(NewStreams) \in Nat
      BY ReviewQueueAssumption, FS_Subset, FS_CardinalityType DEF NewStreams
    <3>3. Minus(n, Cardinality(NewStreams)) \in 0 .. ApplyLimit
      BY <2>2, <3>2 DEF Minus
    <3> QED
      BY <3>1, <3>3, AdditionsPart, WrittenBound
  <2> QED
    BY <2>1, <2>3, <2>4, <2>5
<1> QED
  BY <1>1, ReviewInitial, ReviewStep, PTL DEF QueueSpec

=============================================================================
