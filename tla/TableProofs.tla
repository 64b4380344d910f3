----------------------------- MODULE TableProofs -----------------------------
(***************************************************************************)
(* The in-memory table, proved for any number of rows, any ordered keys    *)
(* and any number of indexes.                                              *)
(***************************************************************************)
EXTENDS Table, FiniteSetTheorems, SequenceTheorems, TLAPS

RowsOk(r) ==
  /\ DOMAIN r \subseteq Ids
  /\ \A id \in DOMAIN r : r[id] \in Values

(* Entries e list each row of r once, in the order of index x.             *)
Matches(e, r, x) ==
  /\ \A i \in 1..Len(e) : e[i] \in DOMAIN r
  /\ \A id \in DOMAIN r : \E i \in 1..Len(e) : e[i] = id
  /\ \A i, j \in 1..Len(e) : e[i] = e[j] => i = j
  /\ SortedBy(e, r, x)

TableIInv == TypeOK /\ IndexMatchesRows /\ UniqueStaysUnique

-----------------------------------------------------------------------------
(* Lemma: keys are integers.                                               *)
LEMMA KeysAreIntegers ==
  ASSUME NEW r, RowsOk(r), NEW id \in DOMAIN r, NEW x \in Indexes
  PROVE  r[id][x] \in Keys /\ r[id][x] \in Int
BY TableAssumption DEF RowsOk, Values

(* Lemma: a function on 1..n is a sequence of length n.                    *)
LEMMA FunctionIsSequence ==
  ASSUME NEW S, NEW n \in Nat, NEW f \in [1..n -> S]
  PROVE  f \in Seq(S) /\ Len(f) = n
OBVIOUS

(* Lemma: the binary search and its two loops find the whole run of a key, *)
(* wherever the search hits.                                               *)
LEMMA RunIsHits ==
  ASSUME NEW r, RowsOk(r), NEW x \in Indexes, NEW e \in Seq(Ids),
         Matches(e, r, x), NEW k, NEW hit \in Hits(e, r, x, k)
  PROVE  RunAround(e, r, x, k, hit) = Hits(e, r, x, k)
<1>1. Len(e) \in Nat
  BY LenProperties
<1>2. hit \in 1..Len(e) /\ r[e[hit]][x] = k
  BY DEF Hits
<1>3. \A i \in 1..Len(e) : r[e[i]][x] \in Int
  BY KeysAreIntegers DEF Matches
<1>4. ASSUME NEW j \in RunAround(e, r, x, k, hit)
      PROVE  j \in Hits(e, r, x, k)
  <2>1. j \in 1..Len(e) /\ \A i \in Between(j, hit) : r[e[i]][x] = k
    BY <1>4 DEF RunAround
  <2>2. j \in Between(j, hit)
    BY <1>1, <1>2, <2>1 DEF Between
  <2> QED
    BY <2>1, <2>2 DEF Hits
<1>5. ASSUME NEW j \in Hits(e, r, x, k)
      PROVE  j \in RunAround(e, r, x, k, hit)
  <2>1. j \in 1..Len(e) /\ r[e[j]][x] = k
    BY <1>5 DEF Hits
  <2>2. ASSUME NEW i \in Between(j, hit) PROVE r[e[i]][x] = k
    <3>1. /\ i \in 1..Len(e)
          /\ \/ j <= i /\ i <= hit
             \/ hit <= i /\ i <= j
      BY <1>1, <1>2, <2>1, <2>2 DEF Between
    <3>2. ASSUME NEW a \in 1..Len(e), NEW b \in 1..Len(e), a <= b
          PROVE  r[e[a]][x] <= r[e[b]][x]
      <4>1. CASE a = b
        BY <1>3, <4>1
      <4>2. CASE a < b
        BY <4>2 DEF Matches, SortedBy
      <4> QED
        BY <1>1, <3>2, <4>1, <4>2
    <3>3. r[e[i]][x] \in Int /\ k \in Int
      BY <1>2, <1>3, <3>1
    <3>4. r[e[i]][x] <= k /\ k <= r[e[i]][x]
      BY <1>2, <2>1, <3>1, <3>2
    <3> QED
      BY <3>3, <3>4
  <2> QED
    BY <2>1, <2>2 DEF RunAround
<1> QED
  BY <1>4, <1>5

(* Lemma: find_range on sorted entries.                                    *)
LEMMA FindRangeIsHits ==
  ASSUME NEW r, RowsOk(r), NEW x \in Indexes, NEW e \in Seq(Ids),
         Matches(e, r, x), NEW k
  PROVE  find_range(e, r, x, k) = Hits(e, r, x, k)
<1>1. CASE Hits(e, r, x, k) = {}
  BY <1>1 DEF find_range
<1>2. CASE Hits(e, r, x, k) # {}
  <2>1. (CHOOSE i \in Hits(e, r, x, k) : TRUE) \in Hits(e, r, x, k)
    BY <1>2
  <2>2. RunAround(e, r, x, k, CHOOSE i \in Hits(e, r, x, k) : TRUE)
          = Hits(e, r, x, k)
    BY <2>1, RunIsHits
  <2> QED
    BY <1>2, <2>2 DEF find_range
<1> QED
  BY <1>1, <1>2

-----------------------------------------------------------------------------
(* Lemma: Vec::insert makes a sequence one longer.                         *)
LEMMA InsertedType ==
  ASSUME NEW e \in Seq(Ids), NEW at \in 0..Len(e), NEW id \in Ids
  PROVE  /\ Inserted(e, at, id) \in Seq(Ids)
         /\ Len(Inserted(e, at, id)) = Len(e) + 1
         /\ \A i \in 1..(Len(e) + 1) :
              Inserted(e, at, id)[i] = IF i <= at THEN e[i]
                                       ELSE IF i = at + 1 THEN id
                                       ELSE e[i - 1]
<1>1. Len(e) \in Nat /\ Len(e) + 1 \in Nat
  BY LenProperties
<1>2. \A i \in 1..Len(e) : e[i] \in Ids
  BY ElementOfSeq
<1>3. \A i \in 1..(Len(e) + 1) :
        IF i <= at THEN i \in 1..Len(e)
        ELSE i = at + 1 \/ i - 1 \in 1..Len(e)
  BY <1>1
<1>4. Inserted(e, at, id) \in [1..(Len(e) + 1) -> Ids]
  BY <1>2, <1>3 DEF Inserted
<1>5. /\ Inserted(e, at, id) \in Seq(Ids)
      /\ Len(Inserted(e, at, id)) = Len(e) + 1
  BY <1>1, <1>4, FunctionIsSequence
<1>6. \A i \in 1..(Len(e) + 1) :
              Inserted(e, at, id)[i] = IF i <= at THEN e[i]
                                       ELSE IF i = at + 1 THEN id
                                       ELSE e[i - 1]
  BY DEF Inserted
<1> QED
  BY <1>5, <1>6

(* Lemma: Vec::remove makes it one shorter.                                *)
LEMMA RemovedType ==
  ASSUME NEW e \in Seq(Ids), NEW p \in 1..Len(e)
  PROVE  /\ Removed(e, p) \in Seq(Ids)
         /\ Len(Removed(e, p)) = Len(e) - 1
         /\ \A i \in 1..(Len(e) - 1) :
              Removed(e, p)[i] = IF i < p THEN e[i] ELSE e[i + 1]
<1>1. Len(e) \in Nat /\ Len(e) - 1 \in Nat
  BY LenProperties
<1>2. \A i \in 1..Len(e) : e[i] \in Ids
  BY ElementOfSeq
<1>3. \A i \in 1..(Len(e) - 1) :
        IF i < p THEN i \in 1..Len(e) ELSE i + 1 \in 1..Len(e)
  BY <1>1
<1>4. Removed(e, p) \in [1..(Len(e) - 1) -> Ids]
  BY <1>2, <1>3 DEF Removed
<1>5. Removed(e, p) \in Seq(Ids) /\ Len(Removed(e, p)) = Len(e) - 1
  BY <1>1, <1>4, FunctionIsSequence
<1>6. \A i \in 1..(Len(e) - 1) :
              Removed(e, p)[i] = IF i < p THEN e[i] ELSE e[i + 1]
  BY DEF Removed
<1> QED
  BY <1>5, <1>6

(* Lemma: a new row entered at the end of its range keeps the entries      *)
(* matched.                                                                *)
LEMMA InsertedMatches ==
  ASSUME NEW q, NEW r, RowsOk(r), NEW x \in Indexes, NEW e \in Seq(Ids),
         Matches(e, q, x), NEW id \in Ids, id \notin DOMAIN q,
         DOMAIN r = DOMAIN q \cup {id},
         \A i \in DOMAIN q : r[i][x] = q[i][x],
         NEW at, RangeEnd(e, r, x, r[id][x], at)
  PROVE  Matches(Inserted(e, at, id), r, x)
<1> DEFINE f == Inserted(e, at, id)
           n == Len(e)
<1>1. n \in Nat /\ at \in 0..n
  BY LenProperties DEF RangeEnd
<1>2. /\ Len(f) = n + 1
      /\ \A i \in 1..(n + 1) :
           f[i] = IF i <= at THEN e[i]
                  ELSE IF i = at + 1 THEN id ELSE e[i - 1]
  BY <1>1, InsertedType
<1>3. /\ \A i \in 1..n : e[i] \in DOMAIN q /\ e[i] # id
      /\ \A d \in DOMAIN q : \E i \in 1..n : e[i] = d
      /\ \A i, j \in 1..n : e[i] = e[j] => i = j
      /\ \A i, j \in 1..n : i < j => r[e[i]][x] <= r[e[j]][x]
  BY DEF Matches, SortedBy
<1>4. /\ \A i \in 1..at : r[e[i]][x] <= r[id][x]
      /\ \A i \in (at + 1)..n : r[e[i]][x] > r[id][x]
  BY DEF RangeEnd
<1>5. /\ r[id][x] \in Int
      /\ \A i \in 1..n : r[e[i]][x] \in Int
  BY <1>3, KeysAreIntegers
<1> HIDE DEF f, n
<1>6. \A i \in 1..(n + 1) :
        \/ i \in 1..at /\ i \in 1..n /\ f[i] = e[i]
        \/ i = at + 1 /\ f[i] = id
        \/ i - 1 \in (at + 1)..n /\ i - 1 \in 1..n /\ f[i] = e[i - 1]
  <2> SUFFICES ASSUME NEW i \in 1..(n + 1)
               PROVE  \/ i \in 1..at /\ i \in 1..n /\ f[i] = e[i]
                      \/ i = at + 1 /\ f[i] = id
                      \/ /\ i - 1 \in (at + 1)..n /\ i - 1 \in 1..n
                         /\ f[i] = e[i - 1]
    OBVIOUS
  <2>1. CASE i <= at
    BY <1>1, <1>2, <2>1
  <2>2. CASE i = at + 1
    BY <1>1, <1>2, <2>2
  <2>3. CASE i > at + 1
    BY <1>1, <1>2, <2>3
  <2> QED
    BY <1>1, <2>1, <2>2, <2>3
<1>7. \A i \in 1..Len(f) : f[i] \in DOMAIN r
  BY <1>2, <1>3, <1>6
<1>8. ASSUME NEW d \in DOMAIN r PROVE \E i \in 1..Len(f) : f[i] = d
  <2>1. CASE d = id
    <3>1. at + 1 \in 1..(n + 1) /\ f[at + 1] = id
      BY <1>1, <1>2
    <3> QED
      BY <1>2, <2>1, <3>1
  <2>2. CASE d # id
    <3>1. PICK i \in 1..n : e[i] = d
      BY <1>3, <2>2
    <3>2. CASE i <= at
      <4>1. i \in 1..(n + 1) /\ f[i] = e[i]
        BY <1>1, <1>2, <3>2
      <4> QED
        BY <1>2, <3>1, <4>1
    <3>3. CASE i > at
      <4>1. /\ i + 1 \in 1..(n + 1) /\ ~(i + 1 <= at) /\ i + 1 # at + 1
            /\ (i + 1) - 1 = i
        BY <1>1, <3>3
      <4>2. f[i + 1] = e[i]
        BY <1>2, <4>1
      <4> QED
        BY <1>2, <3>1, <4>1, <4>2
    <3> QED
      BY <1>1, <3>2, <3>3
  <2> QED
    BY <2>1, <2>2
<1>9. ASSUME NEW i \in 1..(n + 1), NEW j \in 1..(n + 1), i < j
      PROVE  f[i] # f[j] /\ r[f[i]][x] <= r[f[j]][x]
  <2>1. CASE i \in 1..at /\ i \in 1..n /\ f[i] = e[i]
    <3>1. CASE j \in 1..at /\ j \in 1..n /\ f[j] = e[j]
      <4>1. i # j
        BY <1>9
      <4> QED
        BY <1>3, <1>9, <2>1, <3>1, <4>1
    <3>2. CASE j = at + 1 /\ f[j] = id
      BY <1>3, <1>4, <2>1, <3>2
    <3>3. CASE /\ j - 1 \in (at + 1)..n /\ j - 1 \in 1..n
               /\ f[j] = e[j - 1]
      <4>1. i < j - 1
        BY <1>1, <2>1, <3>3
      <4> QED
        BY <1>3, <2>1, <3>3, <4>1
    <3> QED
      BY <1>6, <3>1, <3>2, <3>3
  <2>2. CASE i = at + 1 /\ f[i] = id
    <3>1. /\ j - 1 \in (at + 1)..n /\ j - 1 \in 1..n
          /\ f[j] = e[j - 1]
      BY <1>1, <1>2, <1>9, <2>2
    <3>2. r[e[j - 1]][x] > r[id][x] /\ r[e[j - 1]][x] \in Int
      BY <1>4, <1>5, <3>1
    <3>3. r[id][x] <= r[e[j - 1]][x]
      BY <1>5, <3>2
    <3> QED
      BY <1>3, <2>2, <3>1, <3>3
  <2>3. CASE /\ i - 1 \in (at + 1)..n /\ i - 1 \in 1..n
             /\ f[i] = e[i - 1]
    <3>1. /\ j - 1 \in (at + 1)..n /\ j - 1 \in 1..n
          /\ i - 1 < j - 1 /\ f[j] = e[j - 1]
      <4>1. /\ j - 1 \in (at + 1)..n /\ j - 1 \in 1..n /\ i - 1 < j - 1
            /\ ~(j <= at) /\ j # at + 1
        BY <1>1, <1>9, <2>3
      <4> QED
        BY <1>2, <4>1
    <3> QED
      BY <1>3, <2>3, <3>1
  <2> QED
    BY <1>6, <2>1, <2>2, <2>3
<1>10. \A i, j \in 1..Len(f) : f[i] = f[j] => i = j
  <2> SUFFICES ASSUME NEW i \in 1..(n + 1), NEW j \in 1..(n + 1), i # j
               PROVE  f[i] # f[j]
    BY <1>2
  <2>1. i < j \/ j < i
    BY <1>1
  <2> QED
    BY <1>9, <2>1
<1>11. SortedBy(f, r, x)
  BY <1>2, <1>9 DEF SortedBy
<1>12. Matches(f, r, x)
  BY <1>7, <1>8, <1>10, <1>11 DEF Matches
<1> QED
  BY <1>12 DEF f

(* Lemma: a row taken out of the entries and out of the rows keeps them    *)
(* matched.                                                                *)
LEMMA RemovedMatches ==
  ASSUME NEW q, NEW r, NEW x \in Indexes, NEW e \in Seq(Ids),
         Matches(e, r, x), NEW p \in 1..Len(e),
         DOMAIN q = DOMAIN r \ {e[p]},
         \A i \in DOMAIN q : q[i][x] = r[i][x]
  PROVE  Matches(Removed(e, p), q, x)
<1> DEFINE f == Removed(e, p)
           n == Len(e)
<1>1. n \in Nat
  BY LenProperties
<1>2. /\ Len(f) = n - 1
      /\ \A i \in 1..(n - 1) :
           f[i] = IF i < p THEN e[i] ELSE e[i + 1]
  BY RemovedType
<1>3. /\ \A i \in 1..n : e[i] \in DOMAIN r
      /\ \A d \in DOMAIN r : \E i \in 1..n : e[i] = d
      /\ \A i, j \in 1..n : e[i] = e[j] => i = j
      /\ \A i, j \in 1..n : i < j => r[e[i]][x] <= r[e[j]][x]
  BY DEF Matches, SortedBy
<1> HIDE DEF f, n
<1>4. p \in 1..n
  BY DEF n
<1>5. \A i \in 1..(n - 1) :
        \/ i < p /\ i \in 1..n /\ i # p /\ f[i] = e[i]
        \/ i >= p /\ i + 1 \in 1..n /\ i + 1 # p /\ f[i] = e[i + 1]
  <2> SUFFICES ASSUME NEW i \in 1..(n - 1)
        PROVE \/ i < p /\ i \in 1..n /\ i # p /\ f[i] = e[i]
              \/ i >= p /\ i + 1 \in 1..n /\ i + 1 # p /\ f[i] = e[i + 1]
    OBVIOUS
  <2>1. CASE i < p
    BY <1>1, <1>2, <1>4, <2>1
  <2>2. CASE i >= p
    BY <1>1, <1>2, <1>4, <2>2
  <2> QED
    BY <1>1, <1>4, <2>1, <2>2
<1>6. \A i \in 1..n : i # p => e[i] \in DOMAIN q
  BY <1>3, <1>4
<1>7. \A i \in 1..Len(f) : f[i] \in DOMAIN q
  BY <1>2, <1>5, <1>6
<1>8. ASSUME NEW d \in DOMAIN q PROVE \E i \in 1..Len(f) : f[i] = d
  <2>1. PICK i \in 1..n : e[i] = d /\ i # p
    BY <1>3, <1>4
  <2>2. CASE i < p
    <3>1. i \in 1..(n - 1) /\ f[i] = e[i]
      BY <1>1, <1>2, <1>4, <2>2
    <3> QED
      BY <1>2, <2>1, <3>1
  <2>3. CASE i > p
    <3>1. i - 1 \in 1..(n - 1) /\ ~(i - 1 < p) /\ (i - 1) + 1 = i
      BY <1>1, <1>4, <2>3
    <3>2. f[i - 1] = e[i]
      BY <1>2, <3>1
    <3> QED
      BY <1>2, <2>1, <3>1, <3>2
  <2> QED
    BY <1>1, <1>4, <2>1, <2>2, <2>3
<1>9. ASSUME NEW i \in 1..(n - 1), NEW j \in 1..(n - 1), i < j
      PROVE  f[i] # f[j] /\ q[f[i]][x] <= q[f[j]][x]
  <2>entry. ASSUME NEW m \in 1..(n - 1)
        PROVE  \E a \in 1..n : /\ f[m] = e[a] /\ a # p
                               /\ a = IF m < p THEN m ELSE m + 1
    <3>1. CASE m < p
      <4>1. m \in 1..n /\ f[m] = e[m] /\ m # p
        BY <1>1, <1>2, <1>4, <3>1
      <4> QED
        BY <3>1, <4>1
    <3>2. CASE ~(m < p)
      <4>1. m + 1 \in 1..n /\ f[m] = e[m + 1] /\ m + 1 # p
        BY <1>1, <1>2, <1>4, <3>2
      <4> QED
        BY <3>2, <4>1
    <3> QED
      BY <3>1, <3>2
  <2>1. PICK a \in 1..n : /\ f[i] = e[a] /\ a # p
                          /\ a = IF i < p THEN i ELSE i + 1
    BY <2>entry
  <2>2. PICK b \in 1..n : /\ f[j] = e[b] /\ b # p
                          /\ b = IF j < p THEN j ELSE j + 1
    BY <2>entry
  <2>3. a < b /\ a # b
    BY <1>1, <1>4, <1>9, <2>1, <2>2
  <2>4. r[e[a]][x] <= r[e[b]][x] /\ e[a] # e[b]
    BY <1>3, <2>3
  <2> QED
    BY <1>6, <2>1, <2>2, <2>4
<1>10. \A i, j \in 1..Len(f) : f[i] = f[j] => i = j
  <2> SUFFICES ASSUME NEW i \in 1..(n - 1), NEW j \in 1..(n - 1), i # j
               PROVE  f[i] # f[j]
    BY <1>2
  <2>1. i < j \/ j < i
    BY <1>1
  <2> QED
    BY <1>9, <2>1
<1>11. SortedBy(f, q, x)
  BY <1>2, <1>9 DEF SortedBy
<1>12. Matches(f, q, x)
  BY <1>7, <1>8, <1>10, <1>11 DEF Matches
<1> QED
  BY <1>12 DEF f

-----------------------------------------------------------------------------
(* Lemma: what the invariant says of the rows and of each live index.      *)
LEMMA TableFacts ==
  ASSUME TableIInv
  PROVE  /\ RowsOk(rows) /\ Live \subseteq Indexes
         /\ \A x \in Indexes : entries[x] \in Seq(Ids)
         /\ ~poisoned => \A x \in Live : Matches(entries[x], rows, x)
<1>1. RowsOk(rows) /\ \A x \in Indexes : entries[x] \in Seq(Ids)
  BY DEF TableIInv, TypeOK, RowsOk
<1>2. ~poisoned => \A x \in Live : Matches(entries[x], rows, x)
  BY DEF TableIInv, IndexMatchesRows, Matches
<1> QED
  BY <1>1, <1>2 DEF Live

(* Lemma: a row is found in every live index, at its entry.                *)
LEMMA PositionFound ==
  ASSUME TableIInv, ~poisoned, NEW x \in Live, NEW id \in DOMAIN rows
  PROVE  /\ Position(x, id) # {}
         /\ \A p \in Position(x, id) :
              p \in 1..Len(entries[x]) /\ entries[x][p] = id
<1>1. /\ RowsOk(rows) /\ x \in Indexes /\ entries[x] \in Seq(Ids)
      /\ Matches(entries[x], rows, x)
  BY TableFacts
<1>2. find_range(entries[x], rows, x, rows[id][x])
        = Hits(entries[x], rows, x, rows[id][x])
  BY <1>1, FindRangeIsHits
<1>3. PICK i \in 1..Len(entries[x]) : entries[x][i] = id
  BY <1>1 DEF Matches
<1>4. i \in Position(x, id)
  BY <1>2, <1>3 DEF Position, Hits
<1> QED
  BY <1>2, <1>4 DEF Position, Hits

(* Lemma: the uniqueness check of an insertion looks at every row.         *)
LEMMA CheckAddIsExact ==
  ASSUME TableIInv, ~poisoned, NEW x \in Live, NEW v \in Values,
         check_add(x, v), unique[x]
  PROVE  \A id \in DOMAIN rows : rows[id][x] # v[x]
<1>1. /\ RowsOk(rows) /\ x \in Indexes /\ entries[x] \in Seq(Ids)
      /\ Matches(entries[x], rows, x)
  BY TableFacts
<1>2. Hits(entries[x], rows, x, v[x]) = {}
  BY <1>1, FindRangeIsHits DEF check_add
<1> QED
  BY <1>1, <1>2 DEF Matches, Hits

-----------------------------------------------------------------------------
(* Lemma: the empty table.                                                 *)
LEMMA TableInitIInv == Init => TableIInv
<1> SUFFICES ASSUME Init PROVE TableIInv
  OBVIOUS
<1>1. DOMAIN rows = {}
  BY DEF Init
<1>2. 0 \in 0..MaxAdds
  BY TableAssumption
<1>3. entries \in [Indexes -> Seq(Ids)]
  BY EmptySeq DEF Init
<1>4. TypeOK
  BY <1>1, <1>2, <1>3 DEF Init, TypeOK
<1>5. Live = {}
  BY DEF Init, Live
<1> QED
  BY <1>4, <1>5 DEF TableIInv, IndexMatchesRows, UniqueStaysUnique

(* Lemma: an index is added over the rows that are there.                  *)
LEMMA AddIndexStep ==
  ASSUME TableIInv, NEW x \in Indexes, NEW u \in BOOLEAN, AddIndex(x, u)
  PROVE  TableIInv'
<1>1. /\ ~poisoned /\ UNCHANGED <<next_id, rows, poisoned>>
      /\ handle' = [handle EXCEPT ![x] = "live"]
      /\ unique' = [unique EXCEPT ![x] = u]
      /\ born_unique' = [born_unique EXCEPT ![x] = Distinct(rows, x)]
      /\ result' = "ok"
  BY DEF AddIndex
<1>n. PICK n \in 0..MaxAdds : \E e \in [1..n -> DOMAIN rows] :
        /\ \A id \in DOMAIN rows : \E i \in 1..n : e[i] = id
        /\ StableSorted(e, rows, x)
        /\ entries' = [entries EXCEPT ![x] = e]
  BY DEF AddIndex
<1>2. PICK e \in [1..n -> DOMAIN rows] :
        /\ \A id \in DOMAIN rows : \E i \in 1..n : e[i] = id
        /\ StableSorted(e, rows, x)
        /\ entries' = [entries EXCEPT ![x] = e]
  BY <1>n
<1>3. RowsOk(rows) /\ TypeOK
  BY TableFacts DEF TableIInv
<1>4. n \in Nat /\ e \in [1..n -> Ids]
  BY <1>3, TableAssumption DEF RowsOk
<1>5. e \in Seq(Ids) /\ Len(e) = n
  BY <1>4, FunctionIsSequence
<1>6. \A i \in 1..n : e[i] \in DOMAIN rows /\ e[i] \in Int
                      /\ rows[e[i]][x] \in Int
  BY <1>3, <1>4, KeysAreIntegers DEF Ids
<1>7. ASSUME NEW i \in 1..n, NEW j \in 1..n, i < j
      PROVE  e[i] # e[j] /\ rows[e[i]][x] <= rows[e[j]][x]
  <2>1. \/ rows[e[i]][x] < rows[e[j]][x]
        \/ rows[e[i]][x] = rows[e[j]][x] /\ e[i] < e[j]
    BY <1>2, <1>5, <1>7 DEF StableSorted
  <2>2. /\ rows[e[i]][x] \in Int /\ rows[e[j]][x] \in Int
        /\ e[i] \in Int /\ e[j] \in Int
    BY <1>6
  <2>3. rows[e[i]][x] <= rows[e[j]][x]
    BY <2>1, <2>2
  <2>4. CASE rows[e[i]][x] < rows[e[j]][x]
    <3>1. rows[e[i]][x] # rows[e[j]][x]
      BY <2>2, <2>4
    <3> QED
      BY <2>3, <3>1
  <2>5. CASE e[i] < e[j]
    BY <2>2, <2>3, <2>5
  <2> QED
    BY <2>1, <2>4, <2>5
<1>8. Matches(e, rows, x)
  <2>1. \A i, j \in 1..n : e[i] = e[j] => i = j
    <3> SUFFICES ASSUME NEW i \in 1..n, NEW j \in 1..n, i # j
                 PROVE  e[i] # e[j]
      OBVIOUS
    <3>1. i < j \/ j < i
      BY <1>4
    <3> QED
      BY <1>7, <3>1
  <2>2. SortedBy(e, rows, x)
    BY <1>5, <1>7 DEF SortedBy
  <2> QED
    BY <1>2, <1>5, <1>6, <2>1, <2>2 DEF Matches
<1>9. \A y \in Live' : y = x \/ (y # x /\ y \in Live /\ y \in Indexes)
  BY <1>1, <1>3 DEF Live, TypeOK
<1>10. \A y \in Indexes :
         /\ y # x => /\ entries'[y] = entries[y] /\ unique'[y] = unique[y]
                     /\ born_unique'[y] = born_unique[y]
         /\ y = x => entries'[y] = e /\ born_unique'[y] = Distinct(rows, x)
  BY <1>1, <1>2, <1>3 DEF TypeOK
<1>11. TypeOK'
  <2>1. entries' \in [Indexes -> Seq(Ids)]
    BY <1>2, <1>3, <1>5 DEF TypeOK
  <2>2. Distinct(rows, x) \in BOOLEAN
    BY DEF Distinct
  <2>3. born_unique' \in [Indexes -> BOOLEAN]
    BY <1>1, <1>3, <2>2 DEF TypeOK
  <2> QED
    BY <1>1, <1>3, <2>1, <2>3 DEF TypeOK
<1>12. \A y \in Live' : Matches(entries'[y], rows, y)
  BY <1>1, <1>8, <1>9, <1>10, TableFacts
<1>13. IndexMatchesRows'
  BY <1>1, <1>12 DEF IndexMatchesRows, Matches
<1>14. UniqueStaysUnique'
  <2>1. \A y \in Live' : unique'[y] /\ born_unique'[y] => Distinct(rows, y)
    BY <1>1, <1>9, <1>10 DEF TableIInv, UniqueStaysUnique
  <2> QED
    BY <1>1, <2>1 DEF UniqueStaysUnique, Distinct
<1> QED
  BY <1>11, <1>13, <1>14 DEF TableIInv

(* Lemma: an index is dropped.                                             *)
LEMMA DropIndexStep ==
  ASSUME TableIInv, NEW x \in Indexes, DropIndex(x)
  PROVE  TableIInv'
<1>1. /\ handle' = [handle EXCEPT ![x] = "dropped"]
      /\ entries' = [entries EXCEPT ![x] = <<>>]
      /\ UNCHANGED <<next_id, rows, unique, born_unique, poisoned, result>>
  BY DEF DropIndex
<1>2. TypeOK
  BY DEF TableIInv
<1>3. TypeOK'
  BY <1>1, <1>2, EmptySeq DEF TypeOK
<1>4. \A y \in Live' : y \in Live /\ entries'[y] = entries[y]
  BY <1>1, <1>2 DEF Live, TypeOK
<1>5. ~poisoned => \A y \in Live' : Matches(entries'[y], rows, y)
  BY <1>4, TableFacts
<1>6. IndexMatchesRows'
  BY <1>1, <1>5 DEF IndexMatchesRows, Matches
<1>7. UniqueStaysUnique'
  BY <1>1, <1>4 DEF TableIInv, UniqueStaysUnique, Distinct
<1> QED
  BY <1>3, <1>6, <1>7 DEF TableIInv

(* Lemma: a row is added to the table and to every live index.             *)
LEMMA AddStep ==
  ASSUME TableIInv, NEW v \in Values, Add(v)
  PROVE  TableIInv'
<1> DEFINE r == [id \in DOMAIN rows \cup {next_id} |->
                   IF id = next_id THEN v ELSE rows[id]]
<1>1. /\ ~poisoned /\ next_id < MaxAdds /\ rows' = r
      /\ \A x \in Live : check_add(x, v)
      /\ next_id' = next_id + 1 /\ result' = "ok"
      /\ UNCHANGED <<handle, unique, born_unique, poisoned>>
  BY DEF Add, indexVars
<1>2. PICK at \in [Live -> 0..MaxAdds] :
        /\ \A x \in Live : RangeEnd(entries[x], r, x, v[x], at[x])
        /\ entries' = [x \in Indexes |->
                         IF x \in Live
                           THEN Inserted(entries[x], at[x], next_id)
                           ELSE entries[x]]
  BY DEF Add
<1>3. /\ TypeOK /\ RowsOk(rows) /\ Live \subseteq Indexes
      /\ \A x \in Indexes : entries[x] \in Seq(Ids)
      /\ \A x \in Live : Matches(entries[x], rows, x)
  BY <1>1, TableFacts DEF TableIInv
<1>4. next_id \in Ids /\ next_id + 1 \in 0..MaxAdds
  BY <1>1, <1>3, TableAssumption DEF TypeOK, Ids
<1>5. next_id \notin DOMAIN rows
  <2>1. next_id \in Nat
    BY <1>3, TableAssumption DEF TypeOK
  <2>2. ~(next_id < next_id)
    BY <2>1
  <2> QED
    BY <1>3, <2>2 DEF TypeOK
<1>6. /\ DOMAIN r = DOMAIN rows \cup {next_id} /\ r[next_id] = v
      /\ \A id \in DOMAIN rows : r[id] = rows[id]
  BY <1>5
<1> HIDE DEF r
<1>7. RowsOk(r)
  BY <1>3, <1>4, <1>6 DEF RowsOk
<1>8. ASSUME NEW x \in Live
      PROVE  Matches(entries'[x], r, x) /\ entries'[x] \in Seq(Ids)
  <2>1. entries'[x] = Inserted(entries[x], at[x], next_id)
    BY <1>2, <1>3
  <2>2. RangeEnd(entries[x], r, x, r[next_id][x], at[x])
    BY <1>2, <1>6
  <2>3. Matches(Inserted(entries[x], at[x], next_id), r, x)
    BY <1>3, <1>4, <1>5, <1>6, <1>7, <2>2, InsertedMatches
  <2>4. Inserted(entries[x], at[x], next_id) \in Seq(Ids)
    BY <1>3, <1>4, <2>2, InsertedType DEF RangeEnd
  <2> QED
    BY <2>1, <2>3, <2>4
<1>9. Live' = Live
  BY <1>1 DEF Live
<1>10. TypeOK'
  <2>1. entries' \in [Indexes -> Seq(Ids)]
    <3>1. \A x \in Indexes : entries'[x] \in Seq(Ids)
      BY <1>2, <1>3, <1>8
    <3> QED
      BY <1>2, <3>1
  <2>2. \A id \in DOMAIN r : id < next_id + 1
    <3>1. \A id \in DOMAIN rows : id < next_id /\ id \in Int
      BY <1>3 DEF TypeOK, Ids
    <3>2. next_id \in Int
      BY <1>4 DEF Ids
    <3> QED
      BY <1>6, <3>1, <3>2
  <2> QED
    BY <1>1, <1>3, <1>4, <1>7, <2>1, <2>2 DEF TypeOK, RowsOk
<1>11. IndexMatchesRows'
  BY <1>1, <1>8, <1>9 DEF IndexMatchesRows, Matches
<1>12. ASSUME NEW x \in Live, unique[x], born_unique[x]
       PROVE  Distinct(r, x)
  <2>1. Distinct(rows, x)
    BY <1>1, <1>12 DEF TableIInv, UniqueStaysUnique
  <2>2. \A id \in DOMAIN rows : rows[id][x] # v[x]
    BY <1>1, <1>12, CheckAddIsExact
  <2> QED
    BY <1>6, <2>1, <2>2 DEF Distinct
<1>13. UniqueStaysUnique'
  BY <1>1, <1>9, <1>12 DEF UniqueStaysUnique, Distinct
<1> QED
  BY <1>10, <1>11, <1>13 DEF TableIInv

(* Lemma: a row is removed; every live index finds it.                     *)
LEMMA RemoveStep ==
  ASSUME TableIInv, NEW id \in Ids, Remove(id)
  PROVE  TableIInv' /\ ~poisoned'
<1> DEFINE q == [i \in DOMAIN rows \ {id} |-> rows[i]]
<1>1. /\ ~poisoned /\ id \in DOMAIN rows
      /\ UNCHANGED <<next_id, handle, unique, born_unique>>
  BY DEF Remove, indexVars
<1>2. \A x \in Live : Position(x, id) # {}
  BY <1>1, PositionFound
<1>3. rows' = q /\ result' = "ok" /\ UNCHANGED poisoned
  BY <1>2 DEF Remove
<1>4. PICK at \in [Live -> 0..MaxAdds] :
        /\ \A x \in Live : at[x] \in Position(x, id)
        /\ entries' = [x \in Indexes |->
                         IF x \in Live THEN Removed(entries[x], at[x])
                         ELSE entries[x]]
  BY <1>2 DEF Remove
<1>5. /\ TypeOK /\ RowsOk(rows) /\ Live \subseteq Indexes
      /\ \A x \in Indexes : entries[x] \in Seq(Ids)
      /\ \A x \in Live : Matches(entries[x], rows, x)
  BY <1>1, TableFacts DEF TableIInv
<1>6. /\ DOMAIN q = DOMAIN rows \ {id}
      /\ \A i \in DOMAIN q : q[i] = rows[i]
  OBVIOUS
<1> HIDE DEF q
<1>7. ASSUME NEW x \in Live
      PROVE  Matches(entries'[x], q, x) /\ entries'[x] \in Seq(Ids)
  <2>1. entries'[x] = Removed(entries[x], at[x])
    BY <1>4, <1>5
  <2>2. at[x] \in 1..Len(entries[x]) /\ entries[x][at[x]] = id
    BY <1>1, <1>4, PositionFound
  <2>3. /\ DOMAIN q = DOMAIN rows \ {entries[x][at[x]]}
        /\ \A i \in DOMAIN q : q[i][x] = rows[i][x]
    BY <1>6, <2>2
  <2>4. Matches(Removed(entries[x], at[x]), q, x)
    BY <1>5, <2>2, <2>3, RemovedMatches
  <2>5. Removed(entries[x], at[x]) \in Seq(Ids)
    BY <1>5, <2>2, RemovedType
  <2> QED
    BY <2>1, <2>4, <2>5
<1>8. Live' = Live
  BY <1>1 DEF Live
<1>9. TypeOK'
  <2>1. \A x \in Indexes : entries'[x] \in Seq(Ids)
    BY <1>4, <1>5, <1>7
  <2>2. entries' \in [Indexes -> Seq(Ids)]
    BY <1>4, <2>1
  <2> QED
    BY <1>1, <1>3, <1>5, <1>6, <2>2 DEF TypeOK
<1>10. IndexMatchesRows'
  BY <1>3, <1>7, <1>8 DEF IndexMatchesRows, Matches
<1>11. UniqueStaysUnique'
  BY <1>1, <1>3, <1>6, <1>8 DEF TableIInv, UniqueStaysUnique, Distinct
<1> QED
  BY <1>1, <1>3, <1>9, <1>10, <1>11 DEF TableIInv

(* Lemma: an update; the indexes before the first changed key are entered  *)
(* again, and if no key changed these are all the live ones.               *)
LEMMA UpdateStep ==
  ASSUME TableIInv, NEW id \in Ids, NEW v \in Values, Update(id, v)
  PROVE  TableIInv'
<1> DEFINE r == [rows EXCEPT ![id] = v]
           q == [i \in DOMAIN rows \ {id} |-> rows[i]]
           R == Reached(id, v)
<1>1. /\ ~poisoned /\ id \in DOMAIN rows /\ rows' = r
      /\ poisoned' = (\E x \in Live : Changed(x, id, v))
      /\ result' \in {"ok", "panic"}
      /\ UNCHANGED <<next_id, handle, unique, born_unique>>
  BY DEF Update, indexVars
<1>2. \E p, at \in [R -> 0..MaxAdds] :
        /\ \A x \in R :
             /\ p[x] \in Position(x, id)
             /\ RangeEnd(Removed(entries[x], p[x]), r, x, v[x], at[x])
        /\ entries' = [x \in Indexes |->
                         IF x \in R
                           THEN Inserted(Removed(entries[x], p[x]), at[x], id)
                           ELSE entries[x]]
  BY DEF Update
<1>3. PICK p \in [R -> 0..MaxAdds], at \in [R -> 0..MaxAdds] :
        /\ \A x \in R :
             /\ p[x] \in Position(x, id)
             /\ RangeEnd(Removed(entries[x], p[x]), r, x, v[x], at[x])
        /\ entries' = [x \in Indexes |->
                         IF x \in R
                           THEN Inserted(Removed(entries[x], p[x]), at[x], id)
                           ELSE entries[x]]
  BY <1>2
<1>4. /\ TypeOK /\ RowsOk(rows) /\ Live \subseteq Indexes
      /\ \A x \in Indexes : entries[x] \in Seq(Ids)
      /\ \A x \in Live : Matches(entries[x], rows, x)
  BY <1>1, TableFacts DEF TableIInv
<1>5. /\ DOMAIN q = DOMAIN rows \ {id}
      /\ \A i \in DOMAIN q : q[i] = rows[i] /\ r[i] = rows[i]
      /\ DOMAIN r = DOMAIN rows /\ r[id] = v
      /\ DOMAIN r = DOMAIN q \cup {id} /\ id \notin DOMAIN q
  BY <1>1
<1>6. R \subseteq Live /\ \A x \in R : ~Changed(x, id, v)
  <2>1. \A x \in Live : x <= x
    BY <1>4, TableAssumption DEF Indexes
  <2> QED
    BY <2>1 DEF Reached
<1>7. ~poisoned' => R = Live /\ \A x \in Live : ~Changed(x, id, v)
  BY <1>1 DEF Reached
<1> HIDE DEF r, q, R
<1>8. RowsOk(r)
  BY <1>1, <1>4, <1>5 DEF RowsOk
<1>9. ASSUME NEW x \in R
      PROVE  Matches(entries'[x], r, x) /\ entries'[x] \in Seq(Ids)
  <2> DEFINE e == Removed(entries[x], p[x])
  <2>1. /\ x \in Live /\ x \in Indexes
        /\ entries'[x] = Inserted(e, at[x], id)
    BY <1>3, <1>4, <1>6
  <2>2. p[x] \in 1..Len(entries[x]) /\ entries[x][p[x]] = id
    BY <1>1, <1>3, <2>1, PositionFound
  <2>3. /\ DOMAIN q = DOMAIN rows \ {entries[x][p[x]]}
        /\ \A i \in DOMAIN q : q[i][x] = rows[i][x]
    BY <1>5, <2>2
  <2>4. Matches(e, q, x) /\ e \in Seq(Ids)
    BY <1>4, <2>1, <2>2, <2>3, RemovedMatches, RemovedType
  <2>5. RangeEnd(e, r, x, r[id][x], at[x])
    BY <1>3, <1>5
  <2> HIDE DEF e
  <2>6. at[x] \in 0..Len(e)
    BY <2>5 DEF RangeEnd
  <2>7. \A i \in DOMAIN q : r[i][x] = q[i][x]
    BY <1>5
  <2>8. Matches(Inserted(e, at[x], id), r, x)
    BY <1>5, <1>8, <2>1, <2>4, <2>5, <2>7, InsertedMatches
  <2>9. Inserted(e, at[x], id) \in Seq(Ids)
    BY <2>4, <2>6, InsertedType
  <2> QED
    BY <2>1, <2>8, <2>9
<1>10. Live' = Live
  BY <1>1 DEF Live
<1>11. TypeOK'
  <2>1. \A x \in Indexes : entries'[x] \in Seq(Ids)
    BY <1>3, <1>4, <1>9
  <2>2. entries' \in [Indexes -> Seq(Ids)]
    BY <1>3, <2>1
  <2>3. poisoned' \in BOOLEAN
    BY <1>1
  <2>4. \A i \in DOMAIN r : i < next_id
    BY <1>4, <1>5 DEF TypeOK
  <2> QED
    BY <1>1, <1>4, <1>8, <2>2, <2>3, <2>4 DEF TypeOK, RowsOk
<1>12. IndexMatchesRows'
  BY <1>1, <1>7, <1>9, <1>10 DEF IndexMatchesRows, Matches
<1>13. UniqueStaysUnique'
  <2>1. ASSUME ~poisoned', NEW x \in Live
        PROVE  \A i \in DOMAIN rows : r[i][x] = rows[i][x]
    BY <1>5, <1>7, <2>1 DEF Changed
  <2>2. ASSUME ~poisoned', NEW x \in Live, unique[x], born_unique[x]
        PROVE  Distinct(r, x)
    <3>1. Distinct(rows, x)
      BY <1>1, <2>2 DEF TableIInv, UniqueStaysUnique
    <3> QED
      BY <1>5, <2>1, <2>2, <3>1 DEF Distinct
  <2> QED
    BY <1>1, <1>10, <2>2 DEF UniqueStaysUnique, Distinct
<1> QED
  BY <1>11, <1>12, <1>13 DEF TableIInv

(* Lemma: a step that changes nothing but the result and the lock.         *)
LEMMA QuietStep ==
  ASSUME TableIInv, poisoned' \in BOOLEAN, poisoned => poisoned',
         result' \in {"ok", "AlreadyExists", "Nonexistent", "panic"},
         UNCHANGED <<next_id, rows, handle, unique, born_unique, entries>>
  PROVE  TableIInv'
<1>1. Live' = Live
  BY DEF Live
<1>2. TypeOK'
  BY DEF TableIInv, TypeOK
<1>3. IndexMatchesRows'
  BY <1>1 DEF TableIInv, IndexMatchesRows, SortedBy
<1>4. UniqueStaysUnique'
  BY <1>1 DEF TableIInv, UniqueStaysUnique, Distinct
<1> QED
  BY <1>2, <1>3, <1>4 DEF TableIInv

(* Lemma: an operation that is refused, or panics in a check.              *)
LEMMA StoppedStep ==
  ASSUME TableIInv,
         \/ \E v \in Values : AddRefused(v)
         \/ \E id \in Ids : Missing(id)
         \/ \E id \in Ids, v \in Values : UpdateStopped(id, v)
  PROVE  TableIInv'
<1>1. \A x, id, v :
        check_update(x, id, v) \in {"ok", "AlreadyExists", "panic"}
  BY DEF check_update
<1>2. /\ ~poisoned /\ poisoned' \in BOOLEAN
      /\ result' \in {"ok", "AlreadyExists", "Nonexistent", "panic"}
      /\ UNCHANGED <<next_id, rows, handle, unique, born_unique, entries>>
  <2>1. CASE \E v \in Values : AddRefused(v)
    BY <2>1 DEF AddRefused, indexVars, TableIInv, TypeOK
  <2>2. CASE \E id \in Ids : Missing(id)
    BY <2>2 DEF Missing, indexVars, TableIInv, TypeOK
  <2>3. CASE \E id \in Ids, v \in Values : UpdateStopped(id, v)
    <3>1. PICK id \in Ids, v \in Values : UpdateStopped(id, v)
      BY <2>3
    <3>2. PICK x \in Live :
            /\ result' = check_update(x, id, v)
            /\ poisoned' = (check_update(x, id, v) = "panic")
      BY <3>1 DEF UpdateStopped
    <3>3. /\ ~poisoned
          /\ UNCHANGED <<next_id, rows, handle, unique, born_unique, entries>>
      BY <3>1 DEF UpdateStopped, indexVars
    <3>4. result' \in {"ok", "AlreadyExists", "panic"}
      BY <1>1, <3>2
    <3>5. poisoned' \in BOOLEAN
      BY <3>2
    <3> QED
      BY <3>3, <3>4, <3>5
  <2> QED
    BY <2>1, <2>2, <2>3
<1> QED
  BY <1>2, QuietStep

(* Lemma: no step breaks the invariant.                                    *)
LEMMA TableStep == TableIInv /\ [Next]_vars => TableIInv'
<1> SUFFICES ASSUME TableIInv, [Next]_vars PROVE TableIInv'
  OBVIOUS
<1>1. CASE UNCHANGED vars
  <2>1. /\ UNCHANGED <<next_id, rows, handle, unique, born_unique, entries>>
        /\ poisoned' = poisoned /\ result' = result
    BY <1>1 DEF vars
  <2> QED
    BY <2>1, QuietStep DEF TableIInv, TypeOK
<1> QED
  BY <1>1, AddIndexStep, DropIndexStep, AddStep, RemoveStep, UpdateStep,
     StoppedStep DEF Next

-----------------------------------------------------------------------------
(* The invariant holds after every sequence of operations.                 *)
THEOREM TableInvariant == Spec => []TableIInv
BY TableInitIInv, TableStep, PTL DEF Spec

(* The state keeps its types: ids are below next_id, and an index lists    *)
(* ids.                                                                    *)
THEOREM TypeCorrect == Spec => []TypeOK
<1>1. TableIInv => TypeOK
  BY DEF TableIInv
<1> QED
  BY <1>1, TableInvariant, PTL

(* Whatever the rows, keys and indexes, every live index of a table whose  *)
(* lock is not poisoned lists every row once, in key order.                *)
THEOREM IndexMatchesRowsThm == Spec => []IndexMatchesRows
<1>1. TableIInv => IndexMatchesRows
  BY DEF TableIInv
<1> QED
  BY <1>1, TableInvariant, PTL

(* A unique index added over distinct keys keeps them distinct.            *)
THEOREM UniqueStaysUniqueThm == Spec => []UniqueStaysUnique
<1>1. TableIInv => UniqueStaysUnique
  BY DEF TableIInv
<1> QED
  BY <1>1, TableInvariant, PTL

(* find_range and the lookups built on it return exactly the rows with the *)
(* key, wherever the binary search hits.                                   *)
THEOREM LookupIsExactThm == Spec => []LookupIsExact
<1>1. TableIInv => LookupIsExact
  <2> SUFFICES ASSUME TableIInv, ~poisoned, NEW x \in Live, NEW k \in Keys
        PROVE  LET wanted == {id \in DOMAIN rows : rows[id][x] = k}
               IN /\ get_entries(x, k) = wanted
                  /\ \A hit \in Hits(entries[x], rows, x, k) :
                       {entries[x][p] :
                          p \in RunAround(entries[x], rows, x, k, hit)}
                         = wanted
    BY DEF LookupIsExact
  <2>1. /\ RowsOk(rows) /\ x \in Indexes /\ entries[x] \in Seq(Ids)
        /\ Matches(entries[x], rows, x)
    BY TableFacts
  <2>2. {entries[x][p] : p \in Hits(entries[x], rows, x, k)}
          = {id \in DOMAIN rows : rows[id][x] = k}
    BY <2>1 DEF Matches, Hits
  <2>3. find_range(entries[x], rows, x, k) = Hits(entries[x], rows, x, k)
    BY <2>1, FindRangeIsHits
  <2>4. \A hit \in Hits(entries[x], rows, x, k) :
          RunAround(entries[x], rows, x, k, hit)
            = Hits(entries[x], rows, x, k)
    BY <2>1, RunIsHits
  <2> QED
    BY <2>2, <2>3, <2>4 DEF get_entries
<1> QED
  BY <1>1, TableInvariant, PTL

(* Only an update poisons the lock, and only one that changes the key of a *)
(* live index or that meets a unique index added over equal keys.          *)
THEOREM PoisonedByUpdateOnlyThm == Spec => PoisonedByUpdateOnly
<1> DEFINE Cause ==
      /\ DOMAIN rows' = DOMAIN rows
      /\ \/ \E x \in Live, id \in DOMAIN rows : rows'[id][x] # rows[id][x]
         \/ \E x \in Live : unique[x] /\ ~born_unique[x]
<1>1. ASSUME TableIInv, [Next]_vars, ~poisoned, poisoned'
      PROVE  Cause
  <2>1. \/ \E id \in Ids : Remove(id)
        \/ \E id \in Ids, v \in Values : Update(id, v)
        \/ \E id \in Ids, v \in Values : UpdateStopped(id, v)
    BY <1>1 DEF Next, vars, AddIndex, DropIndex, Add, AddRefused, Missing
  <2>2. CASE \E id \in Ids : Remove(id)
    BY <1>1, <2>2, RemoveStep
  <2>3. ASSUME NEW id \in Ids, NEW v \in Values, Update(id, v) PROVE Cause
    <3>1. /\ id \in DOMAIN rows /\ rows' = [rows EXCEPT ![id] = v]
          /\ poisoned' = (\E x \in Live : Changed(x, id, v))
      BY <2>3 DEF Update
    <3>2. PICK x \in Live : rows[id][x] # v[x]
      BY <1>1, <3>1 DEF Changed
    <3>3. rows'[id] = v /\ DOMAIN rows' = DOMAIN rows
      BY <3>1
    <3> QED
      BY <3>1, <3>2, <3>3
  <2>4. ASSUME NEW id \in Ids, NEW v \in Values, UpdateStopped(id, v)
        PROVE  Cause
    <3>1. /\ rows' = rows
          /\ \E x \in Live : poisoned' = (check_update(x, id, v) = "panic")
      <4>1. PICK x \in Live : poisoned' = (check_update(x, id, v) = "panic")
        BY <2>4 DEF UpdateStopped
      <4> QED
        BY <2>4, <4>1 DEF UpdateStopped
    <3>2. PICK x \in Live : check_update(x, id, v) = "panic"
      BY <1>1, <3>1
    <3>3. /\ RowsOk(rows) /\ x \in Indexes /\ entries[x] \in Seq(Ids)
          /\ Matches(entries[x], rows, x)
      BY <1>1, TableFacts
    <3> DEFINE H == Hits(entries[x], rows, x, v[x])
    <3>4. unique[x] /\ H # {} /\ Cardinality(H) # 1
      BY <3>2, <3>3, FindRangeIsHits DEF check_update
    <3>5. ASSUME born_unique[x] PROVE FALSE
      <4>1. Distinct(rows, x)
        BY <1>1, <3>4, <3>5 DEF TableIInv, UniqueStaysUnique
      <4>2. \A i, j \in H : i = j
        BY <3>3, <4>1 DEF Hits, Matches, Distinct
      <4>3. PICK i : H = {i}
        <5> HIDE DEF H
        <5> QED
          BY <3>4, <4>2
      <4> QED
        BY <3>4, <4>3, FS_Singleton
    <3> QED
      BY <3>1, <3>4, <3>5
  <2> QED
    BY <2>1, <2>2, <2>3, <2>4
<1>2. TableIInv /\ [Next]_vars
        => [~poisoned /\ poisoned' => Cause]_vars
  BY <1>1
<1> QED
  BY <1>2, TableInvariant, PTL DEF Spec, PoisonedByUpdateOnly
=============================================================================
