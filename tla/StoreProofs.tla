----------------------------- MODULE StoreProofs -----------------------------
(***************************************************************************)
(* The data stores, the caches and the pages of the Redis cache, for any   *)
(* rows, batches of calls, sizes of pages and clients: each store does     *)
(* what its interface promises, who reads or changes page by page meets    *)
(* every row, and the stores and the proxies before them answer alike.     *)
(***************************************************************************)
EXTENDS MCStores, FiniteSetTheorems, FunctionTheorems, SequenceTheorems, TLAPS

----------------------------------------------------------------------------
(* Ranks in a finite order *)

\* A relation that puts the members of a set one after the other.
Orders(R, K) ==
  /\ \A a \in K : <<a, a>> \notin R
  /\ \A a, b, c \in K : <<a, b>> \in R /\ <<b, c>> \in R => <<a, c>> \in R
  /\ \A a, b \in K : a = b \/ <<a, b>> \in R \/ <<b, a>> \in R

Below(R, K, k) == {h \in K : <<h, k>> \in R}
Rank(R, K, k) == Cardinality(Below(R, K, k))

\* Who comes later has more before it.
LEMMA RanksGrow ==
  ASSUME NEW K, IsFiniteSet(K), NEW R, Orders(R, K),
         NEW a \in K, NEW b \in K
  PROVE  /\ Rank(R, K, a) \in 0 .. Cardinality(K) - 1
         /\ <<a, b>> \in R => Rank(R, K, a) < Rank(R, K, b)
<1> DEFINE A == Below(R, K, a)
           B == Below(R, K, b)
<1>1. A \in SUBSET K /\ a \notin A /\ B \in SUBSET K
  BY DEF Below, Orders
<1>2. IsFiniteSet(A) /\ Cardinality(A) \in Nat /\ IsFiniteSet(B) /\ Cardinality(B) \in Nat
      /\ Cardinality(K) \in Nat
  BY <1>1, FS_Subset, FS_CardinalityType
<1>3. Cardinality(A) < Cardinality(K)
  <2>1. Cardinality(A) <= Cardinality(K) /\ (Cardinality(K) = Cardinality(A) => K = A)
    BY <1>1, FS_Subset
  <2>2. K # A
    BY <1>1
  <2> QED
    BY <2>1, <2>2, <1>2
<1>4. ASSUME <<a, b>> \in R PROVE Cardinality(A) < Cardinality(B)
  <2>1. A \in SUBSET B /\ a \in B
    BY <1>4 DEF Below, Orders
  <2>2. Cardinality(A) <= Cardinality(B) /\ (Cardinality(B) = Cardinality(A) => B = A)
    BY <2>1, <1>2, FS_Subset
  <2>3. B # A
    BY <2>1, <1>1
  <2> QED
    BY <2>2, <2>3, <1>2
<1> QED
  BY <1>2, <1>3, <1>4 DEF Rank

\* The ranks are the numbers from 0.
LEMMA RanksAreAll ==
  ASSUME NEW K, IsFiniteSet(K), NEW R, Orders(R, K)
  PROVE  /\ \A a, b \in K : Rank(R, K, a) = Rank(R, K, b) => a = b
         /\ \A r \in 0 .. Cardinality(K) - 1 : \E k \in K : Rank(R, K, k) = r
<1> DEFINE rank == [k \in K |-> Rank(R, K, k)]
           N == Cardinality(K)
<1>0. N \in Nat
  BY FS_CardinalityType
<1>1. rank \in [K -> 0 .. N - 1]
  BY RanksGrow
<1>2. \A a, b \in K : rank[a] = rank[b] => a = b
  <2> SUFFICES ASSUME NEW a \in K, NEW b \in K, rank[a] = rank[b], a # b PROVE FALSE
    OBVIOUS
  <2>1. <<a, b>> \in R \/ <<b, a>> \in R
    BY DEF Orders
  <2>2. rank[a] < rank[b] \/ rank[b] < rank[a]
    BY <2>1, RanksGrow
  <2> QED
    BY <2>2, <1>1, <1>0
<1>3. rank \in Injection(K, 0 .. N - 1)
  BY <1>1, <1>2, Fun_IsInj
<1>4. IsFiniteSet(0 .. N - 1) /\ Cardinality(0 .. N - 1) = N
  <2>1. IsFiniteSet(0 .. N - 1) /\ Cardinality(0 .. N - 1) = IF 0 > N - 1 THEN 0 ELSE (N - 1) - 0 + 1
    <3> DEFINE top == N - 1
    <3>1. top \in Int
      BY <1>0
    <3>2. IsFiniteSet(0 .. top) /\ Cardinality(0 .. top) = IF 0 > top THEN 0 ELSE top - 0 + 1
      <4> HIDE DEF top
      <4> QED
        BY <3>1, FS_Interval
    <3> QED
      BY <3>2
  <2> QED
    BY <2>1, <1>0
<1>5. rank \in Surjection(K, 0 .. N - 1)
  <2> HIDE DEF rank
  <2> DEFINE T == 0 .. N - 1
  <2>1. rank \in Injection(K, T) /\ IsFiniteSet(T) /\ Cardinality(K) = Cardinality(T)
    BY <1>3, <1>4
  <2> HIDE DEF T
  <2>2. rank \in Surjection(K, T)
    BY <2>1, FS_Injection
  <2> QED
    BY <2>2 DEF T
<1>6. \A r \in 0 .. N - 1 : \E k \in K : rank[k] = r
  <2> HIDE DEF rank
  <2> DEFINE T == 0 .. N - 1
  <2>1. rank \in Surjection(K, T)
    BY <1>5
  <2> HIDE DEF T
  <2>2. \A r \in T : \E k \in K : rank[k] = r
    BY <2>1, Fun_SurjectionProperties
  <2> QED
    BY <2>2 DEF T
<1> QED
  BY <1>2, <1>6

\* Whose rank is less than n: n of them, or all.
Firsts(R, K, n) == {k \in K : Rank(R, K, k) < n}

LEMMA FirstsAre ==
  ASSUME NEW K, IsFiniteSet(K), NEW R, Orders(R, K), NEW n \in Nat
  PROVE  /\ IsFiniteSet(Firsts(R, K, n))
         /\ IF n <= Cardinality(K) THEN Cardinality(Firsts(R, K, n)) = n
                                   ELSE Firsts(R, K, n) = K /\ Cardinality(K) < n
         /\ Cardinality(Firsts(R, K, n)) # n => Firsts(R, K, n) = K
<1> DEFINE F == Firsts(R, K, n)
           N == Cardinality(K)
           rank == [k \in F |-> Rank(R, K, k)]
<1>0. N \in Nat
  BY FS_CardinalityType
<1>1. F \in SUBSET K /\ IsFiniteSet(F)
  <2>1. F \in SUBSET K
    BY DEF Firsts
  <2> QED
    BY <2>1, FS_Subset
<1>2. CASE n <= N
  <2> DEFINE T == 0 .. n - 1
  <2>1. rank \in [F -> T]
    <3>1. \A k \in F : Rank(R, K, k) \in 0 .. N - 1 /\ Rank(R, K, k) < n
      BY <1>1, RanksGrow DEF Firsts
    <3> QED
      BY <3>1, <1>0
  <2>2. \A a, b \in F : rank[a] = rank[b] => a = b
    <3>2. \A a, b \in K : Rank(R, K, a) = Rank(R, K, b) => a = b
      BY RanksAreAll
    <3> QED
      BY <3>2, <1>1
  <2>3. \A t \in T : \E k \in F : rank[k] = t
    <3> SUFFICES ASSUME NEW t \in T PROVE \E k \in F : rank[k] = t
      OBVIOUS
    <3>1. t \in 0 .. N - 1 /\ t < n
      BY <1>0, <1>2
    <3> DEFINE All == \A r \in 0 .. N - 1 : \E k \in K : Rank(R, K, k) = r
    <3>3. All
      BY RanksAreAll
    <3>2. PICK k \in K : Rank(R, K, k) = t
      BY <3>1, <3>3
    <3> QED
      BY <3>1, <3>2 DEF Firsts
  <2>4. rank \in Bijection(F, T)
    <3> HIDE DEF rank, T, F
    <3> QED
      BY <2>1, <2>2, <2>3, Fun_IsBij
  <2>5. Cardinality(T) = n
    <3> DEFINE top == n - 1
    <3>1. top \in Int /\ top + 1 = n /\ (0 > top => n = 0)
      OBVIOUS
    <3>2. Cardinality(0 .. top) = IF 0 > top THEN 0 ELSE top - 0 + 1
      <4> HIDE DEF top
      <4> QED
        BY <3>1, FS_Interval
    <3> QED
      BY <3>1, <3>2
  <2>6. Cardinality(T) = Cardinality(F)
    <3> HIDE DEF T, F, rank
    <3>1. ExistsBijection(F, T)
      BY <2>4 DEF ExistsBijection
    <3> QED
      BY <3>1, <1>1, FS_Bijection
  <2> QED
    BY <1>1, <1>2, <2>5, <2>6
<1>3. CASE ~ n <= N
  <2>0. \A k \in K : Rank(R, K, k) \in 0 .. N - 1
    BY RanksGrow
  <2>1. F = K
    BY <1>0, <1>3, <2>0 DEF Firsts
  <2> QED
    BY <1>0, <1>1, <1>3, <2>1
<1> QED
  BY <1>2, <1>3

\* Some member comes first, some last.
LEMMA EndsOfOrders ==
  ASSUME NEW K, IsFiniteSet(K), K # {}, NEW R, Orders(R, K)
  PROVE  /\ \E k \in K : \A h \in K : h = k \/ <<k, h>> \in R
         /\ \E k \in K : \A h \in K : h = k \/ <<h, k>> \in R
<1> DEFINE N == Cardinality(K)
<1>1. N \in Nat /\ N # 0
  BY FS_CardinalityType, FS_EmptySet
<1>0. \A r \in 0 .. N - 1 : \E k \in K : Rank(R, K, k) = r
  BY RanksAreAll
<1>2. PICK first \in K : Rank(R, K, first) = 0
  BY <1>0, <1>1
<1>3. PICK last \in K : Rank(R, K, last) = N - 1
  BY <1>0, <1>1
<1>4. ASSUME NEW h \in K, h # first PROVE <<first, h>> \in R
  <2>1. Rank(R, K, h) \in 0 .. N - 1
    BY RanksGrow
  <2>2. <<h, first>> \notin R
    BY <2>1, <1>1, <1>2, RanksGrow
  <2> QED
    BY <1>4, <2>2 DEF Orders
<1>5. ASSUME NEW h \in K, h # last PROVE <<h, last>> \in R
  <2>1. Rank(R, K, h) \in 0 .. N - 1
    BY RanksGrow
  <2>2. <<last, h>> \notin R
    BY <2>1, <1>1, <1>3, RanksGrow
  <2> QED
    BY <1>5, <2>2 DEF Orders
<1> QED
  BY <1>4, <1>5
----------------------------------------------------------------------------
(* Pages *)

Kinds == {"users", "items", "feedback"}
KeySet(kind) == IF kind = "feedback" THEN FeedbackKeys ELSE Nat
Before(kind) ==
  IF kind = "feedback" THEN {p \in FeedbackKeys \X FeedbackKeys : KeyBefore(p[1], p[2])}
  ELSE {p \in Nat \X Nat : p[1] < p[2]}

LEMMA KeysAreOrdered ==
  ASSUME NEW kind \in Kinds, NEW K, K \subseteq KeySet(kind)
  PROVE  Orders(Before(kind), K)
<1>1. CASE kind = "feedback"
  <2>1. \A a, b \in FeedbackKeys : <<a, b>> \in Before(kind) <=> KeyBefore(a, b)
    BY <1>1 DEF Before
  <2>2. \A a \in FeedbackKeys : ~KeyBefore(a, a)
    BY DEF FeedbackKeys, KeyBefore
  <2>3. \A a, b, c \in FeedbackKeys : KeyBefore(a, b) /\ KeyBefore(b, c) => KeyBefore(a, c)
    BY DEF FeedbackKeys, KeyBefore
  <2>4. \A a, b \in FeedbackKeys : a = b \/ KeyBefore(a, b) \/ KeyBefore(b, a)
    <3> SUFFICES ASSUME NEW a \in FeedbackKeys, NEW b \in FeedbackKeys,
                        ~KeyBefore(a, b), ~KeyBefore(b, a)
                 PROVE  a = b
      OBVIOUS
    <3>1. a.type = b.type /\ a.user = b.user /\ a.item = b.item
      BY DEF FeedbackKeys, KeyBefore
    <3>2. a = [type |-> a.type, user |-> a.user, item |-> a.item]
          /\ b = [type |-> b.type, user |-> b.user, item |-> b.item]
      BY DEF FeedbackKeys
    <3> QED
      BY <3>1, <3>2
  <2>5. K \subseteq FeedbackKeys
    BY <1>1 DEF KeySet
  <2>6. /\ \A a \in K : <<a, a>> \notin Before(kind)
        /\ \A a, b \in K : a = b \/ <<a, b>> \in Before(kind) \/ <<b, a>> \in Before(kind)
    BY <2>1, <2>2, <2>4, <2>5, Zenon
  <2>7. ASSUME NEW a \in K, NEW b \in K, NEW c \in K, <<a, b>> \in Before(kind), <<b, c>> \in Before(kind)
        PROVE  <<a, c>> \in Before(kind)
    <3>1. a \in FeedbackKeys /\ b \in FeedbackKeys /\ c \in FeedbackKeys
      BY <2>5
    <3>2. KeyBefore(a, b) /\ KeyBefore(b, c)
      BY <2>7, <2>1, <3>1, Zenon
    <3> QED
      BY <2>1, <2>3, <3>1, <3>2, Zenon
  <2> QED
    BY <2>6, <2>7 DEF Orders
<1>2. CASE kind # "feedback"
  <2>1. \A a, b \in Nat : <<a, b>> \in Before(kind) <=> a < b
    BY <1>2 DEF Before
  <2>2. K \subseteq Nat
    BY <1>2 DEF KeySet
  <2> QED
    BY <2>1, <2>2 DEF Orders
<1> QED
  BY <1>1, <1>2

\* The first n of a set: all, or everything up to the last of them.
LastOf(R, F) == CHOOSE k \in F : \A h \in F : h = k \/ <<h, k>> \in R

LEMMA PageIs ==
  ASSUME NEW K, IsFiniteSet(K), NEW R, Orders(R, K), NEW n \in Nat \ {0}
  PROVE  LET F == Firsts(R, K, n)
             last == LastOf(R, F)
         IN  IF Cardinality(F) = n
               THEN last \in K /\ F = {k \in K : k = last \/ <<k, last>> \in R}
               ELSE F = K
<1> DEFINE F == Firsts(R, K, n)
           last == LastOf(R, F)
<1>1. IsFiniteSet(F) /\ F \in SUBSET K /\ (Cardinality(F) # n => F = K)
  BY FirstsAre DEF Firsts
<1>2. ASSUME Cardinality(F) = n
      PROVE  last \in K /\ F = {k \in K : k = last \/ <<k, last>> \in R}
  <2>1. F # {}
    BY <1>2, FS_EmptySet
  <2>2. Orders(R, F)
    BY <1>1 DEF Orders
  <2>3. \E k \in F : \A h \in F : h = k \/ <<h, k>> \in R
    <3> HIDE DEF F
    <3> QED
      BY <1>1, <2>1, <2>2, EndsOfOrders
  <2>4. last \in F /\ \A h \in F : h = last \/ <<h, last>> \in R
    <3> HIDE DEF F
    <3> QED
      BY <2>3 DEF LastOf
  <2>5. ASSUME NEW k \in K, <<k, last>> \in R PROVE k \in F
    <3> HIDE DEF last
    <3>0. last \in K /\ Rank(R, K, last) < n
      BY <2>4 DEF Firsts
    <3>1. Rank(R, K, k) < Rank(R, K, last) /\ Rank(R, K, k) \in 0 .. Cardinality(K) - 1
          /\ Rank(R, K, last) \in 0 .. Cardinality(K) - 1
      BY <3>0, <2>5, RanksGrow
    <3>2. Cardinality(K) \in Nat
      BY FS_CardinalityType
    <3> QED
      BY <3>0, <3>1, <3>2 DEF Firsts
  <2> QED
    BY <1>1, <2>4, <2>5
<1> QED
  BY <1>1, <1>2
----------------------------------------------------------------------------
(* Tables and batches *)

IsTable(t, keys) == IsRecord(t) /\ IsFiniteSet(DOMAIN t) /\ DOMAIN t \subseteq keys

LEMMA FunctionIsRecord ==
  ASSUME NEW D, NEW g
  PROVE  IsRecord([x \in D |-> g[x]]) /\ DOMAIN [x \in D |-> g[x]] = D
  BY DEF IsRecord

LEMMA OverIs ==
  ASSUME NEW new, NEW old
  PROVE  /\ IsRecord(Over(new, old))
         /\ DOMAIN Over(new, old) = DOMAIN new \cup DOMAIN old
         /\ \A k \in DOMAIN new : Over(new, old)[k] = new[k]
         /\ \A k \in DOMAIN old \ DOMAIN new : Over(new, old)[k] = old[k]
  BY DEF Over, IsRecord

LEMMA WithoutIs ==
  ASSUME NEW t, NEW keys
  PROVE  /\ IsRecord(Without(t, keys))
         /\ DOMAIN Without(t, keys) = DOMAIN t \ keys
         /\ \A k \in DOMAIN t \ keys : Without(t, keys)[k] = t[k]
  BY DEF Without, IsRecord

LEMMA EmptyTableIs ==
  ASSUME NEW keys
  PROVE  IsTable(EmptyTable, keys) /\ DOMAIN EmptyTable = {}
  BY FS_EmptySet DEF IsTable, EmptyTable, IsRecord

LEMMA OverIsTable ==
  ASSUME NEW keys, NEW new, NEW old, IsTable(new, keys), IsTable(old, keys)
  PROVE  IsTable(Over(new, old), keys)
<1>1. DOMAIN Over(new, old) = DOMAIN new \cup DOMAIN old /\ IsRecord(Over(new, old))
  BY OverIs
<1>2. IsFiniteSet(DOMAIN new \cup DOMAIN old)
  BY FS_Union DEF IsTable
<1> QED
  BY <1>1, <1>2 DEF IsTable

LEMMA WithoutIsTable ==
  ASSUME NEW keys, NEW t, NEW gone, IsTable(t, keys)
  PROVE  IsTable(Without(t, gone), keys)
<1>1. DOMAIN Without(t, gone) = DOMAIN t \ gone /\ IsRecord(Without(t, gone))
  BY WithoutIs
<1>2. IsFiniteSet(DOMAIN t \ gone)
  BY FS_Difference DEF IsTable
<1> QED
  BY <1>1, <1>2 DEF IsTable

\* The row of a key that is written first or last is one of its rows.
IsRowOf(rows, k, row) == \E j \in DOMAIN rows : rows[j].key = k /\ rows[j].row = row

LEMMA BatchRows ==
  ASSUME NEW rows, IsBatch(rows)
  PROVE  /\ DOMAIN FirstRows(rows) = KeysOf(rows) /\ DOMAIN LastRows(rows) = KeysOf(rows)
         /\ \A k \in KeysOf(rows) : IsRowOf(rows, k, FirstRows(rows)[k]) /\ IsRowOf(rows, k, LastRows(rows)[k])
         /\ IsFiniteSet(KeysOf(rows))
<1>1. DOMAIN FirstRows(rows) = KeysOf(rows) /\ DOMAIN LastRows(rows) = KeysOf(rows)
  BY DEF FirstRows, LastRows
<1>2. IsFiniteSet(DOMAIN rows) /\ DOMAIN rows \subseteq Nat
  <2> DEFINE n == Len(rows)
  <2>1. n \in Nat /\ DOMAIN rows = 1 .. n
    BY DEF IsBatch
  <2>2. IsFiniteSet(1 .. n)
    <3> HIDE DEF n
    <3> QED
      BY <2>1, FS_Interval
  <2> QED
    BY <2>1, <2>2
<1>3. ASSUME NEW k \in KeysOf(rows)
      PROVE  IsRowOf(rows, k, FirstRows(rows)[k]) /\ IsRowOf(rows, k, LastRows(rows)[k])
  <2> DEFINE J == {j \in DOMAIN rows : rows[j].key = k}
             R == {p \in Nat \X Nat : p[1] < p[2]}
             first == CHOOSE j \in DOMAIN rows :
                        rows[j].key = k /\ \A h \in DOMAIN rows : rows[h].key = k => j <= h
             last == CHOOSE j \in DOMAIN rows :
                        rows[j].key = k /\ \A h \in DOMAIN rows : rows[h].key = k => h <= j
  <2>1. J # {} /\ IsFiniteSet(J) /\ J \subseteq Nat
    <3>1. J # {}
      BY DEF KeysOf
    <3>2. J \in SUBSET DOMAIN rows
      OBVIOUS
    <3> QED
      BY <3>1, <3>2, <1>2, FS_Subset
  <2>2. \A a, b \in J : <<a, b>> \in R <=> a < b
    BY <2>1
  <2>3. Orders(R, J)
    <3> HIDE DEF R, J
    <3> QED
      BY <2>1, <2>2 DEF Orders
  <2>4. /\ \E j \in J : \A h \in J : h = j \/ <<j, h>> \in R
        /\ \E j \in J : \A h \in J : h = j \/ <<h, j>> \in R
    <3> HIDE DEF R, J
    <3> QED
      BY <2>1, <2>3, EndsOfOrders
  <2>5. /\ \E j \in J : \A h \in J : j <= h
        /\ \E j \in J : \A h \in J : h <= j
    <3> HIDE DEF R, J
    <3>1. PICK least \in J : \A h \in J : h = least \/ <<least, h>> \in R
      BY <2>4
    <3>2. PICK most \in J : \A h \in J : h = most \/ <<h, most>> \in R
      BY <2>4
    <3>3. ASSUME NEW h \in J PROVE least <= h
      <4>1. h \in Nat /\ least \in Nat
        BY <2>1
      <4>2. h = least \/ least < h
        BY <2>2, <3>1, Zenon
      <4> QED
        BY <4>1, <4>2
    <3>4. ASSUME NEW h \in J PROVE h <= most
      <4>1. h \in Nat /\ most \in Nat
        BY <2>1
      <4>2. h = most \/ h < most
        BY <2>2, <3>2, Zenon
      <4> QED
        BY <4>1, <4>2
    <3> QED
      BY <3>3, <3>4
  <2>6. first \in DOMAIN rows /\ rows[first].key = k
    BY <2>5
  <2>7. last \in DOMAIN rows /\ rows[last].key = k
    BY <2>5
  <2>8. FirstRows(rows)[k] = rows[first].row /\ LastRows(rows)[k] = rows[last].row
    BY DEF FirstRows, LastRows
  <2> HIDE DEF first, last
  <2> QED
    BY <2>6, <2>7, <2>8 DEF IsRowOf
<1>4. IsFiniteSet(KeysOf(rows))
  <2> DEFINE f == [j \in DOMAIN rows |-> rows[j].key]
  <2>1. f \in Surjection(DOMAIN rows, KeysOf(rows))
    <3>1. f \in [DOMAIN rows -> KeysOf(rows)] /\ \A k \in KeysOf(rows) : \E j \in DOMAIN rows : f[j] = k
      BY DEF KeysOf
    <3> HIDE DEF f
    <3> QED
      BY <3>1, Fun_IsSurj
  <2> HIDE DEF f
  <2> QED
    BY <2>1, <1>2, FS_Surjection
<1> QED
  BY <1>1, <1>3, <1>4

LEMMA BatchTables ==
  ASSUME NEW rows, IsBatch(rows), NEW keys, KeysOf(rows) \subseteq keys
  PROVE  /\ IsTable(FirstRows(rows), keys) /\ IsTable(LastRows(rows), keys)
         /\ FirstRows(rows) \in ChosenRows(rows) /\ LastRows(rows) \in ChosenRows(rows)
<1> DEFINE first == FirstRows(rows)
           last == LastRows(rows)
<1>1. IsRecord(first) /\ IsRecord(last)
  BY DEF IsRecord, FirstRows, LastRows
<1>2. DOMAIN first = KeysOf(rows) /\ DOMAIN last = KeysOf(rows) /\ IsFiniteSet(KeysOf(rows))
  BY BatchRows
<1>3. \A k \in KeysOf(rows) : IsRowOf(rows, k, first[k]) /\ IsRowOf(rows, k, last[k])
  BY BatchRows
<1> HIDE DEF first, last
<1>4. first \in ChosenRows(rows) /\ last \in ChosenRows(rows)
  BY <1>1, <1>2, <1>3 DEF ChosenRows, IsRowOf, IsRecord
<1>5. IsTable(first, keys) /\ IsTable(last, keys)
  BY <1>1, <1>2 DEF IsTable
<1> QED
  BY <1>4, <1>5 DEF first, last

\* Any choice of the rows is a table of rows.
LEMMA ChosenTable ==
  ASSUME NEW rows, IsBatch(rows), NEW keys, KeysOf(rows) \subseteq keys, NEW new \in ChosenRows(rows)
  PROVE  IsTable(new, keys) /\ DOMAIN new = KeysOf(rows)
         /\ \A k \in DOMAIN new : \E j \in DOMAIN rows : new[k] = rows[j].row
<1>1. IsFiniteSet(KeysOf(rows))
  BY BatchRows
<1>2. new \in [KeysOf(rows) -> {rows[j].row : j \in DOMAIN rows}]
  BY DEF ChosenRows
<1>3. DOMAIN new = KeysOf(rows) /\ \A k \in DOMAIN new : \E j \in DOMAIN rows : new[k] = rows[j].row
  BY <1>2
<1>4. IsRecord(new)
  BY <1>2 DEF IsRecord
<1> QED
  BY <1>1, <1>3, <1>4 DEF IsTable
----------------------------------------------------------------------------
(* What a call does to the tables of a store, from d to e *)

Shape(d) == d = [users |-> d.users, items |-> d.items, feedback |-> d.feedback]
DataOK(d) ==
  /\ Shape(d)
  /\ IsTable(d.users, Nat) /\ \A u \in DOMAIN d.users : IsRecord(d.users[u])
  /\ IsTable(d.items, Nat) /\ \A i \in DOMAIN d.items : IsTimed(d.items[i])
  /\ IsTable(d.feedback, FeedbackKeys) /\ \A k \in DOMAIN d.feedback : d.feedback[k] \in Nat

OnlyUsers(d, e) == Shape(e) /\ e.items = d.items /\ e.feedback = d.feedback
OnlyItems(d, e) == Shape(e) /\ e.users = d.users /\ e.feedback = d.feedback

PutsUsers(d, e, rows) ==
  OnlyUsers(d, e) /\ \E new \in ChosenRows(rows) : e.users = Over(new, d.users)
PutsItems(d, e, rows) ==
  OnlyItems(d, e) /\ \E new \in ChosenRows(rows) : e.items = Over(new, d.items)

Named(rows) == {k.user : k \in KeysOf(rows)}
NamedItems(rows) == {k.item : k \in KeysOf(rows)}
Blank(ids, table, row) == [k \in ids \ DOMAIN table |-> row]
Known(table, us, is) == [k \in {k \in DOMAIN table : k.user \in us /\ k.item \in is} |-> table[k]]

PutsFeedback(d, e, rows, iu, ii, ow) ==
  /\ Shape(e)
  /\ e.users = IF iu THEN Over(d.users, Blank(Named(rows), d.users, BlankUser)) ELSE d.users
  /\ e.items = IF ii THEN Over(d.items, Blank(NamedItems(rows), d.items, BlankItem)) ELSE d.items
  /\ \E chosen \in ChosenRows(rows) :
       e.feedback = IF ow THEN Over(Known(chosen, DOMAIN e.users, DOMAIN e.items), d.feedback)
                    ELSE Over(d.feedback, Known(chosen, DOMAIN e.users, DOMAIN e.items))

PatchesUser(d, e, u, patch) ==
  OnlyUsers(d, e) /\ u \in DOMAIN d.users /\ e.users = [d.users EXCEPT ![u] = Over(patch, @)]
PatchesItem(d, e, i, patch) ==
  OnlyItems(d, e) /\ i \in DOMAIN d.items /\ e.items = [d.items EXCEPT ![i] = Over(patch, @)]

RemovesUser(d, e, u) ==
  /\ Shape(e) /\ e.items = d.items /\ e.users = Without(d.users, {u})
  /\ e.feedback = Without(d.feedback, {k \in DOMAIN d.feedback : k.user = u})
RemovesItem(d, e, i) ==
  /\ Shape(e) /\ e.users = d.users /\ e.items = Without(d.items, {i})
  /\ e.feedback = Without(d.feedback, {k \in DOMAIN d.feedback : k.item = i})
RemovesFeedback(d, e, u, i) ==
  /\ Shape(e) /\ e.users = d.users /\ e.items = d.items
  /\ \E types \in SUBSET {k.type : k \in DOMAIN d.feedback} :
       e.feedback = Without(d.feedback, {k \in DOMAIN d.feedback :
                                           k.user = u /\ k.item = i /\ k.type \in types})
RemovesAll(e) == Shape(e) /\ e.users = EmptyTable /\ e.items = EmptyTable /\ e.feedback = EmptyTable

Promised(d, e) ==
  \/ \E rows \in UserBatches : PutsUsers(d, e, rows)
  \/ \E rows \in ItemBatches : PutsItems(d, e, rows)
  \/ \E rows \in FeedbackBatches, iu, ii, ow \in BOOLEAN : PutsFeedback(d, e, rows, iu, ii, ow)
  \/ \E u \in UserIds, p \in UserPatches : PatchesUser(d, e, u, p)
  \/ \E i \in ItemIds, p \in ItemPatches : PatchesItem(d, e, i, p)
  \/ \E u \in UserIds : RemovesUser(d, e, u)
  \/ \E i \in ItemIds : RemovesItem(d, e, i)
  \/ \E u \in UserIds, i \in ItemIds : RemovesFeedback(d, e, u, i)
  \/ RemovesAll(e)

\* This is the next-state relation of DataStore.
LEMMA SQLPromise ==
  ASSUME Promised(sql, sql') PROVE SQLStore!Next
<1>1. ASSUME NEW rows \in UserBatches, PutsUsers(sql, sql', rows) PROVE SQLStore!PutUsers(rows)
  BY <1>1 DEF PutsUsers, OnlyUsers, SQLStore!PutUsers, SQLStore!ChosenRows, SQLStore!Over, SQLStore!KeysOf,
     ChosenRows, Over, KeysOf
<1>2. ASSUME NEW rows \in ItemBatches, PutsItems(sql, sql', rows) PROVE SQLStore!PutItems(rows)
  BY <1>2 DEF PutsItems, OnlyItems, SQLStore!PutItems, SQLStore!ChosenRows, SQLStore!Over, SQLStore!KeysOf,
     ChosenRows, Over, KeysOf
<1>3. ASSUME NEW rows \in FeedbackBatches, NEW iu \in BOOLEAN, NEW ii \in BOOLEAN, NEW ow \in BOOLEAN,
             PutsFeedback(sql, sql', rows, iu, ii, ow)
      PROVE  SQLStore!PutFeedback(rows, iu, ii, ow)
  BY <1>3 DEF PutsFeedback, SQLStore!PutFeedback, SQLStore!ChosenRows, SQLStore!Over, SQLStore!KeysOf,
     SQLStore!Unknown, SQLStore!UsersOf, SQLStore!ItemsOf, SQLStore!KnownRows,
     Named, NamedItems, Blank, Known, ChosenRows, Over, KeysOf
<1>4. ASSUME NEW u, NEW p, PatchesUser(sql, sql', u, p) PROVE SQLStore!PatchUser(u, p)
  BY <1>4 DEF PatchesUser, OnlyUsers, SQLStore!PatchUser, SQLStore!Over, Over
<1>5. ASSUME NEW i, NEW p, PatchesItem(sql, sql', i, p) PROVE SQLStore!PatchItem(i, p)
  BY <1>5 DEF PatchesItem, OnlyItems, SQLStore!PatchItem, SQLStore!Over, Over
<1>6. ASSUME NEW u, RemovesUser(sql, sql', u) PROVE SQLStore!RemoveUser(u)
  BY <1>6 DEF RemovesUser, SQLStore!RemoveUser, SQLStore!Without, Without
<1>7. ASSUME NEW i, RemovesItem(sql, sql', i) PROVE SQLStore!RemoveItem(i)
  BY <1>7 DEF RemovesItem, SQLStore!RemoveItem, SQLStore!Without, Without
<1>8. ASSUME NEW u, NEW i, RemovesFeedback(sql, sql', u, i) PROVE SQLStore!RemoveFeedback(u, i)
  BY <1>8 DEF RemovesFeedback, SQLStore!RemoveFeedback, SQLStore!Without, Without
<1>9. ASSUME RemovesAll(sql') PROVE SQLStore!RemoveAll
  BY <1>9 DEF RemovesAll, SQLStore!RemoveAll, SQLStore!EmptyTable, EmptyTable
<1> QED
  BY <1>1, <1>2, <1>3, <1>4, <1>5, <1>6, <1>7, <1>8, <1>9, Zenon DEF Promised, SQLStore!Next, UserIds, ItemIds

LEMMA MongoPromise ==
  ASSUME Promised(mongo, mongo') PROVE MongoStore!Next
<1>1. ASSUME NEW rows \in UserBatches, PutsUsers(mongo, mongo', rows) PROVE MongoStore!PutUsers(rows)
  BY <1>1 DEF PutsUsers, OnlyUsers, MongoStore!PutUsers, MongoStore!ChosenRows, MongoStore!Over, MongoStore!KeysOf,
     ChosenRows, Over, KeysOf
<1>2. ASSUME NEW rows \in ItemBatches, PutsItems(mongo, mongo', rows) PROVE MongoStore!PutItems(rows)
  BY <1>2 DEF PutsItems, OnlyItems, MongoStore!PutItems, MongoStore!ChosenRows, MongoStore!Over, MongoStore!KeysOf,
     ChosenRows, Over, KeysOf
<1>3. ASSUME NEW rows \in FeedbackBatches, NEW iu \in BOOLEAN, NEW ii \in BOOLEAN, NEW ow \in BOOLEAN,
             PutsFeedback(mongo, mongo', rows, iu, ii, ow)
      PROVE  MongoStore!PutFeedback(rows, iu, ii, ow)
  BY <1>3 DEF PutsFeedback, MongoStore!PutFeedback, MongoStore!ChosenRows, MongoStore!Over, MongoStore!KeysOf,
     MongoStore!Unknown, MongoStore!UsersOf, MongoStore!ItemsOf, MongoStore!KnownRows,
     Named, NamedItems, Blank, Known, ChosenRows, Over, KeysOf
<1>4. ASSUME NEW u, NEW p, PatchesUser(mongo, mongo', u, p) PROVE MongoStore!PatchUser(u, p)
  BY <1>4 DEF PatchesUser, OnlyUsers, MongoStore!PatchUser, MongoStore!Over, Over
<1>5. ASSUME NEW i, NEW p, PatchesItem(mongo, mongo', i, p) PROVE MongoStore!PatchItem(i, p)
  BY <1>5 DEF PatchesItem, OnlyItems, MongoStore!PatchItem, MongoStore!Over, Over
<1>6. ASSUME NEW u, RemovesUser(mongo, mongo', u) PROVE MongoStore!RemoveUser(u)
  BY <1>6 DEF RemovesUser, MongoStore!RemoveUser, MongoStore!Without, Without
<1>7. ASSUME NEW i, RemovesItem(mongo, mongo', i) PROVE MongoStore!RemoveItem(i)
  BY <1>7 DEF RemovesItem, MongoStore!RemoveItem, MongoStore!Without, Without
<1>8. ASSUME NEW u, NEW i, RemovesFeedback(mongo, mongo', u, i) PROVE MongoStore!RemoveFeedback(u, i)
  BY <1>8 DEF RemovesFeedback, MongoStore!RemoveFeedback, MongoStore!Without, Without
<1>9. ASSUME RemovesAll(mongo') PROVE MongoStore!RemoveAll
  BY <1>9 DEF RemovesAll, MongoStore!RemoveAll, MongoStore!EmptyTable, EmptyTable
<1> QED
  BY <1>1, <1>2, <1>3, <1>4, <1>5, <1>6, <1>7, <1>8, <1>9, Zenon DEF Promised, MongoStore!Next, UserIds, ItemIds,
     MongoStore!UserIds, MongoStore!ItemIds, SQLStore!UserIds, SQLStore!ItemIds, MongoStore!KeysOf, SQLStore!KeysOf
----------------------------------------------------------------------------
(* The tables keep their types *)

LEMMA ExceptIs ==
  ASSUME NEW keys, NEW t, IsTable(t, keys), NEW k \in DOMAIN t, NEW x
  PROVE  /\ IsTable([t EXCEPT ![k] = x], keys) /\ DOMAIN [t EXCEPT ![k] = x] = DOMAIN t
         /\ [t EXCEPT ![k] = x][k] = x
         /\ \A h \in DOMAIN t \ {k} : [t EXCEPT ![k] = x][h] = t[h]
<1> DEFINE s == [t EXCEPT ![k] = x]
<1>1. t = [h \in DOMAIN t |-> t[h]]
  BY DEF IsTable, IsRecord
<1>2. DOMAIN s = DOMAIN t /\ s[k] = x /\ \A h \in DOMAIN t \ {k} : s[h] = t[h]
  BY <1>1
<1>3. s = [h \in DOMAIN s |-> s[h]]
  BY <1>1
<1> QED
  BY <1>2, <1>3 DEF IsTable, IsRecord

LEMMA UsersKeepTypes ==
  ASSUME NEW d, DataOK(d), NEW e, OnlyUsers(d, e),
         IsTable(e.users, Nat), \A u \in DOMAIN e.users : IsRecord(e.users[u])
  PROVE  DataOK(e)
  BY DEF DataOK, OnlyUsers

LEMMA ItemsKeepTypes ==
  ASSUME NEW d, DataOK(d), NEW e, OnlyItems(d, e),
         IsTable(e.items, Nat), \A i \in DOMAIN e.items : IsTimed(e.items[i])
  PROVE  DataOK(e)
  BY DEF DataOK, OnlyItems

LEMMA UserRowsAreRecords ==
  ASSUME NEW new, NEW old, \A u \in DOMAIN new : IsRecord(new[u]), \A u \in DOMAIN old : IsRecord(old[u])
  PROVE  \A u \in DOMAIN Over(new, old) : IsRecord(Over(new, old)[u])
<1>1. /\ DOMAIN Over(new, old) = DOMAIN new \cup DOMAIN old
      /\ \A k \in DOMAIN new : Over(new, old)[k] = new[k]
      /\ \A k \in DOMAIN old \ DOMAIN new : Over(new, old)[k] = old[k]
  BY OverIs
<1> QED
  BY <1>1

LEMMA ItemRowsAreTimed ==
  ASSUME NEW new, NEW old, \A i \in DOMAIN new : IsTimed(new[i]), \A i \in DOMAIN old : IsTimed(old[i])
  PROVE  \A i \in DOMAIN Over(new, old) : IsTimed(Over(new, old)[i])
<1>1. /\ DOMAIN Over(new, old) = DOMAIN new \cup DOMAIN old
      /\ \A k \in DOMAIN new : Over(new, old)[k] = new[k]
      /\ \A k \in DOMAIN old \ DOMAIN new : Over(new, old)[k] = old[k]
  BY OverIs
<1> QED
  BY <1>1

LEMMA FeedbackIsStamped ==
  ASSUME NEW new, NEW old, \A k \in DOMAIN new : new[k] \in Nat, \A k \in DOMAIN old : old[k] \in Nat
  PROVE  \A k \in DOMAIN Over(new, old) : Over(new, old)[k] \in Nat
<1>1. /\ DOMAIN Over(new, old) = DOMAIN new \cup DOMAIN old
      /\ \A k \in DOMAIN new : Over(new, old)[k] = new[k]
      /\ \A k \in DOMAIN old \ DOMAIN new : Over(new, old)[k] = old[k]
  BY OverIs
<1> QED
  BY <1>1

\* A row that is patched is still one.
LEMMA PatchedRow ==
  ASSUME NEW patch, NEW row, IsTimed(row),
         "timestamp" \in DOMAIN patch => patch["timestamp"] \in Nat
  PROVE  IsTimed(Over(patch, row))
<1>1. /\ IsRecord(Over(patch, row))
      /\ DOMAIN Over(patch, row) = DOMAIN patch \cup DOMAIN row
      /\ \A k \in DOMAIN patch : Over(patch, row)[k] = patch[k]
      /\ \A k \in DOMAIN row \ DOMAIN patch : Over(patch, row)[k] = row[k]
  BY OverIs
<1> QED
  BY <1>1 DEF IsTimed

LEMMA PatchesKeepTypes ==
  ASSUME NEW d, DataOK(d), NEW e, NEW k, NEW patch
  PROVE  /\ PatchesUser(d, e, k, patch) => DataOK(e)
         /\ ("timestamp" \in DOMAIN patch => patch["timestamp"] \in Nat) /\ PatchesItem(d, e, k, patch)
              => DataOK(e)
<1>1. ASSUME PatchesUser(d, e, k, patch) PROVE DataOK(e)
  <2> DEFINE row == Over(patch, d.users[k])
  <2>1. k \in DOMAIN d.users /\ e.users = [d.users EXCEPT ![k] = row] /\ OnlyUsers(d, e)
    BY <1>1 DEF PatchesUser
  <2>2. IsRecord(row)
    BY OverIs
  <2>3. IsTable(d.users, Nat) /\ \A u \in DOMAIN d.users : IsRecord(d.users[u])
    BY DEF DataOK
  <2> HIDE DEF row
  <2>4. IsTable(e.users, Nat) /\ \A u \in DOMAIN e.users : IsRecord(e.users[u])
    BY <2>1, <2>2, <2>3, ExceptIs
  <2> QED
    BY <2>1, <2>4, UsersKeepTypes
<1>2. ASSUME "timestamp" \in DOMAIN patch => patch["timestamp"] \in Nat, PatchesItem(d, e, k, patch)
      PROVE  DataOK(e)
  <2> DEFINE row == Over(patch, d.items[k])
  <2>1. k \in DOMAIN d.items /\ e.items = [d.items EXCEPT ![k] = row] /\ OnlyItems(d, e)
    BY <1>2 DEF PatchesItem
  <2>3. IsTable(d.items, Nat) /\ \A i \in DOMAIN d.items : IsTimed(d.items[i])
    BY DEF DataOK
  <2>2. IsTimed(row)
    BY <1>2, <2>1, <2>3, PatchedRow
  <2> HIDE DEF row
  <2>4. IsTable(e.items, Nat) /\ \A i \in DOMAIN e.items : IsTimed(e.items[i])
    BY <2>1, <2>2, <2>3, ExceptIs
  <2> QED
    BY <2>1, <2>4, ItemsKeepTypes
<1> QED
  BY <1>1, <1>2

LEMMA PutsKeepTypes ==
  ASSUME NEW d, DataOK(d), NEW e
  PROVE  /\ \A rows \in UserBatches : PutsUsers(d, e, rows) => DataOK(e)
         /\ \A rows \in ItemBatches : PutsItems(d, e, rows) => DataOK(e)
<1>1. ASSUME NEW rows \in UserBatches, PutsUsers(d, e, rows) PROVE DataOK(e)
  <2>1. PICK new \in ChosenRows(rows) : e.users = Over(new, d.users) /\ OnlyUsers(d, e)
    BY <1>1 DEF PutsUsers
  <2>2. IsBatch(rows) /\ KeysOf(rows) \subseteq Nat /\ \A j \in DOMAIN rows : IsRecord(rows[j].row)
    BY RowsAssumption
  <2>3. IsTable(new, Nat) /\ \A k \in DOMAIN new : \E j \in DOMAIN rows : new[k] = rows[j].row
    BY <2>2, ChosenTable
  <2>4. \A k \in DOMAIN new : IsRecord(new[k])
    BY <2>2, <2>3
  <2>5. IsTable(d.users, Nat) /\ \A u \in DOMAIN d.users : IsRecord(d.users[u])
    BY DEF DataOK
  <2>6. IsTable(e.users, Nat) /\ \A u \in DOMAIN e.users : IsRecord(e.users[u])
    BY <2>1, <2>3, <2>4, <2>5, OverIsTable, UserRowsAreRecords
  <2> QED
    BY <2>1, <2>6, UsersKeepTypes
<1>2. ASSUME NEW rows \in ItemBatches, PutsItems(d, e, rows) PROVE DataOK(e)
  <2>1. PICK new \in ChosenRows(rows) : e.items = Over(new, d.items) /\ OnlyItems(d, e)
    BY <1>2 DEF PutsItems
  <2>2. IsBatch(rows) /\ KeysOf(rows) \subseteq Nat /\ \A j \in DOMAIN rows : IsTimed(rows[j].row)
    BY RowsAssumption
  <2>3. IsTable(new, Nat) /\ \A k \in DOMAIN new : \E j \in DOMAIN rows : new[k] = rows[j].row
    BY <2>2, ChosenTable
  <2>4. \A k \in DOMAIN new : IsTimed(new[k])
    BY <2>2, <2>3
  <2>5. IsTable(d.items, Nat) /\ \A u \in DOMAIN d.items : IsTimed(d.items[u])
    BY DEF DataOK
  <2>6. IsTable(e.items, Nat) /\ \A u \in DOMAIN e.items : IsTimed(e.items[u])
    BY <2>1, <2>3, <2>4, <2>5, OverIsTable, ItemRowsAreTimed
  <2> QED
    BY <2>1, <2>6, ItemsKeepTypes
<1> QED
  BY <1>1, <1>2

LEMMA BlankIs ==
  ASSUME NEW ids, IsFiniteSet(ids), ids \subseteq Nat, NEW table, NEW row
  PROVE  /\ IsTable(Blank(ids, table, row), Nat) /\ DOMAIN Blank(ids, table, row) = ids \ DOMAIN table
         /\ \A k \in DOMAIN Blank(ids, table, row) : Blank(ids, table, row)[k] = row
<1>1. IsFiniteSet(ids \ DOMAIN table)
  BY FS_Difference
<1> QED
  BY <1>1 DEF IsTable, IsRecord, Blank

LEMMA NamesAre ==
  ASSUME NEW rows, IsBatch(rows), KeysOf(rows) \subseteq FeedbackKeys
  PROVE  /\ IsFiniteSet(Named(rows)) /\ Named(rows) \subseteq Nat
         /\ IsFiniteSet(NamedItems(rows)) /\ NamedItems(rows) \subseteq Nat
<1> DEFINE K == KeysOf(rows)
           f == [k \in K |-> k.user]
           g == [k \in K |-> k.item]
<1>1. IsFiniteSet(K)
  BY BatchRows
<1>2. f \in [K -> Named(rows)] /\ \A u \in Named(rows) : \E k \in K : f[k] = u
  BY DEF Named
<1>3. g \in [K -> NamedItems(rows)] /\ \A i \in NamedItems(rows) : \E k \in K : g[k] = i
  BY DEF NamedItems
<1>4. Named(rows) \subseteq Nat /\ NamedItems(rows) \subseteq Nat
  BY DEF Named, NamedItems, FeedbackKeys
<1> HIDE DEF f, g, K
<1>5. f \in Surjection(K, Named(rows)) /\ g \in Surjection(K, NamedItems(rows))
  BY <1>2, <1>3, Fun_IsSurj
<1> QED
  BY <1>1, <1>4, <1>5, FS_Surjection

LEMMA FeedbackKeepsTypes ==
  ASSUME NEW d, DataOK(d), NEW e, NEW rows \in FeedbackBatches,
         NEW iu \in BOOLEAN, NEW ii \in BOOLEAN, NEW ow \in BOOLEAN,
         PutsFeedback(d, e, rows, iu, ii, ow)
  PROVE  DataOK(e)
<1>0. /\ IsBatch(rows) /\ KeysOf(rows) \subseteq FeedbackKeys
      /\ \A j \in DOMAIN rows : rows[j].row \in Nat
      /\ IsRecord(BlankUser) /\ IsTimed(BlankItem)
  BY RowsAssumption
<1> DEFINE us == Blank(Named(rows), d.users, BlankUser)
           is == Blank(NamedItems(rows), d.items, BlankItem)
<1>1. /\ IsFiniteSet(Named(rows)) /\ Named(rows) \subseteq Nat
      /\ IsFiniteSet(NamedItems(rows)) /\ NamedItems(rows) \subseteq Nat
  BY <1>0, NamesAre
<1>2. IsTable(us, Nat) /\ IsTable(is, Nat) /\ (\A k \in DOMAIN us : IsRecord(us[k])) /\ (\A k \in DOMAIN is : IsTimed(is[k]))
  <2>1. /\ IsTable(us, Nat) /\ \A k \in DOMAIN us : us[k] = BlankUser
        /\ IsTable(is, Nat) /\ \A k \in DOMAIN is : is[k] = BlankItem
    BY <1>1, BlankIs
  <2> HIDE DEF us, is
  <2> QED
    BY <1>0, <2>1
<1>3. /\ IsTable(d.users, Nat) /\ \A u \in DOMAIN d.users : IsRecord(d.users[u])
      /\ IsTable(d.items, Nat) /\ \A i \in DOMAIN d.items : IsTimed(d.items[i])
      /\ IsTable(d.feedback, FeedbackKeys) /\ \A k \in DOMAIN d.feedback : d.feedback[k] \in Nat
  BY DEF DataOK
<1>4. /\ Shape(e)
      /\ e.users = IF iu THEN Over(d.users, us) ELSE d.users
      /\ e.items = IF ii THEN Over(d.items, is) ELSE d.items
  BY DEF PutsFeedback
<1>5. PICK chosen \in ChosenRows(rows) :
        e.feedback = IF ow THEN Over(Known(chosen, DOMAIN e.users, DOMAIN e.items), d.feedback)
                     ELSE Over(d.feedback, Known(chosen, DOMAIN e.users, DOMAIN e.items))
  BY DEF PutsFeedback
<1> HIDE DEF us, is
<1>6. IsTable(e.users, Nat) /\ \A u \in DOMAIN e.users : IsRecord(e.users[u])
  <2>1. CASE iu
    <3>1. e.users = Over(d.users, us)
      BY <2>1, <1>4
    <3> QED
      BY <3>1, <1>2, <1>3, OverIsTable, UserRowsAreRecords
  <2>2. CASE ~iu
    BY <2>2, <1>3, <1>4
  <2> QED
    BY <2>1, <2>2
<1>7. IsTable(e.items, Nat) /\ \A i \in DOMAIN e.items : IsTimed(e.items[i])
  <2>1. CASE ii
    <3>1. e.items = Over(d.items, is)
      BY <2>1, <1>4
    <3> QED
      BY <3>1, <1>2, <1>3, OverIsTable, ItemRowsAreTimed
  <2>2. CASE ~ii
    BY <2>2, <1>3, <1>4
  <2> QED
    BY <2>1, <2>2
<1>8. IsTable(e.feedback, FeedbackKeys) /\ \A k \in DOMAIN e.feedback : e.feedback[k] \in Nat
  <2> DEFINE new == Known(chosen, DOMAIN e.users, DOMAIN e.items)
  <2>1. IsTable(chosen, FeedbackKeys) /\ \A k \in DOMAIN chosen : \E j \in DOMAIN rows : chosen[k] = rows[j].row
    BY <1>0, ChosenTable
  <2>2. IsRecord(new) /\ DOMAIN new \in SUBSET DOMAIN chosen /\ \A k \in DOMAIN new : new[k] = chosen[k]
    BY DEF Known, IsRecord
  <2>3. IsTable(new, FeedbackKeys) /\ \A k \in DOMAIN new : new[k] \in Nat
    <3>1. IsFiniteSet(DOMAIN new)
      BY <2>1, <2>2, FS_Subset DEF IsTable
    <3> HIDE DEF new
    <3> QED
      BY <2>1, <2>2, <3>1, <1>0 DEF IsTable
  <2>4. e.feedback = Over(new, d.feedback) \/ e.feedback = Over(d.feedback, new)
    BY <1>5
  <2> HIDE DEF new
  <2> QED
    BY <2>3, <2>4, <1>3, OverIsTable, FeedbackIsStamped
<1> QED
  BY <1>4, <1>6, <1>7, <1>8 DEF DataOK

LEMMA RemovalsKeepTypes ==
  ASSUME NEW d, DataOK(d), NEW e
  PROVE  /\ \A u : RemovesUser(d, e, u) => DataOK(e)
         /\ \A i : RemovesItem(d, e, i) => DataOK(e)
         /\ \A u, i : RemovesFeedback(d, e, u, i) => DataOK(e)
         /\ RemovesAll(e) => DataOK(e)
<1>1. /\ IsTable(d.users, Nat) /\ \A u \in DOMAIN d.users : IsRecord(d.users[u])
      /\ IsTable(d.items, Nat) /\ \A i \in DOMAIN d.items : IsTimed(d.items[i])
      /\ IsTable(d.feedback, FeedbackKeys) /\ \A k \in DOMAIN d.feedback : d.feedback[k] \in Nat
  BY DEF DataOK
<1>2. ASSUME NEW gone
      PROVE  /\ IsTable(Without(d.users, gone), Nat)
             /\ \A u \in DOMAIN Without(d.users, gone) : IsRecord(Without(d.users, gone)[u])
             /\ IsTable(Without(d.items, gone), Nat)
             /\ \A i \in DOMAIN Without(d.items, gone) : IsTimed(Without(d.items, gone)[i])
             /\ IsTable(Without(d.feedback, gone), FeedbackKeys)
             /\ \A k \in DOMAIN Without(d.feedback, gone) : Without(d.feedback, gone)[k] \in Nat
  <2>1. ASSUME NEW t
        PROVE  /\ DOMAIN Without(t, gone) = DOMAIN t \ gone
               /\ \A k \in DOMAIN t \ gone : Without(t, gone)[k] = t[k]
    BY WithoutIs
  <2>2. /\ IsTable(Without(d.users, gone), Nat) /\ IsTable(Without(d.items, gone), Nat)
        /\ IsTable(Without(d.feedback, gone), FeedbackKeys)
    BY <1>1, WithoutIsTable
  <2> QED
    BY <1>1, <2>1, <2>2
<1>3. ASSUME NEW u, RemovesUser(d, e, u) PROVE DataOK(e)
  BY <1>1, <1>2, <1>3 DEF RemovesUser, DataOK
<1>4. ASSUME NEW i, RemovesItem(d, e, i) PROVE DataOK(e)
  BY <1>1, <1>2, <1>4 DEF RemovesItem, DataOK
<1>5. ASSUME NEW u, NEW i, RemovesFeedback(d, e, u, i) PROVE DataOK(e)
  BY <1>1, <1>2, <1>5 DEF RemovesFeedback, DataOK
<1>6. ASSUME RemovesAll(e) PROVE DataOK(e)
  <2>1. /\ IsTable(EmptyTable, Nat) /\ IsTable(EmptyTable, FeedbackKeys) /\ DOMAIN EmptyTable = {}
    BY EmptyTableIs
  <2> QED
    BY <1>6, <2>1 DEF RemovesAll, DataOK
<1> QED
  BY <1>3, <1>4, <1>5, <1>6

LEMMA PromisesKeepTypes ==
  ASSUME NEW d, DataOK(d), NEW e, Promised(d, e)
  PROVE  DataOK(e)
<1>1. CASE \E rows \in UserBatches : PutsUsers(d, e, rows)
  BY <1>1, PutsKeepTypes
<1>2. CASE \E rows \in ItemBatches : PutsItems(d, e, rows)
  BY <1>2, PutsKeepTypes
<1>3. CASE \E rows \in FeedbackBatches, iu, ii, ow \in BOOLEAN : PutsFeedback(d, e, rows, iu, ii, ow)
  BY <1>3, FeedbackKeepsTypes
<1>4. CASE \E u \in UserIds, p \in UserPatches : PatchesUser(d, e, u, p)
  BY <1>4, PatchesKeepTypes
<1>5. CASE \E i \in ItemIds, p \in ItemPatches : PatchesItem(d, e, i, p)
  BY <1>5, PatchesKeepTypes, RowsAssumption
<1>6. CASE \/ \E u \in UserIds : RemovesUser(d, e, u)
           \/ \E i \in ItemIds : RemovesItem(d, e, i)
           \/ \E u \in UserIds, i \in ItemIds : RemovesFeedback(d, e, u, i)
           \/ RemovesAll(e)
  BY <1>6, RemovalsKeepTypes
<1> QED
  BY <1>1, <1>2, <1>3, <1>4, <1>5, <1>6, Zenon DEF Promised
----------------------------------------------------------------------------
(* What the calls of the SQL store and of MongoDB do *)

\* The SQL store sends the first row of each key.
AddsUsers(d, e, rows) == OnlyUsers(d, e) /\ e.users = Over(FirstRows(rows), d.users)
AddsItems(d, e, rows) == OnlyItems(d, e) /\ e.items = Over(FirstRows(rows), d.items)
AddsFeedback(d, e, rows, iu, ii, ow) ==
  /\ Shape(e)
  /\ e.users = IF iu THEN Over(d.users, Blank(Named(rows), d.users, BlankUser)) ELSE d.users
  /\ e.items = IF ii THEN Over(d.items, Blank(NamedItems(rows), d.items, BlankItem)) ELSE d.items
  /\ e.feedback = IF ow THEN Over(Known(FirstRows(rows), DOMAIN e.users, DOMAIN e.items), d.feedback)
                  ELSE Over(d.feedback, Known(FirstRows(rows), DOMAIN e.users, DOMAIN e.items))
Asked(keys, u, i, types) == {k \in keys : (types = {} \/ k.type \in types) /\ k.user = u /\ k.item = i}
DropsFeedback(d, e, u, i, types) ==
  /\ Shape(e) /\ e.users = d.users /\ e.items = d.items
  /\ e.feedback = Without(d.feedback, Asked(DOMAIN d.feedback, u, i, types))

LEMMA SQLDoes ==
  ASSUME NEW d, DataOK(d)
  PROVE  /\ \A rows : AddsUsers(d, SQL!BatchInsertUsers(d, rows), rows)
         /\ \A rows : AddsItems(d, SQL!BatchInsertItems(d, rows), rows)
         /\ \A rows : \A iu, ii, ow \in BOOLEAN :
              AddsFeedback(d, SQL!BatchInsertFeedback(d, rows, iu, ii, ow), rows, iu, ii, ow)
         /\ \A u, p : IF u \in DOMAIN d.users THEN PatchesUser(d, SQL!ModifyUser(d, u, p), u, p)
                      ELSE SQL!ModifyUser(d, u, p) = d
         /\ \A i, p : IF i \in DOMAIN d.items THEN PatchesItem(d, SQL!ModifyItem(d, i, p), i, p)
                      ELSE SQL!ModifyItem(d, i, p) = d
         /\ \A u : RemovesUser(d, SQL!DeleteUser(d, u), u)
         /\ \A i : RemovesItem(d, SQL!DeleteItem(d, i), i)
         /\ \A u, i, types : DropsFeedback(d, SQL!DeleteUserItemFeedback(d, u, i, types), u, i, types)
         /\ RemovesAll(SQL!Purge(d))
<1>0. Shape(d)
  BY DEF DataOK
<1>1. ASSUME NEW rows PROVE AddsUsers(d, SQL!BatchInsertUsers(d, rows), rows)
  <2>2. SQL!BatchInsertUsers(d, rows) = [d EXCEPT !.users = Over(FirstRows(rows), @)]
    BY DEF SQL!BatchInsertUsers, SQL!Over, SQL!FirstRows, SQL!KeysOf, Over, FirstRows, KeysOf
  <2> QED
    BY <1>0, <2>2 DEF AddsUsers, OnlyUsers, Shape
<1>2. ASSUME NEW rows PROVE AddsItems(d, SQL!BatchInsertItems(d, rows), rows)
  <2>2. SQL!BatchInsertItems(d, rows) = [d EXCEPT !.items = Over(FirstRows(rows), @)]
    BY DEF SQL!BatchInsertItems, SQL!Over, SQL!FirstRows, SQL!KeysOf, Over, FirstRows, KeysOf
  <2> QED
    BY <1>0, <2>2 DEF AddsItems, OnlyItems, Shape
<1>3. ASSUME NEW rows, NEW iu \in BOOLEAN, NEW ii \in BOOLEAN, NEW ow \in BOOLEAN
      PROVE  AddsFeedback(d, SQL!BatchInsertFeedback(d, rows, iu, ii, ow), rows, iu, ii, ow)
  <2> DEFINE e == SQL!BatchInsertFeedback(d, rows, iu, ii, ow)
             first == FirstRows(rows)
             users == IF iu THEN Over(d.users, [u \in Named(rows) |-> BlankUser]) ELSE d.users
             items == IF ii THEN Over(d.items, [i \in NamedItems(rows) |-> BlankItem]) ELSE d.items
             new == [k \in {k \in KeysOf(rows) : /\ k.user \in Named(rows) \cap DOMAIN users
                                                 /\ k.item \in NamedItems(rows) \cap DOMAIN items} |-> first[k]]
             d1 == IF iu THEN [d EXCEPT !.users = Over(@, [u \in Named(rows) |-> BlankUser])] ELSE d
             d2 == IF ii THEN [d1 EXCEPT !.items = Over(@, [i \in NamedItems(rows) |-> BlankItem])] ELSE d1
             sent == [k \in {k \in KeysOf(rows) : /\ k.user \in Named(rows) \cap DOMAIN d2.users
                                                  /\ k.item \in NamedItems(rows) \cap DOMAIN d2.items} |-> first[k]]
  <2>1. DOMAIN first = KeysOf(rows)
    BY DEF FirstRows
  <2>2. e = [d2 EXCEPT !.feedback = IF ow THEN Over(sent, @) ELSE Over(@, sent)]
    BY DEF SQL!BatchInsertFeedback, SQL!InsertFeedback, SQL!InsertMissingUsers, SQL!InsertMissingItems,
           SQL!Over, SQL!FirstRows, SQL!KeysOf, Over, FirstRows, KeysOf, Named, NamedItems
  <2>3. d2 = [users |-> users, items |-> items, feedback |-> d.feedback]
    <3> DEFINE bu == [u \in Named(rows) |-> BlankUser]
               bi == [i \in NamedItems(rows) |-> BlankItem]
    <3> HIDE DEF bu, bi
    <3>1. d1 = [users |-> users, items |-> d.items, feedback |-> d.feedback]
      <4>1. CASE iu
        BY <4>1, <1>0 DEF Shape
      <4>2. CASE ~iu
        BY <4>2, <1>0 DEF Shape
      <4> QED
        BY <4>1, <4>2
    <3> HIDE DEF users, d1
    <3>2. CASE ii
      BY <3>1, <3>2
    <3>3. CASE ~ii
      BY <3>1, <3>3
    <3> QED
      BY <3>2, <3>3
  <2> HIDE DEF e, first, d1, d2, users, items
  <2>4. sent = new
    BY <2>3
  <2>5. e = [users |-> users, items |-> items, feedback |-> IF ow THEN Over(new, d.feedback) ELSE Over(d.feedback, new)]
    <3> HIDE DEF sent, new
    <3> QED
      BY <2>2, <2>3, <2>4
  <2>6. new = Known(first, DOMAIN users, DOMAIN items)
    BY <2>1 DEF Known, Named, NamedItems
  <2>7. users = IF iu THEN Over(d.users, Blank(Named(rows), d.users, BlankUser)) ELSE d.users
    BY DEF users, Over, Blank
  <2>8. items = IF ii THEN Over(d.items, Blank(NamedItems(rows), d.items, BlankItem)) ELSE d.items
    BY DEF items, Over, Blank
  <2>9. e.users = users /\ e.items = items /\ Shape(e)
        /\ e.feedback = IF ow THEN Over(new, d.feedback) ELSE Over(d.feedback, new)
    <3> HIDE DEF new
    <3> QED
      BY <2>5 DEF Shape
  <2> HIDE DEF new
  <2> QED
    BY <2>6, <2>7, <2>8, <2>9 DEF AddsFeedback, e, first
<1>4. ASSUME NEW u, NEW p
      PROVE  IF u \in DOMAIN d.users THEN PatchesUser(d, SQL!ModifyUser(d, u, p), u, p)
             ELSE SQL!ModifyUser(d, u, p) = d
  <2>1. SQL!ModifyUser(d, u, p) = IF u \in DOMAIN d.users THEN [d EXCEPT !.users[u] = Over(p, @)] ELSE d
    BY DEF SQL!ModifyUser, SQL!Over, Over
  <2> QED
    BY <1>0, <2>1 DEF PatchesUser, OnlyUsers, Shape
<1>5. ASSUME NEW i, NEW p
      PROVE  IF i \in DOMAIN d.items THEN PatchesItem(d, SQL!ModifyItem(d, i, p), i, p)
             ELSE SQL!ModifyItem(d, i, p) = d
  <2>1. SQL!ModifyItem(d, i, p) = IF i \in DOMAIN d.items THEN [d EXCEPT !.items[i] = Over(p, @)] ELSE d
    BY DEF SQL!ModifyItem, SQL!Over, Over
  <2> QED
    BY <1>0, <2>1 DEF PatchesItem, OnlyItems, Shape
<1>6. ASSUME NEW u PROVE RemovesUser(d, SQL!DeleteUser(d, u), u)
  <2> DEFINE d1 == SQL!DeleteUserRow(d, u)
             e == SQL!DeleteUser(d, u)
             left == Without(d.users, {u})
             rest == Without(d.feedback, {k \in DOMAIN d.feedback : k.user = u})
  <2>1. d1 = [d EXCEPT !.users = left]
    BY DEF SQL!DeleteUserRow, SQL!Without, Without
  <2> HIDE DEF left
  <2>2. d1.users = left /\ d1.items = d.items /\ d1.feedback = d.feedback /\ Shape(d1)
    BY <2>1, <1>0 DEF Shape
  <2>3. e = SQL!DeleteUserFeedback(d1, u)
    BY DEF SQL!DeleteUser
  <2> HIDE DEF d1, e
  <2>4. e = [d1 EXCEPT !.feedback = rest]
    BY <2>2, <2>3 DEF SQL!DeleteUserFeedback, SQL!Without, Without
  <2> HIDE DEF rest
  <2>5. e.users = left /\ e.items = d.items /\ e.feedback = rest /\ Shape(e)
    BY <2>2, <2>4 DEF Shape
  <2> QED
    BY <2>5 DEF RemovesUser, left, rest, e
<1>7. ASSUME NEW i PROVE RemovesItem(d, SQL!DeleteItem(d, i), i)
  <2> DEFINE d1 == SQL!DeleteItemRow(d, i)
             e == SQL!DeleteItem(d, i)
             left == Without(d.items, {i})
             rest == Without(d.feedback, {k \in DOMAIN d.feedback : k.item = i})
  <2>1. d1 = [d EXCEPT !.items = left]
    BY DEF SQL!DeleteItemRow, SQL!Without, Without
  <2> HIDE DEF left
  <2>2. d1.items = left /\ d1.users = d.users /\ d1.feedback = d.feedback /\ Shape(d1)
    BY <2>1, <1>0 DEF Shape
  <2>3. e = SQL!DeleteItemFeedback(d1, i)
    BY DEF SQL!DeleteItem
  <2> HIDE DEF d1, e
  <2>4. e = [d1 EXCEPT !.feedback = rest]
    BY <2>2, <2>3 DEF SQL!DeleteItemFeedback, SQL!Without, Without
  <2> HIDE DEF rest
  <2>5. e.items = left /\ e.users = d.users /\ e.feedback = rest /\ Shape(e)
    BY <2>2, <2>4 DEF Shape
  <2> QED
    BY <2>5 DEF RemovesItem, left, rest, e
<1>8. ASSUME NEW u, NEW i, NEW types PROVE DropsFeedback(d, SQL!DeleteUserItemFeedback(d, u, i, types), u, i, types)
  <2> DEFINE gone == Asked(DOMAIN d.feedback, u, i, types)
             left == Without(d.feedback, gone)
  <2>1. gone = SQL!GetUserItemFeedback(d, u, i, types)
    BY DEF SQL!GetUserItemFeedback, SQL!OfTypes, Asked
  <2>2. SQL!DeleteUserItemFeedback(d, u, i, types) = [d EXCEPT !.feedback = left]
    <3> HIDE DEF gone
    <3> QED
      BY <2>1 DEF SQL!DeleteUserItemFeedback, SQL!Without, Without
  <2> HIDE DEF left
  <2> QED
    BY <1>0, <2>2 DEF DropsFeedback, Shape, left
<1>9. RemovesAll(SQL!Purge(d))
  <2> DEFINE none == EmptyTable
  <2>1. SQL!Purge(d) = [d EXCEPT !.items = none, !.feedback = none, !.users = none]
    BY DEF SQL!Purge, SQL!EmptyTable, EmptyTable
  <2> HIDE DEF none
  <2>2. SQL!Purge(d) = [users |-> none, items |-> none, feedback |-> none]
    BY <1>0, <2>1 DEF Shape
  <2> QED
    BY <2>2 DEF RemovesAll, Shape, none
<1> QED
  BY <1>1, <1>2, <1>3, <1>4, <1>5, <1>6, <1>7, <1>8, <1>9

LEMMA SQLCalls ==
  ASSUME NEW d, DataOK(d)
  PROVE  /\ \A rows \in UserBatches : PutsUsers(d, SQL!BatchInsertUsers(d, rows), rows)
         /\ \A rows \in ItemBatches : PutsItems(d, SQL!BatchInsertItems(d, rows), rows)
         /\ \A rows \in FeedbackBatches, iu, ii, ow \in BOOLEAN :
              PutsFeedback(d, SQL!BatchInsertFeedback(d, rows, iu, ii, ow), rows, iu, ii, ow)
         /\ \A u, p : IF u \in DOMAIN d.users THEN PatchesUser(d, SQL!ModifyUser(d, u, p), u, p)
                      ELSE SQL!ModifyUser(d, u, p) = d
         /\ \A i, p : IF i \in DOMAIN d.items THEN PatchesItem(d, SQL!ModifyItem(d, i, p), i, p)
                      ELSE SQL!ModifyItem(d, i, p) = d
         /\ \A u : RemovesUser(d, SQL!DeleteUser(d, u), u)
         /\ \A i : RemovesItem(d, SQL!DeleteItem(d, i), i)
         /\ \A u, i, types : RemovesFeedback(d, SQL!DeleteUserItemFeedback(d, u, i, types), u, i)
         /\ RemovesAll(SQL!Purge(d))
<1>1. ASSUME NEW rows \in UserBatches PROVE PutsUsers(d, SQL!BatchInsertUsers(d, rows), rows)
  <2>1. FirstRows(rows) \in ChosenRows(rows)
    BY BatchTables, RowsAssumption
  <2>2. AddsUsers(d, SQL!BatchInsertUsers(d, rows), rows)
    BY SQLDoes
  <2> QED
    BY <2>1, <2>2 DEF PutsUsers, AddsUsers
<1>2. ASSUME NEW rows \in ItemBatches PROVE PutsItems(d, SQL!BatchInsertItems(d, rows), rows)
  <2>1. FirstRows(rows) \in ChosenRows(rows)
    BY BatchTables, RowsAssumption
  <2>2. AddsItems(d, SQL!BatchInsertItems(d, rows), rows)
    BY SQLDoes
  <2> QED
    BY <2>1, <2>2 DEF PutsItems, AddsItems
<1>3. ASSUME NEW rows \in FeedbackBatches, NEW iu \in BOOLEAN, NEW ii \in BOOLEAN, NEW ow \in BOOLEAN
      PROVE  PutsFeedback(d, SQL!BatchInsertFeedback(d, rows, iu, ii, ow), rows, iu, ii, ow)
  <2>1. FirstRows(rows) \in ChosenRows(rows)
    BY BatchTables, RowsAssumption
  <2>2. AddsFeedback(d, SQL!BatchInsertFeedback(d, rows, iu, ii, ow), rows, iu, ii, ow)
    BY SQLDoes
  <2> DEFINE e == SQL!BatchInsertFeedback(d, rows, iu, ii, ow)
             first == FirstRows(rows)
  <2> HIDE DEF e, first
  <2>3. AddsFeedback(d, e, rows, iu, ii, ow) /\ first \in ChosenRows(rows)
    BY <2>1, <2>2 DEF e, first
  <2>4. e.feedback = IF ow THEN Over(Known(first, DOMAIN e.users, DOMAIN e.items), d.feedback)
                     ELSE Over(d.feedback, Known(first, DOMAIN e.users, DOMAIN e.items))
    BY <2>2 DEF AddsFeedback, e, first
  <2> QED
    BY <2>3, <2>4, Zenon DEF PutsFeedback, AddsFeedback, e
<1>4. ASSUME NEW u, NEW i, NEW types
      PROVE  RemovesFeedback(d, SQL!DeleteUserItemFeedback(d, u, i, types), u, i)
  <2> DEFINE all == {k.type : k \in DOMAIN d.feedback}
             asked == IF types = {} THEN all ELSE all \cap types
             e == SQL!DeleteUserItemFeedback(d, u, i, types)
  <2>1. DropsFeedback(d, e, u, i, types)
    BY SQLDoes
  <2>2. asked \in SUBSET all
    OBVIOUS
  <2>3. Asked(DOMAIN d.feedback, u, i, types)
          = {k \in DOMAIN d.feedback : k.user = u /\ k.item = i /\ k.type \in asked}
    BY DEF Asked
  <2> HIDE DEF asked, e
  <2>4. e.feedback = Without(d.feedback, {k \in DOMAIN d.feedback : k.user = u /\ k.item = i /\ k.type \in asked})
    BY <2>1, <2>3 DEF DropsFeedback
  <2> QED
    BY <2>1, <2>2, <2>4 DEF RemovesFeedback, DropsFeedback, e
<1> QED
  BY <1>1, <1>2, <1>3, <1>4, SQLDoes
LEMMA MongoCalls ==
  ASSUME NEW d, DataOK(d)
  PROVE  /\ \A rows \in UserBatches : PutsUsers(d, Mongo!BatchInsertUsers(d, rows), rows)
         /\ \A rows \in ItemBatches : PutsItems(d, Mongo!BatchInsertItems(d, rows), rows)
         /\ \A rows \in FeedbackBatches, iu, ii, ow \in BOOLEAN :
              PutsFeedback(d, Mongo!BatchInsertFeedback(d, rows, iu, ii, ow), rows, iu, ii, ow)
         /\ \A u, p : IF u \in DOMAIN d.users THEN PatchesUser(d, Mongo!ModifyUser(d, u, p), u, p)
                      ELSE Mongo!ModifyUser(d, u, p) = d
         /\ \A i, p : IF i \in DOMAIN d.items THEN PatchesItem(d, Mongo!ModifyItem(d, i, p), i, p)
                      ELSE Mongo!ModifyItem(d, i, p) = d
         /\ \A u : RemovesUser(d, Mongo!DeleteUser(d, u), u)
         /\ \A i : RemovesItem(d, Mongo!DeleteItem(d, i), i)
         /\ \A u, i, types : RemovesFeedback(d, Mongo!DeleteUserItemFeedback(d, u, i, types), u, i)
         /\ RemovesAll(Mongo!Purge(d))
<1>0. Shape(d)
  BY DEF DataOK
<1>1. ASSUME NEW rows \in UserBatches PROVE PutsUsers(d, Mongo!BatchInsertUsers(d, rows), rows)
  <2>1. LastRows(rows) \in ChosenRows(rows)
    BY BatchTables, RowsAssumption
  <2>2. Mongo!BatchInsertUsers(d, rows) = [d EXCEPT !.users = Over(LastRows(rows), @)]
    BY DEF Mongo!BatchInsertUsers, Mongo!Over, Mongo!LastRows, Mongo!KeysOf, Over, LastRows, KeysOf
  <2> QED
    BY <1>0, <2>1, <2>2 DEF PutsUsers, OnlyUsers, Shape
<1>2. ASSUME NEW rows \in ItemBatches PROVE PutsItems(d, Mongo!BatchInsertItems(d, rows), rows)
  <2>1. LastRows(rows) \in ChosenRows(rows)
    BY BatchTables, RowsAssumption
  <2>2. Mongo!BatchInsertItems(d, rows) = [d EXCEPT !.items = Over(LastRows(rows), @)]
    BY DEF Mongo!BatchInsertItems, Mongo!Over, Mongo!LastRows, Mongo!KeysOf, Over, LastRows, KeysOf
  <2> QED
    BY <1>0, <2>1, <2>2 DEF PutsItems, OnlyItems, Shape
<1>3. ASSUME NEW rows \in FeedbackBatches, NEW iu \in BOOLEAN, NEW ii \in BOOLEAN, NEW ow \in BOOLEAN
      PROVE  PutsFeedback(d, Mongo!BatchInsertFeedback(d, rows, iu, ii, ow), rows, iu, ii, ow)
  <2> DEFINE e == Mongo!BatchInsertFeedback(d, rows, iu, ii, ow)
             first == FirstRows(rows)
             last == LastRows(rows)
             users == IF iu THEN Over(d.users, [u \in Named(rows) |-> BlankUser]) ELSE d.users
             items == IF ii THEN Over(d.items, [i \in NamedItems(rows) |-> BlankItem]) ELSE d.items
             known == {k \in KeysOf(rows) : k.user \in DOMAIN users /\ k.item \in DOMAIN items}
             new == [k \in known |-> first[k]]
             newest == [k \in known |-> last[k]]
  <2>1. /\ first \in ChosenRows(rows) /\ DOMAIN first = KeysOf(rows)
        /\ last \in ChosenRows(rows) /\ DOMAIN last = KeysOf(rows)
    BY BatchTables, BatchRows, RowsAssumption
  <2>2. e = [users |-> users, items |-> items,
             feedback |-> IF ow THEN Over(newest, d.feedback) ELSE Over(d.feedback, new)]
    BY DEF Mongo!BatchInsertFeedback, Mongo!Over, Mongo!FirstRows, Mongo!LastRows, Mongo!KeysOf,
           Over, FirstRows, LastRows, KeysOf, Named, NamedItems
  <2> HIDE DEF e, first, last, users, items
  <2>6. new = Known(first, DOMAIN users, DOMAIN items) /\ newest = Known(last, DOMAIN users, DOMAIN items)
    BY <2>1 DEF Known
  <2>7. users = IF iu THEN Over(d.users, Blank(Named(rows), d.users, BlankUser)) ELSE d.users
    BY DEF users, Over, Blank
  <2>8. items = IF ii THEN Over(d.items, Blank(NamedItems(rows), d.items, BlankItem)) ELSE d.items
    BY DEF items, Over, Blank
  <2> HIDE DEF new, newest
  <2>9. e.users = users /\ e.items = items /\ Shape(e)
        /\ e.feedback = IF ow THEN Over(newest, d.feedback) ELSE Over(d.feedback, new)
    BY <2>2 DEF Shape
  <2>10. \E chosen \in ChosenRows(rows) :
           e.feedback = IF ow THEN Over(Known(chosen, DOMAIN e.users, DOMAIN e.items), d.feedback)
                        ELSE Over(d.feedback, Known(chosen, DOMAIN e.users, DOMAIN e.items))
    <3>1. CASE ow
      <4>1. e.feedback = Over(Known(last, DOMAIN e.users, DOMAIN e.items), d.feedback)
        BY <2>6, <2>9, <3>1
      <4> QED
        BY <2>1, <3>1, <4>1
    <3>2. CASE ~ow
      <4>1. e.feedback = Over(d.feedback, Known(first, DOMAIN e.users, DOMAIN e.items))
        BY <2>6, <2>9, <3>2
      <4> QED
        BY <2>1, <3>2, <4>1
    <3> QED
      BY <3>1, <3>2
  <2> QED
    BY <2>7, <2>8, <2>9, <2>10 DEF PutsFeedback, e
<1>4. ASSUME NEW u, NEW p
      PROVE  IF u \in DOMAIN d.users THEN PatchesUser(d, Mongo!ModifyUser(d, u, p), u, p)
             ELSE Mongo!ModifyUser(d, u, p) = d
  <2>1. Mongo!ModifyUser(d, u, p) = IF u \in DOMAIN d.users THEN [d EXCEPT !.users[u] = Over(p, @)] ELSE d
    BY DEF Mongo!ModifyUser, Mongo!Over, Over
  <2> QED
    BY <1>0, <2>1 DEF PatchesUser, OnlyUsers, Shape
<1>5. ASSUME NEW i, NEW p
      PROVE  IF i \in DOMAIN d.items THEN PatchesItem(d, Mongo!ModifyItem(d, i, p), i, p)
             ELSE Mongo!ModifyItem(d, i, p) = d
  <2>1. Mongo!ModifyItem(d, i, p) = IF i \in DOMAIN d.items THEN [d EXCEPT !.items[i] = Over(p, @)] ELSE d
    BY DEF Mongo!ModifyItem, Mongo!Over, Over
  <2> QED
    BY <1>0, <2>1 DEF PatchesItem, OnlyItems, Shape
<1>6. ASSUME NEW u PROVE RemovesUser(d, Mongo!DeleteUser(d, u), u)
  <2> DEFINE e == Mongo!DeleteUser(d, u)
             left == Without(d.users, {u})
             rest == Without(d.feedback, {k \in DOMAIN d.feedback : k.user = u})
  <2>1. e = [d EXCEPT !.users = left, !.feedback = rest]
    <3> DEFINE d1 == [d EXCEPT !.users = left]
    <3>1. d1.feedback = d.feedback
      <4> HIDE DEF left
      <4> QED
        BY <1>0 DEF Shape
    <3>2. e = [d1 EXCEPT !.feedback = Without(d1.feedback, {k \in DOMAIN d1.feedback : k.user = u})]
      BY DEF Mongo!DeleteUser, Mongo!Without, Without
    <3> QED
      BY <3>1, <3>2
  <2> HIDE DEF left, rest, e
  <2>2. e.users = left /\ e.items = d.items /\ e.feedback = rest /\ Shape(e)
    BY <2>1, <1>0 DEF Shape
  <2> QED
    BY <2>2 DEF RemovesUser, left, rest, e
<1>7. ASSUME NEW i PROVE RemovesItem(d, Mongo!DeleteItem(d, i), i)
  <2> DEFINE e == Mongo!DeleteItem(d, i)
             left == Without(d.items, {i})
             rest == Without(d.feedback, {k \in DOMAIN d.feedback : k.item = i})
  <2>1. e = [d EXCEPT !.items = left, !.feedback = rest]
    <3> DEFINE d1 == [d EXCEPT !.items = left]
    <3>1. d1.feedback = d.feedback
      <4> HIDE DEF left
      <4> QED
        BY <1>0 DEF Shape
    <3>2. e = [d1 EXCEPT !.feedback = Without(d1.feedback, {k \in DOMAIN d1.feedback : k.item = i})]
      BY DEF Mongo!DeleteItem, Mongo!Without, Without
    <3> QED
      BY <3>1, <3>2
  <2> HIDE DEF left, rest, e
  <2>2. e.items = left /\ e.users = d.users /\ e.feedback = rest /\ Shape(e)
    BY <2>1, <1>0 DEF Shape
  <2> QED
    BY <2>2 DEF RemovesItem, left, rest, e
<1>8. ASSUME NEW u, NEW i, NEW types PROVE RemovesFeedback(d, Mongo!DeleteUserItemFeedback(d, u, i, types), u, i)
  <2> DEFINE all == {k.type : k \in DOMAIN d.feedback}
             asked == IF types = {} THEN all ELSE all \cap types
             gone == {k \in DOMAIN d.feedback : k.user = u /\ k.item = i /\ k.type \in asked}
  <2>1. gone = Mongo!GetUserItemFeedback(d, u, i, types)
    BY DEF Mongo!GetUserItemFeedback, Mongo!OfTypes
  <2>2. Mongo!DeleteUserItemFeedback(d, u, i, types) = [d EXCEPT !.feedback = Without(@, gone)]
    <3> HIDE DEF gone
    <3> QED
      BY <2>1 DEF Mongo!DeleteUserItemFeedback, Mongo!Without, Without
  <2>3. asked \in SUBSET all
    OBVIOUS
  <2>4. \E ts \in SUBSET all : Without(d.feedback, gone)
          = Without(d.feedback, {k \in DOMAIN d.feedback : k.user = u /\ k.item = i /\ k.type \in ts})
    BY <2>3
  <2> HIDE DEF gone, asked
  <2> QED
    BY <1>0, <2>2, <2>4 DEF RemovesFeedback, Shape
<1>9. RemovesAll(Mongo!Purge(d))
  <2> DEFINE none == EmptyTable
  <2>1. Mongo!Purge(d) = [d EXCEPT !.items = none, !.feedback = none, !.users = none]
    BY DEF Mongo!Purge, Mongo!EmptyTable, EmptyTable
  <2> HIDE DEF none
  <2>2. Mongo!Purge(d) = [users |-> none, items |-> none, feedback |-> none]
    BY <1>0, <2>1 DEF Shape
  <2> QED
    BY <2>2 DEF RemovesAll, Shape, none
<1> QED
  BY <1>1, <1>2, <1>3, <1>4, <1>5, <1>6, <1>7, <1>8, <1>9

(* Steps of the stores *)

LEMMA StepsArePromised ==
  ASSUME DataOK(sql), DataOK(mongo), [Next]_dataVars
  PROVE  /\ Promised(sql, sql') \/ sql' = sql
         /\ Promised(mongo, mongo') \/ mongo' = mongo
<1>1. CASE InsertUsers
  <2>1. PICK rows \in UserBatches :
          sql' = SQL!BatchInsertUsers(sql, rows) /\ mongo' = Mongo!BatchInsertUsers(mongo, rows)
    BY <1>1 DEF InsertUsers, Write
  <2>2. PutsUsers(sql, sql', rows)
    BY <2>1, SQLCalls
  <2>3. PutsUsers(mongo, mongo', rows)
    BY <2>1, MongoCalls
  <2> QED
    BY <2>2, <2>3, Zenon DEF Promised
<1>2. CASE InsertItems
  <2>1. PICK rows \in ItemBatches :
          sql' = SQL!BatchInsertItems(sql, rows) /\ mongo' = Mongo!BatchInsertItems(mongo, rows)
    BY <1>2 DEF InsertItems, Write
  <2>2. PutsItems(sql, sql', rows)
    BY <2>1, SQLCalls
  <2>3. PutsItems(mongo, mongo', rows)
    BY <2>1, MongoCalls
  <2> QED
    BY <2>2, <2>3, Zenon DEF Promised
<1>3. CASE InsertFeedback
  <2>1. PICK rows \in FeedbackBatches, iu \in BOOLEAN, ii \in BOOLEAN, ow \in BOOLEAN :
          /\ sql' = SQL!BatchInsertFeedback(sql, rows, iu, ii, ow)
          /\ mongo' = Mongo!BatchInsertFeedback(mongo, rows, iu, ii, ow)
    BY <1>3 DEF InsertFeedback, Write
  <2>2. PutsFeedback(sql, sql', rows, iu, ii, ow)
    BY <2>1, SQLCalls
  <2>3. PutsFeedback(mongo, mongo', rows, iu, ii, ow)
    BY <2>1, MongoCalls
  <2> QED
    BY <2>2, <2>3, Zenon DEF Promised
<1>4. CASE ModifyUser
  <2>1. PICK u \in UserIds, patch \in UserPatches :
          sql' = SQL!ModifyUser(sql, u, patch) /\ mongo' = Mongo!ModifyUser(mongo, u, patch)
    BY <1>4 DEF ModifyUser, Write
  <2>2. PatchesUser(sql, sql', u, patch) \/ sql' = sql
    BY <2>1, SQLCalls
  <2>3. PatchesUser(mongo, mongo', u, patch) \/ mongo' = mongo
    BY <2>1, MongoCalls
  <2> QED
    BY <2>2, <2>3, Zenon DEF Promised
<1>5. CASE ModifyItem
  <2>1. PICK i \in ItemIds, patch \in ItemPatches :
          sql' = SQL!ModifyItem(sql, i, patch) /\ mongo' = Mongo!ModifyItem(mongo, i, patch)
    BY <1>5 DEF ModifyItem, Write
  <2>2. PatchesItem(sql, sql', i, patch) \/ sql' = sql
    BY <2>1, SQLCalls
  <2>3. PatchesItem(mongo, mongo', i, patch) \/ mongo' = mongo
    BY <2>1, MongoCalls
  <2> QED
    BY <2>2, <2>3, Zenon DEF Promised
<1>6. CASE DeleteUser
  <2>1. PICK u \in UserIds :
          sql' = SQL!DeleteUser(sql, u) /\ mongo' = Mongo!DeleteUser(mongo, u)
    BY <1>6 DEF DeleteUser, Write
  <2>2. RemovesUser(sql, sql', u)
    BY <2>1, SQLCalls
  <2>3. RemovesUser(mongo, mongo', u)
    BY <2>1, MongoCalls
  <2> QED
    BY <2>2, <2>3, Zenon DEF Promised
<1>7. CASE DeleteItem
  <2>1. PICK i \in ItemIds :
          sql' = SQL!DeleteItem(sql, i) /\ mongo' = Mongo!DeleteItem(mongo, i)
    BY <1>7 DEF DeleteItem, Write
  <2>2. RemovesItem(sql, sql', i)
    BY <2>1, SQLCalls
  <2>3. RemovesItem(mongo, mongo', i)
    BY <2>1, MongoCalls
  <2> QED
    BY <2>2, <2>3, Zenon DEF Promised
<1>8. CASE DeleteFeedback
  <2>1. PICK u \in UserIds, i \in ItemIds, types \in FeedbackTypes :
          sql' = SQL!DeleteUserItemFeedback(sql, u, i, types) /\ mongo' = Mongo!DeleteUserItemFeedback(mongo, u, i, types)
    BY <1>8 DEF DeleteFeedback, Write
  <2>2. RemovesFeedback(sql, sql', u, i)
    BY <2>1, SQLCalls
  <2>3. RemovesFeedback(mongo, mongo', u, i)
    BY <2>1, MongoCalls
  <2> QED
    BY <2>2, <2>3, Zenon DEF Promised
<1>9. CASE Purge
  <2>1. RemovesAll(sql') /\ RemovesAll(mongo')
    BY <1>9, SQLCalls, MongoCalls DEF Purge, Write
  <2> QED
    BY <2>1, Zenon DEF Promised
<1>10. CASE BeginScan \/ TurnPage \/ EndScan \/ UNCHANGED dataVars
  BY <1>10 DEF BeginScan, TurnPage, EndScan, dataVars
<1> QED
  BY <1>1, <1>2, <1>3, <1>4, <1>5, <1>6, <1>7, <1>8, <1>9, <1>10 DEF Next

\* The stores keep the types of their tables.
DataInv == DataOK(sql) /\ DataOK(mongo)

LEMMA DataStarts ==
  ASSUME Init
  PROVE  DataInv /\ SQLStore!Init /\ MongoStore!Init
<1> DEFINE none == EmptyTable
<1>1. /\ sql = [users |-> none, items |-> none, feedback |-> none]
      /\ mongo = [users |-> none, items |-> none, feedback |-> none]
  BY DEF Init, SQL!EmptyStore, SQL!EmptyTable, EmptyTable
<1>2. IsTable(none, Nat) /\ IsTable(none, FeedbackKeys) /\ DOMAIN none = {}
  BY EmptyTableIs
<1>3. none = SQLStore!EmptyTable /\ none = MongoStore!EmptyTable
  BY DEF SQLStore!EmptyTable, MongoStore!EmptyTable, EmptyTable
<1> HIDE DEF none
<1>4. DataInv
  BY <1>1, <1>2 DEF DataInv, DataOK, Shape
<1> QED
  BY <1>1, <1>3, <1>4 DEF SQLStore!Init, MongoStore!Init

LEMMA DataSteps ==
  ASSUME DataInv, [Next]_dataVars
  PROVE  /\ DataInv'
         /\ [SQLStore!Next]_(SQLStore!tables) /\ [MongoStore!Next]_(MongoStore!tables)
<1>1. (Promised(sql, sql') \/ sql' = sql) /\ (Promised(mongo, mongo') \/ mongo' = mongo)
  BY StepsArePromised DEF DataInv
<1>2. DataOK(sql') /\ DataOK(mongo')
  BY <1>1, PromisesKeepTypes DEF DataInv
<1>3. DataOK(sql)' /\ DataOK(mongo)'
  BY <1>2 DEF DataOK, Shape, IsTable, IsRecord, IsTimed
<1>4. [SQLStore!Next]_(SQLStore!tables)
  <2>1. CASE sql' = sql
    BY <2>1 DEF SQLStore!tables
  <2> QED
    BY <1>1, <2>1, SQLPromise
<1>5. [MongoStore!Next]_(MongoStore!tables)
  <2>1. CASE mongo' = mongo
    BY <2>1 DEF MongoStore!tables
  <2> QED
    BY <1>1, <2>1, MongoPromise
<1> QED
  BY <1>3, <1>4, <1>5 DEF DataInv

\* Whatever the rest does, the stores take steps of theirs or none.
LEMMA DataMoves ==
  ASSUME [StoresNext]_storeVars
  PROVE  [Next]_dataVars
  BY DEF StoresNext, storeVars

\* The SQL store and MongoDB, whose writes are upserts, ordered or not, and
\* deletions of more than one table (sql.go, mongodb.go), do at every call
\* what the interface Database promises, for any rows and patches.
THEOREM DatabasePromisesHold == StoresSpec => StoresImplementDatabase
<1>1. StoresInit => DataInv /\ SQLStore!Init /\ MongoStore!Init
  BY DataStarts DEF StoresInit
<1>2. DataInv /\ [StoresNext]_storeVars
        => DataInv' /\ [SQLStore!Next]_(SQLStore!tables) /\ [MongoStore!Next]_(MongoStore!tables)
  BY DataSteps, DataMoves
<1> QED
  BY <1>1, <1>2, PTL DEF StoresSpec, StoresImplementDatabase, SQLStore!Spec, MongoStore!Spec
----------------------------------------------------------------------------
(* Reading page by page *)

\* A reader has passed the keys before its cursor, with MongoDB that one too.
Passed(R, c, k, last) == <<k, c>> \in R \/ (last /\ k = c)
Rest(R, L, c, last) == {k \in L : c = Nil \/ ~Passed(R, c, k, last)}

Reading(r, R, keys, L, last) ==
  /\ r = [cursor |-> r.cursor, open |-> r.open, seen |-> r.seen, twice |-> r.twice, stable |-> r.stable]
  /\ r.open \in BOOLEAN /\ r.twice = FALSE /\ r.seen \subseteq keys /\ r.stable \subseteq keys
  /\ r.open => r.stable \subseteq L /\ (r.cursor = Nil \/ r.cursor \in keys)
  /\ r.open /\ r.cursor = Nil => r.seen = {}
  /\ r.open /\ r.cursor # Nil => \A k \in r.seen : Passed(R, r.cursor, k, last)
  /\ r.open /\ r.cursor # Nil => \A k \in r.stable : Passed(R, r.cursor, k, last) => k \in r.seen
  /\ ~r.open => r.stable \subseteq r.seen

IsPageOf(page, R, K, last) ==
  \/ page.cursor = Nil /\ page.rows = K
  \/ page.cursor \in K /\ page.rows = {k \in K : Passed(R, page.cursor, k, last)}

\* The next page shows the rows up to its cursor, and none that was shown.
LEMMA ReaderTurns ==
  ASSUME NEW R, NEW keys, Orders(R, keys), Nil \notin keys, NEW L, L \subseteq keys,
         NEW last \in BOOLEAN, NEW r, Reading(r, R, keys, L, last), r.open,
         NEW page, IsPageOf(page, R, Rest(R, L, r.cursor, last), last)
  PROVE  Reading(Turned(r, page), R, keys, L, last)
<1> DEFINE t == Turned(r, page)
           K == Rest(R, L, r.cursor, last)
           seen == r.seen \cup page.rows
<1> SUFFICES Reading(t, R, keys, L, last)
  OBVIOUS
<1>1. r = [cursor |-> r.cursor, open |-> r.open, seen |-> r.seen, twice |-> r.twice, stable |-> r.stable]
  BY DEF Reading
<1>2. r.twice = FALSE /\ r.seen \subseteq keys /\ r.stable \subseteq L
      /\ (r.cursor = Nil \/ r.cursor \in keys)
  BY DEF Reading
<1>3. page.rows \subseteq K /\ K \subseteq L
  BY DEF IsPageOf, Rest
<1>4. r.seen \cap page.rows = {}
  <2>1. CASE r.cursor = Nil
    BY <2>1 DEF Reading
  <2>2. CASE r.cursor # Nil
    <3>1. \A k \in r.seen : Passed(R, r.cursor, k, last)
      BY <2>2 DEF Reading
    <3>2. \A k \in K : ~Passed(R, r.cursor, k, last)
      BY <2>2 DEF Rest
    <3> QED
      BY <3>1, <3>2, <1>3
  <2> QED
    BY <2>1, <2>2
<1>5. /\ t = [cursor |-> t.cursor, open |-> t.open, seen |-> t.seen, twice |-> t.twice, stable |-> t.stable]
      /\ t.cursor = page.cursor /\ t.open = (page.cursor # Nil) /\ t.seen = seen
      /\ t.twice = FALSE /\ t.stable = r.stable
  <2> HIDE DEF seen
  <2>1. t = [r EXCEPT !.cursor = page.cursor, !.open = page.cursor # Nil, !.seen = seen, !.twice = FALSE]
    BY <1>1, <1>2, <1>4 DEF Turned, seen
  <2> HIDE DEF t
  <2> DEFINE c == page.cursor
             o == page.cursor # Nil
             f == FALSE
  <2>2. t = [r EXCEPT !.cursor = c, !.open = o, !.seen = seen, !.twice = f]
    BY <2>1
  <2> HIDE DEF c, o, f
  <2>3. t = [cursor |-> c, open |-> o, seen |-> seen, twice |-> f, stable |-> r.stable]
    BY <1>1, <2>2
  <2>4. /\ t = [cursor |-> t.cursor, open |-> t.open, seen |-> t.seen, twice |-> t.twice, stable |-> t.stable]
        /\ t.cursor = c /\ t.open = o /\ t.seen = seen /\ t.twice = f /\ t.stable = r.stable
    BY <2>3
  <2> QED
    BY <2>4 DEF c, o, f
<1>6. \A k \in r.stable : r.cursor = Nil \/ ~Passed(R, r.cursor, k, last) => k \in K
  BY <1>2 DEF Rest
<1>7. \A k \in r.stable : r.cursor # Nil /\ Passed(R, r.cursor, k, last) => k \in r.seen
  BY DEF Reading
<1>8. CASE page.cursor = Nil
  <2>1. page.rows = K
    BY <1>2, <1>3, <1>8 DEF IsPageOf
  <2>2. r.stable \subseteq seen
    BY <1>6, <1>7, <2>1
  <2>3. r.stable \subseteq keys /\ seen \subseteq keys
    BY <1>2, <1>3
  <2>4. ~t.open /\ t.open \in BOOLEAN
    BY <1>5, <1>8
  <2> HIDE DEF t, seen
  <2> QED
    BY <1>5, <2>2, <2>3, <2>4 DEF Reading
<1>9. CASE page.cursor # Nil
  <2>1. page.cursor \in K /\ page.rows = {k \in K : Passed(R, page.cursor, k, last)}
    BY <1>9 DEF IsPageOf
  <2>2. ASSUME NEW k \in seen PROVE Passed(R, page.cursor, k, last)
    <3>1. CASE k \in page.rows
      BY <2>1, <3>1
    <3>2. CASE k \in r.seen
      <4>1. r.cursor # Nil /\ r.cursor \in keys /\ Passed(R, r.cursor, k, last) /\ k \in keys
        BY <3>2, <1>2 DEF Reading
      <4>2. page.cursor \in keys /\ ~Passed(R, r.cursor, page.cursor, last)
        BY <2>1, <4>1, <1>3 DEF Rest
      <4>3. page.cursor = r.cursor \/ <<r.cursor, page.cursor>> \in R
        BY <4>1, <4>2 DEF Passed, Orders
      <4> QED
        BY <4>1, <4>2, <4>3 DEF Passed, Orders
    <3> QED
      BY <2>2, <3>1, <3>2
  <2>3. ASSUME NEW k \in r.stable, Passed(R, page.cursor, k, last) PROVE k \in seen
    BY <1>6, <1>7, <2>1, <2>3
  <2>4. page.cursor \in keys
    BY <1>3, <2>1
  <2> HIDE DEF seen, t
  <2>5. seen \subseteq keys
    BY <1>2, <1>3 DEF seen
  <2>6. t.open /\ t.open \in BOOLEAN
    BY <1>5, <1>9
  <2>7. r.stable \subseteq keys
    BY <1>2
  <2> QED
    BY <1>2, <1>5, <1>9, <2>2, <2>3, <2>4, <2>5, <2>6, <2>7 DEF Reading
<1> QED
  BY <1>8, <1>9

\* While rows come and go the reader keeps those that stay.
LEMMA ReaderWatches ==
  ASSUME NEW R, NEW keys, NEW L, NEW last, NEW r, Reading(r, R, keys, L, last),
         NEW e, NEW kind
  PROVE  Reading(StillThere(r, e, kind), R, keys, Listed(e, kind), last)
<1> DEFINE now == Listed(e, kind)
           still == r.stable \cap now
<1>1. StillThere(r, e, kind) = IF r.open THEN [r EXCEPT !.stable = still] ELSE r
  BY DEF StillThere
<1> HIDE DEF now
<1>2. CASE r.open
  <2>1. still \subseteq now /\ still \subseteq r.stable
    OBVIOUS
  <2> HIDE DEF still
  <2>2. StillThere(r, e, kind) = [cursor |-> r.cursor, open |-> r.open, seen |-> r.seen,
                                  twice |-> r.twice, stable |-> still]
    BY <1>1, <1>2 DEF Reading
  <2> QED
    BY <1>2, <2>1, <2>2 DEF Reading, now
<1>3. CASE ~r.open
  BY <1>1, <1>3 DEF Reading
<1> QED
  BY <1>2, <1>3

LEMMA ReaderBegins ==
  ASSUME NEW R, NEW keys, NEW last, NEW d, NEW kind, Listed(d, kind) \subseteq keys
  PROVE  Reading(Begun(d, kind), R, keys, Listed(d, kind), last)
<1> DEFINE now == Listed(d, kind)
<1>1. Begun(d, kind) = [cursor |-> Nil, open |-> TRUE, seen |-> {}, twice |-> FALSE, stable |-> now]
  BY DEF Begun
<1> HIDE DEF now
<1> QED
  BY <1>1 DEF Reading, now

\* The first keys of a set, in the order of numbers or of feedback.
NumbersFirst(K, n) == {k \in K : Cardinality({h \in K : h < k}) < n}
LastNumber(rows) == CHOOSE k \in rows : \A h \in rows : h = k \/ h < k
RatedFirst(K, n) == {k \in K : Cardinality({h \in K : KeyBefore(h, k)}) < n}
LastRated(rows) == CHOOSE k \in rows : \A h \in rows : h = k \/ KeyBefore(h, k)

LEMMA FirstNumbers ==
  ASSUME NEW K, IsFiniteSet(K), K \subseteq Nat, NEW n \in Nat, NEW R, R = {p \in Nat \X Nat : p[1] < p[2]}
  PROVE  LET rows == NumbersFirst(K, n)
             last == LastNumber(rows)
         IN  /\ rows = Firsts(R, K, n)
             /\ rows # {} => last \in rows /\ \A h \in rows : h = last \/ <<h, last>> \in R
<1> DEFINE rows == NumbersFirst(K, n)
           last == LastNumber(rows)
<1>1. \A a, b \in Nat : <<a, b>> \in R <=> a < b
  OBVIOUS
<1> HIDE DEF last
<1>2. ASSUME NEW k \in K PROVE {h \in K : h < k} = Below(R, K, k)
  BY <1>1 DEF Below
<1>3. rows = Firsts(R, K, n)
  BY <1>2 DEF Firsts, Rank, NumbersFirst
<1> HIDE DEF rows
<1>4. ASSUME rows # {} PROVE last \in rows /\ \A h \in rows : h = last \/ <<h, last>> \in R
  <2>1. rows \in SUBSET K /\ rows \subseteq Nat
    BY DEF rows, NumbersFirst
  <2>2. IsFiniteSet(rows)
    BY <2>1, FS_Subset
  <2>3. Orders(R, rows)
    BY <1>1, <2>1 DEF Orders
  <2>4. \E k \in rows : \A h \in rows : h = k \/ <<h, k>> \in R
    BY <1>4, <2>2, <2>3, EndsOfOrders
  <2>5. \E k \in rows : \A h \in rows : h = k \/ h < k
    BY <1>1, <2>1, <2>4
  <2>6. last \in rows /\ \A h \in rows : h = last \/ h < last
    BY <2>5 DEF last, LastNumber
  <2> QED
    BY <1>1, <2>1, <2>6
<1> QED
  BY <1>3, <1>4 DEF rows, last

LEMMA FirstFeedback ==
  ASSUME NEW K, IsFiniteSet(K), K \subseteq FeedbackKeys, NEW n \in Nat
  PROVE  LET R == Before("feedback")
             rows == RatedFirst(K, n)
             last == LastRated(rows)
         IN  /\ rows = Firsts(R, K, n)
             /\ rows # {} => last \in rows /\ \A h \in rows : h = last \/ <<h, last>> \in R
<1> DEFINE R == Before("feedback")
           rows == RatedFirst(K, n)
           last == LastRated(rows)
<1>1. \A a, b \in FeedbackKeys : <<a, b>> \in R <=> KeyBefore(a, b)
  BY DEF Before
<1>0. ASSUME NEW S, S \subseteq FeedbackKeys PROVE Orders(R, S)
  <2>1. "feedback" \in Kinds /\ S \subseteq KeySet("feedback")
    BY <1>0 DEF Kinds, KeySet
  <2> QED
    BY <2>1, KeysAreOrdered
<1> HIDE DEF last, R
<1>2. ASSUME NEW k \in K PROVE {h \in K : KeyBefore(h, k)} = Below(R, K, k)
  BY <1>1 DEF Below
<1>3. rows = Firsts(R, K, n)
  BY <1>2 DEF Firsts, Rank, RatedFirst
<1> HIDE DEF rows
<1>4. ASSUME rows # {} PROVE last \in rows /\ \A h \in rows : h = last \/ <<h, last>> \in R
  <2>1. rows \in SUBSET K /\ rows \subseteq FeedbackKeys
    BY DEF rows, RatedFirst
  <2>2. IsFiniteSet(rows)
    BY <2>1, FS_Subset
  <2>3. Orders(R, rows)
    BY <1>0, <2>1
  <2>4. \E k \in rows : \A h \in rows : h = k \/ <<h, k>> \in R
    BY <1>4, <2>2, <2>3, EndsOfOrders
  <2>5. \E k \in rows : \A h \in rows : h = k \/ KeyBefore(h, k)
    BY <1>1, <2>1, <2>4
  <2>6. last \in rows /\ \A h \in rows : h = last \/ KeyBefore(h, last)
    BY <2>5 DEF last, LastRated
  <2> QED
    BY <1>1, <2>1, <2>6
<1> QED
  BY <1>3, <1>4 DEF rows, last, R

\* The page of a store, whose first rows end with last.
LEMMA SQLPageIs ==
  ASSUME NEW K, IsFiniteSet(K), NEW R, Orders(R, K), NEW n \in Nat \ {0},
         NEW rows, rows = Firsts(R, K, n + 1),
         NEW last, rows # {} => last \in rows /\ \A h \in rows : h = last \/ <<h, last>> \in R,
         NEW page, page = IF Cardinality(rows) = n + 1 THEN [cursor |-> last, rows |-> rows \ {last}]
                          ELSE [cursor |-> Nil, rows |-> rows]
  PROVE  IsPageOf(page, R, K, FALSE)
<1> DEFINE m == n + 1
<1>0. m \in Nat \ {0}
  OBVIOUS
<1>1. rows = Firsts(R, K, m) /\ (Cardinality(rows) = n + 1 <=> Cardinality(rows) = m)
  OBVIOUS
<1> HIDE DEF m
<1>2. CASE Cardinality(rows) = m
  <2>1. LastOf(R, rows) \in K /\ rows = {k \in K : k = LastOf(R, rows) \/ <<k, LastOf(R, rows)>> \in R}
    BY <1>0, <1>1, <1>2, PageIs
  <2>2. rows # {}
    BY <2>1
  <2>3. last = LastOf(R, rows)
    BY <2>1, <2>2 DEF Orders
  <2>4. page.cursor = last /\ page.rows = rows \ {last}
    BY <1>1, <1>2
  <2>5. rows \ {last} = {k \in K : <<k, last>> \in R}
    BY <2>1, <2>3 DEF Orders
  <2> QED
    BY <2>1, <2>3, <2>4, <2>5 DEF IsPageOf, Passed
<1>3. CASE Cardinality(rows) # m
  <2>1. rows = K
    BY <1>0, <1>1, <1>3, PageIs
  <2> QED
    BY <1>1, <1>3, <2>1 DEF IsPageOf
<1> QED
  BY <1>2, <1>3

LEMMA MongoPageIs ==
  ASSUME NEW K, IsFiniteSet(K), NEW R, Orders(R, K), NEW n \in Nat \ {0},
         NEW rows, rows = Firsts(R, K, n),
         NEW last, rows # {} => last \in rows /\ \A h \in rows : h = last \/ <<h, last>> \in R,
         NEW page, page = [cursor |-> IF Cardinality(rows) = n THEN last ELSE Nil, rows |-> rows]
  PROVE  IsPageOf(page, R, K, TRUE)
<1>2. CASE Cardinality(rows) = n
  <2>1. LastOf(R, rows) \in K /\ rows = {k \in K : k = LastOf(R, rows) \/ <<k, LastOf(R, rows)>> \in R}
    BY <1>2, PageIs
  <2>2. rows # {}
    BY <2>1
  <2>3. last = LastOf(R, rows)
    BY <2>1, <2>2 DEF Orders
  <2>4. page.cursor = last /\ page.rows = rows
    BY <1>2
  <2> QED
    BY <2>1, <2>3, <2>4 DEF IsPageOf, Passed
<1>3. CASE Cardinality(rows) # n
  <2>1. rows = K
    BY <1>3, PageIs
  <2> QED
    BY <1>3, <2>1 DEF IsPageOf
<1> QED
  BY <1>2, <1>3

LEMMA ListedIs ==
  ASSUME NEW d, DataOK(d), NEW kind \in Kinds
  PROVE  IsFiniteSet(Listed(d, kind)) /\ Listed(d, kind) \subseteq KeySet(kind)
<1>1. CASE kind = "users"
  BY <1>1 DEF Listed, KeySet, DataOK, IsTable
<1>2. CASE kind = "items"
  BY <1>2 DEF Listed, KeySet, DataOK, IsTable
<1>3. CASE kind = "feedback"
  <2>1. Listed(d, kind) \in SUBSET DOMAIN d.feedback
    BY <1>3 DEF Listed
  <2>2. IsFiniteSet(DOMAIN d.feedback) /\ DOMAIN d.feedback \subseteq FeedbackKeys
    BY DEF DataOK, IsTable
  <2>3. IsFiniteSet(Listed(d, kind))
    BY <2>1, <2>2, FS_Subset
  <2> QED
    BY <1>3, <2>1, <2>2, <2>3 DEF KeySet
<1> QED
  BY <1>1, <1>2, <1>3 DEF Kinds

LEMMA RestIs ==
  ASSUME NEW d, DataOK(d), NEW kind \in Kinds, NEW c, NEW last
  PROVE  /\ IsFiniteSet(Rest(Before(kind), Listed(d, kind), c, last))
         /\ Rest(Before(kind), Listed(d, kind), c, last) \subseteq KeySet(kind)
         /\ Orders(Before(kind), Rest(Before(kind), Listed(d, kind), c, last))
<1> DEFINE K == Rest(Before(kind), Listed(d, kind), c, last)
<1>1. K \in SUBSET Listed(d, kind)
  BY DEF Rest
<1> HIDE DEF K
<1>2. IsFiniteSet(K) /\ K \subseteq KeySet(kind)
  BY <1>1, ListedIs, FS_Subset
<1>3. Orders(Before(kind), K)
  BY <1>2, KeysAreOrdered
<1> QED
  BY <1>2, <1>3 DEF K

LEMMA SQLPages ==
  ASSUME DataOK(sql), NEW kind \in Kinds, NEW n \in Nat \ {0},
         NEW c, c = Nil \/ c \in KeySet(kind)
  PROVE  IsPageOf(SQLPage(kind, c, n), Before(kind), Rest(Before(kind), Listed(sql, kind), c, FALSE), FALSE)
<1> DEFINE R == Before(kind)
           f == FALSE
           K == Rest(R, Listed(sql, kind), c, f)
           page == SQLPage(kind, c, n)
           m == n + 1
           rows == NumbersFirst(K, m)
           last == LastNumber(rows)
           rated == RatedFirst(K, m)
           final == LastRated(rated)
<1>1. IsFiniteSet(K) /\ K \subseteq KeySet(kind) /\ Orders(R, K)
  <2> HIDE DEF f
  <2> QED
    BY RestIs
<1>2. m \in Nat
  OBVIOUS
<1>3. Nil \notin Nat /\ Now # Nil
  BY RowsAssumption, StoresAssumption
<1>4. CASE kind = "users"
  <2>1. R = {p \in Nat \X Nat : p[1] < p[2]} /\ K \subseteq Nat
    BY <1>1, <1>4 DEF Before, KeySet
  <2>2. K = {k \in DOMAIN sql.users : c = Nil \/ k >= c}
    <3>1. DOMAIN sql.users \subseteq Nat /\ (c = Nil \/ c \in Nat)
      BY <1>4 DEF DataOK, IsTable, KeySet
    <3>2. \A k \in DOMAIN sql.users : c = Nil \/ (<<k, c>> \in R <=> k < c)
      BY <2>1, <3>1
    <3>3. Listed(sql, kind) = DOMAIN sql.users
      BY <1>4 DEF Listed
    <3> HIDE DEF R
    <3> QED
      BY <3>1, <3>2, <3>3 DEF Rest, Passed
  <2> HIDE DEF K
  <2>5. page = SQL!Page(K, n, SQL!IdBefore)
    BY <1>4, <2>2 DEF SQLPage, SQL!GetUsers
  <2>3. page = IF Cardinality(rows) = n + 1 THEN [cursor |-> last, rows |-> rows \ {last}]
              ELSE [cursor |-> Nil, rows |-> rows]
    BY <2>5 DEF SQL!Page, SQL!FirstKeys, SQL!LastKey, SQL!IdBefore, SQL!Cardinality, Cardinality, NumbersFirst, LastNumber
  <2>4. /\ rows = Firsts(R, K, m)
        /\ rows # {} => last \in rows /\ \A h \in rows : h = last \/ <<h, last>> \in R
    <3> HIDE DEF R, m
    <3> QED
      BY <1>1, <1>2, <2>1, FirstNumbers
  <2> HIDE DEF rows, last, page, R
  <2> QED
    BY <1>1, <2>3, <2>4, SQLPageIs DEF R, K, page
<1>5. CASE kind = "items"
  <2>1. R = {p \in Nat \X Nat : p[1] < p[2]} /\ K \subseteq Nat
    BY <1>1, <1>5 DEF Before, KeySet
  <2>2. K = {k \in DOMAIN sql.items : c = Nil \/ k >= c}
    <3>1. DOMAIN sql.items \subseteq Nat /\ (c = Nil \/ c \in Nat)
      BY <1>5 DEF DataOK, IsTable, KeySet
    <3>2. \A k \in DOMAIN sql.items : c = Nil \/ (<<k, c>> \in R <=> k < c)
      BY <2>1, <3>1
    <3>3. Listed(sql, kind) = DOMAIN sql.items
      BY <1>5 DEF Listed
    <3> HIDE DEF R
    <3> QED
      BY <3>1, <3>2, <3>3 DEF Rest, Passed
  <2> HIDE DEF K
  <2>5. page = SQL!Page(K, n, SQL!IdBefore)
    <3>1. SQL!ItemsSince(sql, Nil) = DOMAIN sql.items
      BY DEF SQL!ItemsSince
    <3>2. K = {i \in SQL!ItemsSince(sql, Nil) : c = Nil \/ i >= c}
      BY <2>2, <3>1
    <3> QED
      BY <1>5, <3>2 DEF SQLPage, SQL!GetItems
  <2>3. page = IF Cardinality(rows) = n + 1 THEN [cursor |-> last, rows |-> rows \ {last}]
              ELSE [cursor |-> Nil, rows |-> rows]
    BY <2>5 DEF SQL!Page, SQL!FirstKeys, SQL!LastKey, SQL!IdBefore, SQL!Cardinality, Cardinality, NumbersFirst, LastNumber
  <2>4. /\ rows = Firsts(R, K, m)
        /\ rows # {} => last \in rows /\ \A h \in rows : h = last \/ <<h, last>> \in R
    <3> HIDE DEF R, m
    <3> QED
      BY <1>1, <1>2, <2>1, FirstNumbers
  <2> HIDE DEF rows, last, page, R
  <2> QED
    BY <1>1, <2>3, <2>4, SQLPageIs DEF R, K, page
<1>6. CASE kind = "feedback"
  <2>1. K \subseteq FeedbackKeys /\ (c = Nil \/ c \in FeedbackKeys)
    BY <1>1, <1>6 DEF KeySet
  <2>2. K = {k \in {k \in DOMAIN sql.feedback : sql.feedback[k] <= Now} : c = Nil \/ ~KeyBefore(k, c)}
    <3>1. DOMAIN sql.feedback \subseteq FeedbackKeys
      BY DEF DataOK, IsTable
    <3>2. \A a, b \in FeedbackKeys : <<a, b>> \in R <=> KeyBefore(a, b)
      BY <1>6 DEF Before
    <3>3. Listed(sql, kind) = {k \in DOMAIN sql.feedback : sql.feedback[k] <= Now}
      BY <1>6 DEF Listed
    <3> HIDE DEF R
    <3>5. \A k \in DOMAIN sql.feedback : c = Nil \/ (~Passed(R, c, k, f) <=> ~KeyBefore(k, c))
      BY <2>1, <3>1, <3>2 DEF Passed
    <3> QED
      BY <3>3, <3>5 DEF Rest
  <2>5. K = {k \in {k \in DOMAIN sql.feedback : TRUE} : sql.feedback[k] <= Now /\ (c = Nil \/ ~KeyBefore(k, c))}
    <3> HIDE DEF K
    <3> QED
      BY <2>2
  <2> HIDE DEF K
  <2>6. SQL!GetFeedback(sql, c, n, Nil, Now, {}) = SQL!Page(K, n, SQL!KeyBefore)
    <3>1. K = {k \in SQL!OfTypes(DOMAIN sql.feedback, {}) :
                 SQL!Between(sql, k, Nil, Now) /\ (c = Nil \/ ~SQL!KeyBefore(k, c))}
      BY <1>3, <2>5 DEF SQL!OfTypes, SQL!Between, SQL!KeyBefore, KeyBefore
    <3> QED
      BY <3>1 DEF SQL!GetFeedback
  <2>3. page = IF Cardinality(rated) = n + 1 THEN [cursor |-> final, rows |-> rated \ {final}]
              ELSE [cursor |-> Nil, rows |-> rated]
    BY <1>6, <2>6 DEF SQLPage, SQL!Page, SQL!FirstKeys, SQL!LastKey, SQL!KeyBefore, KeyBefore,
       SQL!Cardinality, Cardinality, RatedFirst, LastRated
  <2>4. /\ rated = Firsts(R, K, m)
        /\ rated # {} => final \in rated /\ \A h \in rated : h = final \/ <<h, final>> \in R
    <3>1. R = Before("feedback")
      BY <1>6
    <3> HIDE DEF R, m
    <3> QED
      BY <1>1, <1>2, <2>1, <3>1, FirstFeedback
  <2> HIDE DEF rated, final, page, R
  <2> QED
    BY <1>1, <2>3, <2>4, SQLPageIs DEF R, K, page
<1> QED
  BY <1>4, <1>5, <1>6 DEF Kinds

LEMMA MongoPages ==
  ASSUME DataOK(mongo), NEW kind \in Kinds, NEW n \in Nat \ {0},
         NEW c, c = Nil \/ c \in KeySet(kind)
  PROVE  IsPageOf(MongoPage(kind, c, n), Before(kind), Rest(Before(kind), Listed(mongo, kind), c, TRUE), TRUE)
<1> DEFINE R == Before(kind)
           f == TRUE
           K == Rest(R, Listed(mongo, kind), c, f)
           page == MongoPage(kind, c, n)
           m == n
           rows == NumbersFirst(K, m)
           last == LastNumber(rows)
           rated == RatedFirst(K, m)
           final == LastRated(rated)
<1>1. IsFiniteSet(K) /\ K \subseteq KeySet(kind) /\ Orders(R, K)
  <2> HIDE DEF f
  <2> QED
    BY RestIs
<1>2. m \in Nat
  OBVIOUS
<1>3. Nil \notin Nat /\ Now # Nil
  BY RowsAssumption, StoresAssumption
<1>4. CASE kind = "users"
  <2>1. R = {p \in Nat \X Nat : p[1] < p[2]} /\ K \subseteq Nat
    BY <1>1, <1>4 DEF Before, KeySet
  <2>2. K = {k \in DOMAIN mongo.users : c = Nil \/ k > c}
    <3>1. DOMAIN mongo.users \subseteq Nat /\ (c = Nil \/ c \in Nat)
      BY <1>4 DEF DataOK, IsTable, KeySet
    <3>2. \A k \in DOMAIN mongo.users : c = Nil \/ (<<k, c>> \in R <=> k < c)
      BY <2>1, <3>1
    <3>3. Listed(mongo, kind) = DOMAIN mongo.users
      BY <1>4 DEF Listed
    <3> HIDE DEF R
    <3> QED
      BY <3>1, <3>2, <3>3 DEF Rest, Passed
  <2> HIDE DEF K
  <2>5. page = Mongo!Page(K, n, Mongo!IdBefore)
    BY <1>4, <2>2 DEF MongoPage, Mongo!GetUsers
  <2>3. page = [cursor |-> IF Cardinality(rows) = n THEN last ELSE Nil, rows |-> rows]
    BY <2>5 DEF Mongo!Page, Mongo!FirstKeys, Mongo!LastKey, Mongo!IdBefore,
       Mongo!Cardinality, Cardinality, NumbersFirst, LastNumber
  <2>4. /\ rows = Firsts(R, K, m)
        /\ rows # {} => last \in rows /\ \A h \in rows : h = last \/ <<h, last>> \in R
    <3> HIDE DEF R, m
    <3> QED
      BY <1>1, <1>2, <2>1, FirstNumbers
  <2> HIDE DEF rows, last, page, R
  <2> QED
    BY <1>1, <2>3, <2>4, MongoPageIs DEF R, K, page
<1>5. CASE kind = "items"
  <2>1. R = {p \in Nat \X Nat : p[1] < p[2]} /\ K \subseteq Nat
    BY <1>1, <1>5 DEF Before, KeySet
  <2>2. K = {k \in DOMAIN mongo.items : c = Nil \/ k > c}
    <3>1. DOMAIN mongo.items \subseteq Nat /\ (c = Nil \/ c \in Nat)
      BY <1>5 DEF DataOK, IsTable, KeySet
    <3>2. \A k \in DOMAIN mongo.items : c = Nil \/ (<<k, c>> \in R <=> k < c)
      BY <2>1, <3>1
    <3>3. Listed(mongo, kind) = DOMAIN mongo.items
      BY <1>5 DEF Listed
    <3> HIDE DEF R
    <3> QED
      BY <3>1, <3>2, <3>3 DEF Rest, Passed
  <2> HIDE DEF K
  <2>5. page = Mongo!Page(K, n, Mongo!IdBefore)
    <3>1. Mongo!ItemsAfter(mongo, Nil) = DOMAIN mongo.items
      BY DEF Mongo!ItemsAfter
    <3>2. K = {i \in Mongo!ItemsAfter(mongo, Nil) : c = Nil \/ i > c}
      BY <2>2, <3>1
    <3> QED
      BY <1>5, <3>2 DEF MongoPage, Mongo!GetItems
  <2>3. page = [cursor |-> IF Cardinality(rows) = n THEN last ELSE Nil, rows |-> rows]
    BY <2>5 DEF Mongo!Page, Mongo!FirstKeys, Mongo!LastKey, Mongo!IdBefore,
       Mongo!Cardinality, Cardinality, NumbersFirst, LastNumber
  <2>4. /\ rows = Firsts(R, K, m)
        /\ rows # {} => last \in rows /\ \A h \in rows : h = last \/ <<h, last>> \in R
    <3> HIDE DEF R, m
    <3> QED
      BY <1>1, <1>2, <2>1, FirstNumbers
  <2> HIDE DEF rows, last, page, R
  <2> QED
    BY <1>1, <2>3, <2>4, MongoPageIs DEF R, K, page
<1>6. CASE kind = "feedback"
  <2>1. K \subseteq FeedbackKeys /\ (c = Nil \/ c \in FeedbackKeys)
    BY <1>1, <1>6 DEF KeySet
  <2>2. K = {k \in {k \in DOMAIN mongo.feedback : mongo.feedback[k] <= Now} : c = Nil \/ KeyBefore(c, k)}
    <3>1. DOMAIN mongo.feedback \subseteq FeedbackKeys
      BY DEF DataOK, IsTable
    <3>2. \A a, b \in FeedbackKeys : <<a, b>> \in R <=> KeyBefore(a, b)
      BY <1>6 DEF Before
    <3>3. Listed(mongo, kind) = {k \in DOMAIN mongo.feedback : mongo.feedback[k] <= Now}
      BY <1>6 DEF Listed
    <3>4. Orders(R, FeedbackKeys)
      <4>1. FeedbackKeys \subseteq KeySet(kind)
        BY <1>6 DEF KeySet
      <4> QED
        BY <4>1, KeysAreOrdered
    <3> HIDE DEF R
    <3>5. \A k \in DOMAIN mongo.feedback : c = Nil \/ (~Passed(R, c, k, f) <=> KeyBefore(c, k))
      BY <2>1, <3>1, <3>2, <3>4 DEF Passed, Orders
    <3> QED
      BY <3>3, <3>5 DEF Rest
  <2>5. K = {k \in {k \in DOMAIN mongo.feedback : TRUE} : mongo.feedback[k] <= Now /\ (c = Nil \/ KeyBefore(c, k))}
    <3> HIDE DEF K
    <3> QED
      BY <2>2
  <2> HIDE DEF K
  <2>6. Mongo!GetFeedback(mongo, c, n, Nil, Now, {}) = Mongo!Page(K, n, Mongo!KeyBefore)
    <3>1. K = {k \in Mongo!OfTypes(DOMAIN mongo.feedback, {}) :
                 /\ Nil # Nil \/ Now # Nil
                 /\ Mongo!Between(mongo, k, Nil, Now)
                 /\ c = Nil \/ Mongo!KeyBefore(c, k)}
      BY <1>3, <2>5 DEF Mongo!OfTypes, Mongo!Between, Mongo!KeyBefore, KeyBefore
    <3> QED
      BY <3>1 DEF Mongo!GetFeedback
  <2>3. page = [cursor |-> IF Cardinality(rated) = n THEN final ELSE Nil, rows |-> rated]
    BY <1>6, <2>6 DEF MongoPage, Mongo!Page, Mongo!FirstKeys, Mongo!LastKey, Mongo!KeyBefore, KeyBefore,
       Mongo!Cardinality, Cardinality, RatedFirst, LastRated
  <2>4. /\ rated = Firsts(R, K, m)
        /\ rated # {} => final \in rated /\ \A h \in rated : h = final \/ <<h, final>> \in R
    <3>1. R = Before("feedback")
      BY <1>6
    <3> HIDE DEF R, m
    <3> QED
      BY <1>1, <1>2, <2>1, <3>1, FirstFeedback
  <2> HIDE DEF rated, final, page, R
  <2> QED
    BY <1>1, <2>3, <2>4, MongoPageIs DEF R, K, page
<1> QED
  BY <1>4, <1>5, <1>6 DEF Kinds

\* A scan is idle or reads the tables of one kind.
IsScan(sc, kind, s, m) ==
  /\ sc = [k \in {kind} |-> sc[kind]]
  /\ sc[kind] = [n |-> sc[kind].n, sql |-> sc[kind].sql, mongo |-> sc[kind].mongo]
  /\ sc[kind].n \in PageSizes
  /\ Reading(sc[kind].sql, Before(kind), KeySet(kind), Listed(s, kind), FALSE)
  /\ Reading(sc[kind].mongo, Before(kind), KeySet(kind), Listed(m, kind), TRUE)
ScanOK(sc, s, m) == sc = NoScan \/ \E kind \in Kinds : IsScan(sc, kind, s, m)

LEMMA ScanIs ==
  ASSUME NEW kind, NEW r, NEW n \in PageSizes, NEW x, NEW y, NEW s, NEW m,
         r = [n |-> n, sql |-> x, mongo |-> y],
         NEW sc, sc = [k \in {kind} |-> r],
         Reading(x, Before(kind), KeySet(kind), Listed(s, kind), FALSE),
         Reading(y, Before(kind), KeySet(kind), Listed(m, kind), TRUE)
  PROVE  IsScan(sc, kind, s, m)
<1>1. sc[kind] = r /\ r.n = n /\ r.sql = x /\ r.mongo = y
  OBVIOUS
<1>2. sc = [k \in {kind} |-> sc[kind]] /\ sc[kind] = [n |-> sc[kind].n, sql |-> sc[kind].sql, mongo |-> sc[kind].mongo]
  BY <1>1
<1> QED
  BY <1>1, <1>2 DEF IsScan

LEMMA ScanBegins ==
  ASSUME DataInv, BeginScan
  PROVE  ScanOK(scan', sql', mongo')
<1>1. PICK kind \in Kinds, n \in PageSizes :
        scan' = [k \in {kind} |-> [n |-> n, sql |-> Begun(sql, kind), mongo |-> Begun(mongo, kind)]]
  BY DEF BeginScan, Kinds
<1>2. sql' = sql /\ mongo' = mongo
  BY DEF BeginScan
<1> DEFINE x == Begun(sql, kind)
           y == Begun(mongo, kind)
           r == [n |-> n, sql |-> x, mongo |-> y]
           f == FALSE
           t == TRUE
<1>3. Listed(sql, kind) \subseteq KeySet(kind) /\ Listed(mongo, kind) \subseteq KeySet(kind)
  BY ListedIs DEF DataInv
<1>4. /\ Reading(x, Before(kind), KeySet(kind), Listed(sql, kind), f)
      /\ Reading(y, Before(kind), KeySet(kind), Listed(mongo, kind), t)
  <2> HIDE DEF f, t
  <2> QED
    BY <1>3, ReaderBegins
<1>5. scan' = [k \in {kind} |-> r] /\ r = [n |-> n, sql |-> x, mongo |-> y]
  BY <1>1
<1> HIDE DEF r, x, y
<1>6. IsScan(scan', kind, sql, mongo)
  BY <1>4, <1>5, ScanIs DEF f, t
<1> QED
  BY <1>2, <1>6 DEF ScanOK

LEMMA ScanTurns ==
  ASSUME DataInv, ScanOK(scan, sql, mongo), TurnPage
  PROVE  ScanOK(scan', sql', mongo')
<1>1. PICK kind \in Kinds : IsScan(scan, kind, sql, mongo)
  BY DEF TurnPage, ScanOK
<1>2. sql' = sql /\ mongo' = mongo
  BY DEF TurnPage
<1> DEFINE r == scan[kind]
           n == scan[kind].n
           a == scan[kind].sql
           b == scan[kind].mongo
           x == IF a.open THEN Turned(a, SQLPage(kind, a.cursor, n)) ELSE a
           y == IF b.open THEN Turned(b, MongoPage(kind, b.cursor, n)) ELSE b
           R == Before(kind)
           keys == KeySet(kind)
           f == FALSE
           t == TRUE
<1>3. /\ scan = [k \in {kind} |-> r] /\ r = [n |-> n, sql |-> a, mongo |-> b] /\ n \in PageSizes
      /\ Reading(a, R, keys, Listed(sql, kind), f) /\ Reading(b, R, keys, Listed(mongo, kind), t)
  BY <1>1 DEF IsScan
<1>4. /\ Orders(R, keys) /\ Nil \notin keys
      /\ Listed(sql, kind) \subseteq keys /\ Listed(mongo, kind) \subseteq keys
  <2>1. Orders(R, keys)
    BY KeysAreOrdered
  <2>2. Nil \notin keys
    BY RowsAssumption DEF KeySet
  <2> QED
    BY <2>1, <2>2, ListedIs DEF DataInv
<1>5. Reading(x, R, keys, Listed(sql, kind), f)
  <2>1. CASE a.open
    <3> DEFINE page == SQLPage(kind, a.cursor, n)
    <3>1. n \in Nat \ {0} /\ (a.cursor = Nil \/ a.cursor \in keys)
      BY <1>3, <2>1, StoresAssumption DEF Reading
    <3>2. IsPageOf(page, R, Rest(R, Listed(sql, kind), a.cursor, f), f)
      BY <3>1, SQLPages DEF DataInv
    <3>3. f \in BOOLEAN
      OBVIOUS
    <3> HIDE DEF page, f, R, keys, a, n
    <3>4. Reading(Turned(a, page), R, keys, Listed(sql, kind), f)
      BY <1>3, <1>4, <2>1, <3>2, <3>3, ReaderTurns
    <3> QED
      BY <2>1, <3>4 DEF page
  <2>2. CASE ~a.open
    BY <1>3, <2>2
  <2> QED
    BY <2>1, <2>2
<1>6. Reading(y, R, keys, Listed(mongo, kind), t)
  <2>1. CASE b.open
    <3> DEFINE page == MongoPage(kind, b.cursor, n)
    <3>1. n \in Nat \ {0} /\ (b.cursor = Nil \/ b.cursor \in keys)
      BY <1>3, <2>1, StoresAssumption DEF Reading
    <3>2. IsPageOf(page, R, Rest(R, Listed(mongo, kind), b.cursor, t), t)
      BY <3>1, MongoPages DEF DataInv
    <3>3. t \in BOOLEAN
      OBVIOUS
    <3> HIDE DEF page, t, R, keys, b, n
    <3>4. Reading(Turned(b, page), R, keys, Listed(mongo, kind), t)
      BY <1>3, <1>4, <2>1, <3>2, <3>3, ReaderTurns
    <3> QED
      BY <2>1, <3>4 DEF page
  <2>2. CASE ~b.open
    BY <1>3, <2>2
  <2> QED
    BY <2>1, <2>2
<1> DEFINE rr == [n |-> n, sql |-> x, mongo |-> y]
<1>7. scan' = [k \in {kind} |-> rr]
  <2>1. scan' = [scan EXCEPT
          ![kind].sql = IF @.open THEN Turned(@, SQLPage(kind, @.cursor, r.n)) ELSE @,
          ![kind].mongo = IF @.open THEN Turned(@, MongoPage(kind, @.cursor, r.n)) ELSE @]
    <3>1. DOMAIN scan = {kind}
      <4> HIDE DEF r
      <4> QED
        BY <1>3
    <3> QED
      BY <3>1, Zenon DEF TurnPage
  <2>2. scan' = [scan EXCEPT ![kind].sql = x, ![kind].mongo = y]
    <3> DEFINE one == [scan EXCEPT ![kind].sql = x]
    <3>1. one[kind].mongo = b
      <4> HIDE DEF x
      <4> QED
        BY <1>3
    <3> QED
      BY <2>1, <3>1
  <2> HIDE DEF x, y
  <2>3. scan' = [scan EXCEPT ![kind] = [[r EXCEPT !.sql = x] EXCEPT !.mongo = y]]
    BY <1>3, <2>2
  <2>4. [[r EXCEPT !.sql = x] EXCEPT !.mongo = y] = rr
    <3>1. r = [n |-> n, sql |-> a, mongo |-> b]
      BY <1>3
    <3> HIDE DEF r, n, a, b
    <3> DEFINE half == [r EXCEPT !.sql = x]
    <3>2. half = [n |-> n, sql |-> x, mongo |-> b]
      BY <3>1
    <3> HIDE DEF half
    <3>3. [half EXCEPT !.mongo = y] = rr
      BY <3>2
    <3> QED
      BY <3>3 DEF half
  <2> HIDE DEF r, rr, n, a, b
  <2> QED
    BY <1>3, <2>3, <2>4
<1> HIDE DEF x, y, rr, n
<1>8. IsScan(scan', kind, sql, mongo)
  <2>1. rr = [n |-> n, sql |-> x, mongo |-> y]
    BY DEF rr
  <2> QED
    BY <1>3, <1>5, <1>6, <1>7, <2>1, ScanIs DEF f, t, R, keys
<1> QED
  BY <1>2, <1>8 DEF ScanOK

LEMMA ScanWatches ==
  ASSUME ScanOK(scan, sql, mongo), NEW s, NEW m
  PROVE  ScanOK(Watched(s, m), s, m)
<1>1. CASE scan = NoScan
  BY <1>1 DEF Watched, ScanOK
<1>2. CASE scan # NoScan
  <2>1. PICK kind \in Kinds : IsScan(scan, kind, sql, mongo)
    BY <1>2 DEF ScanOK
  <2> DEFINE r == scan[kind]
             n == scan[kind].n
             a == scan[kind].sql
             b == scan[kind].mongo
             x == StillThere(a, s, kind)
             y == StillThere(b, m, kind)
             rr == [n |-> n, sql |-> x, mongo |-> y]
             f == FALSE
             t == TRUE
  <2>3. /\ scan = [k \in {kind} |-> r] /\ r = [n |-> n, sql |-> a, mongo |-> b] /\ n \in PageSizes
        /\ Reading(a, Before(kind), KeySet(kind), Listed(sql, kind), f)
        /\ Reading(b, Before(kind), KeySet(kind), Listed(mongo, kind), t)
    BY <2>1 DEF IsScan
  <2>4. /\ Reading(x, Before(kind), KeySet(kind), Listed(s, kind), f)
        /\ Reading(y, Before(kind), KeySet(kind), Listed(m, kind), t)
    <3> HIDE DEF f, t, a, b
    <3> QED
      BY <2>3, ReaderWatches
  <2>5. Watched(s, m) = [k \in {kind} |-> rr]
    <3>0. DOMAIN scan = {kind}
      <4> HIDE DEF r
      <4> QED
        BY <2>3
    <3>1. Watched(s, m) = [k \in {kind} |->
            [scan[k] EXCEPT !.sql = StillThere(@, s, k), !.mongo = StillThere(@, m, k)]]
      BY <1>2, <3>0 DEF Watched
    <3>2. Watched(s, m) = [k \in {kind} |->
            [[r EXCEPT !.sql = x] EXCEPT !.mongo = StillThere([r EXCEPT !.sql = x].mongo, m, kind)]]
      BY <3>1
    <3>3. [r EXCEPT !.sql = x].mongo = b
      <4> HIDE DEF r, n, a, b, x
      <4> QED
        BY <2>3
    <3>4. [[r EXCEPT !.sql = x] EXCEPT !.mongo = y] = rr
      <4>1. r = [n |-> n, sql |-> a, mongo |-> b]
        BY <2>3
      <4> HIDE DEF r, n, a, b, x, y
      <4> DEFINE half == [r EXCEPT !.sql = x]
      <4>2. half = [n |-> n, sql |-> x, mongo |-> b]
        BY <4>1
      <4> HIDE DEF half
      <4>3. [half EXCEPT !.mongo = y] = rr
        BY <4>2
      <4> QED
        BY <4>3 DEF half
    <3> QED
      BY <3>2, <3>3, <3>4
  <2>6. rr = [n |-> n, sql |-> x, mongo |-> y]
    OBVIOUS
  <2> HIDE DEF x, y, rr, n
  <2>7. IsScan(Watched(s, m), kind, s, m)
    BY <2>3, <2>4, <2>5, <2>6, ScanIs DEF f, t
  <2> QED
    BY <2>7 DEF ScanOK
<1> QED
  BY <1>1, <1>2

LEMMA ScanSteps ==
  ASSUME DataInv, ScanOK(scan, sql, mongo), [Next]_dataVars
  PROVE  ScanOK(scan', sql', mongo')
<1>1. CASE scan' = Watched(sql', mongo')
  BY <1>1, ScanWatches
<1>2. CASE InsertUsers \/ InsertItems \/ InsertFeedback \/ ModifyUser \/ ModifyItem
           \/ DeleteUser \/ DeleteItem \/ DeleteFeedback \/ Purge
  <2>1. scan' = Watched(sql', mongo')
    <3>1. ASSUME NEW s, NEW m, NEW p, Write(s, m, p) PROVE scan' = Watched(sql', mongo')
      BY <3>1 DEF Write
    <3> QED
      BY <1>2, <3>1, Zenon DEF InsertUsers, InsertItems, InsertFeedback, ModifyUser, ModifyItem,
         DeleteUser, DeleteItem, DeleteFeedback, Purge
  <2> QED
    BY <1>1, <2>1
<1>3. CASE BeginScan
  BY <1>3, ScanBegins
<1>4. CASE TurnPage
  BY <1>4, ScanTurns
<1>5. CASE EndScan
  BY <1>5 DEF EndScan, ScanOK
<1>6. CASE UNCHANGED dataVars
  BY <1>6 DEF dataVars
<1> QED
  BY <1>2, <1>3, <1>4, <1>5, <1>6 DEF Next

LEMMA ScansComplete ==
  ASSUME ScanOK(scan, sql, mongo)
  PROVE  ScansAreComplete
<1> SUFFICES ASSUME scan # NoScan, NEW k \in DOMAIN scan
             PROVE  Complete(scan[k].sql) /\ Complete(scan[k].mongo)
  BY DEF ScansAreComplete
<1>1. PICK kind \in Kinds : IsScan(scan, kind, sql, mongo)
  BY DEF ScanOK
<1>2. k = kind
  <2> DEFINE r == scan[kind]
  <2>1. scan = [h \in {kind} |-> r]
    BY <1>1 DEF IsScan
  <2> HIDE DEF r
  <2> QED
    BY <2>1
<1>3. ASSUME NEW r, NEW R, NEW keys, NEW L, NEW last, Reading(r, R, keys, L, last) PROVE Complete(r)
  BY <1>3 DEF Reading, Complete
<1> QED
  BY <1>1, <1>2, <1>3 DEF IsScan
----------------------------------------------------------------------------
(* Updates and deletions by pages in Redis *)

Hit(docs, q, k) ==
  /\ k \in DOMAIN docs
  /\ "timestamp" \in DOMAIN docs[k]
  /\ k.collection \in q.collections
  /\ q.subset = Nil \/ k.subset = q.subset
  /\ q.id = Nil \/ k.id = q.id
  /\ q.before = Nil \/ docs[k].timestamp < q.before

Patched(docs, k) == docs[k] = Over(RedisPatch, docs[k])

\* What is left of an operation: the documents of the last page, and for an
\* update those that it has patched.
OpOK(docs, o) ==
  /\ o = [kind |-> o.kind, query |-> o.query, at |-> o.at, todo |-> o.todo, key |-> o.key,
          total |-> o.total, size |-> o.size, since |-> o.since]
  /\ o.kind \in {"update", "delete"} /\ o.at \in {"search", "page", "write", "done"}
  /\ o.kind = "update" => o.query.before = Nil
  /\ \A k \in o.since : Hit(docs, o.query, k)
  /\ o.at = "write" => o.kind = "update" /\ o.key \in o.todo
  /\ o.at \in {"page", "write"} /\ o.total = o.size =>
       \A k \in o.since : k \in o.todo \/ (o.kind = "update" /\ Patched(docs, k))
  /\ o.at = "done" => \A k \in o.since : o.kind = "update" /\ Patched(docs, k)

RedisOK(docs, o) == IsFiniteSet(DOMAIN docs) /\ (o = Idle \/ OpOK(docs, o))

LEMMA HitsAre ==
  ASSUME NEW q, NEW k
  PROVE  k \in Hits(q) <=> Hit(documents, q, k)
  BY DEF Hits, Hit

\* Setting the fields of a patch once more changes nothing.
LEMMA PatchedOnce ==
  ASSUME NEW row
  PROVE  Over(RedisPatch, row) = Over(RedisPatch, Over(RedisPatch, row))
<1> DEFINE once == Over(RedisPatch, row)
           twice == Over(RedisPatch, once)
<1>1. /\ IsRecord(once) /\ DOMAIN once = DOMAIN RedisPatch \cup DOMAIN row
      /\ \A f \in DOMAIN RedisPatch : once[f] = RedisPatch[f]
  BY OverIs
<1> HIDE DEF once
<1>2. /\ IsRecord(twice) /\ DOMAIN twice = DOMAIN RedisPatch \cup DOMAIN once
      /\ \A f \in DOMAIN RedisPatch : twice[f] = RedisPatch[f]
      /\ \A f \in DOMAIN once \ DOMAIN RedisPatch : twice[f] = once[f]
  BY OverIs
<1> HIDE DEF twice
<1>3. DOMAIN twice = DOMAIN once /\ \A f \in DOMAIN once : twice[f] = once[f]
  BY <1>1, <1>2
<1>4. once = twice
  BY <1>1, <1>2, <1>3 DEF IsRecord
<1> QED
  BY <1>4 DEF once, twice

\* Other documents than those that an operation keeps may change.
LEMMA OpKeeps ==
  ASSUME NEW docs, NEW new, NEW o, OpOK(docs, o), NEW since, since \subseteq o.since,
         \A k \in since : k \in DOMAIN new /\ new[k] = docs[k]
  PROVE  OpOK(new, [o EXCEPT !.since = since])
<1> DEFINE p == [o EXCEPT !.since = since]
<1>1. p = [kind |-> o.kind, query |-> o.query, at |-> o.at, todo |-> o.todo, key |-> o.key,
           total |-> o.total, size |-> o.size, since |-> since]
  BY DEF OpOK
<1>2. /\ p.kind = o.kind /\ p.query = o.query /\ p.at = o.at /\ p.todo = o.todo /\ p.key = o.key
      /\ p.total = o.total /\ p.size = o.size /\ p.since = since
      /\ p = [kind |-> p.kind, query |-> p.query, at |-> p.at, todo |-> p.todo, key |-> p.key,
              total |-> p.total, size |-> p.size, since |-> p.since]
  BY <1>1
<1>3. ASSUME NEW k \in since PROVE Hit(docs, o.query, k) => Hit(new, o.query, k)
  BY <1>3 DEF Hit
<1>4. ASSUME NEW k \in since PROVE Patched(docs, k) => Patched(new, k)
  BY <1>4 DEF Patched
<1> SUFFICES OpOK(new, p)
  OBVIOUS
<1> HIDE DEF p
<1> QED
  BY <1>2, <1>3, <1>4 DEF OpOK

LEMMA FiniteSteps ==
  ASSUME IsFiniteSet(DOMAIN documents), [RedisNext]_redisVars
  PROVE  IsFiniteSet(DOMAIN documents')
<1>1. ASSUME NEW t, NEW k PROVE IsFiniteSet(DOMAIN Over([h \in {k} |-> t], documents))
  <2> DEFINE new == [h \in {k} |-> t]
  <2>1. IsFiniteSet(DOMAIN new)
    BY FS_Singleton
  <2> HIDE DEF new
  <2>2. DOMAIN Over(new, documents) = DOMAIN new \cup DOMAIN documents
    BY OverIs
  <2>3. IsFiniteSet(DOMAIN new \cup DOMAIN documents)
    BY <2>1, FS_Union
  <2> QED
    BY <2>2, <2>3 DEF new
<1>2. ASSUME NEW gone PROVE IsFiniteSet(DOMAIN Without(documents, gone))
  <2>1. DOMAIN Without(documents, gone) = DOMAIN documents \ gone
    BY WithoutIs
  <2> QED
    BY <2>1, FS_Difference
<1>3. CASE HSet
  <2> DEFINE t == Over(RedisPatch, IF op.key \in DOMAIN documents THEN documents[op.key] ELSE EmptyTable)
  <2>1. documents' = Over([k \in {op.key} |-> t], documents)
    BY <1>3 DEF HSet
  <2> HIDE DEF t
  <2> QED
    BY <2>1, <1>1
<1>4. CASE Del \/ OtherDeletes
  BY <1>4, <1>2 DEF Del, OtherDeletes
<1>5. CASE OtherAdds
  BY <1>5, <1>1 DEF OtherAdds
<1>6. CASE Begin \/ Search \/ Exists \/ NextPage \/ Return \/ UNCHANGED redisVars
  BY <1>6 DEF Begin, Search, Exists, NextPage, Return, redisVars
<1> QED
  BY <1>3, <1>4, <1>5, <1>6 DEF RedisNext, RedisStep

LEMMA RedisBegins ==
  ASSUME Begin
  PROVE  OpOK(documents', op')
<1>1. PICK kind \in {"update", "delete"}, query \in Queries :
        /\ kind = "update" => query.before = Nil
        /\ op' = [kind |-> kind, query |-> query, at |-> "search", todo |-> {}, key |-> Nil,
                  total |-> 0, size |-> 0, since |-> Hits(query)]
  BY DEF Begin
<1> DEFINE since == Hits(query)
           none == {}
<1>2. op' = [kind |-> kind, query |-> query, at |-> "search", todo |-> none, key |-> Nil,
             total |-> 0, size |-> 0, since |-> since]
  BY <1>1
<1>3. \A k \in since : Hit(documents, query, k)
  BY HitsAre
<1>4. documents' = documents
  BY DEF Begin
<1> HIDE DEF since, none
<1> QED
  BY <1>1, <1>2, <1>3, <1>4 DEF OpOK

LEMMA RedisSearches ==
  ASSUME IsFiniteSet(DOMAIN documents), OpOK(documents, op), Search
  PROVE  OpOK(documents', op')
<1> DEFINE hits == Hits(op.query)
           total == Cardinality(hits)
<1>1. PICK page \in SUBSET hits :
        /\ Cardinality(page) = IF Cardinality(hits) <= PageSize THEN Cardinality(hits) ELSE PageSize
        /\ op' = [op EXCEPT !.at = "page", !.todo = page, !.size = Cardinality(page), !.total = Cardinality(hits)]
  BY DEF Search
<1>2. hits \in SUBSET DOMAIN documents
  BY DEF Hits
<1>3. IsFiniteSet(hits) /\ total \in Nat
  BY <1>2, FS_Subset, FS_CardinalityType
<1> DEFINE size == Cardinality(page)
<1>4. size = total => page = hits
  <2> HIDE DEF hits
  <2> QED
    BY <1>3, FS_Subset
<1>5. \A k \in op.since : k \in hits
  <2>1. \A k \in op.since : Hit(documents, op.query, k)
    BY DEF OpOK
  <2> QED
    BY <2>1, HitsAre
<1>6. documents' = documents
  BY DEF Search
<1> HIDE DEF hits, total, size
<1>7. op' = [op EXCEPT !.at = "page", !.todo = page, !.size = size, !.total = total]
  BY <1>1 DEF total, size
<1>8. /\ op' = [kind |-> op.kind, query |-> op.query, at |-> "page", todo |-> page, key |-> op.key,
                total |-> total, size |-> size, since |-> op.since]
  BY <1>7 DEF OpOK
<1> QED
  BY <1>4, <1>5, <1>6, <1>8 DEF OpOK

LEMMA RedisChecks ==
  ASSUME OpOK(documents, op), Exists
  PROVE  OpOK(documents', op')
<1>1. documents' = documents /\ op.kind = "update" /\ op.at = "page"
  BY DEF Exists
<1>2. PICK k \in op.todo :
        op' = IF k \in DOMAIN documents
                THEN [op EXCEPT !.at = "write", !.key = k]
                ELSE [op EXCEPT !.todo = @ \ {k}]
  BY DEF Exists
<1>3. CASE k \in DOMAIN documents
  <2>1. op' = [kind |-> op.kind, query |-> op.query, at |-> "write", todo |-> op.todo, key |-> k,
               total |-> op.total, size |-> op.size, since |-> op.since]
    BY <1>2, <1>3 DEF OpOK
  <2> QED
    BY <1>1, <2>1 DEF OpOK
<1>4. CASE k \notin DOMAIN documents
  <2> DEFINE todo == op.todo \ {k}
  <2>1. op' = [op EXCEPT !.todo = todo]
    BY <1>2, <1>4
  <2>2. \A h \in op.since : h \in op.todo => h \in todo
    BY <1>4 DEF OpOK, Hit
  <2> HIDE DEF todo
  <2>3. op' = [kind |-> op.kind, query |-> op.query, at |-> op.at, todo |-> todo, key |-> op.key,
               total |-> op.total, size |-> op.size, since |-> op.since]
    BY <2>1 DEF OpOK
  <2> QED
    BY <1>1, <2>2, <2>3 DEF OpOK
<1> QED
  BY <1>3, <1>4

LEMMA RedisWrites ==
  ASSUME OpOK(documents, op), HSet
  PROVE  OpOK(documents', op')
<1> DEFINE key == op.key
           row == Over(RedisPatch, IF key \in DOMAIN documents THEN documents[key] ELSE EmptyTable)
           new == [k \in {key} |-> row]
           todo == op.todo \ {key}
<1>1. op.at = "write" /\ op.kind = "update" /\ op.query.before = Nil
  BY DEF HSet, OpOK
<1>2. documents' = Over(new, documents) /\ op' = [op EXCEPT !.at = "page", !.todo = todo, !.key = Nil]
  BY DEF HSet
<1>3. Over(RedisPatch, row) = row
  BY PatchedOnce
<1>4. /\ DOMAIN new = {key} /\ new[key] = row
      /\ \A h \in op.since : h \in DOMAIN documents
  BY DEF OpOK, Hit
<1>6. key \in DOMAIN documents /\ "timestamp" \in DOMAIN documents[key] => "timestamp" \in DOMAIN row
  BY DEF Over
<1> HIDE DEF new, row
<1>5. /\ DOMAIN Over(new, documents) = DOMAIN new \cup DOMAIN documents
      /\ \A k \in DOMAIN new : Over(new, documents)[k] = new[k]
      /\ \A k \in DOMAIN documents \ DOMAIN new : Over(new, documents)[k] = documents[k]
  BY OverIs
<1>7. documents'[key] = row /\ \A k \in DOMAIN documents : k # key => documents'[k] = documents[k]
  BY <1>2, <1>4, <1>5
<1>8. ASSUME NEW h \in op.since PROVE Hit(documents', op.query, h)
  <2>1. Hit(documents, op.query, h)
    BY DEF OpOK
  <2>2. h \in DOMAIN documents'
    BY <1>2, <1>4, <1>5
  <2>3. CASE h = key
    BY <1>1, <1>6, <1>7, <2>1, <2>2, <2>3 DEF Hit
  <2>4. CASE h # key
    BY <1>7, <2>1, <2>2, <2>4 DEF Hit
  <2> QED
    BY <2>3, <2>4
<1>9. ASSUME NEW h \in op.since, op.total = op.size PROVE h \in todo \/ Patched(documents', h)
  <2>1. h \in op.todo \/ Patched(documents, h)
    BY <1>1, <1>9 DEF OpOK
  <2>2. CASE h = key
    BY <1>3, <1>7, <2>2 DEF Patched
  <2>3. CASE h # key
    BY <1>4, <1>7, <2>1, <2>3 DEF Patched
  <2> QED
    BY <2>2, <2>3
<1> HIDE DEF todo
<1>10. op' = [kind |-> op.kind, query |-> op.query, at |-> "page", todo |-> todo, key |-> Nil,
              total |-> op.total, size |-> op.size, since |-> op.since]
  BY <1>2 DEF OpOK
<1> QED
  BY <1>1, <1>8, <1>9, <1>10 DEF OpOK

LEMMA RedisDeletes ==
  ASSUME OpOK(documents, op), Del
  PROVE  OpOK(documents', op')
<1>1. PICK k \in op.todo :
        documents' = Without(documents, {k}) /\ op' = [op EXCEPT !.todo = @ \ {k}, !.since = @ \ {k}]
  BY DEF Del
<1> DEFINE todo == op.todo \ {k}
           since == op.since \ {k}
<1>2. /\ DOMAIN documents' = DOMAIN documents \ {k}
      /\ \A h \in DOMAIN documents \ {k} : documents'[h] = documents[h]
  BY <1>1, WithoutIs
<1>3. op' = [op EXCEPT !.todo = todo, !.since = since]
  BY <1>1 DEF OpOK
<1>4. op.kind = "delete" /\ op.at = "page"
  BY DEF Del
<1>5. ASSUME NEW h \in since PROVE Hit(documents', op.query, h) /\ (op.total = op.size => h \in todo)
  <2>1. Hit(documents, op.query, h)
    BY DEF OpOK
  <2>2. op.total = op.size => h \in op.todo
    BY <1>4 DEF OpOK
  <2> QED
    BY <1>2, <2>1, <2>2 DEF Hit
<1> HIDE DEF todo, since
<1>6. op' = [kind |-> op.kind, query |-> op.query, at |-> op.at, todo |-> todo, key |-> op.key,
             total |-> op.total, size |-> op.size, since |-> since]
  BY <1>3 DEF OpOK
<1> QED
  BY <1>4, <1>5, <1>6 DEF OpOK

LEMMA RedisTurns ==
  ASSUME OpOK(documents, op), NextPage
  PROVE  OpOK(documents', op')
<1> DEFINE at == IF LastPage THEN "done" ELSE "search"
<1>1. op.at = "page" /\ op.todo = {} /\ documents' = documents /\ op' = [op EXCEPT !.at = at]
  BY DEF NextPage
<1>2. at = "done" => \A k \in op.since : op.kind = "update" /\ Patched(documents, k)
  BY <1>1 DEF OpOK, LastPage
<1>3. at \in {"search", "done"}
  OBVIOUS
<1> HIDE DEF at
<1>4. op' = [kind |-> op.kind, query |-> op.query, at |-> at, todo |-> op.todo, key |-> op.key,
             total |-> op.total, size |-> op.size, since |-> op.since]
  BY <1>1 DEF OpOK
<1> QED
  BY <1>1, <1>2, <1>3, <1>4 DEF OpOK

LEMMA RedisForgets ==
  ASSUME op = Idle \/ OpOK(documents, op), OtherAdds \/ OtherDeletes
  PROVE  op' = Idle \/ OpOK(documents', op')
<1>1. PICK k : /\ op' = Forgotten(k)
               /\ \A h \in DOMAIN documents : h # k => h \in DOMAIN documents' /\ documents'[h] = documents[h]
  <2>1. CASE OtherAdds
    <3>1. PICK k \in DocumentKeys, row \in NewRows :
            documents' = Over([h \in {k} |-> row], documents) /\ op' = Forgotten(k)
      BY <2>1 DEF OtherAdds
    <3> DEFINE new == [h \in {k} |-> row]
    <3>2. DOMAIN new = {k} /\ documents' = Over(new, documents)
      BY <3>1
    <3> HIDE DEF new
    <3>3. \A h \in DOMAIN documents : h # k => h \in DOMAIN documents' /\ documents'[h] = documents[h]
      <4>1. /\ DOMAIN Over(new, documents) = DOMAIN new \cup DOMAIN documents
            /\ \A h \in DOMAIN documents \ DOMAIN new : Over(new, documents)[h] = documents[h]
        BY OverIs
      <4> QED
        BY <3>2, <4>1
    <3> QED
      BY <3>1, <3>3
  <2>2. CASE OtherDeletes
    <3>1. PICK k \in DOMAIN documents : documents' = Without(documents, {k}) /\ op' = Forgotten(k)
      BY <2>2 DEF OtherDeletes
    <3>2. \A h \in DOMAIN documents : h # k => h \in DOMAIN documents' /\ documents'[h] = documents[h]
      <4> DEFINE gone == {k}
      <4>1. documents' = Without(documents, gone) /\ \A h : h \in gone => h = k
        BY <3>1
      <4> HIDE DEF gone
      <4>2. /\ DOMAIN Without(documents, gone) = DOMAIN documents \ gone
            /\ \A h \in DOMAIN documents \ gone : Without(documents, gone)[h] = documents[h]
        BY WithoutIs
      <4> QED
        BY <4>1, <4>2
    <3> QED
      BY <3>1, <3>2
  <2> QED
    BY <2>1, <2>2
<1>2. CASE op = Idle
  BY <1>1, <1>2 DEF Forgotten
<1>3. CASE op # Idle
  <2> DEFINE since == op.since \ {k}
             new == documents'
  <2>1. op' = [op EXCEPT !.since = since]
    BY <1>1, <1>3 DEF Forgotten
  <2>2. OpOK(documents, op)
    BY <1>3
  <2>3. since \subseteq op.since /\ \A h \in since : h \in DOMAIN new /\ new[h] = documents[h]
    BY <1>1, <2>2 DEF OpOK, Hit
  <2> HIDE DEF since, new
  <2>4. OpOK(new, [op EXCEPT !.since = since])
    BY <2>2, <2>3, OpKeeps
  <2> QED
    BY <2>1, <2>4 DEF new
<1> QED
  BY <1>2, <1>3

LEMMA RedisSteps ==
  ASSUME RedisOK(documents, op), [RedisNext]_redisVars
  PROVE  RedisOK(documents', op')
<1>1. IsFiniteSet(DOMAIN documents) /\ (op = Idle \/ OpOK(documents, op))
  BY DEF RedisOK
<1>2. IsFiniteSet(DOMAIN documents')
  BY <1>1, FiniteSteps
<1>3. CASE Begin
  BY <1>2, <1>3, RedisBegins DEF RedisOK
<1>4. CASE Search
  BY <1>1, <1>2, <1>4, RedisSearches DEF RedisOK, Search
<1>5. CASE Exists
  BY <1>1, <1>2, <1>5, RedisChecks DEF RedisOK, Exists
<1>6. CASE HSet
  BY <1>1, <1>2, <1>6, RedisWrites DEF RedisOK, HSet
<1>7. CASE Del
  BY <1>1, <1>2, <1>7, RedisDeletes DEF RedisOK, Del
<1>8. CASE NextPage
  BY <1>1, <1>2, <1>8, RedisTurns DEF RedisOK, NextPage
<1>9. CASE Return
  BY <1>2, <1>9 DEF RedisOK, Return
<1>10. CASE OtherAdds \/ OtherDeletes
  BY <1>1, <1>2, <1>10, RedisForgets DEF RedisOK
<1>11. CASE UNCHANGED redisVars
  BY <1>1, <1>11 DEF RedisOK, redisVars
<1> QED
  BY <1>3, <1>4, <1>5, <1>6, <1>7, <1>8, <1>9, <1>10, <1>11 DEF RedisNext, RedisStep

LEMMA RedisReaches ==
  ASSUME RedisOK(documents, op)
  PROVE  PagesReachAll
  BY DEF RedisOK, OpOK, PagesReachAll, Patched

\* Whoever reads a table page by page meets every row that stays, none twice,
\* whatever is written between the pages (the cursors of sql.go and
\* mongodb.go); an update or a deletion by pages in Redis reaches every
\* document that matched and that nobody else touched, whatever else
\* others write and however the pages are chosen (redis.go 338-400).
THEOREM PagesMissNoRow == StoresSpec => []PagesMissNothing
<1> DEFINE Inv == DataInv /\ ScanOK(scan, sql, mongo) /\ RedisOK(documents, op)
<1>1. StoresInit => Inv
  <2> SUFFICES ASSUME StoresInit PROVE Inv
    OBVIOUS
  <2>1. DataInv /\ scan = NoScan
    BY DataStarts DEF StoresInit, Init
  <2>2. documents = EmptyTable /\ op = Idle
    BY DEF StoresInit, RedisInit
  <2>3. IsFiniteSet(DOMAIN documents)
    BY <2>2, FS_EmptySet DEF EmptyTable
  <2> QED
    BY <2>1, <2>2, <2>3 DEF ScanOK, RedisOK
<1>2. Inv /\ [StoresNext]_storeVars => Inv'
  <2> SUFFICES ASSUME Inv, [StoresNext]_storeVars PROVE Inv'
    OBVIOUS
  <2>1. [Next]_dataVars
    BY DataMoves
  <2>2. [RedisNext]_redisVars
    BY DEF StoresNext, storeVars
  <2>3. DataInv'
    BY <2>1, DataSteps
  <2>4. ScanOK(scan', sql', mongo')
    BY <2>1, ScanSteps
  <2>5. RedisOK(documents', op')
    BY <2>2, RedisSteps
  <2>6. ScanOK(scan, sql, mongo)'
    BY <2>4 DEF ScanOK, IsScan, Reading, Listed, Before, Passed, Kinds, KeySet
  <2>7. RedisOK(documents, op)'
    BY <2>5 DEF RedisOK, OpOK, Hit, Patched, Over, Idle
  <2> QED
    BY <2>3, <2>6, <2>7
<1>3. Inv => PagesMissNothing
  BY ScansComplete, RedisReaches DEF PagesMissNothing
<1> QED
  BY <1>1, <1>2, <1>3, PTL DEF StoresSpec
----------------------------------------------------------------------------
(* Queries *)

LEMMA FeedbackQueries ==
  ASSUME DataOK(sql), mongo = sql
  PROVE  \A u, i, t, types :
           /\ SQL!GetItemFeedback(sql, i, types) = Mongo!GetItemFeedback(mongo, i, types)
           /\ SQL!GetUserFeedback(sql, u, t, types) = Mongo!GetUserFeedback(mongo, u, t, types)
           /\ SQL!GetUserItemFeedback(sql, u, i, types) = Mongo!GetUserItemFeedback(mongo, u, i, types)
  BY DEF SQL!GetItemFeedback, Mongo!GetItemFeedback, SQL!GetUserFeedback, Mongo!GetUserFeedback,
         SQL!GetUserItemFeedback, Mongo!GetUserItemFeedback, SQL!OfTypes, Mongo!OfTypes

LEMMA ItemStreams ==
  ASSUME DataOK(sql), mongo = sql, NEW t \in Times \cup {Nil}
  PROVE  LET times == [i \in DOMAIN sql.items |-> sql.items[i]["timestamp"]]
         IN  NotAt(DOMAIN SQL!GetItemStream(sql, SQL!Limit(t, 0)), times, t)
               = NotAt(DOMAIN Mongo!GetItemStream(mongo, t), times, t)
<1>1. t = Nil \/ t \in Nat
  BY RowsAssumption
<1>2. \A i \in DOMAIN sql.items : sql.items[i]["timestamp"] \in Nat
  BY DEF DataOK, IsTimed
<1>3. DOMAIN SQL!GetItemStream(sql, SQL!Limit(t, 0))
        = {i \in DOMAIN sql.items : t = Nil \/ sql.items[i]["timestamp"] >= t}
  <2>1. t # Nil => /\ SQL!Limit(t, 0) # Nil /\ SQL!Limit(t, 0).at = t /\ SQL!Limit(t, 0).ahead = 0
    BY <1>1, RowsAssumption DEF SQL!Limit, Zones
  <2>2. t = Nil => SQL!Limit(t, 0) = Nil
    BY DEF SQL!Limit
  <2>3. SQL!ItemsSince(sql, SQL!Limit(t, 0)) = {i \in DOMAIN sql.items : t = Nil \/ sql.items[i]["timestamp"] >= t}
    BY <1>1, <1>2, <2>1, <2>2 DEF SQL!ItemsSince
  <2> QED
    BY <2>3 DEF SQL!GetItemStream
<1>4. DOMAIN Mongo!GetItemStream(mongo, t) = {i \in DOMAIN sql.items : t = Nil \/ sql.items[i]["timestamp"] > t}
  BY DEF Mongo!GetItemStream, Mongo!ItemsAfter
<1> QED
  BY <1>1, <1>2, <1>3, <1>4 DEF NotAt

LEMMA FeedbackStreams ==
  ASSUME DataOK(sql), mongo = sql, NEW t \in Times \cup {Nil}, NEW opts
  PROVE  LET o == SQL!NewScanOptions(Over([begin |-> t], opts))
         IN  NotAt(SQL!GetFeedbackStream(sql, o), sql.feedback, t)
               = NotAt(Mongo!GetFeedbackStream(mongo, o), sql.feedback, t)
<1> DEFINE first == [begin |-> t]
           given == Over(first, opts)
           none == [begin |-> Nil, end |-> Nil, beginUser |-> Nil, endUser |-> Nil,
                    beginItem |-> Nil, endItem |-> Nil, types |-> {}]
           o == SQL!NewScanOptions(given)
<1>1. o.begin = t
  <2>1. DOMAIN first = {"begin"} /\ first["begin"] = t
    OBVIOUS
  <2>2. o = Over(given, none)
    BY DEF SQL!NewScanOptions, SQL!Over, Over
  <2> HIDE DEF first
  <2>3. "begin" \in DOMAIN given /\ given["begin"] = t
    BY <2>1 DEF Over
  <2> HIDE DEF given, none, o
  <2> QED
    BY <2>2, <2>3, OverIs
<1>2. t = Nil \/ t \in Nat
  BY RowsAssumption
<1>3. \A k \in DOMAIN sql.feedback : sql.feedback[k] \in Nat
  BY DEF DataOK
<1> HIDE DEF o
<1>4. \A k \in DOMAIN sql.feedback :
        sql.feedback[k] # t =>
          (SQL!Between(sql, k, o.begin, o.end) <=> Mongo!Between(mongo, k, o.begin, o.end))
  BY <1>1, <1>2, <1>3 DEF SQL!Between, Mongo!Between
<1>5. NotAt(SQL!GetFeedbackStream(sql, o), sql.feedback, t)
        = NotAt(Mongo!GetFeedbackStream(mongo, o), sql.feedback, t)
  BY <1>4 DEF SQL!GetFeedbackStream, Mongo!GetFeedbackStream, SQL!OfTypes, Mongo!OfTypes, NotAt
<1> QED
  BY <1>5 DEF o

LEMMA RowQueries ==
  ASSUME mongo = sql
  PROVE  /\ \A u : SQL!GetUser(sql, u) = Mongo!GetUser(mongo, u)
         /\ \A i : SQL!GetItem(sql, i) = Mongo!GetItem(mongo, i)
         /\ \A ids : SQL!BatchGetItems(sql, ids) = Mongo!BatchGetItems(mongo, ids)
         /\ SQL!GetUserStream(sql) = Mongo!GetUserStream(mongo)
         /\ <<SQL!CountUsers(sql), SQL!CountItems(sql), SQL!CountFeedback(sql)>>
              = <<Mongo!CountUsers(mongo), Mongo!CountItems(mongo), Mongo!CountFeedback(mongo)>>
<1>1. /\ \A u : SQL!GetUser(sql, u) = Mongo!GetUser(mongo, u)
      /\ \A i : SQL!GetItem(sql, i) = Mongo!GetItem(mongo, i)
      /\ \A ids : SQL!BatchGetItems(sql, ids) = Mongo!BatchGetItems(mongo, ids)
      /\ SQL!GetUserStream(sql) = Mongo!GetUserStream(mongo)
  BY DEF SQL!GetUser, Mongo!GetUser, SQL!GetItem, Mongo!GetItem, SQL!BatchGetItems, Mongo!BatchGetItems,
         SQL!GetUserStream, Mongo!GetUserStream
<1>2. \A S : SQL!Cardinality(S) = Mongo!Cardinality(S)
  BY DEF SQL!Cardinality, Mongo!Cardinality
<1>3. /\ SQL!CountUsers(sql) = Mongo!CountUsers(mongo) /\ SQL!CountItems(sql) = Mongo!CountItems(mongo)
      /\ SQL!CountFeedback(sql) = Mongo!CountFeedback(mongo)
  BY <1>2 DEF SQL!CountUsers, SQL!CountItems, SQL!CountFeedback,
              Mongo!CountUsers, Mongo!CountItems, Mongo!CountFeedback
<1> QED
  BY <1>1, <1>3

LEMMA QueriesAlike ==
  ASSUME DataInv
  PROVE  QueriesAgree
<1> SUFFICES ASSUME scan = NoScan, sql = mongo PROVE QueriesAgree
  BY DEF QueriesAgree
<1>0. DataOK(sql) /\ mongo = sql
  BY DEF DataInv
<1>1. ASSUME NEW t \in Times \cup {Nil}
      PROVE  LET times == [i \in DOMAIN sql.items |-> sql.items[i]["timestamp"]]
             IN  /\ NotAt(DOMAIN SQL!GetItemStream(sql, SQL!Limit(t, 0)), times, t)
                      = NotAt(DOMAIN Mongo!GetItemStream(mongo, t), times, t)
                 /\ \A opts \in Scans :
                      LET o == SQL!NewScanOptions(Over([begin |-> t], opts))
                      IN  NotAt(SQL!GetFeedbackStream(sql, o), sql.feedback, t)
                            = NotAt(Mongo!GetFeedbackStream(mongo, o), sql.feedback, t)
  BY <1>0, ItemStreams, FeedbackStreams
<1>2. \A u, i, t, types :
        /\ SQL!GetItemFeedback(sql, i, types) = Mongo!GetItemFeedback(mongo, i, types)
        /\ SQL!GetUserFeedback(sql, u, t, types) = Mongo!GetUserFeedback(mongo, u, t, types)
        /\ SQL!GetUserItemFeedback(sql, u, i, types) = Mongo!GetUserItemFeedback(mongo, u, i, types)
  BY <1>0, FeedbackQueries
<1>3. /\ \A u : SQL!GetUser(sql, u) = Mongo!GetUser(mongo, u)
      /\ \A i : SQL!GetItem(sql, i) = Mongo!GetItem(mongo, i)
      /\ \A ids : SQL!BatchGetItems(sql, ids) = Mongo!BatchGetItems(mongo, ids)
      /\ SQL!GetUserStream(sql) = Mongo!GetUserStream(mongo)
      /\ <<SQL!CountUsers(sql), SQL!CountItems(sql), SQL!CountFeedback(sql)>>
           = <<Mongo!CountUsers(mongo), Mongo!CountItems(mongo), Mongo!CountFeedback(mongo)>>
  BY <1>0, RowQueries
<1> QED
  BY <1>1, <1>2, <1>3, Zenon DEF QueriesAgree

\* When they hold the same rows, MongoDB answers every query like SQL.
\* Nothing is said of rows stamped exactly with the beginning of the time
\* asked for (mongodb.go compares with $gt, sql.go with >=).
THEOREM StoresAnswerAlike == StoresSpec => []QueriesAgree
<1>1. StoresInit => DataInv
  BY DataStarts DEF StoresInit
<1>2. DataInv /\ [StoresNext]_storeVars => DataInv'
  BY DataSteps, DataMoves
<1> QED
  BY <1>1, <1>2, QueriesAlike, PTL DEF StoresSpec
----------------------------------------------------------------------------
(* The proxy *)

\* What is encoded arrives.
LEMMA RowsTravel ==
  ASSUME NEW row, IsRecord(row)
  PROVE  Proxy!Decode(Proxy!Encode(row)) = row
<1> DEFINE e == Proxy!Encode(row)
           r == Proxy!Decode(e)
<1>1. DOMAIN e = DOMAIN row /\ \A f \in DOMAIN row : e[f] = IF f = "labels" THEN [json |-> row[f]] ELSE row[f]
  BY DEF Proxy!Encode
<1> HIDE DEF e
<1>2. r = [f \in DOMAIN row |-> row[f]]
  <2>1. \A f \in DOMAIN row : (IF f = "labels" THEN e[f].json ELSE e[f]) = row[f]
    BY <1>1
  <2> QED
    BY <1>1, <2>1 DEF Proxy!Decode
<1> QED
  BY <1>2 DEF IsRecord, e

LEMMA TablesTravel ==
  ASSUME NEW t, IsRecord(t), \A k \in DOMAIN t : IsRecord(t[k])
  PROVE  Proxy!DecodeTable(Proxy!EncodeTable(t)) = t
<1> DEFINE e == Proxy!EncodeTable(t)
<1>1. DOMAIN e = DOMAIN t /\ \A k \in DOMAIN t : e[k] = Proxy!Encode(t[k])
  BY DEF Proxy!EncodeTable
<1> HIDE DEF e
<1>2. \A k \in DOMAIN t : Proxy!Decode(e[k]) = t[k]
  BY <1>1, RowsTravel
<1>3. Proxy!DecodeTable(e) = [k \in DOMAIN t |-> t[k]]
  BY <1>1, <1>2 DEF Proxy!DecodeTable
<1> QED
  BY <1>3 DEF IsRecord, e

LEMMA BatchesTravel ==
  ASSUME NEW rows, IsBatch(rows), \A j \in DOMAIN rows : IsRecord(rows[j].row)
  PROVE  Proxy!DecodeRows(Proxy!EncodeRows(rows)) = rows
<1> DEFINE e == Proxy!EncodeRows(rows)
<1>1. DOMAIN e = DOMAIN rows
      /\ \A j \in DOMAIN rows : e[j].key = rows[j].key /\ e[j].row = Proxy!Encode(rows[j].row)
  BY DEF Proxy!EncodeRows
<1> HIDE DEF e
<1>2. \A j \in DOMAIN rows : Proxy!Decode(e[j].row) = rows[j].row
  BY <1>1, RowsTravel
<1>3. Proxy!DecodeRows(e) = [j \in DOMAIN rows |-> [key |-> rows[j].key, row |-> rows[j].row]]
  BY <1>1, <1>2 DEF Proxy!DecodeRows
<1> QED
  BY <1>3 DEF IsBatch, e

LEMMA ProxyAnswersRows ==
  ASSUME NEW d, DataOK(d)
  PROVE  /\ \A i : Proxy!GetItem(d, i) = SQL!GetItem(d, i)
         /\ \A u : Proxy!GetUser(d, u) = SQL!GetUser(d, u)
<1>1. /\ \A i \in DOMAIN d.items : IsRecord(d.items[i])
      /\ \A u \in DOMAIN d.users : IsRecord(d.users[u])
  BY DEF DataOK, IsTimed
<1>2. ASSUME NEW i PROVE Proxy!GetItem(d, i) = SQL!GetItem(d, i)
  <2> DEFINE item == Proxy!Store!GetItem(d, i)
             coded == Proxy!Encode(item)
  <2>1. item = SQL!GetItem(d, i)
    BY DEF Proxy!Store!GetItem, SQL!GetItem
  <2>2. item = NotFound \/ Proxy!Decode(coded) = item
    BY <1>1, RowsTravel DEF Proxy!Store!GetItem
  <2>3. Proxy!GetItem(d, i) = IF (IF item = NotFound THEN <<>> ELSE <<coded>>) = <<>> THEN NotFound
                              ELSE Proxy!Decode((IF item = NotFound THEN <<>> ELSE <<coded>>)[1])
    BY DEF Proxy!GetItem, Proxy!ServeGetItem
  <2> HIDE DEF item, coded
  <2> QED
    BY <2>1, <2>2, <2>3
<1>3. ASSUME NEW u PROVE Proxy!GetUser(d, u) = SQL!GetUser(d, u)
  <2> DEFINE user == Proxy!Store!GetUser(d, u)
             coded == Proxy!Encode(user)
  <2>1. user = SQL!GetUser(d, u)
    BY DEF Proxy!Store!GetUser, SQL!GetUser
  <2>2. user = NotFound \/ Proxy!Decode(coded) = user
    BY <1>1, RowsTravel DEF Proxy!Store!GetUser
  <2>3. Proxy!GetUser(d, u) = IF (IF user = NotFound THEN <<>> ELSE <<coded>>) = <<>> THEN NotFound
                              ELSE Proxy!Decode((IF user = NotFound THEN <<>> ELSE <<coded>>)[1])
    BY DEF Proxy!GetUser, Proxy!ServeGetUser
  <2> HIDE DEF user, coded
  <2> QED
    BY <2>1, <2>2, <2>3
<1> QED
  BY <1>2, <1>3

LEMMA ProxyAnswersTables ==
  ASSUME NEW d, DataOK(d)
  PROVE  /\ \A ids : Proxy!BatchGetItems(d, ids) = SQL!BatchGetItems(d, ids)
         /\ Proxy!GetUserStream(d) = SQL!GetUserStream(d)
         /\ \A t : Proxy!GetItemStream(d, t) = SQL!GetItemStream(d, Nil)
<1>1. /\ \A i \in DOMAIN d.items : IsRecord(d.items[i])
      /\ \A u \in DOMAIN d.users : IsRecord(d.users[u])
      /\ IsRecord(d.users)
  BY DEF DataOK, IsTimed, IsTable
<1>2. ASSUME NEW ids PROVE Proxy!BatchGetItems(d, ids) = SQL!BatchGetItems(d, ids)
  <2> DEFINE t == Proxy!Store!BatchGetItems(d, ids)
  <2>1. t = SQL!BatchGetItems(d, ids)
    BY DEF Proxy!Store!BatchGetItems, SQL!BatchGetItems
  <2>2. IsRecord(t) /\ \A k \in DOMAIN t : IsRecord(t[k])
    BY <1>1 DEF Proxy!Store!BatchGetItems, IsRecord
  <2>3. Proxy!BatchGetItems(d, ids) = Proxy!DecodeTable(Proxy!EncodeTable(t))
    BY DEF Proxy!BatchGetItems, Proxy!ServeBatchGetItems
  <2> HIDE DEF t
  <2> QED
    BY <2>1, <2>2, <2>3, TablesTravel
<1>3. Proxy!GetUserStream(d) = SQL!GetUserStream(d)
  BY <1>1, TablesTravel DEF Proxy!GetUserStream, Proxy!ServeGetUserStream, Proxy!Store!GetUserStream,
     SQL!GetUserStream
<1>4. ASSUME NEW limit PROVE Proxy!GetItemStream(d, limit) = SQL!GetItemStream(d, Nil)
  <2> DEFINE t == Proxy!Store!GetItemStream(d, Nil)
  <2>1. t = SQL!GetItemStream(d, Nil)
    BY DEF Proxy!Store!GetItemStream, SQL!GetItemStream, Proxy!Store!ItemsSince, SQL!ItemsSince
  <2>2. IsRecord(t) /\ \A k \in DOMAIN t : IsRecord(t[k])
    BY <1>1 DEF Proxy!Store!GetItemStream, Proxy!Store!ItemsSince, IsRecord
  <2>3. Proxy!GetItemStream(d, limit) = Proxy!DecodeTable(Proxy!EncodeTable(t))
    BY DEF Proxy!GetItemStream, Proxy!ServeGetItemStream
  <2> HIDE DEF t
  <2> QED
    BY <2>1, <2>2, <2>3, TablesTravel
<1> QED
  BY <1>2, <1>3, <1>4

LEMMA ProxyAnswersFeedback ==
  ASSUME NEW d
  PROVE  /\ \A i, types : Proxy!GetItemFeedback(d, i, types) = SQL!GetItemFeedback(d, i, types)
         /\ \A u, t, types : Proxy!GetUserFeedback(d, u, t, types) = SQL!GetUserFeedback(d, u, t, types)
         /\ \A u, i, types : Proxy!GetUserItemFeedback(d, u, i, types) = SQL!GetUserItemFeedback(d, u, i, types)
  BY DEF Proxy!GetItemFeedback, Proxy!ServeGetItemFeedback, Proxy!Store!GetItemFeedback, SQL!GetItemFeedback,
         Proxy!GetUserFeedback, Proxy!ServeGetUserFeedback, Proxy!Store!GetUserFeedback, SQL!GetUserFeedback,
         Proxy!GetUserItemFeedback, Proxy!ServeGetUserItemFeedback, Proxy!Store!GetUserItemFeedback,
         SQL!GetUserItemFeedback, Proxy!Store!OfTypes, SQL!OfTypes

LEMMA ProxyAnswersPages ==
  ASSUME NEW d
  PROVE  /\ \A n : \A t \in Times \cup {Nil}, ahead \in Zones :
              Proxy!GetItems(d, Nil, n, SQL!Limit(t, ahead)) = SQL!GetItems(d, Nil, n, SQL!Limit(t, 0))
         /\ \A n, t : Proxy!GetFeedback(d, Nil, n, t, Nil, {}) = SQL!GetFeedback(d, Nil, n, t, Nil, {})
         /\ \A n : Proxy!GetUsers(d, Nil, n) = SQL!GetUsers(d, Nil, n)
<1>1. \A S : SQL!Cardinality(S) = Proxy!Store!Cardinality(S)
  BY DEF SQL!Cardinality, Proxy!Store!Cardinality
<1>2. ASSUME NEW keys, NEW n
      PROVE  /\ Proxy!Store!Page(keys, n, Proxy!Store!IdBefore) = SQL!Page(keys, n, SQL!IdBefore)
             /\ Proxy!Store!Page(keys, n, Proxy!Store!KeyBefore) = SQL!Page(keys, n, SQL!KeyBefore)
  BY <1>1 DEF Proxy!Store!Page, SQL!Page, Proxy!Store!FirstKeys, SQL!FirstKeys, Proxy!Store!LastKey, SQL!LastKey,
     Proxy!Store!IdBefore, SQL!IdBefore, Proxy!Store!KeyBefore, SQL!KeyBefore
<1>3. ASSUME NEW n, NEW t \in Times \cup {Nil}, NEW ahead \in Zones
      PROVE  Proxy!GetItems(d, Nil, n, SQL!Limit(t, ahead)) = SQL!GetItems(d, Nil, n, SQL!Limit(t, 0))
  <2> DEFINE limit == SQL!Limit(t, 0)
             K == {i \in SQL!ItemsSince(d, limit) : Nil = Nil \/ i >= Nil}
  <2>1. Proxy!Store!ItemsSince(d, limit) = SQL!ItemsSince(d, limit)
    BY DEF Proxy!Store!ItemsSince, SQL!ItemsSince
  <2>2. SQL!GetItems(d, Nil, n, limit) = SQL!Page(K, n, SQL!IdBefore)
    BY DEF SQL!GetItems
  <2>4. Proxy!Store!Limit(IF SQL!Limit(t, ahead) = Nil THEN Nil ELSE SQL!Limit(t, ahead).at, 0) = limit
    BY <1>3, RowsAssumption DEF SQL!Limit, Proxy!Store!Limit, Zones
  <2> HIDE DEF limit
  <2>3. Proxy!GetItems(d, Nil, n, SQL!Limit(t, ahead)) = Proxy!Store!Page(K, n, Proxy!Store!IdBefore)
    BY <2>1, <2>4 DEF Proxy!GetItems, Proxy!ServeGetItems, Proxy!Store!GetItems
  <2> HIDE DEF K
  <2> QED
    BY <1>2, <2>2, <2>3 DEF limit
<1>4. ASSUME NEW n, NEW t PROVE Proxy!GetFeedback(d, Nil, n, t, Nil, {}) = SQL!GetFeedback(d, Nil, n, t, Nil, {})
  <2> DEFINE types == {}
             J == {k \in Proxy!Store!OfTypes(DOMAIN d.feedback, types) :
                     Proxy!Store!Between(d, k, t, Nil) /\ (Nil = Nil \/ ~Proxy!Store!KeyBefore(k, Nil))}
             K == {k \in SQL!OfTypes(DOMAIN d.feedback, types) :
                     SQL!Between(d, k, t, Nil) /\ (Nil = Nil \/ ~SQL!KeyBefore(k, Nil))}
  <2> HIDE DEF types
  <2>1. J = K
    BY DEF Proxy!Store!OfTypes, SQL!OfTypes, Proxy!Store!Between, SQL!Between, Proxy!Store!KeyBefore, SQL!KeyBefore
  <2>2. SQL!GetFeedback(d, Nil, n, t, Nil, types) = SQL!Page(K, n, SQL!KeyBefore)
    BY DEF SQL!GetFeedback
  <2>3. Proxy!GetFeedback(d, Nil, n, t, Nil, types) = Proxy!Store!Page(J, n, Proxy!Store!KeyBefore)
    BY DEF Proxy!GetFeedback, Proxy!ServeGetFeedback, Proxy!Store!GetFeedback
  <2> HIDE DEF J, K
  <2>4. Proxy!GetFeedback(d, Nil, n, t, Nil, types) = SQL!GetFeedback(d, Nil, n, t, Nil, types)
    BY <1>2, <2>1, <2>2, <2>3
  <2> QED
    BY <2>4 DEF types
<1>5. ASSUME NEW n PROVE Proxy!GetUsers(d, Nil, n) = SQL!GetUsers(d, Nil, n)
  <2> DEFINE K == {u \in DOMAIN d.users : Nil = Nil \/ u >= Nil}
  <2>2. SQL!GetUsers(d, Nil, n) = SQL!Page(K, n, SQL!IdBefore)
    BY DEF SQL!GetUsers
  <2>3. Proxy!GetUsers(d, Nil, n) = Proxy!Store!Page(K, n, Proxy!Store!IdBefore)
    BY DEF Proxy!GetUsers, Proxy!ServeGetUsers, Proxy!Store!GetUsers
  <2> HIDE DEF K
  <2> QED
    BY <1>2, <2>2, <2>3
<1> QED
  BY <1>3, <1>4, <1>5

LEMMA ProxyCounts ==
  ASSUME NEW d
  PROVE  <<Proxy!CountUsers(d), Proxy!CountItems(d), Proxy!CountFeedback(d)>>
           = <<SQL!CountUsers(d), SQL!CountItems(d), SQL!CountFeedback(d)>>
<1>1. \A S : SQL!Cardinality(S) = Proxy!Store!Cardinality(S)
  BY DEF SQL!Cardinality, Proxy!Store!Cardinality
<1>2. /\ Proxy!CountUsers(d) = SQL!CountUsers(d) /\ Proxy!CountItems(d) = SQL!CountItems(d)
      /\ Proxy!CountFeedback(d) = SQL!CountFeedback(d)
  BY <1>1 DEF SQL!CountUsers, SQL!CountItems, SQL!CountFeedback, Proxy!Store!CountUsers, Proxy!Store!CountItems,
     Proxy!Store!CountFeedback, Proxy!CountUsers, Proxy!CountItems, Proxy!CountFeedback,
     Proxy!ServeCountUsers, Proxy!ServeCountItems, Proxy!ServeCountFeedback
<1> QED
  BY <1>2

\* Options that are not set are not sent, and not set there.
LEMMA ProxyAnswersScans ==
  ASSUME NEW d, NEW opts
  PROVE  Proxy!GetFeedbackStream(d, SQL!NewScanOptions(opts)) = SQL!GetFeedbackStream(d, SQL!NewScanOptions(opts))
<1> DEFINE none == [begin |-> Nil, end |-> Nil, beginUser |-> Nil, endUser |-> Nil,
                    beginItem |-> Nil, endItem |-> Nil, types |-> {}]
           o == SQL!NewScanOptions(opts)
           set == {f \in DOMAIN o : f # "types" => o[f] # Nil}
           sent == [f \in set |-> o[f]]
           p == Over(sent, none)
<1>1. o = Over(opts, none)
  BY DEF SQL!NewScanOptions, SQL!Over, Over
<1>2. Proxy!GetFeedbackStream(d, o) = Proxy!Store!GetFeedbackStream(d, p)
  BY DEF Proxy!GetFeedbackStream, Proxy!ServeGetFeedbackStream, Proxy!Store!NewScanOptions,
     Proxy!Store!Over, Over
<1>3. /\ DOMAIN none = {"begin", "end", "beginUser", "endUser", "beginItem", "endItem", "types"}
      /\ \A f \in DOMAIN none : f # "types" => none[f] = Nil
  OBVIOUS
<1> HIDE DEF none
<1>4. DOMAIN none \subseteq DOMAIN o
  BY <1>1 DEF Over
<1> HIDE DEF o
<1>5. \A f \in DOMAIN none : p[f] = o[f]
  <2>1. DOMAIN sent = set /\ \A f \in set : sent[f] = o[f]
    OBVIOUS
  <2>2. \A f \in DOMAIN none : f \notin set => f # "types" /\ o[f] = Nil
    BY <1>4
  <2> HIDE DEF sent, set
  <2>3. /\ \A f \in DOMAIN sent : p[f] = sent[f]
        /\ \A f \in DOMAIN none \ DOMAIN sent : p[f] = none[f]
    BY OverIs
  <2> QED
    BY <1>3, <2>1, <2>2, <2>3
<1> HIDE DEF p
<1>6. /\ p.begin = o.begin /\ p.end = o.end /\ p.beginUser = o.beginUser /\ p.endUser = o.endUser
      /\ p.beginItem = o.beginItem /\ p.endItem = o.endItem /\ p.types = o.types
  BY <1>3, <1>5
<1>7. Proxy!Store!GetFeedbackStream(d, p) = SQL!GetFeedbackStream(d, o)
  BY <1>6 DEF Proxy!Store!GetFeedbackStream, SQL!GetFeedbackStream, Proxy!Store!OfTypes, SQL!OfTypes,
     Proxy!Store!Between, SQL!Between
<1> QED
  BY <1>2, <1>7 DEF o

LEMMA ServerIsSQL ==
  /\ \A d, rows : Proxy!Store!BatchInsertUsers(d, rows) = SQL!BatchInsertUsers(d, rows)
  /\ \A d, rows : Proxy!Store!BatchInsertItems(d, rows) = SQL!BatchInsertItems(d, rows)
  /\ \A d, rows, iu, ii, ow :
       Proxy!Store!BatchInsertFeedback(d, rows, iu, ii, ow) = SQL!BatchInsertFeedback(d, rows, iu, ii, ow)
  /\ \A d, u, p : Proxy!Store!ModifyUser(d, u, p) = SQL!ModifyUser(d, u, p)
  /\ \A d, i, p : Proxy!Store!ModifyItem(d, i, p) = SQL!ModifyItem(d, i, p)
  /\ \A d, u : Proxy!Store!DeleteUser(d, u) = SQL!DeleteUser(d, u)
  /\ \A d, i : Proxy!Store!DeleteItem(d, i) = SQL!DeleteItem(d, i)
  /\ \A d, u, i, types :
       Proxy!Store!DeleteUserItemFeedback(d, u, i, types) = SQL!DeleteUserItemFeedback(d, u, i, types)
<1>1. /\ \A t, s : Proxy!Store!Over(t, s) = Over(t, s) /\ SQL!Over(t, s) = Over(t, s)
      /\ \A t, s : Proxy!Store!Without(t, s) = Without(t, s) /\ SQL!Without(t, s) = Without(t, s)
      /\ \A rows : Proxy!Store!KeysOf(rows) = KeysOf(rows) /\ SQL!KeysOf(rows) = KeysOf(rows)
      /\ \A rows : Proxy!Store!FirstRows(rows) = FirstRows(rows) /\ SQL!FirstRows(rows) = FirstRows(rows)
  BY DEF Proxy!Store!Over, SQL!Over, Over, Proxy!Store!Without, SQL!Without, Without,
         Proxy!Store!KeysOf, SQL!KeysOf, KeysOf, Proxy!Store!FirstRows, SQL!FirstRows, FirstRows
<1>2. /\ \A d, rows : Proxy!Store!BatchInsertUsers(d, rows) = SQL!BatchInsertUsers(d, rows)
      /\ \A d, rows : Proxy!Store!BatchInsertItems(d, rows) = SQL!BatchInsertItems(d, rows)
      /\ \A d, u, p : Proxy!Store!ModifyUser(d, u, p) = SQL!ModifyUser(d, u, p)
      /\ \A d, i, p : Proxy!Store!ModifyItem(d, i, p) = SQL!ModifyItem(d, i, p)
  BY <1>1 DEF Proxy!Store!BatchInsertUsers, SQL!BatchInsertUsers, Proxy!Store!BatchInsertItems,
     SQL!BatchInsertItems, Proxy!Store!ModifyUser, SQL!ModifyUser, Proxy!Store!ModifyItem, SQL!ModifyItem
<1>3. /\ \A d, u : Proxy!Store!DeleteUser(d, u) = SQL!DeleteUser(d, u)
      /\ \A d, i : Proxy!Store!DeleteItem(d, i) = SQL!DeleteItem(d, i)
  BY DEF Proxy!Store!DeleteUser, SQL!DeleteUser, Proxy!Store!DeleteUserRow, SQL!DeleteUserRow,
     Proxy!Store!DeleteUserFeedback, SQL!DeleteUserFeedback, Proxy!Store!DeleteItem, SQL!DeleteItem,
     Proxy!Store!DeleteItemRow, SQL!DeleteItemRow, Proxy!Store!DeleteItemFeedback, SQL!DeleteItemFeedback,
     Proxy!Store!Without, SQL!Without
<1>4. \A d, u, i, types :
        Proxy!Store!DeleteUserItemFeedback(d, u, i, types) = SQL!DeleteUserItemFeedback(d, u, i, types)
  <2>1. \A d, u, i, types : Proxy!Store!GetUserItemFeedback(d, u, i, types) = SQL!GetUserItemFeedback(d, u, i, types)
    BY DEF Proxy!Store!GetUserItemFeedback, SQL!GetUserItemFeedback, Proxy!Store!OfTypes, SQL!OfTypes
  <2> QED
    BY <1>1, <2>1 DEF Proxy!Store!DeleteUserItemFeedback, SQL!DeleteUserItemFeedback
<1>5. \A d, rows, iu, ii, ow :
        Proxy!Store!BatchInsertFeedback(d, rows, iu, ii, ow) = SQL!BatchInsertFeedback(d, rows, iu, ii, ow)
  <2>1. \A d, ids : /\ Proxy!Store!InsertMissingUsers(d, ids) = SQL!InsertMissingUsers(d, ids)
                    /\ Proxy!Store!InsertMissingItems(d, ids) = SQL!InsertMissingItems(d, ids)
    BY DEF Proxy!Store!InsertMissingUsers, SQL!InsertMissingUsers, Proxy!Store!InsertMissingItems,
           SQL!InsertMissingItems, Proxy!Store!Over, SQL!Over
  <2>2. \A d, rows, us, is, ow :
          Proxy!Store!InsertFeedback(d, rows, us, is, ow) = SQL!InsertFeedback(d, rows, us, is, ow)
    BY DEF Proxy!Store!InsertFeedback, SQL!InsertFeedback, Proxy!Store!Over, SQL!Over,
           Proxy!Store!KeysOf, SQL!KeysOf, Proxy!Store!FirstRows, SQL!FirstRows
  <2>3. \A rows : Proxy!Store!KeysOf(rows) = SQL!KeysOf(rows)
    BY <1>1
  <2>4. ASSUME NEW d, NEW rows, NEW iu, NEW ii, NEW ow
        PROVE  Proxy!Store!BatchInsertFeedback(d, rows, iu, ii, ow) = SQL!BatchInsertFeedback(d, rows, iu, ii, ow)
    <3> DEFINE us == {k.user : k \in SQL!KeysOf(rows)}
               is == {k.item : k \in SQL!KeysOf(rows)}
               d1 == IF iu THEN SQL!InsertMissingUsers(d, us) ELSE d
               d2 == IF ii THEN SQL!InsertMissingItems(d1, is) ELSE d1
               e1 == IF iu THEN Proxy!Store!InsertMissingUsers(d, us) ELSE d
               e2 == IF ii THEN Proxy!Store!InsertMissingItems(e1, is) ELSE e1
    <3>1. SQL!BatchInsertFeedback(d, rows, iu, ii, ow)
            = SQL!InsertFeedback(d2, rows, us \cap DOMAIN d2.users, is \cap DOMAIN d2.items, ow)
      BY DEF SQL!BatchInsertFeedback
    <3>2. Proxy!Store!BatchInsertFeedback(d, rows, iu, ii, ow)
            = Proxy!Store!InsertFeedback(e2, rows, us \cap DOMAIN e2.users, is \cap DOMAIN e2.items, ow)
      BY <2>3 DEF Proxy!Store!BatchInsertFeedback
    <3> HIDE DEF us, is
    <3>3. e1 = d1
      BY <2>1
    <3> HIDE DEF d1, e1
    <3>4. e2 = d2
      BY <2>1, <3>3
    <3> HIDE DEF d2, e2
    <3> QED
      BY <2>2, <3>1, <3>2, <3>4
  <2> QED
    BY <2>4
<1> QED
  BY <1>2, <1>3, <1>4, <1>5

\* Of a patch the lists that it empties do not arrive.
Kept(patch) == [f \in {g \in DOMAIN patch : g \in Proxy!Lists => patch[g] # {}} |-> patch[f]]

LEMMA PatchesTravel ==
  ASSUME NEW patch
  PROVE  Proxy!Decode(Proxy!EncodePatch(patch)) = Kept(patch)
<1> DEFINE kept == Kept(patch)
<1>1. IsRecord(kept)
  BY DEF Kept, IsRecord
<1>2. Proxy!EncodePatch(patch) = Proxy!Encode(kept)
  BY DEF Proxy!EncodePatch, Kept
<1> HIDE DEF kept
<1>3. Proxy!Decode(Proxy!Encode(kept)) = kept
  BY <1>1, RowsTravel
<1> QED
  BY <1>2, <1>3 DEF kept

LEMMA ProxyCalls ==
  ASSUME NEW d
  PROVE  /\ \A rows \in UserBatches : Proxy!BatchInsertUsers(d, rows) = SQL!BatchInsertUsers(d, rows)
         /\ \A rows \in ItemBatches : Proxy!BatchInsertItems(d, rows) = SQL!BatchInsertItems(d, rows)
         /\ \A rows, iu, ii, ow : Proxy!BatchInsertFeedback(d, rows, iu, ii, ow)
                                    = SQL!BatchInsertFeedback(d, rows, iu, ii, ow)
         /\ \A u, p : Proxy!ModifyUser(d, u, p) = SQL!ModifyUser(d, u, Kept(p))
         /\ \A i, p : Proxy!ModifyItem(d, i, p) = SQL!ModifyItem(d, i, Kept(p))
         /\ \A u : Proxy!DeleteUser(d, u) = SQL!DeleteUser(d, u)
         /\ \A i : Proxy!DeleteItem(d, i) = SQL!DeleteItem(d, i)
         /\ \A u, i, types : Proxy!DeleteUserItemFeedback(d, u, i, types)
                               = SQL!DeleteUserItemFeedback(d, u, i, types)
<1>1. ASSUME NEW rows \in UserBatches PROVE Proxy!BatchInsertUsers(d, rows) = SQL!BatchInsertUsers(d, rows)
  <2>1. IsBatch(rows) /\ \A j \in DOMAIN rows : IsRecord(rows[j].row)
    BY RowsAssumption
  <2>2. Proxy!DecodeRows(Proxy!EncodeRows(rows)) = rows
    BY <2>1, BatchesTravel
  <2>3. Proxy!BatchInsertUsers(d, rows) = Proxy!Store!BatchInsertUsers(d, Proxy!DecodeRows(Proxy!EncodeRows(rows)))
    BY DEF Proxy!BatchInsertUsers, Proxy!ServeBatchInsertUsers
  <2> QED
    BY <2>2, <2>3, ServerIsSQL
<1>2. ASSUME NEW rows \in ItemBatches PROVE Proxy!BatchInsertItems(d, rows) = SQL!BatchInsertItems(d, rows)
  <2>1. IsBatch(rows) /\ \A j \in DOMAIN rows : IsRecord(rows[j].row)
    BY RowsAssumption DEF IsTimed
  <2>2. Proxy!DecodeRows(Proxy!EncodeRows(rows)) = rows
    BY <2>1, BatchesTravel
  <2>3. Proxy!BatchInsertItems(d, rows) = Proxy!Store!BatchInsertItems(d, Proxy!DecodeRows(Proxy!EncodeRows(rows)))
    BY DEF Proxy!BatchInsertItems, Proxy!ServeBatchInsertItems
  <2> QED
    BY <2>2, <2>3, ServerIsSQL
<1>3. \A rows, iu, ii, ow : Proxy!BatchInsertFeedback(d, rows, iu, ii, ow)
                              = SQL!BatchInsertFeedback(d, rows, iu, ii, ow)
  BY ServerIsSQL DEF Proxy!BatchInsertFeedback, Proxy!ServeBatchInsertFeedback
<1>4. /\ \A u, p : Proxy!ModifyUser(d, u, p) = SQL!ModifyUser(d, u, Kept(p))
      /\ \A i, p : Proxy!ModifyItem(d, i, p) = SQL!ModifyItem(d, i, Kept(p))
  BY ServerIsSQL, PatchesTravel DEF Proxy!ModifyUser, Proxy!ServeModifyUser, Proxy!ModifyItem, Proxy!ServeModifyItem
<1>5. /\ \A u : Proxy!DeleteUser(d, u) = SQL!DeleteUser(d, u)
      /\ \A i : Proxy!DeleteItem(d, i) = SQL!DeleteItem(d, i)
      /\ \A u, i, types : Proxy!DeleteUserItemFeedback(d, u, i, types)
                            = SQL!DeleteUserItemFeedback(d, u, i, types)
  BY ServerIsSQL DEF Proxy!DeleteUser, Proxy!ServeDeleteUser, Proxy!DeleteItem, Proxy!ServeDeleteItem,
     Proxy!DeleteUserItemFeedback, Proxy!ServeDeleteUserItemFeedback
<1> QED
  BY <1>1, <1>2, <1>3, <1>4, <1>5

\* A row behind the proxy is the row written directly, but for emptied lists.
Arrived(direct, other) ==
  \A f \in DOMAIN direct : \/ f \in DOMAIN other /\ direct[f] = other[f]
                           \/ f \in Proxy!Lists /\ direct[f] = {}
Alike(s, p) ==
  /\ p.feedback = s.feedback
  /\ DOMAIN p.users = DOMAIN s.users /\ DOMAIN p.items = DOMAIN s.items
  /\ \A u \in DOMAIN s.users : Arrived(s.users[u], p.users[u])
  /\ \A i \in DOMAIN s.items : Arrived(s.items[i], p.items[i])

LEMMA RowsArrive ==
  ASSUME NEW row, NEW other, Arrived(row, other), NEW patch
  PROVE  Arrived(Over(patch, row), Over(Kept(patch), other))
<1> DEFINE kept == Kept(patch)
           a == Over(patch, row)
           b == Over(kept, other)
<1>1. /\ DOMAIN kept \subseteq DOMAIN patch /\ \A f \in DOMAIN kept : kept[f] = patch[f]
      /\ \A f \in DOMAIN patch \ DOMAIN kept : f \in Proxy!Lists /\ patch[f] = {}
  BY DEF Kept
<1> HIDE DEF kept
<1>2. /\ DOMAIN a = DOMAIN patch \cup DOMAIN row
      /\ \A f \in DOMAIN patch : a[f] = patch[f]
      /\ \A f \in DOMAIN row \ DOMAIN patch : a[f] = row[f]
  BY OverIs
<1>3. /\ DOMAIN b = DOMAIN kept \cup DOMAIN other
      /\ \A f \in DOMAIN kept : b[f] = kept[f]
      /\ \A f \in DOMAIN other \ DOMAIN kept : b[f] = other[f]
  BY OverIs
<1> HIDE DEF a, b
<1>4. Arrived(a, b)
  BY <1>1, <1>2, <1>3 DEF Arrived
<1> QED
  BY <1>4 DEF a, b, kept

LEMMA RowsAreAlike ==
  ASSUME NEW s, NEW t, DOMAIN t = DOMAIN s, \A k \in DOMAIN s : Arrived(s[k], t[k])
  PROVE  /\ \A new : /\ DOMAIN Over(new, t) = DOMAIN Over(new, s)
                     /\ \A k \in DOMAIN Over(new, s) : Arrived(Over(new, s)[k], Over(new, t)[k])
                     /\ DOMAIN Over(t, new) = DOMAIN Over(s, new)
                     /\ \A k \in DOMAIN Over(s, new) : Arrived(Over(s, new)[k], Over(t, new)[k])
         /\ \A gone : /\ DOMAIN Without(t, gone) = DOMAIN Without(s, gone)
                      /\ \A k \in DOMAIN Without(s, gone) : Arrived(Without(s, gone)[k], Without(t, gone)[k])
<1>1. ASSUME NEW row PROVE Arrived(row, row)
  BY DEF Arrived
<1>2. ASSUME NEW new PROVE
        /\ DOMAIN Over(new, t) = DOMAIN Over(new, s)
        /\ \A k \in DOMAIN Over(new, s) : Arrived(Over(new, s)[k], Over(new, t)[k])
  <2>1. /\ DOMAIN Over(new, t) = DOMAIN new \cup DOMAIN t
        /\ \A k \in DOMAIN new : Over(new, t)[k] = new[k]
        /\ \A k \in DOMAIN t \ DOMAIN new : Over(new, t)[k] = t[k]
    BY OverIs
  <2>2. /\ DOMAIN Over(new, s) = DOMAIN new \cup DOMAIN s
        /\ \A k \in DOMAIN new : Over(new, s)[k] = new[k]
        /\ \A k \in DOMAIN s \ DOMAIN new : Over(new, s)[k] = s[k]
    BY OverIs
  <2> QED
    BY <1>1, <2>1, <2>2
<1>3. ASSUME NEW new PROVE
        /\ DOMAIN Over(t, new) = DOMAIN Over(s, new)
        /\ \A k \in DOMAIN Over(s, new) : Arrived(Over(s, new)[k], Over(t, new)[k])
  <2>1. /\ DOMAIN Over(t, new) = DOMAIN t \cup DOMAIN new
        /\ \A k \in DOMAIN t : Over(t, new)[k] = t[k]
        /\ \A k \in DOMAIN new \ DOMAIN t : Over(t, new)[k] = new[k]
    BY OverIs
  <2>2. /\ DOMAIN Over(s, new) = DOMAIN s \cup DOMAIN new
        /\ \A k \in DOMAIN s : Over(s, new)[k] = s[k]
        /\ \A k \in DOMAIN new \ DOMAIN s : Over(s, new)[k] = new[k]
    BY OverIs
  <2> QED
    BY <1>1, <2>1, <2>2
<1>4. ASSUME NEW gone PROVE
        /\ DOMAIN Without(t, gone) = DOMAIN Without(s, gone)
        /\ \A k \in DOMAIN Without(s, gone) : Arrived(Without(s, gone)[k], Without(t, gone)[k])
  <2>1. /\ DOMAIN Without(t, gone) = DOMAIN t \ gone
        /\ \A k \in DOMAIN t \ gone : Without(t, gone)[k] = t[k]
    BY WithoutIs
  <2>2. /\ DOMAIN Without(s, gone) = DOMAIN s \ gone
        /\ \A k \in DOMAIN s \ gone : Without(s, gone)[k] = s[k]
    BY WithoutIs
  <2> QED
    BY <2>1, <2>2
<1> QED
  BY <1>2, <1>3, <1>4

\* The same call on two stores that are alike leaves them alike.
LEMMA AlikeAdds ==
  ASSUME NEW s, NEW p, Alike(s, p), NEW t, NEW q, NEW rows
  PROVE  /\ AddsUsers(s, t, rows) /\ AddsUsers(p, q, rows) => Alike(t, q)
         /\ AddsItems(s, t, rows) /\ AddsItems(p, q, rows) => Alike(t, q)
<1>1. /\ DOMAIN p.users = DOMAIN s.users /\ \A u \in DOMAIN s.users : Arrived(s.users[u], p.users[u])
      /\ DOMAIN p.items = DOMAIN s.items /\ \A i \in DOMAIN s.items : Arrived(s.items[i], p.items[i])
  BY DEF Alike
<1> DEFINE new == FirstRows(rows)
<1> HIDE DEF new
<1>2. /\ DOMAIN Over(new, p.users) = DOMAIN Over(new, s.users)
      /\ \A k \in DOMAIN Over(new, s.users) : Arrived(Over(new, s.users)[k], Over(new, p.users)[k])
  <2> DEFINE a == s.users
             b == p.users
  <2>1. DOMAIN b = DOMAIN a /\ \A k \in DOMAIN a : Arrived(a[k], b[k])
    BY <1>1
  <2> SUFFICES /\ DOMAIN Over(new, b) = DOMAIN Over(new, a)
               /\ \A k \in DOMAIN Over(new, a) : Arrived(Over(new, a)[k], Over(new, b)[k])
    OBVIOUS
  <2> HIDE DEF a, b
  <2>2. \A h : /\ DOMAIN Over(h, b) = DOMAIN Over(h, a)
               /\ \A k \in DOMAIN Over(h, a) : Arrived(Over(h, a)[k], Over(h, b)[k])
    BY <2>1, RowsAreAlike
  <2> QED
    BY <2>2, Zenon
<1>3. /\ DOMAIN Over(new, p.items) = DOMAIN Over(new, s.items)
      /\ \A k \in DOMAIN Over(new, s.items) : Arrived(Over(new, s.items)[k], Over(new, p.items)[k])
  <2> DEFINE a == s.items
             b == p.items
  <2>1. DOMAIN b = DOMAIN a /\ \A k \in DOMAIN a : Arrived(a[k], b[k])
    BY <1>1
  <2> SUFFICES /\ DOMAIN Over(new, b) = DOMAIN Over(new, a)
               /\ \A k \in DOMAIN Over(new, a) : Arrived(Over(new, a)[k], Over(new, b)[k])
    OBVIOUS
  <2> HIDE DEF a, b
  <2>2. \A h : /\ DOMAIN Over(h, b) = DOMAIN Over(h, a)
               /\ \A k \in DOMAIN Over(h, a) : Arrived(Over(h, a)[k], Over(h, b)[k])
    BY <2>1, RowsAreAlike
  <2> QED
    BY <2>2, Zenon
<1>4. ASSUME AddsUsers(s, t, rows), AddsUsers(p, q, rows) PROVE Alike(t, q)
  BY <1>2, <1>4 DEF AddsUsers, OnlyUsers, Alike, new
<1>5. ASSUME AddsItems(s, t, rows), AddsItems(p, q, rows) PROVE Alike(t, q)
  BY <1>3, <1>5 DEF AddsItems, OnlyItems, Alike, new
<1> QED
  BY <1>4, <1>5

LEMMA AlikeFeedback ==
  ASSUME NEW s, NEW p, Alike(s, p), NEW t, NEW q, NEW rows,
         NEW iu \in BOOLEAN, NEW ii \in BOOLEAN, NEW ow \in BOOLEAN,
         AddsFeedback(s, t, rows, iu, ii, ow), AddsFeedback(p, q, rows, iu, ii, ow)
  PROVE  Alike(t, q)
<1>1. /\ DOMAIN p.users = DOMAIN s.users /\ \A u \in DOMAIN s.users : Arrived(s.users[u], p.users[u])
      /\ DOMAIN p.items = DOMAIN s.items /\ \A i \in DOMAIN s.items : Arrived(s.items[i], p.items[i])
      /\ p.feedback = s.feedback
  BY DEF Alike
<1> DEFINE us == Blank(Named(rows), s.users, BlankUser)
           is == Blank(NamedItems(rows), s.items, BlankItem)
<1>2. us = Blank(Named(rows), p.users, BlankUser) /\ is = Blank(NamedItems(rows), p.items, BlankItem)
  BY <1>1 DEF Blank
<1> HIDE DEF us, is
<1>3. /\ t.users = IF iu THEN Over(s.users, us) ELSE s.users
      /\ q.users = IF iu THEN Over(p.users, us) ELSE p.users
      /\ t.items = IF ii THEN Over(s.items, is) ELSE s.items
      /\ q.items = IF ii THEN Over(p.items, is) ELSE p.items
  BY <1>2 DEF AddsFeedback, us, is
<1>4. DOMAIN q.users = DOMAIN t.users /\ \A u \in DOMAIN t.users : Arrived(t.users[u], q.users[u])
  <2>1. /\ DOMAIN Over(p.users, us) = DOMAIN Over(s.users, us)
        /\ \A k \in DOMAIN Over(s.users, us) : Arrived(Over(s.users, us)[k], Over(p.users, us)[k])
    BY <1>1, RowsAreAlike
  <2>2. CASE iu
    BY <1>3, <2>1, <2>2
  <2>3. CASE ~iu
    BY <1>1, <1>3, <2>3
  <2> QED
    BY <2>2, <2>3
<1>5. DOMAIN q.items = DOMAIN t.items /\ \A i \in DOMAIN t.items : Arrived(t.items[i], q.items[i])
  <2>1. /\ DOMAIN Over(p.items, is) = DOMAIN Over(s.items, is)
        /\ \A k \in DOMAIN Over(s.items, is) : Arrived(Over(s.items, is)[k], Over(p.items, is)[k])
    BY <1>1, RowsAreAlike
  <2>2. CASE ii
    BY <1>3, <2>1, <2>2
  <2>3. CASE ~ii
    BY <1>1, <1>3, <2>3
  <2> QED
    BY <2>2, <2>3
<1>6. q.feedback = t.feedback
  <2> DEFINE new == Known(FirstRows(rows), DOMAIN t.users, DOMAIN t.items)
  <2>1. new = Known(FirstRows(rows), DOMAIN q.users, DOMAIN q.items)
    BY <1>4, <1>5
  <2>2. /\ t.feedback = IF ow THEN Over(new, s.feedback) ELSE Over(s.feedback, new)
        /\ q.feedback = IF ow THEN Over(new, p.feedback) ELSE Over(p.feedback, new)
    BY <2>1 DEF AddsFeedback
  <2> HIDE DEF new
  <2> QED
    BY <1>1, <2>2
<1> QED
  BY <1>4, <1>5, <1>6 DEF Alike

LEMMA AlikePatches ==
  ASSUME NEW s, DataOK(s), NEW p, DataOK(p), Alike(s, p), NEW t, NEW q, NEW k, NEW patch
  PROVE  /\ PatchesUser(s, t, k, patch) /\ PatchesUser(p, q, k, Kept(patch)) => Alike(t, q)
         /\ PatchesItem(s, t, k, patch) /\ PatchesItem(p, q, k, Kept(patch)) => Alike(t, q)
<1>1. ASSUME PatchesUser(s, t, k, patch), PatchesUser(p, q, k, Kept(patch)) PROVE Alike(t, q)
  <2> DEFINE a == Over(patch, s.users[k])
             b == Over(Kept(patch), p.users[k])
  <2>1. /\ k \in DOMAIN s.users /\ k \in DOMAIN p.users /\ DOMAIN p.users = DOMAIN s.users
        /\ \A h \in DOMAIN s.users : Arrived(s.users[h], p.users[h])
    BY <1>1 DEF PatchesUser, Alike
  <2>2. t.users = [s.users EXCEPT ![k] = a] /\ q.users = [p.users EXCEPT ![k] = b]
    BY <1>1 DEF PatchesUser
  <2>3. Arrived(a, b)
    BY <2>1, RowsArrive
  <2>4. IsTable(s.users, Nat) /\ IsTable(p.users, Nat)
    BY DEF DataOK
  <2> HIDE DEF a, b
  <2>5. /\ DOMAIN t.users = DOMAIN s.users /\ t.users[k] = a /\ \A h \in DOMAIN s.users \ {k} : t.users[h] = s.users[h]
    BY <2>1, <2>2, <2>4, ExceptIs
  <2>6. /\ DOMAIN q.users = DOMAIN p.users /\ q.users[k] = b /\ \A h \in DOMAIN p.users \ {k} : q.users[h] = p.users[h]
    BY <2>1, <2>2, <2>4, ExceptIs
  <2>7. DOMAIN q.users = DOMAIN t.users /\ \A h \in DOMAIN t.users : Arrived(t.users[h], q.users[h])
    BY <2>1, <2>3, <2>5, <2>6
  <2> QED
    BY <1>1, <2>7 DEF PatchesUser, OnlyUsers, Alike
<1>2. ASSUME PatchesItem(s, t, k, patch), PatchesItem(p, q, k, Kept(patch)) PROVE Alike(t, q)
  <2> DEFINE a == Over(patch, s.items[k])
             b == Over(Kept(patch), p.items[k])
  <2>1. /\ k \in DOMAIN s.items /\ k \in DOMAIN p.items /\ DOMAIN p.items = DOMAIN s.items
        /\ \A h \in DOMAIN s.items : Arrived(s.items[h], p.items[h])
    BY <1>2 DEF PatchesItem, Alike
  <2>2. t.items = [s.items EXCEPT ![k] = a] /\ q.items = [p.items EXCEPT ![k] = b]
    BY <1>2 DEF PatchesItem
  <2>3. Arrived(a, b)
    BY <2>1, RowsArrive
  <2>4. IsTable(s.items, Nat) /\ IsTable(p.items, Nat)
    BY DEF DataOK
  <2> HIDE DEF a, b
  <2>5. /\ DOMAIN t.items = DOMAIN s.items /\ t.items[k] = a /\ \A h \in DOMAIN s.items \ {k} : t.items[h] = s.items[h]
    BY <2>1, <2>2, <2>4, ExceptIs
  <2>6. /\ DOMAIN q.items = DOMAIN p.items /\ q.items[k] = b /\ \A h \in DOMAIN p.items \ {k} : q.items[h] = p.items[h]
    BY <2>1, <2>2, <2>4, ExceptIs
  <2>7. DOMAIN q.items = DOMAIN t.items /\ \A h \in DOMAIN t.items : Arrived(t.items[h], q.items[h])
    BY <2>1, <2>3, <2>5, <2>6
  <2> QED
    BY <1>2, <2>7 DEF PatchesItem, OnlyItems, Alike
<1> QED
  BY <1>1, <1>2

LEMMA AlikeRemovals ==
  ASSUME NEW s, NEW p, Alike(s, p), NEW t, NEW q
  PROVE  /\ \A u : RemovesUser(s, t, u) /\ RemovesUser(p, q, u) => Alike(t, q)
         /\ \A i : RemovesItem(s, t, i) /\ RemovesItem(p, q, i) => Alike(t, q)
         /\ \A u, i, types : DropsFeedback(s, t, u, i, types) /\ DropsFeedback(p, q, u, i, types) => Alike(t, q)
         /\ RemovesAll(t) /\ RemovesAll(q) => Alike(t, q)
<1>1. /\ DOMAIN p.users = DOMAIN s.users /\ \A u \in DOMAIN s.users : Arrived(s.users[u], p.users[u])
      /\ DOMAIN p.items = DOMAIN s.items /\ \A i \in DOMAIN s.items : Arrived(s.items[i], p.items[i])
      /\ p.feedback = s.feedback
  BY DEF Alike
<1>2. ASSUME NEW gone
      PROVE  /\ DOMAIN Without(p.users, gone) = DOMAIN Without(s.users, gone)
             /\ \A k \in DOMAIN Without(s.users, gone) : Arrived(Without(s.users, gone)[k], Without(p.users, gone)[k])
             /\ DOMAIN Without(p.items, gone) = DOMAIN Without(s.items, gone)
             /\ \A k \in DOMAIN Without(s.items, gone) : Arrived(Without(s.items, gone)[k], Without(p.items, gone)[k])
  BY <1>1, RowsAreAlike
<1>3. ASSUME NEW u, RemovesUser(s, t, u), RemovesUser(p, q, u) PROVE Alike(t, q)
  <2> DEFINE gone == {u}
  <2>1. t.users = Without(s.users, gone) /\ q.users = Without(p.users, gone)
        /\ t.items = s.items /\ q.items = p.items /\ q.feedback = t.feedback
    BY <1>1, <1>3 DEF RemovesUser
  <2> HIDE DEF gone
  <2> QED
    BY <1>1, <1>2, <2>1 DEF Alike
<1>4. ASSUME NEW i, RemovesItem(s, t, i), RemovesItem(p, q, i) PROVE Alike(t, q)
  <2> DEFINE gone == {i}
  <2>1. t.items = Without(s.items, gone) /\ q.items = Without(p.items, gone)
        /\ t.users = s.users /\ q.users = p.users /\ q.feedback = t.feedback
    BY <1>1, <1>4 DEF RemovesItem
  <2> HIDE DEF gone
  <2> QED
    BY <1>1, <1>2, <2>1 DEF Alike
<1>5. ASSUME NEW u, NEW i, NEW types, DropsFeedback(s, t, u, i, types), DropsFeedback(p, q, u, i, types)
      PROVE  Alike(t, q)
  BY <1>1, <1>5 DEF DropsFeedback, Alike
<1>6. ASSUME RemovesAll(t), RemovesAll(q) PROVE Alike(t, q)
  BY <1>6, EmptyTableIs DEF RemovesAll, Alike
<1> QED
  BY <1>3, <1>4, <1>5, <1>6

ProxyInv == DataOK(sql) /\ DataOK(proxied) /\ Alike(sql, proxied)

LEMMA ProxySteps ==
  ASSUME ProxyInv, [Next]_dataVars
  PROVE  DataOK(proxied') /\ Alike(sql', proxied')
<1>0. DataOK(sql) /\ DataOK(proxied) /\ Alike(sql, proxied)
  BY DEF ProxyInv
<1>1. CASE InsertUsers
  <2>1. PICK rows \in UserBatches :
          /\ sql' = SQL!BatchInsertUsers(sql, rows)
          /\ proxied' = Proxy!BatchInsertUsers(proxied, rows)
    BY <1>1 DEF InsertUsers, Write
  <2>2. proxied' = SQL!BatchInsertUsers(proxied, rows)
    BY <2>1, ProxyCalls
  <2>3. AddsUsers(sql, sql', rows) /\ AddsUsers(proxied, proxied', rows)
    BY <1>0, <2>1, <2>2, SQLDoes
  <2>4. PutsUsers(proxied, proxied', rows)
    BY <1>0, <2>2, SQLCalls
  <2>5. DataOK(proxied')
    BY <1>0, <2>4, PutsKeepTypes
  <2>6. Alike(sql', proxied')
    BY <1>0, <2>3, AlikeAdds
  <2> QED
    BY <2>5, <2>6
<1>2. CASE InsertItems
  <2>1. PICK rows \in ItemBatches :
          /\ sql' = SQL!BatchInsertItems(sql, rows)
          /\ proxied' = Proxy!BatchInsertItems(proxied, rows)
    BY <1>2 DEF InsertItems, Write
  <2>2. proxied' = SQL!BatchInsertItems(proxied, rows)
    BY <2>1, ProxyCalls
  <2>3. AddsItems(sql, sql', rows) /\ AddsItems(proxied, proxied', rows)
    BY <1>0, <2>1, <2>2, SQLDoes
  <2>4. PutsItems(proxied, proxied', rows)
    BY <1>0, <2>2, SQLCalls
  <2>5. DataOK(proxied')
    BY <1>0, <2>4, PutsKeepTypes
  <2>6. Alike(sql', proxied')
    BY <1>0, <2>3, AlikeAdds
  <2> QED
    BY <2>5, <2>6
<1>3. CASE InsertFeedback
  <2>1. PICK rows \in FeedbackBatches, iu \in BOOLEAN, ii \in BOOLEAN, ow \in BOOLEAN :
          /\ sql' = SQL!BatchInsertFeedback(sql, rows, iu, ii, ow)
          /\ proxied' = Proxy!BatchInsertFeedback(proxied, rows, iu, ii, ow)
    BY <1>3 DEF InsertFeedback, Write
  <2>2. proxied' = SQL!BatchInsertFeedback(proxied, rows, iu, ii, ow)
    BY <2>1, ProxyCalls
  <2>3. AddsFeedback(sql, sql', rows, iu, ii, ow) /\ AddsFeedback(proxied, proxied', rows, iu, ii, ow)
    BY <1>0, <2>1, <2>2, SQLDoes
  <2>4. PutsFeedback(proxied, proxied', rows, iu, ii, ow)
    BY <1>0, <2>2, SQLCalls
  <2>5. DataOK(proxied')
    BY <1>0, <2>4, FeedbackKeepsTypes
  <2>6. Alike(sql', proxied')
    BY <1>0, <2>3, AlikeFeedback
  <2> QED
    BY <2>5, <2>6
<1>4. CASE DeleteUser
  <2>1. PICK u \in UserIds :
          /\ sql' = SQL!DeleteUser(sql, u)
          /\ proxied' = Proxy!DeleteUser(proxied, u)
    BY <1>4 DEF DeleteUser, Write
  <2>2. proxied' = SQL!DeleteUser(proxied, u)
    BY <2>1, ProxyCalls
  <2>3. RemovesUser(sql, sql', u) /\ RemovesUser(proxied, proxied', u)
    BY <1>0, <2>1, <2>2, SQLDoes
  <2>4. RemovesUser(proxied, proxied', u)
    BY <1>0, <2>2, SQLCalls
  <2>5. DataOK(proxied')
    BY <1>0, <2>4, RemovalsKeepTypes
  <2>6. Alike(sql', proxied')
    BY <1>0, <2>3, AlikeRemovals
  <2> QED
    BY <2>5, <2>6
<1>5. CASE DeleteItem
  <2>1. PICK i \in ItemIds :
          /\ sql' = SQL!DeleteItem(sql, i)
          /\ proxied' = Proxy!DeleteItem(proxied, i)
    BY <1>5 DEF DeleteItem, Write
  <2>2. proxied' = SQL!DeleteItem(proxied, i)
    BY <2>1, ProxyCalls
  <2>3. RemovesItem(sql, sql', i) /\ RemovesItem(proxied, proxied', i)
    BY <1>0, <2>1, <2>2, SQLDoes
  <2>4. RemovesItem(proxied, proxied', i)
    BY <1>0, <2>2, SQLCalls
  <2>5. DataOK(proxied')
    BY <1>0, <2>4, RemovalsKeepTypes
  <2>6. Alike(sql', proxied')
    BY <1>0, <2>3, AlikeRemovals
  <2> QED
    BY <2>5, <2>6
<1>6. CASE DeleteFeedback
  <2>1. PICK u \in UserIds, i \in ItemIds, types \in FeedbackTypes :
          /\ sql' = SQL!DeleteUserItemFeedback(sql, u, i, types)
          /\ proxied' = Proxy!DeleteUserItemFeedback(proxied, u, i, types)
    BY <1>6 DEF DeleteFeedback, Write
  <2>2. proxied' = SQL!DeleteUserItemFeedback(proxied, u, i, types)
    BY <2>1, ProxyCalls
  <2>3. DropsFeedback(sql, sql', u, i, types) /\ DropsFeedback(proxied, proxied', u, i, types)
    BY <1>0, <2>1, <2>2, SQLDoes
  <2>4. RemovesFeedback(proxied, proxied', u, i)
    BY <1>0, <2>2, SQLCalls
  <2>5. DataOK(proxied')
    BY <1>0, <2>4, RemovalsKeepTypes
  <2>6. Alike(sql', proxied')
    BY <1>0, <2>3, AlikeRemovals
  <2> QED
    BY <2>5, <2>6
<1>7. CASE ModifyUser
  <2>1. PICK u \in UserIds, patch \in UserPatches :
          sql' = SQL!ModifyUser(sql, u, patch) /\ proxied' = Proxy!ModifyUser(proxied, u, patch)
    BY <1>7 DEF ModifyUser, Write
  <2> DEFINE kept == Kept(patch)
  <2>2. proxied' = SQL!ModifyUser(proxied, u, kept)
    BY <2>1, ProxyCalls
  <2>3. DOMAIN proxied.users = DOMAIN sql.users
    BY <1>0 DEF Alike
  <2>4. CASE u \in DOMAIN sql.users
    <3>1. PatchesUser(sql, sql', u, patch)
      BY <1>0, <2>1, <2>4, SQLDoes
    <3>2. PatchesUser(proxied, proxied', u, kept)
      <4> HIDE DEF kept
      <4> QED
        BY <1>0, <2>2, <2>3, <2>4, SQLDoes
    <3>3. Alike(sql', proxied')
      BY <1>0, <3>1, <3>2, AlikePatches
    <3>5. DataOK(proxied')
      <4> HIDE DEF kept
      <4> QED
        BY <1>0, <3>2, PatchesKeepTypes
    <3> QED
      BY <3>3, <3>5
  <2>5. CASE u \notin DOMAIN sql.users
    <3>1. sql' = sql
      BY <1>0, <2>1, <2>5, SQLDoes
    <3>2. proxied' = proxied
      <4> HIDE DEF kept
      <4> QED
        BY <1>0, <2>2, <2>3, <2>5, SQLDoes
    <3> QED
      BY <1>0, <3>1, <3>2
  <2> QED
    BY <2>4, <2>5
<1>8. CASE ModifyItem
  <2>1. PICK i \in ItemIds, patch \in ItemPatches :
          sql' = SQL!ModifyItem(sql, i, patch) /\ proxied' = Proxy!ModifyItem(proxied, i, patch)
    BY <1>8 DEF ModifyItem, Write
  <2> DEFINE kept == Kept(patch)
  <2>2. proxied' = SQL!ModifyItem(proxied, i, kept)
    BY <2>1, ProxyCalls
  <2>3. DOMAIN proxied.items = DOMAIN sql.items
    BY <1>0 DEF Alike
  <2>4. CASE i \in DOMAIN sql.items
    <3>1. PatchesItem(sql, sql', i, patch)
      BY <1>0, <2>1, <2>4, SQLDoes
    <3>2. PatchesItem(proxied, proxied', i, kept)
      <4> HIDE DEF kept
      <4> QED
        BY <1>0, <2>2, <2>3, <2>4, SQLDoes
    <3>3. Alike(sql', proxied')
      BY <1>0, <3>1, <3>2, AlikePatches
    <3>4. "timestamp" \in DOMAIN kept => kept["timestamp"] \in Nat
      BY RowsAssumption DEF Kept
    <3>5. DataOK(proxied')
      <4> HIDE DEF kept
      <4> QED
        BY <1>0, <3>2, <3>4, PatchesKeepTypes
    <3> QED
      BY <3>3, <3>5
  <2>5. CASE i \notin DOMAIN sql.items
    <3>1. sql' = sql
      BY <1>0, <2>1, <2>5, SQLDoes
    <3>2. proxied' = proxied
      <4> HIDE DEF kept
      <4> QED
        BY <1>0, <2>2, <2>3, <2>5, SQLDoes
    <3> QED
      BY <1>0, <3>1, <3>2
  <2> QED
    BY <2>4, <2>5
<1>9. CASE Purge
  <2>1. RemovesAll(sql') /\ RemovesAll(proxied')
    BY <1>0, <1>9, SQLDoes DEF Purge, Write
  <2>2. DataOK(proxied')
    BY <1>0, <2>1, RemovalsKeepTypes
  <2>3. Alike(sql', proxied')
    BY <1>0, <2>1, AlikeRemovals
  <2> QED
    BY <2>2, <2>3
<1>10. CASE BeginScan \/ TurnPage \/ EndScan \/ UNCHANGED dataVars
  BY <1>0, <1>10 DEF BeginScan, TurnPage, EndScan, dataVars
<1> QED
  BY <1>1, <1>2, <1>3, <1>4, <1>5, <1>6, <1>7, <1>8, <1>9, <1>10 DEF Next

LEMMA ProxyIsLike ==
  ASSUME ProxyInv
  PROVE  ProxyKeepsData
<1>0. DataOK(proxied) /\ Alike(sql, proxied)
  BY DEF ProxyInv
<1>1. ProxyLosesOnlyEmptyLists
  <2>1. ASSUME NEW a, NEW b, Arrived(a, b) PROVE Cleared(a, b)
    BY <2>1 DEF Arrived, Cleared
  <2> QED
    BY <1>0, <2>1 DEF Alike, ProxyLosesOnlyEmptyLists
<1>2. ProxyIsTransparent
  BY <1>0, ProxyAnswersRows, ProxyAnswersTables, ProxyAnswersFeedback, ProxyAnswersPages, ProxyCounts,
     ProxyAnswersScans, Zenon DEF ProxyIsTransparent
<1> QED
  BY <1>1, <1>2 DEF ProxyKeepsData

\* Through the proxy (data/proxy.go) every query is answered like by the
\* store behind it, and after the same calls that store holds the rows of one
\* that is called directly, but for a list that a patch has emptied.
THEOREM ProxyKeeps == StoresSpec => []ProxyKeepsData
<1>1. StoresInit => ProxyInv
  <2> SUFFICES ASSUME StoresInit PROVE ProxyInv
    OBVIOUS
  <2>1. DataOK(sql) /\ proxied = sql
    BY DataStarts DEF StoresInit, Init, DataInv
  <2>2. Alike(sql, sql)
    BY DEF Alike, Arrived
  <2> QED
    BY <2>1, <2>2 DEF ProxyInv
<1>2. (DataInv /\ ProxyInv) /\ [StoresNext]_storeVars => (DataInv /\ ProxyInv)'
  <2> SUFFICES ASSUME DataInv, ProxyInv, [StoresNext]_storeVars PROVE DataInv' /\ ProxyInv'
    OBVIOUS
  <2>1. [Next]_dataVars
    BY DataMoves
  <2>2. DataInv'
    BY <2>1, DataSteps
  <2>3. DataOK(proxied') /\ Alike(sql', proxied')
    BY <2>1, ProxySteps
  <2>4. DataOK(proxied)' /\ Alike(sql, proxied)'
    BY <2>3 DEF DataOK, Shape, IsTable, IsRecord, IsTimed, Alike, Arrived
  <2> QED
    BY <2>2, <2>4 DEF ProxyInv, DataInv
<1>3. StoresInit => DataInv
  BY DataStarts DEF StoresInit
<1>4. ProxyInv => ProxyKeepsData
  BY ProxyIsLike
<1> QED
  BY <1>1, <1>2, <1>3, <1>4, PTL DEF StoresSpec

----------------------------------------------------------------------------
(* Messages that wait *)

IsQueue(q) == q \in Seq(Messages) /\ \A i, j \in 1 .. Len(q) : q[i] = q[j] => i = j

\* A message that is taken out of a queue is not in it any more.
LEMMA TakenOut ==
  ASSUME NEW q, IsQueue(q), NEW x \in Messages
  PROVE  /\ IsQueue(Unqueued(q, x))
         /\ \A j \in 1 .. Len(Unqueued(q, x)) : Unqueued(q, x)[j] # x
         /\ q # <<>> /\ q[1] = x => Unqueued(q, x) = Tail(q)
<1> DEFINE n == Len(q)
           at == CHOOSE j \in DOMAIN q : q[j] = x
           top == at - 1
           next == at + 1
           a == SubSeq(q, 1, top)
           b == SubSeq(q, next, n)
           e == a \o b
<1>1. q \in Seq(Messages) /\ n \in Nat /\ DOMAIN q = 1 .. n /\ \A j \in 1 .. n : q[j] \in Messages
  BY LenProperties, ElementOfSeq DEF IsQueue
<1>2. CASE \E j \in DOMAIN q : q[j] = x
  <2>1. at \in 1 .. n /\ q[at] = x
    BY <1>1, <1>2
  <2>2. Unqueued(q, x) = e
    BY <1>2 DEF Unqueued
  <2> HIDE DEF at
  <2>3. top \in Int /\ next \in Int /\ n \in Int /\ top = at - 1 /\ next = at + 1
    BY <1>1, <2>1
  <2>4. (\A i \in 1 .. top : q[i] \in Messages) /\ \A i \in next .. n : q[i] \in Messages
    BY <1>1, <2>1
  <2>5. /\ a \in Seq(Messages) /\ Len(a) = (IF 1 <= top THEN top - 1 + 1 ELSE 0)
        /\ \A i \in 1 .. top - 1 + 1 : a[i] = q[1 + i - 1]
    <3> HIDE DEF top
    <3> QED
      BY <2>3, <2>4, SubSeqProperties
  <2>6. /\ b \in Seq(Messages) /\ Len(b) = (IF next <= n THEN n - next + 1 ELSE 0)
        /\ \A i \in 1 .. n - next + 1 : b[i] = q[next + i - 1]
    <3> HIDE DEF next, n
    <3> QED
      BY <2>3, <2>4, SubSeqProperties
  <2>7. Len(a) = at - 1 /\ Len(b) = n - at
        /\ (\A i \in 1 .. at - 1 : a[i] = q[i]) /\ \A i \in 1 .. n - at : b[i] = q[at + i]
    <3> HIDE DEF a, b
    <3>1. Len(a) = at - 1 /\ Len(b) = n - at
      <4>1. at \in Int /\ n \in Int /\ 1 <= at /\ at <= n
        BY <2>1, <1>1
      <4>2. Len(a) = IF 1 <= at - 1 THEN at - 1 - 1 + 1 ELSE 0
        BY <2>5
      <4>3. Len(b) = IF at + 1 <= n THEN n - (at + 1) + 1 ELSE 0
        BY <2>6
      <4> HIDE DEF n
      <4>4. Len(a) = at - 1
        BY <4>1, <4>2
      <4>5. Len(b) = n - at
        BY <4>1, <4>3
      <4> QED
        BY <4>4, <4>5
    <3>2. ASSUME NEW i \in 1 .. at - 1 PROVE a[i] = q[i]
      <4>1. i \in 1 .. top - 1 + 1 /\ 1 + i - 1 = i
        BY <2>1, <1>1
      <4>2. a[i] = q[1 + i - 1]
        BY <4>1, <2>5
      <4> QED
        BY <4>1, <4>2
    <3>3. ASSUME NEW i \in 1 .. n - at PROVE b[i] = q[at + i]
      <4>1. i \in 1 .. n - next + 1 /\ next + i - 1 = at + i
        BY <2>1, <1>1
      <4>2. b[i] = q[next + i - 1]
        BY <4>1, <2>6
      <4> QED
        BY <4>1, <4>2
    <3> QED
      BY <3>1, <3>2, <3>3
  <2>8. /\ e \in Seq(Messages) /\ Len(e) = Len(a) + Len(b)
        /\ \A i \in 1 .. Len(a) + Len(b) : e[i] = IF i <= Len(a) THEN a[i] ELSE b[i - Len(a)]
    <3> HIDE DEF a, b
    <3> QED
      BY <2>5, <2>6, ConcatProperties
  <2> HIDE DEF a, b, e, top, next
  <2>9. Len(e) = n - 1 /\ \A i \in 1 .. n - 1 : e[i] = IF i < at THEN q[i] ELSE q[i + 1]
    <3>1. Len(e) = n - 1
      BY <2>1, <2>7, <2>8, <1>1
    <3>2. ASSUME NEW i \in 1 .. n - 1, i < at PROVE e[i] = q[i]
      <4>1. i \in 1 .. Len(a) + Len(b) /\ i <= Len(a) /\ i \in 1 .. at - 1
        BY <3>2, <2>1, <2>7, <1>1
      <4>2. e[i] = a[i]
        BY <4>1, <2>8
      <4> QED
        BY <4>1, <4>2, <2>7
    <3>3. ASSUME NEW i \in 1 .. n - 1, ~ i < at PROVE e[i] = q[i + 1]
      <4>1. i \in 1 .. Len(a) + Len(b) /\ ~ i <= Len(a) /\ i - Len(a) = i - (at - 1)
        BY <3>3, <2>1, <2>7, <1>1
      <4>2. i - (at - 1) \in 1 .. n - at /\ at + (i - (at - 1)) = i + 1
        BY <3>3, <2>1, <1>1
      <4> QED
        BY <4>1, <4>2, <2>7, <2>8
    <3> QED
      BY <3>1, <3>2, <3>3
  <2>10. IsQueue(e)
    <3> SUFFICES ASSUME NEW i \in 1 .. n - 1, NEW j \in 1 .. n - 1, e[i] = e[j] PROVE i = j
      BY <2>8, <2>9 DEF IsQueue
    <3> DEFINE k == IF i < at THEN i ELSE i + 1
               h == IF j < at THEN j ELSE j + 1
    <3>1. k \in 1 .. n /\ h \in 1 .. n /\ (k = h => i = j)
      BY <2>1, <1>1
    <3>2. q[k] = q[h]
      BY <2>9
    <3> QED
      BY <3>1, <3>2 DEF IsQueue
  <2>11. ASSUME NEW j \in 1 .. n - 1 PROVE e[j] # x
    <3> DEFINE k == IF j < at THEN j ELSE j + 1
    <3>1. k \in 1 .. n /\ k # at
      BY <2>1, <1>1
    <3>2. e[j] = q[k]
      BY <2>9
    <3> QED
      BY <3>1, <3>2, <2>1 DEF IsQueue
  <2>12. ASSUME q # <<>>, q[1] = x PROVE e = Tail(q)
    <3> DEFINE t == Tail(q)
    <3>1. t \in Seq(Messages) /\ Len(t) = n - 1 /\ \A i \in 1 .. Len(t) : t[i] = q[i + 1]
      BY <1>1, <2>12, HeadTailProperties
    <3>2. at = 1
      BY <1>1, <2>1, <2>12 DEF IsQueue
    <3> HIDE DEF t
    <3>3. Len(e) = Len(t) /\ \A i \in 1 .. Len(e) : e[i] = t[i]
      BY <2>9, <3>1, <3>2, <1>1
    <3>4. e = t
      BY <2>8, <3>1, <3>3, SeqEqual
    <3> QED
      BY <3>4 DEF t
  <2> QED
    BY <2>2, <2>9, <2>10, <2>11, <2>12
<1>3. CASE ~ \E j \in DOMAIN q : q[j] = x
  <2>1. Unqueued(q, x) = q
    BY <1>3 DEF Unqueued
  <2>2. q # <<>> => 1 \in 1 .. n
    BY <1>1, EmptySeq
  <2> QED
    BY <1>1, <1>3, <2>1, <2>2
<1> QED
  BY <1>2, <1>3

LEMMA QueuesMove ==
  ASSUME NEW q, IsQueue(q)
  PROVE  /\ \A x \in Messages : IsQueue(Append(Unqueued(q, x), x))
         /\ q # <<>> => IsQueue(Tail(q)) /\ Head(q) \in Messages /\ Unqueued(q, Head(q)) = Tail(q)
         /\ Len(q) \in Nat /\ (Len(q) = 0 <=> q = <<>>)
<1> DEFINE n == Len(q)
<1>1. q \in Seq(Messages) /\ n \in Nat /\ DOMAIN q = 1 .. n
  BY LenProperties DEF IsQueue
<1>2. ASSUME NEW x \in Messages PROVE IsQueue(Append(Unqueued(q, x), x))
  <2> DEFINE r == Unqueued(q, x)
  <2>1. IsQueue(r) /\ \A j \in 1 .. Len(r) : r[j] # x
    BY TakenOut
  <2> HIDE DEF r
  <2>2. Len(r) \in Nat /\ r \in Seq(Messages)
    BY <2>1, LenProperties DEF IsQueue
  <2> DEFINE s == Append(r, x)
  <2>3. /\ s \in Seq(Messages) /\ Len(s) = Len(r) + 1
        /\ \A i \in 1 .. Len(r) : s[i] = r[i]
        /\ s[Len(r) + 1] = x
    BY <2>2
  <2> HIDE DEF s
  <2>4. ASSUME NEW i \in 1 .. Len(r) + 1, NEW j \in 1 .. Len(r) + 1, s[i] = s[j] PROVE i = j
    <3>1. CASE i \in 1 .. Len(r) /\ j \in 1 .. Len(r)
      BY <3>1, <2>1, <2>3, <2>4 DEF IsQueue
    <3>2. CASE i = Len(r) + 1 /\ j \in 1 .. Len(r)
      BY <3>2, <2>1, <2>3, <2>4
    <3>3. CASE j = Len(r) + 1 /\ i \in 1 .. Len(r)
      BY <3>3, <2>1, <2>3, <2>4
    <3> QED
      BY <3>1, <3>2, <3>3, <2>2
  <2>5. IsQueue(s)
    BY <2>3, <2>4 DEF IsQueue
  <2> QED
    BY <2>5 DEF s, r
<1>3. ASSUME q # <<>> PROVE IsQueue(Tail(q)) /\ Head(q) \in Messages /\ Unqueued(q, Head(q)) = Tail(q)
  <2>1. /\ Head(q) \in Messages /\ Tail(q) \in Seq(Messages) /\ Len(Tail(q)) = n - 1
        /\ \A i \in 1 .. Len(Tail(q)) : Tail(q)[i] = q[i + 1]
    BY <1>1, <1>3, HeadTailProperties
  <2>2. Head(q) = q[1]
    BY <1>1, <1>3
  <2>3. IsQueue(Tail(q)) /\ Unqueued(q, Head(q)) = Tail(q)
    <3> DEFINE x == Head(q)
    <3>1. x \in Messages /\ q[1] = x
      BY <2>1, <2>2
    <3> HIDE DEF x
    <3>2. IsQueue(Unqueued(q, x)) /\ Unqueued(q, x) = Tail(q)
      BY <1>3, <3>1, TakenOut
    <3> QED
      BY <3>2 DEF x
  <2> QED
    BY <2>1, <2>3
<1>4. Len(q) = 0 <=> q = <<>>
  BY <1>1, EmptySeq
<1> QED
  BY <1>1, <1>2, <1>3, <1>4

----------------------------------------------------------------------------
(* What the calls of the caches do *)

IsCache(c) ==
  c = [values |-> c.values, sets |-> c.sets, queues |-> c.queues, docs |-> c.docs, points |-> c.points]

\* From c to e one table becomes t, and the others stay.
SetsValues(c, e, t) ==
  IsCache(e) /\ e.values = t /\ e.sets = c.sets /\ e.queues = c.queues /\ e.docs = c.docs /\ e.points = c.points
SetsSets(c, e, t) ==
  IsCache(e) /\ e.values = c.values /\ e.sets = t /\ e.queues = c.queues /\ e.docs = c.docs /\ e.points = c.points
SetsQueues(c, e, t) ==
  IsCache(e) /\ e.values = c.values /\ e.sets = c.sets /\ e.queues = t /\ e.docs = c.docs /\ e.points = c.points
SetsDocs(c, e, t) ==
  IsCache(e) /\ e.values = c.values /\ e.sets = c.sets /\ e.queues = c.queues /\ e.docs = t /\ e.points = c.points
SetsPoints(c, e, t) ==
  IsCache(e) /\ e.values = c.values /\ e.sets = c.sets /\ e.queues = c.queues /\ e.docs = c.docs /\ e.points = t

LEMMA OneTable ==
  ASSUME NEW c, IsCache(c), NEW t
  PROVE  /\ SetsValues(c, [c EXCEPT !.values = t], t)
         /\ SetsSets(c, [c EXCEPT !.sets = t], t)
         /\ SetsQueues(c, [c EXCEPT !.queues = t], t)
         /\ SetsDocs(c, [c EXCEPT !.docs = t], t)
         /\ SetsPoints(c, [c EXCEPT !.points = t], t)
  BY DEF IsCache, SetsValues, SetsSets, SetsQueues, SetsDocs, SetsPoints

\* The tables after a call.
InSet(t, name) == IF name \in DOMAIN t THEN t[name] ELSE {}
Holding(t, name, m) == IF m = {} THEN Without(t, {name}) ELSE Over([n \in {name} |-> m], t)
Pushed(t, name, x) == [t EXCEPT ![name] = Append(Unqueued(t[name], x), x)]
Shifted(t, name) == [t EXCEPT ![name] = Tail(t[name])]
KeysIn(collection, subset, rows) ==
  {[collection |-> collection, subset |-> subset, id |-> i] : i \in DOMAIN rows}
Written(t, collection, subset, rows) == Over([k \in KeysIn(collection, subset, rows) |-> rows[k.id]], t)
AsHidden(t, k, row) == IF k \in DOMAIN t THEN [row EXCEPT !.is_hidden = t[k].is_hidden] ELSE row
WrittenAsHidden(t, collection, subset, rows) ==
  Over([k \in KeysIn(collection, subset, rows) |-> AsHidden(t, k, rows[k.id])], t)
Meant(k, collections, subset, id) ==
  k.collection \in collections /\ k.id = id /\ (subset = Nil \/ k.subset = subset)
PatchedAt(t, collections, subset, id, patch) ==
  [k \in DOMAIN t |-> IF Meant(k, collections, subset, id) THEN Over(patch, t[k]) ELSE t[k]]
Condemned(t, collections, cond) ==
  {k \in DOMAIN t :
     /\ k.collection \in collections
     /\ cond.subset = Nil \/ k.subset = cond.subset
     /\ cond.id = Nil \/ k.id = cond.id
     /\ cond.before = Nil \/ t[k].timestamp < cond.before}
IsValid(cond) == cond.subset # Nil \/ cond.id # Nil \/ cond.before # Nil
Emptied(q) == [name \in DOMAIN q |-> <<>>]

\* What the SQL store, MongoDB and Redis do in the same way.

LEMMA SQLCacheDoes ==
  ASSUME NEW c, IsCache(c)
  PROVE  /\ \A rows : SetsValues(c, SC!Set(c, rows), Over(FirstRows(rows), c.values))
         /\ \A name : SetsValues(c, SC!Delete(c, name), Without(c.values, {name}))
         /\ \A name, m : SetsSets(c, SC!AddSet(c, name, m), Holding(c.sets, name, InSet(c.sets, name) \cup m))
         /\ \A name, m : SetsSets(c, SC!RemSet(c, name, m), Holding(c.sets, name, InSet(c.sets, name) \ m))
         /\ \A name, x : SetsQueues(c, SC!Push(c, name, x), Pushed(c.queues, name, x))
         /\ \A co, s, rows : SetsDocs(c, SC!AddScores(c, co, s, rows), WrittenAsHidden(c.docs, co, s, rows))
         /\ \A co, s, id, patch : SetsDocs(c, SC!UpdateScores(c, co, s, id, patch),
              PatchedAt(c.docs, co, s, id, patch))
         /\ \A co, cond : SetsDocs(c, SC!DeleteScores(c, co, cond),
              IF IsValid(cond) THEN Without(c.docs, Condemned(c.docs, co, cond)) ELSE c.docs)
         /\ \A new : SetsPoints(c, SC!AddTimeSeriesPoints(c, new), Over(new, c.points))
<1>1. ASSUME NEW rows PROVE SetsValues(c, SC!Set(c, rows), Over(FirstRows(rows), c.values))
  <2> DEFINE t == Over(FirstRows(rows), c.values)
  <2>1. SC!Set(c, rows) = [c EXCEPT !.values = t]
    BY DEF SC!Set, SC!Over, SC!FirstRows, SC!KeysOf, Over, FirstRows, KeysOf
  <2> HIDE DEF t
  <2>2. SetsValues(c, [c EXCEPT !.values = t], t)
    BY OneTable
  <2> QED
    BY <2>1, <2>2 DEF t
<1>2. ASSUME NEW name PROVE SetsValues(c, SC!Delete(c, name), Without(c.values, {name}))
  <2> DEFINE t == Without(c.values, {name})
  <2>1. SC!Delete(c, name) = [c EXCEPT !.values = t]
    BY DEF SC!Delete, SC!Without, Without
  <2> HIDE DEF t
  <2>2. SetsValues(c, [c EXCEPT !.values = t], t)
    BY OneTable
  <2> QED
    BY <2>1, <2>2 DEF t
<1>3. ASSUME NEW name, NEW m
      PROVE  SetsSets(c, SC!AddSet(c, name, m),
               Holding(c.sets, name, InSet(c.sets, name) \cup m))
  <2> DEFINE t == Holding(c.sets, name, InSet(c.sets, name) \cup m)
  <2>1. SC!AddSet(c, name, m) = [c EXCEPT !.sets = t]
    BY DEF SC!AddSet, SC!GetSet, InSet, SC!WithMembers, SC!Over, SC!Without, Holding, Over, Without
  <2> HIDE DEF t
  <2>2. SetsSets(c, [c EXCEPT !.sets = t], t)
    BY OneTable
  <2> QED
    BY <2>1, <2>2 DEF t
<1>4. ASSUME NEW name, NEW m
      PROVE  SetsSets(c, SC!RemSet(c, name, m),
               Holding(c.sets, name, InSet(c.sets, name) \ m))
  <2> DEFINE t == Holding(c.sets, name, InSet(c.sets, name) \ m)
  <2>1. SC!RemSet(c, name, m) = [c EXCEPT !.sets = t]
    BY DEF SC!RemSet, SC!GetSet, InSet, SC!WithMembers, SC!Over, SC!Without, Holding, Over, Without
  <2> HIDE DEF t
  <2>2. SetsSets(c, [c EXCEPT !.sets = t], t)
    BY OneTable
  <2> QED
    BY <2>1, <2>2 DEF t
<1>5. ASSUME NEW name, NEW x PROVE SetsQueues(c, SC!Push(c, name, x), Pushed(c.queues, name, x))
  <2> DEFINE t == Pushed(c.queues, name, x)
  <2>1. SC!Push(c, name, x) = [c EXCEPT !.queues = t]
    BY DEF SC!Push, SC!Unqueued, Pushed, Unqueued
  <2> HIDE DEF t
  <2>2. SetsQueues(c, [c EXCEPT !.queues = t], t)
    BY OneTable
  <2> QED
    BY <2>1, <2>2 DEF t
<1>6. ASSUME NEW co, NEW s, NEW rows
      PROVE  SetsDocs(c, SC!AddScores(c, co, s, rows),
               WrittenAsHidden(c.docs, co, s, rows))
  <2> DEFINE t == WrittenAsHidden(c.docs, co, s, rows)
  <2>1. SC!AddScores(c, co, s, rows) = [c EXCEPT !.docs = t]
    BY DEF SC!AddScores, SC!DocKeys, SC!DocKey, SC!Over, Over, WrittenAsHidden, AsHidden, KeysIn
  <2> HIDE DEF t
  <2>2. SetsDocs(c, [c EXCEPT !.docs = t], t)
    BY OneTable
  <2> QED
    BY <2>1, <2>2 DEF t
<1>7. ASSUME NEW co, NEW s, NEW id, NEW patch
      PROVE  SetsDocs(c, SC!UpdateScores(c, co, s, id, patch),
               PatchedAt(c.docs, co, s, id, patch))
  <2> DEFINE t == PatchedAt(c.docs, co, s, id, patch)
  <2>1. SC!UpdateScores(c, co, s, id, patch) = [c EXCEPT !.docs = t]
    BY DEF SC!UpdateScores, SC!Matching, SC!Over, Over, PatchedAt, Meant
  <2> HIDE DEF t
  <2>2. SetsDocs(c, [c EXCEPT !.docs = t], t)
    BY OneTable
  <2> QED
    BY <2>1, <2>2 DEF t
<1>8. ASSUME NEW co, NEW cond
      PROVE  SetsDocs(c, SC!DeleteScores(c, co, cond),
               IF IsValid(cond) THEN Without(c.docs, Condemned(c.docs, co, cond)) ELSE c.docs)
  <2> DEFINE t == IF IsValid(cond) THEN Without(c.docs, Condemned(c.docs, co, cond)) ELSE c.docs
  <2>1. SC!DeleteScores(c, co, cond) = [c EXCEPT !.docs = t]
    <3>1. CASE IsValid(cond)
      BY <3>1 DEF SC!DeleteScores, SC!Valid, SC!Without, Without, Condemned, IsValid
    <3>2. CASE ~IsValid(cond)
      <4>1. SC!DeleteScores(c, co, cond) = c
        BY <3>2 DEF SC!DeleteScores, SC!Valid, SC!Without, Without, Condemned, IsValid
      <4> QED
        BY <3>2, <4>1 DEF IsCache
    <3> QED
      BY <3>1, <3>2
  <2> HIDE DEF t
  <2>2. SetsDocs(c, [c EXCEPT !.docs = t], t)
    BY OneTable
  <2> QED
    BY <2>1, <2>2 DEF t
<1>9. ASSUME NEW new PROVE SetsPoints(c, SC!AddTimeSeriesPoints(c, new), Over(new, c.points))
  <2> DEFINE t == Over(new, c.points)
  <2>1. SC!AddTimeSeriesPoints(c, new) = [c EXCEPT !.points = t]
    BY DEF SC!AddTimeSeriesPoints, SC!Over, Over
  <2> HIDE DEF t
  <2>2. SetsPoints(c, [c EXCEPT !.points = t], t)
    BY OneTable
  <2> QED
    BY <2>1, <2>2 DEF t
<1> QED
  BY <1>1, <1>2, <1>3, <1>4, <1>5, <1>6, <1>7, <1>8, <1>9

LEMMA MongoCacheDoes ==
  ASSUME NEW c, IsCache(c)
  PROVE  /\ \A rows : SetsValues(c, MC!Set(c, rows), Over(LastRows(rows), c.values))
         /\ \A name : SetsValues(c, MC!Delete(c, name), Without(c.values, {name}))
         /\ \A name, m : SetsSets(c, MC!AddSet(c, name, m), Holding(c.sets, name, InSet(c.sets, name) \cup m))
         /\ \A name, m : SetsSets(c, MC!RemSet(c, name, m), Holding(c.sets, name, InSet(c.sets, name) \ m))
         /\ \A name, m : SetsSets(c, MC!SetSet(c, name, m), Holding(c.sets, name, m))
         /\ \A name, x : SetsQueues(c, MC!Push(c, name, x), Pushed(c.queues, name, x))
         /\ \A co, s, rows : SetsDocs(c, MC!AddScores(c, co, s, rows), Written(c.docs, co, s, rows))
         /\ \A co, s, id, patch : SetsDocs(c, MC!UpdateScores(c, co, s, id, patch),
              PatchedAt(c.docs, co, s, id, patch))
         /\ \A co, cond : SetsDocs(c, MC!DeleteScores(c, co, cond),
              IF IsValid(cond) THEN Without(c.docs, Condemned(c.docs, co, cond)) ELSE c.docs)
         /\ \A new : SetsPoints(c, MC!AddTimeSeriesPoints(c, new), Over(new, c.points))
<1>1. ASSUME NEW rows PROVE SetsValues(c, MC!Set(c, rows), Over(LastRows(rows), c.values))
  <2> DEFINE t == Over(LastRows(rows), c.values)
  <2>1. MC!Set(c, rows) = [c EXCEPT !.values = t]
    BY DEF MC!Set, MC!Over, MC!LastRows, MC!KeysOf, Over, LastRows, KeysOf
  <2> HIDE DEF t
  <2>2. SetsValues(c, [c EXCEPT !.values = t], t)
    BY OneTable
  <2> QED
    BY <2>1, <2>2 DEF t
<1>2. ASSUME NEW name PROVE SetsValues(c, MC!Delete(c, name), Without(c.values, {name}))
  <2> DEFINE t == Without(c.values, {name})
  <2>1. MC!Delete(c, name) = [c EXCEPT !.values = t]
    BY DEF MC!Delete, MC!Without, Without
  <2> HIDE DEF t
  <2>2. SetsValues(c, [c EXCEPT !.values = t], t)
    BY OneTable
  <2> QED
    BY <2>1, <2>2 DEF t
<1>3. ASSUME NEW name, NEW m
      PROVE  SetsSets(c, MC!AddSet(c, name, m),
               Holding(c.sets, name, InSet(c.sets, name) \cup m))
  <2> DEFINE t == Holding(c.sets, name, InSet(c.sets, name) \cup m)
  <2>1. MC!AddSet(c, name, m) = [c EXCEPT !.sets = t]
    BY DEF MC!AddSet, MC!GetSet, InSet, MC!WithMembers, MC!Over, MC!Without, Holding, Over, Without
  <2> HIDE DEF t
  <2>2. SetsSets(c, [c EXCEPT !.sets = t], t)
    BY OneTable
  <2> QED
    BY <2>1, <2>2 DEF t
<1>4. ASSUME NEW name, NEW m
      PROVE  SetsSets(c, MC!RemSet(c, name, m),
               Holding(c.sets, name, InSet(c.sets, name) \ m))
  <2> DEFINE t == Holding(c.sets, name, InSet(c.sets, name) \ m)
  <2>1. MC!RemSet(c, name, m) = [c EXCEPT !.sets = t]
    BY DEF MC!RemSet, MC!GetSet, InSet, MC!WithMembers, MC!Over, MC!Without, Holding, Over, Without
  <2> HIDE DEF t
  <2>2. SetsSets(c, [c EXCEPT !.sets = t], t)
    BY OneTable
  <2> QED
    BY <2>1, <2>2 DEF t
<1>5. ASSUME NEW name, NEW m PROVE SetsSets(c, MC!SetSet(c, name, m), Holding(c.sets, name, m))
  <2> DEFINE t == Holding(c.sets, name, m)
  <2>1. MC!SetSet(c, name, m) = [c EXCEPT !.sets = t]
    BY DEF MC!SetSet, MC!WithMembers, MC!Over, MC!Without, Holding, Over, Without
  <2> HIDE DEF t
  <2>2. SetsSets(c, [c EXCEPT !.sets = t], t)
    BY OneTable
  <2> QED
    BY <2>1, <2>2 DEF t
<1>6. ASSUME NEW name, NEW x PROVE SetsQueues(c, MC!Push(c, name, x), Pushed(c.queues, name, x))
  <2> DEFINE t == Pushed(c.queues, name, x)
  <2>1. MC!Push(c, name, x) = [c EXCEPT !.queues = t]
    BY DEF MC!Push, MC!Unqueued, Pushed, Unqueued
  <2> HIDE DEF t
  <2>2. SetsQueues(c, [c EXCEPT !.queues = t], t)
    BY OneTable
  <2> QED
    BY <2>1, <2>2 DEF t
<1>7. ASSUME NEW co, NEW s, NEW rows PROVE SetsDocs(c, MC!AddScores(c, co, s, rows), Written(c.docs, co, s, rows))
  <2> DEFINE t == Written(c.docs, co, s, rows)
  <2>1. MC!AddScores(c, co, s, rows) = [c EXCEPT !.docs = t]
    BY DEF MC!AddScores, MC!Over, Over, Written, KeysIn
  <2> HIDE DEF t
  <2>2. SetsDocs(c, [c EXCEPT !.docs = t], t)
    BY OneTable
  <2> QED
    BY <2>1, <2>2 DEF t
<1>8. ASSUME NEW co, NEW s, NEW id, NEW patch
      PROVE  SetsDocs(c, MC!UpdateScores(c, co, s, id, patch),
               PatchedAt(c.docs, co, s, id, patch))
  <2> DEFINE t == PatchedAt(c.docs, co, s, id, patch)
  <2>1. MC!UpdateScores(c, co, s, id, patch) = [c EXCEPT !.docs = t]
    BY DEF MC!UpdateScores, MC!Over, Over, PatchedAt, Meant
  <2> HIDE DEF t
  <2>2. SetsDocs(c, [c EXCEPT !.docs = t], t)
    BY OneTable
  <2> QED
    BY <2>1, <2>2 DEF t
<1>9. ASSUME NEW co, NEW cond
      PROVE  SetsDocs(c, MC!DeleteScores(c, co, cond),
               IF IsValid(cond) THEN Without(c.docs, Condemned(c.docs, co, cond)) ELSE c.docs)
  <2> DEFINE t == IF IsValid(cond) THEN Without(c.docs, Condemned(c.docs, co, cond)) ELSE c.docs
  <2>1. MC!DeleteScores(c, co, cond) = [c EXCEPT !.docs = t]
    <3>1. CASE IsValid(cond)
      BY <3>1 DEF MC!DeleteScores, MC!Valid, MC!Without, Without, Condemned, IsValid
    <3>2. CASE ~IsValid(cond)
      <4>1. MC!DeleteScores(c, co, cond) = c
        BY <3>2 DEF MC!DeleteScores, MC!Valid, MC!Without, Without, Condemned, IsValid
      <4> QED
        BY <3>2, <4>1 DEF IsCache
    <3> QED
      BY <3>1, <3>2
  <2> HIDE DEF t
  <2>2. SetsDocs(c, [c EXCEPT !.docs = t], t)
    BY OneTable
  <2> QED
    BY <2>1, <2>2 DEF t
<1>10. ASSUME NEW new PROVE SetsPoints(c, MC!AddTimeSeriesPoints(c, new), Over(new, c.points))
  <2> DEFINE t == Over(new, c.points)
  <2>1. MC!AddTimeSeriesPoints(c, new) = [c EXCEPT !.points = t]
    BY DEF MC!AddTimeSeriesPoints, MC!Over, Over
  <2> HIDE DEF t
  <2>2. SetsPoints(c, [c EXCEPT !.points = t], t)
    BY OneTable
  <2> QED
    BY <2>1, <2>2 DEF t
<1> QED
  BY <1>1, <1>2, <1>3, <1>4, <1>5, <1>6, <1>7, <1>8, <1>9, <1>10

LEMMA RedisCacheDoes ==
  ASSUME NEW c, IsCache(c)
  PROVE  /\ \A rows : SetsValues(c, RC!Set(c, rows), Over(LastRows(rows), c.values))
         /\ \A name, m : SetsSets(c, RC!AddSet(c, name, m), Holding(c.sets, name, InSet(c.sets, name) \cup m))
         /\ \A name, m : SetsSets(c, RC!RemSet(c, name, m), Holding(c.sets, name, InSet(c.sets, name) \ m))
         /\ \A name, x : SetsQueues(c, RC!Push(c, name, x), Pushed(c.queues, name, x))
         /\ \A co, s, rows : SetsDocs(c, RC!AddScores(c, co, s, rows), Written(c.docs, co, s, rows))
         /\ \A co, s, id, patch : id # Nil /\ s # AnySubset =>
              SetsDocs(c, RC!UpdateScores(c, co, s, id, patch), PatchedAt(c.docs, co, s, id, patch))
         /\ \A co, cond : cond.subset # AnySubset => SetsDocs(c, RC!DeleteScores(c, co, cond),
              IF IsValid(cond) THEN Without(c.docs, Condemned(c.docs, co, cond)) ELSE c.docs)
         /\ \A new : SetsPoints(c, RC!AddTimeSeriesPoints(c, new), Over(new, c.points))
<1>1. ASSUME NEW rows PROVE SetsValues(c, RC!Set(c, rows), Over(LastRows(rows), c.values))
  <2> DEFINE t == Over(LastRows(rows), c.values)
  <2>1. RC!Set(c, rows) = [c EXCEPT !.values = t]
    BY DEF RC!Set, RC!Over, RC!LastRows, RC!KeysOf, Over, LastRows, KeysOf
  <2> HIDE DEF t
  <2>2. SetsValues(c, [c EXCEPT !.values = t], t)
    BY OneTable
  <2> QED
    BY <2>1, <2>2 DEF t
<1>2. ASSUME NEW name, NEW m
      PROVE  SetsSets(c, RC!AddSet(c, name, m),
               Holding(c.sets, name, InSet(c.sets, name) \cup m))
  <2> DEFINE t == Holding(c.sets, name, InSet(c.sets, name) \cup m)
  <2>1. RC!AddSet(c, name, m) = [c EXCEPT !.sets = t]
    BY DEF RC!AddSet, RC!GetSet, InSet, RC!WithMembers, RC!Over, RC!Without, Holding, Over, Without
  <2> HIDE DEF t
  <2>2. SetsSets(c, [c EXCEPT !.sets = t], t)
    BY OneTable
  <2> QED
    BY <2>1, <2>2 DEF t
<1>3. ASSUME NEW name, NEW m
      PROVE  SetsSets(c, RC!RemSet(c, name, m),
               Holding(c.sets, name, InSet(c.sets, name) \ m))
  <2> DEFINE t == Holding(c.sets, name, InSet(c.sets, name) \ m)
  <2>1. RC!RemSet(c, name, m) = [c EXCEPT !.sets = t]
    BY DEF RC!RemSet, RC!GetSet, InSet, RC!WithMembers, RC!Over, RC!Without, Holding, Over, Without
  <2> HIDE DEF t
  <2>2. SetsSets(c, [c EXCEPT !.sets = t], t)
    BY OneTable
  <2> QED
    BY <2>1, <2>2 DEF t
<1>4. ASSUME NEW name, NEW x PROVE SetsQueues(c, RC!Push(c, name, x), Pushed(c.queues, name, x))
  <2> DEFINE t == Pushed(c.queues, name, x)
  <2>1. RC!Push(c, name, x) = [c EXCEPT !.queues = t]
    BY DEF RC!Push, RC!Unqueued, Pushed, Unqueued
  <2> HIDE DEF t
  <2>2. SetsQueues(c, [c EXCEPT !.queues = t], t)
    BY OneTable
  <2> QED
    BY <2>1, <2>2 DEF t
<1>5. ASSUME NEW co, NEW s, NEW rows PROVE SetsDocs(c, RC!AddScores(c, co, s, rows), Written(c.docs, co, s, rows))
  <2> DEFINE t == Written(c.docs, co, s, rows)
  <2>1. RC!AddScores(c, co, s, rows) = [c EXCEPT !.docs = t]
    BY DEF RC!AddScores, RC!documentKey, RC!Over, Over, Written, KeysIn
  <2> HIDE DEF t
  <2>2. SetsDocs(c, [c EXCEPT !.docs = t], t)
    BY OneTable
  <2> QED
    BY <2>1, <2>2 DEF t
<1>6. ASSUME NEW co, NEW s, NEW id, NEW patch, id # Nil, s # AnySubset
      PROVE  SetsDocs(c, RC!UpdateScores(c, co, s, id, patch),
               PatchedAt(c.docs, co, s, id, patch))
  <2> DEFINE t == PatchedAt(c.docs, co, s, id, patch)
  <2>1. RC!UpdateScores(c, co, s, id, patch) = [c EXCEPT !.docs = t]
    BY <1>6 DEF RC!UpdateScores, RC!Query, RC!Over, Over, PatchedAt, Meant
  <2> HIDE DEF t
  <2>2. SetsDocs(c, [c EXCEPT !.docs = t], t)
    BY OneTable
  <2> QED
    BY <2>1, <2>2 DEF t
<1>7. ASSUME NEW co, NEW cond, cond.subset # AnySubset
      PROVE  SetsDocs(c, RC!DeleteScores(c, co, cond),
               IF IsValid(cond) THEN Without(c.docs, Condemned(c.docs, co, cond)) ELSE c.docs)
  <2> DEFINE t == IF IsValid(cond) THEN Without(c.docs, Condemned(c.docs, co, cond)) ELSE c.docs
  <2>1. RC!DeleteScores(c, co, cond) = [c EXCEPT !.docs = t]
    <3>1. CASE IsValid(cond)
      BY <1>7, <3>1 DEF RC!DeleteScores, RC!Query, RC!Without, Without, Condemned, IsValid
    <3>2. CASE ~IsValid(cond)
      <4>1. RC!DeleteScores(c, co, cond) = c
        BY <1>7, <3>2 DEF RC!DeleteScores, RC!Query, RC!Without, Without, Condemned, IsValid
      <4> QED
        BY <3>2, <4>1 DEF IsCache
    <3> QED
      BY <3>1, <3>2
  <2> HIDE DEF t
  <2>2. SetsDocs(c, [c EXCEPT !.docs = t], t)
    BY OneTable
  <2> QED
    BY <2>1, <2>2 DEF t
<1>8. ASSUME NEW new PROVE SetsPoints(c, RC!AddTimeSeriesPoints(c, new), Over(new, c.points))
  <2> DEFINE t == Over(new, c.points)
  <2>1. RC!AddTimeSeriesPoints(c, new) = [c EXCEPT !.points = t]
    BY DEF RC!AddTimeSeriesPoints, RC!Over, Over
  <2> HIDE DEF t
  <2>2. SetsPoints(c, [c EXCEPT !.points = t], t)
    BY OneTable
  <2> QED
    BY <2>1, <2>2 DEF t
<1> QED
  BY <1>1, <1>2, <1>3, <1>4, <1>5, <1>6, <1>7, <1>8

\* What is popped, and what a purge leaves.
Pops(c, answer, name) ==
  IF c.queues[name] = <<>> THEN answer.value = NotFound /\ answer.db = c
  ELSE answer.value = Head(c.queues[name]) /\ SetsQueues(c, answer.db, Shifted(c.queues, name))
Clears(c, e, queues, points) ==
  /\ IsCache(e) /\ e.values = EmptyTable /\ e.sets = EmptyTable /\ e.docs = EmptyTable
  /\ e.queues = queues /\ e.points = points

LEMMA SQLCacheDoesOthers ==
  ASSUME NEW c, IsCache(c)
  PROVE  /\ \A name, m : SetsSets(c, SC!SetSet(c, name, m), Holding(c.sets, name, m))
         /\ \A name : IsQueue(c.queues[name]) => Pops(c, SC!Pop(c, name), name)
         /\ Clears(c, SC!Purge(c), Emptied(c.queues), c.points)
<1>1. ASSUME NEW name, NEW m PROVE SetsSets(c, SC!SetSet(c, name, m), Holding(c.sets, name, m))
  <2> DEFINE u == Without(c.sets, {name})
             d == SC!ClearSet(c, name)
             t == Holding(u, name, InSet(u, name) \cup m)
  <2>1. SetsSets(c, d, u)
    <3>1. d = [c EXCEPT !.sets = u]
      BY DEF SC!ClearSet, SC!Without, Without
    <3> HIDE DEF u
    <3> QED
      BY <3>1, OneTable
  <2>2. SetsSets(d, SC!AddSet(d, name, m), Holding(d.sets, name, InSet(d.sets, name) \cup m))
    <3> HIDE DEF d
    <3>1. IsCache(d)
      BY <2>1 DEF SetsSets
    <3> QED
      BY <3>1, SQLCacheDoes
  <2>3. SC!SetSet(c, name, m) = SC!AddSet(d, name, m)
    BY DEF SC!SetSet
  <2>4. t = Holding(c.sets, name, m)
    <3>1. InSet(u, name) \cup m = m
      BY DEF InSet, Without
    <3>2. Holding(u, name, m) = Holding(c.sets, name, m)
      BY DEF Holding, Without, Over
    <3> QED
      BY <3>1, <3>2
  <2>5. d.sets = u
    BY <2>1 DEF SetsSets
  <2> HIDE DEF u, d
  <2> QED
    BY <2>1, <2>2, <2>3, <2>4, <2>5 DEF SetsSets
<1>2. ASSUME NEW name, IsQueue(c.queues[name]) PROVE Pops(c, SC!Pop(c, name), name)
  <2> DEFINE q == c.queues[name]
             x == Head(q)
  <2>1. Len(q) = 0 <=> q = <<>>
    BY <1>2, QueuesMove
  <2>2. CASE q = <<>>
    <3>1. SC!Oldest(c, name) = NotFound
      BY <2>1, <2>2 DEF SC!Oldest, SC!Remain
    <3> QED
      BY <2>2, <3>1 DEF Pops, SC!Pop
  <2>3. CASE q # <<>>
    <3> DEFINE t == Shifted(c.queues, name)
    <3>1. x \in Messages /\ Unqueued(q, x) = Tail(q)
      BY <1>2, <2>3, QueuesMove
    <3>2. SC!Oldest(c, name) = x /\ x # NotFound
      BY <2>1, <2>3, <3>1, CallsAssumption DEF SC!Oldest, SC!Remain
    <3>3. SC!Pop(c, name).value = x /\ SC!Pop(c, name).db = SC!DeleteMessage(c, name, x)
      <4> HIDE DEF x
      <4> QED
        BY <3>2 DEF SC!Pop
    <3>4. SC!DeleteMessage(c, name, x) = [c EXCEPT !.queues = t]
      <4>1. SC!DeleteMessage(c, name, x) = [c EXCEPT !.queues = [c.queues EXCEPT ![name] = Unqueued(q, x)]]
        <5> HIDE DEF x
        <5> QED
          BY DEF SC!DeleteMessage, SC!Unqueued, Unqueued
      <4> QED
        BY <3>1, <4>1 DEF Shifted
    <3> HIDE DEF t
    <3>5. SetsQueues(c, SC!Pop(c, name).db, t)
      <4>1. SC!Pop(c, name).db = [c EXCEPT !.queues = t]
        BY <3>3, <3>4
      <4>2. SetsQueues(c, [c EXCEPT !.queues = t], t)
        BY OneTable
      <4> QED
        BY <4>1, <4>2
    <3> QED
      BY <2>3, <3>3, <3>5 DEF Pops, t
  <2> QED
    BY <2>2, <2>3
<1>3. Clears(c, SC!Purge(c), Emptied(c.queues), c.points)
  <2> DEFINE none == EmptyTable
             d == [c EXCEPT !.values = none]
             e == [d EXCEPT !.sets = none]
             u == Emptied(c.queues)
             f == [e EXCEPT !.queues = u]
             g == [f EXCEPT !.docs = none]
  <2>1. SC!Purge(c) = g
    BY DEF SC!Purge, SC!EmptyTable, EmptyTable, Emptied
  <2> HIDE DEF none, u
  <2>2. SetsValues(c, d, none)
    BY OneTable
  <2> HIDE DEF d
  <2>3. IsCache(d)
    BY <2>2 DEF SetsValues
  <2>4. SetsSets(d, e, none)
    BY <2>3, OneTable
  <2> HIDE DEF e
  <2>5. IsCache(e)
    BY <2>4 DEF SetsSets
  <2>6. SetsQueues(e, f, u)
    BY <2>5, OneTable
  <2> HIDE DEF f
  <2>7. IsCache(f)
    BY <2>6 DEF SetsQueues
  <2>8. SetsDocs(f, g, none)
    BY <2>7, OneTable
  <2> HIDE DEF g
  <2> QED
    BY <2>1, <2>2, <2>4, <2>6, <2>8 DEF Clears, SetsValues, SetsSets, SetsQueues, SetsDocs, none, u
<1> QED
  BY <1>1, <1>2, <1>3

LEMMA MongoCacheDoesOthers ==
  ASSUME NEW c, IsCache(c)
  PROVE  /\ \A name : IsQueue(c.queues[name]) => Pops(c, MC!Pop(c, name), name)
         /\ Clears(c, MC!Purge(c), c.queues, c.points)
<1>1. ASSUME NEW name, IsQueue(c.queues[name]) PROVE Pops(c, MC!Pop(c, name), name)
  <2> DEFINE q == c.queues[name]
  <2>1. Len(q) = 0 <=> q = <<>>
    BY <1>1, QueuesMove
  <2>2. CASE q = <<>>
    BY <2>1, <2>2 DEF Pops, MC!Pop, MC!Remain
  <2>3. CASE q # <<>>
    <3> DEFINE t == Shifted(c.queues, name)
    <3>1. MC!Pop(c, name).value = Head(q) /\ MC!Pop(c, name).db = [c EXCEPT !.queues = t]
      BY <2>1, <2>3 DEF MC!Pop, MC!Remain, Shifted
    <3> HIDE DEF t
    <3>2. SetsQueues(c, MC!Pop(c, name).db, t)
      BY <3>1, OneTable
    <3> QED
      BY <2>3, <3>1, <3>2 DEF Pops, t
  <2> QED
    BY <2>2, <2>3
<1>2. Clears(c, MC!Purge(c), c.queues, c.points)
  <2> DEFINE none == EmptyTable
             d == [c EXCEPT !.values = none]
             e == [d EXCEPT !.sets = none]
             f == e
             g == [f EXCEPT !.docs = none]
  <2>1. MC!Purge(c) = g
    BY DEF MC!Purge, MC!EmptyTable, EmptyTable
  <2> HIDE DEF none
  <2>2. SetsValues(c, d, none)
    BY OneTable
  <2> HIDE DEF d
  <2>3. IsCache(d)
    BY <2>2 DEF SetsValues
  <2>4. SetsSets(d, e, none)
    BY <2>3, OneTable
  <2> HIDE DEF e
  <2>5. IsCache(e)
    BY <2>4 DEF SetsSets
  <2>6. SetsDocs(e, g, none)
    BY <2>5, OneTable
  <2> HIDE DEF g
  <2> QED
    BY <2>1, <2>2, <2>4, <2>6 DEF Clears, SetsValues, SetsSets, SetsDocs, none
<1> QED
  BY <1>1, <1>2

LEMMA RedisCacheDoesOthers ==
  ASSUME NEW c, IsCache(c)
  PROVE  /\ \A name : IsQueue(c.queues[name]) => Pops(c, RC!Pop(c, name), name)
         /\ Clears(c, RC!Purge(c), Emptied(c.queues), EmptyTable)
         /\ \A name : IsRecord(c.sets) /\ name \notin DOMAIN c.sets =>
              SetsValues(c, RC!Delete(c, name), Without(c.values, {name}))
         /\ \A name, m : IF m = {} THEN RC!SetSet(c, name, m) = c
                         ELSE SetsSets(c, RC!SetSet(c, name, m), Holding(c.sets, name, m))
<1>1. ASSUME NEW name, IsQueue(c.queues[name]) PROVE Pops(c, RC!Pop(c, name), name)
  <2> DEFINE q == c.queues[name]
  <2>1. Len(q) = 0 <=> q = <<>>
    BY <1>1, QueuesMove
  <2>2. CASE q = <<>>
    BY <2>1, <2>2 DEF Pops, RC!Pop, RC!Remain
  <2>3. CASE q # <<>>
    <3> DEFINE t == Shifted(c.queues, name)
    <3>1. RC!Pop(c, name).value = Head(q) /\ RC!Pop(c, name).db = [c EXCEPT !.queues = t]
      BY <2>1, <2>3 DEF RC!Pop, RC!Remain, Shifted
    <3> HIDE DEF t
    <3>2. SetsQueues(c, RC!Pop(c, name).db, t)
      BY <3>1, OneTable
    <3> QED
      BY <2>3, <3>1, <3>2 DEF Pops, t
  <2> QED
    BY <2>2, <2>3
<1>2. Clears(c, RC!Purge(c), Emptied(c.queues), EmptyTable)
  BY DEF Clears, RC!Purge, RC!EmptyTable, EmptyTable, Emptied, IsCache
<1>3. ASSUME NEW name, IsRecord(c.sets), name \notin DOMAIN c.sets
      PROVE  SetsValues(c, RC!Delete(c, name), Without(c.values, {name}))
  <2> DEFINE v == Without(c.values, {name})
             s == Without(c.sets, {name})
             d == [c EXCEPT !.values = v]
  <2>1. RC!Delete(c, name) = [d EXCEPT !.sets = s]
    BY DEF RC!Delete, RC!Without, Without
  <2>2. s = c.sets
    BY <1>3 DEF Without, IsRecord
  <2> HIDE DEF v, s
  <2>3. SetsValues(c, d, v)
    BY OneTable
  <2> HIDE DEF d
  <2>4. IsCache(d)
    BY <2>3 DEF SetsValues
  <2>5. SetsSets(d, [d EXCEPT !.sets = s], s)
    BY <2>4, OneTable
  <2> QED
    BY <2>1, <2>2, <2>3, <2>5 DEF SetsValues, SetsSets, v
<1>4. ASSUME NEW name, NEW m
      PROVE  IF m = {} THEN RC!SetSet(c, name, m) = c
             ELSE SetsSets(c, RC!SetSet(c, name, m), Holding(c.sets, name, m))
  <2> DEFINE t == Holding(c.sets, name, m)
  <2>1. IF m = {} THEN RC!SetSet(c, name, m) = c ELSE RC!SetSet(c, name, m) = [c EXCEPT !.sets = t]
    BY DEF RC!SetSet, RC!WithMembers, RC!Over, RC!Without, Holding, Over, Without
  <2> HIDE DEF t
  <2>2. SetsSets(c, [c EXCEPT !.sets = t], t)
    BY OneTable
  <2> QED
    BY <2>1, <2>2 DEF t
<1> QED
  BY <1>1, <1>2, <1>3, <1>4

----------------------------------------------------------------------------
(* What the caches promise, and the types of their tables *)

DocsOK(t) == IsRecord(t) /\ IsFiniteSet(DOMAIN t) /\ \A k \in DOMAIN t : IsDocument(t[k])
PointsOK(t) ==
  /\ IsRecord(t) /\ IsFiniteSet(DOMAIN t)
  /\ \A p \in DOMAIN t : p = [name |-> p.name, time |-> p.time] /\ p.time \in Nat
QueuesOK(t) == t = [name \in QueueNames |-> t[name]] /\ \A name \in QueueNames : IsQueue(t[name])
CacheOK(c) ==
  /\ IsCache(c)
  /\ IsRecord(c.values) /\ \A n \in DOMAIN c.values : c.values[n] # Nil
  /\ IsRecord(c.sets) /\ DOMAIN c.sets \subseteq SetNames
  /\ QueuesOK(c.queues) /\ DocsOK(c.docs) /\ PointsOK(c.points)

\* What CacheStore promises, from c to e.
PromisesValues(c, e) == \E rows \in ValueBatches :
  \/ \E new \in ChosenRows(rows) : SetsValues(c, e, Over(new, c.values))
  \/ \E name \in KeysOf(rows) : SetsValues(c, e, Without(c.values, {name}))
PromisesSets(c, e) == \E name \in SetNames, m \in SUBSET Members :
  \/ SetsSets(c, e, Holding(c.sets, name, m))
  \/ SetsSets(c, e, Holding(c.sets, name, InSet(c.sets, name) \cup m))
  \/ SetsSets(c, e, Holding(c.sets, name, InSet(c.sets, name) \ m))
PromisesQueues(c, e) == \E name \in QueueNames :
  \/ c.queues[name] # <<>> /\ SetsQueues(c, e, Shifted(c.queues, name))
  \/ \E x \in Messages : SetsQueues(c, e, Pushed(c.queues, name, x))
PromisesDocs(c, e) ==
  \/ \E d \in DocumentSets :
       \/ SetsDocs(c, e, Written(c.docs, d.collection, d.subset, d.rows))
       \/ SetsDocs(c, e, WrittenAsHidden(c.docs, d.collection, d.subset, d.rows))
  \/ \E u \in Patches : SetsDocs(c, e, PatchedAt(c.docs, u.collections, u.subset, u.id, u.patch))
  \/ \E a \in Conditions : SetsDocs(c, e, Without(c.docs, Condemned(c.docs, a.collections, a)))
PromisesPoints(c, e) == \E new \in PointSets : SetsPoints(c, e, Over(new, c.points))
PromisesPurge(c, e) == \E queues \in {c.queues, Emptied(c.queues)}, points \in {c.points, EmptyTable} :
  Clears(c, e, queues, points)
CachePromised(c, e) ==
  \/ PromisesValues(c, e) \/ PromisesSets(c, e) \/ PromisesQueues(c, e)
  \/ PromisesDocs(c, e) \/ PromisesPoints(c, e) \/ PromisesPurge(c, e)

LEMMA SQLCachePromise ==
  ASSUME CacheOK(sqlCache), CachePromised(sqlCache, sqlCache')
  PROVE  SQLSpec!Next
<1>1. ASSUME PromisesValues(sqlCache, sqlCache') PROVE SQLSpec!Next
  <2>1. PICK rows \in ValueBatches :
          \/ \E new \in ChosenRows(rows) : SetsValues(sqlCache, sqlCache', Over(new, sqlCache.values))
          \/ \E name \in KeysOf(rows) : SetsValues(sqlCache, sqlCache', Without(sqlCache.values, {name}))
    BY <1>1 DEF PromisesValues
  <2>2. ASSUME NEW new \in ChosenRows(rows), SetsValues(sqlCache, sqlCache', Over(new, sqlCache.values))
        PROVE  SQLSpec!Set(rows)
    BY <2>2 DEF SetsValues, SQLSpec!Set, SQLSpec!ChosenRows, SQLSpec!KeysOf, SQLSpec!Over, ChosenRows, KeysOf, Over
  <2>3. ASSUME NEW name \in KeysOf(rows), SetsValues(sqlCache, sqlCache', Without(sqlCache.values, {name}))
        PROVE  name \in SQLSpec!KeysOf(rows) /\ SQLSpec!Delete(name)
    BY <2>3 DEF SetsValues, SQLSpec!Delete, SQLSpec!KeysOf, SQLSpec!Without, KeysOf, Without
  <2> QED
    BY <2>1, <2>2, <2>3, Zenon DEF SQLSpec!Next
<1>2. ASSUME PromisesSets(sqlCache, sqlCache') PROVE SQLSpec!Next
  <2>1. PICK name \in SetNames, m \in SUBSET Members :
          \/ SetsSets(sqlCache, sqlCache', Holding(sqlCache.sets, name, m))
          \/ SetsSets(sqlCache, sqlCache', Holding(sqlCache.sets, name, InSet(sqlCache.sets, name) \cup m))
          \/ SetsSets(sqlCache, sqlCache', Holding(sqlCache.sets, name, InSet(sqlCache.sets, name) \ m))
    BY <1>2 DEF PromisesSets
  <2>2. \A h : SQLSpec!WithSet(name, h) = Holding(sqlCache.sets, name, h)
    BY DEF SQLSpec!WithSet, SQLSpec!Without, SQLSpec!Over, Holding, Without, Over
  <2>3. SQLSpec!MembersOf(name) = InSet(sqlCache.sets, name)
    BY DEF SQLSpec!MembersOf, InSet
  <2>4. \/ SQLSpec!SetSet(name, m) \/ SQLSpec!AddSet(name, m) \/ SQLSpec!RemSet(name, m)
    BY <2>1, <2>2, <2>3 DEF SetsSets, SQLSpec!SetSet, SQLSpec!AddSet, SQLSpec!RemSet
  <2> QED
    BY <2>4, Zenon DEF SQLSpec!Next
<1>3. ASSUME PromisesQueues(sqlCache, sqlCache') PROVE SQLSpec!Next
  <2>1. PICK name \in QueueNames :
          \/ sqlCache.queues[name] # <<>> /\ SetsQueues(sqlCache, sqlCache', Shifted(sqlCache.queues, name))
          \/ \E x \in Messages : SetsQueues(sqlCache, sqlCache', Pushed(sqlCache.queues, name, x))
    BY <1>3 DEF PromisesQueues
  <2>2. CASE sqlCache.queues[name] # <<>> /\ SetsQueues(sqlCache, sqlCache', Shifted(sqlCache.queues, name))
    <3>1. SQLSpec!Pop(name)
      BY <2>2 DEF SetsQueues, Shifted, SQLSpec!Pop
    <3> QED
      BY <3>1, Zenon DEF SQLSpec!Next
  <2>3. ASSUME NEW x \in Messages, SetsQueues(sqlCache, sqlCache', Pushed(sqlCache.queues, name, x))
        PROVE  SQLSpec!Push(name, x)
    BY <2>3 DEF SetsQueues, Pushed, SQLSpec!Push, SQLSpec!Unqueued, Unqueued
  <2> QED
    BY <2>1, <2>2, <2>3, Zenon DEF SQLSpec!Next
<1>4. ASSUME PromisesDocs(sqlCache, sqlCache') PROVE SQLSpec!Next
  <2> DEFINE D == sqlCache.docs
             E == sqlCache'.docs
             rest == /\ sqlCache'.values = sqlCache.values /\ sqlCache'.sets = sqlCache.sets
                     /\ sqlCache'.queues = sqlCache.queues /\ sqlCache'.points = sqlCache.points
  <2>1. ASSUME NEW d \in DocumentSets,
               \/ SetsDocs(sqlCache, sqlCache', Written(D, d.collection, d.subset, d.rows))
               \/ SetsDocs(sqlCache, sqlCache', WrittenAsHidden(D, d.collection, d.subset, d.rows))
        PROVE  SQLSpec!Next
    <3> DEFINE K == KeysIn(d.collection, d.subset, d.rows)
               new == [k \in K |-> d.rows[k.id]]
               kept == [k \in K |-> AsHidden(D, k, d.rows[k.id])]
    <3>1. rest /\ (E = Over(new, D) \/ E = Over(kept, D))
      BY <2>1 DEF SetsDocs, Written, WrittenAsHidden
    <3>2. SQLSpec!Keyed(d) = new /\ DOMAIN new = K /\ DOMAIN kept = K
      BY DEF SQLSpec!Keyed, KeysIn
    <3>3. \A k \in K : /\ new[k] = d.rows[k.id]
                       /\ kept[k] = IF k \in DOMAIN D THEN [new[k] EXCEPT !.is_hidden = D[k].is_hidden] ELSE new[k]
      BY DEF AsHidden
    <3> HIDE DEF K, new, kept
    <3>4. /\ DOMAIN E = DOMAIN D \cup K
          /\ \A k \in DOMAIN D \ K : E[k] = D[k]
          /\ (\A k \in K : E[k] = new[k]) \/ (\A k \in K : E[k] = kept[k])
      BY <3>1, <3>2 DEF Over
    <3>5. SQLSpec!AddScores(d)
      BY <3>1, <3>2, <3>3, <3>4 DEF SQLSpec!AddScores
    <3> QED
      BY <3>5, Zenon DEF SQLSpec!Next
  <2>2. ASSUME NEW u \in Patches, SetsDocs(sqlCache, sqlCache', PatchedAt(D, u.collections, u.subset, u.id, u.patch))
        PROVE  SQLSpec!Next
    <3>1. u.id # Nil
      BY CallsAssumption
    <3>2. SQLSpec!UpdateScores(u)
      BY <2>2, <3>1 DEF SetsDocs, PatchedAt, Meant, Over, SQLSpec!UpdateScores, SQLSpec!Matches, SQLSpec!Over
    <3> QED
      BY <3>2, Zenon DEF SQLSpec!Next
  <2>3. ASSUME NEW a \in Conditions, SetsDocs(sqlCache, sqlCache', Without(D, Condemned(D, a.collections, a)))
        PROVE  SQLSpec!Next
    <3>1. SQLSpec!DeleteScores(a)
      BY <2>3 DEF SetsDocs, Condemned, Without, SQLSpec!DeleteScores, SQLSpec!Matches, SQLSpec!Without
    <3> QED
      BY <3>1, Zenon DEF SQLSpec!Next
  <2> QED
    BY <1>4, <2>1, <2>2, <2>3 DEF PromisesDocs
<1>5. ASSUME PromisesPoints(sqlCache, sqlCache') PROVE SQLSpec!Next
  <2>1. PICK new \in PointSets : SetsPoints(sqlCache, sqlCache', Over(new, sqlCache.points))
    BY <1>5 DEF PromisesPoints
  <2>2. SQLSpec!AddTimeSeriesPoints(new)
    BY <2>1 DEF SetsPoints, SQLSpec!AddTimeSeriesPoints, SQLSpec!Over, Over
  <2> QED
    BY <2>2, Zenon DEF SQLSpec!Next
<1>6. ASSUME PromisesPurge(sqlCache, sqlCache') PROVE SQLSpec!Next
  <2> DEFINE none == [name \in QueueNames |-> <<>>]
  <2>1. Emptied(sqlCache.queues) = none
    BY DEF Emptied, CacheOK, QueuesOK
  <2>2. SQLSpec!EmptyTable = EmptyTable
    BY DEF SQLSpec!EmptyTable, EmptyTable
  <2> HIDE DEF none
  <2>3. /\ sqlCache'.values = EmptyTable /\ sqlCache'.sets = EmptyTable /\ sqlCache'.docs = EmptyTable
        /\ sqlCache'.queues \in {sqlCache.queues, none} /\ sqlCache'.points \in {sqlCache.points, EmptyTable}
    BY <1>6, <2>1 DEF PromisesPurge, Clears
  <2>4. SQLSpec!Purge
    BY <2>2, <2>3 DEF SQLSpec!Purge, none
  <2> QED
    BY <2>4, Zenon DEF SQLSpec!Next
<1> QED
  BY <1>1, <1>2, <1>3, <1>4, <1>5, <1>6 DEF CachePromised

LEMMA MongoCachePromise ==
  ASSUME CacheOK(mongoCache), CachePromised(mongoCache, mongoCache')
  PROVE  MongoSpec!Next
<1>1. ASSUME PromisesValues(mongoCache, mongoCache') PROVE MongoSpec!Next
  <2>1. PICK rows \in ValueBatches :
          \/ \E new \in ChosenRows(rows) : SetsValues(mongoCache, mongoCache', Over(new, mongoCache.values))
          \/ \E name \in KeysOf(rows) : SetsValues(mongoCache, mongoCache', Without(mongoCache.values, {name}))
    BY <1>1 DEF PromisesValues
  <2>2. ASSUME NEW new \in ChosenRows(rows), SetsValues(mongoCache, mongoCache', Over(new, mongoCache.values))
        PROVE  MongoSpec!Set(rows)
    BY <2>2 DEF SetsValues, MongoSpec!Set, MongoSpec!ChosenRows, MongoSpec!KeysOf, MongoSpec!Over,
       ChosenRows, KeysOf, Over
  <2>3. ASSUME NEW name \in KeysOf(rows), SetsValues(mongoCache, mongoCache', Without(mongoCache.values, {name}))
        PROVE  name \in MongoSpec!KeysOf(rows) /\ MongoSpec!Delete(name)
    BY <2>3 DEF SetsValues, MongoSpec!Delete, MongoSpec!KeysOf, MongoSpec!Without, KeysOf, Without
  <2> QED
    BY <2>1, <2>2, <2>3, Zenon DEF MongoSpec!Next
<1>2. ASSUME PromisesSets(mongoCache, mongoCache') PROVE MongoSpec!Next
  <2>1. PICK name \in SetNames, m \in SUBSET Members :
          \/ SetsSets(mongoCache, mongoCache', Holding(mongoCache.sets, name, m))
          \/ SetsSets(mongoCache, mongoCache', Holding(mongoCache.sets, name, InSet(mongoCache.sets, name) \cup m))
          \/ SetsSets(mongoCache, mongoCache', Holding(mongoCache.sets, name, InSet(mongoCache.sets, name) \ m))
    BY <1>2 DEF PromisesSets
  <2>2. \A h : MongoSpec!WithSet(name, h) = Holding(mongoCache.sets, name, h)
    BY DEF MongoSpec!WithSet, MongoSpec!Without, MongoSpec!Over, Holding, Without, Over
  <2>3. MongoSpec!MembersOf(name) = InSet(mongoCache.sets, name)
    BY DEF MongoSpec!MembersOf, InSet
  <2>4. \/ MongoSpec!SetSet(name, m) \/ MongoSpec!AddSet(name, m) \/ MongoSpec!RemSet(name, m)
    BY <2>1, <2>2, <2>3 DEF SetsSets, MongoSpec!SetSet, MongoSpec!AddSet, MongoSpec!RemSet
  <2> QED
    BY <2>4, Zenon DEF MongoSpec!Next
<1>3. ASSUME PromisesQueues(mongoCache, mongoCache') PROVE MongoSpec!Next
  <2>1. PICK name \in QueueNames :
          \/ mongoCache.queues[name] # <<>> /\ SetsQueues(mongoCache, mongoCache', Shifted(mongoCache.queues, name))
          \/ \E x \in Messages : SetsQueues(mongoCache, mongoCache', Pushed(mongoCache.queues, name, x))
    BY <1>3 DEF PromisesQueues
  <2>2. CASE mongoCache.queues[name] # <<>> /\ SetsQueues(mongoCache, mongoCache', Shifted(mongoCache.queues, name))
    <3>1. MongoSpec!Pop(name)
      BY <2>2 DEF SetsQueues, Shifted, MongoSpec!Pop
    <3> QED
      BY <3>1, Zenon DEF MongoSpec!Next
  <2>3. ASSUME NEW x \in Messages, SetsQueues(mongoCache, mongoCache', Pushed(mongoCache.queues, name, x))
        PROVE  MongoSpec!Push(name, x)
    BY <2>3 DEF SetsQueues, Pushed, MongoSpec!Push, MongoSpec!Unqueued, Unqueued
  <2> QED
    BY <2>1, <2>2, <2>3, Zenon DEF MongoSpec!Next
<1>4. ASSUME PromisesDocs(mongoCache, mongoCache') PROVE MongoSpec!Next
  <2> DEFINE D == mongoCache.docs
             E == mongoCache'.docs
             rest == /\ mongoCache'.values = mongoCache.values /\ mongoCache'.sets = mongoCache.sets
                     /\ mongoCache'.queues = mongoCache.queues /\ mongoCache'.points = mongoCache.points
  <2>1. ASSUME NEW d \in DocumentSets,
               \/ SetsDocs(mongoCache, mongoCache', Written(D, d.collection, d.subset, d.rows))
               \/ SetsDocs(mongoCache, mongoCache', WrittenAsHidden(D, d.collection, d.subset, d.rows))
        PROVE  MongoSpec!Next
    <3> DEFINE K == KeysIn(d.collection, d.subset, d.rows)
               new == [k \in K |-> d.rows[k.id]]
               kept == [k \in K |-> AsHidden(D, k, d.rows[k.id])]
    <3>1. rest /\ (E = Over(new, D) \/ E = Over(kept, D))
      BY <2>1 DEF SetsDocs, Written, WrittenAsHidden
    <3>2. MongoSpec!Keyed(d) = new /\ DOMAIN new = K /\ DOMAIN kept = K
      BY DEF MongoSpec!Keyed, KeysIn
    <3>3. \A k \in K : /\ new[k] = d.rows[k.id]
                       /\ kept[k] = IF k \in DOMAIN D THEN [new[k] EXCEPT !.is_hidden = D[k].is_hidden] ELSE new[k]
      BY DEF AsHidden
    <3> HIDE DEF K, new, kept
    <3>4. /\ DOMAIN E = DOMAIN D \cup K
          /\ \A k \in DOMAIN D \ K : E[k] = D[k]
          /\ (\A k \in K : E[k] = new[k]) \/ (\A k \in K : E[k] = kept[k])
      BY <3>1, <3>2 DEF Over
    <3>5. MongoSpec!AddScores(d)
      BY <3>1, <3>2, <3>3, <3>4 DEF MongoSpec!AddScores
    <3> QED
      BY <3>5, Zenon DEF MongoSpec!Next
  <2>2. ASSUME NEW u \in Patches, SetsDocs(mongoCache, mongoCache', PatchedAt(D, u.collections, u.subset, u.id, u.patch))
        PROVE  MongoSpec!Next
    <3>1. u.id # Nil
      BY CallsAssumption
    <3>2. MongoSpec!UpdateScores(u)
      BY <2>2, <3>1 DEF SetsDocs, PatchedAt, Meant, Over, MongoSpec!UpdateScores, MongoSpec!Matches, MongoSpec!Over
    <3> QED
      BY <3>2, Zenon DEF MongoSpec!Next
  <2>3. ASSUME NEW a \in Conditions, SetsDocs(mongoCache, mongoCache', Without(D, Condemned(D, a.collections, a)))
        PROVE  MongoSpec!Next
    <3>1. MongoSpec!DeleteScores(a)
      BY <2>3 DEF SetsDocs, Condemned, Without, MongoSpec!DeleteScores, MongoSpec!Matches, MongoSpec!Without
    <3> QED
      BY <3>1, Zenon DEF MongoSpec!Next
  <2> QED
    BY <1>4, <2>1, <2>2, <2>3 DEF PromisesDocs
<1>5. ASSUME PromisesPoints(mongoCache, mongoCache') PROVE MongoSpec!Next
  <2>1. PICK new \in PointSets : SetsPoints(mongoCache, mongoCache', Over(new, mongoCache.points))
    BY <1>5 DEF PromisesPoints
  <2>2. MongoSpec!AddTimeSeriesPoints(new)
    BY <2>1 DEF SetsPoints, MongoSpec!AddTimeSeriesPoints, MongoSpec!Over, Over
  <2> QED
    BY <2>2, Zenon DEF MongoSpec!Next
<1>6. ASSUME PromisesPurge(mongoCache, mongoCache') PROVE MongoSpec!Next
  <2> DEFINE none == [name \in QueueNames |-> <<>>]
  <2>1. Emptied(mongoCache.queues) = none
    BY DEF Emptied, CacheOK, QueuesOK
  <2>2. MongoSpec!EmptyTable = EmptyTable
    BY DEF MongoSpec!EmptyTable, EmptyTable
  <2> HIDE DEF none
  <2>3. /\ mongoCache'.values = EmptyTable /\ mongoCache'.sets = EmptyTable /\ mongoCache'.docs = EmptyTable
        /\ mongoCache'.queues \in {mongoCache.queues, none} /\ mongoCache'.points \in {mongoCache.points, EmptyTable}
    BY <1>6, <2>1 DEF PromisesPurge, Clears
  <2>4. MongoSpec!Purge
    BY <2>2, <2>3 DEF MongoSpec!Purge, none
  <2> QED
    BY <2>4, Zenon DEF MongoSpec!Next
<1> QED
  BY <1>1, <1>2, <1>3, <1>4, <1>5, <1>6 DEF CachePromised

LEMMA RedisCachePromise ==
  ASSUME CacheOK(redisCache), CachePromised(redisCache, redisCache')
  PROVE  RedisCacheSpec!Next
<1>1. ASSUME PromisesValues(redisCache, redisCache') PROVE RedisCacheSpec!Next
  <2>1. PICK rows \in ValueBatches :
          \/ \E new \in ChosenRows(rows) : SetsValues(redisCache, redisCache', Over(new, redisCache.values))
          \/ \E name \in KeysOf(rows) : SetsValues(redisCache, redisCache', Without(redisCache.values, {name}))
    BY <1>1 DEF PromisesValues
  <2>2. ASSUME NEW new \in ChosenRows(rows), SetsValues(redisCache, redisCache', Over(new, redisCache.values))
        PROVE  RedisCacheSpec!Set(rows)
    BY <2>2 DEF SetsValues, RedisCacheSpec!Set, RedisCacheSpec!ChosenRows, RedisCacheSpec!KeysOf,
       RedisCacheSpec!Over, ChosenRows, KeysOf, Over
  <2>3. ASSUME NEW name \in KeysOf(rows), SetsValues(redisCache, redisCache', Without(redisCache.values, {name}))
        PROVE  name \in RedisCacheSpec!KeysOf(rows) /\ RedisCacheSpec!Delete(name)
    BY <2>3 DEF SetsValues, RedisCacheSpec!Delete, RedisCacheSpec!KeysOf, RedisCacheSpec!Without, KeysOf, Without
  <2> QED
    BY <2>1, <2>2, <2>3, Zenon DEF RedisCacheSpec!Next
<1>2. ASSUME PromisesSets(redisCache, redisCache') PROVE RedisCacheSpec!Next
  <2>1. PICK name \in SetNames, m \in SUBSET Members :
          \/ SetsSets(redisCache, redisCache', Holding(redisCache.sets, name, m))
          \/ SetsSets(redisCache, redisCache', Holding(redisCache.sets, name, InSet(redisCache.sets, name) \cup m))
          \/ SetsSets(redisCache, redisCache', Holding(redisCache.sets, name, InSet(redisCache.sets, name) \ m))
    BY <1>2 DEF PromisesSets
  <2>2. \A h : RedisCacheSpec!WithSet(name, h) = Holding(redisCache.sets, name, h)
    BY DEF RedisCacheSpec!WithSet, RedisCacheSpec!Without, RedisCacheSpec!Over, Holding, Without, Over
  <2>3. RedisCacheSpec!MembersOf(name) = InSet(redisCache.sets, name)
    BY DEF RedisCacheSpec!MembersOf, InSet
  <2>4. \/ RedisCacheSpec!SetSet(name, m) \/ RedisCacheSpec!AddSet(name, m) \/ RedisCacheSpec!RemSet(name, m)
    BY <2>1, <2>2, <2>3 DEF SetsSets, RedisCacheSpec!SetSet, RedisCacheSpec!AddSet, RedisCacheSpec!RemSet
  <2> QED
    BY <2>4, Zenon DEF RedisCacheSpec!Next
<1>3. ASSUME PromisesQueues(redisCache, redisCache') PROVE RedisCacheSpec!Next
  <2>1. PICK name \in QueueNames :
          \/ redisCache.queues[name] # <<>> /\ SetsQueues(redisCache, redisCache', Shifted(redisCache.queues, name))
          \/ \E x \in Messages : SetsQueues(redisCache, redisCache', Pushed(redisCache.queues, name, x))
    BY <1>3 DEF PromisesQueues
  <2>2. CASE redisCache.queues[name] # <<>> /\ SetsQueues(redisCache, redisCache', Shifted(redisCache.queues, name))
    <3>1. RedisCacheSpec!Pop(name)
      BY <2>2 DEF SetsQueues, Shifted, RedisCacheSpec!Pop
    <3> QED
      BY <3>1, Zenon DEF RedisCacheSpec!Next
  <2>3. ASSUME NEW x \in Messages, SetsQueues(redisCache, redisCache', Pushed(redisCache.queues, name, x))
        PROVE  RedisCacheSpec!Push(name, x)
    BY <2>3 DEF SetsQueues, Pushed, RedisCacheSpec!Push, RedisCacheSpec!Unqueued, Unqueued
  <2> QED
    BY <2>1, <2>2, <2>3, Zenon DEF RedisCacheSpec!Next
<1>4. ASSUME PromisesDocs(redisCache, redisCache') PROVE RedisCacheSpec!Next
  <2> DEFINE D == redisCache.docs
             E == redisCache'.docs
             rest == /\ redisCache'.values = redisCache.values /\ redisCache'.sets = redisCache.sets
                     /\ redisCache'.queues = redisCache.queues /\ redisCache'.points = redisCache.points
  <2>1. ASSUME NEW d \in DocumentSets,
               \/ SetsDocs(redisCache, redisCache', Written(D, d.collection, d.subset, d.rows))
               \/ SetsDocs(redisCache, redisCache', WrittenAsHidden(D, d.collection, d.subset, d.rows))
        PROVE  RedisCacheSpec!Next
    <3> DEFINE K == KeysIn(d.collection, d.subset, d.rows)
               new == [k \in K |-> d.rows[k.id]]
               kept == [k \in K |-> AsHidden(D, k, d.rows[k.id])]
    <3>1. rest /\ (E = Over(new, D) \/ E = Over(kept, D))
      BY <2>1 DEF SetsDocs, Written, WrittenAsHidden
    <3>2. RedisCacheSpec!Keyed(d) = new /\ DOMAIN new = K /\ DOMAIN kept = K
      BY DEF RedisCacheSpec!Keyed, KeysIn
    <3>3. \A k \in K : /\ new[k] = d.rows[k.id]
                       /\ kept[k] = IF k \in DOMAIN D THEN [new[k] EXCEPT !.is_hidden = D[k].is_hidden] ELSE new[k]
      BY DEF AsHidden
    <3> HIDE DEF K, new, kept
    <3>4. /\ DOMAIN E = DOMAIN D \cup K
          /\ \A k \in DOMAIN D \ K : E[k] = D[k]
          /\ (\A k \in K : E[k] = new[k]) \/ (\A k \in K : E[k] = kept[k])
      BY <3>1, <3>2 DEF Over
    <3>5. RedisCacheSpec!AddScores(d)
      BY <3>1, <3>2, <3>3, <3>4 DEF RedisCacheSpec!AddScores
    <3> QED
      BY <3>5, Zenon DEF RedisCacheSpec!Next
  <2>2. ASSUME NEW u \in Patches, SetsDocs(redisCache, redisCache', PatchedAt(D, u.collections, u.subset, u.id, u.patch))
        PROVE  RedisCacheSpec!Next
    <3>1. u.id # Nil
      BY CallsAssumption
    <3>2. RedisCacheSpec!UpdateScores(u)
      BY <2>2, <3>1 DEF SetsDocs, PatchedAt, Meant, Over, RedisCacheSpec!UpdateScores,
         RedisCacheSpec!Matches, RedisCacheSpec!Over
    <3> QED
      BY <3>2, Zenon DEF RedisCacheSpec!Next
  <2>3. ASSUME NEW a \in Conditions, SetsDocs(redisCache, redisCache', Without(D, Condemned(D, a.collections, a)))
        PROVE  RedisCacheSpec!Next
    <3>1. RedisCacheSpec!DeleteScores(a)
      BY <2>3 DEF SetsDocs, Condemned, Without, RedisCacheSpec!DeleteScores, RedisCacheSpec!Matches,
         RedisCacheSpec!Without
    <3> QED
      BY <3>1, Zenon DEF RedisCacheSpec!Next
  <2> QED
    BY <1>4, <2>1, <2>2, <2>3 DEF PromisesDocs
<1>5. ASSUME PromisesPoints(redisCache, redisCache') PROVE RedisCacheSpec!Next
  <2>1. PICK new \in PointSets : SetsPoints(redisCache, redisCache', Over(new, redisCache.points))
    BY <1>5 DEF PromisesPoints
  <2>2. RedisCacheSpec!AddTimeSeriesPoints(new)
    BY <2>1 DEF SetsPoints, RedisCacheSpec!AddTimeSeriesPoints, RedisCacheSpec!Over, Over
  <2> QED
    BY <2>2, Zenon DEF RedisCacheSpec!Next
<1>6. ASSUME PromisesPurge(redisCache, redisCache') PROVE RedisCacheSpec!Next
  <2> DEFINE none == [name \in QueueNames |-> <<>>]
  <2>1. Emptied(redisCache.queues) = none
    BY DEF Emptied, CacheOK, QueuesOK
  <2>2. RedisCacheSpec!EmptyTable = EmptyTable
    BY DEF RedisCacheSpec!EmptyTable, EmptyTable
  <2> HIDE DEF none
  <2>3. /\ redisCache'.values = EmptyTable /\ redisCache'.sets = EmptyTable /\ redisCache'.docs = EmptyTable
        /\ redisCache'.queues \in {redisCache.queues, none} /\ redisCache'.points \in {redisCache.points, EmptyTable}
    BY <1>6, <2>1 DEF PromisesPurge, Clears
  <2>4. RedisCacheSpec!Purge
    BY <2>2, <2>3 DEF RedisCacheSpec!Purge, none
  <2> QED
    BY <2>4, Zenon DEF RedisCacheSpec!Next
<1> QED
  BY <1>1, <1>2, <1>3, <1>4, <1>5, <1>6 DEF CachePromised

LEMMA KeysAreFinite ==
  ASSUME NEW co, NEW s, NEW rows, IsFiniteSet(DOMAIN rows)
  PROVE  IsFiniteSet(KeysIn(co, s, rows)) /\ \A k \in KeysIn(co, s, rows) : k.id \in DOMAIN rows
<1> DEFINE K == KeysIn(co, s, rows)
           D == DOMAIN rows
           f == [i \in D |-> [collection |-> co, subset |-> s, id |-> i]]
<1>1. f \in Surjection(D, K)
  <2>1. f \in [D -> K]
    BY DEF KeysIn
  <2>2. \A k \in K : \E i \in D : f[i] = k
    BY DEF KeysIn
  <2> HIDE DEF K, D, f
  <2> QED
    BY <2>1, <2>2 DEF Surjection
<1>2. IsFiniteSet(K)
  <2> HIDE DEF K, f
  <2> QED
    BY <1>1, FS_Surjection
<1> QED
  BY <1>2 DEF KeysIn

LEMMA DocsKeepTypes ==
  ASSUME NEW t, DocsOK(t)
  PROVE  /\ \A d \in DocumentSets : DocsOK(Written(t, d.collection, d.subset, d.rows))
         /\ \A d \in DocumentSets : DocsOK(WrittenAsHidden(t, d.collection, d.subset, d.rows))
         /\ \A co, s, id, patch : IsRecord(patch) => DocsOK(PatchedAt(t, co, s, id, patch))
         /\ \A gone : DocsOK(Without(t, gone))
<1>0. IsRecord(t) /\ IsFiniteSet(DOMAIN t) /\ \A k \in DOMAIN t : IsDocument(t[k])
  BY DEF DocsOK
<1>1. ASSUME NEW new, IsFiniteSet(DOMAIN new), \A k \in DOMAIN new : IsDocument(new[k])
      PROVE  DocsOK(Over(new, t))
  <2>1. /\ DOMAIN Over(new, t) = DOMAIN new \cup DOMAIN t /\ IsRecord(Over(new, t))
        /\ \A k \in DOMAIN new : Over(new, t)[k] = new[k]
        /\ \A k \in DOMAIN t \ DOMAIN new : Over(new, t)[k] = t[k]
    BY OverIs
  <2>2. IsFiniteSet(DOMAIN new \cup DOMAIN t)
    BY <1>0, <1>1, FS_Union
  <2> QED
    BY <1>0, <1>1, <2>1, <2>2 DEF DocsOK
<1>2. ASSUME NEW d \in DocumentSets
      PROVE  /\ DocsOK(Written(t, d.collection, d.subset, d.rows))
             /\ DocsOK(WrittenAsHidden(t, d.collection, d.subset, d.rows))
  <2> DEFINE K == KeysIn(d.collection, d.subset, d.rows)
             new == [k \in K |-> d.rows[k.id]]
             kept == [k \in K |-> AsHidden(t, k, d.rows[k.id])]
  <2>1. IsFiniteSet(DOMAIN d.rows) /\ \A i \in DOMAIN d.rows : IsDocument(d.rows[i])
    BY CallsAssumption
  <2>2. IsFiniteSet(K) /\ \A k \in K : IsDocument(d.rows[k.id])
    BY <2>1, KeysAreFinite
  <2>3. ASSUME NEW row, IsDocument(row), NEW k PROVE IsDocument(AsHidden(t, k, row))
    <3>1. CASE k \in DOMAIN t
      <4> DEFINE h == t[k].is_hidden
                 r == [row EXCEPT !.is_hidden = h]
      <4>1. r = [f \in DOMAIN row |-> r[f]] /\ DOMAIN r = DOMAIN row
        BY <2>3 DEF IsDocument, IsRecord
      <4>2. AsHidden(t, k, row) = r
        BY <3>1 DEF AsHidden
      <4> HIDE DEF r
      <4> QED
        BY <2>3, <4>1, <4>2 DEF IsDocument, IsRecord
    <3>2. CASE k \notin DOMAIN t
      BY <2>3, <3>2 DEF AsHidden
    <3> QED
      BY <3>1, <3>2
  <2>4. DOMAIN new = K /\ \A k \in K : IsDocument(new[k])
    BY <2>2
  <2>5. DOMAIN kept = K /\ \A k \in K : IsDocument(kept[k])
    BY <2>2, <2>3
  <2>6. Written(t, d.collection, d.subset, d.rows) = Over(new, t)
        /\ WrittenAsHidden(t, d.collection, d.subset, d.rows) = Over(kept, t)
    BY DEF Written, WrittenAsHidden
  <2> HIDE DEF new, kept, K
  <2>7. DocsOK(Over(new, t))
    BY <1>1, <2>2, <2>4
  <2>8. DocsOK(Over(kept, t))
    BY <1>1, <2>2, <2>5
  <2> QED
    BY <2>6, <2>7, <2>8
<1>3. ASSUME NEW co, NEW s, NEW id, NEW patch, IsRecord(patch) PROVE DocsOK(PatchedAt(t, co, s, id, patch))
  <2> DEFINE e == PatchedAt(t, co, s, id, patch)
  <2>1. DOMAIN e = DOMAIN t /\ IsRecord(e)
        /\ \A k \in DOMAIN t : e[k] = Over(patch, t[k]) \/ e[k] = t[k]
    BY DEF PatchedAt, IsRecord
  <2>2. ASSUME NEW row, IsDocument(row) PROVE IsDocument(Over(patch, row))
    <3>1. DOMAIN Over(patch, row) = DOMAIN patch \cup DOMAIN row /\ IsRecord(Over(patch, row))
      BY OverIs
    <3> QED
      BY <2>2, <3>1 DEF IsDocument
  <2> HIDE DEF e
  <2>3. \A k \in DOMAIN t : IsDocument(e[k])
    BY <1>0, <2>1, <2>2
  <2>4. DocsOK(e)
    BY <1>0, <2>1, <2>3 DEF DocsOK
  <2> QED
    BY <2>4 DEF e
<1>4. ASSUME NEW gone PROVE DocsOK(Without(t, gone))
  <2>1. /\ DOMAIN Without(t, gone) = DOMAIN t \ gone /\ IsRecord(Without(t, gone))
        /\ \A k \in DOMAIN t \ gone : Without(t, gone)[k] = t[k]
    BY WithoutIs
  <2>2. IsFiniteSet(DOMAIN t \ gone)
    BY <1>0, FS_Difference
  <2> QED
    BY <1>0, <2>1, <2>2 DEF DocsOK
<1> QED
  BY <1>2, <1>3, <1>4

LEMMA QueuesKeepTypes ==
  ASSUME NEW t, QueuesOK(t)
  PROVE  /\ \A name \in QueueNames, x \in Messages : QueuesOK(Pushed(t, name, x))
         /\ \A name \in QueueNames : t[name] # <<>> => QueuesOK(Shifted(t, name))
         /\ QueuesOK(Emptied(t))
<1>0. t = [name \in QueueNames |-> t[name]] /\ \A name \in QueueNames : IsQueue(t[name])
  BY DEF QueuesOK
<1>1. ASSUME NEW name \in QueueNames, NEW q, IsQueue(q) PROVE QueuesOK([t EXCEPT ![name] = q])
  <2> DEFINE e == [t EXCEPT ![name] = q]
  <2>1. e = [n \in QueueNames |-> e[n]] /\ e[name] = q /\ \A n \in QueueNames \ {name} : e[n] = t[n]
    BY <1>0
  <2> HIDE DEF e
  <2>2. QueuesOK(e)
    BY <1>0, <1>1, <2>1 DEF QueuesOK
  <2> QED
    BY <2>2 DEF e
<1>2. ASSUME NEW name \in QueueNames, NEW x \in Messages PROVE QueuesOK(Pushed(t, name, x))
  <2> DEFINE q == Append(Unqueued(t[name], x), x)
  <2>1. IsQueue(q)
    BY <1>0, QueuesMove
  <2> HIDE DEF q
  <2>2. QueuesOK([t EXCEPT ![name] = q])
    BY <1>1, <2>1
  <2> QED
    BY <2>2 DEF q, Pushed
<1>3. ASSUME NEW name \in QueueNames, t[name] # <<>> PROVE QueuesOK(Shifted(t, name))
  <2> DEFINE q == Tail(t[name])
  <2>1. IsQueue(q)
    BY <1>0, <1>3, QueuesMove
  <2> HIDE DEF q
  <2>2. QueuesOK([t EXCEPT ![name] = q])
    BY <1>1, <2>1
  <2> QED
    BY <2>2 DEF q, Shifted
<1>4. QueuesOK(Emptied(t))
  <2>1. Emptied(t) = [name \in QueueNames |-> <<>>]
    BY <1>0 DEF Emptied
  <2>2. IsQueue(<<>>)
    BY EmptySeq DEF IsQueue
  <2> QED
    BY <2>1, <2>2 DEF QueuesOK
<1> QED
  BY <1>2, <1>3, <1>4

LEMMA PointsKeepTypes ==
  ASSUME NEW t, PointsOK(t), NEW new \in PointSets
  PROVE  PointsOK(Over(new, t))
<1>1. IsFiniteSet(DOMAIN new) /\ \A p \in DOMAIN new : p = [name |-> p.name, time |-> p.time] /\ p.time \in Nat
  BY CallsAssumption
<1>2. IsRecord(Over(new, t)) /\ DOMAIN Over(new, t) = DOMAIN new \cup DOMAIN t
  BY OverIs
<1>3. IsFiniteSet(DOMAIN new \cup DOMAIN t)
  BY <1>1, FS_Union DEF PointsOK
<1> QED
  BY <1>1, <1>2, <1>3 DEF PointsOK

LEMMA EmptyTablesAre ==
  /\ IsRecord(EmptyTable) /\ DOMAIN EmptyTable = {}
  /\ DocsOK(EmptyTable) /\ PointsOK(EmptyTable)
<1>1. IsRecord(EmptyTable) /\ DOMAIN EmptyTable = {}
  BY DEF EmptyTable, IsRecord
<1> QED
  BY <1>1, FS_EmptySet DEF DocsOK, PointsOK

LEMMA CachesKeepTypes ==
  ASSUME NEW c, CacheOK(c), NEW e, CachePromised(c, e)
  PROVE  CacheOK(e)
<1>0. /\ IsRecord(c.values) /\ \A n \in DOMAIN c.values : c.values[n] # Nil
      /\ IsRecord(c.sets) /\ DOMAIN c.sets \subseteq SetNames
      /\ QueuesOK(c.queues) /\ DocsOK(c.docs) /\ PointsOK(c.points)
  BY DEF CacheOK
<1>1. ASSUME PromisesValues(c, e) PROVE CacheOK(e)
  <2>1. PICK rows \in ValueBatches :
          \/ \E new \in ChosenRows(rows) : SetsValues(c, e, Over(new, c.values))
          \/ \E name \in KeysOf(rows) : SetsValues(c, e, Without(c.values, {name}))
    BY <1>1 DEF PromisesValues
  <2>2. ASSUME NEW new \in ChosenRows(rows), SetsValues(c, e, Over(new, c.values)) PROVE CacheOK(e)
    <3>1. \A k \in DOMAIN new : new[k] # Nil
      BY CallsAssumption DEF ChosenRows
    <3>2. /\ DOMAIN Over(new, c.values) = DOMAIN new \cup DOMAIN c.values /\ IsRecord(Over(new, c.values))
          /\ \A k \in DOMAIN new : Over(new, c.values)[k] = new[k]
          /\ \A k \in DOMAIN c.values \ DOMAIN new : Over(new, c.values)[k] = c.values[k]
      BY OverIs
    <3> QED
      BY <1>0, <2>2, <3>1, <3>2 DEF SetsValues, CacheOK
  <2>3. ASSUME NEW gone, SetsValues(c, e, Without(c.values, gone)) PROVE CacheOK(e)
    <3>1. /\ IsRecord(Without(c.values, gone)) /\ DOMAIN Without(c.values, gone) = DOMAIN c.values \ gone
          /\ \A k \in DOMAIN c.values \ gone : Without(c.values, gone)[k] = c.values[k]
      BY WithoutIs
    <3> QED
      BY <1>0, <2>3, <3>1 DEF SetsValues, CacheOK
  <2> QED
    BY <2>1, <2>2, <2>3
<1>2. ASSUME PromisesSets(c, e) PROVE CacheOK(e)
  <2>1. PICK name \in SetNames, m \in SUBSET Members :
          \/ SetsSets(c, e, Holding(c.sets, name, m))
          \/ SetsSets(c, e, Holding(c.sets, name, InSet(c.sets, name) \cup m))
          \/ SetsSets(c, e, Holding(c.sets, name, InSet(c.sets, name) \ m))
    BY <1>2 DEF PromisesSets
  <2>2. ASSUME NEW h PROVE IsRecord(Holding(c.sets, name, h)) /\ DOMAIN Holding(c.sets, name, h) \subseteq SetNames
    BY <1>0 DEF Holding, Over, Without, IsRecord
  <2>3. PICK h : SetsSets(c, e, Holding(c.sets, name, h))
    BY <2>1
  <2>4. IsRecord(Holding(c.sets, name, h)) /\ DOMAIN Holding(c.sets, name, h) \subseteq SetNames
    BY <2>2
  <2> QED
    BY <1>0, <2>3, <2>4 DEF SetsSets, CacheOK
<1>3. ASSUME PromisesQueues(c, e) PROVE CacheOK(e)
  <2>1. PICK name \in QueueNames :
          \/ c.queues[name] # <<>> /\ SetsQueues(c, e, Shifted(c.queues, name))
          \/ \E x \in Messages : SetsQueues(c, e, Pushed(c.queues, name, x))
    BY <1>3 DEF PromisesQueues
  <2>2. PICK t : QueuesOK(t) /\ SetsQueues(c, e, t)
    BY <1>0, <2>1, QueuesKeepTypes
  <2> QED
    BY <1>0, <2>2 DEF SetsQueues, CacheOK
<1>4. ASSUME PromisesDocs(c, e) PROVE CacheOK(e)
  <2>1. PICK t : DocsOK(t) /\ SetsDocs(c, e, t)
    <3>1. ASSUME NEW u \in Patches PROVE DocsOK(PatchedAt(c.docs, u.collections, u.subset, u.id, u.patch))
      <4>1. IsRecord(u.patch)
        BY CallsAssumption
      <4> QED
        BY <1>0, <4>1, DocsKeepTypes
    <3>2. /\ \A d \in DocumentSets : DocsOK(Written(c.docs, d.collection, d.subset, d.rows))
          /\ \A d \in DocumentSets : DocsOK(WrittenAsHidden(c.docs, d.collection, d.subset, d.rows))
          /\ \A gone : DocsOK(Without(c.docs, gone))
      BY <1>0, DocsKeepTypes
    <3> QED
      BY <1>4, <3>1, <3>2 DEF PromisesDocs
  <2> QED
    BY <1>0, <2>1 DEF SetsDocs, CacheOK
<1>5. ASSUME PromisesPoints(c, e) PROVE CacheOK(e)
  <2>1. PICK t : PointsOK(t) /\ SetsPoints(c, e, t)
    BY <1>0, <1>5, PointsKeepTypes DEF PromisesPoints
  <2> QED
    BY <1>0, <2>1 DEF SetsPoints, CacheOK
<1>6. ASSUME PromisesPurge(c, e) PROVE CacheOK(e)
  <2>1. PICK queues \in {c.queues, Emptied(c.queues)}, points \in {c.points, EmptyTable} :
          Clears(c, e, queues, points)
    BY <1>6 DEF PromisesPurge
  <2>2. QueuesOK(queues) /\ PointsOK(points)
    BY <1>0, QueuesKeepTypes, EmptyTablesAre
  <2> QED
    BY <2>1, <2>2, EmptyTablesAre DEF Clears, CacheOK
<1> QED
  BY <1>1, <1>2, <1>3, <1>4, <1>5, <1>6 DEF CachePromised

----------------------------------------------------------------------------
(* The caches keep the promise *)

Follows(c, e) == CachePromised(c, e) \/ e = c

LEMMA CallsArePromised ==
  ASSUME CacheOK(sqlCache), CacheOK(mongoCache), CacheOK(redisCache), CacheNext
  PROVE  Follows(sqlCache, sqlCache') /\ Follows(mongoCache, mongoCache') /\ Follows(redisCache, redisCache')
<1>0. /\ IsCache(sqlCache) /\ IsCache(mongoCache) /\ IsCache(redisCache)
      /\ QueuesOK(sqlCache.queues) /\ QueuesOK(mongoCache.queues) /\ QueuesOK(redisCache.queues)
  BY DEF CacheOK
<1>1. CASE SetValues
  <2>1. PICK rows \in ValueBatches :
          /\ sqlCache' = SC!Set(sqlCache, rows) /\ mongoCache' = MC!Set(mongoCache, rows)
          /\ redisCache' = RC!Set(redisCache, rows)
    BY <1>1 DEF SetValues, Changed, Call
  <2>2. IsBatch(rows)
    BY CallsAssumption
  <2>3. FirstRows(rows) \in ChosenRows(rows) /\ LastRows(rows) \in ChosenRows(rows)
    BY <2>2, BatchTables
  <2>4. /\ SetsValues(sqlCache, sqlCache', Over(FirstRows(rows), sqlCache.values))
        /\ SetsValues(mongoCache, mongoCache', Over(LastRows(rows), mongoCache.values))
        /\ SetsValues(redisCache, redisCache', Over(LastRows(rows), redisCache.values))
    BY <1>0, <2>1, SQLCacheDoes, MongoCacheDoes, RedisCacheDoes
  <2>5. \A c, e : \A new \in ChosenRows(rows) :
          SetsValues(c, e, Over(new, c.values)) => Follows(c, e)
    BY DEF Follows, CachePromised, PromisesValues
  <2> QED
    BY <2>3, <2>4, <2>5
<1>2. CASE DeleteValue
  <2>0. PICK rows \in ValueBatches : \E name \in KeysOf(rows) :
          /\ sqlCache' = SC!Delete(sqlCache, name) /\ mongoCache' = MC!Delete(mongoCache, name)
          /\ redisCache' = RC!Delete(redisCache, name)
    BY <1>2 DEF DeleteValue, Changed, Call
  <2>1. PICK name \in KeysOf(rows) :
          /\ sqlCache' = SC!Delete(sqlCache, name) /\ mongoCache' = MC!Delete(mongoCache, name)
          /\ redisCache' = RC!Delete(redisCache, name)
    BY <2>0
  <2>2. IsRecord(redisCache.sets) /\ name \notin DOMAIN redisCache.sets
    <3>1. KeysOf(rows) \cap SetNames = {}
      BY CallsAssumption
    <3> QED
      BY <3>1 DEF CacheOK
  <2>4. /\ SetsValues(sqlCache, sqlCache', Without(sqlCache.values, {name}))
        /\ SetsValues(mongoCache, mongoCache', Without(mongoCache.values, {name}))
        /\ SetsValues(redisCache, redisCache', Without(redisCache.values, {name}))
    BY <1>0, <2>1, <2>2, SQLCacheDoes, MongoCacheDoes, RedisCacheDoesOthers
  <2>5. \A c, e : SetsValues(c, e, Without(c.values, {name})) => Follows(c, e)
    BY DEF Follows, CachePromised, PromisesValues
  <2> QED
    BY <2>4, <2>5
<1>3. CASE SetSet \/ AddSet \/ RemSet
  <2>1. \A c, e : \A name \in SetNames, m \in SUBSET Members :
          (\/ SetsSets(c, e, Holding(c.sets, name, m))
           \/ SetsSets(c, e, Holding(c.sets, name, InSet(c.sets, name) \cup m))
           \/ SetsSets(c, e, Holding(c.sets, name, InSet(c.sets, name) \ m)))
            => Follows(c, e)
    BY Zenon DEF Follows, CachePromised, PromisesSets
  <2>2. CASE SetSet
    <3>1. PICK name \in SetNames, m \in SUBSET Members :
            /\ sqlCache' = SC!SetSet(sqlCache, name, m) /\ mongoCache' = MC!SetSet(mongoCache, name, m)
            /\ redisCache' = RC!SetSet(redisCache, name, m)
      BY <2>2 DEF SetSet, Changed, Call
    <3>2. /\ SetsSets(sqlCache, sqlCache', Holding(sqlCache.sets, name, m))
          /\ SetsSets(mongoCache, mongoCache', Holding(mongoCache.sets, name, m))
          /\ IF m = {} THEN redisCache' = redisCache
                       ELSE SetsSets(redisCache, redisCache', Holding(redisCache.sets, name, m))
      BY <1>0, <3>1, SQLCacheDoesOthers, MongoCacheDoes, RedisCacheDoesOthers
    <3>3. redisCache' = redisCache \/ SetsSets(redisCache, redisCache', Holding(redisCache.sets, name, m))
      BY <3>2
    <3>4. redisCache' = redisCache => Follows(redisCache, redisCache')
      BY DEF Follows
    <3> QED
      BY <2>1, <3>2, <3>3, <3>4, Zenon
  <2>3. CASE AddSet
    <3>1. PICK name \in SetNames, m \in SUBSET Members :
            /\ sqlCache' = SC!AddSet(sqlCache, name, m) /\ mongoCache' = MC!AddSet(mongoCache, name, m)
            /\ redisCache' = RC!AddSet(redisCache, name, m)
      BY <2>3 DEF AddSet, Changed, Call
    <3>2. /\ SetsSets(sqlCache, sqlCache', Holding(sqlCache.sets, name, InSet(sqlCache.sets, name) \cup m))
          /\ SetsSets(mongoCache, mongoCache', Holding(mongoCache.sets, name, InSet(mongoCache.sets, name) \cup m))
          /\ SetsSets(redisCache, redisCache', Holding(redisCache.sets, name, InSet(redisCache.sets, name) \cup m))
      BY <1>0, <3>1, SQLCacheDoes, MongoCacheDoes, RedisCacheDoes
    <3> QED
      BY <2>1, <3>2, Zenon
  <2>4. CASE RemSet
    <3>1. PICK name \in SetNames, m \in SUBSET Members :
            /\ sqlCache' = SC!RemSet(sqlCache, name, m) /\ mongoCache' = MC!RemSet(mongoCache, name, m)
            /\ redisCache' = RC!RemSet(redisCache, name, m)
      BY <2>4 DEF RemSet, Changed, Call
    <3>2. /\ SetsSets(sqlCache, sqlCache', Holding(sqlCache.sets, name, InSet(sqlCache.sets, name) \ m))
          /\ SetsSets(mongoCache, mongoCache', Holding(mongoCache.sets, name, InSet(mongoCache.sets, name) \ m))
          /\ SetsSets(redisCache, redisCache', Holding(redisCache.sets, name, InSet(redisCache.sets, name) \ m))
      BY <1>0, <3>1, SQLCacheDoes, MongoCacheDoes, RedisCacheDoes
    <3> QED
      BY <2>1, <3>2, Zenon
  <2> QED
    BY <1>3, <2>2, <2>3, <2>4
<1>4. CASE Push
  <2>1. PICK name \in QueueNames, x \in Messages :
          /\ sqlCache' = SC!Push(sqlCache, name, x) /\ mongoCache' = MC!Push(mongoCache, name, x)
          /\ redisCache' = RC!Push(redisCache, name, x)
    BY <1>4 DEF Push, Changed, Call
  <2>2. /\ SetsQueues(sqlCache, sqlCache', Pushed(sqlCache.queues, name, x))
        /\ SetsQueues(mongoCache, mongoCache', Pushed(mongoCache.queues, name, x))
        /\ SetsQueues(redisCache, redisCache', Pushed(redisCache.queues, name, x))
    BY <1>0, <2>1, SQLCacheDoes, MongoCacheDoes, RedisCacheDoes
  <2>3. \A c, e : SetsQueues(c, e, Pushed(c.queues, name, x)) => Follows(c, e)
    BY DEF Follows, CachePromised, PromisesQueues
  <2> QED
    BY <2>2, <2>3
<1>5. CASE Pop
  <2>1. PICK name \in QueueNames :
          /\ sqlCache' = SC!Pop(sqlCache, name).db /\ mongoCache' = MC!Pop(mongoCache, name).db
          /\ redisCache' = RC!Pop(redisCache, name).db
    BY <1>5 DEF Pop, Call
  <2>2. /\ IsQueue(sqlCache.queues[name]) /\ IsQueue(mongoCache.queues[name])
        /\ IsQueue(redisCache.queues[name])
    BY <1>0 DEF QueuesOK
  <2>3. /\ Pops(sqlCache, SC!Pop(sqlCache, name), name) /\ Pops(mongoCache, MC!Pop(mongoCache, name), name)
        /\ Pops(redisCache, RC!Pop(redisCache, name), name)
    BY <1>0, <2>2, SQLCacheDoesOthers, MongoCacheDoesOthers, RedisCacheDoesOthers
  <2>4. \A c, answer : Pops(c, answer, name) => Follows(c, answer.db)
    BY DEF Pops, Follows, CachePromised, PromisesQueues
  <2> QED
    BY <2>1, <2>3, <2>4
<1>6. CASE AddScores
  <2>1. PICK d \in DocumentSets :
          /\ sqlCache' = SC!AddScores(sqlCache, d.collection, d.subset, d.rows)
          /\ mongoCache' = MC!AddScores(mongoCache, d.collection, d.subset, d.rows)
          /\ redisCache' = RC!AddScores(redisCache, d.collection, d.subset, d.rows)
    BY <1>6 DEF AddScores, Changed, Call
  <2>2. /\ SetsDocs(sqlCache, sqlCache', WrittenAsHidden(sqlCache.docs, d.collection, d.subset, d.rows))
        /\ SetsDocs(mongoCache, mongoCache', Written(mongoCache.docs, d.collection, d.subset, d.rows))
        /\ SetsDocs(redisCache, redisCache', Written(redisCache.docs, d.collection, d.subset, d.rows))
    BY <1>0, <2>1, SQLCacheDoes, MongoCacheDoes, RedisCacheDoes
  <2>3. \A c, e : (\/ SetsDocs(c, e, WrittenAsHidden(c.docs, d.collection, d.subset, d.rows))
                   \/ SetsDocs(c, e, Written(c.docs, d.collection, d.subset, d.rows))) => Follows(c, e)
    BY Zenon DEF Follows, CachePromised, PromisesDocs
  <2> QED
    BY <2>2, <2>3, Zenon
<1>7. CASE UpdateScores
  <2>1. PICK u \in Patches :
          /\ sqlCache' = SC!UpdateScores(sqlCache, u.collections, u.subset, u.id, u.patch)
          /\ mongoCache' = MC!UpdateScores(mongoCache, u.collections, u.subset, u.id, u.patch)
          /\ redisCache' = RC!UpdateScores(redisCache, u.collections, u.subset, u.id, u.patch)
    BY <1>7 DEF UpdateScores, Changed, Call
  <2>2. u.id # Nil /\ u.subset # AnySubset
    BY CallsAssumption
  <2>3. /\ SetsDocs(sqlCache, sqlCache', PatchedAt(sqlCache.docs, u.collections, u.subset, u.id, u.patch))
        /\ SetsDocs(mongoCache, mongoCache', PatchedAt(mongoCache.docs, u.collections, u.subset, u.id, u.patch))
        /\ SetsDocs(redisCache, redisCache', PatchedAt(redisCache.docs, u.collections, u.subset, u.id, u.patch))
    BY <1>0, <2>1, <2>2, SQLCacheDoes, MongoCacheDoes, RedisCacheDoes
  <2>4. \A c, e : SetsDocs(c, e, PatchedAt(c.docs, u.collections, u.subset, u.id, u.patch)) => Follows(c, e)
    BY Zenon DEF Follows, CachePromised, PromisesDocs
  <2> QED
    BY <2>3, <2>4
<1>8. CASE DeleteScores
  <2>1. PICK a \in Conditions :
          /\ sqlCache' = SC!DeleteScores(sqlCache, a.collections, a)
          /\ mongoCache' = MC!DeleteScores(mongoCache, a.collections, a)
          /\ redisCache' = RC!DeleteScores(redisCache, a.collections, a)
    BY <1>8 DEF DeleteScores, Changed, Call
  <2>a. a.subset # AnySubset
    BY CallsAssumption
  <2>2. /\ SetsDocs(sqlCache, sqlCache', IF IsValid(a) THEN
             Without(sqlCache.docs, Condemned(sqlCache.docs, a.collections, a)) ELSE sqlCache.docs)
        /\ SetsDocs(mongoCache, mongoCache', IF IsValid(a) THEN
             Without(mongoCache.docs, Condemned(mongoCache.docs, a.collections, a)) ELSE mongoCache.docs)
        /\ SetsDocs(redisCache, redisCache', IF IsValid(a) THEN
             Without(redisCache.docs, Condemned(redisCache.docs, a.collections, a)) ELSE redisCache.docs)
    BY <1>0, <2>1, <2>a, SQLCacheDoes, MongoCacheDoes, RedisCacheDoes
  <2>3. \A c, e : SetsDocs(c, e, Without(c.docs, Condemned(c.docs, a.collections, a))) => Follows(c, e)
    BY Zenon DEF Follows, CachePromised, PromisesDocs
  <2>4. \A c, e : IsCache(c) /\ SetsDocs(c, e, c.docs) => Follows(c, e)
    BY DEF SetsDocs, IsCache, Follows
  <2>5. CASE IsValid(a)
    BY <2>2, <2>3, <2>5
  <2>6. CASE ~IsValid(a)
    BY <1>0, <2>2, <2>4, <2>6
  <2> QED
    BY <2>5, <2>6
<1>9. CASE AddTimeSeriesPoints
  <2>1. PICK new \in PointSets :
          /\ sqlCache' = SC!AddTimeSeriesPoints(sqlCache, new)
          /\ mongoCache' = MC!AddTimeSeriesPoints(mongoCache, new)
          /\ redisCache' = RC!AddTimeSeriesPoints(redisCache, new)
    BY <1>9 DEF AddTimeSeriesPoints, Changed, Call
  <2>2. /\ SetsPoints(sqlCache, sqlCache', Over(new, sqlCache.points))
        /\ SetsPoints(mongoCache, mongoCache', Over(new, mongoCache.points))
        /\ SetsPoints(redisCache, redisCache', Over(new, redisCache.points))
    BY <1>0, <2>1, SQLCacheDoes, MongoCacheDoes, RedisCacheDoes
  <2>3. \A c, e : SetsPoints(c, e, Over(new, c.points)) => Follows(c, e)
    BY DEF Follows, CachePromised, PromisesPoints
  <2> QED
    BY <2>2, <2>3
<1>10. CASE PurgeCache
  <2>1. /\ sqlCache' = SC!Purge(sqlCache) /\ mongoCache' = MC!Purge(mongoCache)
        /\ redisCache' = RC!Purge(redisCache)
    BY <1>10 DEF PurgeCache, Changed, Call
  <2>2. /\ Clears(sqlCache, sqlCache', Emptied(sqlCache.queues), sqlCache.points)
        /\ Clears(mongoCache, mongoCache', mongoCache.queues, mongoCache.points)
        /\ Clears(redisCache, redisCache', Emptied(redisCache.queues), EmptyTable)
    BY <1>0, <2>1, SQLCacheDoesOthers, MongoCacheDoesOthers, RedisCacheDoesOthers
  <2>3. \A c, e : \A queues \in {c.queues, Emptied(c.queues)}, points \in {c.points, EmptyTable} :
          Clears(c, e, queues, points) => Follows(c, e)
    BY Zenon DEF Follows, CachePromised, PromisesPurge
  <2> QED
    BY <2>2, <2>3
<1> QED
  BY <1>1, <1>2, <1>3, <1>4, <1>5, <1>6, <1>7, <1>8, <1>9, <1>10 DEF CacheNext

\* The caches keep the types of their tables.
CacheInv == CacheOK(sqlCache) /\ CacheOK(mongoCache) /\ CacheOK(redisCache)

LEMMA EmptyCacheIs ==
  /\ CacheOK(SC!EmptyCache(QueueNames))
  /\ LET c == SC!EmptyCache(QueueNames)
     IN  /\ c.values = EmptyTable /\ c.sets = EmptyTable /\ c.docs = EmptyTable /\ c.points = EmptyTable
         /\ c.queues = [name \in QueueNames |-> <<>>]
<1> DEFINE c == SC!EmptyCache(QueueNames)
           none == [name \in QueueNames |-> <<>>]
           nothing == EmptyTable
<1>1. c = [values |-> nothing, sets |-> nothing, docs |-> nothing, points |-> nothing, queues |-> none]
  BY DEF SC!EmptyCache, SC!EmptyTable, EmptyTable
<1>2. QueuesOK(none)
  <2>1. IsQueue(<<>>)
    BY EmptySeq DEF IsQueue
  <2> QED
    BY <2>1 DEF QueuesOK
<1>3. IsRecord(nothing) /\ DOMAIN nothing = {} /\ DocsOK(nothing) /\ PointsOK(nothing)
  BY EmptyTablesAre
<1> HIDE DEF nothing, none, c
<1>4. /\ c.values = nothing /\ c.sets = nothing /\ c.docs = nothing /\ c.points = nothing
      /\ c.queues = none /\ IsCache(c)
  BY <1>1 DEF IsCache
<1>5. CacheOK(c)
  BY <1>2, <1>3, <1>4 DEF CacheOK
<1> QED
  BY <1>4, <1>5 DEF c, none, nothing

LEMMA CacheStarts ==
  ASSUME CacheInit
  PROVE  CacheInv /\ SQLSpec!Init /\ MongoSpec!Init /\ RedisCacheSpec!Init
<1>1. EmptyTable = SQLSpec!EmptyTable /\ EmptyTable = MongoSpec!EmptyTable
      /\ EmptyTable = RedisCacheSpec!EmptyTable
  BY DEF EmptyTable, SQLSpec!EmptyTable, MongoSpec!EmptyTable, RedisCacheSpec!EmptyTable
<1>2. CacheInv
  BY EmptyCacheIs DEF CacheInit, CacheInv
<1> QED
  BY <1>1, <1>2, EmptyCacheIs DEF CacheInit, SQLSpec!Init, MongoSpec!Init, RedisCacheSpec!Init

LEMMA CacheSteps ==
  ASSUME CacheInv, [CacheNext]_cacheVars
  PROVE  /\ CacheInv' /\ [SQLSpec!Next]_(SQLSpec!cache)
         /\ [MongoSpec!Next]_(MongoSpec!cache) /\ [RedisCacheSpec!Next]_(RedisCacheSpec!cache)
<1>0. CacheOK(sqlCache) /\ CacheOK(mongoCache) /\ CacheOK(redisCache)
  BY DEF CacheInv
<1>1. Follows(sqlCache, sqlCache') /\ Follows(mongoCache, mongoCache') /\ Follows(redisCache, redisCache')
  <2>1. CASE UNCHANGED cacheVars
    BY <2>1 DEF cacheVars, Follows
  <2> QED
    BY <1>0, <2>1, CallsArePromised
<1>2. CacheOK(sqlCache') /\ CacheOK(mongoCache') /\ CacheOK(redisCache')
  BY <1>0, <1>1, CachesKeepTypes DEF Follows
<1>3. CacheInv'
  BY <1>2 DEF CacheInv, CacheOK, IsCache, IsRecord, QueuesOK, IsQueue, DocsOK, IsDocument, PointsOK
<1>4. [SQLSpec!Next]_(SQLSpec!cache)
  <2>1. CASE sqlCache' = sqlCache
    BY <2>1 DEF SQLSpec!cache
  <2> QED
    BY <1>0, <1>1, <2>1, SQLCachePromise DEF Follows
<1>5. [MongoSpec!Next]_(MongoSpec!cache)
  <2>1. CASE mongoCache' = mongoCache
    BY <2>1 DEF MongoSpec!cache
  <2> QED
    BY <1>0, <1>1, <2>1, MongoCachePromise DEF Follows
<1>6. [RedisCacheSpec!Next]_(RedisCacheSpec!cache)
  <2>1. CASE redisCache' = redisCache
    BY <2>1 DEF RedisCacheSpec!cache
  <2> QED
    BY <1>0, <1>1, <2>1, RedisCachePromise DEF Follows
<1> QED
  BY <1>3, <1>4, <1>5, <1>6

\* Whatever the rest does, the caches take steps of theirs or none.
LEMMA CachesMove ==
  ASSUME [StoresNext]_storeVars
  PROVE  [CacheNext]_cacheVars
  BY DEF StoresNext, storeVars

\* The SQL store, MongoDB and Redis, whose writes are upserts that keep or
\* reset a field, whose queues move a message that waits to their end and
\* whose deletions search first (sql.go, mongodb.go, redis.go), do at every
\* call what the interface of the cache promises.
THEOREM CachePromisesHold == StoresSpec => StoresImplementCache
<1>1. StoresInit => CacheInv /\ SQLSpec!Init /\ MongoSpec!Init /\ RedisCacheSpec!Init
  BY CacheStarts DEF StoresInit
<1>2. CacheInv /\ [StoresNext]_storeVars
        => /\ CacheInv' /\ [SQLSpec!Next]_(SQLSpec!cache)
           /\ [MongoSpec!Next]_(MongoSpec!cache) /\ [RedisCacheSpec!Next]_(RedisCacheSpec!cache)
  BY CacheSteps, CachesMove
<1> QED
  BY <1>1, <1>2, PTL DEF StoresSpec, StoresImplementCache, SQLSpec!Spec, MongoSpec!Spec, RedisCacheSpec!Spec

----------------------------------------------------------------------------
(* The cache behind the proxy is a cache of SQL *)

LEMMA ProxyCallsSQL ==
  /\ \A c, rows : PC!Set(c, rows) = SC!Set(c, rows)
  /\ \A c, name : PC!Delete(c, name) = SC!Delete(c, name)
  /\ \A c, name, m : PC!SetSet(c, name, m) = SC!SetSet(c, name, m)
  /\ \A c, name, m : PC!AddSet(c, name, m) = SC!AddSet(c, name, m)
  /\ \A c, name, m : PC!RemSet(c, name, m) = SC!RemSet(c, name, m)
  /\ \A c, name, x : PC!Push(c, name, x) = SC!Push(c, name, x)
  /\ \A c, co, s, rows : PC!AddScores(c, co, s, rows) = SC!AddScores(c, co, s, rows)
  /\ \A c, co, cond : PC!DeleteScores(c, co, cond) = SC!DeleteScores(c, co, cond)
  /\ \A c, new : PC!AddTimeSeriesPoints(c, new) = SC!AddTimeSeriesPoints(c, new)
<1>1. /\ \A t, s : PC!Store!Over(t, s) = SC!Over(t, s)
      /\ \A t, s : PC!Store!Without(t, s) = SC!Without(t, s)
      /\ \A rows : PC!Store!FirstRows(rows) = SC!FirstRows(rows)
      /\ \A q, x : PC!Store!Unqueued(q, x) = SC!Unqueued(q, x)
  BY DEF PC!Store!Over, SC!Over, PC!Store!Without, SC!Without, PC!Store!FirstRows, SC!FirstRows,
         PC!Store!KeysOf, SC!KeysOf, PC!Store!Unqueued, SC!Unqueued
<1>2. /\ \A c, rows : PC!Set(c, rows) = SC!Set(c, rows)
      /\ \A c, name : PC!Delete(c, name) = SC!Delete(c, name)
      /\ \A c, name, x : PC!Push(c, name, x) = SC!Push(c, name, x)
      /\ \A c, new : PC!AddTimeSeriesPoints(c, new) = SC!AddTimeSeriesPoints(c, new)
  BY <1>1 DEF PC!Set, PC!ServeSet, PC!Store!Set, SC!Set, PC!Delete, PC!ServeDelete, PC!Store!Delete, SC!Delete,
     PC!Push, PC!ServePush, PC!Store!Push, SC!Push,
     PC!AddTimeSeriesPoints, PC!ServeAddTimeSeriesPoints, PC!Store!AddTimeSeriesPoints, SC!AddTimeSeriesPoints
<1>3. /\ \A t, name, m : PC!Store!WithMembers(t, name, m) = SC!WithMembers(t, name, m)
      /\ \A c, name : PC!Store!GetSet(c, name) = SC!GetSet(c, name)
      /\ \A c, name : PC!Store!ClearSet(c, name) = SC!ClearSet(c, name)
  BY <1>1 DEF PC!Store!WithMembers, SC!WithMembers, PC!Store!GetSet, SC!GetSet, PC!Store!ClearSet, SC!ClearSet
<1>4. /\ \A c, name, m : PC!Store!AddSet(c, name, m) = SC!AddSet(c, name, m)
      /\ \A c, name, m : PC!Store!RemSet(c, name, m) = SC!RemSet(c, name, m)
  BY <1>3 DEF PC!Store!AddSet, SC!AddSet, PC!Store!RemSet, SC!RemSet
<1>5. \A c, name, m : PC!Store!SetSet(c, name, m) = SC!SetSet(c, name, m)
  BY <1>3, <1>4 DEF PC!Store!SetSet, SC!SetSet
<1>6. /\ \A c, name, m : PC!SetSet(c, name, m) = SC!SetSet(c, name, m)
      /\ \A c, name, m : PC!AddSet(c, name, m) = SC!AddSet(c, name, m)
      /\ \A c, name, m : PC!RemSet(c, name, m) = SC!RemSet(c, name, m)
  BY <1>4, <1>5 DEF PC!SetSet, PC!ServeSetSet, PC!AddSet, PC!ServeAddSet, PC!RemSet, PC!ServeRemSet
<1>7. \A c, co, s, rows : PC!AddScores(c, co, s, rows) = SC!AddScores(c, co, s, rows)
  <2>1. \A c, co, s, rows : PC!Store!AddScores(c, co, s, rows) = SC!AddScores(c, co, s, rows)
    BY DEF PC!Store!AddScores, SC!AddScores, PC!Store!DocKeys, SC!DocKeys, PC!Store!DocKey, SC!DocKey,
           PC!Store!Over, SC!Over
  <2> QED
    BY <2>1 DEF PC!AddScores, PC!ServeAddScores
<1>8. \A c, co, cond : PC!DeleteScores(c, co, cond) = SC!DeleteScores(c, co, cond)
  <2>1. \A c, co, cond : PC!Store!DeleteScores(c, co, cond) = SC!DeleteScores(c, co, cond)
    BY DEF PC!Store!DeleteScores, SC!DeleteScores, PC!Store!Valid, SC!Valid, PC!Store!Without, SC!Without
  <2>2. \A c, co, cond : PC!DeleteScores(c, co, cond)
          = IF SC!Valid(cond) THEN SC!DeleteScores(c, co, cond) ELSE c
    BY <2>1 DEF PC!DeleteScores, PC!ServeDeleteScores, PC!Store!Valid, SC!Valid
  <2>3. \A c, co, cond : ~SC!Valid(cond) => SC!DeleteScores(c, co, cond) = c
    BY DEF SC!DeleteScores
  <2> QED
    BY <2>2, <2>3
<1> QED
  BY <1>2, <1>6, <1>7, <1>8

\* A patch whose categories are not empty is sent as it is.
LEMMA ProxySendsPatches ==
  ASSUME NEW c, NEW u \in Patches
  PROVE  PC!UpdateScores(c, u.collections, u.subset, u.id, u.patch)
           = SC!UpdateScores(c, u.collections, u.subset, u.id, u.patch)
<1> DEFINE patch == u.patch
           sent == {f \in DOMAIN patch : f = "categories" => patch[f] # {}}
           arrived == [f \in sent |-> patch[f]]
<1>1. IsRecord(patch) /\ ("categories" \in DOMAIN patch => patch.categories # {})
  BY CallsAssumption
<1>2. sent = DOMAIN patch
  BY <1>1
<1>3. arrived = patch
  BY <1>1, <1>2 DEF IsRecord
<1>4. PC!UpdateScores(c, u.collections, u.subset, u.id, patch)
        = PC!Store!UpdateScores(c, u.collections, u.subset, u.id, arrived)
  BY DEF PC!UpdateScores, PC!ServeUpdateScores
<1> HIDE DEF sent, arrived, patch
<1>5. PC!Store!UpdateScores(c, u.collections, u.subset, u.id, patch)
        = SC!UpdateScores(c, u.collections, u.subset, u.id, patch)
  BY DEF PC!Store!UpdateScores, SC!UpdateScores, PC!Store!Matching, SC!Matching, PC!Store!Over, SC!Over
<1> QED
  BY <1>3, <1>4, <1>5 DEF patch

\* An answer of no value is that nothing is stored.
LEMMA ProxyPops ==
  ASSUME NEW c, IsCache(c), NEW name, IsQueue(c.queues[name])
  PROVE  PC!Pop(c, name).db = SC!Pop(c, name).db /\ PC!Pop(c, name).value = SC!Pop(c, name).value
<1>1. PC!Store!Pop(c, name) = SC!Pop(c, name)
  <2>1. PC!Store!Oldest(c, name) = SC!Oldest(c, name)
    BY DEF PC!Store!Oldest, SC!Oldest, PC!Store!Remain, SC!Remain
  <2>2. \A x : PC!Store!DeleteMessage(c, name, x) = SC!DeleteMessage(c, name, x)
    BY DEF PC!Store!DeleteMessage, SC!DeleteMessage, PC!Store!Unqueued, SC!Unqueued
  <2> QED
    BY <2>1, <2>2 DEF PC!Store!Pop, SC!Pop
<1>2. SC!Pop(c, name).value = NotFound \/ SC!Pop(c, name).value # Nil
  <2>1. Pops(c, SC!Pop(c, name), name)
    BY SQLCacheDoesOthers
  <2>2. c.queues[name] # <<>> => Head(c.queues[name]) \in Messages
    BY QueuesMove
  <2>3. Nil \notin Messages
    BY CallsAssumption
  <2> QED
    BY <2>1, <2>2, <2>3 DEF Pops
<1> QED
  BY <1>1, <1>2 DEF PC!Pop, PC!ServePop

----------------------------------------------------------------------------
(* The caches hold the same *)

\* Rows that differ in nothing but is_hidden.
LikeRows(x, y) ==
  /\ DOMAIN x = DOMAIN y /\ \A f \in DOMAIN x \ {"is_hidden"} : x[f] = y[f]
  /\ y.is_hidden => x.is_hidden

LEMMA VisibleIs ==
  ASSUME NEW x, IsDocument(x), NEW y, IsDocument(y)
  PROVE  Visible(x) = Visible(y) /\ (y.is_hidden => x.is_hidden) <=> LikeRows(x, y)
<1>1. /\ x = [f \in DOMAIN x |-> x[f]] /\ y = [f \in DOMAIN y |-> y[f]]
      /\ "is_hidden" \in DOMAIN x /\ "is_hidden" \in DOMAIN y
  BY DEF IsDocument, IsRecord
<1> DEFINE v == Visible(x)
           w == Visible(y)
<1>2. /\ v = [f \in DOMAIN x |-> v[f]] /\ w = [f \in DOMAIN y |-> w[f]]
      /\ DOMAIN v = DOMAIN x /\ DOMAIN w = DOMAIN y
      /\ \A f \in DOMAIN x : v[f] = IF f = "is_hidden" THEN FALSE ELSE x[f]
      /\ \A f \in DOMAIN y : w[f] = IF f = "is_hidden" THEN FALSE ELSE y[f]
  BY <1>1 DEF Visible
<1> HIDE DEF v, w
<1>3. v = w <=> DOMAIN x = DOMAIN y /\ \A f \in DOMAIN x \ {"is_hidden"} : x[f] = y[f]
  <2>1. ASSUME v = w
        PROVE  DOMAIN x = DOMAIN y /\ \A f \in DOMAIN x \ {"is_hidden"} : x[f] = y[f]
    BY <1>2, <2>1
  <2>2. ASSUME DOMAIN x = DOMAIN y, \A f \in DOMAIN x \ {"is_hidden"} : x[f] = y[f]
        PROVE  v = w
    <3>1. \A f \in DOMAIN x : v[f] = w[f]
      BY <1>2, <2>2
    <3>2. w = [f \in DOMAIN x |-> w[f]]
      BY <1>2, <2>2
    <3> QED
      BY <1>2, <3>1, <3>2
  <2> QED
    BY <2>1, <2>2
<1> QED
  BY <1>3 DEF v, w, LikeRows

LikeDocs(s, t) == DOMAIN s = DOMAIN t /\ \A k \in DOMAIN t : LikeRows(s[k], t[k])

LEMMA LikeDocsIs ==
  ASSUME NEW s, DocsOK(s), NEW t, DocsOK(t)
  PROVE  SameButHidden(s, t) <=> LikeDocs(s, t)
<1>1. \A k \in DOMAIN t : DOMAIN s = DOMAIN t => IsDocument(s[k]) /\ IsDocument(t[k])
  BY DEF DocsOK
<1> QED
  BY <1>1, VisibleIs DEF SameButHidden, LikeDocs

LEMMA WritesKeepLikeness ==
  ASSUME NEW s, DocsOK(s), NEW t, DocsOK(t), LikeDocs(s, t), NEW d \in DocumentSets
  PROVE  LikeDocs(WrittenAsHidden(s, d.collection, d.subset, d.rows),
                  Written(t, d.collection, d.subset, d.rows))
<1> DEFINE K == KeysIn(d.collection, d.subset, d.rows)
           new == [k \in K |-> d.rows[k.id]]
           kept == [k \in K |-> AsHidden(s, k, d.rows[k.id])]
           S == Over(kept, s)
           T == Over(new, t)
<1>1. \A k \in K : IsDocument(d.rows[k.id]) /\ d.rows[k.id].is_hidden = FALSE
  <2>1. IsFiniteSet(DOMAIN d.rows)
        /\ \A i \in DOMAIN d.rows : IsDocument(d.rows[i]) /\ d.rows[i].is_hidden = FALSE
    BY CallsAssumption
  <2>2. \A k \in K : k.id \in DOMAIN d.rows
    BY <2>1, KeysAreFinite
  <2> QED
    BY <2>1, <2>2
<1>2. ASSUME NEW row, IsDocument(row), row.is_hidden = FALSE, NEW k
      PROVE  LikeRows(AsHidden(s, k, row), row)
  <2>1. row = [f \in DOMAIN row |-> row[f]] /\ "is_hidden" \in DOMAIN row
    BY <1>2 DEF IsDocument, IsRecord
  <2>2. CASE k \in DOMAIN s
    <3> DEFINE h == s[k].is_hidden
               r == [row EXCEPT !.is_hidden = h]
    <3>1. DOMAIN r = DOMAIN row /\ \A f \in DOMAIN row \ {"is_hidden"} : r[f] = row[f]
      BY <2>1
    <3>2. AsHidden(s, k, row) = r
      BY <2>2 DEF AsHidden
    <3> HIDE DEF r
    <3> QED
      BY <1>2, <3>1, <3>2 DEF LikeRows
  <2>3. CASE k \notin DOMAIN s
    BY <1>2, <2>3 DEF AsHidden, LikeRows
  <2> QED
    BY <2>2, <2>3
<1>3. /\ DOMAIN new = K /\ DOMAIN kept = K
      /\ \A k \in K : LikeRows(kept[k], new[k])
  BY <1>1, <1>2
<1>4. WrittenAsHidden(s, d.collection, d.subset, d.rows) = S
      /\ Written(t, d.collection, d.subset, d.rows) = T
  BY DEF WrittenAsHidden, Written
<1> HIDE DEF K, new, kept
<1>5. /\ DOMAIN S = K \cup DOMAIN s /\ DOMAIN T = K \cup DOMAIN t
      /\ \A k \in K : S[k] = kept[k] /\ T[k] = new[k]
      /\ \A k \in DOMAIN s \ K : S[k] = s[k]
      /\ \A k \in DOMAIN t \ K : T[k] = t[k]
  <2>1. /\ DOMAIN S = DOMAIN kept \cup DOMAIN s /\ \A k \in DOMAIN kept : S[k] = kept[k]
        /\ \A k \in DOMAIN s \ DOMAIN kept : S[k] = s[k]
    BY OverIs
  <2>2. /\ DOMAIN T = DOMAIN new \cup DOMAIN t /\ \A k \in DOMAIN new : T[k] = new[k]
        /\ \A k \in DOMAIN t \ DOMAIN new : T[k] = t[k]
    BY OverIs
  <2> QED
    BY <1>3, <2>1, <2>2
<1> HIDE DEF S, T
<1>6. LikeDocs(S, T)
  BY <1>3, <1>5 DEF LikeDocs
<1> QED
  BY <1>4, <1>6

LEMMA PatchesKeepLikeness ==
  ASSUME NEW s, DocsOK(s), NEW t, DocsOK(t), LikeDocs(s, t), NEW u \in Patches
  PROVE  LikeDocs(PatchedAt(s, u.collections, u.subset, u.id, u.patch),
                  PatchedAt(t, u.collections, u.subset, u.id, u.patch))
<1> DEFINE p == u.patch
           hit(k) == Meant(k, u.collections, u.subset, u.id)
           S == PatchedAt(s, u.collections, u.subset, u.id, u.patch)
           T == PatchedAt(t, u.collections, u.subset, u.id, u.patch)
<1>1. ASSUME NEW x, IsDocument(x), NEW y, IsDocument(y), LikeRows(x, y)
      PROVE  LikeRows(Over(p, x), Over(p, y))
  <2> DEFINE a == Over(p, x)
             b == Over(p, y)
  <2> HIDE DEF p
  <2>1. /\ DOMAIN a = DOMAIN p \cup DOMAIN x /\ DOMAIN b = DOMAIN p \cup DOMAIN y
        /\ \A f \in DOMAIN p : a[f] = p[f] /\ b[f] = p[f]
        /\ \A f \in DOMAIN x \ DOMAIN p : a[f] = x[f]
        /\ \A f \in DOMAIN y \ DOMAIN p : b[f] = y[f]
    BY OverIs
  <2>2. "is_hidden" \in DOMAIN x /\ "is_hidden" \in DOMAIN y
    BY <1>1 DEF IsDocument
  <2> HIDE DEF a, b
  <2>3. DOMAIN a = DOMAIN b /\ \A f \in DOMAIN a \ {"is_hidden"} : a[f] = b[f]
    BY <1>1, <2>1 DEF LikeRows
  <2>4. b.is_hidden => a.is_hidden
    BY <1>1, <2>1, <2>2 DEF LikeRows
  <2> QED
    BY <2>3, <2>4 DEF LikeRows, a, b
<1>2. /\ DOMAIN S = DOMAIN s /\ DOMAIN T = DOMAIN t
      /\ \A k \in DOMAIN s : S[k] = IF hit(k) THEN Over(p, s[k]) ELSE s[k]
      /\ \A k \in DOMAIN t : T[k] = IF hit(k) THEN Over(p, t[k]) ELSE t[k]
  BY DEF PatchedAt
<1> HIDE DEF p, hit, S, T
<1>3. ASSUME NEW k \in DOMAIN t PROVE LikeRows(S[k], T[k])
  <2>1. k \in DOMAIN s /\ IsDocument(s[k]) /\ IsDocument(t[k]) /\ LikeRows(s[k], t[k])
    BY DEF LikeDocs, DocsOK
  <2>2. LikeRows(Over(p, s[k]), Over(p, t[k]))
    BY <1>1, <2>1
  <2> QED
    BY <1>2, <2>1, <2>2
<1> QED
  BY <1>2, <1>3 DEF LikeDocs, S, T

LEMMA DeletionsKeepLikeness ==
  ASSUME NEW s, DocsOK(s), NEW t, DocsOK(t), LikeDocs(s, t), NEW co, NEW cond
  PROVE  LikeDocs(Without(s, Condemned(s, co, cond)), Without(t, Condemned(t, co, cond)))
<1>1. DOMAIN s = DOMAIN t /\ \A k \in DOMAIN t : s[k].timestamp = t[k].timestamp
  BY DEF LikeDocs, LikeRows, DocsOK, IsDocument
<1>2. Condemned(s, co, cond) = Condemned(t, co, cond)
  BY <1>1 DEF Condemned
<1> DEFINE gone == Condemned(t, co, cond)
           S == Without(s, gone)
           T == Without(t, gone)
<1> HIDE DEF gone
<1>3. DOMAIN S = DOMAIN s \ gone /\ \A k \in DOMAIN s \ gone : S[k] = s[k]
  BY WithoutIs
<1>4. DOMAIN T = DOMAIN t \ gone /\ \A k \in DOMAIN t \ gone : T[k] = t[k]
  BY WithoutIs
<1> HIDE DEF S, T
<1>5. LikeDocs(S, T)
  BY <1>3, <1>4 DEF LikeDocs
<1> QED
  BY <1>2, <1>5 DEF gone, S, T

\* What the caches have in common.
InCommon ==
  /\ proxiedCache = sqlCache
  /\ popped # Nil => Cardinality(popped) = 1
  /\ redisCache.queues = sqlCache.queues
  /\ LikeDocs(sqlCache.docs, mongoCache.docs)
  /\ redisCache.docs = mongoCache.docs
  /\ mongoCache.points = sqlCache.points
  /\ DOMAIN redisCache.points \subseteq DOMAIN sqlCache.points

\* What a call makes of the tables that are compared.
Steps(q, s, t, p, g) ==
  /\ sqlCache'.queues = q /\ redisCache'.queues = q
  /\ sqlCache'.docs = s /\ mongoCache'.docs = t /\ redisCache'.docs = t
  /\ sqlCache'.points = p /\ mongoCache'.points = p /\ redisCache'.points = g

LEMMA CallsKeepCommon ==
  ASSUME CacheInv, InCommon, CacheNext
  PROVE  InCommon'
<1> DEFINE s == sqlCache
           m == mongoCache
           r == redisCache
<1>0. /\ IsCache(s) /\ IsCache(m) /\ IsCache(r) /\ QueuesOK(s.queues)
      /\ DocsOK(s.docs) /\ DocsOK(m.docs)
      /\ proxiedCache = s /\ r.queues = s.queues /\ r.docs = m.docs /\ m.points = s.points
      /\ LikeDocs(s.docs, m.docs) /\ DOMAIN r.points \subseteq DOMAIN s.points
  BY DEF CacheInv, CacheOK, InCommon
<1>100. ASSUME proxiedCache' = s', popped' = Nil \/ Cardinality(popped') = 1,
               NEW q, NEW x, NEW y, NEW p, NEW g, Steps(q, x, y, p, g),
               LikeDocs(x, y), DOMAIN g \subseteq DOMAIN p
        PROVE  InCommon'
  BY <1>100 DEF InCommon, Steps, LikeDocs, LikeRows
<1> DEFINE Ends(q, x, y, p, g) == proxiedCache' = s' /\ popped' = Nil /\ Steps(q, x, y, p, g)
<1>1. CASE SetValues
  <2>1. PICK rows \in ValueBatches :
          /\ s' = SC!Set(s, rows) /\ m' = MC!Set(m, rows) /\ r' = RC!Set(r, rows)
          /\ proxiedCache' = SC!Set(s, rows) /\ popped' = Nil
    BY <1>0, <1>1, ProxyCallsSQL DEF SetValues, Changed, Call
  <2>2. /\ SetsValues(s, s', Over(FirstRows(rows), s.values))
        /\ SetsValues(m, m', Over(LastRows(rows), m.values))
        /\ SetsValues(r, r', Over(LastRows(rows), r.values))
    BY <1>0, <2>1, SQLCacheDoes, MongoCacheDoes, RedisCacheDoes
  <2>3. Ends(s.queues, s.docs, m.docs, s.points, r.points)
    BY <1>0, <2>1, <2>2 DEF SetsValues, Steps
  <2> QED
    BY <1>0, <1>100, <2>3
<1>2. CASE DeleteValue
  <2>0. PICK rows \in ValueBatches : \E name \in KeysOf(rows) :
          /\ s' = SC!Delete(s, name) /\ m' = MC!Delete(m, name) /\ r' = RC!Delete(r, name)
          /\ proxiedCache' = PC!Delete(s, name) /\ popped' = Nil
    BY <1>0, <1>2 DEF DeleteValue, Changed, Call
  <2>1. PICK name \in KeysOf(rows) :
          /\ s' = SC!Delete(s, name) /\ m' = MC!Delete(m, name) /\ r' = RC!Delete(r, name)
          /\ proxiedCache' = SC!Delete(s, name) /\ popped' = Nil
    BY <2>0, ProxyCallsSQL
  <2>2. IsRecord(r.sets) /\ name \notin DOMAIN r.sets
    <3>1. KeysOf(rows) \cap SetNames = {}
      BY CallsAssumption
    <3> QED
      BY <3>1 DEF CacheInv, CacheOK
  <2>3. /\ SetsValues(s, s', Without(s.values, {name})) /\ SetsValues(m, m', Without(m.values, {name}))
        /\ SetsValues(r, r', Without(r.values, {name}))
    BY <1>0, <2>1, <2>2, SQLCacheDoes, MongoCacheDoes, RedisCacheDoesOthers
  <2>4. Ends(s.queues, s.docs, m.docs, s.points, r.points)
    BY <1>0, <2>1, <2>3 DEF SetsValues, Steps
  <2> QED
    BY <1>0, <1>100, <2>4
<1>3. ASSUME proxiedCache' = s', popped' = Nil,
             NEW a, NEW b, NEW c, SetsSets(s, s', a), SetsSets(m, m', b), SetsSets(r, r', c) \/ r' = r
      PROVE  InCommon'
  <2>1. Ends(s.queues, s.docs, m.docs, s.points, r.points)
    BY <1>0, <1>3 DEF SetsSets, Steps
  <2> QED
    BY <1>0, <1>100, <2>1
<1>4. CASE SetSet
  <2>1. PICK name \in SetNames, h \in SUBSET Members :
          /\ s' = SC!SetSet(s, name, h) /\ m' = MC!SetSet(m, name, h) /\ r' = RC!SetSet(r, name, h)
          /\ proxiedCache' = SC!SetSet(s, name, h) /\ popped' = Nil
    BY <1>0, <1>4, ProxyCallsSQL DEF SetSet, Changed, Call
  <2>2. /\ SetsSets(s, s', Holding(s.sets, name, h)) /\ SetsSets(m, m', Holding(m.sets, name, h))
        /\ IF h = {} THEN r' = r ELSE SetsSets(r, r', Holding(r.sets, name, h))
    BY <1>0, <2>1, SQLCacheDoesOthers, MongoCacheDoes, RedisCacheDoesOthers
  <2>3. SetsSets(r, r', Holding(r.sets, name, h)) \/ r' = r
    BY <2>2
  <2> QED
    BY <1>3, <2>1, <2>2, <2>3
<1>5. CASE AddSet
  <2>1. PICK name \in SetNames, h \in SUBSET Members :
          /\ s' = SC!AddSet(s, name, h) /\ m' = MC!AddSet(m, name, h) /\ r' = RC!AddSet(r, name, h)
          /\ proxiedCache' = SC!AddSet(s, name, h) /\ popped' = Nil
    BY <1>0, <1>5, ProxyCallsSQL DEF AddSet, Changed, Call
  <2>2. /\ SetsSets(s, s', Holding(s.sets, name, InSet(s.sets, name) \cup h))
        /\ SetsSets(m, m', Holding(m.sets, name, InSet(m.sets, name) \cup h))
        /\ SetsSets(r, r', Holding(r.sets, name, InSet(r.sets, name) \cup h))
    BY <1>0, <2>1, SQLCacheDoes, MongoCacheDoes, RedisCacheDoes
  <2> QED
    BY <1>3, <2>1, <2>2
<1>6. CASE RemSet
  <2>1. PICK name \in SetNames, h \in SUBSET Members :
          /\ s' = SC!RemSet(s, name, h) /\ m' = MC!RemSet(m, name, h) /\ r' = RC!RemSet(r, name, h)
          /\ proxiedCache' = SC!RemSet(s, name, h) /\ popped' = Nil
    BY <1>0, <1>6, ProxyCallsSQL DEF RemSet, Changed, Call
  <2>2. /\ SetsSets(s, s', Holding(s.sets, name, InSet(s.sets, name) \ h))
        /\ SetsSets(m, m', Holding(m.sets, name, InSet(m.sets, name) \ h))
        /\ SetsSets(r, r', Holding(r.sets, name, InSet(r.sets, name) \ h))
    BY <1>0, <2>1, SQLCacheDoes, MongoCacheDoes, RedisCacheDoes
  <2> QED
    BY <1>3, <2>1, <2>2
<1>7. CASE Push
  <2>1. PICK name \in QueueNames, x \in Messages :
          /\ s' = SC!Push(s, name, x) /\ m' = MC!Push(m, name, x) /\ r' = RC!Push(r, name, x)
          /\ proxiedCache' = SC!Push(s, name, x) /\ popped' = Nil
    BY <1>0, <1>7, ProxyCallsSQL DEF Push, Changed, Call
  <2>2. /\ SetsQueues(s, s', Pushed(s.queues, name, x)) /\ SetsQueues(m, m', Pushed(m.queues, name, x))
        /\ SetsQueues(r, r', Pushed(r.queues, name, x))
    BY <1>0, <2>1, SQLCacheDoes, MongoCacheDoes, RedisCacheDoes
  <2>3. Ends(Pushed(s.queues, name, x), s.docs, m.docs, s.points, r.points)
    BY <1>0, <2>1, <2>2 DEF SetsQueues, Steps
  <2> QED
    BY <1>0, <1>100, <2>3
<1>8. CASE Pop
  <2>1. PICK name \in QueueNames :
          /\ s' = SC!Pop(s, name).db /\ m' = MC!Pop(m, name).db /\ r' = RC!Pop(r, name).db
          /\ proxiedCache' = PC!Pop(s, name).db
          /\ popped' = {SC!Pop(s, name).value, RC!Pop(r, name).value, PC!Pop(s, name).value}
    BY <1>0, <1>8 DEF Pop, Call
  <2>2. IsQueue(s.queues[name]) /\ IsQueue(m.queues[name]) /\ IsQueue(r.queues[name])
    BY DEF CacheInv, CacheOK, QueuesOK
  <2>3. /\ Pops(s, SC!Pop(s, name), name) /\ Pops(m, MC!Pop(m, name), name) /\ Pops(r, RC!Pop(r, name), name)
    BY <1>0, <2>2, SQLCacheDoesOthers, MongoCacheDoesOthers, RedisCacheDoesOthers
  <2>4. PC!Pop(s, name).db = SC!Pop(s, name).db /\ PC!Pop(s, name).value = SC!Pop(s, name).value
    BY <1>0, <2>2, ProxyPops
  <2>5. /\ m'.docs = m.docs /\ m'.points = m.points
    BY <2>1, <2>3 DEF Pops, SetsQueues
  <2>6. /\ s'.docs = s.docs /\ s'.points = s.points /\ r'.docs = r.docs /\ r'.points = r.points
        /\ r'.queues = s'.queues
    BY <1>0, <2>1, <2>3 DEF Pops, SetsQueues
  <2>7. RC!Pop(r, name).value = SC!Pop(s, name).value
    BY <1>0, <2>3 DEF Pops
  <2>8. Cardinality(popped') = 1
    <3> DEFINE v == SC!Pop(s, name).value
    <3>1. popped' = {v}
      BY <2>1, <2>4, <2>7
    <3> HIDE DEF v
    <3> QED
      BY <3>1, FS_Singleton
  <2>9. Steps(s'.queues, s.docs, m.docs, s.points, r.points)
    BY <1>0, <2>5, <2>6 DEF Steps
  <2> QED
    BY <1>0, <1>100, <2>1, <2>4, <2>8, <2>9
<1>9. CASE AddScores
  <2>1. PICK d \in DocumentSets :
          /\ s' = SC!AddScores(s, d.collection, d.subset, d.rows)
          /\ m' = MC!AddScores(m, d.collection, d.subset, d.rows)
          /\ r' = RC!AddScores(r, d.collection, d.subset, d.rows)
          /\ proxiedCache' = SC!AddScores(s, d.collection, d.subset, d.rows) /\ popped' = Nil
    BY <1>0, <1>9, ProxyCallsSQL DEF AddScores, Changed, Call
  <2> DEFINE x == WrittenAsHidden(s.docs, d.collection, d.subset, d.rows)
             y == Written(m.docs, d.collection, d.subset, d.rows)
  <2>2. SetsDocs(s, s', x) /\ SetsDocs(m, m', y) /\ SetsDocs(r, r', y)
    BY <1>0, <2>1, SQLCacheDoes, MongoCacheDoes, RedisCacheDoes
  <2>3. LikeDocs(x, y)
    BY <1>0, WritesKeepLikeness
  <2> HIDE DEF x, y
  <2>4. Ends(s.queues, x, y, s.points, r.points)
    BY <1>0, <2>1, <2>2 DEF SetsDocs, Steps
  <2> QED
    BY <1>0, <1>100, <2>3, <2>4
<1>10. CASE UpdateScores
  <2>1. PICK u \in Patches :
          /\ s' = SC!UpdateScores(s, u.collections, u.subset, u.id, u.patch)
          /\ m' = MC!UpdateScores(m, u.collections, u.subset, u.id, u.patch)
          /\ r' = RC!UpdateScores(r, u.collections, u.subset, u.id, u.patch)
          /\ proxiedCache' = SC!UpdateScores(s, u.collections, u.subset, u.id, u.patch) /\ popped' = Nil
    BY <1>0, <1>10, ProxySendsPatches DEF UpdateScores, Changed, Call
  <2>2. u.id # Nil /\ u.subset # AnySubset
    BY CallsAssumption
  <2> DEFINE x == PatchedAt(s.docs, u.collections, u.subset, u.id, u.patch)
             y == PatchedAt(m.docs, u.collections, u.subset, u.id, u.patch)
  <2>3. SetsDocs(s, s', x) /\ SetsDocs(m, m', y) /\ SetsDocs(r, r', y)
    BY <1>0, <2>1, <2>2, SQLCacheDoes, MongoCacheDoes, RedisCacheDoes
  <2>4. LikeDocs(x, y)
    BY <1>0, PatchesKeepLikeness
  <2> HIDE DEF x, y
  <2>5. Ends(s.queues, x, y, s.points, r.points)
    BY <1>0, <2>1, <2>3 DEF SetsDocs, Steps
  <2> QED
    BY <1>0, <1>100, <2>4, <2>5
<1>11. CASE DeleteScores
  <2>1. PICK a \in Conditions :
          /\ s' = SC!DeleteScores(s, a.collections, a) /\ m' = MC!DeleteScores(m, a.collections, a)
          /\ r' = RC!DeleteScores(r, a.collections, a)
          /\ proxiedCache' = SC!DeleteScores(s, a.collections, a) /\ popped' = Nil
    BY <1>0, <1>11, ProxyCallsSQL DEF DeleteScores, Changed, Call
  <2>a. a.subset # AnySubset
    BY CallsAssumption
  <2> DEFINE x == IF IsValid(a) THEN Without(s.docs, Condemned(s.docs, a.collections, a)) ELSE s.docs
             y == IF IsValid(a) THEN Without(m.docs, Condemned(m.docs, a.collections, a)) ELSE m.docs
  <2>2. SetsDocs(s, s', x) /\ SetsDocs(m, m', y) /\ SetsDocs(r, r', y)
    BY <1>0, <2>1, <2>a, SQLCacheDoes, MongoCacheDoes, RedisCacheDoes
  <2>3. LikeDocs(x, y)
    BY <1>0, DeletionsKeepLikeness
  <2> HIDE DEF x, y
  <2>4. Ends(s.queues, x, y, s.points, r.points)
    BY <1>0, <2>1, <2>2 DEF SetsDocs, Steps
  <2> QED
    BY <1>0, <1>100, <2>3, <2>4
<1>12. CASE AddTimeSeriesPoints
  <2>1. PICK new \in PointSets :
          /\ s' = SC!AddTimeSeriesPoints(s, new) /\ m' = MC!AddTimeSeriesPoints(m, new)
          /\ r' = RC!AddTimeSeriesPoints(r, new)
          /\ proxiedCache' = SC!AddTimeSeriesPoints(s, new) /\ popped' = Nil
    BY <1>0, <1>12, ProxyCallsSQL DEF AddTimeSeriesPoints, Changed, Call
  <2> DEFINE p == Over(new, s.points)
             g == Over(new, r.points)
  <2>2. SetsPoints(s, s', p) /\ SetsPoints(m, m', p) /\ SetsPoints(r, r', g)
    BY <1>0, <2>1, SQLCacheDoes, MongoCacheDoes, RedisCacheDoes
  <2>3. DOMAIN g \subseteq DOMAIN p
    <3>1. DOMAIN g = DOMAIN new \cup DOMAIN r.points
      BY OverIs
    <3>2. DOMAIN p = DOMAIN new \cup DOMAIN s.points
      BY OverIs
    <3> QED
      BY <1>0, <3>1, <3>2
  <2> HIDE DEF p, g
  <2>4. Ends(s.queues, s.docs, m.docs, p, g)
    BY <1>0, <2>1, <2>2 DEF SetsPoints, Steps
  <2> QED
    BY <1>0, <1>100, <2>3, <2>4
<1>13. CASE PurgeCache
  <2>1. /\ s' = SC!Purge(s) /\ m' = MC!Purge(m) /\ r' = RC!Purge(r)
        /\ proxiedCache' = SC!Purge(s) /\ popped' = Nil
    BY <1>0, <1>13 DEF PurgeCache, Changed, Call
  <2>2. /\ Clears(s, s', Emptied(s.queues), s.points) /\ Clears(m, m', m.queues, m.points)
        /\ Clears(r, r', Emptied(r.queues), EmptyTable)
    BY <1>0, <2>1, SQLCacheDoesOthers, MongoCacheDoesOthers, RedisCacheDoesOthers
  <2> DEFINE none == EmptyTable
  <2>3. DOMAIN none = {}
    BY EmptyTablesAre
  <2>4. LikeDocs(none, none) /\ DOMAIN none \subseteq DOMAIN s.points
    BY <2>3 DEF LikeDocs
  <2> HIDE DEF none
  <2>5. Ends(Emptied(s.queues), none, none, s.points, none)
    BY <1>0, <2>1, <2>2 DEF Clears, Steps, none
  <2> QED
    BY <1>100, <2>4, <2>5
<1> QED
  BY <1>1, <1>2, <1>4, <1>5, <1>6, <1>7, <1>8, <1>9, <1>10, <1>11, <1>12, <1>13 DEF CacheNext

----------------------------------------------------------------------------
(* The caches answer alike *)

\* One answer, of a sequence of documents as long as there are hits.
LEMMA WindowsAgree ==
  ASSUME NEW hits, NEW n \in Nat, NEW s \in [1 .. n -> hits], NEW begin \in Nat
  PROVE  /\ Len(s) \in Nat
         /\ \A end \in Nat : SC!Window(s, begin, end)
              = SubSeq(s, begin + 1, IF end < Len(s) THEN end ELSE Len(s))
         /\ SC!Window(s, begin, Nil) = SubSeq(s, begin + 1, Len(s))
<1>1. Len(s) \in Nat
  <2>1. s \in Seq(hits)
    OBVIOUS
  <2> QED
    BY <2>1, LenProperties
<1>2. \A end \in Nat : end # Nil
  BY CallsAssumption
<1>3. \A end \in Nat : (IF end = Nil \/ end > Len(s) THEN Len(s) ELSE end)
                         = (IF end < Len(s) THEN end ELSE Len(s))
  BY <1>1, <1>2
<1> QED
  BY <1>1, <1>3 DEF SC!Window

LEMMA CountsAgree ==
  \A S : /\ SC!Cardinality(S) = Cardinality(S) /\ MC!Cardinality(S) = Cardinality(S)
         /\ RC!Cardinality(S) = Cardinality(S) /\ PC!Store!Cardinality(S) = Cardinality(S)
  BY DEF SC!Cardinality, MC!Cardinality, RC!Cardinality, PC!Store!Cardinality, Cardinality

LEMMA HitsAreFinite ==
  ASSUME NEW c, DocsOK(c.docs), NEW co, NEW s, NEW query
  PROVE  Cardinality(SC!Found(c, co, s, query)) \in Nat
<1>1. SC!Found(c, co, s, query) \subseteq DOMAIN c.docs /\ IsFiniteSet(DOMAIN c.docs)
  BY DEF SC!Found, DocsOK
<1> QED
  BY <1>1, FS_Subset, FS_CardinalityType

LEMMA SearchesAgree ==
  ASSUME CacheInv, InCommon, sqlCache.docs = mongoCache.docs, NEW q \in Searches
  PROVE  SameSearch(q)
<1> DEFINE hits == SC!Found(sqlCache, q.collection, q.subset, q.query)
           n == Cardinality(hits)
           ranked == SC!Ranked(sqlCache, hits)
           b == q.begin
           answers == SC!SearchScores(sqlCache, q.collection, q.subset, q.query, q.begin, q.end)
<1>1. n \in Nat /\ ranked \subseteq [1 .. n -> hits]
  BY HitsAreFinite, CountsAgree DEF CacheInv, CacheOK, SC!Ranked
<1>2. b \in Nat /\ (q.end # Nil => q.end \in Nat /\ b < q.end) /\ Nil \notin Nat /\ PageLimit \in Nat
  BY CallsAssumption
<1>3. answers = {SC!Window(s, b, q.end) : s \in ranked}
  BY DEF SC!SearchScores
<1>4. /\ MC!Found(mongoCache, q.collection, q.subset, q.query) = hits
      /\ MC!Ranked(mongoCache, hits) = ranked
  BY CountsAgree DEF MC!Found, SC!Found, MC!Ranked, SC!Ranked
<1>5. /\ q.subset # AnySubset => RC!Found(redisCache, q.collection, q.subset, q.query) = hits
      /\ RC!Ranked(redisCache, hits) = ranked
  <2>1. redisCache.docs = sqlCache.docs
    BY DEF InCommon
  <2> QED
    BY <2>1, CountsAgree DEF RC!Found, SC!Found, RC!Ranked, SC!Ranked
<1> HIDE DEF hits, n, ranked, answers
<1>6. \A s \in ranked :
        /\ Len(s) \in Nat
        /\ \A end \in Nat : SC!Window(s, b, end)
             = SubSeq(s, b + 1, IF end < Len(s) THEN end ELSE Len(s))
        /\ SC!Window(s, b, Nil) = SubSeq(s, b + 1, Len(s))
  BY <1>1, <1>2, WindowsAgree
<1>7. MC!SearchScores(mongoCache, q.collection, q.subset, q.query, q.begin, q.end) = answers
  <2> DEFINE limited == q.end # Nil /\ q.end # b
             cut(s) == SubSeq(s, b + 1, IF limited /\ q.end < Len(s) THEN q.end ELSE Len(s))
  <2>1. MC!SearchScores(mongoCache, q.collection, q.subset, q.query, q.begin, q.end)
          = {cut(s) : s \in ranked}
    BY <1>4 DEF MC!SearchScores
  <2>2. ASSUME NEW s \in ranked PROVE cut(s) = SC!Window(s, b, q.end)
    <3>1. CASE q.end = Nil
      <4>1. cut(s) = SubSeq(s, b + 1, Len(s))
        BY <3>1
      <4> QED
        BY <1>6, <3>1, <4>1
    <3>2. CASE q.end # Nil
      <4> DEFINE e == q.end
      <4>1. e \in Nat /\ limited
        BY <1>2, <3>2
      <4>2. cut(s) = SubSeq(s, b + 1, IF e < Len(s) THEN e ELSE Len(s))
        BY <4>1
      <4> HIDE DEF e, cut
      <4>3. SC!Window(s, b, e) = SubSeq(s, b + 1, IF e < Len(s) THEN e ELSE Len(s))
        BY <1>6, <4>1
      <4> QED
        BY <4>2, <4>3 DEF e
    <3> QED
      BY <3>1, <3>2
  <2> HIDE DEF cut
  <2> QED
    BY <1>3, <2>1, <2>2
<1>8. ASSUME q.subset # AnySubset
      PROVE  RC!SearchScores(redisCache, q.collection, q.subset, q.query, q.begin, q.end)
               = IF q.end = Nil
                   THEN SC!SearchScores(sqlCache, q.collection, q.subset, q.query, q.begin, q.begin + PageLimit)
                   ELSE answers
  <2> DEFINE stop == IF q.end = Nil THEN b + PageLimit ELSE q.end
             cut(s) == SubSeq(s, b + 1, IF stop < Len(s) THEN stop ELSE Len(s))
  <2>1. RC!SearchScores(redisCache, q.collection, q.subset, q.query, q.begin, q.end)
          = {cut(s) : s \in ranked}
    BY <1>5, <1>8 DEF RC!SearchScores
  <2>2. stop \in Nat
    BY <1>2
  <2>3. \A s \in ranked : cut(s) = SC!Window(s, b, stop)
    <3> HIDE DEF stop
    <3> QED
      BY <1>6, <2>2
  <2>4. SC!SearchScores(sqlCache, q.collection, q.subset, q.query, q.begin, q.begin + PageLimit)
          = {SC!Window(s, b, b + PageLimit) : s \in ranked}
    BY DEF SC!SearchScores, ranked, hits
  <2>5. {cut(s) : s \in ranked} = {SC!Window(s, b, stop) : s \in ranked}
    <3> HIDE DEF cut
    <3> QED
      BY <2>3
  <2> HIDE DEF cut
  <2>6. CASE q.end = Nil
    BY <2>1, <2>4, <2>5, <2>6
  <2>7. CASE q.end # Nil
    BY <1>3, <2>1, <2>5, <2>7
  <2> QED
    BY <2>6, <2>7
<1> QED
  BY <1>7, <1>8 DEF SameSearch, answers

\* Points of one name are ordered by their times.
LEMMA PointsAgree ==
  ASSUME CacheInv, InCommon, NEW name, NEW begin, NEW end
  PROVE  SamePoints(name, begin, end)
<1> DEFINE points == SC!GetTimeSeriesPoints(sqlCache, name, begin, end)
           shown == RC!GetTimeSeriesPoints(redisCache, name, begin, end)
           K == {p \in DOMAIN redisCache.points : p.name = name /\ p.time >= begin /\ p.time < end}
           R == {x \in K \X K : x[1].time < x[2].time}
<1>0. /\ mongoCache.points = sqlCache.points /\ DOMAIN redisCache.points \subseteq DOMAIN sqlCache.points
      /\ PointsOK(redisCache.points) /\ DefaultRows \in Nat
  BY CallsAssumption DEF InCommon, CacheInv, CacheOK
<1>1. MC!GetTimeSeriesPoints(mongoCache, name, begin, end) = points
  BY <1>0 DEF MC!GetTimeSeriesPoints, SC!GetTimeSeriesPoints
<1>2. K \subseteq points /\ (redisCache.points = sqlCache.points => K = points)
  BY <1>0 DEF SC!GetTimeSeriesPoints
<1>3. IsFiniteSet(K) /\ \A p \in K : p = [name |-> name, time |-> p.time] /\ p.time \in Nat
  <2>1. K \subseteq DOMAIN redisCache.points /\ IsFiniteSet(DOMAIN redisCache.points)
    BY <1>0 DEF PointsOK
  <2>2. IsFiniteSet(K)
    BY <2>1, FS_Subset
  <2> QED
    BY <1>0, <2>2 DEF PointsOK
<1>4. shown = {p \in K : Cardinality({h \in K : h.time < p.time}) < DefaultRows}
  BY CountsAgree DEF RC!GetTimeSeriesPoints, RC!FirstKeys
<1>5. \A p, h \in K : <<h, p>> \in R <=> h.time < p.time
  OBVIOUS
<1>6. Orders(R, K)
  <2> HIDE DEF K, R
  <2>1. \A a, b \in K : a = b \/ a.time < b.time \/ b.time < a.time
    BY <1>3
  <2> QED
    BY <1>3, <1>5, <2>1 DEF Orders
<1>7. shown = Firsts(R, K, DefaultRows)
  <2>1. ASSUME NEW p \in K PROVE {h \in K : h.time < p.time} = Below(R, K, p)
    BY <1>5 DEF Below
  <2> HIDE DEF K, R, shown
  <2> QED
    BY <1>4, <2>1 DEF Firsts, Rank
<1>8. Cardinality(Firsts(R, K, DefaultRows)) # DefaultRows => Firsts(R, K, DefaultRows) = K
  <2> HIDE DEF K, R
  <2> QED
    BY <1>0, <1>3, <1>6, FirstsAre
<1>9. shown \subseteq K
  BY <1>4
<1> HIDE DEF K, R, shown, points
<1> QED
  BY <1>1, <1>2, <1>7, <1>8, <1>9 DEF SamePoints, shown, points

LEMMA ProxyAnswersAsSQL ==
  ASSUME CacheInv, InCommon
  PROVE  ProxiedCacheAgrees
<1>1. proxiedCache = sqlCache /\ redisCache.queues = sqlCache.queues
  BY DEF InCommon
<1>2. \A name \in SetNames : PC!GetSet(proxiedCache, name) = SC!GetSet(sqlCache, name)
  BY <1>1 DEF PC!GetSet, PC!ServeGetSet, PC!Store!GetSet, SC!GetSet
<1>3. \A name \in QueueNames : PC!Remain(proxiedCache, name) = RC!Remain(redisCache, name)
  BY <1>1 DEF PC!Remain, PC!ServeRemain, PC!Store!Remain, RC!Remain
<1>4. \A name : PC!Get(proxiedCache, name) = SC!Get(sqlCache, name)
  <2>1. \A name : PC!Store!Get(sqlCache, name) = SC!Get(sqlCache, name)
    BY DEF PC!Store!Get, SC!Get
  <2>2. \A name : SC!Get(sqlCache, name) = NotFound \/ SC!Get(sqlCache, name) # Nil
    BY DEF SC!Get, CacheInv, CacheOK
  <2> QED
    BY <1>1, <2>1, <2>2 DEF PC!Get, PC!ServeGet
<1>5. \A q \in Searches :
        PC!SearchScores(proxiedCache, q.collection, q.subset, q.query, q.begin, q.end)
          = SC!SearchScores(sqlCache, q.collection, q.subset, q.query, q.begin, q.end)
  <2>1. \A co, s, query : PC!Store!Found(sqlCache, co, s, query) = SC!Found(sqlCache, co, s, query)
    BY DEF PC!Store!Found, SC!Found
  <2>2. \A hits : PC!Store!Ranked(sqlCache, hits) = SC!Ranked(sqlCache, hits)
    BY CountsAgree DEF PC!Store!Ranked, SC!Ranked
  <2>3. \A s, begin, end : PC!Store!Window(s, begin, end) = SC!Window(s, begin, end)
    BY DEF PC!Store!Window, SC!Window
  <2>4. \A co, s, query, begin, end :
          PC!Store!SearchScores(sqlCache, co, s, query, begin, end)
            = SC!SearchScores(sqlCache, co, s, query, begin, end)
    BY <2>1, <2>2, <2>3 DEF PC!Store!SearchScores, SC!SearchScores
  <2> QED
    BY <1>1, <2>4 DEF PC!SearchScores, PC!ServeSearchScores
<1> QED
  BY <1>1, <1>2, <1>3, <1>4, <1>5, Zenon DEF ProxiedCacheAgrees

LEMMA CommonStarts ==
  ASSUME CacheInit
  PROVE  InCommon
<1> DEFINE none == EmptyTable
<1>1. DOMAIN none = {} /\ LikeDocs(none, none)
  BY EmptyTablesAre DEF LikeDocs
<1>2. /\ sqlCache.docs = none /\ mongoCache.docs = none /\ redisCache.docs = none
      /\ sqlCache.points = none /\ mongoCache.points = none /\ redisCache.points = none
      /\ redisCache.queues = sqlCache.queues /\ proxiedCache = sqlCache /\ popped = Nil
  BY EmptyCacheIs DEF CacheInit
<1> HIDE DEF none
<1> QED
  BY <1>1, <1>2 DEF InCommon

LEMMA CommonSteps ==
  ASSUME CacheInv, InCommon, [CacheNext]_cacheVars
  PROVE  InCommon'
<1>1. CASE UNCHANGED cacheVars
  BY <1>1 DEF cacheVars, InCommon, LikeDocs, LikeRows
<1> QED
  BY <1>1, CallsKeepCommon

\* Whatever is written, patched, deleted, pushed and purged, the SQL store,
\* MongoDB, Redis and the SQL store behind the proxy pop one message, hold
\* the same documents but for is_hidden, find the same documents in the same
\* orders, and show the same points up to the rows that Redis answers
\* (storage/cache).
THEOREM CachesAnswerAlike == StoresSpec => []CacheStoresAgree
<1>1. StoresInit => CacheInv /\ InCommon
  BY CacheStarts, CommonStarts DEF StoresInit
<1>2. CacheInv /\ InCommon /\ [StoresNext]_storeVars => CacheInv' /\ InCommon'
  BY CacheSteps, CommonSteps, CachesMove
<1>3. CacheInv /\ InCommon => CacheStoresAgree
  <2> SUFFICES ASSUME CacheInv, InCommon PROVE CachesAgree /\ ProxiedCacheAgrees
    BY DEF CacheStoresAgree
  <2>1. SameButHidden(sqlCache.docs, mongoCache.docs)
    BY LikeDocsIs DEF CacheInv, CacheOK, InCommon
  <2>2. sqlCache.docs = mongoCache.docs => \A q \in Searches : SameSearch(q)
    BY SearchesAgree
  <2>3. \A name, begin, end : SamePoints(name, begin, end)
    BY PointsAgree
  <2>4. CachesAgree
    BY <2>1, <2>2, <2>3 DEF CachesAgree, InCommon
  <2> QED
    BY <2>4, ProxyAnswersAsSQL
<1> QED
  BY <1>1, <1>2, <1>3, PTL DEF StoresSpec

=============================================================================
