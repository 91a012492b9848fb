---------------------------- MODULE IndexProofs ----------------------------
(***************************************************************************)
(* What TLAPS proves of IndexBuild, for any number of vectors, goroutines  *)
(* and levels: the links of a vector index hold.                           *)
(***************************************************************************)
EXTENDS IndexBuild, Sequences, FiniteSetTheorems, WellFoundedInduction, TLAPS

----------------------------------------------------------------------------
(* The nearest of a set *)

LEMMA NearestAmong ==
  ASSUME NEW q, NEW S, NEW n
  PROVE  Nearest(q, S, n) \subseteq S
BY DEF Nearest

LEMMA VectorsFinite ==
  ASSUME NEW S \in SUBSET Vector
  PROVE  IsFiniteSet(S) /\ Cardinality(S) \in Nat
<1>1. IsFiniteSet(Vector)
  BY IndexAssumption, FS_Interval DEF Vector
<1> QED
  BY <1>1, FS_Subset, FS_CardinalityType

\* Shrinking leaves as many connections as are wanted.
LEMMA NearestEnough ==
  ASSUME NEW q \in Vector, NEW S \in SUBSET Vector, NEW n \in Nat, Cardinality(S) >= n
  PROVE  Cardinality(Nearest(q, S, n)) >= n
<1> DEFINE near == Nearest(q, S, n)
           far == {Distance(q, d) : d \in S \ near}
<1> SUFFICES ASSUME ~(Cardinality(near) >= n) PROVE FALSE
  OBVIOUS
<1>1. near \subseteq S /\ near \in SUBSET Vector
  BY NearestAmong
<1>2. Cardinality(near) \in Nat /\ Cardinality(S) \in Nat /\ Cardinality(near) < n
  BY <1>1, VectorsFinite
<1>3. near # S
  BY <1>2
<1>4. far \subseteq Nat /\ far # {}
  <2> HIDE DEF near
  <2> QED
    BY <1>1, <1>3, DistancesDiffer
<1>5. PICK m \in far : \A k \in far : ~(<<k, m>> \in OpToRel(<, Nat))
  BY <1>4, WFMin, NatLessThanWellFounded
<1>6. \A k \in far : ~(k < m)
  BY <1>4, <1>5 DEF OpToRel
<1>7. PICK x \in S \ near : m = Distance(q, x)
  BY <1>5
<1>8. {d \in S : Distance(q, d) < Distance(q, x)} \subseteq near
  <2> HIDE DEF near
  <2> QED
    BY <1>6, <1>7
<1>9. Cardinality({d \in S : Distance(q, d) < Distance(q, x)}) <= Cardinality(near)
  BY <1>1, <1>8, VectorsFinite, FS_Subset
<1>10. Cardinality({d \in S : Distance(q, d) < Distance(q, x)}) \in Nat
  BY VectorsFinite
<1>11. x \in near
  BY <1>2, <1>7, <1>9, <1>10 DEF Nearest
<1> QED
  BY <1>7, <1>11

----------------------------------------------------------------------------
(* The inductive invariant *)

InsertionRecord ==
  [step : {"lock", "search", "link", "raise", "copied", "dead"}, vector : Vector, level : 0 .. MaxLevel,
   oldTop : Nat, layer : Nat, found : SUBSET Vector, left : SUBSET Vector, seen : SUBSET Vector,
   broken : SUBSET Vector, copied : Seq(SUBSET Vector)]

Layer(L) == DOMAIN neighbors[L]
Active(g) == insertion[g].step # "idle"
Of(g) == insertion[g].vector

IndexTypeOK ==
  /\ dealt \in 0 .. NumVectors /\ top \in Nat /\ enterPoint \in Vector
  /\ dealt = 0 => top = 0
  /\ DOMAIN neighbors = 0 .. top
  /\ \A L \in 0 .. top : /\ Layer(L) \subseteq 1 .. dealt
                         /\ \A v \in Layer(L) : neighbors[L][v] \subseteq Vector
  /\ insertion \in [Goroutine -> {Idle} \cup InsertionRecord]

\* Every vector is inserted by one goroutine, below the top it has seen.
VectorsApart ==
  /\ \A g \in Goroutine : Active(g) => /\ Of(g) <= dealt
                                       /\ insertion[g].layer <= insertion[g].oldTop
                                       /\ insertion[g].oldTop <= top
  /\ \A g, h \in Goroutine : Active(g) /\ Active(h) /\ Of(g) = Of(h) => g = h

\* What holds of the bottom layer, even when others have lost vectors: nothing
\* points out of it, and a goroutine has found what is in it.
BottomOwn(i) ==
  /\ i.step \in {"lock", "search"} \/ (i.step = "link" /\ i.layer > 0) => i.vector \notin Layer(0)
  /\ i.step \in {"lock", "search"} /\ i.layer = 0 => i.found \ i.left \subseteq Layer(0)
  /\ i.step = "link" /\ i.layer = 0 => i.vector \in Layer(0) /\ i.left \subseteq neighbors[0][i.vector]

\* A connection is not mutual yet while its goroutine links, or for ever if it
\* has panicked.
Mutual(v, e) == v \in neighbors[0][e] \/ Cardinality(neighbors[0][e]) >= MaxConnection
Pending(v, e) ==
  \E g \in Goroutine :
    /\ Active(g) /\ Of(g) = v
    /\ \/ Dead(g)
       \/ Stands(g, "link") /\ insertion[g].layer = 0 /\ e \in insertion[g].left

Bottom ==
  /\ \A g \in Goroutine : BottomOwn(insertion[g])
  /\ \A v \in Layer(0) : neighbors[0][v] \subseteq Layer(0)
  /\ \A v, e \in Layer(0) : e \in neighbors[0][v] => Mutual(v, e) \/ Pending(v, e)

\* What holds of all layers until two insertions disturb each other: a vector
\* is in those its goroutine has come to, and above the bottom in all below
\* unless its goroutine is on the way; candidates are in this layer or above.
OwnLayers(i) ==
  /\ i.step = "lock" => i.layer = i.oldTop
  /\ i.step = "link" => i.layer <= i.level
  /\ \A L \in 0 .. top :
       /\ i.step = "lock" => i.vector \notin Layer(L)
       /\ i.step = "search" => (i.vector \in Layer(L) <=> i.layer < L /\ L <= i.level /\ L <= i.oldTop)
       /\ i.step = "link" => (i.vector \in Layer(L) <=> i.layer <= L /\ L <= i.level /\ L <= i.oldTop)
       /\ i.step \in {"raise", "copied"} => (i.vector \in Layer(L) <=> L <= i.oldTop)

FoundLayers(i) ==
  /\ i.step \in {"lock", "search"} => \A x \in i.found : \E L \in i.layer .. top : x \in Layer(L)
  /\ i.step \in {"lock", "search"} => i.found \ i.left \subseteq Layer(i.layer)
  /\ i.step = "link" => i.found \subseteq Layer(i.layer)
  /\ i.step \in {"lock", "search", "link"} => i.left \subseteq i.found

Brings(i, L) == \/ i.step = "search" /\ L <= i.layer
                \/ i.step = "link" /\ L < i.layer
ComingTo(v, L) == \E g \in Goroutine : Active(g) /\ Of(g) = v /\ Brings(insertion[g], L)

LayersOK ==
  /\ \A g \in Goroutine : OwnLayers(insertion[g]) /\ FoundLayers(insertion[g]) /\ ~Dead(g)
  /\ \A L \in 0 .. top : \A v \in Layer(L) : neighbors[L][v] \subseteq Layer(L)
  /\ \A L \in 0 .. top : \A v \in Layer(L) : \A K \in 0 .. L : v \in Layer(K) \/ ComingTo(v, K)
  /\ dealt # 0 => enterPoint \in Layer(top)

IndexIInv == IndexTypeOK /\ VectorsApart /\ Bottom /\ (~raced => LayersOK)

----------------------------------------------------------------------------
(* Types, and who inserts what *)

LEMMA ActiveRecord ==
  ASSUME IndexTypeOK, NEW g \in Goroutine, Active(g)
  PROVE  insertion[g] \in InsertionRecord
BY DEF IndexTypeOK, Active, Idle

\* A goroutine goes on with its vector, no further down than its top.
LEMMA GoesOn ==
  ASSUME IndexTypeOK, VectorsApart, NEW g \in Goroutine, Active(g), NEW r \in InsertionRecord \cup {Idle},
         insertion' = [insertion EXCEPT ![g] = r],
         r # Idle => /\ r.vector = Of(g) /\ r.oldTop = insertion[g].oldTop /\ r.layer <= insertion[g].layer,
         dealt' = dealt, top' \in Nat, top' >= top
  PROVE  insertion' \in [Goroutine -> {Idle} \cup InsertionRecord] /\ VectorsApart'
<1>0. insertion[g] \in InsertionRecord
  BY ActiveRecord
<1>1. insertion' \in [Goroutine -> {Idle} \cup InsertionRecord]
  BY DEF IndexTypeOK
<1>2. \A h \in Goroutine : Active(h)' => /\ Active(h) /\ Of(h)' = Of(h) /\ insertion'[h].oldTop = insertion[h].oldTop
                                         /\ insertion'[h].layer <= insertion[h].layer
  <2> SUFFICES ASSUME NEW h \in Goroutine, Active(h)'
               PROVE  /\ Active(h) /\ Of(h)' = Of(h) /\ insertion'[h].oldTop = insertion[h].oldTop
                      /\ insertion'[h].layer <= insertion[h].layer
    OBVIOUS
  <2>1. CASE h = g
    BY <2>1 DEF IndexTypeOK, Active, Of, Idle
  <2>2. CASE h # g
    <3>1. insertion'[h] = insertion[h]
      BY <2>2 DEF IndexTypeOK
    <3>2. Active(h)
      BY <3>1 DEF Active
    <3>3. insertion[h].layer \in Nat
      BY <3>2, ActiveRecord DEF InsertionRecord
    <3> QED
      BY <3>1, <3>2, <3>3 DEF Of
  <2> QED
    BY <2>1, <2>2
<1>3. \A h \in Goroutine : Active(h)' => insertion'[h] \in InsertionRecord
  BY <1>1 DEF Active, Idle
<1>4. \A h \in Goroutine : Active(h) => insertion[h] \in InsertionRecord
  BY ActiveRecord
<1>5. top \in Nat /\ dealt \in Nat
  BY IndexAssumption DEF IndexTypeOK
<1>6. \A h \in Goroutine : Active(h)' => /\ Of(h)' <= dealt' /\ insertion'[h].layer <= insertion'[h].oldTop
                                         /\ insertion'[h].oldTop <= top'
  <2> SUFFICES ASSUME NEW h \in Goroutine, Active(h)'
               PROVE  /\ Of(h)' <= dealt' /\ insertion'[h].layer <= insertion'[h].oldTop
                      /\ insertion'[h].oldTop <= top'
    OBVIOUS
  <2>1. /\ insertion'[h].layer \in Nat /\ insertion[h].layer \in Nat /\ insertion[h].oldTop \in Nat
    BY <1>2, <1>3, <1>4 DEF InsertionRecord
  <2>2. Of(h) <= dealt /\ insertion[h].layer <= insertion[h].oldTop /\ insertion[h].oldTop <= top
    BY <1>2 DEF VectorsApart
  <2> QED
    BY <1>2, <1>5, <2>1, <2>2
<1>7. \A h, k \in Goroutine : Active(h)' /\ Active(k)' /\ Of(h)' = Of(k)' => h = k
  BY <1>2 DEF VectorsApart
<1> QED
  BY <1>1, <1>6, <1>7 DEF VectorsApart

LEMMA RecordGoesOn ==
  ASSUME NEW r \in InsertionRecord, NEW left \in SUBSET Vector
  PROVE  LET s == [r EXCEPT !.step = "link", !.left = left]
         IN s \in InsertionRecord /\ s.vector = r.vector /\ s.oldTop = r.oldTop /\ s.layer <= r.layer
<1> DEFINE s == [r EXCEPT !.step = "link", !.left = left]
<1> DEFINE u == [r EXCEPT !.step = "link"]
<1>1. u \in InsertionRecord
  BY DEF InsertionRecord
<1>2. u.vector = r.vector /\ u.oldTop = r.oldTop /\ u.layer = r.layer /\ r.layer \in Nat
  BY DEF InsertionRecord
<1>3. s = [u EXCEPT !.left = left]
  OBVIOUS
<1> HIDE DEF u, s
<1>4. s \in InsertionRecord
  BY <1>1, <1>3 DEF InsertionRecord
<1>5. s.vector = u.vector /\ s.oldTop = u.oldTop /\ s.layer = u.layer
  BY <1>1, <1>3 DEF InsertionRecord
<1> QED
  BY <1>2, <1>4, <1>5 DEF s

LEMMA RecordBreaks ==
  ASSUME NEW r \in InsertionRecord, NEW e \in Vector
  PROVE  LET s == [r EXCEPT !.step = "dead", !.broken = {e}]
         IN s \in InsertionRecord /\ s.vector = r.vector /\ s.oldTop = r.oldTop /\ s.layer <= r.layer
<1> DEFINE s == [r EXCEPT !.step = "dead", !.broken = {e}]
<1> DEFINE u == [r EXCEPT !.step = "dead"]
<1>1. u \in InsertionRecord
  BY DEF InsertionRecord
<1>2. u.vector = r.vector /\ u.oldTop = r.oldTop /\ u.layer = r.layer /\ r.layer \in Nat
  BY DEF InsertionRecord
<1>3. s = [u EXCEPT !.broken = {e}]
  OBVIOUS
<1> HIDE DEF u, s
<1>4. s \in InsertionRecord
  BY <1>1, <1>3 DEF InsertionRecord
<1>5. s.vector = u.vector /\ s.oldTop = u.oldTop /\ s.layer = u.layer
  BY <1>1, <1>3 DEF InsertionRecord
<1> QED
  BY <1>2, <1>4, <1>5 DEF s

LEMMA RecordCopies ==
  ASSUME NEW r \in InsertionRecord, NEW copied \in Seq(SUBSET Vector)
  PROVE  LET s == [r EXCEPT !.step = "copied", !.copied = copied]
         IN s \in InsertionRecord /\ s.vector = r.vector /\ s.oldTop = r.oldTop /\ s.layer <= r.layer
<1> DEFINE s == [r EXCEPT !.step = "copied", !.copied = copied]
<1> DEFINE u == [r EXCEPT !.step = "copied"]
<1>1. u \in InsertionRecord
  BY DEF InsertionRecord
<1>2. u.vector = r.vector /\ u.oldTop = r.oldTop /\ u.layer = r.layer /\ r.layer \in Nat
  BY DEF InsertionRecord
<1>3. s = [u EXCEPT !.copied = copied]
  OBVIOUS
<1> HIDE DEF u, s
<1>4. s \in InsertionRecord
  BY <1>1, <1>3 DEF InsertionRecord
<1>5. s.vector = u.vector /\ s.oldTop = u.oldTop /\ s.layer = u.layer
  BY <1>1, <1>3 DEF InsertionRecord
<1> QED
  BY <1>2, <1>4, <1>5 DEF s

LEMMA TypesKept ==
  ASSUME IndexTypeOK, VectorsApart, NEW g \in Goroutine, Works(g)
  PROVE  IndexTypeOK' /\ VectorsApart'
<1> DEFINE i == insertion[g]
<1>0. Active(g) => i \in InsertionRecord
  BY ActiveRecord
<1>a. top \in Nat /\ dealt \in Nat /\ NumVectors \in Nat /\ MaxLevel \in Nat
          /\ insertion \in [Goroutine -> {Idle} \cup InsertionRecord]
  BY IndexAssumption DEF IndexTypeOK
<1>b. \A L \in 0 .. top : \A v \in Layer(L) : neighbors[L][v] \subseteq Vector
  BY DEF IndexTypeOK
<1>c. Active(g) => i.layer \in 0 .. top
  <2> HAVE Active(g)
  <2>1. i \in InsertionRecord /\ i.layer <= i.oldTop /\ i.oldTop <= top
    BY <1>0 DEF VectorsApart
  <2> QED
    BY <1>a, <2>1 DEF InsertionRecord
<1>1. ASSUME Begins(g) PROVE IndexTypeOK' /\ VectorsApart'
  <2>1. PICK level \in 0 .. MaxLevel : insertion' = [insertion EXCEPT ![g] =
           [Insertion(level) EXCEPT !.step = IF level > top THEN "lock" ELSE "search"]]
    BY <1>1 DEF Begins
  <2> DEFINE r == [Insertion(level) EXCEPT !.step = IF level > top THEN "lock" ELSE "search"]
  <2>2. dealt + 1 \in Vector /\ enterPoint \in Vector /\ dealt' = dealt + 1 /\ dealt' \in 0 .. NumVectors
    BY <1>1, <1>a DEF Begins, IndexTypeOK, Vector
  <2>3. <<>> \in Seq(SUBSET Vector)
    OBVIOUS
  <2>4. r \in InsertionRecord /\ r.vector = dealt + 1 /\ r.oldTop = top /\ r.layer = top /\ r # Idle
    <3>1. r.step \in {"lock", "search"}
      BY DEF Insertion, SearchAt
    <3> QED
      BY <1>a, <2>2, <2>3, <3>1 DEF Insertion, SearchAt, InsertionRecord, Idle
  <2> HIDE DEF r
  <2>5. insertion' = [insertion EXCEPT ![g] = r]
    BY <2>1 DEF r
  <2>6. insertion' \in [Goroutine -> {Idle} \cup InsertionRecord]
    BY <1>a, <2>4, <2>5
  <2>7. ~Active(g)
    BY <1>1 DEF Begins, Stands, Active
  <2>8. insertion'[g] = r /\ \A h \in Goroutine \ {g} : insertion'[h] = insertion[h]
    BY <1>a, <2>5
  <2>9. UNCHANGED <<neighbors, top, enterPoint>> /\ dealt \in 1 .. NumVectors - 1
    BY <1>1 DEF Begins, graph
  <2>10. IndexTypeOK'
    <3>1. \A L \in 0 .. top : Layer(L)' \subseteq 1 .. dealt' /\ \A v \in Layer(L)' : neighbors'[L][v] \subseteq Vector
      BY <1>a, <2>2, <2>9 DEF IndexTypeOK, Layer
    <3> QED
      BY <1>a, <2>2, <2>6, <2>9, <3>1 DEF IndexTypeOK
  <2>11. \A h \in Goroutine : Active(h)' => /\ Of(h)' <= dealt' /\ insertion'[h].layer <= insertion'[h].oldTop
                                            /\ insertion'[h].oldTop <= top'
    <3> SUFFICES ASSUME NEW h \in Goroutine, Active(h)'
                 PROVE  /\ Of(h)' <= dealt' /\ insertion'[h].layer <= insertion'[h].oldTop
                        /\ insertion'[h].oldTop <= top'
      OBVIOUS
    <3>1. CASE h = g
      BY <1>a, <2>2, <2>4, <2>8, <2>9, <3>1 DEF Of
    <3>2. CASE h # g
      <4>1. insertion'[h] = insertion[h] /\ Active(h)
        BY <2>8, <3>2 DEF Active
      <4>2. insertion[h] \in InsertionRecord
        BY <4>1, ActiveRecord
      <4>3. Of(h) <= dealt /\ insertion[h].layer <= insertion[h].oldTop /\ insertion[h].oldTop <= top /\ Of(h) \in Nat
        BY <4>1, <4>2 DEF VectorsApart, InsertionRecord, Of, Vector
      <4> QED
        BY <1>a, <2>2, <2>9, <4>1, <4>3 DEF Of
    <3> QED
      BY <3>1, <3>2
  <2>12. \A h, k \in Goroutine : Active(h)' /\ Active(k)' /\ Of(h)' = Of(k)' => h = k
    <3>1. \A h \in Goroutine \ {g} : Active(h)' => Active(h) /\ Of(h)' = Of(h) /\ Of(h) <= dealt /\ Of(h) \in Nat
      <4> SUFFICES ASSUME NEW h \in Goroutine \ {g}, Active(h)'
                   PROVE  Active(h) /\ Of(h)' = Of(h) /\ Of(h) <= dealt /\ Of(h) \in Nat
        OBVIOUS
      <4>1. insertion'[h] = insertion[h] /\ Active(h)
        BY <2>8 DEF Active
      <4>2. insertion[h] \in InsertionRecord
        BY <4>1, ActiveRecord
      <4> QED
        BY <4>1, <4>2 DEF VectorsApart, InsertionRecord, Of, Vector
    <3>2. Of(g)' = dealt + 1
      BY <2>4, <2>8 DEF Of
    <3> QED
      BY <1>a, <3>1, <3>2 DEF VectorsApart
  <2> QED
    BY <2>10, <2>11, <2>12 DEF VectorsApart
<1>d. ASSUME NEW r \in InsertionRecord \cup {Idle}, Active(g), insertion' = [insertion EXCEPT ![g] = r],
             r # Idle => /\ r.vector = Of(g) /\ r.oldTop = i.oldTop /\ r.layer <= i.layer,
             UNCHANGED <<dealt, graph>>
      PROVE  IndexTypeOK' /\ VectorsApart'
  <2>1. insertion' \in [Goroutine -> {Idle} \cup InsertionRecord] /\ VectorsApart'
    <3>1. dealt' = dealt /\ top' = top /\ top' >= top
      BY <1>a, <1>d DEF graph
    <3>2. top' \in Nat
      BY <1>a, <3>1
    <3> QED
      BY <1>d, <3>1, <3>2, GoesOn
  <2>2. IndexTypeOK'
    BY <1>d, <2>1 DEF IndexTypeOK, graph, Layer
  <2> QED
    BY <2>1, <2>2
<1>e. ASSUME NEW r \in InsertionRecord \cup {Idle}, Active(g), insertion' = [insertion EXCEPT ![g] = r],
             r # Idle => /\ r.vector = Of(g) /\ r.oldTop = i.oldTop /\ r.layer <= i.layer,
             UNCHANGED <<dealt, top, enterPoint>>, DOMAIN neighbors' = 0 .. top,
             \A L \in 0 .. top : Layer(L)' \subseteq 1 .. dealt
                 /\ \A v \in Layer(L)' : neighbors'[L][v] \subseteq Vector
      PROVE  IndexTypeOK' /\ VectorsApart'
  <2>1. insertion' \in [Goroutine -> {Idle} \cup InsertionRecord] /\ VectorsApart'
    <3>1. dealt' = dealt /\ top' = top /\ top' >= top
      BY <1>a, <1>e
    <3>2. top' \in Nat
      BY <1>a, <3>1
    <3> QED
      BY <1>e, <3>1, <3>2, GoesOn
  <2>2. IndexTypeOK'
    BY <1>e, <2>1 DEF IndexTypeOK
  <2> QED
    BY <2>1, <2>2
<1>2. ASSUME LocksLayers(g) PROVE IndexTypeOK' /\ VectorsApart'
  <2> DEFINE r == [i EXCEPT !.step = "search"]
  <2>1. Active(g) /\ i \in InsertionRecord
    BY <1>0, <1>2 DEF LocksLayers, Stands, Active
  <2>2. r \in InsertionRecord /\ r.vector = Of(g) /\ r.oldTop = i.oldTop /\ r.layer = i.layer
    BY <2>1 DEF InsertionRecord, Of
  <2>3. insertion' = [insertion EXCEPT ![g] = r] /\ UNCHANGED <<dealt, graph>>
    BY <1>2 DEF LocksLayers
  <2>4. r.layer <= i.layer
    BY <2>1, <2>2 DEF InsertionRecord
  <2> HIDE DEF r
  <2> QED
    BY <1>d, <2>1, <2>2, <2>3, <2>4
<1>3. ASSUME Evaluates(g) PROVE IndexTypeOK' /\ VectorsApart'
  <2>1. Active(g) /\ i \in InsertionRecord
    BY <1>0, <1>3 DEF Evaluates, Active
  <2>2. i.layer \in Nat /\ i.layer \in 0 .. top
    BY <1>c, <2>1
  <2>3. PICK c \in Nearest(i.vector, i.left, 1) :
          IF c \in DOMAIN neighbors[i.layer]
          THEN LET found == Nearest(i.vector, i.found \cup (neighbors[i.layer][c] \ i.seen), Ef(i)) IN
                 /\ insertion' = [insertion EXCEPT
                      ![g].found = found,
                      ![g].left = ((i.left \ {c}) \cup (found \ i.found)) \cap found,
                      ![g].seen = @ \cup neighbors[i.layer][c]]
                 /\ UNCHANGED <<global, leaked>>
          ELSE Panics(g) /\ leaked' = leaked \cup {c}
    BY <1>3 DEF Evaluates
  <2>4. UNCHANGED <<dealt, graph>>
    BY <1>3 DEF Evaluates
  <2>5. CASE c \in DOMAIN neighbors[i.layer]
    <3> DEFINE near == neighbors[i.layer][c]
               found == Nearest(i.vector, i.found \cup (near \ i.seen), Ef(i))
               r == [i EXCEPT !.found = found,
                      !.left = ((i.left \ {c}) \cup (found \ i.found)) \cap found,
                      !.seen = @ \cup near]
    <3>1. near \subseteq Vector
      BY <1>b, <2>2, <2>5 DEF Layer
    <3>2. found \subseteq i.found \cup near
      BY NearestAmong
    <3>3. insertion' = [insertion EXCEPT ![g] = r]
      BY <2>3, <2>5
    <3>4. found \in SUBSET Vector /\ i.seen \cup near \in SUBSET Vector
      BY <2>1, <3>1, <3>2 DEF InsertionRecord
    <3> HIDE DEF found, near
    <3>5. r \in InsertionRecord
      BY <2>1, <3>4 DEF InsertionRecord
    <3>6. r.vector = Of(g) /\ r.oldTop = i.oldTop /\ r.layer <= i.layer
      BY <2>1, <2>2 DEF InsertionRecord, Of
    <3> HIDE DEF r
    <3> QED
      BY <1>d, <2>1, <2>4, <3>3, <3>5, <3>6
  <2>6. CASE c \notin DOMAIN neighbors[i.layer]
    <3> DEFINE r == [i EXCEPT !.step = "dead"]
    <3>1. r \in InsertionRecord /\ r.vector = Of(g) /\ r.oldTop = i.oldTop /\ r.layer <= i.layer
      BY <2>1, <2>2 DEF InsertionRecord, Of
    <3>2. insertion' = [insertion EXCEPT ![g] = r]
      BY <2>3, <2>6 DEF Panics
    <3> HIDE DEF r
    <3> QED
      BY <1>d, <2>1, <2>4, <3>1, <3>2
  <2> QED
    BY <2>5, <2>6
<1>4. ASSUME Descends(g) PROVE IndexTypeOK' /\ VectorsApart'
  <2> DEFINE r == SearchAt(i, i.layer - 1, i.found)
  <2>1. Active(g) /\ i \in InsertionRecord
    BY <1>0, <1>4 DEF Descends, Active
  <2>2. i.layer > i.level /\ insertion' = [insertion EXCEPT ![g] = r] /\ UNCHANGED <<dealt, graph>>
    BY <1>4 DEF Descends
  <2>3. i.layer - 1 \in Nat /\ i.layer - 1 <= i.layer
    BY <2>1, <2>2 DEF InsertionRecord
  <2>4. r \in InsertionRecord
    BY <2>1, <2>3 DEF InsertionRecord, SearchAt
  <2>5. r.vector = Of(g) /\ r.oldTop = i.oldTop /\ r.layer <= i.layer
    BY <2>1, <2>3 DEF InsertionRecord, SearchAt, Of
  <2> HIDE DEF r
  <2> QED
    BY <1>d, <2>1, <2>2, <2>4, <2>5
<1>5. ASSUME SetsNeighbors(g) PROVE IndexTypeOK' /\ VectorsApart'
  <2> DEFINE nearest == Nearest(i.vector, i.found, MaxConnection)
             r == [i EXCEPT !.step = "link", !.left = nearest]
  <2>1. Active(g) /\ i \in InsertionRecord
    BY <1>0, <1>5 DEF SetsNeighbors, Active
  <2>2. insertion' = [insertion EXCEPT ![g] = r] /\ UNCHANGED <<dealt, top, enterPoint>>
    BY <1>5 DEF SetsNeighbors
  <2>3. nearest \in SUBSET Vector
    BY <2>1, NearestAmong DEF InsertionRecord
  <2>4. neighbors' = Stored(i.layer, i.vector, nearest)
    BY <1>5 DEF SetsNeighbors
  <2> HIDE DEF nearest
  <2>5. r \in InsertionRecord /\ r.vector = Of(g) /\ r.oldTop = i.oldTop /\ r.layer <= i.layer
    BY <2>1, <2>3, RecordGoesOn DEF Of
  <2>6. DOMAIN neighbors' = 0 .. top
    BY <2>4 DEF Stored, IndexTypeOK
  <2>7. i.vector \in 1 .. dealt
    BY <1>a, <2>1 DEF VectorsApart, Of, InsertionRecord, Vector
  <2>8. ASSUME NEW L \in 0 .. top
        PROVE  Layer(L)' \subseteq 1 .. dealt /\ \A v \in Layer(L)' : neighbors'[L][v] \subseteq Vector
    <3>1. CASE L = i.layer
      <4>1. neighbors'[L] = [w \in Layer(L) \cup {i.vector} |-> IF w = i.vector THEN nearest ELSE neighbors[L][w]]
        BY <2>4, <3>1 DEF Stored, IndexTypeOK, Layer
      <4>2. Layer(L) \subseteq 1 .. dealt
        BY DEF IndexTypeOK
      <4> QED
        BY <1>b, <2>3, <2>7, <4>1, <4>2 DEF Layer
    <3>2. CASE L # i.layer
      <4>1. neighbors'[L] = neighbors[L]
        BY <2>4, <3>2 DEF Stored, IndexTypeOK
      <4> QED
        BY <4>1 DEF IndexTypeOK, Layer
    <3> QED
      BY <3>1, <3>2
  <2> HIDE DEF r
  <2> QED
    BY <1>e, <2>1, <2>2, <2>5, <2>6, <2>8
<1>6. ASSUME Links(g) PROVE IndexTypeOK' /\ VectorsApart'
  <2>1. Active(g) /\ i \in InsertionRecord
    BY <1>0, <1>6 DEF Links, Active
  <2>2. i.layer \in Nat /\ i.layer \in 0 .. top
    BY <1>c, <2>1
  <2>3. PICK e \in Nearest(i.vector, i.left, 1) :
         IF e \in DOMAIN neighbors[i.layer]
            THEN /\ neighbors' = [neighbors EXCEPT ![i.layer][e] = Linked(e, i.layer, i.vector)]
                 /\ insertion' = [insertion EXCEPT ![g].left = @ \ {e}]
                 /\ UNCHANGED global
            ELSE /\ insertion' = [insertion EXCEPT ![g].step = "dead", ![g].broken = {e}]
                 /\ global' = global \ {g}
                 /\ UNCHANGED neighbors
    BY <1>6 DEF Links
  <2>4. UNCHANGED <<dealt, top, enterPoint>>
    BY <1>6 DEF Links
  <2>5. CASE e \in DOMAIN neighbors[i.layer]
    <3> DEFINE r == [i EXCEPT !.left = @ \ {e}]
    <3>1. r \in InsertionRecord /\ r.vector = Of(g) /\ r.oldTop = i.oldTop /\ r.layer <= i.layer
      BY <2>1, <2>2 DEF InsertionRecord, Of
    <3>2. insertion' = [insertion EXCEPT ![g] = r]
      BY <2>3, <2>5
    <3>3. Linked(e, i.layer, i.vector) \subseteq Vector
      <4>1. neighbors[i.layer][e] \cup {i.vector} \subseteq Vector
        BY <1>b, <2>1, <2>2, <2>5 DEF Layer, InsertionRecord
      <4> QED
        BY <4>1, NearestAmong DEF Linked
    <3>4. DOMAIN neighbors' = 0 .. top
      BY <2>3, <2>5 DEF IndexTypeOK
    <3>5. ASSUME NEW L \in 0 .. top
          PROVE  Layer(L)' \subseteq 1 .. dealt /\ \A v \in Layer(L)' : neighbors'[L][v] \subseteq Vector
      <4>1. neighbors'[L] = IF L = i.layer THEN [neighbors[L] EXCEPT ![e] = Linked(e, i.layer, i.vector)]
                ELSE neighbors[L]
        BY <2>3, <2>5 DEF IndexTypeOK
      <4> QED
        BY <3>3, <4>1 DEF IndexTypeOK, Layer
    <3> HIDE DEF r
    <3> QED
      BY <1>e, <2>1, <2>4, <3>1, <3>2, <3>4, <3>5
  <2>6. CASE e \notin DOMAIN neighbors[i.layer]
    <3> DEFINE r == [i EXCEPT !.step = "dead", !.broken = {e}]
    <3>1. e \in Vector
      BY <2>1, NearestAmong DEF InsertionRecord
    <3>2. r \in InsertionRecord /\ r.vector = Of(g) /\ r.oldTop = i.oldTop /\ r.layer <= i.layer
      BY <2>1, <2>2, <3>1, RecordBreaks DEF Of
    <3>3. insertion' = [insertion EXCEPT ![g] = r] /\ UNCHANGED neighbors
      BY <2>3, <2>6
    <3> HIDE DEF r
    <3> QED
      BY <1>d, <2>1, <2>4, <3>2, <3>3 DEF graph
  <2> QED
    BY <2>5, <2>6
<1>7. ASSUME EndsLayer(g) PROVE IndexTypeOK' /\ VectorsApart'
  <2> DEFINE r == IF i.layer > 0 THEN SearchAt(i, i.layer - 1, i.found)
                  ELSE IF i.level > i.oldTop THEN [i EXCEPT !.step = "raise"] ELSE Idle
  <2>1. Active(g) /\ i \in InsertionRecord
    BY <1>0, <1>7 DEF EndsLayer, Active
  <2>2. insertion' = [insertion EXCEPT ![g] = r] /\ UNCHANGED <<dealt, graph>>
    BY <1>7 DEF EndsLayer
  <2>3. r \in InsertionRecord \cup {Idle}
    <3>1. CASE i.layer > 0
      <4>1. i.layer - 1 \in Nat
        BY <2>1, <3>1 DEF InsertionRecord
      <4>2. SearchAt(i, i.layer - 1, i.found) \in InsertionRecord
        BY <2>1, <4>1 DEF InsertionRecord, SearchAt
      <4> QED
        BY <3>1, <4>2
    <3>2. CASE ~(i.layer > 0)
      BY <2>1, <3>2 DEF InsertionRecord
    <3> QED
      BY <3>1, <3>2
  <2>4. r # Idle => r.vector = Of(g) /\ r.oldTop = i.oldTop /\ r.layer <= i.layer
    <3>1. CASE i.layer > 0
      BY <2>1, <3>1 DEF InsertionRecord, SearchAt, Of
    <3>2. CASE ~(i.layer > 0)
      BY <2>1, <3>2 DEF InsertionRecord, Of
    <3> QED
      BY <3>1, <3>2
  <2> HIDE DEF r
  <2> QED
    BY <1>d, <2>1, <2>2, <2>3, <2>4
<1>8. ASSUME Copies(g) PROVE IndexTypeOK' /\ VectorsApart'
  <2> DEFINE copied == [layer \in 1..top |-> DOMAIN neighbors[layer]]
             r == [i EXCEPT !.step = "copied", !.copied = copied]
  <2>1. Active(g) /\ i \in InsertionRecord
    BY <1>0, <1>8 DEF Copies, Active
  <2>2. insertion' = [insertion EXCEPT ![g] = r] /\ UNCHANGED <<dealt, graph>>
    BY <1>8 DEF Copies
  <2>3. copied \in Seq(SUBSET Vector)
    <3>1. \A L \in 1 .. top : DOMAIN neighbors[L] \in SUBSET Vector
      BY <1>a DEF IndexTypeOK, Layer, Vector
    <3>2. copied \in [1 .. top -> SUBSET Vector]
      BY <3>1
    <3> QED
      BY <1>a, <3>2
  <2> HIDE DEF copied
  <2>4. r \in InsertionRecord /\ r.vector = Of(g) /\ r.oldTop = i.oldTop /\ r.layer <= i.layer
    BY <2>1, <2>3, RecordCopies DEF Of
  <2> HIDE DEF r
  <2> QED
    BY <1>d, <2>1, <2>2, <2>4
<1>9. ASSUME Raises(g) PROVE IndexTypeOK' /\ VectorsApart'
  <2> DEFINE new == [layer \in 1..top |-> DOMAIN neighbors[layer] \ i.copied[layer]]
  <2>1. Active(g) /\ i \in InsertionRecord
    BY <1>0, <1>9 DEF Raises, Active
  <2>2. /\ enterPoint' = i.vector /\ top' = top + 1 /\ dealt' = dealt
        /\ insertion' = [insertion EXCEPT ![g] = Idle]
    BY <1>9 DEF Raises
  <2>3. PICK lost \in SUBSET UNION {{layer} \X new[layer] : layer \in 1..top} :
          neighbors' =
              [layer \in 0..(top + 1) |->
                 LET kept == IF layer > top THEN {}
                             ELSE {v \in DOMAIN neighbors[layer] : <<layer, v>> \notin lost}
                     own == IF layer = i.oldTop + 1 THEN {i.vector} ELSE {} IN
                   [v \in kept \cup own |-> IF v \in own THEN {} ELSE neighbors[layer][v]]]
    BY <1>9 DEF Raises
  <2>4. DOMAIN neighbors' = 0 .. top'
    BY <2>2, <2>3
  <2>5. i.vector \in 1 .. dealt /\ dealt # 0
    BY <1>a, <2>1 DEF VectorsApart, Of, InsertionRecord, Vector
  <2>6. ASSUME NEW L \in 0 .. top'
        PROVE  Layer(L)' \subseteq 1 .. dealt /\ \A v \in Layer(L)' : neighbors'[L][v] \subseteq Vector
    <3> DEFINE kept == IF L > top THEN {} ELSE {v \in DOMAIN neighbors[L] : <<L, v>> \notin lost}
               own == IF L = i.oldTop + 1 THEN {i.vector} ELSE {}
    <3>1. neighbors'[L] = [v \in kept \cup own |-> IF v \in own THEN {} ELSE neighbors[L][v]]
      BY <2>2, <2>3
    <3>2. kept # {} => L \in 0 .. top
      <4>1. kept # {} => ~(L > top)
        OBVIOUS
      <4>2. L \in Nat
        BY <1>a, <2>2
      <4> HIDE DEF kept
      <4> QED
        BY <1>a, <4>1, <4>2
    <3>3. own \subseteq 1 .. dealt
      BY <2>5
    <3>4. kept \subseteq 1 .. dealt /\ \A v \in kept : neighbors[L][v] \subseteq Vector
      BY <1>b, <3>2 DEF IndexTypeOK, Layer
    <3> HIDE DEF kept, own
    <3>5. DOMAIN neighbors'[L] = kept \cup own
      BY <3>1
    <3>6. \A v \in kept \cup own : neighbors'[L][v] \subseteq Vector
      BY <3>1, <3>4
    <3> QED
      BY <3>3, <3>4, <3>5, <3>6 DEF Layer
  <2>7. top' \in Nat /\ top' >= top
    BY <1>a, <2>2
  <2>8. insertion' \in [Goroutine -> {Idle} \cup InsertionRecord] /\ VectorsApart'
    BY <2>1, <2>2, <2>7, GoesOn
  <2>9. dealt' \in 0 .. NumVectors /\ enterPoint' \in Vector /\ (dealt' = 0 => top' = 0)
    BY <2>1, <2>2, <2>5 DEF IndexTypeOK, InsertionRecord
  <2> QED
    BY <2>2, <2>4, <2>6, <2>7, <2>8, <2>9 DEF IndexTypeOK
<1> QED
  BY <1>1, <1>2, <1>3, <1>4, <1>5, <1>6, <1>7, <1>8, <1>9 DEF Works

----------------------------------------------------------------------------
(* The bottom layer *)

LEMMA LayerInTop ==
  ASSUME IndexTypeOK, VectorsApart, NEW g \in Goroutine, Active(g)
  PROVE  insertion[g].layer \in 0 .. top /\ insertion[g].oldTop \in 0 .. top
<1>1. insertion[g] \in InsertionRecord /\ insertion[g].layer <= insertion[g].oldTop /\ insertion[g].oldTop <= top
  BY ActiveRecord DEF VectorsApart
<1> QED
  BY <1>1 DEF InsertionRecord, IndexTypeOK

\* A step of a goroutine that leaves the bottom layer alone.
LEMMA BottomStays ==
  ASSUME IndexTypeOK, VectorsApart, Bottom, NEW g \in Goroutine, ~Dead(g), NEW r,
         insertion' = [insertion EXCEPT ![g] = r], BottomOwn(r),
         Layer(0)' = Layer(0), \A v \in Layer(0) : neighbors'[0][v] = neighbors[0][v],
         \/ r.step = "dead" /\ r.vector = Of(g)
         \/ ~Stands(g, "link") \/ insertion[g].layer # 0 \/ insertion[g].left = {}
  PROVE  Bottom'
<1>1. insertion'[g] = r /\ \A h \in Goroutine : h # g => insertion'[h] = insertion[h]
  BY DEF IndexTypeOK
<1>2. \A v \in Layer(0)' : neighbors'[0][v] \subseteq Layer(0)'
  BY DEF Bottom, Layer
<1>3. ASSUME NEW h \in Goroutine PROVE BottomOwn(insertion[h])'
  <2>1. CASE h = g
    BY <1>1, <2>1 DEF BottomOwn, Layer
  <2>2. CASE h # g
    BY <1>1, <2>2 DEF BottomOwn, Layer, Bottom
  <2> QED
    BY <2>1, <2>2
<1>4. ASSUME NEW v \in Layer(0)', NEW e \in Layer(0)', e \in neighbors'[0][v]
      PROVE  Mutual(v, e)' \/ Pending(v, e)'
  <2>1. Mutual(v, e) \/ Pending(v, e)
    BY <1>4 DEF Bottom, Layer
  <2>2. CASE Mutual(v, e)
    BY <2>2 DEF Mutual
  <2>3. CASE Pending(v, e)
    <3>1. PICK h \in Goroutine :
            /\ Active(h) /\ Of(h) = v
            /\ \/ Dead(h)
               \/ Stands(h, "link") /\ insertion[h].layer = 0 /\ e \in insertion[h].left
      BY <2>3 DEF Pending
    <3>2. CASE h = g
      <4>1. r.step = "dead" /\ r.vector = v
        BY <3>1, <3>2
      <4> QED
        BY <1>1, <4>1 DEF Pending, Active, Of, Dead
    <3>3. CASE h # g
      BY <1>1, <3>1, <3>3 DEF Pending, Active, Of, Dead, Stands
    <3> QED
      BY <3>2, <3>3
  <2> QED
    BY <2>1, <2>2, <2>3
<1> QED
  BY <1>2, <1>3, <1>4 DEF Bottom

\* A vector's neighborhood at the bottom is set.
LEMMA BottomIsSet ==
  ASSUME IndexTypeOK, VectorsApart, Bottom, NEW g \in Goroutine, SetsNeighbors(g), insertion[g].layer = 0
  PROVE  Bottom'
<1> DEFINE i == insertion[g]
           v == i.vector
           nearest == Nearest(v, i.found, MaxConnection)
<1>1. i.step = "search" /\ i.left = {} /\ Active(g) /\ Of(g) = v
  BY DEF SetsNeighbors, Active, Of
<1>2. v \notin Layer(0) /\ i.found \subseteq Layer(0)
  BY <1>1 DEF Bottom, BottomOwn
<1>3. nearest \subseteq Layer(0)
  BY <1>2, NearestAmong
<1>4. 0 \in DOMAIN neighbors
  BY DEF IndexTypeOK
<1>5. neighbors'[0] = [w \in Layer(0) \cup {v} |-> IF w = v THEN nearest ELSE neighbors[0][w]]
  BY <1>4 DEF SetsNeighbors, Stored, Layer
<1> HIDE DEF nearest
<1>6. insertion' = [insertion EXCEPT ![g].step = "link", ![g].left = nearest]
  BY DEF SetsNeighbors, nearest
<1>7. \A h \in Goroutine : h # g => insertion'[h] = insertion[h] /\ (Active(h) => insertion[h].vector # v)
  BY <1>1, <1>6 DEF IndexTypeOK, VectorsApart, Of
<1>8. i \in InsertionRecord
  BY <1>1, ActiveRecord
<1>9. LET j == insertion'[g] IN j.step = "link" /\ j.layer = 0 /\ j.vector = v /\ j.left = nearest
  BY <1>6, <1>8 DEF IndexTypeOK, InsertionRecord
<1>10. Layer(0)' = Layer(0) \cup {v} /\ neighbors'[0][v] = nearest
           /\ \A w \in Layer(0) : neighbors'[0][w] = neighbors[0][w]
  BY <1>2, <1>5 DEF Layer
<1>11. ASSUME NEW h \in Goroutine PROVE BottomOwn(insertion[h])'
  <2>1. CASE h = g
    BY <1>9, <1>10, <2>1 DEF BottomOwn
  <2>2. CASE h # g
    <3>1. insertion'[h] = insertion[h] /\ BottomOwn(insertion[h])
      BY <1>7, <2>2 DEF Bottom
    <3>2. insertion[h].step # "idle" => insertion[h].vector # v
      BY <1>7, <2>2 DEF Active
    <3> QED
      BY <1>10, <3>1, <3>2 DEF BottomOwn
  <2> QED
    BY <2>1, <2>2
<1>12. \A w \in Layer(0)' : neighbors'[0][w] \subseteq Layer(0)'
  BY <1>3, <1>10 DEF Bottom
<1>13. ASSUME NEW w \in Layer(0)', NEW e \in Layer(0)', e \in neighbors'[0][w]
       PROVE  Mutual(w, e)' \/ Pending(w, e)'
  <2>1. CASE w = v
    BY <1>9, <1>10, <1>13, <2>1 DEF Pending, Active, Of, Stands
  <2>2. CASE w # v
    <3>1. w \in Layer(0) /\ e \in neighbors[0][w] /\ e \in Layer(0)
      BY <1>10, <1>13, <2>2 DEF Bottom
    <3>2. CASE Mutual(w, e)
      BY <1>10, <3>1, <3>2 DEF Mutual
    <3>3. CASE Pending(w, e)
      <4>1. PICK h \in Goroutine :
              /\ Active(h) /\ Of(h) = w
              /\ \/ Dead(h)
                 \/ Stands(h, "link") /\ insertion[h].layer = 0 /\ e \in insertion[h].left
        BY <3>3 DEF Pending
      <4>2. h # g
        BY <1>1, <2>2, <4>1
      <4> QED
        BY <1>7, <4>1, <4>2 DEF Pending, Active, Of, Dead, Stands
    <3> QED
      BY <3>1, <3>2, <3>3 DEF Bottom
  <2> QED
    BY <2>1, <2>2
<1> QED
  BY <1>11, <1>12, <1>13 DEF Bottom

LEMMA ActiveIsLocked ==
  ASSUME NEW g \in Goroutine, insertion[g].step \in {"search", "link", "dead"}
  PROVE  Locked(Of(g))
BY DEF Locked, Of

\* A connection is pushed, and the other end may be shrunk.
LEMMA BottomIsLinked ==
  ASSUME IndexTypeOK, VectorsApart, Bottom, NEW g \in Goroutine, Links(g), insertion[g].layer = 0
  PROVE  Bottom'
<1> DEFINE i == insertion[g]
           v == i.vector
<1>1. i.step = "link" /\ Active(g) /\ Of(g) = v /\ Stands(g, "link")
  BY DEF Links, Active, Of, Stands
<1>2. v \in Layer(0) /\ i.left \subseteq neighbors[0][v] /\ neighbors[0][v] \subseteq Layer(0)
  BY <1>1 DEF Bottom, BottomOwn
<1>3. PICK e \in Nearest(v, i.left, 1) :
         /\ ~Locked(e)
         /\ IF e \in DOMAIN neighbors[0]
            THEN /\ neighbors' = [neighbors EXCEPT ![0][e] = Linked(e, 0, v)]
                 /\ insertion' = [insertion EXCEPT ![g].left = @ \ {e}]
            ELSE /\ insertion' = [insertion EXCEPT ![g].step = "dead", ![g].broken = {e}]
                 /\ UNCHANGED neighbors
  BY DEF Links
<1>4. e \in i.left /\ e \in Layer(0)
  BY <1>2, NearestAmong
<1>5. /\ neighbors' = [neighbors EXCEPT ![0][e] = Linked(e, 0, v)]
      /\ insertion' = [insertion EXCEPT ![g].left = @ \ {e}]
  BY <1>3, <1>4 DEF Layer
<1>6. Locked(v) /\ e # v
  BY <1>1, <1>3, ActiveIsLocked
<1> DEFINE connections == neighbors[0][e] \cup {v}
           linked == Linked(e, 0, v)
<1>7. connections \in SUBSET Vector /\ e \in Vector /\ v \in Vector
  <2>1. \A x \in Layer(0) : x \in Vector /\ neighbors[0][x] \subseteq Vector
    BY IndexAssumption DEF IndexTypeOK, Vector
  <2> QED
    BY <1>2, <1>4, <2>1
<1>8. MaxConnection \in Nat
  BY IndexAssumption
<1>9. linked \subseteq connections
  BY NearestAmong DEF Linked
<1>10. linked = connections \/ Cardinality(linked) >= MaxConnection
  <2> SUFFICES ASSUME linked # connections PROVE Cardinality(linked) >= MaxConnection
    OBVIOUS
  <2>1. linked = Nearest(e, connections, MaxConnection) /\ Cardinality(connections) > 2 * MaxConnection
    BY DEF Linked, CurrentMaxConnection
  <2>2. Cardinality(connections) \in Nat
    BY <1>7, VectorsFinite
  <2>3. Cardinality(connections) >= MaxConnection
    BY <1>8, <2>1, <2>2
  <2> HIDE DEF connections, linked
  <2>4. Cardinality(Nearest(e, connections, MaxConnection)) >= MaxConnection
    BY <1>7, <1>8, <2>3, NearestEnough
  <2> QED
    BY <2>1, <2>4
<1>11. Cardinality(neighbors[0][e]) >= MaxConnection => Cardinality(connections) >= MaxConnection
  <2>1. neighbors[0][e] \subseteq connections
    OBVIOUS
  <2>2. Cardinality(neighbors[0][e]) <= Cardinality(connections)
    BY <1>7, <2>1, VectorsFinite, FS_Subset
  <2>3. Cardinality(neighbors[0][e]) \in Nat /\ Cardinality(connections) \in Nat
    BY <1>7, <2>1, VectorsFinite
  <2> QED
    BY <1>8, <2>2, <2>3
<1>12. Layer(0)' = Layer(0) /\ neighbors'[0][e] = linked
           /\ \A w \in Layer(0) \ {e} : neighbors'[0][w] = neighbors[0][w]
  <2>1. neighbors'[0] = [neighbors[0] EXCEPT ![e] = linked]
    BY <1>5 DEF IndexTypeOK
  <2> HIDE DEF linked
  <2> QED
    BY <1>4, <2>1 DEF Layer
<1> HIDE DEF linked
<1>13. \A h \in Goroutine : h # g => insertion'[h] = insertion[h] /\ (Active(h) => insertion[h].vector # v)
  BY <1>1, <1>5 DEF IndexTypeOK, VectorsApart, Of
<1>14. LET j == insertion'[g] IN j.step = "link" /\ j.layer = 0 /\ j.vector = v /\ j.left = i.left \ {e}
  <2>1. i \in InsertionRecord
    BY <1>1, ActiveRecord
  <2> QED
    BY <1>1, <1>5, <2>1 DEF IndexTypeOK, InsertionRecord
<1>15. ASSUME NEW h \in Goroutine PROVE BottomOwn(insertion[h])'
  <2>1. CASE h = g
    BY <1>2, <1>6, <1>12, <1>14, <2>1 DEF BottomOwn
  <2>2. CASE h # g
    <3>1. insertion'[h] = insertion[h] /\ BottomOwn(insertion[h])
      BY <1>13, <2>2 DEF Bottom
    <3>2. insertion[h].step = "link" => insertion[h].vector # e
      BY <1>3, ActiveIsLocked DEF Of
    <3> QED
      BY <1>12, <3>1, <3>2 DEF BottomOwn
  <2> QED
    BY <2>1, <2>2
<1>16. \A w \in Layer(0)' : neighbors'[0][w] \subseteq Layer(0)'
  <2>1. linked \subseteq Layer(0)
    BY <1>2, <1>4, <1>9 DEF Bottom
  <2> QED
    BY <1>12, <2>1 DEF Bottom
<1>17. ASSUME NEW a \in Layer(0)', NEW b \in Layer(0)', b \in neighbors'[0][a]
       PROVE  Mutual(a, b)' \/ Pending(a, b)'
  <2>0. a \in Layer(0) /\ b \in Layer(0)
    BY <1>12, <1>17
  <2>a. ASSUME NEW h \in Goroutine, Active(h), Of(h) = a,
            Dead(h) \/ (Stands(h, "link") /\ insertion[h].layer = 0 /\ b \in insertion[h].left),
               h # g \/ b # e
        PROVE  Pending(a, b)'
    <3>1. CASE h # g
      BY <1>13, <2>a, <3>1 DEF Pending, Active, Of, Dead, Stands
    <3>2. CASE h = g
      <4>1. b \in i.left \ {e} /\ v = a
        BY <1>1, <2>a, <3>2 DEF Dead, Stands
      <4> QED
        BY <1>14, <4>1 DEF Pending, Active, Of, Stands
    <3> QED
      BY <3>1, <3>2
  <2>1. CASE a = e /\ b = v
    BY <1>2, <1>4, <1>6, <1>12, <2>1 DEF Mutual
  <2>2. CASE a = e /\ b # v
    <3>1. b \in neighbors[0][e]
      BY <1>9, <1>12, <1>17, <2>2
    <3>2. ~Pending(e, b)
      BY <1>3, ActiveIsLocked DEF Pending, Dead, Stands
    <3>3. Mutual(e, b)
      BY <1>4, <2>0, <3>1, <3>2 DEF Bottom
    <3>4. CASE b = e
      BY <1>12, <1>17, <2>2, <3>4 DEF Mutual
    <3>5. CASE b # e
      BY <1>12, <2>0, <2>2, <3>3, <3>5 DEF Mutual
    <3> QED
      BY <3>4, <3>5
  <2>3. CASE a # e /\ b # e
    <3>1. b \in neighbors[0][a] /\ neighbors'[0][b] = neighbors[0][b]
      BY <1>12, <1>17, <2>0, <2>3
    <3>2. CASE Mutual(a, b)
      BY <3>1, <3>2 DEF Mutual
    <3>3. CASE Pending(a, b)
      BY <2>3, <2>a, <3>3 DEF Pending
    <3> QED
      BY <2>0, <3>1, <3>2, <3>3 DEF Bottom
  <2>4. CASE a = v /\ b = e
    BY <1>10, <1>12, <2>4 DEF Mutual
  <2>5. CASE a # e /\ a # v /\ b = e
    <3>1. e \in neighbors[0][a]
      BY <1>12, <1>17, <2>0, <2>5
    <3>2. CASE Mutual(a, e)
      <4>1. a \in connections \/ Cardinality(connections) >= MaxConnection
        BY <1>11, <3>2 DEF Mutual
      <4> HIDE DEF connections
      <4> QED
        BY <1>10, <1>12, <2>5, <4>1 DEF Mutual
    <3>3. CASE Pending(a, e)
      <4>1. PICK h \in Goroutine :
              /\ Active(h) /\ Of(h) = a
              /\ \/ Dead(h)
                 \/ Stands(h, "link") /\ insertion[h].layer = 0 /\ e \in insertion[h].left
        BY <3>3 DEF Pending
      <4>2. h # g
        BY <1>1, <2>5, <4>1
      <4> QED
        BY <2>5, <2>a, <4>1, <4>2
    <3> QED
      BY <1>4, <2>0, <3>1, <3>2, <3>3 DEF Bottom
  <2> QED
    BY <1>6, <2>1, <2>2, <2>3, <2>4, <2>5
<1> QED
  BY <1>15, <1>16, <1>17 DEF Bottom

\* What the candidates of a search become.
LEMMA CandidatesEvaluated ==
  ASSUME NEW found, NEW left, NEW c, NEW next
  PROVE  next \ (((left \ {c}) \cup (next \ found)) \cap next) \subseteq (found \ left) \cup {c}
OBVIOUS

LEMMA BottomKept ==
  ASSUME IndexTypeOK, VectorsApart, Bottom, NEW g \in Goroutine, Works(g)
  PROVE  Bottom'
<1> DEFINE i == insertion[g]
<1>0. BottomOwn(i)
  BY DEF Bottom
<1>a. insertion \in [Goroutine -> {Idle} \cup InsertionRecord]
  BY DEF IndexTypeOK
<1>b. Active(g) => i \in InsertionRecord
  BY ActiveRecord
<1>1. ASSUME Begins(g) PROVE Bottom'
  <2>1. PICK level \in 0 .. MaxLevel : insertion' = [insertion EXCEPT ![g] =
           [Insertion(level) EXCEPT !.step = IF level > top THEN "lock" ELSE "search"]]
    BY <1>1 DEF Begins
  <2> DEFINE r == [Insertion(level) EXCEPT !.step = IF level > top THEN "lock" ELSE "search"]
  <2>2. r.step \in {"lock", "search"} /\ r.vector = dealt + 1 /\ r.found \ r.left = {}
    BY DEF Insertion, SearchAt
  <2>3. dealt + 1 \notin Layer(0)
    BY IndexAssumption DEF IndexTypeOK
  <2> HIDE DEF r
  <2>4. BottomOwn(r)
    BY <2>2, <2>3 DEF BottomOwn
  <2>5. i.step = "idle" /\ neighbors' = neighbors
    BY <1>1 DEF Begins, Stands, graph
  <2>6. insertion' = [insertion EXCEPT ![g] = r]
    BY <2>1 DEF r
  <2>7. ~Dead(g) /\ ~Stands(g, "link")
    BY <2>5 DEF Dead, Stands
  <2> QED
    BY <2>4, <2>5, <2>6, <2>7, BottomStays DEF Layer
<1>2. ASSUME LocksLayers(g) PROVE Bottom'
  <2> DEFINE r == [i EXCEPT !.step = "search"]
  <2>1. i.step = "lock" /\ neighbors' = neighbors /\ insertion' = [insertion EXCEPT ![g] = r]
    BY <1>2 DEF LocksLayers, Stands, graph
  <2>2. Active(g)
    BY <2>1 DEF Active
  <2>3. r.step = "search" /\ r.layer = i.layer /\ r.vector = i.vector /\ r.found = i.found /\ r.left = i.left
    BY <1>b, <2>2 DEF InsertionRecord
  <2> HIDE DEF r
  <2>4. BottomOwn(r)
    BY <1>0, <2>1, <2>3 DEF BottomOwn
  <2>5. ~Dead(g) /\ ~Stands(g, "link")
    BY <2>1 DEF Dead, Stands
  <2> QED
    BY <2>1, <2>4, <2>5, BottomStays DEF Layer
<1>3. ASSUME Evaluates(g) PROVE Bottom'
  <2>1. i.step = "search" /\ neighbors' = neighbors
    BY <1>3 DEF Evaluates, graph
  <2>2. i \in InsertionRecord
    BY <1>b, <2>1 DEF Active
  <2>3. ~Dead(g) /\ ~Stands(g, "link")
    BY <2>1 DEF Dead, Stands
  <2>4. PICK c \in Nearest(i.vector, i.left, 1) :
          IF c \in DOMAIN neighbors[i.layer]
          THEN LET found == Nearest(i.vector, i.found \cup (neighbors[i.layer][c] \ i.seen), Ef(i)) IN
                 insertion' = [insertion EXCEPT
                      ![g].found = found,
                      ![g].left = ((i.left \ {c}) \cup (found \ i.found)) \cap found,
                      ![g].seen = @ \cup neighbors[i.layer][c]]
          ELSE Panics(g)
    BY <1>3 DEF Evaluates
  <2>5. CASE c \in DOMAIN neighbors[i.layer]
    <3> DEFINE found == Nearest(i.vector, i.found \cup (neighbors[i.layer][c] \ i.seen), Ef(i))
               left == ((i.left \ {c}) \cup (found \ i.found)) \cap found
               more == i.seen \cup neighbors[i.layer][c]
               r == [i EXCEPT !.found = found, !.left = left, !.seen = more]
    <3>1. insertion' = [insertion EXCEPT ![g] = r]
      BY <2>4, <2>5
    <3>2. found \ left \subseteq (i.found \ i.left) \cup {c}
      BY CandidatesEvaluated
    <3> HIDE DEF found, left, more
    <3>3. r.step = "search" /\ r.layer = i.layer /\ r.vector = i.vector /\ r.found = found /\ r.left = left
      BY <2>1, <2>2 DEF InsertionRecord
    <3> HIDE DEF r
    <3>4. BottomOwn(r)
      BY <1>0, <2>1, <2>5, <3>2, <3>3 DEF BottomOwn, Layer
    <3> QED
      BY <2>1, <2>3, <3>1, <3>4, BottomStays DEF Layer
  <2>6. CASE c \notin DOMAIN neighbors[i.layer]
    <3> DEFINE r == [i EXCEPT !.step = "dead"]
    <3>1. insertion' = [insertion EXCEPT ![g] = r]
      BY <2>4, <2>6 DEF Panics
    <3>2. r.step = "dead"
      BY <2>2 DEF InsertionRecord
    <3> HIDE DEF r
    <3>3. BottomOwn(r)
      BY <3>2 DEF BottomOwn
    <3> QED
      BY <2>1, <2>3, <3>1, <3>3, BottomStays DEF Layer
  <2> QED
    BY <2>5, <2>6
<1>4. ASSUME Descends(g) PROVE Bottom'
  <2> DEFINE r == SearchAt(i, i.layer - 1, i.found)
  <2>1. i.step = "search" /\ insertion' = [insertion EXCEPT ![g] = r] /\ neighbors' = neighbors
    BY <1>4 DEF Descends, graph
  <2>2. i \in InsertionRecord
    BY <1>b, <2>1 DEF Active
  <2>3. r.step = "search" /\ r.vector = i.vector /\ r.found = r.left
    BY <2>2 DEF SearchAt, InsertionRecord
  <2> HIDE DEF r
  <2>4. BottomOwn(r)
    BY <1>0, <2>1, <2>3 DEF BottomOwn
  <2>5. ~Dead(g) /\ ~Stands(g, "link")
    BY <2>1 DEF Dead, Stands
  <2> QED
    BY <2>1, <2>4, <2>5, BottomStays DEF Layer
<1>5. ASSUME SetsNeighbors(g) PROVE Bottom'
  <2> DEFINE nearest == Nearest(i.vector, i.found, MaxConnection)
             r == [i EXCEPT !.step = "link", !.left = nearest]
  <2>1. i.step = "search" /\ insertion' = [insertion EXCEPT ![g] = r]
    BY <1>5 DEF SetsNeighbors
  <2>2. i \in InsertionRecord /\ ~Dead(g) /\ ~Stands(g, "link")
    BY <1>b, <2>1 DEF Active, Dead, Stands
  <2>3. CASE i.layer = 0
    BY <1>5, <2>3, BottomIsSet
  <2>4. CASE i.layer # 0
    <3>1. neighbors' = Stored(i.layer, i.vector, nearest) /\ 0 \in DOMAIN neighbors
      BY <1>5 DEF SetsNeighbors, IndexTypeOK
    <3> HIDE DEF nearest
    <3>2. neighbors'[0] = neighbors[0]
      BY <2>4, <3>1 DEF Stored
    <3>3. r.step = "link" /\ r.layer > 0 /\ r.vector = i.vector
      BY <2>2, <2>4 DEF InsertionRecord
    <3> HIDE DEF r
    <3>4. BottomOwn(r)
      BY <1>0, <2>1, <3>3 DEF BottomOwn
    <3> QED
      BY <2>1, <2>2, <3>2, <3>4, BottomStays DEF Layer
  <2> QED
    BY <2>3, <2>4
<1>6. ASSUME Links(g) PROVE Bottom'
  <2>1. i.step = "link"
    BY <1>6 DEF Links
  <2>2. i \in InsertionRecord /\ ~Dead(g)
    BY <1>b, <2>1 DEF Active, Dead
  <2>3. CASE i.layer = 0
    BY <1>6, <2>3, BottomIsLinked
  <2>4. CASE i.layer # 0
    <3>1. PICK e \in Nearest(i.vector, i.left, 1) :
         IF e \in DOMAIN neighbors[i.layer]
            THEN /\ neighbors' = [neighbors EXCEPT ![i.layer][e] = Linked(e, i.layer, i.vector)]
                 /\ insertion' = [insertion EXCEPT ![g].left = @ \ {e}]
            ELSE /\ insertion' = [insertion EXCEPT ![g].step = "dead", ![g].broken = {e}]
                 /\ UNCHANGED neighbors
      BY <1>6 DEF Links
    <3>2. neighbors'[0] = neighbors[0]
      BY <2>4, <3>1 DEF IndexTypeOK
    <3>3. CASE e \in DOMAIN neighbors[i.layer]
      <4> DEFINE r == [i EXCEPT !.left = @ \ {e}]
      <4>1. insertion' = [insertion EXCEPT ![g] = r]
        BY <3>1, <3>3
      <4>2. r.step = "link" /\ r.layer > 0 /\ r.vector = i.vector /\ i.layer > 0
        BY <2>1, <2>2, <2>4 DEF InsertionRecord
      <4> HIDE DEF r
      <4>3. BottomOwn(r)
        BY <1>0, <2>1, <4>2 DEF BottomOwn
      <4> QED
        BY <2>2, <2>4, <3>2, <4>1, <4>3, BottomStays DEF Layer
    <3>4. CASE e \notin DOMAIN neighbors[i.layer]
      <4> DEFINE r == [i EXCEPT !.step = "dead", !.broken = {e}]
      <4>1. insertion' = [insertion EXCEPT ![g] = r]
        BY <3>1, <3>4
      <4>2. r.step = "dead"
        BY <2>2 DEF InsertionRecord
      <4> HIDE DEF r
      <4>3. BottomOwn(r)
        BY <4>2 DEF BottomOwn
      <4> QED
        BY <2>2, <2>4, <3>2, <4>1, <4>3, BottomStays DEF Layer
    <3> QED
      BY <3>3, <3>4
  <2> QED
    BY <2>3, <2>4
<1>7. ASSUME EndsLayer(g) PROVE Bottom'
  <2> DEFINE r == IF i.layer > 0 THEN SearchAt(i, i.layer - 1, i.found)
                  ELSE IF i.level > i.oldTop THEN [i EXCEPT !.step = "raise"] ELSE Idle
  <2>1. i.step = "link" /\ i.left = {} /\ insertion' = [insertion EXCEPT ![g] = r] /\ neighbors' = neighbors
    BY <1>7 DEF EndsLayer, graph
  <2>2. i \in InsertionRecord /\ ~Dead(g)
    BY <1>b, <2>1 DEF Active, Dead
  <2>3. BottomOwn(r)
    <3>1. CASE i.layer > 0
      <4>1. r.step = "search" /\ r.vector = i.vector /\ r.found = r.left
        BY <2>2, <3>1 DEF SearchAt, InsertionRecord
      <4> HIDE DEF r
      <4> QED
        BY <1>0, <2>1, <3>1, <4>1 DEF BottomOwn
    <3>2. CASE ~(i.layer > 0)
      <4>1. r.step \in {"raise", "idle"}
        BY <2>2, <3>2 DEF InsertionRecord, Idle
      <4> HIDE DEF r
      <4> QED
        BY <4>1 DEF BottomOwn
    <3> QED
      BY <3>1, <3>2
  <2> HIDE DEF r
  <2> QED
    BY <2>1, <2>2, <2>3, BottomStays DEF Layer
<1>8. ASSUME Copies(g) PROVE Bottom'
  <2> DEFINE copied == [layer \in 1..top |-> DOMAIN neighbors[layer]]
             r == [i EXCEPT !.step = "copied", !.copied = copied]
  <2>1. i.step = "raise" /\ insertion' = [insertion EXCEPT ![g] = r] /\ neighbors' = neighbors
    BY <1>8 DEF Copies, graph
  <2>2. i \in InsertionRecord /\ ~Dead(g) /\ ~Stands(g, "link")
    BY <1>b, <2>1 DEF Active, Dead, Stands
  <2> HIDE DEF copied
  <2>3. r.step = "copied"
    BY <2>2 DEF InsertionRecord
  <2> HIDE DEF r
  <2>4. BottomOwn(r)
    BY <2>3 DEF BottomOwn
  <2> QED
    BY <2>1, <2>2, <2>4, BottomStays DEF Layer
<1>9. ASSUME Raises(g) PROVE Bottom'
  <2> DEFINE new == [layer \in 1..top |-> DOMAIN neighbors[layer] \ i.copied[layer]]
  <2>1. i.step = "copied" /\ insertion' = [insertion EXCEPT ![g] = Idle]
    BY <1>9 DEF Raises
  <2>2. Active(g) /\ ~Dead(g) /\ ~Stands(g, "link")
    BY <2>1 DEF Active, Dead, Stands
  <2>3. PICK lost \in SUBSET UNION {{layer} \X new[layer] : layer \in 1..top} :
          neighbors' =
              [layer \in 0..(top + 1) |->
                 LET kept == IF layer > top THEN {}
                             ELSE {v \in DOMAIN neighbors[layer] : <<layer, v>> \notin lost}
                     own == IF layer = i.oldTop + 1 THEN {i.vector} ELSE {} IN
                   [v \in kept \cup own |-> IF v \in own THEN {} ELSE neighbors[layer][v]]]
    BY <1>9 DEF Raises
  <2>4. top \in Nat /\ i.oldTop \in Nat
    BY <2>2, LayerInTop DEF IndexTypeOK
  <2>5. \A v : <<0, v>> \notin lost
    <3> HIDE DEF new
    <3> QED
      BY <2>3, <2>4
  <2>6. neighbors'[0] = [v \in Layer(0) |-> neighbors[0][v]]
    <3>1. 0 \in 0 .. (top + 1) /\ ~(0 > top) /\ 0 # i.oldTop + 1
      BY <2>4
    <3> HIDE DEF new
    <3> QED
      BY <2>3, <2>5, <3>1 DEF Layer
  <2>7. Layer(0)' = Layer(0) /\ \A v \in Layer(0) : neighbors'[0][v] = neighbors[0][v]
    BY <2>6 DEF Layer
  <2>8. BottomOwn(Idle)
    BY DEF BottomOwn, Idle
  <2> QED
    BY <2>1, <2>2, <2>7, <2>8, BottomStays
<1> QED
  BY <1>1, <1>2, <1>3, <1>4, <1>5, <1>6, <1>7, <1>8, <1>9 DEF Works

----------------------------------------------------------------------------
(* All layers, while no insertions have disturbed each other *)

\* A step of a goroutine that leaves the graph alone.
LEMMA LayersStay ==
  ASSUME IndexTypeOK, VectorsApart, LayersOK, NEW g \in Goroutine, NEW r,
         insertion' = [insertion EXCEPT ![g] = r], UNCHANGED <<neighbors, top, enterPoint>>,
         dealt # 0, OwnLayers(r), FoundLayers(r), r.step # "dead",
         \A K \in 0 .. top :
           Active(g) /\ Brings(insertion[g], K) =>
             \/ r.vector = Of(g) /\ Brings(r, K)
             \/ Of(g) \in Layer(K)
             \/ \A L \in 0 .. top : Of(g) \notin Layer(L)
  PROVE  LayersOK'
<1>1. insertion'[g] = r /\ \A h \in Goroutine : h # g => insertion'[h] = insertion[h]
  BY DEF IndexTypeOK
<1>2. ASSUME NEW h \in Goroutine PROVE OwnLayers(insertion[h])' /\ FoundLayers(insertion[h])' /\ ~Dead(h)'
  <2>1. CASE h = g
    BY <1>1, <2>1 DEF OwnLayers, FoundLayers, Layer, Dead
  <2>2. CASE h # g
    <3>1. OwnLayers(insertion[h]) /\ FoundLayers(insertion[h]) /\ ~Dead(h) /\ insertion'[h] = insertion[h]
      BY <1>1, <2>2 DEF LayersOK
    <3> QED
      BY <3>1 DEF OwnLayers, FoundLayers, Layer, Dead
  <2> QED
    BY <2>1, <2>2
<1>3. ASSUME NEW L \in 0 .. top, NEW v \in Layer(L), NEW K \in 0 .. L
      PROVE  v \in Layer(K) \/ ComingTo(v, K)'
  <2> SUFFICES ASSUME v \notin Layer(K) PROVE ComingTo(v, K)'
    OBVIOUS
  <2>1. PICK h \in Goroutine : Active(h) /\ Of(h) = v /\ Brings(insertion[h], K)
    BY DEF LayersOK, ComingTo
  <2>2. CASE h # g
    BY <1>1, <2>1, <2>2 DEF ComingTo, Active, Of, Brings
  <2>3. CASE h = g
    <3>1. K \in 0 .. top
      BY DEF IndexTypeOK
    <3>2. r.vector = v /\ Brings(r, K)
      BY <2>1, <2>3, <3>1
    <3> QED
      BY <1>1, <3>2 DEF ComingTo, Active, Of, Brings
  <2> QED
    BY <2>2, <2>3
<1>4. \A L : Layer(L)' = Layer(L)
  BY DEF Layer
<1>5. \A L \in 0 .. top' : \A v \in Layer(L)' : neighbors'[L][v] \subseteq Layer(L)'
  BY <1>4 DEF LayersOK
<1>6. \A L \in 0 .. top' : \A v \in Layer(L)' : \A K \in 0 .. L : v \in Layer(K)' \/ ComingTo(v, K)'
  BY <1>3, <1>4
<1>7. enterPoint' \in Layer(top)'
  BY <1>4 DEF LayersOK
<1> QED
  BY <1>2, <1>5, <1>6, <1>7 DEF LayersOK

LEMMA LayersBegin ==
  ASSUME IndexTypeOK, VectorsApart, LayersOK, NEW g \in Goroutine, Begins(g)
  PROVE  LayersOK'
<1>1. PICK level \in 0 .. MaxLevel : insertion' = [insertion EXCEPT ![g] =
           [Insertion(level) EXCEPT !.step = IF level > top THEN "lock" ELSE "search"]]
  BY DEF Begins
<1> DEFINE r == [Insertion(level) EXCEPT !.step = IF level > top THEN "lock" ELSE "search"]
<1>2. /\ r.step \in {"lock", "search"} /\ r.vector = dealt + 1 /\ r.found = {enterPoint} /\ r.left = {enterPoint}
      /\ r.layer = top /\ r.oldTop = top
  BY DEF Insertion, SearchAt
<1>3. \A L \in 0 .. top : dealt + 1 \notin Layer(L)
  BY IndexAssumption DEF IndexTypeOK
<1>4. insertion[g].step = "idle" /\ UNCHANGED <<neighbors, top, enterPoint>> /\ dealt # 0
  BY IndexAssumption DEF Begins, Stands, graph
<1>5. insertion' = [insertion EXCEPT ![g] = r]
  BY <1>1
<1> HIDE DEF r
<1>6. top \in Nat /\ enterPoint \in Layer(top)
  BY <1>4 DEF IndexTypeOK, LayersOK
<1>7. OwnLayers(r)
  <2>1. \A L \in 0 .. top : ~(top < L)
    BY <1>6
  <2> QED
    BY <1>2, <1>3, <2>1 DEF OwnLayers
<1>8. FoundLayers(r)
  <2>1. top \in top .. top
    BY <1>6
  <2> QED
    BY <1>2, <1>6, <2>1 DEF FoundLayers
<1> QED
  BY <1>2, <1>4, <1>5, <1>7, <1>8, LayersStay DEF Active

\* A candidate has its neighborhoods: no goroutine panics.
LEMMA FoundIsThere ==
  ASSUME IndexTypeOK, VectorsApart, LayersOK, NEW g \in Goroutine, Stands(g, "search"),
         NEW c \in insertion[g].left, ~Locked(c)
  PROVE  c \in Layer(insertion[g].layer)
<1> DEFINE i == insertion[g]
<1>1. i.layer \in 0 .. top
  BY LayerInTop DEF Stands, Active
<1>2. PICK L \in i.layer .. top : c \in Layer(L)
  BY DEF LayersOK, FoundLayers, Stands
<1>3. L \in 0 .. top /\ i.layer \in 0 .. L
  BY <1>1, <1>2
<1>4. ~ComingTo(c, i.layer)
  BY ActiveIsLocked DEF ComingTo, Brings
<1> QED
  BY <1>2, <1>3, <1>4 DEF LayersOK

LEMMA LayersAreSearched ==
  ASSUME IndexTypeOK, VectorsApart, LayersOK, dealt # 0, NEW g \in Goroutine,
         LocksLayers(g) \/ Evaluates(g) \/ Descends(g)
  PROVE  LayersOK'
<1> DEFINE i == insertion[g]
<1>1. i.step \in {"lock", "search"}
  BY DEF LocksLayers, Evaluates, Descends, Stands
<1>2. i \in InsertionRecord /\ i.layer \in 0 .. top /\ i.level \in Nat
  BY <1>1, ActiveRecord, LayerInTop, IndexAssumption DEF Active, InsertionRecord
<1>3. OwnLayers(i) /\ FoundLayers(i) /\ UNCHANGED <<neighbors, top, enterPoint>> /\ top \in Nat
  BY DEF LayersOK, LocksLayers, Evaluates, Descends, graph, IndexTypeOK
<1>4. CASE LocksLayers(g)
  <2> DEFINE r == [i EXCEPT !.step = "search"]
  <2>1. i.step = "lock" /\ insertion' = [insertion EXCEPT ![g] = r]
    BY <1>4 DEF LocksLayers, Stands
  <2>2. /\ r.step = "search" /\ r.layer = i.layer /\ r.vector = i.vector /\ r.found = i.found /\ r.left = i.left
        /\ r.level = i.level /\ r.oldTop = i.oldTop
    BY <1>2 DEF InsertionRecord
  <2> HIDE DEF r
  <2>3. OwnLayers(r)
    <3>1. i.layer = i.oldTop /\ i.oldTop \in Nat
      BY <1>2, <1>3, <2>1 DEF OwnLayers
    <3>2. \A L \in 0 .. top : ~(i.layer < L /\ L <= i.oldTop)
      BY <1>2, <3>1
    <3> QED
      BY <1>3, <2>1, <2>2, <3>2 DEF OwnLayers
  <2>4. FoundLayers(r)
    BY <1>3, <2>1, <2>2 DEF FoundLayers
  <2>5. \A K \in 0 .. top : ~Brings(i, K)
    BY <2>1 DEF Brings
  <2> QED
    BY <1>3, <2>1, <2>2, <2>3, <2>4, <2>5, LayersStay
<1>5. CASE Evaluates(g)
  <2>1. PICK c \in Nearest(i.vector, i.left, 1) :
          /\ ~Locked(c)
          /\ IF c \in DOMAIN neighbors[i.layer]
             THEN LET found == Nearest(i.vector, i.found \cup (neighbors[i.layer][c] \ i.seen), Ef(i)) IN
                    insertion' = [insertion EXCEPT
                      ![g].found = found,
                      ![g].left = ((i.left \ {c}) \cup (found \ i.found)) \cap found,
                      ![g].seen = @ \cup neighbors[i.layer][c]]
             ELSE Panics(g)
    BY <1>5 DEF Evaluates
  <2>2. i.step = "search" /\ Stands(g, "search") /\ c \in i.left
    BY <1>5, NearestAmong DEF Evaluates, Stands
  <2>3. c \in Layer(i.layer)
    BY <2>1, <2>2, FoundIsThere
  <2> DEFINE near == neighbors[i.layer][c]
             found == Nearest(i.vector, i.found \cup (near \ i.seen), Ef(i))
             left == ((i.left \ {c}) \cup (found \ i.found)) \cap found
             more == i.seen \cup near
             r == [i EXCEPT !.found = found, !.left = left, !.seen = more]
  <2>4. insertion' = [insertion EXCEPT ![g] = r]
    BY <2>1, <2>3 DEF Layer
  <2>5. found \ left \subseteq (i.found \ i.left) \cup {c} /\ left \subseteq found
    BY CandidatesEvaluated
  <2>6. found \subseteq i.found \cup near
    BY NearestAmong
  <2>7. near \subseteq Layer(i.layer)
    BY <1>2, <2>3 DEF LayersOK
  <2> HIDE DEF found, left, more, near
  <2>8. /\ r.step = "search" /\ r.layer = i.layer /\ r.vector = i.vector /\ r.found = found /\ r.left = left
        /\ r.level = i.level /\ r.oldTop = i.oldTop
    BY <1>2, <2>2 DEF InsertionRecord
  <2> HIDE DEF r
  <2>9. OwnLayers(r)
    BY <1>3, <2>2, <2>8 DEF OwnLayers
  <2>10. i.layer \in i.layer .. top
    BY <1>2, <1>3
  <2>11. FoundLayers(r)
    BY <1>3, <2>2, <2>3, <2>5, <2>6, <2>7, <2>8, <2>10 DEF FoundLayers
  <2>12. \A K \in 0 .. top : Brings(i, K) => r.vector = Of(g) /\ Brings(r, K)
    BY <2>2, <2>8 DEF Brings, Of
  <2> QED
    BY <1>3, <2>4, <2>8, <2>9, <2>11, <2>12, LayersStay
<1>6. CASE Descends(g)
  <2> DEFINE r == SearchAt(i, i.layer - 1, i.found)
  <2>1. i.step = "search" /\ i.layer > i.level /\ i.left = {} /\ insertion' = [insertion EXCEPT ![g] = r]
    BY <1>6 DEF Descends
  <2>2. /\ r.step = "search" /\ r.layer = i.layer - 1 /\ r.vector = i.vector /\ r.found = i.found /\ r.left = i.found
        /\ r.level = i.level /\ r.oldTop = i.oldTop
    BY <1>2, <2>1 DEF InsertionRecord, SearchAt
  <2> HIDE DEF r
  <2>3. \A L \in 0 .. top : ~(i.layer < L /\ L <= i.level) /\ ~(i.layer - 1 < L /\ L <= i.level)
    BY <1>2, <2>1
  <2>4. \A L \in 0 .. top : i.vector \notin Layer(L)
    BY <1>3, <2>1, <2>3 DEF OwnLayers
  <2>5. OwnLayers(r)
    BY <2>2, <2>3, <2>4 DEF OwnLayers
  <2>6. \A L \in i.layer .. top : L \in (i.layer - 1) .. top
    BY <1>2, <1>3
  <2>7. FoundLayers(r)
    BY <1>3, <2>1, <2>2, <2>6 DEF FoundLayers
  <2> QED
    BY <1>3, <2>1, <2>2, <2>4, <2>5, <2>7, LayersStay DEF Of
<1> QED
  BY <1>4, <1>5, <1>6

LEMMA LayersEnd ==
  ASSUME IndexTypeOK, VectorsApart, LayersOK, dealt # 0, NEW g \in Goroutine, EndsLayer(g) \/ Copies(g)
  PROVE  LayersOK'
<1> DEFINE i == insertion[g]
<1>1. i.step \in {"link", "raise"}
  BY DEF EndsLayer, Copies, Stands
<1>2. i \in InsertionRecord /\ i.layer \in 0 .. top /\ i.level \in Nat /\ i.oldTop \in Nat
  BY <1>1, ActiveRecord, LayerInTop, IndexAssumption DEF Active, InsertionRecord
<1>3. OwnLayers(i) /\ FoundLayers(i) /\ UNCHANGED <<neighbors, top, enterPoint>> /\ top \in Nat
  BY DEF LayersOK, EndsLayer, Copies, graph, IndexTypeOK
<1>4. CASE EndsLayer(g) /\ i.layer > 0
  <2> DEFINE r == SearchAt(i, i.layer - 1, i.found)
  <2>1. i.step = "link" /\ insertion' = [insertion EXCEPT ![g] = r]
    BY <1>4 DEF EndsLayer
  <2>2. /\ r.step = "search" /\ r.layer = i.layer - 1 /\ r.vector = i.vector /\ r.found = i.found /\ r.left = i.found
        /\ r.level = i.level /\ r.oldTop = i.oldTop
    BY <1>2, <2>1 DEF InsertionRecord, SearchAt
  <2> HIDE DEF r
  <2>3. \A L \in 0 .. top : i.layer <= L <=> i.layer - 1 < L
    BY <1>2
  <2>4. OwnLayers(r)
    BY <1>3, <2>1, <2>2, <2>3 DEF OwnLayers
  <2>5. i.layer \in (i.layer - 1) .. top
    BY <1>2, <1>3
  <2>6. FoundLayers(r)
    BY <1>3, <2>1, <2>2, <2>5 DEF FoundLayers
  <2>7. \A K \in 0 .. top : Brings(i, K) => r.vector = Of(g) /\ Brings(r, K)
    BY <1>2, <2>1, <2>2 DEF Brings, Of
  <2> QED
    BY <1>3, <2>1, <2>2, <2>4, <2>6, <2>7, LayersStay
<1>5. CASE EndsLayer(g) /\ ~(i.layer > 0) /\ i.level > i.oldTop
  <2> DEFINE r == [i EXCEPT !.step = "raise"]
  <2>0. i.layer = 0
    BY <1>2, <1>3, <1>5
  <2>1. i.step = "link" /\ insertion' = [insertion EXCEPT ![g] = r] /\ i.layer = 0
    BY <1>5, <2>0 DEF EndsLayer
  <2>2. /\ r.step = "raise" /\ r.vector = i.vector /\ r.oldTop = i.oldTop
    BY <1>2, <2>1 DEF InsertionRecord
  <2> HIDE DEF r
  <2>3. \A L \in 0 .. top : L <= i.oldTop => i.layer <= L /\ L <= i.level
    BY <1>2, <1>5, <2>1
  <2>4. OwnLayers(r)
    BY <1>3, <2>1, <2>2, <2>3 DEF OwnLayers
  <2>5. FoundLayers(r)
    BY <2>2 DEF FoundLayers
  <2>6. \A K \in 0 .. top : ~Brings(i, K)
    BY <2>1 DEF Brings
  <2> QED
    BY <1>3, <2>1, <2>2, <2>4, <2>5, <2>6, LayersStay
<1>6. CASE EndsLayer(g) /\ ~(i.layer > 0) /\ ~(i.level > i.oldTop)
  <2>0. i.layer = 0
    BY <1>2, <1>3, <1>6
  <2>1. i.step = "link" /\ insertion' = [insertion EXCEPT ![g] = Idle] /\ i.layer = 0
    BY <1>6, <2>0 DEF EndsLayer
  <2>2. OwnLayers(Idle) /\ FoundLayers(Idle) /\ Idle.step # "dead"
    BY DEF OwnLayers, FoundLayers, Idle
  <2>3. \A K \in 0 .. top : ~Brings(i, K)
    BY <2>1 DEF Brings
  <2> QED
    BY <1>3, <2>1, <2>2, <2>3, LayersStay
<1>7. CASE Copies(g)
  <2> DEFINE copied == [layer \in 1..top |-> DOMAIN neighbors[layer]]
             r == [i EXCEPT !.step = "copied", !.copied = copied]
  <2>1. i.step = "raise" /\ insertion' = [insertion EXCEPT ![g] = r]
    BY <1>7 DEF Copies
  <2> HIDE DEF copied
  <2>2. r.step = "copied" /\ r.vector = i.vector /\ r.oldTop = i.oldTop
    BY <1>2 DEF InsertionRecord
  <2> HIDE DEF r
  <2>3. OwnLayers(r) /\ FoundLayers(r)
    BY <1>3, <2>1, <2>2 DEF OwnLayers, FoundLayers
  <2>4. \A K \in 0 .. top : ~Brings(i, K)
    BY <2>1 DEF Brings
  <2> QED
    BY <1>3, <2>1, <2>2, <2>3, <2>4, LayersStay
<1> QED
  BY <1>4, <1>5, <1>6, <1>7

LEMMA LayersAreSet ==
  ASSUME IndexTypeOK, VectorsApart, LayersOK, dealt # 0, NEW g \in Goroutine, SetsNeighbors(g)
  PROVE  LayersOK'
<1> DEFINE i == insertion[g]
           v == i.vector
           layer == i.layer
           nearest == Nearest(v, i.found, MaxConnection)
           r == [i EXCEPT !.step = "link", !.left = nearest]
<1>1. i.step = "search" /\ i.left = {} /\ layer <= i.level /\ Active(g) /\ Of(g) = v
  BY DEF SetsNeighbors, Active, Of
<1>2. i \in InsertionRecord /\ layer \in 0 .. top /\ i.oldTop \in 0 .. top /\ layer <= i.oldTop
  BY <1>1, ActiveRecord, LayerInTop DEF VectorsApart
<1>3. OwnLayers(i) /\ FoundLayers(i) /\ UNCHANGED <<top, enterPoint, dealt>> /\ top \in Nat /\ i.level \in Nat
  BY <1>2, IndexAssumption DEF LayersOK, SetsNeighbors, IndexTypeOK, InsertionRecord
<1>4. insertion' = [insertion EXCEPT ![g] = r] /\ neighbors' = Stored(layer, v, nearest)
  BY DEF SetsNeighbors
<1>5. nearest \subseteq i.found
  BY NearestAmong
<1> HIDE DEF nearest
<1>6. /\ r.step = "link" /\ r.layer = layer /\ r.vector = v /\ r.found = i.found /\ r.left = nearest
      /\ r.level = i.level /\ r.oldTop = i.oldTop
  BY <1>2 DEF InsertionRecord
<1> HIDE DEF r
<1>7. insertion'[g] = r /\ \A h \in Goroutine : h # g => insertion'[h] = insertion[h]
          /\ (Active(h) => insertion[h].vector # v)
  BY <1>1, <1>4 DEF IndexTypeOK, VectorsApart, Of
<1>8. \A L \in 0 .. top : L # layer => neighbors'[L] = neighbors[L]
  BY <1>4 DEF Stored, IndexTypeOK
<1>9. neighbors'[layer] = [w \in Layer(layer) \cup {v} |-> IF w = v THEN nearest ELSE neighbors[layer][w]]
  BY <1>2, <1>4 DEF Stored, IndexTypeOK, Layer
<1>10. \A L \in 0 .. top : Layer(L)' = IF L = layer THEN Layer(L) \cup {v} ELSE Layer(L)
  BY <1>8, <1>9 DEF Layer
<1>11. i.found \subseteq Layer(layer)
  BY <1>1, <1>3 DEF FoundLayers
<1>12. ASSUME NEW h \in Goroutine PROVE OwnLayers(insertion[h])' /\ FoundLayers(insertion[h])' /\ ~Dead(h)'
  <2>1. CASE h = g
    <3>1. \A L \in 0 .. top : v \in Layer(L)' <=> layer <= L /\ L <= i.level /\ L <= i.oldTop
      <4>1. \A L \in 0 .. top : v \in Layer(L) <=> layer < L /\ L <= i.level /\ L <= i.oldTop
        BY <1>1, <1>3 DEF OwnLayers
      <4>2. \A L \in 0 .. top : layer <= L <=> layer < L \/ L = layer
        BY <1>2
      <4> QED
        BY <1>1, <1>2, <1>10, <4>1, <4>2
    <3>2. r.found \subseteq DOMAIN neighbors'[layer]
      BY <1>2, <1>6, <1>10, <1>11 DEF Layer
    <3>3. OwnLayers(insertion[h])'
      BY <1>1, <1>3, <1>6, <1>7, <2>1, <3>1 DEF OwnLayers
    <3>4. FoundLayers(insertion[h])'
      BY <1>5, <1>6, <1>7, <2>1, <3>2 DEF FoundLayers, Layer
    <3> QED
      BY <1>6, <1>7, <2>1, <3>3, <3>4 DEF Dead
  <2>2. CASE h # g
    <3> DEFINE j == insertion[h]
    <3>1. insertion'[h] = j /\ (j.step # "idle" => j.vector # v) /\ OwnLayers(j) /\ FoundLayers(j) /\ ~Dead(h)
      BY <1>7, <2>2 DEF LayersOK, Active
    <3>2. \A L \in 0 .. top : j.step # "idle" => (j.vector \in Layer(L)' <=> j.vector \in Layer(L))
      BY <1>10, <3>1
    <3>3. OwnLayers(insertion[h])'
      BY <1>3, <3>1, <3>2 DEF OwnLayers
    <3>4. j.step # "idle" => j.layer \in 0 .. top
      BY LayerInTop DEF Active
    <3>5. \A L \in 0 .. top : Layer(L) \subseteq Layer(L)'
      BY <1>10
    <3>6. j.step # "idle" => \A L \in j.layer .. top : L \in 0 .. top
      BY <3>4
    <3>7. FoundLayers(insertion[h])'
      <4>1. insertion[h]' = j /\ top' = top
        BY <1>3, <3>1
      <4>2. j.step \in {"lock", "search"} => \A x \in j.found : \E L \in j.layer .. top : x \in Layer(L)'
        BY <3>1, <3>5, <3>6 DEF FoundLayers
      <4>3. j.step \in {"lock", "search"} => j.found \ j.left \subseteq DOMAIN neighbors'[j.layer]
        BY <3>1, <3>4, <3>5 DEF FoundLayers, Layer
      <4>4. j.step = "link" => j.found \subseteq DOMAIN neighbors'[j.layer]
        BY <3>1, <3>4, <3>5 DEF FoundLayers, Layer
      <4>5. j.step \in {"lock", "search", "link"} => j.left \subseteq j.found
        BY <3>1 DEF FoundLayers
      <4> HIDE DEF j
      <4> QED
        BY <4>1, <4>2, <4>3, <4>4, <4>5 DEF FoundLayers, Layer
    <3> QED
      BY <3>1, <3>3, <3>7 DEF Dead
  <2> QED
    BY <2>1, <2>2
<1>13. ASSUME NEW L \in 0 .. top, NEW w \in Layer(L)'
       PROVE  neighbors'[L][w] \subseteq Layer(L)' /\ (\A K \in 0 .. L : w \in Layer(K)' \/ ComingTo(w, K)')
  <2>1. CASE w = v /\ L = layer
    <3>1. neighbors'[L][w] \subseteq Layer(L)'
      BY <1>5, <1>9, <1>10, <1>11, <2>1
    <3>2. \A K \in 0 .. L : K = layer \/ K < layer
      BY <1>2, <2>1
    <3>3. \A K \in 0 .. L : K < layer => ComingTo(w, K)'
      BY <1>6, <1>7, <2>1 DEF ComingTo, Active, Of, Brings
    <3> QED
      <4>1. w \in Layer(L)'
        OBVIOUS
      <4> QED
        BY <2>1, <3>1, <3>2, <3>3, <4>1
  <2>2. CASE ~(w = v /\ L = layer)
    <3>1. w \in Layer(L) /\ neighbors'[L][w] = neighbors[L][w]
      BY <1>1, <1>8, <1>9, <1>10, <2>2
    <3>2. neighbors'[L][w] \subseteq Layer(L)'
      BY <1>10, <3>1 DEF LayersOK
    <3>3. ASSUME NEW K \in 0 .. L, w \notin Layer(K)' PROVE ComingTo(w, K)'
      <4>1. K \in 0 .. top
        BY <1>3
      <4>2. w \notin Layer(K) /\ ~(w = v /\ K = layer)
        BY <1>10, <3>3, <4>1
      <4>3. PICK h \in Goroutine : Active(h) /\ Of(h) = w /\ Brings(insertion[h], K)
        BY <3>1, <4>2 DEF LayersOK, ComingTo
      <4>4. CASE h # g
        BY <1>7, <4>3, <4>4 DEF ComingTo, Active, Of, Brings
      <4>5. CASE h = g
        <5>1. w = v /\ K <= layer /\ K # layer
          BY <1>1, <4>2, <4>3, <4>5 DEF Brings
        <5>2. K < layer
          BY <1>2, <4>1, <5>1
        <5> QED
          BY <1>6, <1>7, <5>1, <5>2 DEF ComingTo, Active, Of, Brings
      <4> QED
        BY <4>4, <4>5
    <3> QED
      BY <3>2, <3>3
  <2> QED
    BY <2>1, <2>2
<1>14. enterPoint' \in Layer(top)'
  BY <1>3, <1>10 DEF LayersOK
<1>15. \A L \in 0 .. top' : \A w \in Layer(L)' : neighbors'[L][w] \subseteq Layer(L)'
  BY <1>3, <1>13
<1>16. \A L \in 0 .. top' : \A w \in Layer(L)' : \A K \in 0 .. L : w \in Layer(K)' \/ ComingTo(w, K)'
  BY <1>3, <1>13
<1> QED
  BY <1>12, <1>14, <1>15, <1>16 DEF LayersOK

LEMMA LayersAreLinked ==
  ASSUME IndexTypeOK, VectorsApart, LayersOK, dealt # 0, NEW g \in Goroutine, Links(g)
  PROVE  LayersOK'
<1> DEFINE i == insertion[g]
           v == i.vector
           layer == i.layer
<1>1. i.step = "link" /\ Active(g)
  BY DEF Links, Active
<1>2. i \in InsertionRecord /\ layer \in 0 .. top /\ layer <= i.oldTop
  BY <1>1, ActiveRecord, LayerInTop DEF VectorsApart
<1>3. OwnLayers(i) /\ FoundLayers(i) /\ UNCHANGED <<top, enterPoint, dealt>> /\ top \in Nat
  BY DEF LayersOK, Links, IndexTypeOK
<1>4. PICK e \in Nearest(v, i.left, 1) :
         IF e \in DOMAIN neighbors[layer]
            THEN /\ neighbors' = [neighbors EXCEPT ![layer][e] = Linked(e, layer, v)]
                 /\ insertion' = [insertion EXCEPT ![g].left = @ \ {e}]
            ELSE /\ insertion' = [insertion EXCEPT ![g].step = "dead", ![g].broken = {e}]
                 /\ UNCHANGED neighbors
  BY DEF Links
<1>5. i.left \subseteq i.found /\ i.found \subseteq Layer(layer) /\ e \in Layer(layer)
  BY <1>1, <1>3, NearestAmong DEF FoundLayers
<1> DEFINE r == [i EXCEPT !.left = @ \ {e}]
           linked == Linked(e, layer, v)
<1>6. insertion' = [insertion EXCEPT ![g] = r] /\ neighbors' = [neighbors EXCEPT ![layer][e] = linked]
  BY <1>4, <1>5 DEF Layer
<1>7. v \in Layer(layer)
  <2>1. layer <= i.level /\ layer <= layer
    BY <1>1, <1>2, <1>3 DEF OwnLayers
  <2> QED
    BY <1>1, <1>2, <1>3, <2>1 DEF OwnLayers
<1>8. linked \subseteq neighbors[layer][e] \cup {v}
  BY NearestAmong DEF Linked
<1>9. linked \subseteq Layer(layer)
  BY <1>2, <1>5, <1>7, <1>8 DEF LayersOK
<1> HIDE DEF linked
<1>10. \A L \in 0 .. top : neighbors'[L] = IF L = layer THEN [neighbors[L] EXCEPT ![e] = linked] ELSE neighbors[L]
  BY <1>6 DEF IndexTypeOK
<1>11. \A L \in 0 .. top : Layer(L)' = Layer(L)
  BY <1>10 DEF Layer
<1>12. /\ r.step = "link" /\ r.layer = layer /\ r.vector = v /\ r.found = i.found /\ r.left = i.left \ {e}
       /\ r.level = i.level /\ r.oldTop = i.oldTop
  BY <1>1, <1>2 DEF InsertionRecord
<1> HIDE DEF r
<1>13. insertion'[g] = r /\ \A h \in Goroutine : h # g => insertion'[h] = insertion[h]
  BY <1>6 DEF IndexTypeOK
<1>14. \A L \in 0 .. top : \A w \in Layer(L) : neighbors'[L][w] \subseteq Layer(L)
  BY <1>9, <1>10 DEF LayersOK, Layer
<1>15. ASSUME NEW h \in Goroutine
       PROVE  LET j == insertion[h]
                  k == insertion'[h] IN
                /\ k.step = j.step /\ k.layer = j.layer /\ k.vector = j.vector /\ k.level = j.level
                       /\ k.oldTop = j.oldTop
                /\ k.found = j.found /\ (h # g => k.left = j.left) /\ (h = g => k.left = i.left \ {e})
  BY <1>1, <1>12, <1>13
<1>16. ASSUME NEW h \in Goroutine PROVE OwnLayers(insertion[h])' /\ FoundLayers(insertion[h])' /\ ~Dead(h)'
  <2> DEFINE j == insertion[h]
             k == insertion'[h]
  <2>1. /\ k.step = j.step /\ k.layer = j.layer /\ k.vector = j.vector /\ k.level = j.level /\ k.oldTop = j.oldTop
        /\ k.found = j.found /\ (h # g => k.left = j.left) /\ (h = g => k.left = i.left \ {e})
    BY <1>15
  <2>2. OwnLayers(j) /\ FoundLayers(j) /\ ~Dead(h)
    BY DEF LayersOK
  <2>3. OwnLayers(insertion[h])'
    BY <1>3, <1>11, <2>1, <2>2 DEF OwnLayers
  <2>4. j.step # "idle" => j.layer \in 0 .. top /\ \A L \in j.layer .. top : L \in 0 .. top
    BY LayerInTop DEF Active
  <2>5. FoundLayers(insertion[h])'
    <3>1. k.left \subseteq j.left /\ (k.left = j.left \/ j.step = "link")
      BY <1>1, <2>1
    <3>2. j.step \in {"lock", "search"} => \A x \in j.found : \E L \in j.layer .. top : x \in Layer(L)'
      BY <1>11, <2>2, <2>4 DEF FoundLayers
    <3>3. j.step \in {"lock", "search"} => j.found \ j.left \subseteq DOMAIN neighbors'[j.layer]
      BY <1>11, <2>2, <2>4 DEF FoundLayers, Layer
    <3>4. j.step = "link" => j.found \subseteq DOMAIN neighbors'[j.layer]
      BY <1>11, <2>2, <2>4 DEF FoundLayers, Layer
    <3>5. j.step \in {"lock", "search", "link"} => j.left \subseteq j.found
      BY <2>2 DEF FoundLayers
    <3>6. insertion[h]' = k /\ top' = top
      BY <1>3
    <3> HIDE DEF j, k
    <3> QED
      BY <2>1, <3>1, <3>2, <3>3, <3>4, <3>5, <3>6 DEF FoundLayers, Layer
  <2> QED
    BY <2>1, <2>2, <2>3, <2>5 DEF Dead
<1>17. \A w, K : ComingTo(w, K) => ComingTo(w, K)'
  BY <1>15 DEF ComingTo, Active, Of, Brings
<1>18. \A L \in 0 .. top' : \A w \in Layer(L)' : neighbors'[L][w] \subseteq Layer(L)'
  BY <1>3, <1>11, <1>14
<1>19. \A L \in 0 .. top' : \A w \in Layer(L)' : \A K \in 0 .. L : w \in Layer(K)' \/ ComingTo(w, K)'
  <2> SUFFICES ASSUME NEW L \in 0 .. top, NEW w \in Layer(L), NEW K \in 0 .. L
          PROVE w \in Layer(K)' \/ ComingTo(w, K)'
    BY <1>3, <1>11
  <2>1. K \in 0 .. top
    BY <1>3
  <2> QED
    BY <1>11, <1>17, <2>1 DEF LayersOK
<1>20. enterPoint' \in Layer(top)'
  BY <1>3, <1>11 DEF LayersOK
<1> QED
  BY <1>16, <1>18, <1>19, <1>20 DEF LayersOK

\* An array of layers that nothing was lost from, with one more layer.
LEMMA LayersRise ==
  ASSUME IndexTypeOK, VectorsApart, LayersOK, dealt # 0, NEW g \in Goroutine, Raises(g), ~raced'
  PROVE  LayersOK'
<1> DEFINE i == insertion[g]
           v == i.vector
           new == [layer \in 1..top |-> DOMAIN neighbors[layer] \ i.copied[layer]]
<1>1. i.step = "copied" /\ Active(g) /\ Of(g) = v /\ enterPoint' = v /\ top' = top + 1 /\ dealt' = dealt
  BY DEF Raises, Active, Of
<1>2. insertion' = [insertion EXCEPT ![g] = Idle]
  BY DEF Raises
<1>3. PICK lost \in SUBSET UNION {{layer} \X new[layer] : layer \in 1..top} :
        /\ neighbors' =
              [layer \in 0..(top + 1) |->
                 LET kept == IF layer > top THEN {}
                             ELSE {w \in DOMAIN neighbors[layer] : <<layer, w>> \notin lost}
                     own == IF layer = i.oldTop + 1 THEN {i.vector} ELSE {} IN
                   [w \in kept \cup own |-> IF w \in own THEN {} ELSE neighbors[layer][w]]]
        /\ raced' = (raced \/ top # i.oldTop \/ lost # {})
  BY DEF Raises
<1> HIDE DEF new
<1>4. top = i.oldTop /\ lost = {} /\ top \in Nat
  BY <1>3 DEF IndexTypeOK
<1>5. \A L \in 0 .. top : neighbors'[L] = [w \in Layer(L) |-> neighbors[L][w]]
  <2> SUFFICES ASSUME NEW L \in 0 .. top PROVE neighbors'[L] = [w \in Layer(L) |-> neighbors[L][w]]
    OBVIOUS
  <2>1. L \in 0 .. (top + 1) /\ ~(L > top) /\ L # i.oldTop + 1
    BY <1>4
  <2> QED
    BY <1>3, <1>4, <2>1 DEF Layer
<1>6. neighbors'[top + 1] = [w \in {v} |-> {}]
  <2>1. top + 1 \in 0 .. (top + 1) /\ top + 1 > top /\ top + 1 = i.oldTop + 1
    BY <1>4
  <2> QED
    BY <1>3, <2>1
<1>7. \A L \in 0 .. top : Layer(L)' = Layer(L) /\ \A w \in Layer(L) : neighbors'[L][w] = neighbors[L][w]
  BY <1>5 DEF Layer
<1>8. Layer(top)' = {v}
  BY <1>1, <1>6 DEF Layer
<1>9. \A L : L \in 0 .. top' <=> L \in 0 .. top \/ L = top'
  BY <1>1, <1>4
<1>10. insertion'[g] = Idle /\ \A h \in Goroutine : h # g => insertion'[h] = insertion[h]
           /\ (Active(h) => insertion[h].vector # v)
  BY <1>1, <1>2 DEF IndexTypeOK, VectorsApart, Of
<1>11. ASSUME NEW h \in Goroutine PROVE OwnLayers(insertion[h])' /\ FoundLayers(insertion[h])' /\ ~Dead(h)'
  <2>1. CASE h = g
    BY <1>10, <2>1 DEF OwnLayers, FoundLayers, Dead, Idle
  <2>2. CASE h # g
    <3> DEFINE j == insertion[h]
    <3>1. insertion[h]' = j /\ (j.step # "idle" => j.vector # v) /\ OwnLayers(j) /\ FoundLayers(j) /\ ~Dead(h)
      BY <1>10, <2>2 DEF LayersOK, Active
    <3>2. j.step # "idle" => j.layer \in 0 .. top /\ j.oldTop \in 0 .. top
              /\ \A L \in j.layer .. top : L \in 0 .. top /\ L \in j.layer .. top'
      <4>1. j.step # "idle" => j.layer \in 0 .. top /\ j.oldTop \in 0 .. top
        BY LayerInTop DEF Active
      <4> QED
        BY <1>1, <1>4, <4>1
    <3>3. j.step # "idle" => ~(top' <= j.oldTop) /\ j.vector \notin Layer(top)'
      BY <1>1, <1>4, <1>8, <3>1, <3>2
    <3>4. OwnLayers(insertion[h])'
      <4>1. \A L \in 0 .. top : Layer(L)' = Layer(L)
        BY <1>7
      <4>2. /\ j.step = "lock" => j.layer = j.oldTop
            /\ j.step = "link" => j.layer <= j.level
        BY <3>1 DEF OwnLayers
      <4>3. ASSUME NEW L \in 0 .. top'
            PROVE  /\ j.step = "lock" => j.vector \notin Layer(L)'
                   /\ j.step = "search" => (j.vector \in Layer(L)' <=> j.layer < L /\ L <= j.level /\ L <= j.oldTop)
                   /\ j.step = "link" => (j.vector \in Layer(L)' <=> j.layer <= L /\ L <= j.level /\ L <= j.oldTop)
                   /\ j.step \in {"raise", "copied"} => (j.vector \in Layer(L)' <=> L <= j.oldTop)
        <5>1. CASE L \in 0 .. top
          BY <3>1, <4>1, <5>1 DEF OwnLayers
        <5>2. CASE L = top'
          BY <3>3, <5>2 DEF Layer
        <5> QED
          BY <1>9, <5>1, <5>2
      <4> HIDE DEF j
      <4> QED
        BY <3>1, <4>2, <4>3 DEF OwnLayers, Layer
    <3>5. FoundLayers(insertion[h])'
      <4>2. j.step \in {"lock", "search"} => \A x \in j.found : \E L \in j.layer .. top' : x \in Layer(L)'
        BY <1>7, <3>1, <3>2 DEF FoundLayers
      <4>3. j.step \in {"lock", "search"} => j.found \ j.left \subseteq DOMAIN neighbors'[j.layer]
        BY <1>7, <3>1, <3>2 DEF FoundLayers, Layer
      <4>4. j.step = "link" => j.found \subseteq DOMAIN neighbors'[j.layer]
        BY <1>7, <3>1, <3>2 DEF FoundLayers, Layer
      <4>5. j.step \in {"lock", "search", "link"} => j.left \subseteq j.found
        BY <3>1 DEF FoundLayers
      <4> HIDE DEF j
      <4> QED
        BY <3>1, <4>2, <4>3, <4>4, <4>5 DEF FoundLayers, Layer
    <3> QED
      BY <3>1, <3>4, <3>5 DEF Dead
  <2> QED
    BY <2>1, <2>2
<1>12. ASSUME NEW L \in 0 .. top', NEW w \in Layer(L)' PROVE neighbors'[L][w] \subseteq Layer(L)'
  <2>1. CASE L \in 0 .. top
    BY <1>7, <2>1 DEF LayersOK
  <2>2. CASE L = top'
    BY <1>1, <1>6, <2>2 DEF Layer
  <2> QED
    BY <1>9, <2>1, <2>2
<1>13. ASSUME NEW L \in 0 .. top', NEW w \in Layer(L)', NEW K \in 0 .. L
       PROVE  w \in Layer(K)' \/ ComingTo(w, K)'
  <2>1. CASE L \in 0 .. top
    <3>1. K \in 0 .. top
      BY <1>4, <2>1
    <3>2. w \in Layer(K) \/ ComingTo(w, K)
      BY <1>7, <2>1 DEF LayersOK
    <3>3. ASSUME ComingTo(w, K) PROVE ComingTo(w, K)'
      <4>1. PICK h \in Goroutine : Active(h) /\ Of(h) = w /\ Brings(insertion[h], K)
        BY <3>3 DEF ComingTo
      <4>2. h # g
        BY <1>1, <4>1 DEF Brings
      <4> QED
        BY <1>10, <4>1, <4>2 DEF ComingTo, Active, Of, Brings
    <3> QED
      BY <1>7, <3>1, <3>2, <3>3
  <2>2. CASE L = top'
    <3>1. w = v
      BY <1>8, <2>2 DEF Layer
    <3>2. CASE K = L
      BY <3>2
    <3>3. CASE K # L
      <4>1. K \in 0 .. top /\ K <= i.oldTop
        BY <1>1, <1>4, <2>2, <3>3
      <4>2. OwnLayers(i)
        BY DEF LayersOK
      <4>3. v \in Layer(K)
        BY <1>1, <4>1, <4>2 DEF OwnLayers
      <4> QED
        BY <1>7, <3>1, <4>1, <4>3
    <3> QED
      BY <3>2, <3>3
  <2> QED
    BY <1>9, <2>1, <2>2
<1>14. enterPoint' \in Layer(top)'
  <2>1. Layer(top)' = DOMAIN neighbors'[top']
    BY DEF Layer
  <2> QED
    BY <1>1, <1>6, <2>1
<1> QED
  BY <1>11, <1>12, <1>13, <1>14 DEF LayersOK

LEMMA LayersKept ==
  ASSUME IndexTypeOK, VectorsApart, LayersOK, NEW g \in Goroutine, Works(g), ~raced'
  PROVE  LayersOK'
<1>1. CASE Begins(g)
  BY <1>1, LayersBegin
<1>2. CASE ~Begins(g)
  <2>1. Active(g)
    BY <1>2 DEF Works, LocksLayers, Evaluates, Descends, SetsNeighbors, Links, EndsLayer, Copies, Raises,
           Stands, Active
  <2>2. dealt # 0
    <3>1. Of(g) <= dealt /\ Of(g) \in Vector /\ dealt \in Nat
      BY <2>1, ActiveRecord, IndexAssumption DEF VectorsApart, InsertionRecord, Of, IndexTypeOK
    <3> QED
      BY <3>1, IndexAssumption DEF Vector
  <2> QED
    BY <1>2, <2>2, LayersAreSearched, LayersAreSet, LayersAreLinked, LayersEnd, LayersRise DEF Works
<1> QED
  BY <1>1, <1>2

----------------------------------------------------------------------------
(* The first vector, and the theorem *)

LEMMA FirstIsAlone ==
  ASSUME IndexTypeOK, VectorsApart, InsertsFirst
  PROVE  IndexTypeOK' /\ VectorsApart' /\ Bottom' /\ LayersOK'
<1>1. dealt = 0 /\ dealt' = 1 /\ top = 0 /\ top' = 0 /\ enterPoint' = 1 /\ insertion' = insertion
  BY DEF InsertsFirst, IndexTypeOK
<1>2. ASSUME NEW g \in Goroutine PROVE insertion[g].step = "idle"
  <2> SUFFICES ASSUME insertion[g].step # "idle" PROVE FALSE
    OBVIOUS
  <2>1. Of(g) <= 0 /\ Of(g) \in Vector
    BY <1>1, ActiveRecord DEF Active, VectorsApart, InsertionRecord, Of
  <2> QED
    BY <2>1, IndexAssumption DEF Vector
<1>3. DOMAIN neighbors' = 0 .. 0 /\ neighbors'[0] = [v \in {1} |-> {}]
  BY <1>1 DEF InsertsFirst, IndexTypeOK
<1>4. Layer(0)' = {1} /\ neighbors'[0][1] = {} /\ 0 .. 0 = {0}
  BY <1>3 DEF Layer
<1>5. IndexTypeOK'
  <2>1. dealt' \in 0 .. NumVectors /\ enterPoint' \in Vector
    BY <1>1, IndexAssumption DEF Vector
  <2>2. \A L \in 0 .. top' : Layer(L)' \subseteq 1 .. dealt' /\ \A v \in Layer(L)' : neighbors'[L][v] \subseteq Vector
    BY <1>1, <1>4
  <2> QED
    BY <1>1, <1>3, <2>1, <2>2 DEF IndexTypeOK
<1>6. VectorsApart'
  BY <1>1, <1>2 DEF VectorsApart, Active
<1>7. Bottom'
  <2>1. \A g \in Goroutine : BottomOwn(insertion[g])'
    BY <1>1, <1>2 DEF BottomOwn
  <2> QED
    BY <1>4, <2>1 DEF Bottom
<1>8. LayersOK'
  <2>1. \A g \in Goroutine : OwnLayers(insertion[g])' /\ FoundLayers(insertion[g])' /\ ~Dead(g)'
    BY <1>1, <1>2 DEF OwnLayers, FoundLayers, Dead
  <2>2. enterPoint' \in Layer(top)'
    BY <1>1, <1>3 DEF Layer
  <2>3. \A L \in 0 .. top' : L = 0
    BY <1>1
  <2> QED
    BY <1>4, <2>1, <2>2, <2>3 DEF LayersOK
<1> QED
  BY <1>5, <1>6, <1>7, <1>8

LEMMA IndexStarts ==
  ASSUME IndexInit
  PROVE  IndexIInv
<1>1. dealt = 0 /\ top = 0 /\ enterPoint = 1 /\ insertion = [g \in Goroutine |-> Idle]
  BY DEF IndexInit
<1>2. DOMAIN neighbors = 0 .. 0 /\ Layer(0) = {} /\ 0 .. 0 = {0}
  <2>1. neighbors = [layer \in {0} |-> <<>>]
    BY DEF IndexInit
  <2>2. DOMAIN <<>> = {}
    OBVIOUS
  <2> QED
    BY <2>1, <2>2 DEF Layer
<1>3. \A g \in Goroutine : insertion[g].step = "idle"
  BY <1>1 DEF Idle
<1>4. IndexTypeOK
  BY <1>1, <1>2, IndexAssumption DEF IndexTypeOK, Vector
<1>5. VectorsApart
  BY <1>3 DEF VectorsApart, Active
<1>6. Bottom
  BY <1>2, <1>3 DEF Bottom, BottomOwn
<1>7. LayersOK
  BY <1>1, <1>2, <1>3 DEF LayersOK, OwnLayers, FoundLayers, Dead
<1> QED
  BY <1>4, <1>5, <1>6, <1>7 DEF IndexIInv

LEMMA IndexKept ==
  ASSUME IndexIInv, [IndexNext]_indexVars
  PROVE  IndexIInv'
<1>1. CASE InsertsFirst
  BY <1>1, FirstIsAlone DEF IndexIInv
<1>2. ASSUME NEW g \in Goroutine, Works(g) PROVE IndexIInv'
  <2>1. raced => raced'
    BY <1>2 DEF Works, Begins, LocksLayers, Evaluates, Descends, SetsNeighbors, Links, EndsLayer, Copies, Raises
  <2>2. ~raced' => LayersOK'
    BY <1>2, <2>1, LayersKept DEF IndexIInv
  <2> QED
    BY <1>2, <2>2, TypesKept, BottomKept DEF IndexIInv
<1>3. CASE UNCHANGED indexVars
  BY <1>3 DEF indexVars, graph, IndexIInv, IndexTypeOK, VectorsApart, Bottom, BottomOwn, Mutual, Pending, LayersOK,
     OwnLayers, FoundLayers, ComingTo, Brings, Layer, Active, Of, Dead, Stands
<1> QED
  BY <1>1, <1>2, <1>3 DEF IndexNext

LEMMA LinksHoldThen ==
  ASSUME IndexIInv
  PROVE  LinksHold
<1>1. BottomLinksMutual
  <2> SUFFICES ASSUME NEW v \in DOMAIN neighbors[0], NEW e \in DOMAIN neighbors[0], ~Locked(v), e \in neighbors[0][v]
               PROVE  v \in neighbors[0][e] \/ Cardinality(neighbors[0][e]) >= MaxConnection
    BY DEF BottomLinksMutual
  <2>1. ~Pending(v, e)
    BY ActiveIsLocked DEF Pending, Dead, Stands
  <2> QED
    BY <2>1 DEF IndexIInv, Bottom, Mutual, Layer
<1>2. PanicsOnlyAfterRace
  BY DEF PanicsOnlyAfterRace, IndexIInv, LayersOK
<1> QED
  BY <1>1, <1>2 DEF LinksHold

\* Connections at the bottom of the index are mutual, up to shrinking, and no
\* goroutine panics until two insertions disturb each other's layers.
THEOREM IndexLinksHold == IndexSpec => []LinksHold
<1>1. IndexInit => IndexIInv
  BY IndexStarts
<1>2. IndexIInv /\ [IndexNext]_indexVars => IndexIInv'
  BY IndexKept
<1>3. IndexIInv => LinksHold
  BY LinksHoldThen
<1> QED
  BY <1>1, <1>2, <1>3, PTL DEF IndexSpec
=============================================================================
