----------------------------- MODULE IndexBuild -----------------------------
(***************************************************************************)
(* HNSW.Build of base/search/hnsw.go: the goroutines of parallel.Parallel  *)
(* insert vectors into the layers of a navigable graph, with a lock on     *)
(* every vector and one on the entry point and the number of layers.       *)
(*                                                                         *)
(* A lock that is taken and given back with nothing blocking in between is *)
(* not a state of its own: the step waits until the lock is free.  The     *)
(* vector of the first job is the first to be inserted.                    *)
(*                                                                         *)
(* Definitions marked "Bug:" are not part of the model; putting one in the *)
(* place of the definition after it breaks a property.                     *)
(***************************************************************************)
EXTENDS Naturals, FiniteSets

CONSTANTS
  NumVectors,
  Goroutine,
  MaxLevel,        \* bound: the random level of an insertion
  EfConstruction,
  MaxConnection,
  Distance(_, _)   \* of two vectors

ASSUME IndexAssumption ==
  /\ NumVectors \in Nat \ {0}
  /\ MaxLevel \in Nat
  /\ {EfConstruction, MaxConnection} \subseteq Nat \ {0}
  /\ IsFiniteSet(Goroutine)

Vector == 1..NumVectors

\* Ties, which a heap breaks in an order of its own, are left out.
ASSUME DistancesDiffer ==
  /\ \A v, w \in Vector : Distance(v, w) \in Nat
  /\ \A v \in Vector : \A d, e \in Vector \ {v} : Distance(v, d) = Distance(v, e) => d = e

VARIABLES
  dealt,       \* jobs read from the channel
  neighbors,   \* layer -> the neighborhoods of the vectors in it
  top,         \* the number of upper layers
  enterPoint,
  global,      \* the goroutines that hold globalMutex for writing
  insertion,   \* goroutine -> what it inserts
  leaked,      \* vectors whose read lock was not given back
  raced        \* history: two insertions disturbed each other's layers

graph == <<neighbors, top, enterPoint>>
indexVars == <<dealt, graph, global, insertion, leaked, raced>>

\* layer: at which the goroutine searches or links; found, left: the queue w
\* and the candidates of it that were not evaluated; seen: the visited set v;
\* oldTop: len(upperNeighbors) when it began.
Idle == [step |-> "idle"]

\* The first n of a set in the order of distance.
Nearest(q, candidates, n) ==
  {e \in candidates :
     Cardinality({d \in candidates : Distance(q, d) < Distance(q, e)}) < n}

IndexInit ==
  /\ dealt = 0
  /\ neighbors = [layer \in {0} |-> <<>>]
  /\ top = 0
  /\ enterPoint = 1
  /\ global = {}
  /\ insertion = [g \in Goroutine |-> Idle]
  /\ leaked = {}
  /\ raced = FALSE

Stands(g, step) == insertion[g].step = step

\* The goroutine has panicked.
Dead(g) == insertion[g].step = "dead"

\* Bug: the lock is given back once the neighborhood of a layer is set
LockedWhileSearching(v) == \E g \in Goroutine : Stands(g, "search") /\ insertion[g].vector = v

\* nodeMutexes[v] is held for writing: from before the vector can be found
\* until all its layers are linked, or for ever.
Locked(v) ==
  \E g \in Goroutine :
    /\ insertion[g].step \in {"search", "link", "dead"}
    /\ v \in {insertion[g].vector} \cup insertion[g].broken

\* A search for the vector of i begins at a layer, from the vectors found.
SearchAt(i, layer, found) ==
  [i EXCEPT !.step = "search", !.layer = layer, !.found = found, !.left = found, !.seen = found]

\* The first vector, under initOnce.
InsertsFirst ==
  /\ dealt = 0
  /\ dealt' = 1
  /\ neighbors' = [neighbors EXCEPT ![0] = [v \in {1} |-> {}]]
  /\ enterPoint' = 1
  /\ UNCHANGED <<top, global, insertion, leaked, raced>>

Insertion(level) ==
  SearchAt([step |-> "lock", vector |-> dealt + 1, level |-> level, oldTop |-> top,
            layer |-> top, found |-> {}, left |-> {}, seen |-> {}, broken |-> {},
            copied |-> <<>>],
           top, {enterPoint})

\* The entry point and the layers are read; a vector that goes above them
\* locks them afterwards.
Begins(g) ==
  /\ Stands(g, "idle")
  /\ dealt \in 1..(NumVectors - 1)
  /\ global = {}
  /\ dealt' = dealt + 1
  /\ \E level \in 0..MaxLevel :
       insertion' = [insertion EXCEPT ![g] =
         [Insertion(level) EXCEPT !.step = IF level > top THEN "lock" ELSE "search"]]
  /\ UNCHANGED <<graph, global, leaked, raced>>

LocksLayers(g) ==
  /\ Stands(g, "lock")
  /\ global = {}
  /\ global' = {g}
  /\ insertion' = [insertion EXCEPT ![g].step = "search"]
  /\ UNCHANGED <<dealt, graph, leaked, raced>>

\* CheckPanic recovers, the goroutine ends.  Deferred is the unlocking of
\* globalMutex only.
Panics(g) ==
  /\ insertion' = [insertion EXCEPT ![g].step = "dead"]
  /\ global' = global \ {g}

Ef(i) == IF i.layer > i.level THEN 1 ELSE EfConstruction

\* searchLayer evaluates the nearest candidate.  That the queue holds no
\* pointer (interface conversion of nil) is noticed under the read lock.
Evaluates(g) ==
  LET i == insertion[g] IN
    /\ i.step = "search"
    /\ \E c \in Nearest(i.vector, i.left, 1) :
         /\ ~Locked(c)
         /\ IF c \in DOMAIN neighbors[i.layer]
            THEN LET found == Nearest(i.vector,
                       i.found \cup (neighbors[i.layer][c] \ i.seen), Ef(i)) IN
                   /\ insertion' = [insertion EXCEPT
                        ![g].found = found,
                        ![g].left = ((i.left \ {c}) \cup (found \ i.found)) \cap found,
                        ![g].seen = @ \cup neighbors[i.layer][c]]
                   /\ UNCHANGED <<global, leaked>>
            ELSE Panics(g) /\ leaked' = leaked \cup {c}
    /\ UNCHANGED <<dealt, graph, raced>>

\* The search of a layer above the level of the vector is over.
Descends(g) ==
  LET i == insertion[g] IN
    /\ i.step = "search" /\ i.left = {} /\ i.layer > i.level
    /\ insertion' = [insertion EXCEPT ![g] = SearchAt(i, i.layer - 1, i.found)]
    /\ UNCHANGED <<dealt, graph, global, leaked, raced>>

\* setNeighbourhood
Stored(layer, v, connections) ==
  [neighbors EXCEPT ![layer] =
     [w \in DOMAIN neighbors[layer] \cup {v} |->
        IF w = v THEN connections ELSE neighbors[layer][w]]]

\* At a layer of the vector: its neighborhood is set, to be linked back.
SetsNeighbors(g) ==
  LET i == insertion[g]
      nearest == Nearest(i.vector, i.found, MaxConnection) IN
    /\ i.step = "search" /\ i.left = {} /\ i.layer <= i.level
    /\ neighbors' = Stored(i.layer, i.vector, nearest)
    /\ insertion' = [insertion EXCEPT ![g].step = "link", ![g].left = nearest]
    /\ UNCHANGED <<dealt, top, enterPoint, global, leaked, raced>>

CurrentMaxConnection(layer) == IF layer = 0 THEN 2 * MaxConnection ELSE MaxConnection

\* Push, and shrinking
Linked(e, layer, q) ==
  LET connections == neighbors[layer][e] \cup {q} IN
    IF Cardinality(connections) > CurrentMaxConnection(layer)
    THEN Nearest(e, connections, MaxConnection)
    ELSE connections

Links(g) ==
  LET i == insertion[g] IN
    /\ i.step = "link"
    /\ \E e \in Nearest(i.vector, i.left, 1) :
         /\ ~Locked(e) /\ e \notin leaked
         /\ IF e \in DOMAIN neighbors[i.layer]
            THEN /\ neighbors' = [neighbors EXCEPT ![i.layer][e] = Linked(e, i.layer, i.vector)]
                 /\ insertion' = [insertion EXCEPT ![g].left = @ \ {e}]
                 /\ UNCHANGED global
            ELSE /\ insertion' = [insertion EXCEPT ![g].step = "dead", ![g].broken = {e}]
                 /\ global' = global \ {g}
                 /\ UNCHANGED neighbors
    /\ UNCHANGED <<dealt, top, enterPoint, leaked, raced>>

\* All neighbors of a layer are linked.
EndsLayer(g) ==
  LET i == insertion[g] IN
    /\ i.step = "link" /\ i.left = {}
    /\ insertion' = [insertion EXCEPT ![g] =
         IF i.layer > 0 THEN SearchAt(i, i.layer - 1, i.found)
         ELSE IF i.level > i.oldTop THEN [i EXCEPT !.step = "raise"] ELSE Idle]
    /\ UNCHANGED <<dealt, graph, global, leaked, raced>>

\* append copies the upper layers to a longer array ...
Copies(g) ==
  LET i == insertion[g] IN
    /\ i.step = "raise"
    /\ insertion' = [insertion EXCEPT ![g] =
         [i EXCEPT !.step = "copied", !.copied = [layer \in 1..top |-> DOMAIN neighbors[layer]]]]
    /\ UNCHANGED <<dealt, graph, global, leaked, raced>>

\* Bug: globalMutex is not unlocked
RaisesLocked(g) ==
  LET i == insertion[g] IN
    /\ i.step = "copied"
    /\ enterPoint' = i.vector
    /\ top' = top + 1
    /\ neighbors' = [layer \in 0..(top + 1) |->
         IF layer <= top THEN neighbors[layer] ELSE [v \in {i.vector} |-> {}]]
    /\ insertion' = [insertion EXCEPT ![g] = Idle]
    /\ UNCHANGED <<dealt, global, leaked, raced>>

\* ... and the new array replaces the old one: a data race with insertions
\* that store into a layer in the meantime.  What they stored may be lost.
Raises(g) ==
  LET i == insertion[g]
      new == [layer \in 1..top |-> DOMAIN neighbors[layer] \ i.copied[layer]] IN
    /\ i.step = "copied"
    /\ enterPoint' = i.vector
    /\ top' = top + 1
    /\ \E lost \in SUBSET UNION {{layer} \X new[layer] : layer \in 1..top} :
         /\ neighbors' =
              [layer \in 0..(top + 1) |->
                 LET kept == IF layer > top THEN {}
                             ELSE {v \in DOMAIN neighbors[layer] : <<layer, v>> \notin lost}
                     own == IF layer = i.oldTop + 1 THEN {i.vector} ELSE {} IN
                   [v \in kept \cup own |-> IF v \in own THEN {} ELSE neighbors[layer][v]]]
         /\ raced' = (raced \/ top # i.oldTop \/ lost # {})
    /\ global' = global \ {g}
    /\ insertion' = [insertion EXCEPT ![g] = Idle]
    /\ UNCHANGED <<dealt, leaked>>

Works(g) ==
  \/ Begins(g) \/ LocksLayers(g) \/ Evaluates(g) \/ Descends(g)
  \/ SetsNeighbors(g) \/ Links(g) \/ EndsLayer(g)
  \/ Copies(g) \/ Raises(g)

\* wg.Wait of Parallel returns: every goroutine has returned or panicked.
Built == \A g \in Goroutine : Dead(g) \/ (Stands(g, "idle") /\ dealt = NumVectors)

IndexNext ==
  \/ InsertsFirst
  \/ \E g \in Goroutine : Works(g)
  \/ Built /\ UNCHANGED indexVars

IndexSpec == IndexInit /\ [][IndexNext]_indexVars

----------------------------------------------------------------------------
(* Properties *)

\* At the bottom a connection leads both ways, except where the other end has
\* been shrunk: no goroutine overwrites what another has pushed ("add
\* bidirectional connections", hnsw.go 213).
BottomLinksMutual ==
  \A v, e \in DOMAIN neighbors[0] :
    ~Locked(v) /\ ~Locked(e) /\ e \in neighbors[0][v] =>
      v \in neighbors[0][e] \/ Cardinality(neighbors[0][e]) >= MaxConnection

\* A goroutine meets a vector without a neighborhood only after two vectors
\* went above the same top layer, or one was stored into a layer while the
\* array of layers was copied (hnsw.go 199-240).
PanicsOnlyAfterRace == ~raced => \A g \in Goroutine : ~Dead(g)

\* The graph is consistent, and no goroutine panics, unless two insertions
\* disturbed each other's layers (hnsw.go 175-242).
LinksHold == BottomLinksMutual /\ PanicsOnlyAfterRace

\* Unless a goroutine has panicked, a build that is not complete goes on: the
\* locks of vectors and of the layers are never waited for in a cycle
\* (hnsw.go 175-242).
BuildGoesOn ==
  Built \/ (\E g \in Goroutine : Dead(g)) \/ ENABLED (InsertsFirst \/ \E g \in Goroutine : Works(g))
=============================================================================
