----------------------------- MODULE VectorSearch -----------------------------
(***************************************************************************)
(* Nearest neighbours (base/search): the exact search (bruteforce.go), the *)
(* inverted file (ivf.go) with its clustering, the queries of the graph    *)
(* (hnsw.go; its construction is IndexBuild), and the builders that try    *)
(* again until an index is good enough.                                    *)
(*                                                                         *)
(* Vectors are numbers and their distances a table; a negative distance is *)
(* a likeness.  Which centroid is nearest to a vector is left open.  A     *)
(* vector is unclear if it has a feature of negative weight: its distances *)
(* are numbers, but those from the centroid of its cluster may be NaN.     *)
(***************************************************************************)
EXTENDS Integers, Sequences, FiniteSets, TLC

LOCAL INSTANCE FiniteSetsExt
LOCAL INSTANCE SequencesExt

CONSTANTS
  Geometries,    \* a sequence of records: distance, terms, hidden of vectors 1 .. NumVectors,
                 \* and the set of those that are unclear
  NumVectors, NumNeighbors,
  ErrorPercent, MaxIteration,    \* of the clustering
  RecallPercent, MaxTrials       \* of the builders

VARIABLES
  geometry,    \* the number of a geometry
  prune,       \* prune0
  builder,     \* the kind of index, what its builder does and the trials left
  assignments, \* vector -> cluster that it was last put in
  observed,    \* the vectors that are in a cluster in this iteration
  clusters,    \* the clusters of the index, or NoClusters
  reach,       \* the vectors that are connected to the enter point of the graph
  effort,      \* clusters probed (IVF) or candidates kept (HNSW)
  quality      \* the recall that was measured: [hits, count], hits in sixths

searchVars == <<geometry, prune, builder, assignments, observed, clusters, reach, effort, quality>>

space == Geometries[geometry]
Vector == 1 .. NumVectors
NoClusters == <<>>
Between(v, w) == space.distance[v][w]
Visible == {v \in Vector : ~space.hidden[v]}
Ascending(vs, q) ==
  SetToSortSeq(vs, LAMBDA a, b : Between(q, a) < Between(q, b) \/ (Between(q, a) = Between(q, b) /\ a < b))
Pruned(s, q) == SelectSeq(s, LAMBDA v : ~prune \/ Between(q, v) < 0)
FirstOf(s, n) == SubSeq(s, 1, IF Len(s) < n THEN Len(s) ELSE n)

\* The square root rounded down, a quotient by the root rounded up, and the next
\* power of two.
NumClusters == CHOOSE r \in Vector : r * r <= NumVectors /\ (r + 1) * (r + 1) > NumVectors
FirstProbes == CHOOSE p \in 1 .. NumNeighbors :
  /\ p * p * NumVectors >= NumNeighbors * NumNeighbors
  /\ \A o \in 1 .. p - 1 : o * o * NumVectors < NumNeighbors * NumNeighbors
FirstCandidates == CHOOSE p \in {1, 2, 4, 8, 16} : p >= NumNeighbors /\ p < 2 * NumNeighbors
Cluster == 1 .. NumClusters

----------------------------------------------------------------------------
(* Queries.                                                                *)

Farthest(vs, q) == LET s == Ascending(vs, q) IN s[Len(s)]

\* A queue keeps the n nearest of what is pushed.
Kept(queue, v, q, n) ==
  LET all == queue \cup {v} IN IF Cardinality(all) > n THEN all \ {Farthest(all, q)} ELSE all
Scanned(vs, q, n) == FoldLeft(LAMBDA queue, v : Kept(queue, v, q, n), {}, SetToSeq(vs \ {q}))

\* Search and MultiSearch of Bruteforce: term "" stands for all vectors.
Of(vs, term) == {v \in vs : term = "" \/ term \in space.terms[v]}
Exact(q, term, n) == Pruned(Ascending(Scanned(Of(Vector, term), q, n), q), q)

\* Search and MultiSearch of IVF, once its clusters are ordered by distance.
Observations(order, probe) == {v \in DOMAIN clusters : clusters[v] \in ToSet(FirstOf(order, probe))}
Inverted(q, order, term, n) ==
  Pruned(Ascending(Scanned(Of(IF clusters = NoClusters THEN {} ELSE Observations(order, effort), term), q, n), q), q)

\* efSearchValue, efSearch and MultiSearch of HNSW: the ef nearest of what the
\* enter point leads to, then sorted into terms; q is found like any other.
EfSearch(q, n) == FirstOf(Ascending(reach, q), IF effort > n THEN effort ELSE n)
Graph(q, term, n) ==
  LET found == Pruned(EfSearch(q, n), q)
  IN  FirstOf(SelectSeq(found, LAMBDA v : v \in Of(Vector, term)), n)

----------------------------------------------------------------------------
(* Building.                                                               *)

SearchInit ==
  /\ geometry \in DOMAIN Geometries /\ prune \in BOOLEAN
  /\ builder \in {[kind |-> "ivf", step |-> "begin", left |-> MaxIteration],
                  [kind |-> "hnsw", step |-> "build", left |-> MaxTrials]}
  /\ assignments = <<>> /\ observed = {} /\ clusters = NoClusters
  /\ reach = {}
  /\ effort = IF builder.kind = "ivf" THEN FirstProbes ELSE FirstCandidates
  /\ quality = [hits |-> 0, count |-> 0]

\* Bug: hidden vectors are clustered as well
ClusteredAll == Vector
Clustered == Visible

\* IVF.Build: random clusters first.
Scatters ==
  /\ builder.kind = "ivf" /\ builder.step = "begin"
  /\ assignments' \in [Clustered -> Cluster] /\ observed' = Clustered
  /\ builder' = [builder EXCEPT !.step = "cluster"]
  /\ UNCHANGED <<geometry, prune, clusters, reach, effort, quality>>

\* The square root of a negative weight makes all of a centroid NaN, and with
\* it the distance of every vector that shares a feature with the cluster.
Blurred == {c \in Cluster : \E v \in observed \cap space.unclear : assignments[v] = c}

\* If no distance compares, a vector goes to no cluster.
NextClusters ==
  UNION {[vs -> Cluster] : vs \in {ws \in SUBSET Clustered : Clustered # ws => Blurred = Cluster}}

\* An iteration: if (almost) nothing moves, the clusters before it are final;
\* without that the index has no clusters at all.
Reassigns ==
  /\ builder.kind = "ivf" /\ builder.step = "cluster" /\ builder.left > 0
  /\ \E next \in NextClusters :
       LET errors == Cardinality({v \in DOMAIN next : next[v] # assignments[v]}) IN
         IF errors * 100 < ErrorPercent * NumVectors
         THEN /\ clusters' = [v \in observed |-> assignments[v]]
              /\ builder' = [builder EXCEPT !.step = "evaluate", !.left = MaxTrials]
              /\ UNCHANGED <<assignments, observed>>
         ELSE /\ assignments' = next @@ assignments
              /\ observed' = DOMAIN next
              /\ builder' = [builder EXCEPT !.left = @ - 1]
              /\ UNCHANGED clusters
  /\ UNCHANGED <<geometry, prune, reach, effort, quality>>

GivesUp ==
  /\ builder.kind = "ivf" /\ builder.step = "cluster" /\ builder.left = 0
  /\ builder' = [builder EXCEPT !.step = "evaluate", !.left = MaxTrials]
  /\ UNCHANGED <<geometry, prune, assignments, observed, clusters, reach, effort, quality>>

\* HNSW.Build leaves a graph in which not all is connected.
BuildsGraph ==
  /\ builder.kind = "hnsw" /\ builder.step = "build"
  /\ reach' \in SUBSET Vector \ {{}}
  /\ builder' = [builder EXCEPT !.step = "evaluate"]
  /\ UNCHANGED <<geometry, prune, assignments, observed, clusters, effort, quality>>

----------------------------------------------------------------------------
(* Evaluation.                                                             *)

\* recall: the hits among what was found, in sixths.
Recall(expected, actual) ==
  LET hits == ToSet(expected) \cap ToSet(actual)
  IN  IF hits = {} THEN 0 ELSE (6 * Cardinality(hits)) \div Len(actual)

\* evaluate: all vectors are asked for, unless there is nothing to be found.
Queries == {q \in Vector : Exact(q, "", NumNeighbors) # <<>>}
Orders == [Vector -> SetToSeqs(Cluster)]
RecallsIVF(order) ==
  [q \in Queries |-> Recall(Exact(q, "", NumNeighbors), Inverted(q, order[q], "", NumNeighbors))]
RecallsHNSW == [q \in Queries |-> Recall(Exact(q, "", NumNeighbors), Graph(q, "", NumNeighbors))]
Measured(recalls) ==
  [hits |-> MapThenSumSet(LAMBDA q : recalls[q], DOMAIN recalls), count |-> Cardinality(DOMAIN recalls)]
Reached(measured) == measured.count > 0 /\ measured.hits * 100 >= RecallPercent * 6 * measured.count
Exceeds(measured) == measured.count > 0 /\ measured.hits * 100 > RecallPercent * 6 * measured.count

\* IVFBuilder.Build: twice the probes until the recall is reached.
EvaluatesIVF ==
  /\ builder.kind = "ivf" /\ builder.step = "evaluate" /\ builder.left > 0
  /\ \E order \in Orders :
       LET measured == Measured(RecallsIVF(order)) IN
         /\ quality' = measured
         /\ IF Reached(measured)
            THEN builder' = [builder EXCEPT !.step = "reached", !.left = 0] /\ UNCHANGED effort
            ELSE builder' = [builder EXCEPT !.left = @ - 1] /\ effort' = 2 * effort
  /\ UNCHANGED <<geometry, prune, assignments, observed, clusters, reach>>

\* HNSWBuilder.Build: a new graph with twice the candidates.
EvaluatesHNSW ==
  /\ builder.kind = "hnsw" /\ builder.step = "evaluate" /\ builder.left > 0
  /\ LET measured == Measured(RecallsHNSW) IN
       /\ quality' = measured
       /\ builder' = IF Exceeds(measured) THEN [builder EXCEPT !.step = "reached", !.left = 0]
                     ELSE IF builder.left = 1 THEN [builder EXCEPT !.step = "ended", !.left = 0]
                     ELSE [builder EXCEPT !.step = "build", !.left = @ - 1]
       /\ effort' = IF builder'.step = "build" THEN 2 * effort ELSE effort
  /\ UNCHANGED <<geometry, prune, assignments, observed, clusters, reach>>

SearchNext ==
  \/ Scatters \/ Reassigns \/ GivesUp \/ BuildsGraph \/ EvaluatesIVF \/ EvaluatesHNSW
SearchSpec == SearchInit /\ [][SearchNext]_searchVars

----------------------------------------------------------------------------
(* Properties *)

\* What the n nearest are.
Nearest(vs, q, n) == Pruned(FirstOf(Ascending(vs \ {q}, q), n), q)
Apart(s, q) == [j \in DOMAIN s |-> Between(q, s[j])]
EveryTerm == {""} \cup UNION {space.terms[v] : v \in Vector}

\* The searches are exact at their limits: the exact search finds the nearest
\* of a term, and an inverted file of which all clusters are probed the nearest
\* of those in a cluster.  These are never hidden ones, and all that are not
\* hidden as long as there are more clusters than unclear vectors: a cluster
\* without them can always be compared (bruteforce.go 57, ivf.go 132 and 218).
LimitsAreExact ==
  /\ \A q \in Vector, term \in EveryTerm, n \in 1 .. NumVectors :
       /\ Apart(Exact(q, term, n), q) = Apart(Nearest(Of(Vector, term), q, n), q)
       /\ clusters # NoClusters /\ effort >= NumClusters =>
            \A order \in SetToSeqs(Cluster) :
              Apart(Inverted(q, order, term, n), q) = Apart(Nearest(Of(DOMAIN clusters, term), q, n), q)
  /\ clusters # NoClusters =>
       /\ DOMAIN clusters \subseteq Visible
       /\ Cardinality(space.unclear \cap Visible) < NumClusters => DOMAIN clusters = Visible
=============================================================================
