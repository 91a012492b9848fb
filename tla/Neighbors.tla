----------------------------- MODULE Neighbors -----------------------------
(***************************************************************************)
(* How the master keeps the neighbors of items in the cache (master/       *)
(* tasks.go, vectors.go): a load, the task that searches the neighbors of  *)
(* every item whose neighbors are out of date, requests that change items  *)
(* (server/rest.go), and the garbage collection of the cache.  The task    *)
(* for users is the same without categories and hidden items (an instance  *)
(* without them).                                                          *)
(*                                                                         *)
(* The data store goes through the versions Content[1], Content[2], ...    *)
(* A request makes one of them from the one before, in several calls that  *)
(* loads, runs and collections come between; one request at a time.        *)
(***************************************************************************)
EXTENDS DataSets

CONSTANTS
  Nodes,         \* the items, numbered
  Content,       \* versions: node -> [labels, feedback, categories, hidden]; DOMAIN: those there are
  Ways,          \* ... and the kinds of requests each but the first may come by
  Types,         \* the neighbor types that may be configured: "similar", "related", "auto"
  Indexed,       \* what EnableIndex may be
  NumLabels, NumFeedback,  \* labels and users are numbered as well
  Ln(_, _),      \* of a quotient, in tenths
  Inserted,      \* nodes that came by requests, which stamp them; the others were imported
  Shrink,        \* similarityShrink
  KeepsHidden,   \* what the store may be: whether AddScores keeps is_hidden (SQL) or not
  NeighborsSize, \* CacheSize
  CacheExpire, MaxClock, \* times are seconds; bound
  NumSearchers,               \* goroutines of the task
  MaxRuns, MaxTrouble    \* bounds: runs of the task, failed calls and restarts

ASSUME NeighborsAssumption ==
  Len(Content) \in Nat \ {0} /\ DOMAIN Content = 1 .. Len(Content)

VARIABLES
  config,     \* [type, index] of the neighbors
  dataVersion, \* the version the data store has
  change,     \* the request under way: its kind, its calls to come, and when it wrote the data
  clock,
  trainSet,   \* the version that was loaded last, 0 before
  lastCounts, \* what the task remembers: numbers of items and feedback, or none
  search,     \* the run under way: node -> what its goroutine does
  failedRun,  \* ... and whether a goroutine has returned an error
  cachedDocs, \* node -> documents of ItemNeighbors: [doc, run it is of, hidden]
  stamps,     \* key -> node -> time or digest, NoStamp if there is none
  collector,  \* the garbage collection: the key it has found useless
  noted,      \* history: node -> versions that modified it and whose stamp was written
  covered,    \* history: what was noted of the nodes when the last run that succeeded checked them
  computed,   \* history: node -> the version its neighbors were searched in
  missed,     \* history: nodes whose stamp was overtaken by the one of their neighbors
  runs, trouble

neighborVars == <<config, dataVersion, change, clock, trainSet, lastCounts, search, failedRun, cachedDocs,
                  stamps, collector, noted, covered, computed, missed, runs, trouble>>

NoStamp == [none |-> TRUE]
Keys == {"modified", "updated", "digest"}
Present(v) == DOMAIN Content[v]
Row(v, n) == Content[v][n]

----------------------------------------------------------------------------
(* vectors.go *)

\* Connections of the nodes of a version, by labels or by feedback.
Connections(v, by) == [n \in Present(v) |-> IF by = "similar" THEN Row(v, n).labels ELSE Row(v, n).feedback]
Ends(by) == IF by = "similar" THEN 1 .. NumLabels ELSE 1 .. NumFeedback
Connected(v, by) ==
  [p \in Ends(by) |-> {n \in Present(v) : Contains(Connections(v, by)[n], p)}]

\* Inverse document frequency; what all nodes have counts 1.  Nodes with a label
\* are counted once, the feedback of a user as often as it is there: with more
\* feedback than there are items the weight is negative.
Frequency(v, by, p) ==
  IF by = "similar" THEN Cardinality(Connected(v, by)[p])
  ELSE FoldLeft(LAMBDA n, m : n + Len(SelectSeq(Row(v, m).feedback, LAMBDA u : u = p)), 0,
                SetToSeq(Present(v)))
Idf(v, by) ==
  [p \in Ends(by) |->
     LET k == Frequency(v, by, p) IN
       IF k \in {0, Cardinality(Present(v))} THEN 10 ELSE Ln(Cardinality(Present(v)), k)]

\* commonElements: two sorted sequences are merged.
CommonElements(a, b, weights) ==
  LET from[i \in 1 .. Len(a) + 1, j \in 1 .. Len(b) + 1] ==
        IF i > Len(a) \/ j > Len(b) THEN [sum |-> 0, count |-> 0]
        ELSE IF a[i] = b[j] THEN [sum |-> from[i + 1, j + 1].sum + weights[a[i]],
                                  count |-> from[i + 1, j + 1].count + 1]
        ELSE IF a[i] < b[j] THEN from[i + 1, j] ELSE from[i, j + 1] IN
    from[1, 1]
WeightedSum(a, weights) == FoldLeft(LAMBDA sum, p : sum + weights[p], 0, a)

\* In thousandths; the root of the product is rounded.  The root of a negative
\* sum is NaN, which like what it is added to is not above 0; the index takes
\* no sum of common weights that is not above 0.
NaN == -1000000
Inf == 100000
Root(n) == CHOOSE r \in 1 .. n : r * r <= n /\ (r + 1) * (r + 1) > n
VectorDistance(connections, weights, index, m, n) ==
  LET common == CommonElements(connections[m], connections[n], weights)
      a == WeightedSum(connections[m], weights)
      b == WeightedSum(connections[n], weights) IN
    CASE common.count = 0 \/ (index /\ common.sum <= 0) -> 0
      [] OTHER ->
           CASE a < 0 \/ b < 0 \/ (0 \in {a, b} /\ common.sum = 0) -> NaN
             [] 0 \in {a, b} /\ common.sum # 0 -> IF common.sum > 0 THEN Inf ELSE -Inf
             [] OTHER -> (1000 * common.sum * common.count) \div (Root(a * b) * (common.count + Shrink))
SideDistance(v, by, index, m, n) == VectorDistance(Connections(v, by), Idf(v, by), index, m, n)
SidesOf(type) == IF type = "auto" THEN {"similar", "related"} ELSE {type}
SimilarityOf ==
  [type \in Types, index \in Indexed, v \in DOMAIN Content |-> [m \in Present(v), n \in Present(v) |->
     IF type = "auto"
     THEN (SideDistance(v, "similar", index, m, n) + SideDistance(v, "related", index, m, n)) \div 2
     ELSE SideDistance(v, type, index, m, n)]]

\* Neighbors: who has something in common, by what each label or user has.
Adjacent(type, v, n) ==
  UNION {UNION {Connected(v, by)[p] : p \in ToSet(Connections(v, by)[n])} : by \in SidesOf(type)}

\* A goroutine fills one heap for all and one for each category.
Scored(similarity, v, n, others) ==
  UNION {[item : {m}, score : {similarity[n, m]}, category : {""} \cup Row(v, m).categories] :
           m \in {m \in others \ {n} : ~Row(v, m).hidden /\ similarity[n, m] > 0}}
BruteForce(type, v, n) ==
  {Documents(kept) : kept \in
     Truncated(Scored(SimilarityOf[type, FALSE, v], v, n, Adjacent(type, v, n)), NeighborsSize)}

\* The index looks at some clusters only; its queue does not take NaN.
Undefined(similarity, v, n) == {m \in Present(v) \ {n} : ~Row(v, m).hidden /\ similarity[n, m] < -Inf}
IVF(type, v, n) ==
  LET similarity == SimilarityOf[type, TRUE, v] IN
    {Documents(kept) : kept \in
       UNION {Truncated(Scored(similarity, v, n, seen), NeighborsSize) :
                seen \in SUBSET (Present(v) \ Undefined(similarity, v, n))}}
FoundBy ==
  [type \in Types, index \in Indexed, v \in DOMAIN Content |->
     [n \in Present(v) |-> IF index THEN IVF(type, v, n) ELSE BruteForce(type, v, n)]]
Found(v, n) == FoundBy[config.type, config.index, v][n]

----------------------------------------------------------------------------
NoChange == [way |-> "none", left |-> <<>>, at |-> 0]

NeighborsInit ==
  /\ config \in [type : Types, index : Indexed]
  /\ dataVersion = 1
  /\ change = NoChange
  /\ clock = 1
  /\ trainSet = 0
  /\ lastCounts = <<0, 0>>
  /\ search = <<>>
  /\ failedRun = FALSE
  /\ cachedDocs = [n \in Nodes |-> {}]
  /\ stamps = [k \in Keys |-> [n \in Nodes |->
                 IF k = "modified" /\ n \in Inserted THEN [at |-> 0] ELSE NoStamp]]
  /\ collector = NoStamp
  /\ noted = [n \in Nodes |-> {}]
  /\ covered = <<>>
  /\ computed = [n \in Nodes |-> 0]
  /\ missed = {}
  /\ runs = 0 /\ trouble = 0

Trouble == trouble < MaxTrouble /\ trouble' = trouble + 1

\* Which nodes a version has changed, and which of them are there.
ChangedIn ==
  [v \in DOMAIN Content \ {1} |->
     {n \in Present(v) \cup Present(v - 1) :
        n \in Present(v) \cap Present(v - 1) => Row(v, n) # Row(v - 1, n)}]
Modified(v) == ChangedIn[v] \cap Present(v)

\* The calls of a request, in order.  Imports, and deletions of feedback, write
\* the data only; a patch hides an item or sets its categories, not both.
CallsOf(way) ==
  CASE way \in {"inserts", "patches"} -> <<"cache", "data", "stamp">>
    [] way = "feedback" -> <<"data", "stamp">>
    [] way = "adds category" -> <<"data", "cache">>
    [] way = "removes category" -> <<"cache", "data">>
    [] way = "deletes" -> <<"data", "drop">>
    [] way = "imports" -> <<"data">>

Arrives ==
  /\ change = NoChange
  /\ dataVersion < Len(Content)
  /\ \E way \in Ways[dataVersion + 1] : change' = [way |-> way, left |-> CallsOf(way), at |-> 0]
  /\ UNCHANGED <<config, dataVersion, clock, trainSet, lastCounts, search, failedRun, cachedDocs, stamps,
                 collector, noted, covered, computed, missed, runs, trouble>>

Calls(call) == change.left # <<>> /\ Head(change.left) = call
Proceeds(at) == change' = IF Len(change.left) = 1 THEN NoChange
                      ELSE [change EXCEPT !.left = Tail(@), !.at = at]

WritesData ==
  /\ Calls("data") /\ dataVersion < Len(Content)
  /\ dataVersion' = dataVersion + 1
  /\ Proceeds(IF Contains(change.left, "stamp") THEN clock ELSE 0)
  /\ UNCHANGED <<config, clock, trainSet, lastCounts, search, failedRun, cachedDocs, stamps, collector,
                 noted, covered, computed, missed, runs, trouble>>

\* The time of the stamp is taken before the call that writes it.
WritesStamp ==
  /\ Calls("stamp")
  /\ \E at \in change.at .. clock :
       /\ stamps' = [stamps EXCEPT !["modified"] =
            [n \in Nodes |-> IF n \in Modified(dataVersion) THEN [at |-> at] ELSE @[n]]]
       /\ missed' = missed \cup
            {n \in Nodes \cap Modified(dataVersion) :
               stamps["updated"][n] # NoStamp /\ stamps["updated"][n].at > at /\ computed[n] < dataVersion}
  /\ noted' = [n \in Nodes |-> IF n \in Modified(dataVersion) THEN noted[n] \cup {dataVersion} ELSE noted[n]]
  /\ Proceeds(0)
  /\ UNCHANGED <<config, dataVersion, clock, trainSet, lastCounts, search, failedRun, cachedDocs, collector,
                 covered, computed, runs, trouble>>

\* UpdateScores, DeleteScores of documents of the items that change, in the
\* neighbors of every item.
TargetOf(v) == IF Contains(change.left, "data") THEN v + 1 ELSE v
Patched(v, d) ==
  LET m == d.doc.item
      whole == change.way = "inserts" \/ m \notin Present(v - 1) IN
    [d EXCEPT !.hidden = IF whole \/ Row(v - 1, m).hidden # Row(v, m).hidden THEN Row(v, m).hidden ELSE @,
              !.doc.categories = IF whole \/ Row(v - 1, m).categories # Row(v, m).categories
                                 THEN {""} \cup Row(v, m).categories ELSE @]
Touches(items) ==
  search' = [n \in DOMAIN search |->
               IF search[n].step \in {"reclaim", "stamp"}
               THEN [search[n] EXCEPT !.touched = @ \cup items] ELSE search[n]]

WritesCache ==
  /\ Calls("cache")
  /\ LET v == TargetOf(dataVersion) IN
       /\ cachedDocs' = [n \in Nodes |->
            {IF d.doc.item \in Modified(v) THEN Patched(v, d) ELSE d : d \in cachedDocs[n]}]
       /\ Touches(Modified(v))
  /\ Proceeds(0)
  /\ UNCHANGED <<config, dataVersion, clock, trainSet, lastCounts, failedRun, stamps, collector, noted,
                 covered, computed, missed, runs, trouble>>

DropsCached ==
  /\ Calls("drop")
  /\ cachedDocs' = [n \in Nodes |-> {d \in cachedDocs[n] : d.doc.item \notin ChangedIn[dataVersion]}]
  /\ Touches(ChangedIn[dataVersion])
  /\ Proceeds(0)
  /\ UNCHANGED <<config, dataVersion, clock, trainSet, lastCounts, failedRun, stamps, collector, noted,
                 covered, computed, missed, runs, trouble>>

\* A call that fails ends the request; what it has done remains.
RequestFails ==
  /\ change # NoChange
  /\ change' = NoChange
  /\ Trouble
  /\ UNCHANGED <<config, dataVersion, clock, trainSet, lastCounts, search, failedRun, cachedDocs, stamps,
                 collector, noted, covered, computed, missed, runs>>

Passes ==
  /\ clock < MaxClock
  /\ clock' = clock + 1
  /\ UNCHANGED <<config, dataVersion, change, trainSet, lastCounts, search, failedRun, cachedDocs,
                 stamps, collector, noted, covered, computed, missed, runs, trouble>>

\* A restart with another configuration: the digests no longer fit.
Reconfigures ==
  /\ search = <<>>
  /\ \E t \in Types, i \in Indexed : config' = [type |-> t, index |-> i] /\ config' # config
  /\ lastCounts' = <<0, 0>> /\ trainSet' = 0
  /\ collector' = NoStamp
  /\ Trouble
  /\ UNCHANGED <<dataVersion, change, clock, search, failedRun, cachedDocs, stamps, noted, covered,
                 computed, missed, runs>>

\* Not while a task has the read lock of the data set.
Loads ==
  /\ search = <<>>
  /\ trainSet # dataVersion
  /\ trainSet' = dataVersion
  /\ UNCHANGED <<config, dataVersion, change, clock, lastCounts, search, failedRun, cachedDocs,
                 stamps, collector, noted, covered, computed, missed, runs, trouble>>

----------------------------------------------------------------------------
(* FindItemNeighborsTask, FindUserNeighborsTask                            *)

FeedbackCount(v) == FoldLeft(+, 0, [n \in 1 .. Cardinality(Present(v)) |->
                      Len(Row(v, SetToSortSeq(Present(v), <)[n]).feedback)])
Counts(v) == <<Cardinality(Present(v)), FeedbackCount(v)>>

\* Whether there is anything to do is judged by the numbers.
TaskBegins ==
  /\ trainSet # 0 /\ search = <<>> /\ runs < MaxRuns
  /\ Counts(trainSet)[1] # 0 /\ Counts(trainSet) # lastCounts
  /\ search' = [n \in Present(trainSet) |-> [step |-> "check", known |-> {}, touched |-> {}]]
  /\ failedRun' = FALSE
  /\ runs' = runs + 1
  /\ UNCHANGED <<config, dataVersion, change, clock, trainSet, lastCounts, cachedDocs, stamps,
                 collector, noted, covered, computed, missed, trouble>>

AllCategories(v) == {""} \cup UNION {Row(v, n).categories : n \in Present(v)}

\* checkItemNeighborCacheTimeout; for users there is the category "" only.
\* SearchScores leaves out what is hidden.
NothingCached(n) ==
  \E c \in AllCategories(trainSet) : ~\E d \in cachedDocs[n] : ~d.hidden /\ c \in d.doc.categories
StampsOutOfDate(n) ==
  \/ stamps["digest"][n] # [of |-> config]
  \/ NoStamp \in {stamps["modified"][n], stamps["updated"][n]}
  \/ stamps["updated"][n].at < clock - CacheExpire
  \/ stamps["updated"][n].at <= stamps["modified"][n].at

\* Bug: what was modified when it was stamped is taken for up to date
TimedOutBefore(n) ==
  \/ stamps["digest"][n] # [of |-> config]
  \/ NoStamp \in {stamps["modified"][n], stamps["updated"][n]}
  \/ stamps["updated"][n].at < stamps["modified"][n].at
TimedOut(n) == NothingCached(n) \/ StampsOutOfDate(n)

\* A goroutine that has met an error takes no other item; each of the calls
\* may fail, a check that fails says that the neighbors are out of date.
Taken == {n \in DOMAIN search : search[n].step \in {"search", "reclaim", "stamp"}}
Checks(n) ==
  /\ search[n].step = "check"
  /\ \A m \in DOMAIN search : search[m].step = "check" => n <= m
  /\ Cardinality(Taken) < NumSearchers
  /\ \E next \in {"search", "done"} :
       /\ search' = [search EXCEPT ![n] =
            [step |-> next, known |-> noted[n] \cap 1 .. trainSet, touched |-> {}]]
       /\ \/ next = (IF TimedOut(n) THEN "search" ELSE "done") /\ UNCHANGED trouble
          \/ next = "search" /\ Trouble
  /\ UNCHANGED <<config, dataVersion, change, clock, trainSet, lastCounts, failedRun, cachedDocs,
                 stamps, collector, noted, covered, computed, missed, runs>>

\* AddScores: documents of the same item are replaced.
Searches(n) ==
  /\ search[n].step = "search"
  /\ \E docs \in Found(trainSet, n), keeps \in KeepsHidden :
       cachedDocs' = [cachedDocs EXCEPT ![n] =
         {d \in @ : ~\E e \in docs : e.item = d.doc.item}
           \cup {[doc |-> e, run |-> runs,
                  hidden |-> keeps /\ \E d \in cachedDocs[n] : d.doc.item = e.item /\ d.hidden] : e \in docs}]
  /\ search' = [search EXCEPT ![n].step = "reclaim"]
  /\ computed' = [computed EXCEPT ![n] = trainSet]
  /\ UNCHANGED <<config, dataVersion, change, clock, trainSet, lastCounts, failedRun, stamps,
                 collector, noted, covered, missed, runs, trouble>>

\* Bug: documents of earlier searches stay
ReclaimsNothing(n) ==
  /\ search[n].step = "reclaim"
  /\ search' = [search EXCEPT ![n].step = "stamp"]
  /\ UNCHANGED <<config, dataVersion, change, clock, trainSet, lastCounts, failedRun, cachedDocs,
                 stamps, collector, noted, covered, computed, missed, runs, trouble>>

\* DeleteScores of what was cached before the search began.
Reclaims(n) ==
  /\ search[n].step = "reclaim"
  /\ cachedDocs' = [cachedDocs EXCEPT ![n] = {d \in @ : d.run = runs}]
  /\ search' = [search EXCEPT ![n].step = "stamp"]
  /\ UNCHANGED <<config, dataVersion, change, clock, trainSet, lastCounts, failedRun, stamps,
                 collector, noted, covered, computed, missed, runs, trouble>>

\* Stamped for a later version than the one searched, at an earlier time than now.
Overtaken(n) ==
  /\ \E v \in noted[n] : v > trainSet
  /\ stamps["modified"][n] # NoStamp /\ stamps["modified"][n].at < clock

\* The neighbors are stamped with the time after the search.
Stamps(n) ==
  /\ search[n].step = "stamp"
  /\ stamps' = [stamps EXCEPT !["updated"][n] = [at |-> clock], !["digest"][n] = [of |-> config]]
  /\ missed' = IF Overtaken(n) THEN missed \cup {n} ELSE missed \ {n}
  /\ search' = [search EXCEPT ![n].step = "done", ![n].touched = {}]
  /\ UNCHANGED <<config, dataVersion, change, clock, trainSet, lastCounts, failedRun, cachedDocs,
                 collector, noted, covered, computed, runs, trouble>>

\* The other goroutines go on until DynamicParallel looks at the errors.
CallFails(n) ==
  /\ search[n].step \in {"search", "reclaim", "stamp"}
  /\ Trouble
  /\ search' = [search EXCEPT ![n].step = "done", ![n].touched = {}]
  /\ failedRun' = TRUE
  /\ UNCHANGED <<config, dataVersion, change, clock, trainSet, lastCounts, cachedDocs, stamps,
                 collector, noted, covered, computed, missed, runs>>

\* A goroutine of the index panics at a distance that is NaN (pq.go 76), and the
\* master with it, as DynamicParallel recovers nothing; it is started again.
Panics(n) ==
  /\ search[n].step = "search" /\ config.index
  /\ Undefined(SimilarityOf[config.type, TRUE, trainSet], trainSet, n) # {}
  /\ search' = <<>> /\ failedRun' = FALSE
  /\ lastCounts' = <<0, 0>> /\ trainSet' = 0
  /\ collector' = NoStamp
  /\ Trouble
  /\ UNCHANGED <<config, dataVersion, change, clock, cachedDocs, stamps, noted, covered, computed, missed, runs>>

\* After an error items that nobody has taken remain as they are.  The numbers
\* are remembered all the same.
TaskEnds ==
  /\ search # <<>>
  /\ \A n \in DOMAIN search : search[n].step = "done" \/ (failedRun /\ search[n].step = "check")
  /\ search' = <<>>
  /\ lastCounts' = Counts(trainSet)
  /\ covered' = IF failedRun THEN covered ELSE [n \in Present(trainSet) |-> search[n].known]
  /\ UNCHANGED <<config, dataVersion, change, clock, trainSet, failedRun, cachedDocs, stamps,
                 collector, noted, computed, missed, runs, trouble>>

----------------------------------------------------------------------------
(* CacheGarbageCollectionTask: values of items that are neither loaded nor *)
(* stored.  The documents of such items stay.                              *)

Collects(k, n) ==
  /\ collector = NoStamp /\ trainSet # 0
  /\ stamps[k][n] # NoStamp
  /\ n \notin Present(trainSet) /\ n \notin Present(dataVersion)
  /\ collector' = [key |-> k, node |-> n]
  /\ UNCHANGED <<config, dataVersion, change, clock, trainSet, lastCounts, search, failedRun,
                 cachedDocs, stamps, noted, covered, computed, missed, runs, trouble>>

Deletes ==
  /\ collector # NoStamp
  /\ stamps' = [stamps EXCEPT ![collector.key][collector.node] = NoStamp]
  /\ collector' = NoStamp
  /\ UNCHANGED <<config, dataVersion, change, clock, trainSet, lastCounts, search, failedRun,
                 cachedDocs, noted, covered, computed, missed, runs, trouble>>

NeighborsNext ==
  \/ Arrives \/ WritesData \/ WritesStamp \/ WritesCache \/ DropsCached \/ RequestFails
  \/ Passes \/ Reconfigures \/ Loads
  \/ TaskBegins \/ TaskEnds
  \/ \E n \in DOMAIN search :
       Checks(n) \/ Searches(n) \/ Reclaims(n) \/ Stamps(n) \/ CallFails(n) \/ Panics(n)
  \/ \E k \in Keys, n \in Nodes : Collects(k, n)
  \/ Deletes
NeighborsSpec == NeighborsInit /\ [][NeighborsNext]_neighborVars

----------------------------------------------------------------------------
(* Properties *)

Similarity(v, m, n) == SimilarityOf[config.type, config.index, v][m, n]
Similar(v, n) == {m \in Present(v) \ {n} : ~Row(v, m).hidden /\ Similarity(v, n, m) > 0}
In(v, m, c) == c \in {""} \cup Row(v, m).categories

\* When the neighbors of an item are stamped, the cache has documents of the
\* search just made and no others; without the index they are, for all and for
\* each category, the most similar of the visible items that are similar at all
\* (tasks.go 367-422, vectors.go).  Nothing is said of the documents of items
\* that requests have written to since the search.
NeighborsAreExact ==
  \A n \in DOMAIN search : search[n].step = "stamp" =>
    LET docs == {d \in cachedDocs[n] : d.doc.item \notin search[n].touched}
        similar == Similar(trainSet, n) IN
      /\ \A d \in cachedDocs[n] : d.run = runs
      /\ \A d \in docs : d.doc.item \in similar /\ d.doc.score = Similarity(trainSet, n, d.doc.item)
      /\ \A c \in AllCategories(trainSet) :
           LET listed == {d.doc.item : d \in {e \in docs : c \in e.doc.categories}}
               all == {m \in similar : In(trainSet, m, c)}
               open == all \cap search[n].touched IN
             /\ listed \subseteq all
             /\ Cardinality(listed) <= NeighborsSize
             /\ ~config.index =>
                  /\ Cardinality(listed \cup open) >= Min({NeighborsSize, Cardinality(all)})
                  /\ \A m \in listed, k \in all \ (listed \cup open) :
                       Similarity(trainSet, n, m) >= Similarity(trainSet, n, k)

\* After a run without errors the neighbors of every item of its data were
\* searched in data that has the modifications of the item (insertItems,
\* modifyItem, insertFeedback) whose stamp was in the cache when the run checked
\* the item, whatever was collected, configured or had failed before; except
\* where the stamp was overtaken: the time of a stamp is taken before it is
\* written, that of the neighbors after a search that may be of older data
\* (tasks.go 415-420, 872-977, rest.go 1500, 1602, 1798).
RunsCoverModifications ==
  \A n \in (Nodes \cap DOMAIN covered) \ missed :
    computed[n] >= 1 /\ \A v \in covered[n] : computed[n] >= v
=============================================================================
