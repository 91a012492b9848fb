---------------------------- MODULE MCBackground ----------------------------
(***************************************************************************)
(* What goes on beside the requests: loads of the data (DatasetLoad), what *)
(* begins them (LoadLoop, ManagedLoop), the tasks that follow (Neighbors,  *)
(* VectorSearch, ModelFit; their locks are in MasterTraining), the file of *)
(* the master's models (LocalCacheFile), the nodes of the cluster          *)
(* (Cluster) and what a worker does for a user (Candidates).  These meet   *)
(* only where the modules say so; a behaviour exercises one of them.       *)
(***************************************************************************)
EXTENDS DatasetLoad, Neighbors, LoadLoop, ManagedLoop, LocalCacheFile, Cluster,
        Candidates, VectorSearch, ModelFit

VARIABLE part

backgroundVars == <<datasetVars, neighborVars, vars, managedVars, localCacheVars, clusterVars,
                    candidateVars, searchVars, fitVars, part>>

Parts == {"dataset", "neighbors", "loop", "managed", "file", "cluster", "candidates", "search", "fit"}

\* What is not exercised has one initial state.
Dormant(p) == part # p
BackgroundInit ==
  /\ part \in Parts
  /\ DatasetInit /\ (Dormant("dataset") =>
       users = <<>> /\ items = <<>> /\ feedback = (CHOOSE f \in kSubset(MaxFeedback, StoredFeedback) : TRUE))
  /\ NeighborsInit /\ (Dormant("neighbors") => config.type = "auto" /\ ~config.index)
  /\ LoadInit /\ (Dormant("loop") => hasItems)
  /\ ManagedInit /\ FileInit
  /\ ClusterInit /\ (Dormant("cluster") =>
       master = (CHOOSE c \in Configs : TRUE) /\ \A m \in Machines : node[m] = Absent)
  /\ CandidatesInit /\ (Dormant("candidates") =>
       configured = 1 /\ situation = 1)
  /\ SearchInit /\ (Dormant("search") =>
       geometry = 1 /\ ~prune /\ builder.kind = "ivf")
  /\ ModelFitInit /\ (Dormant("fit") => family = (CHOOSE f \in Families : TRUE))

Sleeps(p, partVars) == IF part = p THEN TRUE ELSE UNCHANGED partVars
BackgroundNext ==
  /\ UNCHANGED part
  /\ \/ part = "dataset" /\ DatasetNext
     \/ part = "neighbors" /\ NeighborsNext
     \/ part = "loop" /\ LoadNext
     \/ part = "managed" /\ ManagedNext
     \/ part = "file" /\ FileNext
     \/ part = "cluster" /\ ClusterNext
     \/ part = "candidates" /\ CandidatesNext
     \/ part = "search" /\ SearchNext
     \/ part = "fit" /\ ModelFitNext
  /\ Sleeps("dataset", datasetVars) /\ Sleeps("neighbors", neighborVars) /\ Sleeps("loop", vars)
  /\ Sleeps("managed", managedVars) /\ Sleeps("file", localCacheVars) /\ Sleeps("cluster", clusterVars)
  /\ Sleeps("candidates", candidateVars) /\ Sleeps("search", searchVars) /\ Sleeps("fit", fitVars)
BackgroundSpec == BackgroundInit /\ [][BackgroundNext]_backgroundVars

----------------------------------------------------------------------------
(* Properties of a part, asked only where it is exercised. *)

\* A load leaves the data sets that the stored rows say (tasks.go 1446-1750),
\* and lists of the latest and the most popular items (tasks.go 113-176).
DataIsLoaded == part = "dataset" => LoadedIsStored /\ ListsAreBest

\* Neighbors that are stamped are the most similar (tasks.go 367-422).
SearchedAreExact == part = "neighbors" => NeighborsAreExact

\* Whichever way they were found, recommendations hold nothing the user has
\* read, and what was ranked could be shown (worker.go 604, 1113 and 1405).
RecommendationsAreFit == part = "candidates" => ReadItemsStayOut /\ RankedAreAvailable

\* The approximate searches are exact at their limits (bruteforce.go 57, ivf.go
\* 132, hnsw.go 424).
SearchIsExactAtLimits == part = "search" => LimitsAreExact

\* A prediction reads the rows of those it is asked about (ranking/model.go 361,
\* 514 and click/model.go 209, 475).
OwnRowsAreRead == part = "fit" => PredictionsReadOwnRows

----------------------------------------------------------------------------
(***************************************************************************)
(* Dataset: two users and three items in two groups, of which one may be   *)
(* hidden or too old, up to three rows of feedback out of seven, of a user *)
(* or item that is not there and of several types; one stream fails.       *)
(* Neighbors: three items, three versions of them: item 3 is deleted and   *)
(* comes back with a batch that hides item 2; user 2 likes item 1 in three *)
(* ways, which are more than the items there are without item 3.           *)
(* Cluster: two workers, or one server.  File: every second model is       *)
(* larger.  Candidates: four items, of which one is hidden, and one that   *)
(* is gone; two similar users.  Search: four vectors.  Fit: three loads;   *)
(* before the second user a and item i get other places, b and label l go  *)
(* and c and k come; after the third there is nothing to train with.       *)
(***************************************************************************)
U(id, labels) == [id |-> id, labels |-> labels]
I(id, labels, hidden, categories, time) ==
  [id |-> id, labels |-> labels, hidden |-> hidden, categories |-> categories, time |-> time]
F(u, i, type, time) == [user |-> u, item |-> i, type |-> type, time |-> time]
MCStoredUsers == {<<>>, <<U("a", <<"x">>), U("b", <<"x", "y">>)>>}
MCStoredItems ==
  {<<>>,
   <<I(1, <<"l">>, FALSE, {"c"}, 4), I(2, <<>>, TRUE, {"c"}, 9), I(3, <<"l", "m">>, FALSE, {"c"}, 8)>>,
   <<I(1, <<>>, FALSE, {}, 8), I(2, <<>>, FALSE, {"c"}, 1), I(3, <<"l">>, FALSE, {"d"}, 9)>>}
MCStoredFeedback ==
  {F("a", 1, "like", 8), F("a", 1, "star", 8), F("a", 3, "read", 8), F("b", 3, "like", 6),
   F("b", 3, "read", 7), F("z", 1, "like", 8), F("a", 2, "like", 8)}

N(labels, fb, categories, hidden) ==
  [labels |-> labels, feedback |-> fb, categories |-> categories, hidden |-> hidden]
V1 == [n \in 1 .. 3 |-> CASE n = 1 -> N(<<1, 2>>, <<1, 2, 2, 2>>, {}, FALSE)
                         [] n = 2 -> N(<<1>>, <<1>>, {"c"}, FALSE)
                         [] n = 3 -> N(<<2>>, <<>>, {}, FALSE)]
V2 == [n \in 1 .. 2 |-> V1[n]]
V3 == [n \in 1 .. 3 |-> IF n = 2 THEN [V1[n] EXCEPT !.hidden = TRUE] ELSE V1[n]]
MCContent == <<V1, V2, V3>>
MCWays == <<{}, {"deletes"}, {"inserts", "imports"}>>
MCLn(n, k) == IF n >= 3 * k THEN 11 ELSE IF n >= 2 * k THEN 7 ELSE 4

MCRing == [u \in {"u1", "u2"} |-> IF u = "u1" THEN <<1, 2, 3>> ELSE <<2, 3, 1>>]
Stores(d, c) == [data |-> d, cache |-> c]
MCConfigs == {Stores("mysql", "sqlite"), Stores("other", "redis")}

EverySecond == {2, 4, 6, 8}

On(some) ==
  [n \in {"col", "index", "item", "user", "image", "latest", "popular", "ctr", "replacement"} |-> n \in some]
    @@ ("explore" :> {x \in Explorers : x \in {"popular", "latest"} /\ "explore_" \o x \in some})
Switched == <<{"item", "user", "latest"}, {"item", "latest", "explore_popular"},
              {"col", "user", "popular", "ctr", "explore_popular", "explore_latest"},
              {"col", "index", "item", "image", "explore_latest"},
              {"col", "item", "user", "replacement", "explore_popular"},
              {"col", "latest", "ctr", "replacement"}, {"latest", "popular", "replacement"}>>
MCSettings == [n \in DOMAIN Switched |-> On(Switched[n])]
Doc(i, score, cats) == [id |-> i, score |-> score, categories |-> cats]
Fb(i, t) == [item |-> i, type |-> t]
\* Items 1 to 4; 4 is hidden, 5 is gone.
Items == 1 :> [hidden |-> FALSE, categories |-> <<"c">>] @@ 2 :> [hidden |-> FALSE, categories |-> <<"c">>]
  @@ 3 :> [hidden |-> FALSE, categories |-> <<>>] @@ 4 :> [hidden |-> TRUE, categories |-> <<"c">>]
A == {"", "c"}
Lists == [i \in 1 .. 5 |-> {Doc(j, 100 * (IF i = 1 THEN j ELSE 7 - j), IF j = 3 THEN {""} ELSE A) :
    j \in (1 .. 5) \ {i}}]
AScore == [i \in 1 .. 5 |-> 100 * ((2 * i) % 5)]
Model(user) ==
  [user |-> user, trained |-> {1, 2, 3, 5}, score |-> AScore,
      terms |-> [i \in 1 .. 5 |-> IF i = 3 THEN {} ELSE {"c"}]]
World(fb, neighbors, similar, cf, ranker, click) ==
  [items |-> Items, feedback |-> fb, neighbors |-> neighbors, images |-> Lists,
   users |-> "v" :> [score |-> 100, liked |-> {Fb(2, "like"), Fb(2, "star"), Fb(3, "like"), Fb(4, "like")},
       digest |-> similar]
             @@ "w" :> [score |-> 300, liked |-> {Fb(1, "like"), Fb(3, "read")}, digest |-> "U"],
   documents |-> IF similar = "U" THEN <<>> ELSE 1 :> [score |-> 100, categories |-> A],
   fresh |-> {Doc(1, 300, A), Doc(4, 200, A), Doc(3, 100, {""}), Doc(5, 50, A)},
   hits |-> {Doc(2, 300, A), Doc(5, 200, A), Doc(3, 150, {""})}, model |-> cf, ctr |-> ranker, click |-> click]
Same == [i \in 1 .. 5 |-> <<[documents |-> Lists[i], digest |-> "I"]>>]
Neighborings ==
  <<Same, [Same EXCEPT ![1] = <<[@[1] EXCEPT !.digest = "old"]>>],
    [Same EXCEPT ![1] = <<[documents |-> Lists[2], digest |-> "old"], @[1]>>]>>
Likes == <<{}, {Fb(1, "like")}, {Fb(1, "star"), Fb(1, "like"), Fb(4, "read")}, {Fb(2, "other"), Fb(3, "read")}>>
Models == <<NoRanker, Model(TRUE), Model(FALSE)>>
Clicks(k) == [i \in 1 .. 5 |-> 100 * ((k * i) % 5)]
Rankers == <<[ctr |-> NoRanker, click |-> NoRanker], [ctr |-> NoRanker, click |-> Clicks(3)],
             [ctr |-> Clicks(3), click |-> Clicks(4)]>>
MCWorlds ==
  [n \in 1 .. 108 |-> LET r == Rankers[((n \div 36) % 3) + 1] IN
     World(Likes[(n % 4) + 1], Neighborings[(n % 3) + 1], IF n % 5 = 0 THEN "old" ELSE "U",
           Models[((n \div 12) % 3) + 1], r.ctr, r.click)]

Table(a, b, c, d, e, f) ==
  << <<-9, a, b, c>>, <<a, -8, d, e>>, <<b, d, -7, f>>, <<c, e, f, -6>> >>
G(distance, terms, hidden, unclear) ==
  [distance |-> distance, terms |-> terms, hidden |-> hidden, unclear |-> unclear]
MCGeometries ==
  <<G(Table(-5, -4, -3, -2, -1, 0), <<{"c"}, {"c", "d"}, {}, {"d"}>>, [v \in 1 .. 4 |-> FALSE], {4}),
    G(Table(-1, 0, -3, -2, 0, -4), <<{"c"}, {"c"}, {"c"}, {}>>, [v \in 1 .. 4 |-> v = 3], {1, 2})>>

Labels == [n \in {"a", "b", "c", "i", "j", "k"} |->
  CASE n = "a" -> <<"x">> [] n = "i" -> <<"l", "m">> [] n = "j" -> <<"m">> [] OTHER -> <<>>]
Set(us, is, ul, il, train, test, samples, p, n) ==
  [users |-> us, items |-> is, userLabels |-> ul, itemLabels |-> il, labels |-> Labels,
   train |-> train, test |-> test, samples |-> samples, positive |-> p, negative |-> n]
MCLoadedData ==
  <<Set(<<"a", "b">>, <<"i", "j">>, <<"x">>, <<"l", "m">>, <<<<1>>, <<>>>>, <<{2}, {2}>>, 2, 1, 1),
    Set(<<"c", "a">>, <<"j", "k", "i">>, <<"x">>, <<"m">>, <<<<>>, <<3>>>>, <<{1}, {1}>>, 2, 0, 1),
    Set(<<"c", "b">>, <<"i">>, <<>>, <<"m">>, <<<<>>, <<>>>>, <<{1}, {}>>, 0, 0, 0)>>
MCEpochs == [bpr |-> 1, ccd |-> 2, fm |-> 2]
MCGrid == [bpr |-> {"p"}, ccd |-> {"q"}, fm |-> {"p", "q"}]
=============================================================================
