------------------------------ MODULE Candidates ------------------------------
(***************************************************************************)
(* How a worker recommends to one user whose turn it is in a round: the    *)
(* body of the goroutine of Recommend (worker/worker.go) from loading his  *)
(* history to caching the result.  When users are due, and what goroutines *)
(* do to each other, is in RecommendRound.                                 *)
(*                                                                         *)
(* A world is what the goroutine finds in the stores and in the models; a  *)
(* setting is what the configuration says.  Scores are integers; what      *)
(* exploration takes off (1e-5) is 1 and a unit is 100.  Documents with    *)
(* equal scores come in one order.                                         *)
(***************************************************************************)
EXTENDS Integers, Sequences, FiniteSets, TLC

LOCAL INSTANCE FiniteSetsExt
LOCAL INSTANCE SequencesExt

CONSTANTS
  Settings,      \* numbered records: col, index, item, user, image, latest, popular, ctr,
                 \* replacement (Booleans), explore (a subset of Explorers)
  Worlds,        \* numbered records, see below
  ListSize, NumSimilar, EfConstruction,
  ItemDigest, UserDigest,        \* digests of the neighbour options
  PositiveDecay, ReadDecay       \* per cent

\* A world has
\*   items      the pulled item -> [hidden, categories (a sequence)]
\*   feedback   of the user, a set of [item, type]
\*   neighbors  item -> the versions [documents, digest] of its cached neighbors, a
\*              second one if the master renews them during the turn
\*   images     item -> set of documents [id, score, categories]
\*   users      similar user -> [score, liked (a set of [item, type]), digest]; the
\*              digest is cached under his id and tells how his neighbors were found
\*   fresh, hits   the documents of the lists Latest and Popular
\*   model      [user (predictable), trained, score, terms], or NoRanker
\*   ctr        item -> score of the ranker of the goroutine, or NoRanker if it is invalid
\*   click      item -> score of the click model, or NoRanker; Pull sets it first
\*   documents  of the user in OfflineRecommend, from the turns before
NoRanker == [none |-> TRUE]
Explorers == {"popular", "latest"}
Setting ==
  [col : BOOLEAN, index : BOOLEAN, item : BOOLEAN, user : BOOLEAN, image : BOOLEAN, latest : BOOLEAN,
   popular : BOOLEAN, ctr : BOOLEAN, replacement : BOOLEAN, explore : SUBSET Explorers]

ASSUME CandidatesAssumption == \A n \in DOMAIN Settings : Settings[n] \in Setting

ASSUME WorldsAssumption ==
  \A n \in DOMAIN Worlds : \A i \in {f.item : f \in Worlds[n].feedback} :
    i \in DOMAIN Worlds[n].neighbors /\ DOMAIN Worlds[n].neighbors[i] \in {{1}, {1, 2}}

VARIABLES
  configured,   \* the number of the setting
  situation,    \* ... and of the world
  stage,        \* what comes next
  candidates,   \* category -> sequence of lists of items
  collaborativeUsed, ctrUsed,
  itemDigests, userDigests,  \* digests of the neighbours that were used
  results,      \* category -> sequence of [id, score]
  exploring,    \* the roll of exploreRecommend, category after category
  cached,       \* the documents of the user in OfflineRecommend; now: of this turn
  digest        \* OfflineRecommendDigest of the user

candidateVars == <<configured, situation, stage, candidates, collaborativeUsed, ctrUsed,
                   itemDigests, userDigests, results, exploring, cached, digest>>

setting == Settings[configured]
world == Worlds[situation]

EmptyMap == [k \in {} |-> k]
NoDigest == [none |-> TRUE]

\* pullItems.
ItemCategories == UNION {ToSet(world.items[i].categories) : i \in DOMAIN world.items}
Categories == ItemCategories \cup {""}
Exists(i) == i \in DOMAIN world.items
GetCategory(i) == IF Exists(i) THEN world.items[i].categories ELSE <<>>
IsAvailable(i) == Exists(i) /\ ~world.items[i].hidden
OfCategory(i, c) == c = "" \/ c \in ToSet(GetCategory(i))

\* loadUserHistoricalItems: feedback of every type.
HistoryItems == {f.item : f \in world.feedback}
Positive(rows) == {f \in rows : f.type \in {"like", "star"}}
Unread(i) == i \notin HistoryItems /\ IsAvailable(i)

\* TopKFilter and SearchScores.
Best(scores, k) ==
  LET order == SetToSortSeq(DOMAIN scores, LAMBDA a, b : scores[a] > scores[b])
  IN  SubSeq(order, 1, IF Len(order) < k THEN Len(order) ELSE k)
SearchScores(documents, c, k) == Best([d \in {e \in documents : c \in e.categories} |-> d.score], k)
Listed(lists) == [c \in Categories |-> Append(candidates[c], lists[c])]

Stamped(doc, now) == [score |-> doc.score, categories |-> doc.categories, now |-> now]

\* OfflineRecommendDigest: the digests of several neighbours are joined, which
\* is the digest of one configuration only if they are all the same.
OfflineRecommendDigest(col, ranking, items, users) ==
  [settings |-> [setting EXCEPT !.col = col, !.ctr = ranking, !.image = FALSE, !.index = col /\ @],
   items |-> IF setting.item THEN items ELSE {},
   users |-> IF setting.user THEN users ELSE {}]
ConfiguredDigest == OfflineRecommendDigest(setting.col, setting.ctr, {ItemDigest}, {UserDigest})

\* What earlier turns left, the last one made as configured.
CandidatesInit ==
  /\ configured \in DOMAIN Settings
  /\ situation \in DOMAIN Worlds
  /\ stage = "collaborative"
  /\ candidates = [c \in Categories |-> <<>>]
  /\ collaborativeUsed = FALSE /\ ctrUsed = FALSE
  /\ itemDigests = {} /\ userDigests = {}
  /\ results = EmptyMap /\ exploring = EmptyMap
  /\ cached = [i \in DOMAIN world.documents |-> Stamped(world.documents[i], FALSE)]
  /\ digest = IF DOMAIN cached = {} THEN NoDigest ELSE ConfiguredDigest

WorldStays == UNCHANGED <<configured, situation>>
Gathers(from, to) == stage = from /\ stage' = to /\ WorldStays
    /\ UNCHANGED <<ctrUsed, results, exploring, cached, digest>>

----------------------------------------------------------------------------
(* The recommenders.                                                       *)

ModelKnowsUser == world.model # NoRanker /\ world.model.user

CollaborativeBruteForce(c) ==
  Best([i \in {j \in world.model.trained : Unread(j) /\ OfCategory(j, c)} |-> world.model.score[i]], ListSize)

\* The index finds the ef items next to the user and sorts them into the
\* categories they had when it was built; hidden and read ones take a place.
CollaborativeHNSW(c) ==
  LET n == ListSize + Cardinality(HistoryItems)
      near == Best([i \in DOMAIN world.model.terms |-> world.model.score[i]],
                   IF EfConstruction > n THEN EfConstruction ELSE n)
      fit == SelectSeq(near, LAMBDA i : c = "" \/ c \in world.model.terms[i])
  IN  SelectSeq(SubSeq(fit, 1, IF Len(fit) < n THEN Len(fit) ELSE n), Unread)

\* Bug: a user the model does not know counts as served
RecommendsCollaborativeIfAny ==
  /\ Gathers("collaborative", "item")
  /\ collaborativeUsed' = setting.col
  /\ candidates' = IF setting.col /\ ModelKnowsUser
                   THEN Listed([c \in Categories |-> IF setting.index THEN CollaborativeHNSW(c)
                       ELSE CollaborativeBruteForce(c)])
                   ELSE candidates
  /\ UNCHANGED <<itemDigests, userDigests>>

RecommendsCollaborative ==
  /\ Gathers("collaborative", "item")
  /\ collaborativeUsed' = (setting.col /\ ModelKnowsUser)
  /\ candidates' = IF setting.col /\ ModelKnowsUser
                   THEN Listed([c \in Categories |-> IF setting.index THEN CollaborativeHNSW(c)
                       ELSE CollaborativeBruteForce(c)])
                   ELSE candidates
  /\ UNCHANGED <<itemDigests, userDigests>>

\* The likeness of an item to what the user likes; an item he likes in two
\* ways counts twice.
Likeness(lists, c, k) ==
  LET found == {[of |-> f, doc |-> d] : f \in Positive(world.feedback), d \in UNION {lists[i] : i \in DOMAIN lists}}
      near == {x \in found : x.doc \in ToSet(SearchScores(lists[x.of.item], c, k))}
      ids == {i \in {x.doc.id : x \in near} : Unread(i)}
  IN  [i \in ids |-> MapThenSumSet(LAMBDA x : x.doc.score, {x \in near : x.doc.id = i})]

\* The list of an item and its digest are read one after the other, category
\* after category, "" first.  A moment is the calls that come before its
\* neighbors are renewed (which is one step here).
Moments ==
  {m \in [lists : SUBSET Categories, digests : SUBSET Categories] :
     /\ m.digests \subseteq m.lists /\ Cardinality(m.lists \ m.digests) <= 1
     /\ m.lists # {} => "" \in m.lists
     /\ m.digests # {} => "" \in m.digests}
Renewed == {i \in DOMAIN world.neighbors : 2 \in DOMAIN world.neighbors[i]}
Version(i, early) == world.neighbors[i][IF i \in Renewed /\ ~early THEN 2 ELSE 1]
ReadList(i, c, moment) == Version(i, i \in Renewed /\ c \in moment[i].lists).documents
ReadDigest(i, c, moment) == Version(i, i \in Renewed /\ c \in moment[i].digests).digest
ReadDigests(moment) ==
  UNION {{ReadDigest(f.item, c, moment) : c \in Categories} : f \in Positive(world.feedback)}

RecommendsItemBased ==
  /\ Gathers("item", "user")
  /\ IF setting.item
     THEN \E moment \in [Renewed -> Moments] :
       LET lists(c) == [i \in DOMAIN world.neighbors |-> ReadList(i, c, moment)]
       IN  /\ candidates' = Listed([c \in Categories |-> Best(Likeness(lists(c), c, ListSize), ListSize)])
           /\ itemDigests' = ReadDigests(moment)
     ELSE UNCHANGED <<candidates, itemDigests>>
  /\ UNCHANGED <<collaborativeUsed, userDigests>>

SimilarUsers == ToSet(Best([u \in DOMAIN world.users |-> world.users[u].score], ListSize))
Weights ==
  LET rows == UNION {{[user |-> u, row |-> f] : f \in Positive(world.users[u].liked)} : u \in SimilarUsers}
      ids == {i \in {x.row.item : x \in rows} : Unread(i)}
  IN  [i \in ids |-> MapThenSumSet(LAMBDA x : world.users[x.user].score, {x \in rows : x.row.item = i})]

\* The digest is read under the id of the similar user (725: `user` is the
\* loop's), where the master has put it for the search of his neighbors.
RecommendsUserBased ==
  /\ Gathers("user", "image")
  /\ IF setting.user
     THEN /\ candidates' = Listed([c \in Categories |->
                             Best([i \in {j \in DOMAIN Weights : OfCategory(j, c)} |-> Weights[i]], ListSize)])
          /\ userDigests' = {world.users[u].digest : u \in SimilarUsers}
     ELSE UNCHANGED <<candidates, userDigests>>
  /\ UNCHANGED <<collaborativeUsed, itemDigests>>

RecommendsByImage ==
  /\ Gathers("image", "latest")
  /\ candidates' = IF setting.image
                   THEN Listed([c \in Categories |-> Best(Likeness(world.images, c, NumSimilar), ListSize)])
                   ELSE candidates
  /\ UNCHANGED <<collaborativeUsed, itemDigests, userDigests>>

\* Ids of a list of the collection NonPersonalized.
NonPersonalized(documents, c) ==
  LET found == SearchScores(documents, c, ListSize) IN [j \in DOMAIN found |-> found[j].id]

Filtered(ids) == SelectSeq(ids, Unread)

RecommendsLatest ==
  /\ Gathers("latest", "popular")
  /\ candidates' = IF setting.latest
                   THEN Listed([c \in Categories |-> Filtered(NonPersonalized(world.fresh, c))])
                   ELSE candidates
  /\ UNCHANGED <<collaborativeUsed, itemDigests, userDigests>>

RecommendsPopular ==
  /\ Gathers("popular", "rank")
  /\ candidates' = IF setting.popular
                   THEN Listed([c \in Categories |-> Filtered(NonPersonalized(world.hits, c))])
                   ELSE candidates
  /\ UNCHANGED <<collaborativeUsed, itemDigests, userDigests>>

----------------------------------------------------------------------------
(* Ranking and replacement.                                                *)

Proposed(c) == UNION {ToSet(candidates[c][j]) : j \in DOMAIN candidates[c]}
SortDocuments(documents) == SetToSortSeq(documents, LAMBDA a, b : a.score > b.score)
Ranked(ids, score) == SortDocuments({[id |-> i, score |-> score[i]] : i \in ids})

\* mergeAndShuffle: a list is drawn again and again, and its next item is
\* taken unless it was taken before.  exp(-n) only gives the order.
Shuffled(lists) ==
  LET ids == UNION {ToSet(lists[j]) : j \in DOMAIN lists}
      Drawn(order, k) ==
        \E j \in DOMAIN lists : \E p \in DOMAIN lists[j] :
          /\ lists[j][p] = order[k]
          /\ \A q \in 1 .. p - 1 : lists[j][q] \in {order[m] : m \in 1 .. k - 1}
  IN  {[k \in DOMAIN order |-> [id |-> order[k], score |-> 100 * (Cardinality(ids) - k + 1)]] :
         order \in {o \in SetToSeqs(ids) : \A k \in DOMAIN o : Drawn(o, k)}}

ToReplace == stage' = IF setting.replacement THEN "replace" ELSE "explore"
Ranks ==
  /\ stage = "rank" /\ ToReplace /\ WorldStays
  /\ IF setting.ctr /\ world.ctr # NoRanker
     THEN /\ results' = [c \in Categories |-> Ranked({i \in Proposed(c) : Exists(i)}, world.ctr)]
          /\ ctrUsed' = TRUE
     ELSE /\ IF ModelKnowsUser
             THEN results' = [c \in Categories |-> Ranked(Proposed(c), world.model.score)]
             ELSE results' \in {r \in [Categories -> UNION {Shuffled(candidates[c]) : c \in Categories}] :
                                  \A c \in Categories : r[c] \in Shuffled(candidates[c])}
          /\ UNCHANGED ctrUsed
  /\ UNCHANGED <<candidates, collaborativeUsed, itemDigests, userDigests, exploring, cached, digest>>

ScoresOf(documents) == {documents[j].score : j \in DOMAIN documents}
Bounded(c) == results[c] # <<>>

\* The score is changed category after category: it decays anew in each, and
\* keeps the lower bound of one that it does not reach.
Replaced(i, score, decay) ==
  LET Step(acc, c) ==
        LET low == Min(ScoresOf(results[c]))
            above == acc.score - low
            left == ((above * decay) \div 100) + low
        IN  IF ~Bounded(c) THEN [acc EXCEPT !.lists = @ \cup {[in |-> c, score |-> acc.score]}]
            ELSE IF above < 0 THEN [acc EXCEPT !.score = above]
            ELSE [score |-> left, lists |-> acc.lists \cup {[in |-> c, score |-> left]}]
  IN  FoldLeft(Step, [score |-> score, lists |-> {}], <<"">> \o world.items[i].categories).lists

\* Types that the configuration does not name do not count, and a hidden item
\* is put back like any other.
Distinct == {f.item : f \in {g \in world.feedback : g.type \in {"like", "star", "read"} /\ Exists(g.item)}}
RandomScores ==
  IF Bounded("") THEN {Min(ScoresOf(results[""])), Max(ScoresOf(results[""]))} ELSE {0, 100}

Replaces ==
  /\ stage = "replace" /\ stage' = "explore" /\ WorldStays
  /\ \E score \in IF setting.ctr /\ world.click # NoRanker THEN {world.click}
                  ELSE IF ModelKnowsUser THEN {world.model.score}
                  ELSE [Distinct -> RandomScores] :
       LET decay(i) == IF \E f \in Positive(world.feedback) : f.item = i THEN PositiveDecay ELSE ReadDecay
           back == UNION {{[id |-> i, in |-> p.in, score |-> p.score] : p \in Replaced(i, score[i], decay(i))} :
               i \in Distinct}
       IN  results' = [c \in Categories |->
             SortDocuments(ToSet(results[c]) \cup {[id |-> b.id, score |-> b.score] : b \in {x \in back : x.in = c}})]
  /\ UNCHANGED <<candidates, collaborativeUsed, ctrUsed, itemDigests, userDigests, exploring, cached, digest>>

----------------------------------------------------------------------------
(* Exploration and the cache.                                              *)

\* Bug: replacement and exclusion are swapped
LocalExcludeSwapped == IF setting.replacement THEN HistoryItems ELSE {}
LocalExclude == IF setting.replacement THEN {} ELSE HistoryItems

\* The roll of a category takes as many turns as the ranking is long.
BeginsExploring ==
  /\ stage = "explore" /\ stage' = "roll" /\ WorldStays
  /\ LET c == CHOOSE d \in Categories \ DOMAIN exploring : TRUE IN
       exploring' = [d \in DOMAIN exploring \cup {c} |->
         IF d \in DOMAIN exploring THEN exploring[d]
         ELSE [exploit |-> results[c], left |-> Len(results[c]), excluded |-> LocalExclude, found |-> <<>>,
               popular |-> NonPersonalized(world.hits, c), latest |-> NonPersonalized(world.fresh, c),
               score |-> 100 + (IF results[c] = <<>> THEN 0 ELSE results[c][1].score)]]
  /\ UNCHANGED <<candidates, collaborativeUsed, ctrUsed, itemDigests, userDigests, results, cached, digest>>

\* An item that is excluded uses up the turn.
Takes(e, d) ==
  [e EXCEPT !.left = @ - 1, !.score = d.score, !.excluded = @ \cup {d.id},
            !.found = IF d.id \in e.excluded THEN @ ELSE Append(@, d)]
Explores(e, list) ==
  [Takes(e, [id |-> e[list][1], score |-> e.score - 1]) EXCEPT ![list] = Tail(@)]
Exploits(e) == [Takes(e, Head(e.exploit)) EXCEPT !.exploit = Tail(@)]

\* The dice falls below the threshold of popular, below that of both, or above;
\* where no popular item is left the latest take their share as well.
Explorable(e) ==
  {list \in setting.explore : e[list] # <<>>}
    \cup {list \in {"latest"} : "popular" \in setting.explore /\ e["popular"] = <<>> /\ e["latest"] # <<>>}
Rolls ==
  /\ stage = "roll"
  /\ \E c \in {d \in DOMAIN exploring : exploring[d].left > 0} :
       \/ \E list \in Explorable(exploring[c]) : exploring' = [exploring EXCEPT ![c] = Explores(@, list)]
       \/ /\ exploring[c].exploit # <<>>
          /\ exploring' = [exploring EXCEPT ![c] = Exploits(@)]
  /\ UNCHANGED <<stage, candidates, collaborativeUsed, ctrUsed, itemDigests, userDigests, results, cached, digest>>
  /\ WorldStays

EndsRoll ==
  /\ stage = "roll"
  /\ \A c \in DOMAIN exploring : exploring[c].left = 0
  /\ stage' = IF DOMAIN exploring = Categories THEN "cache" ELSE "explore"
  /\ WorldStays
  /\ UNCHANGED <<candidates, collaborativeUsed, ctrUsed, itemDigests, userDigests, results, exploring, cached,
         digest>>

\* DocumentAggregator: one document of each item, with its best score and the
\* categories it was found for.
Aggregated ==
  LET found == UNION {{[in |-> c, doc |-> exploring[c].found[j]] : j \in DOMAIN exploring[c].found} :
      c \in Categories}
      Of(i) == {x \in found : x.doc.id = i}
  IN  [i \in {x.doc.id : x \in found} |->
         [score |-> Max({x.doc.score : x \in Of(i)}), categories |-> {x.in : x \in Of(i)}]]

\* AddScores replaces the documents of the same items and leaves the others.
\* (A call that fails up to here ends the turn, and the round.)
CachesRecommended ==
  /\ stage = "cache" /\ stage' = "cached" /\ WorldStays
  /\ cached' = [i \in DOMAIN cached \cup DOMAIN Aggregated |->
                  IF i \in DOMAIN Aggregated THEN Stamped(Aggregated[i], TRUE) ELSE cached[i]]
  /\ UNCHANGED <<candidates, collaborativeUsed, ctrUsed, itemDigests, userDigests, results, exploring, digest>>

\* Set of the time and the digest; if it fails, that is only logged, and the
\* digest of an earlier turn stays with the documents of this one.
SetsDigest ==
  /\ stage = "cached" /\ stage' = "done" /\ WorldStays
  /\ digest' = OfflineRecommendDigest(collaborativeUsed, ctrUsed, itemDigests, userDigests)
  /\ UNCHANGED <<candidates, collaborativeUsed, ctrUsed, itemDigests, userDigests, results, exploring, cached>>
LosesDigest ==
  /\ stage = "cached" /\ stage' = "lost" /\ WorldStays
  /\ UNCHANGED <<candidates, collaborativeUsed, ctrUsed, itemDigests, userDigests, results, exploring, cached,
         digest>>

CandidatesNext ==
  \/ RecommendsCollaborative \/ RecommendsItemBased \/ RecommendsUserBased
  \/ RecommendsByImage \/ RecommendsLatest \/ RecommendsPopular
  \/ Ranks \/ Replaces \/ BeginsExploring \/ Rolls \/ EndsRoll
  \/ CachesRecommended \/ SetsDigest \/ LosesDigest

CandidatesSpec == CandidatesInit /\ [][CandidatesNext]_candidateVars

----------------------------------------------------------------------------
(* Properties *)

\* Unless read items are put back on purpose (replacement), nothing the user
\* has given feedback to, of whatever type, is among the documents a turn
\* caches for him, whichever of the recommenders or the exploration it came
\* from (worker.go 604, 1071 and 1113).  Documents of earlier turns stay.
ReadItemsStayOut ==
  ~setting.replacement => {i \in DOMAIN cached : cached[i].now} \cap HistoryItems = {}

\* What is ranked existed and was visible when the round began, although six
\* recommenders read lists that others wrote at other times
\* (ItemCache.IsAvailable, worker.go 1405).
RankedAreAvailable ==
  \A c \in Categories : \A i \in Proposed(c) : IsAvailable(i)

\* A turn that stores the digest "made as configured" (worker.go 1176) was:
\* the collaborative model knew the user, the click model ranked, there were
\* items he likes, all with neighbors found with the options of today, if not
\* before then after they were renewed, and there were similar users.  How
\* these were found the digest does not tell (see RecommendsUserBased).
DigestTellsTruth ==
  stage = "done" /\ digest = ConfiguredDigest =>
    /\ setting.col => ModelKnowsUser
    /\ setting.ctr => world.ctr # NoRanker
    /\ setting.item =>
         /\ Positive(world.feedback) # {}
         /\ \A f \in Positive(world.feedback) :
              \E v \in DOMAIN world.neighbors[f.item] : world.neighbors[f.item][v].digest = ItemDigest
    /\ setting.user => SimilarUsers # {}
=============================================================================
