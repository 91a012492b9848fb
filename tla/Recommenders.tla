---------------------------- MODULE Recommenders ----------------------------
(***************************************************************************)
(* The answers of the recommendation requests of server/rest.go, as sets:  *)
(* documents with equal scores come in any order, and so do the entries of *)
(* a Go map.  A context is [results, exclude]; a stage maps a context to   *)
(* the contexts it may leave.  An answer is a sequence of items, or Nil    *)
(* where the request fails.                                                *)
(***************************************************************************)
EXTENDS StoreRows

LOCAL INSTANCE FiniteSetsExt
LOCAL INSTANCE SequencesExt

CONSTANTS
  Now, BlankUser, BlankItem,
  Latest, Popular,          \* subsets of the collection NonPersonalized
  PositiveTypes,            \* types of feedback that count as liking
  CacheSize,                \* documents read of a list
  NumFeedback,              \* items the item-based stage starts from
  NumSimilar, ImageWeight   \* the same for images, and what a likeness counts

DB == INSTANCE SQLDataStore
CA == INSTANCE MongoCache

\* ReadCategories: no category asked for means the wild card.
NoCategory == {""}
ReadCategories(asked) == IF asked = {} THEN NoCategory ELSE asked
withWildCard(categories) == categories \cup {""}

Ids(docs) == [j \in DOMAIN docs |-> docs[j].id]
Lists(cache, collection, subset, categories, end) ==
  {Ids(s) : s \in CA!SearchScores(cache, collection, subset, categories, 0, end)}

----------------------------------------------------------------------------
(* The context and the stages.                                             *)

ReadItems(db, u) == {k.item : k \in DB!GetUserFeedback(db, u, Now, {})}

createRecommendContext(db, u, replacement) ==
  [results |-> <<>>, exclude |-> IF replacement THEN {} ELSE ReadItems(db, u)]

\* What a list offers and the user has not seen is appended, all of it.
Unseen(ctx, ids) == SelectSeq(ids, LAMBDA i : i \notin ctx.exclude)
Appended(ctx, ids) == [results |-> ctx.results \o ids, exclude |-> ctx.exclude \cup ToSet(ids)]
FromList(cache, ctx, collection, subset, categories) ==
  {Appended(ctx, Unseen(ctx, ids)) : ids \in Lists(cache, collection, subset, categories, CacheSize)}

RecommendOffline(w, ctx, u, categories) ==
  FromList(w.cache, ctx, "OfflineRecommend", u, categories)
RecommendCollaborative(w, ctx, u, categories) ==
  FromList(w.cache, ctx, "CollaborativeRecommend", u, categories)
RecommendLatest(w, ctx, categories) ==
  FromList(w.cache, ctx, "NonPersonalized", Latest, categories)
RecommendPopular(w, ctx, categories) ==
  FromList(w.cache, ctx, "NonPersonalized", Popular, categories)

\* TopKFilter: the k candidates with the highest scores, in this order.
TopK(scores, k) ==
  LET m == IF Cardinality(DOMAIN scores) < k THEN Cardinality(DOMAIN scores) ELSE k
  IN  {s \in [1 .. m -> DOMAIN scores] :
         /\ \A i, j \in 1 .. m : i < j => s[i] # s[j] /\ scores[s[i]] >= scores[s[j]]
         /\ \A x \in DOMAIN scores \ {s[j] : j \in 1 .. m}, j \in 1 .. m : scores[s[j]] >= scores[x]}
Chosen(ctx, scores, n) == {Appended(ctx, ids) : ids \in TopK(scores, n - Len(ctx.results))}

\* The k latest of a set of feedback, in any order where times are equal.
LatestOf(db, keys, k) ==
  {s \in kSubset(IF Cardinality(keys) < k THEN Cardinality(keys) ELSE k, keys) :
     \A x \in s, y \in keys \ s : db.feedback[x] >= db.feedback[y]}

\* The scores of the documents that are similar to the items of[x], added
\* up; lists[x] are the documents found for of[x].
SimilarScores(cache, collection, of, lists, exclude) ==
  LET found(x) == ToSet(lists[x]) \ exclude
      doc(x, i) == cache.docs[[collection |-> collection, subset |-> of[x], id |-> i]]
  IN  [i \in UNION {found(x) : x \in DOMAIN lists} |->
         MapThenSumSet(LAMBDA x : doc(x, i).score, {x \in DOMAIN lists : i \in found(x)})]
FoundFor(cache, collection, of, categories, end) ==
  LET found(x) == Lists(cache, collection, of[x], categories, end)
  IN  {lists \in [DOMAIN of -> UNION {found(x) : x \in DOMAIN of}] :
         \A x \in DOMAIN of : lists[x] \in found(x)}
ItemsOf(keys) == [k \in keys |-> k.item]

Positive(db, u) == {k \in DB!GetUserFeedback(db, u, Now, {}) : k.type \in PositiveTypes}

\* Bug: items the user has seen are candidates as well.
RecommendItemBasedSeen(w, ctx, u, categories, n) ==
  UNION {LET of == ItemsOf(keys)
         IN  UNION {Chosen(ctx, SimilarScores(w.cache, "ItemNeighbors", of, lists, {}), n) :
                      lists \in FoundFor(w.cache, "ItemNeighbors", of, categories, CacheSize)} :
           keys \in LatestOf(w.db, Positive(w.db, u), NumFeedback)}

RecommendItemBased(w, ctx, u, categories, n) ==
  UNION {LET of == ItemsOf(keys)
         IN  UNION {Chosen(ctx, SimilarScores(w.cache, "ItemNeighbors", of, lists, ctx.exclude), n) :
                      lists \in FoundFor(w.cache, "ItemNeighbors", of, categories, CacheSize)} :
           keys \in LatestOf(w.db, Positive(w.db, u), NumFeedback)}

RecommendImageBased(w, ctx, u, categories, n) ==
  LET of == ItemsOf(Positive(w.db, u))
  IN  UNION {LET scores == SimilarScores(w.cache, "ImageSimilar", of, lists, ctx.exclude)
             IN  Chosen(ctx, [i \in DOMAIN scores |-> scores[i] * ImageWeight], n) :
               lists \in FoundFor(w.cache, "ImageSimilar", of, categories, NumSimilar)}

\* The positive feedback of similar users; categories are compared with
\* those of the item itself, and whether it is hidden is not asked.  The
\* stage fails on feedback whose item is gone.
NeighborFeedback(w, users) ==
  UNION {{[by |-> v, key |-> k] : k \in DB!GetUserFeedback(w.db, v, Now, PositiveTypes)} : v \in users}
Fits(w, i, categories) ==
  categories = NoCategory \/ categories \subseteq w.db.items[i].categories
RecommendUserBased(w, ctx, u, categories, n) ==
  UNION {LET read == {f \in NeighborFeedback(w, ToSet(users)) : f.key.item \notin ctx.exclude}
             fit == {f \in read : Fits(w, f.key.item, categories)}
             score(f) == w.cache.docs[[collection |-> "UserNeighbors", subset |-> u, id |-> f.by]].score
         IN  IF \E f \in read : DB!GetItem(w.db, f.key.item) = NotFound THEN {Nil}
             ELSE Chosen(ctx, [i \in {f.key.item : f \in fit} |->
                                 MapThenSumSet(score, {f \in fit : f.key.item = i})], n) :
           users \in Lists(w.cache, "UserNeighbors", u, NoCategory, CacheSize)}

\* A stage does nothing when there are results enough.
Stage(name, w, ctx, u, categories, n) ==
  IF ctx = Nil \/ Len(ctx.results) >= n THEN {ctx}
  ELSE CASE name = "offline" -> RecommendOffline(w, ctx, u, categories)
         [] name = "collaborative" -> RecommendCollaborative(w, ctx, u, categories)
         [] name = "item_based" -> RecommendItemBased(w, ctx, u, categories, n)
         [] name = "user_based" -> RecommendUserBased(w, ctx, u, categories, n)
         [] name = "image_based" -> RecommendImageBased(w, ctx, u, categories, n)
         [] name = "latest" -> RecommendLatest(w, ctx, categories)
         [] name = "popular" -> RecommendPopular(w, ctx, categories)

Recommend(w, u, categories, n, replacement, recommenders) ==
  LET after[k \in 0 .. Len(recommenders)] ==
        IF k = 0 THEN {createRecommendContext(w.db, u, replacement)}
        ELSE UNION {Stage(recommenders[k], w, ctx, u, categories, n) : ctx \in after[k - 1]}
      cut(ctx) == IF Len(ctx.results) > n THEN SubSeq(ctx.results, 1, n) ELSE ctx.results
  IN  {IF ctx = Nil THEN Nil ELSE cut(ctx) : ctx \in after[Len(recommenders)]}

----------------------------------------------------------------------------
(* Requests.                                                               *)

Drop(s, offset) == SubSeq(s, offset + 1, Len(s))

getRecommend(w, u, asked, n, offset, replacement, fallback) ==
  {IF a = Nil THEN Nil ELSE Drop(a, offset) :
     a \in Recommend(w, u, ReadCategories(asked), offset + n, replacement, <<"offline">> \o fallback)}

\* The feedback of the request is sorted from the latest to the oldest; all
\* its items are excluded, the positive ones are looked up until enough of
\* them have neighbors.
Sorted(rows) ==
  {s \in [DOMAIN rows -> ToSet(rows)] :
     /\ \A i, j \in DOMAIN s : i < j => s[i].row >= s[j].row
     /\ \A r \in ToSet(rows) : Cardinality({i \in DOMAIN s : s[i] = r})
                                 = Cardinality({i \in DOMAIN rows : rows[i] = r})}
ItemIdsOf(rows) == {rows[j].key.item : j \in DOMAIN rows}
Liked(rows) == SelectSeq(rows, LAMBDA r : r.key.type \in PositiveTypes)
Used(lists) ==
  {j \in DOMAIN lists : Cardinality({h \in 1 .. j - 1 : lists[h] # <<>>}) < NumFeedback}
SessionScores(cache, liked, category, exclude) ==
  LET of == [j \in DOMAIN liked |-> liked[j].key.item]
  IN  {SimilarScores(cache, "ItemNeighbors", of, [j \in Used(lists) |-> lists[j]], exclude) :
         lists \in FoundFor(cache, "ItemNeighbors", of, {category}, CacheSize)}

sessionRecommend(w, rows, category, n, offset) ==
  LET page(ids) == SubSeq(ids, offset + 1, IF Len(ids) > offset + n THEN offset + n ELSE Len(ids))
      scores == UNION {SessionScores(w.cache, Liked(s), category, ItemIdsOf(rows)) : s \in Sorted(rows)}
  IN  {page(ids) : ids \in UNION {TopK(sc, n + offset) : sc \in scores}}

\* A list page by page; for a user, without what the user has read.
SearchDocuments(w, collection, subset, asked, user, n, offset) ==
  LET read == IF user = Nil THEN {} ELSE ReadItems(w.db, user)
      end == offset + n + (IF offset + n > 0 THEN Cardinality(read) ELSE 0)
      shown(docs) == SelectSeq(Ids(docs), LAMBDA i : i \notin read)
      cut(ids) == IF n > 0 /\ Len(ids) > n THEN SubSeq(ids, 1, n) ELSE ids
  IN  {cut(shown(docs)) : docs \in CA!SearchScores(w.cache, collection, subset, asked, offset, end)}
getLatest(w, asked, user, n, offset) ==
  SearchDocuments(w, "NonPersonalized", Latest, ReadCategories(asked), user, n, offset)
getPopular(w, asked, user, n, offset) ==
  SearchDocuments(w, "NonPersonalized", Popular, ReadCategories(asked), user, n, offset)
getNonPersonalized(w, name, asked, user, n, offset) ==
  SearchDocuments(w, "NonPersonalized", name, ReadCategories(asked), user, n, offset)
getItemNeighbors(w, i, asked, user, n, offset) ==
  SearchDocuments(w, "ItemNeighbors", i, ReadCategories(asked), user, n, offset)
getUserNeighbors(w, u, n, offset) ==
  SearchDocuments(w, "UserNeighbors", u, NoCategory, Nil, n, offset)
getCollaborative(w, u, asked, user, n, offset) ==
  SearchDocuments(w, "OfflineRecommend", u, ReadCategories(asked), user, n, offset)
=============================================================================
