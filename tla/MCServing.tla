----------------------------- MODULE MCServing -----------------------------
(***************************************************************************)
(* The requests of the server and of the dashboard: those that change the  *)
(* stores, interleaved; the recommendations answered in whatever state the *)
(* stores are; and those that move data.  A behaviour exercises one of the *)
(* three.                                                                  *)
(***************************************************************************)
EXTENDS RestServer, MasterRest, TLC

LOCAL INSTANCE SequencesExt

----------------------------------------------------------------------------
(***************************************************************************)
(* Recommendation requests in whatever stores the other components leave:  *)
(* users give feedback, workers and the master publish lists, an item may  *)
(* be deleted from the data store alone, and in every state any request    *)
(* may come, to the server or to the dashboard.                            *)
(***************************************************************************)
CONSTANTS
  Reader,          \* the user who asks
  Readings,        \* [key, row] of feedback
  Published,       \* [collection, subset, rows] of cached lists
  Catalog,         \* the items of the data store
  Removed,         \* an item that may be deleted
  Fallbacks,       \* configured chains of recommenders
  Asked,           \* sets of categories
  MaxN,            \* bound: items asked for
  MaxEvents        \* bound: feedback and lists

VARIABLES stores, events

recommendingVars == <<stores, events>>

Gives(r) ==
  /\ r.key \notin DOMAIN stores.db.feedback
  /\ stores' = [stores EXCEPT !.db = DB!BatchInsertFeedback(@, <<r>>, TRUE, FALSE, FALSE)]

Publishes(p) ==
  /\ \A k \in DOMAIN stores.cache.docs : k.collection # p.collection \/ k.subset # p.subset
  /\ stores' = [stores EXCEPT !.cache = CA!AddScores(@, p.collection, p.subset, p.rows)]

Removes ==
  /\ Removed \in DOMAIN stores.db.items
  /\ stores' = [stores EXCEPT !.db = DB!DeleteItem(@, Removed)]

\* A time of a user is set.
Times(name) ==
  stores' = [stores EXCEPT !.cache = [@ EXCEPT !.values = Over([x \in {<<name, Reader>>} |-> Now], @)]]

RecommendingInit ==
  /\ stores = [db |-> [DB!EmptyStore EXCEPT !.items = Catalog, !.users = [u \in {Reader} |-> BlankUser]],
               cache |-> [values |-> EmptyTable, sets |-> EmptyTable, queues |-> EmptyTable,
                          docs |-> EmptyTable, points |-> EmptyTable]]
  /\ events = 0

RecommendingNext ==
  /\ events < MaxEvents
  /\ events' = events + 1
  /\ \/ \E r \in Readings : Gives(r)
     \/ \E p \in Published : Publishes(p)
     \/ Removes
     \/ Times("last_update_user_recommend_time")

RecommendingSpec == RecommendingInit /\ [][RecommendingNext]_recommendingVars

----------------------------------------------------------------------------
(* What is asked of the empty stores is left out.                          *)

Answers(asked, n, offset, replacement, fallback) ==
  getRecommend(stores, Reader, asked, n, offset, replacement, fallback)
Prefix(a, b) == Len(a) <= Len(b) /\ a = SubSeq(b, 1, Len(a))

\* The pages of a recommendation fit together (getRecommend, Recommend and
\* the stages, rest.go:745-1124): a page and the page after it are what one
\* request for both would answer, and to ask for more changes nothing of
\* what comes first, although stages look for just as many as are missing.
\* (A request that asks for more may fail where the smaller one does not.)
PagesFit ==
  events > 0 =>
  \A fallback \in Fallbacks, asked \in Asked, replacement \in BOOLEAN, n \in 1 .. MaxN :
    LET both == Answers(asked, 2 * n, 0, replacement, fallback)
        first == Answers(asked, n, 0, replacement, fallback)
    IN  Nil \notin both =>
        /\ \A a \in first : \E b \in both : Prefix(a, b)
        /\ \A b \in both : \E a \in first : Prefix(a, b)
        /\ \A c \in Answers(asked, n, n, replacement, fallback) : \E a \in first : a \o c \in both

\* An answer has no item twice and, unless read items may be shown again,
\* none the user has read; and it is short only when no list it is made of
\* has another item to show.
AnswersAreFull ==
  events > 0 =>
  \A fallback \in Fallbacks, asked \in Asked, replacement \in BOOLEAN, n \in 1 .. MaxN :
    \A a \in Answers(asked, n, 0, replacement, fallback) \ {Nil} :
      LET excluded == IF replacement THEN {} ELSE ReadItems(stores.db, Reader)
          offered(collection, subset) ==
            UNION {ToSet(ids) : ids \in
                     Lists(stores.cache, collection, subset, ReadCategories(asked), CacheSize)}
          has(name) == \E j \in DOMAIN fallback : fallback[j] = name
      IN  /\ \A i, j \in DOMAIN a : a[i] = a[j] => i = j
          /\ ToSet(a) \cap excluded = {}
          /\ Len(a) < n => /\ offered("OfflineRecommend", Reader) \subseteq ToSet(a) \cup excluded
                           /\ has("latest") => offered("NonPersonalized", Latest)
                                                 \subseteq ToSet(a) \cup excluded

\* A user's own feedback, sent as a session, finds what the item-based stage
\* finds for the user (sessionRecommend against RecommendItemBased), where
\* there is not more of it than both look at.
Session == {k \in DOMAIN stores.db.feedback : k.user = Reader /\ stores.db.feedback[k] <= Now}
Rows(keys) == [j \in 1 .. Cardinality(keys) |->
                 LET order == CHOOSE s \in [1 .. Cardinality(keys) -> keys] : ToSet(s) = keys
                 IN  [key |-> order[j], row |-> stores.db.feedback[order[j]]]]
SessionsAgree ==
  events > 0 /\ Cardinality(Positive(stores.db, Reader)) <= NumFeedback =>
    \A n \in 1 .. MaxN :
      sessionRecommend(stores, Rows(Session), "", n, 0)
        = {ctx.results : ctx \in RecommendItemBased(stores,
              createRecommendContext(stores.db, Reader, FALSE), Reader, NoCategory, n)}

\* The list a worker has made for a user, asked for as such, is what is
\* recommended without fallbacks (rest.go:734 and 837).
OfflineAgrees ==
  events > 0 =>
  \A asked \in Asked, n \in 1 .. MaxN :
    getCollaborative(stores, Reader, asked, Reader, n, 0) = Answers(asked, n, 0, FALSE, <<>>)

\* The first page of a list that a user asks for holds the first items the
\* user has not read, as many as asked for if there are (SearchDocuments,
\* rest.go:590).
ListsSkipReadItems ==
  events > 0 =>
  \A n \in 1 .. MaxN, asked \in Asked :
    getLatest(stores, asked, Reader, n, 0) =
      {LET unread == SelectSeq(ids, LAMBDA i : i \notin ReadItems(stores.db, Reader))
       IN  SubSeq(unread, 1, IF Len(unread) < n THEN Len(unread) ELSE n) :
         ids \in Lists(stores.cache, "NonPersonalized", Latest, ReadCategories(asked), Nil)}

\* The dashboard shows what the server answers (the two choose their chains
\* in code of their own, rest.go:740 of the master and 1049 of the server),
\* and fails only where something cached, or feedback, names an item that is
\* gone; page by page it lists every user once.
Gone ==
  LET cached == {k \in DOMAIN stores.cache.docs : k.collection # "UserNeighbors"}
      given == DOMAIN stores.db.feedback
  IN  ({k.id : k \in cached} \cup {k.item : k \in given}) \ DOMAIN stores.db.items
DashboardAgrees ==
  events > 0 =>
  /\ \A fallback \in Fallbacks, asked \in Asked, replacement \in BOOLEAN, n \in 1 .. MaxN :
       LET shown == dashboardRecommend(stores, Reader, asked, n, replacement, "_", fallback)
           offline == dashboardRecommend(stores, Reader, asked, n, replacement, "offline", fallback)
       IN  /\ shown = {IF a = Nil THEN Nil ELSE GetItem(stores, a) :
                         a \in Answers(asked, n, 0, replacement, fallback)}
           /\ Nil \in shown => Gone # {}
           /\ \A a \in shown \ {Nil} : \E o \in offline : Prefix(o, a)
  /\ \A asked \in Asked, n \in 1 .. MaxN :
       LET detailed(answers) == {GetItem(stores, a) : a \in answers}
           listed(name) == dashboardNonPersonalized(stores, name, asked, Reader, n, 0)
           near(i) == dashboardItemNeighbors(stores, i, asked, Reader, n, 0)
       IN  /\ listed(Latest) = detailed(getLatest(stores, asked, Reader, n, 0))
           /\ listed(Popular) = detailed(getPopular(stores, asked, Reader, n, 0))
           /\ \A i \in DOMAIN Catalog : Nil \in near(i) => Gone # {}
           /\ \A a \in getUserNeighbors(stores, Reader, n, 0) :
                LET found == [j \in DOMAIN a |-> [id |-> a[j], row |-> getUser(stores.db, a[j])]]
                    lost == \E j \in DOMAIN a : getUser(stores.db, a[j]) = NotFound
                IN  (IF lost THEN Nil ELSE found) \in dashboardUserNeighbors(stores, Reader, n, 0)
  /\ \A y \in PositiveTypes :
       LET given == dashboardTypedFeedback(stores, Reader, y)
       IN  /\ DOMAIN given = getTypedFeedbackByUser(stores.db, Reader, y)
           /\ \A k \in DOMAIN given : given[k] = NotFound => k.item \in Gone
  /\ LET page == dashboardUsers(stores, Nil, 1)
         rest == IF page.cursor = Nil THEN {}
             ELSE dashboardUsers(stores, page.cursor, Cardinality(DOMAIN stores.db.users)).users
     IN  page.users \cup rest = {dashboardUser(stores, u) : u \in DOMAIN stores.db.users}

----------------------------------------------------------------------------
(* The three together *)

VARIABLE served

servingVars == <<serverVars, recommendingVars, transferVars, served>>

ServingInit ==
  /\ served \in {"changes", "answers", "files"}
  /\ ServerInit /\ RecommendingInit /\ TransferInit
ServingNext ==
  /\ UNCHANGED served
  /\ \/ served = "changes" /\ ServerNext /\ UNCHANGED <<recommendingVars, transferVars>>
     \/ served = "answers" /\ RecommendingNext /\ UNCHANGED <<serverVars, transferVars>>
     \/ served = "files" /\ TransferNext /\ UNCHANGED <<serverVars, recommendingVars>>
ServingSpec == ServingInit /\ [][ServingNext]_servingVars

----------------------------------------------------------------------------
(* Properties *)

\* A recommendation is full, its pages fit together, and lists leave out what
\* the user has read (rest.go 590, 745-1124).
AnswersAreRight == served = "answers" => AnswersAreFull /\ PagesFit /\ ListsSkipReadItems

\* Different requests for the same thing get the same answer: feedback by user,
\* by item and by type, a session that is the user's own feedback, and the
\* dashboard (rest.go 688-716, 1375-1403, 1813-1900, 1126; master/rest.go 740).
RequestsAgree ==
  /\ served = "changes" => ReadsAgree
  /\ served = "answers" => SessionsAgree /\ OfflineAgrees /\ DashboardAgrees

\* What is dumped and restored, or exported and imported, is what the source
\* had, in whole batches if it stops (master/rest.go 905-1232, 1370-1628).
MovesAreFaithful == served = "files" => TransferIsFaithful /\ StoppedTransferIsWholeBatches

----------------------------------------------------------------------------
(***************************************************************************)
(* Changes: two clients, three requests, one failure, a user and an item   *)
(* with two types of feedback, one of them dated in the future.  Answers:  *)
(* the reader likes or reads items 1 and 2, a neighbor likes items 2 and   *)
(* 3; the latest items, a list of the reader, neighbors of both items (one *)
(* hidden), similar images; item 3 may be deleted.  Files: three users,    *)
(* two items and two rows of feedback, one of the future, in batches of    *)
(* two.                                                                    *)
(***************************************************************************)
Row(key, row) == [key |-> key, row |-> row]
UserRow(label) == [labels |-> label, subscribe |-> {}]
ItemRow(hidden, categories, time) ==
  [is_hidden |-> hidden, categories |-> categories, timestamp |-> time]
MCUserTables == {<<Row(1, UserRow(1))>>}
MCUserChanges == {[id |-> 1, patch |-> UserRow(2)]}
MCItemTables == {<<Row(12, ItemRow(FALSE, {"x"}, 1))>>}
MCItemChanges == {[id |-> 12, patch |-> ItemRow(TRUE, {}, 3)]}
MCFeedbackTables == {<<Row([type |-> 1, user |-> 1, item |-> 12], 1),
                       Row([type |-> 2, user |-> 1, item |-> 12], 5)>>}
MCCachedIn == {[collection |-> "ItemNeighbors", subset |-> 11]}
MCFallback == <<"latest">>
Alike == Permutations(Clients)

MCBlankUser == [labels |-> Nil, subscribe |-> {}]
MCBlankItem == ItemRow(FALSE, {}, 0)
MCCatalog == [i \in 1 .. 4 |-> ItemRow(i = 4, IF i = 3 THEN {"x"} ELSE {}, 1)]
Given(type, u, i, time) == [key |-> [type |-> type, user |-> u, item |-> i], row |-> time]
MCReadings == {Given(1, 1, 1, 1), Given(1, 1, 2, 2), Given(2, 1, 2, 2), Given(1, 1, 3, 5),
               Given(1, 2, 2, 1), Given(1, 2, 3, 1)}
Doc(hidden, categories, score) ==
  [is_hidden |-> hidden, categories |-> categories \cup {""}, score |-> score, timestamp |-> 1]
List(collection, subset, docs) == [collection |-> collection, subset |-> subset, rows |-> docs]
MCPublished ==
  {List("OfflineRecommend", 1, [i \in {2, 3} |-> Doc(FALSE, MCCatalog[i].categories, i)]),
   List("OfflineRecommend", 1, [i \in {3, 4} |-> Doc(i = 4, MCCatalog[i].categories, i)]),
   List("NonPersonalized", Latest, [i \in 1 .. 3 |-> Doc(FALSE, MCCatalog[i].categories, 4 - i)]),
   List("ItemNeighbors", 1, [i \in {2, 3} |-> Doc(FALSE, MCCatalog[i].categories, 1)]),
   List("ItemNeighbors", 2, [i \in {1, 3} |-> Doc(FALSE, MCCatalog[i].categories, i)]),
   List("ImageSimilar", 1, [i \in {3} |-> Doc(FALSE, MCCatalog[i].categories, 1)]),
   List("UserNeighbors", 1, [u \in {2} |-> Doc(FALSE, {}, 2)])}
MCFallbacks == {<<"item_based", "latest">>, <<"user_based", "popular">>,
                <<"collaborative", "image_based", "latest">>}
MCAsked == {{}, {"x"}}
MCPositiveTypes == {1}

MCSource ==
  [users |-> [u \in 1 .. 3 |-> [labels |-> u, subscribe |-> {"s"}]],
   items |-> [i \in 1 .. 2 |-> ItemRow(FALSE, {}, 1)],
   feedback |-> [k \in {Given(1, u, u, 0).key : u \in 1 .. 2} |-> IF k.user = 1 THEN 1 ELSE 5]]
MCTargets ==
  {[users |-> EmptyTable, items |-> EmptyTable, feedback |-> EmptyTable],
   [users |-> [u \in {1} |-> [labels |-> Nil, subscribe |-> {"t"}]],
    items |-> [i \in {1} |-> ItemRow(TRUE, {}, 1)], feedback |-> EmptyTable]}
MCSourceChanges ==
  <<[table |-> "users", key |-> 4, row |-> UserRow(1)],
    [table |-> "items", key |-> 1, row |-> ItemRow(TRUE, {}, 1)],
    [table |-> "feedback", key |-> Given(1, 4, 2, 0).key, row |-> 2]>>
=============================================================================
