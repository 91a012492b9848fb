------------------------------ MODULE MCStores ------------------------------
(***************************************************************************)
(* The data stores, the cache stores, and the Redis cache under concurrent *)
(* clients.  They share nothing: a behaviour exercises one of the three.   *)
(***************************************************************************)
EXTENDS DataStores, CacheStores, RedisScores

VARIABLE exercised

storeVars == <<dataVars, cacheVars, redisVars, exercised>>

StoresInit ==
  /\ exercised \in {"data", "cache", "redis"}
  /\ Init /\ CacheInit /\ RedisInit

StoresNext ==
  /\ UNCHANGED exercised
  /\ \/ exercised = "data" /\ Next /\ UNCHANGED <<cacheVars, redisVars>>
     \/ exercised = "cache" /\ CacheNext /\ UNCHANGED <<dataVars, redisVars>>
     \/ exercised = "redis" /\ RedisNext /\ UNCHANGED <<dataVars, cacheVars>>

StoresSpec ==
  StoresInit /\ [][StoresNext]_storeVars /\ WF_redisVars(exercised = "redis" /\ RedisStep)

----------------------------------------------------------------------------
(* Properties *)

\* Who reads or changes page by page, in a store or in a table of Redis, meets
\* every row that is there all the time (sql.go, mongodb.go, redis.go 338-400).
PagesMissNothing == ScansAreComplete /\ PagesReachAll

\* The data store behind the proxy is and answers like one that is called
\* directly, but for what the protocol cannot carry (data/proxy.go).
ProxyKeepsData == exercised = "data" => ProxyIsTransparent /\ ProxyLosesOnlyEmptyLists

\* SQL, MongoDB, Redis and the proxy cache and answer alike (storage/cache).
CacheStoresAgree == exercised = "cache" => CachesAgree /\ ProxiedCacheAgrees

\* Each store does what its interface promises (data/database.go and
\* cache/database.go), and a deletion by pages ends once others pause.
StoresKeepPromises == StoresImplementDatabase /\ StoresImplementCache /\ DeletesEnd

----------------------------------------------------------------------------
(***************************************************************************)
(* Data: two users, three items, two types of feedback; batches with a key *)
(* given twice, patches that empty a list, rows at and around the present  *)
(* time.  Cache: two collections, two subsets besides the empty one, two   *)
(* documents; a search without end is bounded to one document, times to    *)
(* two points.  Redis: pages of one document, three documents.             *)
(***************************************************************************)
CONSTANTS Label, Category

User(label, topics) == [labels |-> label, subscribe |-> topics]
Item(hidden, categories, time) ==
  [is_hidden |-> hidden, categories |-> categories, timestamp |-> time, labels |-> Nil]
Row(key, row) == [key |-> key, row |-> row]
Key(type, u, i) == [type |-> type, user |-> u, item |-> i]

MCBlankUser == User(Nil, {})
MCBlankItem == Item(FALSE, {}, 0)
MCUserBatches == {<<Row(1, User(Label, {})), Row(2, User(Nil, {Category}))>>,
                  <<Row(2, User(Nil, {})), Row(2, User(Label, {}))>>}
MCItemBatches == {<<Row(1, Item(FALSE, {Category}, 1)), Row(2, Item(TRUE, {}, 2)),
                    Row(3, Item(FALSE, {}, 2))>>,
                  <<Row(2, Item(FALSE, {}, 1)), Row(2, Item(TRUE, {}, 3))>>}
MCFeedbackBatches == {<<Row(Key(1, 1, 1), 1), Row(Key(1, 1, 1), 3), Row(Key(1, 2, 3), 2)>>,
                      <<Row(Key(1, 1, 1), 2), Row(Key(2, 1, 2), 3)>>}
MCUserPatches == {[labels |-> Label, subscribe |-> {}]}
MCItemPatches == {[categories |-> {}], [is_hidden |-> TRUE, timestamp |-> 3]}
MCFeedbackTypes == {{}, {2}}
MCScans == {[types |-> {}], [types |-> {2}, end |-> 2], [beginUser |-> 2, endItem |-> 2],
            [endUser |-> 1, beginItem |-> 2]}

Value(name, value) == [key |-> name, row |-> value]
Doc(hidden, categories, score, time) ==
  [is_hidden |-> hidden, categories |-> categories, score |-> score, timestamp |-> time]
MCValueBatches == {<<Value("a", 1), Value("a", 2)>>, <<Value("b", 1)>>}
MCDocumentSets ==
  {[collection |-> "c", subset |-> "s", rows |-> <<Doc(FALSE, {"*", "x"}, 2, 1), Doc(FALSE, {"*"}, 1, 1)>>],
   [collection |-> "c", subset |-> "s", rows |-> <<Doc(FALSE, {"*"}, 1, 2)>>],
   [collection |-> "c", subset |-> "", rows |-> <<Doc(FALSE, {"*"}, 1, 2)>>],
   [collection |-> "d", subset |-> "s", rows |-> <<Doc(FALSE, {"*"}, 1, 1)>>]}
MCPatches ==
  {[collections |-> {"c", "d"}, subset |-> Nil, id |-> 1, patch |-> [is_hidden |-> TRUE]],
   [collections |-> {"c"}, subset |-> "s", id |-> 1, patch |-> [is_hidden |-> FALSE]],
   [collections |-> {"c"}, subset |-> Nil, id |-> 2, patch |-> [categories |-> {"*", "x"}]],
   [collections |-> {}, subset |-> Nil, id |-> 1, patch |-> [score |-> 3]],
   [collections |-> {"c"}, subset |-> "s", id |-> 2, patch |-> [score |-> 3]]}
Condition(collections, subset, id, before) ==
  [collections |-> collections, subset |-> subset, id |-> id, before |-> before]
MCConditions ==
  {Condition({"c", "d"}, Nil, 1, Nil), Condition({"c"}, "s", Nil, 2), Condition({"c"}, Nil, Nil, Nil)}
MCPointSets == {[p \in {[name |-> "m", time |-> t] : t \in 0 .. 2} |-> p.time],
                [p \in {[name |-> "m", time |-> 1]} |-> 5]}
MCSearches ==
  [collection : {"c", "d"}, subset : {"", "s"}, query : {{}, {"x"}}, begin : {0, 1}, end : {2, Nil}]

MCDocKeys == {[collection |-> "c", subset |-> "s", id |-> 1],
              [collection |-> "c", subset |-> "t", id |-> 1], [collection |-> "d", subset |-> "s", id |-> 2]}
MCNewRows == {Doc(FALSE, {"*"}, 1, 1), Doc(FALSE, {"*"}, 2, 2)}
MCQueries == {Condition({"c", "d"}, Nil, 1, Nil), Condition({"c"}, "s", Nil, 2)}
MCRedisPatch == [is_hidden |-> TRUE]
=============================================================================
