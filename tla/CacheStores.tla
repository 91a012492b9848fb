----------------------------- MODULE CacheStores -----------------------------
(***************************************************************************)
(* The implementations of the cache store under the same calls: the SQL,   *)
(* the MongoDB and the Redis store, and the SQL store behind the proxy.  A *)
(* call is one step; the pages of Redis are in RedisScores.                *)
(***************************************************************************)
EXTENDS StoreRows

CONSTANTS
  AnySubset, PageLimit, DefaultRows,
  ValueBatches, SetNames, Members, QueueNames, Messages,
  DocumentSets, Patches, Conditions, PointSets,
  Searches,       \* [collection, subset, query, begin, end]
  MaxCalls        \* bound: calls that write

\* The fields of Score (cache/database.go 180-186).
IsDocument(row) ==
  IsRecord(row) /\ {"is_hidden", "categories", "score", "timestamp"} \subseteq DOMAIN row

\* Names of values are none of sets; no document is hidden when it is written
\* (logics/non_personalized.go 105); a patch of categories has the wild card
\* (withWildCard, server/rest.go 2024); a search asks for one document at least;
\* subsets that are updated or deleted are named (users, items, recommenders).
ASSUME CallsAssumption ==
  /\ Nil \notin Nat /\ PageLimit \in Nat \ {0} /\ DefaultRows \in Nat
  /\ Nil \notin Messages /\ NotFound \notin Messages
  /\ \A rows \in ValueBatches :
       /\ IsBatch(rows) /\ KeysOf(rows) \cap SetNames = {}
       /\ \A j \in DOMAIN rows : rows[j].row # Nil
  /\ \A d \in DocumentSets :
       /\ IsFiniteSet(DOMAIN d.rows)
       /\ \A i \in DOMAIN d.rows : IsDocument(d.rows[i]) /\ d.rows[i].is_hidden = FALSE
  /\ \A u \in Patches :
       /\ u.id # Nil /\ u.subset # AnySubset /\ IsRecord(u.patch)
       /\ "categories" \in DOMAIN u.patch => u.patch.categories # {}
  /\ \A c \in Conditions : c.subset # AnySubset
  /\ \A new \in PointSets :
       IsFiniteSet(DOMAIN new) /\ \A p \in DOMAIN new : p = [name |-> p.name, time |-> p.time] /\ p.time \in Nat
  /\ \A q \in Searches : q.begin \in Nat /\ (q.end # Nil => q.end \in Nat /\ q.begin < q.end)

VARIABLES sqlCache, mongoCache, redisCache, proxiedCache, popped, calls

cacheVars == <<sqlCache, mongoCache, redisCache, proxiedCache, popped, calls>>

SC == INSTANCE SQLCache
MC == INSTANCE MongoCache
RC == INSTANCE RedisCache
PC == INSTANCE ProxyCache

SQLSpec == INSTANCE CacheStore
  WITH values <- sqlCache.values, sets <- sqlCache.sets, queues <- sqlCache.queues,
       docs <- sqlCache.docs, points <- sqlCache.points
MongoSpec == INSTANCE CacheStore
  WITH values <- mongoCache.values, sets <- mongoCache.sets, queues <- mongoCache.queues,
       docs <- mongoCache.docs, points <- mongoCache.points
RedisCacheSpec == INSTANCE CacheStore
  WITH values <- redisCache.values, sets <- redisCache.sets, queues <- redisCache.queues,
       docs <- redisCache.docs, points <- redisCache.points

----------------------------------------------------------------------------
Call(s, m, r, p) ==
  /\ calls < MaxCalls
  /\ calls' = calls + 1
  /\ sqlCache' = s /\ mongoCache' = m /\ redisCache' = r /\ proxiedCache' = p

Changed(s, m, r, p) == Call(s, m, r, p) /\ popped' = Nil

SetValues == \E rows \in ValueBatches :
  Changed(SC!Set(sqlCache, rows), MC!Set(mongoCache, rows), RC!Set(redisCache, rows),
          PC!Set(proxiedCache, rows))

DeleteValue == \E name \in UNION {KeysOf(rows) : rows \in ValueBatches} :
  Changed(SC!Delete(sqlCache, name), MC!Delete(mongoCache, name), RC!Delete(redisCache, name),
          PC!Delete(proxiedCache, name))

SetSet == \E name \in SetNames, m \in SUBSET Members :
  Changed(SC!SetSet(sqlCache, name, m), MC!SetSet(mongoCache, name, m),
          RC!SetSet(redisCache, name, m), PC!SetSet(proxiedCache, name, m))

AddSet == \E name \in SetNames, m \in SUBSET Members :
  Changed(SC!AddSet(sqlCache, name, m), MC!AddSet(mongoCache, name, m),
          RC!AddSet(redisCache, name, m), PC!AddSet(proxiedCache, name, m))

RemSet == \E name \in SetNames, m \in SUBSET Members :
  Changed(SC!RemSet(sqlCache, name, m), MC!RemSet(mongoCache, name, m),
          RC!RemSet(redisCache, name, m), PC!RemSet(proxiedCache, name, m))

Push == \E name \in QueueNames, message \in Messages :
  Changed(SC!Push(sqlCache, name, message), MC!Push(mongoCache, name, message),
          RC!Push(redisCache, name, message), PC!Push(proxiedCache, name, message))

\* One caller pops at a time.  (The messages MongoDB keeps when it is
\* purged are popped before the others.)
Pop == \E name \in QueueNames :
  LET s == SC!Pop(sqlCache, name)
      m == MC!Pop(mongoCache, name)
      r == RC!Pop(redisCache, name)
      p == PC!Pop(proxiedCache, name)
  IN  Call(s.db, m.db, r.db, p.db) /\ popped' = {s.value, r.value, p.value}

AddScores == \E d \in DocumentSets :
  Changed(SC!AddScores(sqlCache, d.collection, d.subset, d.rows),
          MC!AddScores(mongoCache, d.collection, d.subset, d.rows),
          RC!AddScores(redisCache, d.collection, d.subset, d.rows),
          PC!AddScores(proxiedCache, d.collection, d.subset, d.rows))

UpdateScores == \E u \in Patches :
  Changed(SC!UpdateScores(sqlCache, u.collections, u.subset, u.id, u.patch),
          MC!UpdateScores(mongoCache, u.collections, u.subset, u.id, u.patch),
          RC!UpdateScores(redisCache, u.collections, u.subset, u.id, u.patch),
          PC!UpdateScores(proxiedCache, u.collections, u.subset, u.id, u.patch))

DeleteScores == \E c \in Conditions :
  Changed(SC!DeleteScores(sqlCache, c.collections, c), MC!DeleteScores(mongoCache, c.collections, c),
          RC!DeleteScores(redisCache, c.collections, c), PC!DeleteScores(proxiedCache, c.collections, c))

AddTimeSeriesPoints == \E new \in PointSets :
  Changed(SC!AddTimeSeriesPoints(sqlCache, new), MC!AddTimeSeriesPoints(mongoCache, new),
          RC!AddTimeSeriesPoints(redisCache, new), PC!AddTimeSeriesPoints(proxiedCache, new))

\* The proxy does not purge; the master purges the store behind it.
PurgeCache ==
  Changed(SC!Purge(sqlCache), MC!Purge(mongoCache), RC!Purge(redisCache), SC!Purge(proxiedCache))

CacheInit ==
  /\ sqlCache = SC!EmptyCache(QueueNames) /\ mongoCache = SC!EmptyCache(QueueNames)
  /\ redisCache = SC!EmptyCache(QueueNames) /\ proxiedCache = SC!EmptyCache(QueueNames)
  /\ popped = Nil /\ calls = 0

CacheNext ==
  \/ SetValues \/ DeleteValue \/ SetSet \/ AddSet \/ RemSet \/ Push \/ Pop
  \/ AddScores \/ UpdateScores \/ DeleteScores \/ AddTimeSeriesPoints \/ PurgeCache

CacheSpec == CacheInit /\ [][CacheNext]_cacheVars

----------------------------------------------------------------------------
(***************************************************************************)
(* Properties.                                                             *)
(***************************************************************************)

\* Every store does what the interface promises (cache/database.go).
StoresImplementCache == SQLSpec!Spec /\ MongoSpec!Spec /\ RedisCacheSpec!Spec

\* The stores answer alike.  The documents of one key differ in nothing but
\* is_hidden, which SQL keeps when a document is written again: what is
\* hidden elsewhere is hidden there.  While the documents are the same, so
\* are the answers to a search, but that Redis takes the empty subset for
\* any, and bounds what a search without end answers; the points of a time
\* are the same up to the number Redis answers.
Visible(row) == [row EXCEPT !.is_hidden = FALSE]
SameButHidden(strict, lax) ==
  /\ DOMAIN strict = DOMAIN lax
  /\ \A k \in DOMAIN lax : Visible(strict[k]) = Visible(lax[k])
                             /\ (lax[k].is_hidden => strict[k].is_hidden)

SameSearch(q) ==
  LET answers == SC!SearchScores(sqlCache, q.collection, q.subset, q.query, q.begin, q.end)
  IN  /\ MC!SearchScores(mongoCache, q.collection, q.subset, q.query, q.begin, q.end) = answers
      /\ q.subset # AnySubset =>
           RC!SearchScores(redisCache, q.collection, q.subset, q.query, q.begin, q.end)
             = IF q.end = Nil
                 THEN SC!SearchScores(sqlCache, q.collection, q.subset, q.query, q.begin,
                                      q.begin + PageLimit)
                 ELSE answers

SamePoints(name, begin, end) ==
  LET points == SC!GetTimeSeriesPoints(sqlCache, name, begin, end)
      shown == RC!GetTimeSeriesPoints(redisCache, name, begin, end)
  IN  /\ MC!GetTimeSeriesPoints(mongoCache, name, begin, end) \subseteq points
      /\ shown \subseteq points
      /\ redisCache.points = sqlCache.points =>
           shown = points \/ Cardinality(shown) = DefaultRows

CachesAgree ==
  /\ popped # Nil => Cardinality(popped) = 1
  /\ redisCache.queues = sqlCache.queues
  /\ SameButHidden(sqlCache.docs, mongoCache.docs)
  /\ mongoCache.docs = redisCache.docs
  /\ sqlCache.docs = mongoCache.docs => \A q \in Searches : SameSearch(q)
  /\ \A name \in {p.name : p \in DOMAIN sqlCache.points}, begin, end \in 0 .. 3 :
       SamePoints(name, begin, end)

\* The cache behind the proxy is the cache that is called directly, and it
\* answers alike.  (Categories that a patch empties would not get through;
\* no patch does, since the callers add the wild card.)
ProxiedCacheAgrees ==
  /\ proxiedCache = sqlCache
  /\ \A name \in SetNames : PC!GetSet(proxiedCache, name) = SC!GetSet(sqlCache, name)
  /\ \A name \in QueueNames : PC!Remain(proxiedCache, name) = RC!Remain(redisCache, name)
  /\ \A name \in UNION {KeysOf(rows) : rows \in ValueBatches} :
       PC!Get(proxiedCache, name) = SC!Get(sqlCache, name)
  /\ \A q \in Searches :
       PC!SearchScores(proxiedCache, q.collection, q.subset, q.query, q.begin, q.end)
         = SC!SearchScores(proxiedCache, q.collection, q.subset, q.query, q.begin, q.end)
=============================================================================
