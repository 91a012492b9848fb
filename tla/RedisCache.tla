----------------------------- MODULE RedisCache -----------------------------
(***************************************************************************)
(* storage/cache/redis.go over the tables of SQLCache.  Values, sets and   *)
(* queues share one space of names, which the callers keep apart.          *)
(* Documents are found by full-text search, which the server bounds.       *)
(* Every document has a category (decodeCategories panics on one that has  *)
(* none), since the callers add the wild card.  A search takes the empty   *)
(* subset for any; an update or a deletion makes a query of it that the    *)
(* server refuses, and returns the error (no caller gives one).            *)
(***************************************************************************)
EXTENDS StoreRows

CONSTANTS
  AnySubset,    \* the empty subset
  PageLimit,    \* documents a search without end answers at most
  DefaultRows   \* rows the server answers when no limit is given

\* Scan visits every key with the prefix, Purge deletes every one.
Scan(db) == DOMAIN db.values \cup DOMAIN db.sets \cup {n \in DOMAIN db.queues : db.queues[n] # <<>>}
                             \cup DOMAIN db.docs \cup DOMAIN db.points
Purge(db) ==
  [values |-> EmptyTable, sets |-> EmptyTable, docs |-> EmptyTable, points |-> EmptyTable,
   queues |-> [name \in DOMAIN db.queues |-> <<>>]]

Set(db, rows) == [db EXCEPT !.values = Over(LastRows(rows), @)]
Get(db, name) == IF name \in DOMAIN db.values THEN db.values[name] ELSE NotFound
\* DEL takes a key of any kind.
Delete(db, name) ==
  [db EXCEPT !.values = Without(@, {name}), !.sets = Without(@, {name})]

GetSet(db, name) == IF name \in DOMAIN db.sets THEN db.sets[name] ELSE {}
WithMembers(table, name, members) ==
  IF members = {} THEN Without(table, {name}) ELSE Over([n \in {name} |-> members], table)

\* Nothing is sent when there is no member: the set stays as it was.
SetSet(db, name, members) ==
  IF members = {} THEN db ELSE [db EXCEPT !.sets = WithMembers(@, name, members)]
AddSet(db, name, members) ==
  [db EXCEPT !.sets = WithMembers(@, name, GetSet(db, name) \cup members)]
RemSet(db, name, members) ==
  [db EXCEPT !.sets = WithMembers(@, name, GetSet(db, name) \ members)]

\* A sorted set by time stamp.
Push(db, name, message) ==
  [db EXCEPT !.queues[name] = Append(Unqueued(@, message), message)]
Remain(db, name) == Len(db.queues[name])
Pop(db, name) ==
  IF Remain(db, name) = 0 THEN [value |-> NotFound, db |-> db]
  ELSE [value |-> Head(db.queues[name]), db |-> [db EXCEPT !.queues[name] = Tail(@)]]

documentKey(collection, subset, id) == [collection |-> collection, subset |-> subset, id |-> id]

\* HSET of all fields, is_hidden with them.
AddScores(db, collection, subset, rows) ==
  LET keys == {documentKey(collection, subset, i) : i \in DOMAIN rows}
  IN  [db EXCEPT !.docs = Over([k \in keys |-> rows[k.id]], @)]

\* The empty subset is no condition here.
Found(db, collection, subset, query) ==
  {k \in DOMAIN db.docs :
     /\ k.collection = collection /\ ~db.docs[k].is_hidden
     /\ subset = AnySubset \/ k.subset = subset
     /\ query \subseteq db.docs[k].categories}

Ranked(db, hits) ==
  {s \in [1 .. Cardinality(hits) -> hits] :
     \A i, j \in DOMAIN s : i < j => /\ s[i] # s[j]
                                     /\ db.docs[s[i]].score >= db.docs[s[j]].score}

\* A window is never empty (begin < end) and never larger than the limit.
SearchScores(db, collection, subset, query, begin, end) ==
  LET stop == IF end = Nil THEN begin + PageLimit ELSE end
  IN  {SubSeq(s, begin + 1, IF stop < Len(s) THEN stop ELSE Len(s)) :
         s \in Ranked(db, Found(db, collection, subset, query))}

\* The query of an update or a deletion, whose pages are in RedisScores;
\* "@subset:{  }" is no query.
Query(docs, collections, cond) ==
  {k \in DOMAIN docs :
     /\ cond.subset # AnySubset
     /\ k.collection \in collections
     /\ cond.subset = Nil \/ k.subset = cond.subset
     /\ cond.id = Nil \/ k.id = cond.id
     /\ cond.before = Nil \/ docs[k].timestamp < cond.before}

\* One page is enough here.
UpdateScores(db, collections, subset, id, patch) ==
  LET hits == Query(db.docs, collections, [subset |-> subset, id |-> id, before |-> Nil])
  IN  [db EXCEPT !.docs = [k \in DOMAIN @ |-> IF k \in hits THEN Over(patch, @[k]) ELSE @[k]]]

DeleteScores(db, collections, cond) ==
  IF cond.subset = Nil /\ cond.id = Nil /\ cond.before = Nil THEN db
  ELSE [db EXCEPT !.docs = Without(@, Query(@, collections, cond))]

AddTimeSeriesPoints(db, new) == [db EXCEPT !.points = Over(new, @)]

\* The first of the points between the times: no limit is given.
GetTimeSeriesPoints(db, name, begin, end) ==
  FirstKeys({p \in DOMAIN db.points : p.name = name /\ p.time >= begin /\ p.time < end},
            DefaultRows, LAMBDA p, q : p.time < q.time)
=============================================================================
