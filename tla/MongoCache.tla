----------------------------- MODULE MongoCache -----------------------------
(***************************************************************************)
(* storage/cache/mongodb.go over the tables of SQLCache.  Batches are bulk *)
(* writes of upserts in order.                                             *)
(***************************************************************************)
EXTENDS StoreRows

Scan(db) == DOMAIN db.values \cup DOMAIN db.sets

\* The messages and the points stay.
Purge(db) == [db EXCEPT !.values = EmptyTable, !.sets = EmptyTable, !.docs = EmptyTable]

Set(db, rows) == [db EXCEPT !.values = Over(LastRows(rows), @)]
Get(db, name) == IF name \in DOMAIN db.values THEN db.values[name] ELSE NotFound
Delete(db, name) == [db EXCEPT !.values = Without(@, {name})]

GetSet(db, name) == IF name \in DOMAIN db.sets THEN db.sets[name] ELSE {}
WithMembers(table, name, members) ==
  IF members = {} THEN Without(table, {name}) ELSE Over([n \in {name} |-> members], table)
SetSet(db, name, members) == [db EXCEPT !.sets = WithMembers(@, name, members)]
AddSet(db, name, members) ==
  [db EXCEPT !.sets = WithMembers(@, name, GetSet(db, name) \cup members)]
RemSet(db, name, members) ==
  [db EXCEPT !.sets = WithMembers(@, name, GetSet(db, name) \ members)]

Push(db, name, message) ==
  [db EXCEPT !.queues[name] = Append(Unqueued(@, message), message)]
Remain(db, name) == Len(db.queues[name])
Pop(db, name) ==
  IF Remain(db, name) = 0 THEN [value |-> NotFound, db |-> db]
  ELSE [value |-> Head(db.queues[name]), db |-> [db EXCEPT !.queues[name] = Tail(@)]]

\* All fields are set, is_hidden with them.
AddScores(db, collection, subset, rows) ==
  LET keys == {[collection |-> collection, subset |-> subset, id |-> i] : i \in DOMAIN rows}
  IN  [db EXCEPT !.docs = Over([k \in keys |-> rows[k.id]], @)]

Found(db, collection, subset, query) ==
  {k \in DOMAIN db.docs :
     /\ k.collection = collection /\ k.subset = subset
     /\ ~db.docs[k].is_hidden /\ query \subseteq db.docs[k].categories}

Ranked(db, hits) ==
  {s \in [1 .. Cardinality(hits) -> hits] :
     \A i, j \in DOMAIN s : i < j => /\ s[i] # s[j]
                                     /\ db.docs[s[i]].score >= db.docs[s[j]].score}

\* A limit of 0 documents is none for the driver.
SearchScores(db, collection, subset, query, begin, end) ==
  LET limited == end # Nil /\ end # begin
  IN  {SubSeq(s, begin + 1, IF limited /\ end < Len(s) THEN end ELSE Len(s)) :
         s \in Ranked(db, Found(db, collection, subset, query))}

UpdateScores(db, collections, subset, id, patch) ==
  [db EXCEPT !.docs = [k \in DOMAIN @ |->
     IF k.collection \in collections /\ k.id = id /\ (subset = Nil \/ k.subset = subset)
       THEN Over(patch, @[k]) ELSE @[k]]]

Valid(cond) == cond.subset # Nil \/ cond.id # Nil \/ cond.before # Nil

DeleteScores(db, collections, cond) ==
  LET hits == {k \in DOMAIN db.docs :
                 /\ k.collection \in collections
                 /\ cond.subset = Nil \/ k.subset = cond.subset
                 /\ cond.id = Nil \/ k.id = cond.id
                 /\ cond.before = Nil \/ db.docs[k].timestamp < cond.before}
  IN  IF Valid(cond) THEN [db EXCEPT !.docs = Without(@, hits)] ELSE db

AddTimeSeriesPoints(db, new) == [db EXCEPT !.points = Over(new, @)]
GetTimeSeriesPoints(db, name, begin, end) ==
  {p \in DOMAIN db.points : p.name = name /\ p.time >= begin /\ p.time < end}
=============================================================================
