------------------------------ MODULE SQLCache ------------------------------
(***************************************************************************)
(* storage/cache/sql.go: each operation as a function of the tables        *)
(* [values, sets, queues, docs, points].  A queue is the sequence of its   *)
(* messages in the order of their time stamps.  Statements that SetSet     *)
(* issues one after the other have names of their own.                     *)
(***************************************************************************)
EXTENDS StoreRows

EmptyCache(queueNames) ==
  [values |-> EmptyTable, sets |-> EmptyTable, docs |-> EmptyTable, points |-> EmptyTable,
   queues |-> [name \in queueNames |-> <<>>]]

\* Values, and the name of each set once.
Scan(db) == DOMAIN db.values \cup DOMAIN db.sets

\* The points stay.
Purge(db) ==
  [db EXCEPT !.values = EmptyTable, !.sets = EmptyTable,
             !.queues = [name \in DOMAIN @ |-> <<>>], !.docs = EmptyTable]

Set(db, rows) == [db EXCEPT !.values = Over(FirstRows(rows), @)]
Get(db, name) == IF name \in DOMAIN db.values THEN db.values[name] ELSE NotFound
Delete(db, name) == [db EXCEPT !.values = Without(@, {name})]

GetSet(db, name) == IF name \in DOMAIN db.sets THEN db.sets[name] ELSE {}

WithMembers(table, name, members) ==
  IF members = {} THEN Without(table, {name}) ELSE Over([n \in {name} |-> members], table)

\* Two statements.
ClearSet(db, name) == [db EXCEPT !.sets = Without(@, {name})]
AddSet(db, name, members) ==
  [db EXCEPT !.sets = WithMembers(@, name, GetSet(db, name) \cup members)]
SetSet(db, name, members) == AddSet(ClearSet(db, name), name, members)
RemSet(db, name, members) ==
  [db EXCEPT !.sets = WithMembers(@, name, GetSet(db, name) \ members)]

\* A message that waits already gets the new time stamp.
Push(db, name, message) ==
  [db EXCEPT !.queues[name] = Append(Unqueued(@, message), message)]
Remain(db, name) == Len(db.queues[name])
\* The oldest message, and the store without it; both statements run
\* outside the transaction that is opened for them.
Oldest(db, name) == IF Remain(db, name) = 0 THEN NotFound ELSE Head(db.queues[name])
DeleteMessage(db, name, message) ==
  [db EXCEPT !.queues[name] = Unqueued(@, message)]
Pop(db, name) ==
  LET message == Oldest(db, name)
  IN  [value |-> message,
       db |-> IF message = NotFound THEN db ELSE DeleteMessage(db, name, message)]

DocKey(collection, subset, id) == [collection |-> collection, subset |-> subset, id |-> id]
DocKeys(collection, subset, rows) == {DocKey(collection, subset, i) : i \in DOMAIN rows}

\* Bug: categories are not among the columns that are updated.
AddScoresKeepingCategories(db, collection, subset, rows) ==
  [db EXCEPT !.docs = Over(
     [k \in DocKeys(collection, subset, rows) |->
        IF k \in DOMAIN db.docs
          THEN [rows[k.id] EXCEPT !.is_hidden = db.docs[k].is_hidden,
                                  !.categories = db.docs[k].categories]
          ELSE rows[k.id]], @)]

\* Of a document that is there already all but is_hidden is updated.
AddScores(db, collection, subset, rows) ==
  [db EXCEPT !.docs = Over(
     [k \in DocKeys(collection, subset, rows) |->
        IF k \in DOMAIN db.docs THEN [rows[k.id] EXCEPT !.is_hidden = db.docs[k].is_hidden]
                                ELSE rows[k.id]], @)]

\* The documents a search finds, and the sequences of ids it may answer:
\* ordered by score, from begin to before end, or to the last.
Found(db, collection, subset, query) ==
  {k \in DOMAIN db.docs :
     /\ k.collection = collection /\ k.subset = subset
     /\ ~db.docs[k].is_hidden /\ query \subseteq db.docs[k].categories}

Ranked(db, hits) ==
  {s \in [1 .. Cardinality(hits) -> hits] :
     \A i, j \in DOMAIN s : i < j => /\ s[i] # s[j]
                                     /\ db.docs[s[i]].score >= db.docs[s[j]].score}

Window(s, begin, end) ==
  SubSeq(s, begin + 1, IF end = Nil \/ end > Len(s) THEN Len(s) ELSE end)

SearchScores(db, collection, subset, query, begin, end) ==
  {Window(s, begin, end) : s \in Ranked(db, Found(db, collection, subset, query))}

\* One statement for each field of the patch.
Matching(db, collections, subset, id) ==
  {k \in DOMAIN db.docs : /\ k.collection \in collections /\ k.id = id
                          /\ subset = Nil \/ k.subset = subset}
UpdateScores(db, collections, subset, id, patch) ==
  LET hits == Matching(db, collections, subset, id)
  IN  [db EXCEPT !.docs = [k \in DOMAIN @ |-> IF k \in hits THEN Over(patch, @[k]) ELSE @[k]]]

\* ScoreCondition.Check
Valid(cond) == cond.subset # Nil \/ cond.id # Nil \/ cond.before # Nil
DeleteScores(db, collections, cond) ==
  LET hits == {k \in DOMAIN db.docs :
                 /\ k.collection \in collections
                 /\ cond.subset = Nil \/ k.subset = cond.subset
                 /\ cond.id = Nil \/ k.id = cond.id
                 /\ cond.before = Nil \/ db.docs[k].timestamp < cond.before}
  IN  IF Valid(cond) THEN [db EXCEPT !.docs = Without(@, hits)] ELSE db

AddTimeSeriesPoints(db, new) == [db EXCEPT !.points = Over(new, @)]
GetTimeSeriesPoints(db, name, begin, end) ==
  {p \in DOMAIN db.points : p.name = name /\ p.time >= begin /\ p.time < end}
=============================================================================
