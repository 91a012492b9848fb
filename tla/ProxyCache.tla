----------------------------- MODULE ProxyCache -----------------------------
(***************************************************************************)
(* storage/cache/proxy.go: ProxyClient, through which servers and workers  *)
(* reach the master's cache when it is SQLite, and ProxyServer (Serve...), *)
(* which answers it.  What is missing travels as no value; the empty list  *)
(* of a patch is no list.  Init, Scan and Purge are refused.               *)
(***************************************************************************)
EXTENDS StoreRows

Store == INSTANCE SQLCache

ServeGet(db, in) ==
  LET value == Store!Get(db, in.name) IN [value |-> IF value = NotFound THEN Nil ELSE value]
Get(db, name) ==
  LET resp == ServeGet(db, [name |-> name])
  IN  IF resp.value = Nil THEN NotFound ELSE resp.value

ServeSet(db, in) == Store!Set(db, in.values)
Set(db, rows) == ServeSet(db, [values |-> rows])
ServeDelete(db, in) == Store!Delete(db, in.name)
Delete(db, name) == ServeDelete(db, [name |-> name])

ServeGetSet(db, in) == [members |-> Store!GetSet(db, in.key)]
GetSet(db, name) == ServeGetSet(db, [key |-> name]).members
ServeSetSet(db, in) == Store!SetSet(db, in.key, in.members)
SetSet(db, name, members) == ServeSetSet(db, [key |-> name, members |-> members])
ServeAddSet(db, in) == Store!AddSet(db, in.key, in.members)
AddSet(db, name, members) == ServeAddSet(db, [key |-> name, members |-> members])
ServeRemSet(db, in) == Store!RemSet(db, in.key, in.members)
RemSet(db, name, members) == ServeRemSet(db, [key |-> name, members |-> members])

ServePush(db, in) == Store!Push(db, in.name, in.value)
Push(db, name, message) == ServePush(db, [name |-> name, value |-> message])
ServePop(db, in) ==
  LET popped == Store!Pop(db, in.name)
  IN  [db |-> popped.db, value |-> IF popped.value = NotFound THEN Nil ELSE popped.value]
Pop(db, name) ==
  LET resp == ServePop(db, [name |-> name])
  IN  [db |-> resp.db, value |-> IF resp.value = Nil THEN NotFound ELSE resp.value]
ServeRemain(db, in) == [count |-> Store!Remain(db, in.name)]
Remain(db, name) == ServeRemain(db, [name |-> name]).count

ServeAddScores(db, in) == Store!AddScores(db, in.collection, in.subset, in.documents)
AddScores(db, collection, subset, rows) ==
  ServeAddScores(db, [collection |-> collection, subset |-> subset, documents |-> rows])

ServeSearchScores(db, in) ==
  [documents |-> Store!SearchScores(db, in.collection, in.subset, in.query, in.begin, in.end)]
SearchScores(db, collection, subset, query, begin, end) ==
  ServeSearchScores(db, [collection |-> collection, subset |-> subset, query |-> query,
                         begin |-> begin, end |-> end]).documents

ServeUpdateScores(db, in) ==
  Store!UpdateScores(db, in.collection, in.subset, in.id, in.patch)
UpdateScores(db, collections, subset, id, patch) ==
  LET sent == {f \in DOMAIN patch : f = "categories" => patch[f] # {}}
  IN  ServeUpdateScores(db, [collection |-> collections, subset |-> subset, id |-> id,
                             patch |-> [f \in sent |-> patch[f]]])

\* The condition is checked before it is sent, and again.
ServeDeleteScores(db, in) == Store!DeleteScores(db, in.collection, in.condition)
DeleteScores(db, collections, cond) ==
  IF Store!Valid(cond)
    THEN ServeDeleteScores(db, [collection |-> collections, condition |-> cond])
    ELSE db

ServeAddTimeSeriesPoints(db, in) == Store!AddTimeSeriesPoints(db, in.points)
AddTimeSeriesPoints(db, new) == ServeAddTimeSeriesPoints(db, [points |-> new])
ServeGetTimeSeriesPoints(db, in) ==
  [points |-> Store!GetTimeSeriesPoints(db, in.name, in.begin, in.end)]
GetTimeSeriesPoints(db, name, begin, end) ==
  ServeGetTimeSeriesPoints(db, [name |-> name, begin |-> begin, end |-> end]).points
=============================================================================
