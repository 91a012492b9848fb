----------------------------- MODULE DataStores -----------------------------
(***************************************************************************)
(* The three implementations of the data store under the same calls: the   *)
(* SQL store, the MongoDB store, and the SQL store behind the proxy.  A    *)
(* call is one step here; the steps of a call are in RestServer.  While    *)
(* calls go on a reader goes through one table page by page; the reader    *)
(* changes no table, so what queries answer is judged when it is idle.     *)
(*                                                                         *)
(* Definitions marked "Bug:" in the modules of the stores are not part of  *)
(* the model; each breaks a property when it replaces the one after it.    *)
(***************************************************************************)
EXTENDS StoreRows

CONSTANTS
  Now, BlankUser, BlankItem,
  UserBatches, ItemBatches, FeedbackBatches, UserPatches, ItemPatches,
  FeedbackTypes, Times, Scans,
  PageSizes,    \* sizes of the pages the reader asks for
  MaxWrites     \* bound: calls that write

ASSUME StoresAssumption == PageSizes \subseteq Nat \ {0} /\ Now \in Nat /\ MaxWrites \in Nat

\* UTC and a zone ahead of it.
Zones == {0, 1}

\* Names and times are numbers, in the order of the stores.
FeedbackKeys == [type : Nat, user : Nat, item : Nat]
IsTimed(row) == IsRecord(row) /\ "timestamp" \in DOMAIN row /\ row["timestamp"] \in Nat

ASSUME RowsAssumption ==
  /\ Nil \notin Nat \cup FeedbackKeys \cup [at : Times, ahead : Zones] /\ Times \subseteq Nat
  /\ IsRecord(BlankUser) /\ IsTimed(BlankItem)
  /\ \A rows \in UserBatches \cup ItemBatches : IsBatch(rows) /\ KeysOf(rows) \subseteq Nat
  /\ \A rows \in FeedbackBatches : IsBatch(rows) /\ KeysOf(rows) \subseteq FeedbackKeys
  /\ \A rows \in UserBatches : \A j \in DOMAIN rows : IsRecord(rows[j].row)
  /\ \A rows \in ItemBatches : \A j \in DOMAIN rows : IsTimed(rows[j].row)
  /\ \A rows \in FeedbackBatches : \A j \in DOMAIN rows : rows[j].row \in Nat
  /\ \A patch \in ItemPatches : "timestamp" \in DOMAIN patch => patch["timestamp"] \in Nat

VARIABLES
  sql, mongo, proxied, \* [users, items, feedback] of each store
  scan,                \* the reader: under the kind of its table [n, sql, mongo]
  writes               \* counter for the bound

dataVars == <<sql, mongo, proxied, scan, writes>>

SQL == INSTANCE SQLDataStore
Mongo == INSTANCE MongoDataStore
Proxy == INSTANCE ProxyDataStore

SQLStore == INSTANCE DataStore
  WITH users <- sql.users, items <- sql.items, feedback <- sql.feedback
MongoStore == INSTANCE DataStore
  WITH users <- mongo.users, items <- mongo.items, feedback <- mongo.feedback

UserIds == SQLStore!UserIds
ItemIds == SQLStore!ItemIds

----------------------------------------------------------------------------
(***************************************************************************)
(* The reader of the pages of a table.  It remembers the keys it has seen, *)
(* whether a key came twice, and those that were there all the time.       *)
(***************************************************************************)
NoScan == [none |-> Nil]

Listed(db, kind) ==
  CASE kind = "users" -> DOMAIN db.users
    [] kind = "items" -> DOMAIN db.items
    [] kind = "feedback" -> {k \in DOMAIN db.feedback : db.feedback[k] <= Now}

Begun(db, kind) ==
  [cursor |-> Nil, open |-> TRUE, seen |-> {}, twice |-> FALSE, stable |-> Listed(db, kind)]

Turned(reader, page) ==
  [reader EXCEPT !.cursor = page.cursor, !.open = page.cursor # Nil,
                 !.seen = @ \cup page.rows, !.twice = @ \/ reader.seen \cap page.rows # {}]

SQLPage(kind, cursor, n) ==
  CASE kind = "users" -> SQL!GetUsers(sql, cursor, n)
    [] kind = "items" -> SQL!GetItems(sql, cursor, n, Nil)
    [] kind = "feedback" -> SQL!GetFeedback(sql, cursor, n, Nil, Now, {})

MongoPage(kind, cursor, n) ==
  CASE kind = "users" -> Mongo!GetUsers(mongo, cursor, n)
    [] kind = "items" -> Mongo!GetItems(mongo, cursor, n, Nil)
    [] kind = "feedback" -> Mongo!GetFeedback(mongo, cursor, n, Nil, Now, {})

BeginScan ==
  /\ scan = NoScan
  /\ \E kind \in {"users", "items", "feedback"}, n \in PageSizes :
       scan' = [k \in {kind} |-> [n |-> n, sql |-> Begun(sql, kind), mongo |-> Begun(mongo, kind)]]
  /\ UNCHANGED <<sql, mongo, proxied, writes>>

TurnPage ==
  /\ scan # NoScan
  /\ \E kind \in DOMAIN scan :
       LET r == scan[kind]
       IN  /\ r.sql.open \/ r.mongo.open
           /\ scan' = [scan EXCEPT
                ![kind].sql = IF @.open THEN Turned(@, SQLPage(kind, @.cursor, r.n)) ELSE @,
                ![kind].mongo = IF @.open THEN Turned(@, MongoPage(kind, @.cursor, r.n)) ELSE @]
  /\ UNCHANGED <<sql, mongo, proxied, writes>>

EndScan ==
  /\ scan # NoScan
  /\ \A kind \in DOMAIN scan : ~scan[kind].sql.open /\ ~scan[kind].mongo.open
  /\ scan' = NoScan
  /\ UNCHANGED <<sql, mongo, proxied, writes>>

StillThere(reader, db, kind) ==
  IF reader.open THEN [reader EXCEPT !.stable = @ \cap Listed(db, kind)] ELSE reader

Watched(s, m) ==
  IF scan = NoScan THEN scan
  ELSE [kind \in DOMAIN scan |->
          [scan[kind] EXCEPT !.sql = StillThere(@, s, kind), !.mongo = StillThere(@, m, kind)]]

----------------------------------------------------------------------------
Write(s, m, p) ==
  /\ writes < MaxWrites
  /\ writes' = writes + 1
  /\ sql' = s /\ mongo' = m /\ proxied' = p
  /\ scan' = Watched(s, m)

InsertUsers == \E rows \in UserBatches :
  Write(SQL!BatchInsertUsers(sql, rows), Mongo!BatchInsertUsers(mongo, rows),
        Proxy!BatchInsertUsers(proxied, rows))

InsertItems == \E rows \in ItemBatches :
  Write(SQL!BatchInsertItems(sql, rows), Mongo!BatchInsertItems(mongo, rows),
        Proxy!BatchInsertItems(proxied, rows))

InsertFeedback == \E rows \in FeedbackBatches, iu, ii, ow \in BOOLEAN :
  Write(SQL!BatchInsertFeedback(sql, rows, iu, ii, ow),
        Mongo!BatchInsertFeedback(mongo, rows, iu, ii, ow),
        Proxy!BatchInsertFeedback(proxied, rows, iu, ii, ow))

ModifyUser == \E u \in UserIds, patch \in UserPatches :
  Write(SQL!ModifyUser(sql, u, patch), Mongo!ModifyUser(mongo, u, patch),
        Proxy!ModifyUser(proxied, u, patch))

ModifyItem == \E i \in ItemIds, patch \in ItemPatches :
  Write(SQL!ModifyItem(sql, i, patch), Mongo!ModifyItem(mongo, i, patch),
        Proxy!ModifyItem(proxied, i, patch))

DeleteUser == \E u \in UserIds :
  Write(SQL!DeleteUser(sql, u), Mongo!DeleteUser(mongo, u), Proxy!DeleteUser(proxied, u))

DeleteItem == \E i \in ItemIds :
  Write(SQL!DeleteItem(sql, i), Mongo!DeleteItem(mongo, i), Proxy!DeleteItem(proxied, i))

DeleteFeedback == \E u \in UserIds, i \in ItemIds, types \in FeedbackTypes :
  Write(SQL!DeleteUserItemFeedback(sql, u, i, types),
        Mongo!DeleteUserItemFeedback(mongo, u, i, types),
        Proxy!DeleteUserItemFeedback(proxied, u, i, types))

\* The proxy does not purge; the master purges the store behind it.
Purge == Write(SQL!Purge(sql), Mongo!Purge(mongo), SQL!Purge(proxied))

Init ==
  /\ sql = SQL!EmptyStore /\ mongo = SQL!EmptyStore /\ proxied = SQL!EmptyStore
  /\ scan = NoScan /\ writes = 0

Next ==
  \/ InsertUsers \/ InsertItems \/ InsertFeedback \/ ModifyUser \/ ModifyItem
  \/ DeleteUser \/ DeleteItem \/ DeleteFeedback \/ Purge
  \/ BeginScan \/ TurnPage \/ EndScan

Spec == Init /\ [][Next]_dataVars

----------------------------------------------------------------------------
(***************************************************************************)
(* Properties.                                                             *)
(***************************************************************************)

\* Reading a table page by page (GetUsers, GetItems, GetFeedback) while
\* rows come and go shows every row that is there all the time, and none
\* twice: SQL asks from the first key it left out, MongoDB after the last
\* one it showed.
Complete(reader) == ~reader.twice /\ (reader.open \/ reader.stable \subseteq reader.seen)
ScansAreComplete ==
  scan # NoScan => \A kind \in DOMAIN scan : Complete(scan[kind].sql) /\ Complete(scan[kind].mongo)

\* What a scan shows since a time includes what is stamped with that time
\* (WithBeginTime, data/database.go 215; master/tasks.go 1438 passes it).
BeginTimeIsIncluded ==
  \A t \in Times :
    LET o == SQL!NewScanOptions([begin |-> t])
    IN  /\ {k \in DOMAIN sql.feedback : sql.feedback[k] = t} \subseteq SQL!GetFeedbackStream(sql, o)
        /\ {k \in DOMAIN mongo.feedback : mongo.feedback[k] = t} \subseteq Mongo!GetFeedbackStream(mongo, o)

\* Given the same rows, MongoDB answers the queries like SQL.  Nothing is
\* said of rows stamped exactly with the beginning of the time asked for,
\* on which the stores disagree (BeginTimeIsIncluded), of pages of feedback
\* without any time, and of items since a time outside UTC.
NotAt(keys, table, limit) == {k \in keys : table[k] # limit}

QueriesAgree ==
  LET Filters == FeedbackTypes \X UserIds \X ItemIds \X (Times \cup {Nil})
      ItemTimes == [i \in DOMAIN sql.items |-> sql.items[i]["timestamp"]]
  IN  scan = NoScan /\ sql = mongo =>
        /\ \A f \in Filters :
             /\ SQL!GetItemFeedback(sql, f[3], f[1]) = Mongo!GetItemFeedback(mongo, f[3], f[1])
             /\ SQL!GetUserFeedback(sql, f[2], f[4], f[1])
                  = Mongo!GetUserFeedback(mongo, f[2], f[4], f[1])
             /\ SQL!GetUserItemFeedback(sql, f[2], f[3], f[1])
                  = Mongo!GetUserItemFeedback(mongo, f[2], f[3], f[1])
        /\ \A t \in Times \cup {Nil} :
             /\ NotAt(DOMAIN SQL!GetItemStream(sql, SQL!Limit(t, 0)), ItemTimes, t)
                  = NotAt(DOMAIN Mongo!GetItemStream(mongo, t), ItemTimes, t)
             /\ \A opts \in Scans :
                  LET o == SQL!NewScanOptions(Over([begin |-> t], opts))
                  IN  NotAt(SQL!GetFeedbackStream(sql, o), sql.feedback, t)
                        = NotAt(Mongo!GetFeedbackStream(mongo, o), sql.feedback, t)
        /\ \A u \in UserIds : SQL!GetUser(sql, u) = Mongo!GetUser(mongo, u)
        /\ \A i \in ItemIds :
             /\ SQL!GetItem(sql, i) = Mongo!GetItem(mongo, i)
             /\ SQL!BatchGetItems(sql, {i}) = Mongo!BatchGetItems(mongo, {i})
        /\ SQL!GetUserStream(sql) = Mongo!GetUserStream(mongo)
        /\ <<SQL!CountUsers(sql), SQL!CountItems(sql), SQL!CountFeedback(sql)>>
             = <<Mongo!CountUsers(mongo), Mongo!CountItems(mongo), Mongo!CountFeedback(mongo)>>

\* The proxy answers what the store behind it answers (proxy.go), whatever
\* travels between them; a limit of items counts in UTC there, whatever its
\* zone, and a stream of items has none.
ProxyIsTransparent ==
  scan = NoScan =>
  /\ \A i \in ItemIds, types \in FeedbackTypes :
       /\ Proxy!GetItem(proxied, i) = SQL!GetItem(proxied, i)
       /\ Proxy!BatchGetItems(proxied, {i}) = SQL!BatchGetItems(proxied, {i})
       /\ Proxy!GetItemFeedback(proxied, i, types) = SQL!GetItemFeedback(proxied, i, types)
  /\ \A u \in UserIds, t \in Times \cup {Nil}, types \in FeedbackTypes :
       /\ Proxy!GetUser(proxied, u) = SQL!GetUser(proxied, u)
       /\ Proxy!GetUserFeedback(proxied, u, t, types) = SQL!GetUserFeedback(proxied, u, t, types)
       /\ \A i \in ItemIds : Proxy!GetUserItemFeedback(proxied, u, i, types)
                               = SQL!GetUserItemFeedback(proxied, u, i, types)
  /\ \A n \in PageSizes, t \in Times \cup {Nil} :
       /\ \A ahead \in Zones :
            Proxy!GetItems(proxied, Nil, n, SQL!Limit(t, ahead))
              = SQL!GetItems(proxied, Nil, n, SQL!Limit(t, 0))
       /\ Proxy!GetFeedback(proxied, Nil, n, t, Nil, {}) = SQL!GetFeedback(proxied, Nil, n, t, Nil, {})
       /\ Proxy!GetUsers(proxied, Nil, n) = SQL!GetUsers(proxied, Nil, n)
  /\ \A opts \in Scans :
       Proxy!GetFeedbackStream(proxied, SQL!NewScanOptions(opts))
         = SQL!GetFeedbackStream(proxied, SQL!NewScanOptions(opts))
  /\ Proxy!GetUserStream(proxied) = SQL!GetUserStream(proxied)
  /\ \A t \in Times \cup {Nil} : Proxy!GetItemStream(proxied, t) = SQL!GetItemStream(proxied, Nil)
  /\ <<Proxy!CountUsers(proxied), Proxy!CountItems(proxied), Proxy!CountFeedback(proxied)>>
       = <<SQL!CountUsers(proxied), SQL!CountItems(proxied), SQL!CountFeedback(proxied)>>

\* The same calls leave the store behind the proxy with the rows of a store
\* that is called directly, but for a list that a patch empties: the empty
\* list does not arrive, and the old one stays until it is written again.
Cleared(direct, other) ==
  \A f \in DOMAIN direct : direct[f] = other[f] \/ (f \in Proxy!Lists /\ direct[f] = {})
ProxyLosesOnlyEmptyLists ==
  /\ proxied.feedback = sql.feedback
  /\ DOMAIN proxied.users = DOMAIN sql.users /\ DOMAIN proxied.items = DOMAIN sql.items
  /\ \A u \in DOMAIN sql.users : Cleared(sql.users[u], proxied.users[u])
  /\ \A i \in DOMAIN sql.items : Cleared(sql.items[i], proxied.items[i])

\* Both stores do what the interface promises (database.go).
StoresImplementDatabase == SQLStore!Spec /\ MongoStore!Spec
=============================================================================
