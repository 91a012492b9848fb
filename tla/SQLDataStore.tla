---------------------------- MODULE SQLDataStore ----------------------------
(***************************************************************************)
(* storage/data/sql.go over SQLite, MySQL or PostgreSQL: each operation    *)
(* as a function of the tables.  Comments are left out, labels and         *)
(* subscriptions are one field; ClickHouse, whose tables keep versions, is *)
(* not modelled.  Statements that an operation issues one after the other  *)
(* have names of their own, since nothing holds them together.             *)
(***************************************************************************)
EXTENDS StoreRows

CONSTANTS Now, BlankUser, BlankItem

EmptyStore == [users |-> EmptyTable, items |-> EmptyTable, feedback |-> EmptyTable]

\* Items, feedback and users, in this order, one table after the other.
Purge(db) == [db EXCEPT !.items = EmptyTable, !.feedback = EmptyTable, !.users = EmptyTable]

\* Of the rows of one key the first is sent, and replaces the one stored.
BatchInsertItems(db, rows) == [db EXCEPT !.items = Over(FirstRows(rows), @)]

BatchGetItems(db, ids) == [i \in ids \cap DOMAIN db.items |-> db.items[i]]

\* Two statements.
DeleteItemRow(db, i) == [db EXCEPT !.items = Without(@, {i})]
DeleteItemFeedback(db, i) ==
  [db EXCEPT !.feedback = Without(@, {k \in DOMAIN @ : k.item = i})]
DeleteItem(db, i) == DeleteItemFeedback(DeleteItemRow(db, i), i)

GetItem(db, i) == IF i \in DOMAIN db.items THEN db.items[i] ELSE NotFound

\* An empty patch is ignored, an unknown item is no error.
ModifyItem(db, i, patch) ==
  IF i \in DOMAIN db.items THEN [db EXCEPT !.items[i] = Over(patch, @)] ELSE db

\* One row more than the page is read; its key is the next cursor.
Page(keys, n, Before(_, _)) ==
  LET rows == FirstKeys(keys, n + 1, Before)
      next == LastKey(rows, Before)
  IN  IF Cardinality(rows) = n + 1
        THEN [cursor |-> next, rows |-> rows \ {next}]
        ELSE [cursor |-> Nil, rows |-> rows]

\* A limit is an instant in a zone that is ahead of UTC.  SQLite keeps stamps
\* as text in UTC (339), and the queries of items compare it with the text of
\* the limit in its own zone (468, 501).  The other databases compare
\* instants, as if every limit were in UTC.
Limit(t, ahead) == IF t = Nil THEN Nil ELSE [at |-> t, ahead |-> ahead]
ItemsSince(db, limit) ==
  {i \in DOMAIN db.items :
     limit = Nil \/ db.items[i]["timestamp"] >= limit.at + limit.ahead}

\* Bug: the row of the cursor is skipped, as MongoDB does.
GetItemsAfter(db, cursor, n, limit) ==
  Page({i \in ItemsSince(db, limit) : cursor = Nil \/ i > cursor}, n, IdBefore)

GetItems(db, cursor, n, limit) ==
  Page({i \in ItemsSince(db, limit) : cursor = Nil \/ i >= cursor}, n, IdBefore)

\* A stream answers what one statement reads.
GetItemStream(db, limit) == [i \in ItemsSince(db, limit) |-> db.items[i]]

OfTypes(keys, types) == {k \in keys : types = {} \/ k.type \in types}

GetItemFeedback(db, i, types) ==
  {k \in OfTypes(DOMAIN db.feedback, types) : k.item = i /\ db.feedback[k] <= Now}

BatchInsertUsers(db, rows) == [db EXCEPT !.users = Over(FirstRows(rows), @)]

DeleteUserRow(db, u) == [db EXCEPT !.users = Without(@, {u})]
DeleteUserFeedback(db, u) ==
  [db EXCEPT !.feedback = Without(@, {k \in DOMAIN @ : k.user = u})]
\* Bug: the feedback of the user stays.
DeleteUserOnly(db, u) == DeleteUserRow(db, u)

DeleteUser(db, u) == DeleteUserFeedback(DeleteUserRow(db, u), u)

GetUser(db, u) == IF u \in DOMAIN db.users THEN db.users[u] ELSE NotFound

ModifyUser(db, u, patch) ==
  IF u \in DOMAIN db.users THEN [db EXCEPT !.users[u] = Over(patch, @)] ELSE db

GetUsers(db, cursor, n) ==
  Page({u \in DOMAIN db.users : cursor = Nil \/ u >= cursor}, n, IdBefore)

GetUserStream(db) == db.users

GetUserFeedback(db, u, end, types) ==
  {k \in OfTypes(DOMAIN db.feedback, types) :
     k.user = u /\ (end = Nil \/ db.feedback[k] <= end)}

\* The three steps of BatchInsertFeedback: users and items are inserted
\* where they are missing or asked for one by one, then the rows that name
\* known ones are sent, the first of each key.
InsertMissingUsers(db, ids) ==
  [db EXCEPT !.users = Over(@, [u \in ids |-> BlankUser])]
InsertMissingItems(db, ids) ==
  [db EXCEPT !.items = Over(@, [i \in ids |-> BlankItem])]
InsertFeedback(db, rows, us, is, overwrite) ==
  LET new == [k \in {k \in KeysOf(rows) : k.user \in us /\ k.item \in is} |-> FirstRows(rows)[k]]
  IN  [db EXCEPT !.feedback = IF overwrite THEN Over(new, @) ELSE Over(@, new)]

BatchInsertFeedback(db, rows, insertUser, insertItem, overwrite) ==
  LET us == {k.user : k \in KeysOf(rows)}
      is == {k.item : k \in KeysOf(rows)}
      d1 == IF insertUser THEN InsertMissingUsers(db, us) ELSE db
      d2 == IF insertItem THEN InsertMissingItems(d1, is) ELSE d1
  IN  InsertFeedback(d2, rows, us \cap DOMAIN d2.users, is \cap DOMAIN d2.items, overwrite)

Between(db, k, begin, end) ==
  /\ begin = Nil \/ db.feedback[k] >= begin
  /\ end = Nil \/ db.feedback[k] <= end

GetFeedback(db, cursor, n, begin, end, types) ==
  Page({k \in OfTypes(DOMAIN db.feedback, types) :
          /\ Between(db, k, begin, end)
          /\ cursor = Nil \/ ~KeyBefore(k, cursor)}, n, KeyBefore)

\* The options of a scan are those given; the others are not set.
NewScanOptions(opts) ==
  Over(opts, [begin |-> Nil, end |-> Nil, beginUser |-> Nil, endUser |-> Nil,
              beginItem |-> Nil, endItem |-> Nil, types |-> {}])

GetFeedbackStream(db, scan) ==
  {k \in OfTypes(DOMAIN db.feedback, scan.types) :
     /\ Between(db, k, scan.begin, scan.end)
     /\ scan.beginUser = Nil \/ k.user >= scan.beginUser
     /\ scan.endUser = Nil \/ k.user <= scan.endUser
     /\ scan.beginItem = Nil \/ k.item >= scan.beginItem
     /\ scan.endItem = Nil \/ k.item <= scan.endItem}

GetUserItemFeedback(db, u, i, types) ==
  {k \in OfTypes(DOMAIN db.feedback, types) : k.user = u /\ k.item = i}

DeleteUserItemFeedback(db, u, i, types) ==
  [db EXCEPT !.feedback = Without(@, GetUserItemFeedback(db, u, i, types))]

\* Exact with SQLite; MySQL and PostgreSQL answer an estimate.
CountUsers(db) == Cardinality(DOMAIN db.users)
CountItems(db) == Cardinality(DOMAIN db.items)
CountFeedback(db) == Cardinality(DOMAIN db.feedback)
=============================================================================
