--------------------------- MODULE MongoDataStore ---------------------------
(***************************************************************************)
(* storage/data/mongodb.go: each operation as a function of the            *)
(* collections, which are the tables of SQLDataStore.  Batches are bulk    *)
(* writes of upserts in order; times are compared with $gt where SQL       *)
(* compares with >=.                                                       *)
(***************************************************************************)
EXTENDS StoreRows

CONSTANTS Now, BlankUser, BlankItem

Purge(db) == [db EXCEPT !.items = EmptyTable, !.feedback = EmptyTable, !.users = EmptyTable]

\* Each upsert sets all fields, so the last row of a key stays.
BatchInsertItems(db, rows) == [db EXCEPT !.items = Over(LastRows(rows), @)]

BatchGetItems(db, ids) == [i \in ids \cap DOMAIN db.items |-> db.items[i]]

ModifyItem(db, i, patch) ==
  IF i \in DOMAIN db.items THEN [db EXCEPT !.items[i] = Over(patch, @)] ELSE db

DeleteItem(db, i) ==
  [db EXCEPT !.items = Without(@, {i}),
             !.feedback = Without(@, {k \in DOMAIN @ : k.item = i})]

GetItem(db, i) == IF i \in DOMAIN db.items THEN db.items[i] ELSE NotFound

\* A full page of n >= 1 rows answers its last key as cursor, even when no
\* row is left.
Page(keys, n, Before(_, _)) ==
  LET rows == FirstKeys(keys, n, Before)
  IN  [cursor |-> IF Cardinality(rows) = n THEN LastKey(rows, Before) ELSE Nil,
       rows |-> rows]

ItemsAfter(db, limit) ==
  {i \in DOMAIN db.items : limit = Nil \/ db.items[i]["timestamp"] > limit}

GetItems(db, cursor, n, limit) ==
  Page({i \in ItemsAfter(db, limit) : cursor = Nil \/ i > cursor}, n, IdBefore)

GetItemStream(db, limit) == [i \in ItemsAfter(db, limit) |-> db.items[i]]

OfTypes(keys, types) == {k \in keys : types = {} \/ k.type \in types}

GetItemFeedback(db, i, types) ==
  {k \in OfTypes(DOMAIN db.feedback, types) : k.item = i /\ db.feedback[k] <= Now}

BatchInsertUsers(db, rows) == [db EXCEPT !.users = Over(LastRows(rows), @)]

ModifyUser(db, u, patch) ==
  IF u \in DOMAIN db.users THEN [db EXCEPT !.users[u] = Over(patch, @)] ELSE db

DeleteUser(db, u) ==
  [db EXCEPT !.users = Without(@, {u}),
             !.feedback = Without(@, {k \in DOMAIN @ : k.user = u})]

GetUser(db, u) == IF u \in DOMAIN db.users THEN db.users[u] ELSE NotFound

GetUsers(db, cursor, n) ==
  Page({u \in DOMAIN db.users : cursor = Nil \/ u > cursor}, n, IdBefore)

GetUserStream(db) == db.users

\* Bug: the end time is not asked for.
GetUserFeedbackEver(db, u, end, types) ==
  {k \in OfTypes(DOMAIN db.feedback, types) : k.user = u}

GetUserFeedback(db, u, end, types) ==
  {k \in OfTypes(DOMAIN db.feedback, types) :
     k.user = u /\ (end = Nil \/ db.feedback[k] <= end)}

\* New users and items are upserted with $setOnInsert, or asked for one by
\* one; so are the rows unless they overwrite.
BatchInsertFeedback(db, rows, insertUser, insertItem, overwrite) ==
  LET us == {k.user : k \in KeysOf(rows)}
      is == {k.item : k \in KeysOf(rows)}
      users == IF insertUser THEN Over(db.users, [u \in us |-> BlankUser]) ELSE db.users
      items == IF insertItem THEN Over(db.items, [i \in is |-> BlankItem]) ELSE db.items
      known == {k \in KeysOf(rows) : k.user \in DOMAIN users /\ k.item \in DOMAIN items}
  IN  [users |-> users, items |-> items,
       feedback |-> IF overwrite THEN Over([k \in known |-> LastRows(rows)[k]], db.feedback)
                                 ELSE Over(db.feedback, [k \in known |-> FirstRows(rows)[k]])]

Between(db, k, begin, end) ==
  /\ begin = Nil \/ db.feedback[k] > begin
  /\ end = Nil \/ db.feedback[k] <= end

\* Without a time the condition on the time stamp is the empty document,
\* which no row equals.
GetFeedback(db, cursor, n, begin, end, types) ==
  Page({k \in OfTypes(DOMAIN db.feedback, types) :
          /\ begin # Nil \/ end # Nil
          /\ Between(db, k, begin, end)
          /\ cursor = Nil \/ KeyBefore(cursor, k)}, n, KeyBefore)

GetFeedbackStream(db, scan) ==
  {k \in OfTypes(DOMAIN db.feedback, scan.types) :
     /\ Between(db, k, scan.begin, scan.end)
     /\ scan.beginUser = Nil \/ k.user >= scan.beginUser
     /\ scan.endUser = Nil \/ k.user <= scan.endUser
     /\ scan.beginItem = Nil \/ k.item >= scan.beginItem
     /\ scan.endItem = Nil \/ k.item <= scan.endItem}

GetUserItemFeedback(db, u, i, types) ==
  {k \in OfTypes(DOMAIN db.feedback, types) : k.user = u /\ k.item = i}

DeleteUserItemFeedback(db, u, i, types) ==
  [db EXCEPT !.feedback = Without(@, GetUserItemFeedback(db, u, i, types))]

CountUsers(db) == Cardinality(DOMAIN db.users)
CountItems(db) == Cardinality(DOMAIN db.items)
CountFeedback(db) == Cardinality(DOMAIN db.feedback)
=============================================================================
