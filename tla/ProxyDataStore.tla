--------------------------- MODULE ProxyDataStore ---------------------------
(***************************************************************************)
(* storage/data/proxy.go: ProxyClient, through which servers and workers   *)
(* reach the master's SQLite store, and ProxyServer, which answers it.  A  *)
(* message keeps whether a scalar of a patch is set, but an empty list is  *)
(* no list; labels travel as JSON; what is not found travels as no item.   *)
(* Definitions named Serve... are the server's side.                       *)
(***************************************************************************)
EXTENDS StoreRows

CONSTANTS Now, BlankUser, BlankItem

Store == INSTANCE SQLDataStore

Encode(row) == [f \in DOMAIN row |-> IF f = "labels" THEN [json |-> row[f]] ELSE row[f]]
Decode(row) == [f \in DOMAIN row |-> IF f = "labels" THEN row[f].json ELSE row[f]]

Lists == {"categories", "subscribe"}

EncodePatch(patch) ==
  Encode([f \in {g \in DOMAIN patch : g \in Lists => patch[g] # {}} |-> patch[f]])

EncodeRows(rows) == [j \in DOMAIN rows |-> [key |-> rows[j].key, row |-> Encode(rows[j].row)]]
DecodeRows(rows) == [j \in DOMAIN rows |-> [key |-> rows[j].key, row |-> Decode(rows[j].row)]]
EncodeTable(table) == [k \in DOMAIN table |-> Encode(table[k])]
DecodeTable(table) == [k \in DOMAIN table |-> Decode(table[k])]

----------------------------------------------------------------------------
ServeBatchInsertItems(db, in) == Store!BatchInsertItems(db, DecodeRows(in.items))
BatchInsertItems(db, rows) == ServeBatchInsertItems(db, [items |-> EncodeRows(rows)])

ServeBatchGetItems(db, in) == [items |-> EncodeTable(Store!BatchGetItems(db, in.itemIds))]
BatchGetItems(db, ids) == DecodeTable(ServeBatchGetItems(db, [itemIds |-> ids]).items)

ServeDeleteItem(db, in) == Store!DeleteItem(db, in.itemId)
DeleteItem(db, i) == ServeDeleteItem(db, [itemId |-> i])

ServeGetItem(db, in) ==
  LET item == Store!GetItem(db, in.itemId)
  IN  [item |-> IF item = NotFound THEN <<>> ELSE <<Encode(item)>>]
GetItem(db, i) ==
  LET resp == ServeGetItem(db, [itemId |-> i])
  IN  IF resp.item = <<>> THEN NotFound ELSE Decode(resp.item[1])

ServeModifyItem(db, in) == Store!ModifyItem(db, in.itemId, Decode(in.patch))
ModifyItem(db, i, patch) == ServeModifyItem(db, [itemId |-> i, patch |-> EncodePatch(patch)])

\* A time travels as an instant and arrives in UTC.
ServeGetItems(db, in) ==
  Store!GetItems(db, in.cursor, in.n, Store!Limit(in.beginTime, 0))
GetItems(db, cursor, n, limit) ==
  ServeGetItems(db, [cursor |-> cursor, n |-> n,
                     beginTime |-> IF limit = Nil THEN Nil ELSE limit.at])

\* Bug: the server does not pass the types on.
ServeGetItemFeedbackUntyped(db, in) == Store!GetItemFeedback(db, in.itemId, {})

ServeGetItemFeedback(db, in) == Store!GetItemFeedback(db, in.itemId, in.feedbackTypes)
GetItemFeedback(db, i, types) ==
  ServeGetItemFeedback(db, [itemId |-> i, feedbackTypes |-> types])

ServeBatchInsertUsers(db, in) == Store!BatchInsertUsers(db, DecodeRows(in.users))
BatchInsertUsers(db, rows) == ServeBatchInsertUsers(db, [users |-> EncodeRows(rows)])

ServeDeleteUser(db, in) == Store!DeleteUser(db, in.userId)
DeleteUser(db, u) == ServeDeleteUser(db, [userId |-> u])

ServeGetUser(db, in) ==
  LET user == Store!GetUser(db, in.userId)
  IN  [user |-> IF user = NotFound THEN <<>> ELSE <<Encode(user)>>]
GetUser(db, u) ==
  LET resp == ServeGetUser(db, [userId |-> u])
  IN  IF resp.user = <<>> THEN NotFound ELSE Decode(resp.user[1])

ServeModifyUser(db, in) == Store!ModifyUser(db, in.userId, Decode(in.patch))
ModifyUser(db, u, patch) == ServeModifyUser(db, [userId |-> u, patch |-> EncodePatch(patch)])

ServeGetUsers(db, in) == Store!GetUsers(db, in.cursor, in.n)
GetUsers(db, cursor, n) == ServeGetUsers(db, [cursor |-> cursor, n |-> n])

ServeGetUserFeedback(db, in) ==
  Store!GetUserFeedback(db, in.userId, in.endTime, in.feedbackTypes)
GetUserFeedback(db, u, end, types) ==
  ServeGetUserFeedback(db, [userId |-> u, endTime |-> end, feedbackTypes |-> types])

ServeGetUserItemFeedback(db, in) ==
  Store!GetUserItemFeedback(db, in.userId, in.itemId, in.feedbackTypes)
GetUserItemFeedback(db, u, i, types) ==
  ServeGetUserItemFeedback(db, [userId |-> u, itemId |-> i, feedbackTypes |-> types])

ServeDeleteUserItemFeedback(db, in) ==
  Store!DeleteUserItemFeedback(db, in.userId, in.itemId, in.feedbackTypes)
DeleteUserItemFeedback(db, u, i, types) ==
  ServeDeleteUserItemFeedback(db, [userId |-> u, itemId |-> i, feedbackTypes |-> types])

ServeBatchInsertFeedback(db, in) ==
  Store!BatchInsertFeedback(db, in.feedback, in.insertUser, in.insertItem, in.overwrite)
BatchInsertFeedback(db, rows, insertUser, insertItem, overwrite) ==
  ServeBatchInsertFeedback(db, [feedback |-> rows, insertUser |-> insertUser,
                                insertItem |-> insertItem, overwrite |-> overwrite])

ServeGetFeedback(db, in) ==
  Store!GetFeedback(db, in.cursor, in.n, in.beginTime, in.endTime, in.feedbackTypes)
GetFeedback(db, cursor, n, begin, end, types) ==
  ServeGetFeedback(db, [cursor |-> cursor, n |-> n, beginTime |-> begin,
                        endTime |-> end, feedbackTypes |-> types])

ServeGetUserStream(db) == EncodeTable(Store!GetUserStream(db))
GetUserStream(db) == DecodeTable(ServeGetUserStream(db))

\* The client's request leaves the time limit out.
ServeGetItemStream(db, in) == EncodeTable(Store!GetItemStream(db, in.timeLimit))
GetItemStream(db, limit) == DecodeTable(ServeGetItemStream(db, [timeLimit |-> Nil]))

\* The server gives NewScanOptions the options that are set.
ServeGetFeedbackStream(db, in) ==
  LET set == {o \in DOMAIN in : o # "types" => in[o] # Nil}
  IN  Store!GetFeedbackStream(db, Store!NewScanOptions([o \in set |-> in[o]]))
GetFeedbackStream(db, scan) == ServeGetFeedbackStream(db, scan)

ServeCountUsers(db) == [count |-> Store!CountUsers(db)]
CountUsers(db) == ServeCountUsers(db).count
ServeCountItems(db) == [count |-> Store!CountItems(db)]
CountItems(db) == ServeCountItems(db).count
ServeCountFeedback(db) == [count |-> Store!CountFeedback(db)]
CountFeedback(db) == ServeCountFeedback(db).count
=============================================================================
