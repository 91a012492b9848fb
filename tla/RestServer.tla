----------------------------- MODULE RestServer -----------------------------
(***************************************************************************)
(* The requests of server/rest.go that change the stores.  A request is a  *)
(* list of calls of the two stores, which other requests, and a failure,   *)
(* may come between; what the handler reads first decides the list.  The   *)
(* answers of the requests that only read are operators.                   *)
(***************************************************************************)
EXTENDS Recommenders

CONSTANTS
  Clients,
  UserTables, ItemTables,     \* sequences of [key, row] to insert
  UserChanges, ItemChanges,   \* [id, patch]
  FeedbackTables,             \* sequences of [key, row]
  AutoInsertUser, AutoInsertItem,   \* configured: feedback brings its user, its item
  Fallback, WriteBackType,    \* configured recommenders; the type a client asks for
  Categories,
  CachedIn,                   \* [collection, subset] the other components fill
  MaxRequests, MaxFailures    \* bounds

VARIABLES
  db, cache,
  todo,        \* [Clients -> the calls that are left]
  known,       \* [Clients -> the users and items an insertion of feedback found or made]
  clock, requests, failures,
  \* what the properties compare with:
  about,       \* [Clients -> what the request is about]
  disturbed,   \* users and items touched by overlapping or failed requests
  owed         \* when an undisturbed request last changed a user or item

serverVars == <<db, cache, todo, known, clock, requests, failures, about, disturbed, owed>>

\* The users and items a request touches, those it leaves as it says
\* whatever was before, whether no other request touched them meanwhile,
\* whether it sets times, and when it then changed what.
NoRequest == [touches |-> {}, resets |-> {}, alone |-> TRUE, stamps |-> FALSE, changed |-> EmptyTable]
NoneKnown == [users |-> {}, items |-> {}]

ItemCache == {"NonPersonalized", "ItemNeighbors", "OfflineRecommend"}

Users == (UNION {KeysOf(t) : t \in UserTables}) \cup {c.id : c \in UserChanges}
           \cup UNION {{k.user : k \in KeysOf(t)} : t \in FeedbackTables}
Items == (UNION {KeysOf(t) : t \in ItemTables}) \cup {c.id : c \in ItemChanges}
           \cup UNION {{k.item : k \in KeysOf(t)} : t \in FeedbackTables}
FeedbackTypes == UNION {{k.type : k \in KeysOf(t)} : t \in FeedbackTables}
UsersIn(t) == {k.user : k \in KeysOf(t)}
ItemsIn(t) == {k.item : k \in KeysOf(t)}

\* Users and items have tables, and times, of their own; here they have
\* different names.  A handler is given one row at least.
ASSUME RestAssumption ==
  /\ Users \cap Items = {}
  /\ \A t \in UserTables \cup ItemTables \cup FeedbackTables :
       t # <<>> /\ t \in Seq({t[j] : j \in DOMAIN t})

\* Items have the fields that are cached of them, and names; what the other
\* components cache is none of the latest items (those are in ItemVisibility).
ItemFields == {"is_hidden", "categories", "timestamp"}
ASSUME CacheAssumption ==
  /\ Nil \notin Items /\ ItemFields \subseteq DOMAIN BlankItem
  /\ \A t \in ItemTables : \A j \in DOMAIN t : ItemFields \subseteq DOMAIN t[j].row
  /\ \A list \in CachedIn : list.collection \in ItemCache /\ list.subset # Latest

----------------------------------------------------------------------------
(* Calls.                                                                  *)

PutUsers(t) == [call |-> "BatchInsertUsers", users |-> t]
PatchUser(u, p) == [call |-> "ModifyUser", user |-> u, userPatch |-> p]
DropUser(u) == [call |-> "DeleteUserRow", dropped |-> u]
DropUserFeedback(u) == [call |-> "DeleteUserFeedback", of |-> u]
PutItems(t) == [call |-> "BatchInsertItems", items |-> t]
PatchItem(i, p) == [call |-> "ModifyItem", item |-> i, itemPatch |-> p]
DropItem(i) == [call |-> "DeleteItemRow", dropped |-> i]
DropItemFeedback(i) == [call |-> "DeleteItemFeedback", of |-> i]
KnowUsers(t, insert) == [call |-> "InsertUsersOfFeedback", feedback |-> t, insertUser |-> insert]
KnowItems(t, insert) == [call |-> "InsertItemsOfFeedback", feedback |-> t, insertItem |-> insert]
PutFeedback(t, overwrite) == [call |-> "InsertFeedback", feedback |-> t, overwrite |-> overwrite]
DropFeedback(u, i, types) == [call |-> "DeleteUserItemFeedback", pair |-> <<u, i>>, types |-> types]
\* time.Now() is called before Set is, and again for every value.
Stamp(ids) == [call |-> "Now", stamped |-> ids]
SetTimes(times) == [call |-> "Set", times |-> times]
AddLatest(i, row) == [call |-> "AddScores", latest |-> i, doc |-> row]
UpdateDocs(collections, subset, i, p) ==
  [call |-> "UpdateScores", collections |-> collections, subset |-> subset, id |-> i, patch |-> p]
DropDocs(i) == [call |-> "DeleteScores", docsOf |-> i]
AddCategories(cs) == [call |-> "AddSet", categories |-> cs]

----------------------------------------------------------------------------
(* Handlers: the calls each makes.                                         *)

\* The calls of one after the other, n of each.
InTurn(s, n) == [k \in 1 .. n * Len(s) |-> s[((k - 1) \div n) + 1][((k - 1) % n) + 1]]

\* Bug: users are not stamped, as if only their labels counted later.
insertUsersUnstamped(t) == <<PutUsers(t)>>
insertUsers(t) == <<PutUsers(t), Stamp(KeysOf(t))>>
insertUser(r) == <<PutUsers(<<r>>), Stamp({r.key})>>
modifyUser(u, p) == <<PatchUser(u, p), Stamp({u})>>
deleteUser(u) == <<DropUser(u), DropUserFeedback(u)>>

\* Item after item goes to the latest items and what is cached of it is
\* updated; then all of them are stored.
CacheItem(r) ==
  <<AddLatest(r.key, [is_hidden |-> FALSE, categories |-> withWildCard(r.row.categories),
                      score |-> r.row.timestamp]),
    UpdateDocs(ItemCache, Nil, r.key, [categories |-> withWildCard(r.row.categories),
                                       is_hidden |-> r.row.is_hidden])>>
batchInsertItems(t) ==
  InTurn([j \in DOMAIN t |-> CacheItem(t[j])], 2)
    \o <<PutItems(t), Stamp(KeysOf(t)), AddCategories(UNION {t[j].row.categories : j \in DOMAIN t})>>
insertItems(t) == batchInsertItems(t)
insertItem(r) == batchInsertItems(<<r>>)

When(condition, call) == IF condition THEN <<call>> ELSE <<>>
Restriction(p, fields) == [f \in DOMAIN p \cap fields |-> p[f]]

\* Bug: the cached categories stay.
modifyItemUncategorized(i, p) ==
  When("is_hidden" \in DOMAIN p, UpdateDocs(ItemCache, Nil, i, Restriction(p, {"is_hidden"})))
    \o <<PatchItem(i, p), Stamp({i})>>

modifyItem(i, p) ==
  When("is_hidden" \in DOMAIN p, UpdateDocs(ItemCache, Nil, i, Restriction(p, {"is_hidden"})))
    \o When("timestamp" \in DOMAIN p,
            UpdateDocs({"NonPersonalized"}, Latest, i, [score |-> p.timestamp]))
    \o When("categories" \in DOMAIN p,
            UpdateDocs(ItemCache, Nil, i, [categories |-> withWildCard(p.categories)]))
    \o <<PatchItem(i, p), Stamp({i})>>
\* Bug: the feedback of the item stays.
deleteItemOnly(i) == <<DropItem(i), DropDocs(i)>>
deleteItem(i) == <<DropItem(i), DropItemFeedback(i), DropDocs(i)>>

\* The item as it is read is written back; nothing is done of an unknown one.
Categorized(i, cs) == [DB!GetItem(db, i) EXCEPT !.categories = cs]
insertItemCategory(i, c) ==
  IF DB!GetItem(db, i) = NotFound THEN <<>>
  ELSE LET cs == DB!GetItem(db, i).categories \cup {c}
       IN  <<PutItems(<<[key |-> i, row |-> Categorized(i, cs)]>>),
             UpdateDocs(ItemCache, Nil, i, [categories |-> withWildCard(cs)])>>
deleteItemCategory(i, c) ==
  IF DB!GetItem(db, i) = NotFound THEN <<>>
  ELSE LET cs == DB!GetItem(db, i).categories \ {c}
       IN  <<UpdateDocs(ItemCache, Nil, i, [categories |-> withWildCard(cs)]),
             PutItems(<<[key |-> i, row |-> Categorized(i, cs)]>>)>>

insertFeedback(t, overwrite) ==
  <<KnowUsers(t, AutoInsertUser), KnowItems(t, AutoInsertItem), PutFeedback(t, overwrite),
    Stamp(UsersIn(t) \cup ItemsIn(t))>>
deleteUserItemFeedback(u, i, types) == <<DropFeedback(u, i, types)>>
\* A recommendation is written back, one item after the other.
WrittenBack(u, i) == <<[key |-> [type |-> WriteBackType, user |-> u, item |-> i], row |-> Now]>>
WriteItemBack(t) == <<KnowUsers(t, FALSE), KnowItems(t, FALSE), PutFeedback(t, FALSE)>>
writeBack(u, answer) ==
  InTurn([j \in DOMAIN answer |-> WriteItemBack(WrittenBack(u, answer[j]))], 3)

----------------------------------------------------------------------------
(* A request begins, makes its calls, and ends or fails.                   *)

Idle(c) == todo[c] = <<>>
Touching(ids) == {d \in Clients : ~Idle(d) /\ about[d].touches \cap ids # {}}

Begin(c, calls, ids, reset, stamps) ==
  /\ Idle(c) /\ requests < MaxRequests
  /\ requests' = requests + 1
  /\ todo' = [todo EXCEPT ![c] = calls]
  /\ about' = [d \in Clients |->
       IF d = c THEN IF calls = <<>> THEN NoRequest ELSE
                     [touches |-> ids, resets |-> reset, alone |-> Touching(ids) = {},
                      stamps |-> stamps, changed |-> EmptyTable]
       ELSE [about[d] EXCEPT !.alone = @ /\ d \notin Touching(ids)]]
  /\ disturbed' = disturbed \cup UNION {about[d].touches \cap ids : d \in Touching(ids)}
  /\ UNCHANGED <<db, cache, known, clock, failures, owed>>

InsertsUsers(c) == \E t \in UserTables :
  \/ Begin(c, insertUsers(t), KeysOf(t), KeysOf(t), TRUE)
  \/ Begin(c, insertUser(t[1]), {t[1].key}, {t[1].key}, TRUE)
ModifiesUser(c) == \E x \in UserChanges :
  Begin(c, modifyUser(x.id, x.patch), {x.id}, {}, TRUE)
DeletesUser(c) == \E u \in Users : Begin(c, deleteUser(u), {u}, {u}, FALSE)
InsertsItems(c) == \E t \in ItemTables :
  \/ Begin(c, insertItems(t), KeysOf(t), KeysOf(t), TRUE)
  \/ Begin(c, insertItem(t[1]), {t[1].key}, {t[1].key}, TRUE)
ModifiesItem(c) == \E x \in ItemChanges :
  Begin(c, modifyItem(x.id, x.patch), {x.id}, {}, TRUE)
DeletesItem(c) == \E i \in Items : Begin(c, deleteItem(i), {i}, {i}, FALSE)
ChangesCategory(c) == \E i \in Items, k \in Categories :
  \/ Begin(c, insertItemCategory(i, k), {i}, {}, FALSE)
  \/ Begin(c, deleteItemCategory(i, k), {i}, {}, FALSE)
InsertsFeedback(c) == \E t \in FeedbackTables, overwrite \in BOOLEAN :
  Begin(c, insertFeedback(t, overwrite), UsersIn(t) \cup ItemsIn(t), {}, TRUE)
\* The answer, of two items at most, is taken as of one moment.
WritesBack(c) == \E u \in Users :
  \E n \in 0 .. 2 :
  \E answer \in getRecommend([db |-> db, cache |-> cache], u, {}, 2, 0, FALSE, Fallback) \cap [1 .. n -> Items] :
    Begin(c, writeBack(u, answer), {u} \cup {answer[j] : j \in 1 .. n}, {}, FALSE)
DeletesFeedback(c) == \E u \in Users, i \in Items, types \in {{}} \cup {{y} : y \in FeedbackTypes} :
  Begin(c, deleteUserItemFeedback(u, i, types), {u, i}, {}, FALSE)

FeedbackOf(d, id) ==
  [k \in {k \in DOMAIN d.feedback : id \in {k.user, k.item}} |-> d.feedback[k]]
\* The users and items two states of the store differ in.
Differ(d, e) ==
  {u \in Users : DB!GetUser(d, u) # DB!GetUser(e, u) \/ FeedbackOf(d, u) # FeedbackOf(e, u)}
    \cup {i \in Items : DB!GetItem(d, i) # DB!GetItem(e, i) \/ FeedbackOf(d, i) # FeedbackOf(e, i)}

\* The call at the head of the list has been made, others are left, and what
\* is known.  The clock counts how often it has been read.
Made(c, d, k, left, knows) ==
  LET done == left = <<>>
      times == IF about[c].stamps THEN Over([id \in Differ(db, d) |-> clock], about[c].changed)
               ELSE about[c].changed
      undisturbed == done /\ about[c].alone
  IN  /\ clock' = clock + (IF Head(todo[c]).call = "Now" THEN 1 ELSE 0)
      /\ db' = d /\ cache' = k
      /\ todo' = [todo EXCEPT ![c] = left]
      /\ known' = [known EXCEPT ![c] = IF done THEN NoneKnown ELSE knows]
      /\ about' = [about EXCEPT ![c] = IF done THEN NoRequest ELSE [about[c] EXCEPT !.changed = times]]
      /\ owed' = IF undisturbed THEN Over(times, owed) ELSE owed
      /\ disturbed' = IF undisturbed THEN disturbed \ about[c].resets ELSE disturbed
      /\ UNCHANGED <<requests, failures>>

NextCall(c) == Head(todo[c])
Is(c, name) == ~Idle(c) /\ NextCall(c).call = name
DataCall(c, d) == Made(c, d, cache, Tail(todo[c]), known[c])
CacheCall(c, k) == Made(c, db, k, Tail(todo[c]), known[c])

BatchInsertUsers(c) ==
  Is(c, "BatchInsertUsers") /\ DataCall(c, DB!BatchInsertUsers(db, NextCall(c).users))
CallsModifyUser(c) ==
  Is(c, "ModifyUser") /\ DataCall(c, DB!ModifyUser(db, NextCall(c).user, NextCall(c).userPatch))
DeleteUserRow(c) ==
  Is(c, "DeleteUserRow") /\ DataCall(c, DB!DeleteUserRow(db, NextCall(c).dropped))
DeleteUserFeedback(c) ==
  Is(c, "DeleteUserFeedback") /\ DataCall(c, DB!DeleteUserFeedback(db, NextCall(c).of))
BatchInsertItems(c) ==
  Is(c, "BatchInsertItems") /\ DataCall(c, DB!BatchInsertItems(db, NextCall(c).items))
CallsModifyItem(c) ==
  Is(c, "ModifyItem") /\ DataCall(c, DB!ModifyItem(db, NextCall(c).item, NextCall(c).itemPatch))
DeleteItemRow(c) ==
  Is(c, "DeleteItemRow") /\ DataCall(c, DB!DeleteItemRow(db, NextCall(c).dropped))
DeleteItemFeedback(c) ==
  Is(c, "DeleteItemFeedback") /\ DataCall(c, DB!DeleteItemFeedback(db, NextCall(c).of))
DeleteUserItemFeedback(c) ==
  /\ Is(c, "DeleteUserItemFeedback")
  /\ DataCall(c, DB!DeleteUserItemFeedback(db, NextCall(c).pair[1], NextCall(c).pair[2], NextCall(c).types))

\* The users (items) of feedback are inserted, or those that are unknown are
\* dropped; the rows of the ones left are inserted.
InsertUsersOfFeedback(c) ==
  LET us == UsersIn(NextCall(c).feedback)
  IN  /\ Is(c, "InsertUsersOfFeedback")
      /\ IF NextCall(c).insertUser
           THEN Made(c, DB!InsertMissingUsers(db, us), cache, Tail(todo[c]), [users |-> us, items |-> {}])
           ELSE Made(c, db, cache, Tail(todo[c]), [users |-> us \cap DOMAIN db.users, items |-> {}])
InsertItemsOfFeedback(c) ==
  LET is == ItemsIn(NextCall(c).feedback)
  IN  /\ Is(c, "InsertItemsOfFeedback")
      /\ IF NextCall(c).insertItem
           THEN Made(c, DB!InsertMissingItems(db, is), cache, Tail(todo[c]), [known[c] EXCEPT !.items = is])
           ELSE Made(c, db, cache, Tail(todo[c]), [known[c] EXCEPT !.items = is \cap DOMAIN db.items])
InsertFeedback(c) ==
  /\ Is(c, "InsertFeedback")
  /\ DataCall(c, DB!InsertFeedback(db, NextCall(c).feedback, known[c].users, known[c].items,
                                   NextCall(c).overwrite))

\* The times are taken, then set.
TakesTimes(c) ==
  /\ Is(c, "Now")
  /\ Made(c, db, cache, <<SetTimes([id \in NextCall(c).stamped |-> clock])>> \o Tail(todo[c]), known[c])
SetsTimes(c) ==
  /\ Is(c, "Set")
  /\ CacheCall(c, [cache EXCEPT !.values = Over(NextCall(c).times, @)])

AddScores(c) ==
  /\ Is(c, "AddScores")
  /\ CacheCall(c, CA!AddScores(cache, "NonPersonalized", Latest, [i \in {NextCall(c).latest} |-> NextCall(c).doc]))
UpdateScores(c) ==
  /\ Is(c, "UpdateScores")
  /\ CacheCall(c, CA!UpdateScores(cache, NextCall(c).collections, NextCall(c).subset, NextCall(c).id,
         NextCall(c).patch))
DeleteScores(c) ==
  /\ Is(c, "DeleteScores")
  /\ CacheCall(c, CA!DeleteScores(cache, ItemCache, [subset |-> Nil, id |-> NextCall(c).docsOf, before |-> Nil]))
AddSet(c) ==
  Is(c, "AddSet") /\ CacheCall(c, CA!AddSet(cache, "ItemCategories", NextCall(c).categories))

\* A call fails: 500, and what has been done stays.
Fails(c) ==
  /\ ~Idle(c) /\ failures < MaxFailures
  /\ failures' = failures + 1
  /\ todo' = [todo EXCEPT ![c] = <<>>]
  /\ known' = [known EXCEPT ![c] = NoneKnown]
  /\ about' = [about EXCEPT ![c] = NoRequest]
  /\ disturbed' = disturbed \cup about[c].touches
  /\ UNCHANGED <<db, cache, clock, requests, owed>>

\* A worker or the master caches a document of a visible item that no
\* request is about (overlapping ones are in ItemVisibility).
OtherCaches ==
  \E i \in DOMAIN db.items, list \in CachedIn :
    /\ db.items[i].is_hidden = FALSE
    /\ Touching({i}) = {}
    /\ [collection |-> list.collection, subset |-> list.subset, id |-> i] \notin DOMAIN cache.docs
    /\ cache' = CA!AddScores(cache, list.collection, list.subset,
                  [j \in {i} |-> [is_hidden |-> FALSE, score |-> 1,
                                  categories |-> withWildCard(db.items[i].categories)]])
    /\ UNCHANGED <<db, todo, known, clock, requests, failures, about, disturbed, owed>>

EmptyCache == [values |-> EmptyTable, sets |-> EmptyTable, queues |-> EmptyTable,
               docs |-> EmptyTable, points |-> EmptyTable]

\* The stores are as one client after the other has left them.
Filled(us, is, fs) ==
  DB!BatchInsertFeedback(DB!BatchInsertItems(DB!BatchInsertUsers(DB!EmptyStore, us), is), fs, TRUE, TRUE, TRUE)
CacheOf(is) ==
  [EmptyCache EXCEPT !.docs =
     [k \in {[collection |-> "NonPersonalized", subset |-> Latest, id |-> i] : i \in KeysOf(is)} |->
        LET row == FirstRows(is)[k.id]
        IN  [is_hidden |-> row.is_hidden, categories |-> withWildCard(row.categories),
             score |-> row.timestamp]]]
ServerInit ==
  /\ \E us \in UserTables, is \in ItemTables, fs \in FeedbackTables :
       db = Filled(us, is, fs) /\ cache = CacheOf(is)
  /\ todo = [c \in Clients |-> <<>>] /\ known = [c \in Clients |-> NoneKnown]
  /\ clock = 1 /\ requests = 0 /\ failures = 0
  /\ about = [c \in Clients |-> NoRequest]
  /\ disturbed = {} /\ owed = [id \in Users \cup Items |-> 0]

Begins(c) ==
  \/ InsertsUsers(c) \/ ModifiesUser(c) \/ DeletesUser(c)
  \/ InsertsItems(c) \/ ModifiesItem(c) \/ DeletesItem(c) \/ ChangesCategory(c)
  \/ InsertsFeedback(c) \/ WritesBack(c) \/ DeletesFeedback(c)
Calls(c) ==
  \/ BatchInsertUsers(c) \/ CallsModifyUser(c) \/ DeleteUserRow(c) \/ DeleteUserFeedback(c)
  \/ BatchInsertItems(c) \/ CallsModifyItem(c) \/ DeleteItemRow(c) \/ DeleteItemFeedback(c)
  \/ DeleteUserItemFeedback(c) \/ InsertUsersOfFeedback(c) \/ InsertItemsOfFeedback(c)
  \/ InsertFeedback(c) \/ TakesTimes(c) \/ SetsTimes(c)
  \/ AddScores(c) \/ UpdateScores(c) \/ DeleteScores(c) \/ AddSet(c)

ServerNext == (\E c \in Clients : Begins(c) \/ Calls(c) \/ Fails(c)) \/ OtherCaches
ServerSpec == ServerInit /\ [][ServerNext]_serverVars

----------------------------------------------------------------------------
(* Requests that only read.                                                *)

getUser(d, u) == DB!GetUser(d, u)
getItem(d, i) == DB!GetItem(d, i)
getUsers(d, cursor, n) == DB!GetUsers(d, cursor, n)
getItems(d, cursor, n) == DB!GetItems(d, cursor, n, Nil)
getFeedbackByUser(d, u) == DB!GetUserFeedback(d, u, Now, {})
getTypedFeedbackByUser(d, u, type) == DB!GetUserFeedback(d, u, Now, {type})
getFeedbackByItem(d, i) == DB!GetItemFeedback(d, i, {})
getTypedFeedbackByItem(d, i, type) == DB!GetItemFeedback(d, i, {type})
getFeedback(d, cursor, n) == DB!GetFeedback(d, cursor, n, Nil, Now, {})
getTypedFeedback(d, cursor, n, type) == DB!GetFeedback(d, cursor, n, Nil, Now, {type})
getUserItemFeedback(d, u, i) == DB!GetUserItemFeedback(d, u, i, {})
\* The first of the answer, which panics where there is none.
getTypedUserItemFeedback(d, u, i, type) ==
  LET found == DB!GetUserItemFeedback(d, u, i, {type})
  IN  IF found = {} THEN NotFound ELSE CHOOSE k \in found : TRUE

----------------------------------------------------------------------------
\* Workers renew the recommendations of a user, and the master the
\* neighbors of an item, whose LastModifyUserTime (LastModifyItemTime) is
\* later than theirs.  Once a request that sets the time has run with no
\* other on the same user or item, the time never falls behind its change,
\* whatever overlaps and fails later.
TimesCoverChanges ==
  \A id \in Users \cup Items :
    owed[id] > 0 => id \in DOMAIN cache.values /\ cache.values[id] >= owed[id]

\* What is cached of an item, its visibility, its categories, and the time
\* the latest items are ordered by, is what the data store has, and nothing
\* of a deleted item is cached, unless requests for the item overlapped or
\* failed (batchInsertItems, modifyItem, deleteItem, insertItemCategory and
\* deleteItemCategory write the two stores in different orders).
CacheFollowsStore ==
  \A k \in DOMAIN cache.docs :
    k.id \in disturbed \/ Touching({k.id}) # {} \/
      /\ k.id \in DOMAIN db.items
      /\ cache.docs[k].is_hidden = db.items[k.id].is_hidden
      /\ cache.docs[k].categories = withWildCard(db.items[k.id].categories)
      /\ k.subset = Latest => cache.docs[k].score = db.items[k.id].timestamp

\* "Delete an item and its feedback" (rest.go:289), "delete a user and his
\* or her feedback" (rest.go:238): feedback is left of an unknown user or
\* item only where its deletion overlapped an insertion or failed.
OrphansOnlyAfterRaces ==
  \A k \in DOMAIN db.feedback :
    /\ k.user \in DOMAIN db.users \cup disturbed \/ Touching({k.user}) # {}
    /\ k.item \in DOMAIN db.items \cup disturbed \/ Touching({k.item}) # {}

\* A page and what comes after it.
Both(page, Rest(_)) == page.rows \cup IF page.cursor = Nil THEN {} ELSE Rest(page.cursor).rows

\* The requests for feedback agree: by user, by item, by both, by type, and
\* page by page, but for feedback of the future, which only the request for
\* a user and an item shows.  Users and items are found one by one where the
\* pages show them.
ReadsAgree ==
  LET past == {k \in DOMAIN db.feedback : db.feedback[k] <= Now}
      all == Cardinality(DOMAIN db.feedback) + Cardinality(Users \cup Items)
  IN  /\ \A u \in Users, i \in Items :
           /\ getFeedbackByUser(db, u) \cap getFeedbackByItem(db, i)
                = getUserItemFeedback(db, u, i) \cap past
           /\ \A y \in FeedbackTypes :
                /\ getTypedFeedbackByUser(db, u, y) \cap getTypedFeedbackByItem(db, i, y)
                     = getUserItemFeedback(db, u, i) \cap past \cap {k \in past : k.type = y}
                /\ getTypedFeedbackByItem(db, i, y)
                     = {k \in getFeedbackByItem(db, i) : k.type = y}
                /\ getTypedUserItemFeedback(db, u, i, y) \in getUserItemFeedback(db, u, i) \cup {NotFound}
      /\ \A n \in 1 .. 2 :
           /\ Both(getFeedback(db, Nil, n), LAMBDA c : getFeedback(db, c, all)) = past
           /\ \A y \in FeedbackTypes :
                Both(getTypedFeedback(db, Nil, n, y), LAMBDA c : getTypedFeedback(db, c, all, y))
                  = {k \in past : k.type = y}
           /\ Both(getUsers(db, Nil, n), LAMBDA c : getUsers(db, c, all))
                = {u \in Users : getUser(db, u) # NotFound}
           /\ Both(getItems(db, Nil, n), LAMBDA c : getItems(db, c, all))
                = {i \in Items : getItem(db, i) # NotFound}
=============================================================================
