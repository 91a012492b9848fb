----------------------------- MODULE DataStore -----------------------------
(***************************************************************************)
(* What the interface Database of storage/data promises of the users, the  *)
(* items and the feedback, whichever store is behind it.  Where a batch    *)
(* gives a key twice, the stores differ in the row that stays.             *)
(***************************************************************************)
EXTENDS StoreRows

CONSTANTS
  UserBatches, ItemBatches, FeedbackBatches, \* sequences of [key, row]
  UserPatches, ItemPatches,                  \* rows of the fields they change
  BlankUser, BlankItem                       \* what new feedback creates

VARIABLES users, items, feedback

tables == <<users, items, feedback>>

UserIds == (UNION {KeysOf(b) : b \in UserBatches})
                  \cup {k.user : k \in UNION {KeysOf(b) : b \in FeedbackBatches}}
ItemIds == (UNION {KeysOf(b) : b \in ItemBatches})
                  \cup {k.item : k \in UNION {KeysOf(b) : b \in FeedbackBatches}}

UsersOf(rows) == {k.user : k \in KeysOf(rows)}
ItemsOf(rows) == {k.item : k \in KeysOf(rows)}

\* Only rows whose user and item are known are stored.
KnownRows(table, us, is) ==
  [k \in {k \in DOMAIN table : k.user \in us /\ k.item \in is} |-> table[k]]

Unknown(ids, table, blank) == [k \in ids \ DOMAIN table |-> blank]

PutUsers(rows) ==
  /\ \E new \in ChosenRows(rows) : users' = Over(new, users)
  /\ UNCHANGED <<items, feedback>>

PutItems(rows) ==
  /\ \E new \in ChosenRows(rows) : items' = Over(new, items)
  /\ UNCHANGED <<users, feedback>>

PutFeedback(rows, insertUser, insertItem, overwrite) ==
  /\ users' = IF insertUser THEN Over(users, Unknown(UsersOf(rows), users, BlankUser)) ELSE users
  /\ items' = IF insertItem THEN Over(items, Unknown(ItemsOf(rows), items, BlankItem)) ELSE items
  /\ \E chosen \in ChosenRows(rows) :
       LET new == KnownRows(chosen, DOMAIN users', DOMAIN items')
       IN  feedback' = IF overwrite THEN Over(new, feedback) ELSE Over(feedback, new)

PatchUser(u, patch) ==
  /\ u \in DOMAIN users
  /\ users' = [users EXCEPT ![u] = Over(patch, @)]
  /\ UNCHANGED <<items, feedback>>

PatchItem(i, patch) ==
  /\ i \in DOMAIN items
  /\ items' = [items EXCEPT ![i] = Over(patch, @)]
  /\ UNCHANGED <<users, feedback>>

\* Users and items leave with their feedback.
RemoveUser(u) ==
  /\ users' = Without(users, {u})
  /\ feedback' = Without(feedback, {k \in DOMAIN feedback : k.user = u})
  /\ UNCHANGED items

RemoveItem(i) ==
  /\ items' = Without(items, {i})
  /\ feedback' = Without(feedback, {k \in DOMAIN feedback : k.item = i})
  /\ UNCHANGED users

RemoveFeedback(u, i) ==
  /\ \E types \in SUBSET {k.type : k \in DOMAIN feedback} :
       feedback' = Without(feedback, {k \in DOMAIN feedback :
                                         k.user = u /\ k.item = i /\ k.type \in types})
  /\ UNCHANGED <<users, items>>

RemoveAll ==
  /\ users' = EmptyTable /\ items' = EmptyTable /\ feedback' = EmptyTable

Init == users = EmptyTable /\ items = EmptyTable /\ feedback = EmptyTable

Next ==
  \/ \E rows \in UserBatches : PutUsers(rows)
  \/ \E rows \in ItemBatches : PutItems(rows)
  \/ \E rows \in FeedbackBatches, iu, ii, ow \in BOOLEAN : PutFeedback(rows, iu, ii, ow)
  \/ \E u \in UserIds, p \in UserPatches : PatchUser(u, p)
  \/ \E i \in ItemIds, p \in ItemPatches : PatchItem(i, p)
  \/ \E u \in UserIds : RemoveUser(u)
  \/ \E i \in ItemIds : RemoveItem(i)
  \/ \E u \in UserIds, i \in ItemIds : RemoveFeedback(u, i)
  \/ RemoveAll

Spec == Init /\ [][Next]_tables
=============================================================================
