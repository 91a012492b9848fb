----------------------------- MODULE StoreRows -----------------------------
(***************************************************************************)
(* Tables of the stores.  A table is a function from keys to rows; a row   *)
(* is a function from field names to values, or one value.  A batch is a   *)
(* sequence of [key, row].  An index answers a page of keys.               *)
(***************************************************************************)
EXTENDS Naturals, Sequences, FiniteSets

CONSTANTS Nil, NotFound   \* no value; the answer for what is not stored

EmptyTable == [k \in {} |-> k]

\* The rows of new, and those of old for which new has none.
Over(new, old) ==
  [k \in DOMAIN new \cup DOMAIN old |-> IF k \in DOMAIN new THEN new[k] ELSE old[k]]

Without(table, keys) == [k \in DOMAIN table \ keys |-> table[k]]

KeysOf(rows) == {rows[j].key : j \in DOMAIN rows}

\* What rows and batches are.
IsRecord(row) == row = [f \in DOMAIN row |-> row[f]]
IsBatch(rows) ==
  /\ Len(rows) \in Nat /\ DOMAIN rows = 1 .. Len(rows)
  /\ rows = [j \in DOMAIN rows |-> [key |-> rows[j].key, row |-> rows[j].row]]

\* Batches whose rows are written in order, the first (the last) row of a
\* key being the one that stays.
FirstRows(rows) ==
  [k \in KeysOf(rows) |->
     rows[CHOOSE j \in DOMAIN rows :
            rows[j].key = k /\ \A h \in DOMAIN rows : rows[h].key = k => j <= h].row]

LastRows(rows) ==
  [k \in KeysOf(rows) |->
     rows[CHOOSE j \in DOMAIN rows :
            rows[j].key = k /\ \A h \in DOMAIN rows : rows[h].key = k => h <= j].row]

\* The rows of any order.
ChosenRows(rows) ==
  {f \in [KeysOf(rows) -> {rows[j].row : j \in DOMAIN rows}] :
     \A k \in KeysOf(rows) : \E j \in DOMAIN rows : rows[j].key = k /\ rows[j].row = f[k]}

\* A queue without a message that waits in it once at most.
Unqueued(queue, message) ==
  LET at == CHOOSE j \in DOMAIN queue : queue[j] = message
  IN  IF \E j \in DOMAIN queue : queue[j] = message
        THEN SubSeq(queue, 1, at - 1) \o SubSeq(queue, at + 1, Len(queue))
        ELSE queue

IdBefore(a, b) == a < b

\* Feedback keys are ordered by type, user and item.
KeyBefore(a, b) ==
  \/ a.type < b.type
  \/ a.type = b.type /\ a.user < b.user
  \/ a.type = b.type /\ a.user = b.user /\ a.item < b.item

\* The n keys that come first; the last of a set of keys.
FirstKeys(keys, n, Before(_, _)) ==
  {k \in keys : Cardinality({h \in keys : Before(h, k)}) < n}
LastKey(keys, Before(_, _)) ==
  CHOOSE k \in keys : \A h \in keys : h = k \/ Before(h, k)
=============================================================================
