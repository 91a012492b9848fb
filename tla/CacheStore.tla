----------------------------- MODULE CacheStore -----------------------------
(***************************************************************************)
(* What the interface Database of storage/cache promises of its values,    *)
(* sets, queues, scored documents and points, whichever store is behind    *)
(* it.  The stores differ in the value a batch leaves that gives a name    *)
(* twice, in a set that is overwritten with nothing, in whether a document *)
(* that is written again stays hidden, and in what Purge leaves.           *)
(***************************************************************************)
EXTENDS StoreRows

CONSTANTS
  ValueBatches,   \* sequences of [key, row]
  SetNames, Members, QueueNames, Messages,
  DocumentSets,   \* [collection, subset, rows]
  Patches,        \* [collections, subset, id, patch]
  Conditions,     \* [collections, subset, id, before]
  PointSets       \* tables of [name, time]

VARIABLES values, sets, queues, docs, points

cache == <<values, sets, queues, docs, points>>

MembersOf(name) == IF name \in DOMAIN sets THEN sets[name] ELSE {}

\* A set without members is no set.
WithSet(name, members) ==
  IF members = {} THEN Without(sets, {name}) ELSE Over([n \in {name} |-> members], sets)

Set(rows) ==
  /\ \E new \in ChosenRows(rows) : values' = Over(new, values)
  /\ UNCHANGED <<sets, queues, docs, points>>

Delete(name) ==
  /\ values' = Without(values, {name})
  /\ UNCHANGED <<sets, queues, docs, points>>

SetSet(name, members) ==
  /\ sets' \in {WithSet(name, members)} \cup (IF members = {} THEN {sets} ELSE {})
  /\ UNCHANGED <<values, queues, docs, points>>

AddSet(name, members) ==
  /\ sets' = WithSet(name, MembersOf(name) \cup members)
  /\ UNCHANGED <<values, queues, docs, points>>

RemSet(name, members) ==
  /\ sets' = WithSet(name, MembersOf(name) \ members)
  /\ UNCHANGED <<values, queues, docs, points>>

\* A message that waits already moves to the end.
Push(name, message) ==
  /\ queues' = [queues EXCEPT ![name] = Append(Unqueued(@, message), message)]
  /\ UNCHANGED <<values, sets, docs, points>>

Pop(name) ==
  /\ queues[name] # <<>>
  /\ queues' = [queues EXCEPT ![name] = Tail(@)]
  /\ UNCHANGED <<values, sets, docs, points>>

Keyed(d) == [k \in {[collection |-> d.collection, subset |-> d.subset, id |-> i] :
                      i \in DOMAIN d.rows} |-> d.rows[k.id]]

\* The documents are the new ones, which may be as hidden as they were.
AddScores(d) ==
  /\ DOMAIN docs' = DOMAIN docs \cup DOMAIN Keyed(d)
  /\ \A k \in DOMAIN docs \ DOMAIN Keyed(d) : docs'[k] = docs[k]
  /\ \A k \in DOMAIN Keyed(d) :
       \/ docs'[k] = Keyed(d)[k]
       \/ k \in DOMAIN docs /\ docs'[k] = [Keyed(d)[k] EXCEPT !.is_hidden = docs[k].is_hidden]
  /\ UNCHANGED <<values, sets, queues, points>>

Matches(k, collections, subset, id) ==
  /\ k.collection \in collections
  /\ subset = Nil \/ k.subset = subset
  /\ id = Nil \/ k.id = id

UpdateScores(p) ==
  /\ docs' = [k \in DOMAIN docs |->
                IF Matches(k, p.collections, p.subset, p.id) THEN Over(p.patch, docs[k]) ELSE docs[k]]
  /\ UNCHANGED <<values, sets, queues, points>>

DeleteScores(c) ==
  /\ docs' = Without(docs, {k \in DOMAIN docs :
                              /\ Matches(k, c.collections, c.subset, c.id)
                              /\ c.before = Nil \/ docs[k].timestamp < c.before})
  /\ UNCHANGED <<values, sets, queues, points>>

AddTimeSeriesPoints(new) ==
  /\ points' = Over(new, points)
  /\ UNCHANGED <<values, sets, queues, docs>>

Purge ==
  /\ values' = EmptyTable /\ sets' = EmptyTable /\ docs' = EmptyTable
  /\ queues' \in {queues, [name \in QueueNames |-> <<>>]}
  /\ points' \in {points, EmptyTable}

Init ==
  /\ values = EmptyTable /\ sets = EmptyTable /\ docs = EmptyTable /\ points = EmptyTable
  /\ queues = [name \in QueueNames |-> <<>>]

Next ==
  \/ \E rows \in ValueBatches : Set(rows) \/ \E name \in KeysOf(rows) : Delete(name)
  \/ \E name \in SetNames, m \in SUBSET Members : SetSet(name, m) \/ AddSet(name, m) \/ RemSet(name, m)
  \/ \E name \in QueueNames : Pop(name) \/ \E message \in Messages : Push(name, message)
  \/ \E d \in DocumentSets : AddScores(d)
  \/ \E p \in Patches : UpdateScores(p)
  \/ \E c \in Conditions : DeleteScores(c)
  \/ \E new \in PointSets : AddTimeSeriesPoints(new)
  \/ Purge

Spec == Init /\ [][Next]_cache
=============================================================================
