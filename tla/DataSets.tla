----------------------------- MODULE DataSets -----------------------------
(***************************************************************************)
(* The data structures a load fills: indices of names (base/index.go,      *)
(* click/unified_index.go), the data set of the ranking models             *)
(* (ranking/data.go) and that of the click models (click/data.go), and the *)
(* numbering of labels (LoadDataFromDatabase).                             *)
(*                                                                         *)
(* Numbers begin at 1 here; 0 is NotId.                                    *)
(***************************************************************************)
EXTENDS Integers, FiniteSets, SequencesExt

NotId == 0

\* MapIndex: the names in the order they were added.
AddName(index, name) == IF Contains(index, name) THEN index ELSE Append(index, name)
AddNames(index, names) == FoldLeft(AddName, index, names)
ToNumber(index, name) ==
  IF Contains(index, name) THEN CHOOSE n \in DOMAIN index : index[n] = name ELSE NotId

\* UnifiedMapIndex: | user | item | user label | item label | context label |
Spaces == <<"user", "item", "user label", "item label", "context label">>
BuildIndex(users, items, userLabels, itemLabels) ==
  [s \in ToSet(Spaces) |->
     CASE s = "user" -> users [] s = "item" -> items
       [] s = "user label" -> userLabels [] s = "item label" -> itemLabels
       [] OTHER -> <<>>]
IndexLen(unified, spaces) == FoldLeft(LAMBDA n, s : n + Len(unified[s]), 0, spaces)
Before(space) == SubSeq(Spaces, 1, ToNumber(Spaces, space) - 1)
Encode(unified, space, name) ==
  LET n == ToNumber(unified[space], name) IN
    IF n = NotId THEN NotId ELSE n + IndexLen(unified, Before(space))

----------------------------------------------------------------------------
(* Labels.  A label that only one user (item) has, once, gets no number.   *)

NoLabels(n) == [count |-> <<>>, first |-> <<>>, index |-> <<>>, features |-> [u \in 1 .. n |-> <<>>]]

Featured(labels, u, label) ==
  [labels EXCEPT !.features[u] = Append(@, ToNumber(labels.index, label))]

\* Bug: the first row with a label does not get it
CountFromTheSecond(labels, u, label) ==
  IF label \notin DOMAIN labels.count
  THEN [labels EXCEPT !.count = @ @@ (label :> 1), !.first = @ @@ (label :> u)]
  ELSE Featured([labels EXCEPT !.index = AddName(@, label)], u, label)

\* count and first are functions of the labels met.
CountLabel(labels, u, label) ==
  IF label \notin DOMAIN labels.count
  THEN [labels EXCEPT !.count = @ @@ (label :> 1), !.first = @ @@ (label :> u)]
  ELSE LET counted == [labels EXCEPT !.count[label] = @ + 1] IN
         IF counted.count[label] = 2
         THEN LET indexed == [counted EXCEPT !.index = AddName(@, label)] IN
                Featured(Featured(indexed, counted.first[label], label), u, label)
         ELSE Featured(counted, u, label)

\* What the rows of a stream are given, one after the other.
NumberLabels(rows) ==
  FoldLeftDomain(LAMBDA labels, u :
                   FoldLeft(LAMBDA l, label : CountLabel(l, u, label), labels, rows[u].labels),
                 NoLabels(Len(rows)), rows)

----------------------------------------------------------------------------
(* ranking.DataSet, as far as feedback is concerned                        *)

NoFeedback(users, items) ==
  [feedback |-> <<>>, ofUser |-> [u \in 1 .. Len(users) |-> <<>>],
   ofItem |-> [i \in 1 .. Len(items) |-> <<>>]]

AddRawFeedback(dataset, u, i) ==
  [feedback |-> Append(dataset.feedback, <<u, i>>),
   ofUser |-> [dataset.ofUser EXCEPT ![u] = Append(@, i)],
   ofItem |-> [dataset.ofItem EXCEPT ![i] = Append(@, u)]]

\* AddFeedback(userId, itemId, false)
AddFeedback(dataset, users, items, f) ==
  LET u == ToNumber(users, f.user)
      i == ToNumber(items, f.item) IN
    IF NotId \in {u, i} THEN dataset ELSE AddRawFeedback(dataset, u, i)

AddAll(dataset, pairs) ==
  FoldLeft(LAMBDA d, p : AddRawFeedback(d, p[1], p[2]), dataset, pairs)

\* Split(0, seed): held[u] is the place of the feedback of user u that goes to
\* the test set.
Active(dataset) == {u \in DOMAIN dataset.ofUser : dataset.ofUser[u] # <<>>}
Holds(dataset) ==
  {held \in [Active(dataset) -> 1 .. Len(dataset.feedback)] :
     \A u \in Active(dataset) : held[u] <= Len(dataset.ofUser[u])}
PairsOf(dataset, u, places) ==
  [n \in 1 .. Cardinality(places) |->
     <<u, dataset.ofUser[u][SetToSortSeq(places, <)[n]]>>]
SplitBy(dataset, PlacesOf(_)) ==
  AddAll([dataset EXCEPT !.feedback = <<>>, !.ofUser = [u \in DOMAIN @ |-> <<>>],
                         !.ofItem = [i \in DOMAIN @ |-> <<>>]],
         FlattenSeq([u \in DOMAIN dataset.ofUser |-> PairsOf(dataset, u, PlacesOf(u))]))
TestSet(dataset, held) ==
  SplitBy(dataset, LAMBDA u : IF u \in Active(dataset) THEN {held[u]} ELSE {})
TrainSet(dataset, held) ==
  SplitBy(dataset, LAMBDA u : DOMAIN dataset.ofUser[u] \ (IF u \in Active(dataset) THEN {held[u]} ELSE {}))

----------------------------------------------------------------------------
(* click.Dataset: samples [user, item, target] of numbers                  *)

\* Users that only like, or only read, teach nothing.
Samples(positive, negative) ==
  LET taught == {u \in DOMAIN positive : positive[u] # {} /\ negative[u] # {}} IN
    [user : taught, item : UNION {positive[u] \cup negative[u] : u \in taught}, target : {-1, 1}]
Sampled(positive, negative) ==
  {s \in Samples(positive, negative) : s.item \in IF s.target = 1 THEN positive[s.user] ELSE negative[s.user]}

\* Get: the indices of a sample.
Get(unified, userFeatures, itemFeatures, s) ==
  LET position == Len(unified["user"]) + Len(unified["item"]) IN
    <<s.user, Len(unified["user"]) + s.item>>
      \o [k \in DOMAIN userFeatures[s.user] |-> position + userFeatures[s.user][k]]
      \o [k \in DOMAIN itemFeatures[s.item] |->
            position + Len(unified["user label"]) + itemFeatures[s.item][k]]

----------------------------------------------------------------------------
(* heap.TopKFilter: the best k of each category.  Which one of equals goes  *)
(* is the business of the heap.                                            *)

Truncated(entries, k) ==
  {kept \in SUBSET entries :
     \A e \in entries :
       LET same == {f \in kept : f.category = e.category} IN
         /\ Cardinality(same) <= k
         /\ e \notin kept => Cardinality(same) = k /\ \A f \in same : f.score >= e.score}

\* The documents of entries [item, score, category]: one for an item, with all
\* categories it is among the best of (PopAll of the recommenders and
\* cache.DocumentAggregator).
Documents(entries) ==
  {[item |-> e.item, score |-> e.score,
    categories |-> {f.category : f \in {h \in entries : h.item = e.item}}] : e \in entries}
=============================================================================
