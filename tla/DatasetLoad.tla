---------------------------- MODULE DatasetLoad ----------------------------
(***************************************************************************)
(* One load of the data store by the master (runLoadDatasetTask and        *)
(* LoadDataFromDatabase of master/tasks.go): users and items are pulled by *)
(* one goroutine, positive and read feedback by one goroutine for each     *)
(* group of items.  These share the data set (under a lock), the           *)
(* non-personalized recommenders of logics/non_personalized.go (without)   *)
(* and the variable err of the function (without).                         *)
(*                                                                         *)
(* The data store does not change during a load: every stream is what the  *)
(* store was asked once, and a load that mixes several states is nothing   *)
(* else than a load of some other store.  Days stand for times.            *)
(***************************************************************************)
EXTENDS DataSets

CONSTANTS
  StoredUsers,       \* sequences of [id, labels] the data store may hold
  StoredItems,       \* sequences of [id, labels, hidden, categories, time], ordered by id
  StoredFeedback,    \* feedback it may hold: [user, item, type, time]
  MaxFeedback,       \* bound: feedback of a store
  PosTypes, ReadTypes,
  Today, ItemTTL, FeedbackTTL, PopularWindow, EvaluateDays, \* in days
  CacheSize, NumGroups,
  MaxLost        \* bound: streams that fail

VARIABLES
  users, items, feedback,  \* the data store
  step,          \* what LoadDataFromDatabase does
  indexed,       \* [users, items]: the two indices
  userLabels, itemLabels,
  dataset,       \* the ranking data set
  groups,        \* itemGroups
  job,           \* group -> what its goroutine does
  err,           \* the shared variable: an error was assigned last
  positive, negative,  \* user -> items
  read,          \* OnlineEvaluator: [sets : day -> user -> items, last : pairs -> day]
  heaps,         \* recommender -> category -> {[item, score]}
  outcome,        \* what the master has of this load
  collided,      \* history: two pushes, or two uses of err, overlapped
  faults         \* streams that have failed

storedVars == <<users, items, feedback>>
datasetVars == <<storedVars, step, indexed, userLabels, itemLabels, dataset, groups, job, err,
              positive, negative, read, heaps, outcome, collided, faults>>

Recommenders == {"latest", "popular"}
Idle == [step |-> "idle"]
Nothing == [step |-> "nothing"]

DatasetInit ==
  /\ users \in StoredUsers
  /\ items \in StoredItems
  /\ feedback \in kSubset(MaxFeedback, StoredFeedback)
  /\ step = "users"
  /\ indexed = [users |-> <<>>, items |-> <<>>]
  /\ userLabels = NoLabels(0) /\ itemLabels = NoLabels(0)
  /\ dataset = NoFeedback(<<>>, <<>>)
  /\ groups = <<>> /\ job = <<>>
  /\ err = FALSE
  /\ positive = <<>> /\ negative = <<>>
  /\ read = [sets |-> [d \in 0 .. EvaluateDays - 1 |-> {}], last |-> {}]
  /\ heaps = [r \in Recommenders |-> {}]
  /\ outcome = Nothing
  /\ collided = [push |-> FALSE, err |-> FALSE]
  /\ faults = 0

Fault == faults < MaxLost /\ faults' = faults + 1

StreamFails ==
  /\ step \in {"users", "items"}
  /\ Fault
  /\ step' = "failed"
  /\ UNCHANGED <<storedVars, indexed, userLabels, itemLabels, dataset, groups, job, err,
                 positive, negative, read, heaps, outcome, collided>>

Ids(rows) == [k \in DOMAIN rows |-> rows[k].id]

StreamsUsers ==
  /\ step = "users" /\ step' = "items"
  /\ indexed' = [indexed EXCEPT !.users = AddNames(<<>>, Ids(users))]
  /\ userLabels' = NumberLabels(users)
  /\ UNCHANGED <<storedVars, itemLabels, dataset, groups, job, err, positive, negative, read,
                 heaps, outcome, collided, faults>>

\* The items that have not expired.
Pulled == SelectSeq(items, LAMBDA i : i.time >= Today - ItemTTL)

\* parallel.Split: n chunks whose sizes differ by one at most.
Split(a, n) ==
  LET chunks == IF n > Len(a) THEN Len(a) ELSE n
      size(k) == Len(a) \div chunks + (IF k <= Len(a) % chunks THEN 1 ELSE 0)
      end[k \in 0 .. chunks] == IF k = 0 THEN 0 ELSE end[k - 1] + size(k) IN
    [k \in 1 .. chunks |-> SubSeq(a, end[k - 1] + 1, end[k])]

\* Without items Split divides by zero, and the panic ends the load.
StreamsItems ==
  /\ step = "items"
  /\ indexed' = [indexed EXCEPT !.items = AddNames(<<>>, Ids(Pulled))]
  /\ itemLabels' = NumberLabels(Pulled)
  /\ dataset' = NoFeedback(indexed.users, indexed'.items)
  /\ positive' = [u \in DOMAIN indexed.users |-> {}]
  /\ negative' = positive'
  /\ step' = IF Pulled = <<>> THEN "panic" ELSE "positive"
  /\ groups' = IF Pulled = <<>> THEN <<>> ELSE Split(Pulled, NumGroups)
  /\ job' = [g \in DOMAIN groups' |-> Idle]
  /\ UNCHANGED <<storedVars, userLabels, err, read, heaps, outcome, collided, faults>>

----------------------------------------------------------------------------
(* The goroutine of a group                                                *)

\* GetFeedbackStream of a group: the items of the group and what lies between
\* them, of some types, and nothing from the future.
Asked(g, types) ==
  {f \in feedback :
     /\ f.item \in groups[g][1].id .. groups[g][Len(groups[g])].id
     /\ f.type \in types
     /\ f.time \in Today - FeedbackTTL .. Today}

Known(f) == {f.user} \subseteq ToSet(indexed.users) /\ {f.item} \subseteq ToSet(indexed.items)
UserOf(f) == ToNumber(indexed.users, f.user)
ItemOf(f) == ToNumber(indexed.items, f.item)
Fold(Op(_, _), base, set) == FoldLeft(Op, base, SetToSeq(set))

\* The items that are pushed: with feedback first, then those without.
PushOrder(g, delivered) ==
  LET has(i) == \E f \in delivered : f.item = i.id /\ Known(f) IN
    SelectSeq(groups[g], has) \o SelectSeq(groups[g], LAMBDA i : ~has(i))

\* A stream delivers all feedback, or it fails and has delivered a part.
Delivers(g, types, delivered) ==
  /\ delivered \in SUBSET Asked(g, types)
  /\ \/ delivered = Asked(g, types) /\ UNCHANGED faults
     \/ Fault

\* All feedback of a group.  mu is held for each row; the rows of other groups
\* come in between, which changes nothing but their order.
ReadsPositive(g) ==
  /\ step = "positive" /\ job[g] = Idle
  /\ \E delivered \in SUBSET feedback :
       /\ Delivers(g, PosTypes, delivered)
       /\ dataset' = Fold(LAMBDA d, f : AddFeedback(d, indexed.users, indexed.items, f), dataset, delivered)
       /\ positive' = [u \in DOMAIN positive |->
            positive[u] \cup {ItemOf(f) : f \in {h \in delivered : Known(h) /\ UserOf(h) = u}}]
       /\ job' = [job EXCEPT ![g] =
            [step |-> "push", rest |-> PushOrder(g, delivered), delivered |-> delivered,
             pushing |-> FALSE, error |-> faults' # faults]]
  /\ UNCHANGED <<storedVars, step, indexed, userLabels, itemLabels, groups, err, negative, read,
                 heaps, outcome, collided>>

\* Push: hidden items are skipped, and old ones are not popular.
Scores(r, item, received) ==
  IF item.hidden \/ (r = "popular" /\ item.time <= Today - PopularWindow) THEN {}
  ELSE IF r = "popular" THEN {Cardinality(received)} ELSE {item.time}
Entries(r, item, received) ==
  [item : {item.id}, score : Scores(r, item, received), category : {""} \cup item.categories]

Pushed(g, r) ==
  heaps[r] \cup Entries(r, Head(job[g].rest),
                        {f \in job[g].delivered : f.item = Head(job[g].rest).id /\ Known(f)})

PushBegins(g) ==
  /\ step = "positive" /\ job[g].step = "push"
  /\ job[g].rest # <<>> /\ ~job[g].pushing
  /\ job' = [job EXCEPT ![g].pushing = TRUE]
  /\ collided' = [collided EXCEPT !.push = @ \/ \E h \in DOMAIN job : job[h].step = "push" /\ job[h].pushing]
  /\ UNCHANGED <<storedVars, step, indexed, userLabels, itemLabels, dataset, groups, err,
                 positive, negative, read, heaps, outcome, faults>>

\* The heaps have no lock: when pushes have overlapped an element may be lost,
\* or the runtime notices that two write a map and ends the process.
PushEnds(g) ==
  /\ step = "positive" /\ job[g].step = "push" /\ job[g].pushing
  /\ job' = [job EXCEPT ![g].pushing = FALSE, ![g].rest = Tail(@)]
  /\ \/ heaps' \in {[latest |-> l, popular |-> p] :
                     l \in Truncated(Pushed(g, "latest"), CacheSize),
                     p \in Truncated(Pushed(g, "popular"), CacheSize)}
        /\ UNCHANGED step
     \/ collided.push /\ UNCHANGED heaps /\ step' \in {step, "crashed"}
  /\ UNCHANGED <<storedVars, indexed, userLabels, itemLabels, dataset, groups, err,
                 positive, negative, read, outcome, collided, faults>>

Pushes(g) == PushBegins(g) \/ PushEnds(g)

\* What a user was shown and did not like; the evaluator counts it at the day
\* of the feedback, unless that is too old.
DayOf(f) == Today - f.time
Counted(f) == Known(f) /\ DayOf(f) \in 0 .. EvaluateDays - 1
Seen(f) == <<UserOf(f), ItemOf(f)>>
ReadsNegative(g) ==
  /\ step = "negative" /\ job[g] = Idle
  /\ \E delivered \in SUBSET feedback :
       /\ Delivers(g, ReadTypes, delivered)
       /\ negative' = [u \in DOMAIN negative |->
            negative[u] \cup ({ItemOf(f) : f \in {h \in delivered : Known(h) /\ UserOf(h) = u}} \ positive[u])]
       /\ read' = Fold(LAMBDA r, f : IF ~Counted(f) THEN r
                          ELSE [sets |-> [r.sets EXCEPT ![DayOf(f)] = @ \cup {Seen(f)}],
                                last |-> {l \in r.last : l.pair # Seen(f)}
                                    \cup {[pair |-> Seen(f), day |-> DayOf(f)]}],
                       read, delivered)
       /\ job' = [job EXCEPT ![g] =
            [step |-> "push", rest |-> <<>>, delivered |-> delivered, pushing |-> FALSE,
             error |-> faults' # faults]]
  /\ UNCHANGED <<storedVars, step, indexed, userLabels, itemLabels, dataset, groups, err, positive,
                 heaps, outcome, collided>>

\* if err = <-errChan; err != nil { return errors.Trace(err) }: all goroutines
\* assign the variable of the function, check it, and read it again to return it.
UsesErr(h) == job[h].step \in {"assigned", "checked"}
AssignsErr(g) ==
  /\ job[g].step = "push" /\ job[g].rest = <<>>
  /\ err' = job[g].error
  /\ job' = [job EXCEPT ![g] = [step |-> "assigned", error |-> @.error]]
  /\ collided' = [collided EXCEPT !.err = @ \/ \E h \in DOMAIN job : UsesErr(h)]
  /\ UNCHANGED <<storedVars, step, indexed, userLabels, itemLabels, dataset, groups, positive,
                 negative, read, heaps, outcome, faults>>
ChecksErr(g) ==
  /\ job[g].step = "assigned"
  /\ job' = [job EXCEPT ![g].step = IF err THEN "checked" ELSE "done"]
  /\ UNCHANGED <<storedVars, step, indexed, userLabels, itemLabels, dataset, groups, err, positive,
                 negative, read, heaps, outcome, collided, faults>>
ReturnsErr(g) ==
  /\ job[g].step = "checked"
  /\ job' = [job EXCEPT ![g].step = IF err THEN "failed" ELSE "done"]
  /\ UNCHANGED <<storedVars, step, indexed, userLabels, itemLabels, dataset, groups, err, positive,
                 negative, read, heaps, outcome, collided, faults>>

\* Parallel has waited for all goroutines and returns what one has returned.
GroupsEnd ==
  /\ step \in {"positive", "negative"}
  /\ \A g \in DOMAIN job : job[g].step \in {"done", "failed"}
  /\ step' = IF \E g \in DOMAIN job : job[g].step = "failed" THEN "failed"
             ELSE IF step = "positive" THEN "negative" ELSE "publish"
  /\ job' = [g \in DOMAIN job |-> Idle]
  /\ err' = FALSE
  /\ UNCHANGED <<storedVars, indexed, userLabels, itemLabels, dataset, groups, positive, negative,
                 read, heaps, outcome, collided, faults>>

----------------------------------------------------------------------------
(* The end of runLoadDatasetTask                                           *)

\* Evaluate: the share of what a user was shown on a day that the user liked.
Liked(u, day) ==
  {l.pair : l \in {m \in read.last : m.pair[1] = u /\ m.day = day /\ m.pair[2] \in positive[u]}}
Shown(u, day) == {p \in read.sets[day] : p[1] = u}
Rates == [u : DOMAIN positive, day : 0 .. EvaluateDays - 1]

\* The data sets are split, the lists and the statistics written.
PublishesLoad ==
  /\ step = "publish" /\ step' = "done"
  /\ \E held \in Holds(dataset), test \in SUBSET Sampled(positive, negative) :
       /\ Cardinality(test) = Cardinality(Sampled(positive, negative)) \div 5
       /\ outcome' =
            [train |-> TrainSet(dataset, held), test |-> TestSet(dataset, held),
             samples |-> Sampled(positive, negative) \ test, testSamples |-> test,
             lists |-> [r \in Recommenders |-> Documents(heaps[r])],
             categories |-> UNION {i.categories : i \in ToSet(Pulled)},
             statistics |-> [users |-> Len(indexed.users), items |-> Len(indexed.items),
                             feedback |-> Len(dataset.feedback),
                             userLabels |-> Len(userLabels.index), itemLabels |-> Len(itemLabels.index)]]
  /\ UNCHANGED <<storedVars, indexed, userLabels, itemLabels, dataset, groups, job, err, positive,
                 negative, read, heaps, collided, faults>>

DatasetNext ==
  \/ StreamFails \/ StreamsUsers \/ StreamsItems
  \/ \E g \in DOMAIN job : ReadsPositive(g) \/ Pushes(g) \/ ReadsNegative(g)
                             \/ AssignsErr(g) \/ ChecksErr(g) \/ ReturnsErr(g)
  \/ GroupsEnd \/ PublishesLoad
DatasetSpec == DatasetInit /\ [][DatasetNext]_datasetVars

----------------------------------------------------------------------------
(* Properties *)

Matching(types) ==
  {f \in feedback : /\ f.type \in types /\ f.time \in Today - FeedbackTTL .. Today
                    /\ f.user \in ToSet(Ids(users)) /\ f.item \in ToSet(Ids(Pulled))}
Given(types, u, i) == {f \in Matching(types) : f.user = users[u].id /\ f.item = Pulled[i].id}
Occurrences(seq, x) == Cardinality({k \in DOMAIN seq : seq[k] = x})
InSets(u, i) == Occurrences(outcome.train.feedback, <<u, i>>) + Occurrences(outcome.test.feedback, <<u, i>>)

FeedbackIsStored ==
  \A u \in DOMAIN users, i \in DOMAIN Pulled :
    /\ InSets(u, i) = Cardinality(Given(PosTypes, u, i))
    /\ Occurrences(outcome.train.ofUser[u], i) = Occurrences(outcome.train.feedback, <<u, i>>)
    /\ Occurrences(outcome.train.ofItem[i], u) = Occurrences(outcome.train.feedback, <<u, i>>)
    /\ Given(PosTypes, u, i) # {} => Len(outcome.test.ofUser[u]) = 1

\* A label counts when it occurs twice.
Common(rows, label) ==
  Cardinality({p \in UNION {{k} \X DOMAIN rows[k].labels : k \in DOMAIN rows} : rows[p[1]].labels[p[2]] = label}) > 1
CommonOf(rows, k) == {l \in ToSet(rows[k].labels) : Common(rows, l)}

SamplesAreStored ==
  LET unified == BuildIndex(indexed.users, indexed.items, userLabels.index, itemLabels.index)
      kinds(u, i) == IF Given(PosTypes, u, i) # {} THEN {1}
                     ELSE IF Given(ReadTypes, u, i) # {} THEN {-1} ELSE {}
      of(u) == UNION {kinds(u, i) : i \in DOMAIN Pulled}
      samples == outcome.samples \cup outcome.testSamples IN
    /\ \A u \in DOMAIN users, i \in DOMAIN Pulled, t \in {-1, 1} :
         [user |-> u, item |-> i, target |-> t] \in samples <=> t \in kinds(u, i) /\ of(u) = {-1, 1}
    /\ \A s \in samples :
         ToSet(Get(unified, userLabels.features, itemLabels.features, s)) =
           {Encode(unified, "user", users[s.user].id), Encode(unified, "item", Pulled[s.item].id)}
             \cup {Encode(unified, "user label", l) : l \in CommonOf(users, s.user)}
             \cup {Encode(unified, "item label", l) : l \in CommonOf(Pulled, s.item)}

\* A load that ends without an error has the data sets, the samples of the
\* click model and the daily shares that the data store holds, however the
\* goroutines interleave: each feedback of a known user and item once, in the
\* training or the test set, one of each user in the test set; the samples of
\* users who liked some and only read other items, encoded as the index of the
\* model encodes them; and nobody likes more than was shown.  In particular a
\* load one of whose streams has failed fails - unless another goroutine
\* assigned the shared variable err between its assignment, check and return:
\* then a part is taken for all (tasks.go 1446-1754, 1648, 1698, ranking/data.go,
\* click/data.go).
LoadedIsStored ==
  step = "done" /\ (faults > 0 => ~collided.err) =>
    /\ faults = 0
    /\ FeedbackIsStored
    /\ SamplesAreStored
    /\ \A r \in Rates : Liked(r.u, r.day) \subseteq Shown(r.u, r.day)

Candidates(r, c) ==
  {i \in ToSet(Pulled) : /\ ~i.hidden /\ c \in {""} \cup i.categories
                         /\ r = "popular" => i.time > Today - PopularWindow}
ScoreOf(r, i) == IF r = "latest" THEN i.time ELSE Cardinality({f \in Matching(PosTypes) : f.item = i.id})
InList(r, c) == {i \in ToSet(Pulled) : \E d \in outcome.lists[r] : d.item = i.id /\ c \in d.categories}

\* The lists of latest and popular items have the best visible items of every
\* category, unless two goroutines pushed at the same time: the recommenders
\* are not locked (tasks.go 1612-1647, non_personalized.go 103-157).
ListsAreBest ==
  step = "done" /\ faults = 0 /\ ~collided.push =>
    \A r \in Recommenders, c \in {""} \cup outcome.categories :
      LET listed == InList(r, c) IN
        /\ listed \subseteq Candidates(r, c)
        /\ Cardinality(listed) = Min({CacheSize, Cardinality(Candidates(r, c))})
        /\ \A i \in listed, j \in Candidates(r, c) \ listed : ScoreOf(r, i) >= ScoreOf(r, j)
        /\ \A d \in outcome.lists[r], i \in listed : d.item = i.id => d.score = ScoreOf(r, i)
=============================================================================
