------------------------------ MODULE ModelFit ------------------------------
(***************************************************************************)
(* How models are fitted and searched: the matrix factorizations BPR and   *)
(* CCD (model/ranking) and the factorization machine FM (model/click),     *)
(* their evaluation, their snapshots, the search over parameters, and what *)
(* is read from a model: predictions, and the stream it is sent in.        *)
(*                                                                         *)
(* The numbers are left out.  A row of weights is known by the name it was *)
(* made for, the weights of a fit by the epoch they are from, and a score  *)
(* is any of ScoreRange.  The fit task and the search task of a kind of    *)
(* model run at the same time on one data set.                             *)
(***************************************************************************)
EXTENDS DataSets

CONSTANTS
  LoadedData,   \* the data sets, one load after the other; see below
  Families,     \* of "ranking" and "click", those that are fitted
  Grid,         \* kind of model -> parameters its grid combines
  Epochs,       \* kind of model -> epochs of a fit
  NumTrials, Verbose,
  OtherIsFitted, \* whether there is a model of the other family
  ScoreRange    \* scores, 0 the least

\* A data set has users, items, userLabels, itemLabels (sequences of names),
\* labels (name -> sequence of labels), train (user -> sequence of items, by
\* number), test (user -> set of items), samples (how many click samples to
\* train with), positive and negative (how many to test).

ASSUME ModelFitAssumption ==
  /\ Len(LoadedData) \in Nat \ {0} /\ DOMAIN LoadedData = 1 .. Len(LoadedData)
  /\ \A d \in ToSet(LoadedData) : Len(d.users) \in Nat /\ DOMAIN d.users = 1 .. Len(d.users)
  /\ ScoreRange \subseteq Nat

VARIABLES
  family, generation,
  negatives,   \* test set: whether rows of negatives are made, users whose row is filled
  raced,       \* two tasks made negatives at once, or one took them while the other made them
  fitting,     \* task -> its fit
  lastFitted,      \* sizes of the data that was last fitted
  served,      \* the model of the master
  name,        \* Master.rankingModelName
  saved,       \* the file of the local cache, as far as the model is concerned
  study,       \* ModelSearcher.Fit
  lastSearched,    \* sizes of the data that was last searched
  searcher     \* the best model ModelSearcher knows, and its score

negativeVars == <<negatives, raced>>
modelVars == <<lastFitted, served, name, saved>>
searchTaskVars == <<study, lastSearched, searcher>>
fitVars == <<family, generation, negativeVars, fitting, modelVars, searchTaskVars>>

Task == {"fit", "search"}
data == LoadedData[generation]

----------------------------------------------------------------------------
(* Models.                                                                 *)

NoNames == [s \in ToSet(Spaces) |-> <<>>]
IndexOf(d) == BuildIndex(d.users, d.items, d.userLabels, d.itemLabels)
Names(index) == UNION {{<<s, index[s][n]>> : n \in DOMAIN index[s]} : s \in DOMAIN index}
HasRow(index, x) == Contains(index[x[1]], x[2])

\* Matrices for users and for items, or one for the whole unified index.
Blocks(kind) == IF kind = "fm" THEN {"all"} ELSE {"user", "item"}
BlockLen(index, block) == IF block = "all" THEN IndexLen(index, Spaces) ELSE Len(index[block])
PlaceOf(kind, index, x) ==
  IF kind = "fm" THEN <<"all", Encode(index, x[1], x[2])>> ELSE <<x[1], ToNumber(index[x[1]], x[2])>>
RowOf(model, x) == LET at == PlaceOf(model.kind, model.index, x) IN model.rows[at[1]][at[2]]

\* NewBPR, NewCCD, NewFM, and a model after Clear.
NewModel(kind, params) ==
  [kind |-> kind, params |-> params, index |-> NoNames, rows |-> [b \in Blocks(kind) |-> <<>>],
   predictable |-> [user |-> {}, item |-> {}], weights |-> 0]
Invalid(model) == model.index = NoNames

\* Bug: rows stay where they are
Unmoved(model, index) ==
  [b \in Blocks(model.kind) |-> [n \in 1 .. BlockLen(index, b) |->
     LET x == CHOOSE y \in Names(index) : PlaceOf(model.kind, index, y) = <<b, n>>
     IN  IF HasRow(model.index, x) /\ n \in DOMAIN model.rows[b] THEN model.rows[b][n] ELSE x]]

\* "Relocate parameters": what has a row keeps it, at its new place.
Relocated(model, index) ==
  [b \in Blocks(model.kind) |-> [n \in 1 .. BlockLen(index, b) |->
     LET x == CHOOSE y \in Names(index) : PlaceOf(model.kind, index, y) = <<b, n>>
     IN  IF HasRow(model.index, x) THEN RowOf(model, x) ELSE x]]

LikedBy(d, i) == {u \in DOMAIN d.train : Contains(d.train[u], i)}
Predictable(d) ==
  [user |-> {u \in DOMAIN d.train : d.train[u] # <<>>}, item |-> {i \in DOMAIN d.items : LikedBy(d, i) # {}}]
Initialized(model, d) ==
  [model EXCEPT !.rows = Relocated(model, IndexOf(d)), !.index = IndexOf(d), !.predictable = Predictable(d)]

\* Predict: the rows that are read; names that are not known are left out, and
\* with one of them a matrix factorization predicts nothing.
Features(index, asked) == SelectSeq([n \in DOMAIN asked |-> Encode(index, asked[n][1], asked[n][2])],
    LAMBDA n : n # NotId)
PredictsFactors(model, user, item) ==
  IF HasRow(model.index, <<"user", user>>) /\ HasRow(model.index, <<"item", item>>)
  THEN {RowOf(model, <<"user", user>>), RowOf(model, <<"item", item>>)} ELSE {}
PredictsFeatures(model, asked) == {model.rows["all"][n] : n \in ToSet(Features(model.index, asked))}
Queried(d, user, item) ==
  <<<<"user", user>>, <<"item", item>>>> \o [n \in DOMAIN d.labels[user] |-> <<"user label", d.labels[user][n]>>]
    \o [n \in DOMAIN d.labels[item] |-> <<"item label", d.labels[item][n]>>]

\* MarshalModel writes one part after the other, UnmarshalModel reads them.
MarshaledFactors(model) ==
  <<model.kind, model.params, model.index["user"], model.index["item"],
    model.predictable.user, model.predictable.item, model.rows["user"], model.rows["item"], model.weights>>
MarshaledFeatures(model) ==
  <<"FM", model.params, model.index["user"], model.index["item"], model.index["user label"],
    model.index["item label"], model.index["context label"], model.weights, model.rows["all"]>>
Marshaled(model) == IF model.kind = "fm" THEN MarshaledFeatures(model) ELSE MarshaledFactors(model)
Indices(s) == [n \in ToSet(Spaces) |-> IF n \in {"user", "item"} \/ s[1] = "FM" THEN s[2 + ToNumber(Spaces, n)]
    ELSE <<>>]
UnmarshaledFactors(s) ==
  [NewModel(s[1], s[2]) EXCEPT !.index = Indices(s), !.predictable = [user |-> s[5], item |-> s[6]],
     !.rows = [user |-> s[7], item |-> s[8]], !.weights = s[9]]
UnmarshaledFeatures(s) ==
  [NewModel("fm", s[2]) EXCEPT !.index = Indices(s), !.weights = s[8], !.rows = ("all" :> s[9])]
Unmarshaled(s) == IF s[1] = "FM" THEN UnmarshaledFeatures(s) ELSE UnmarshaledFactors(s)

\* GetRankingModel, GetClickModel and Pull, and the file of the local cache
Received(model) == Unmarshaled(Marshaled(model))

----------------------------------------------------------------------------
(* Scores: NDCG of a ranking model; AUC and precision of a click model.    *)

Zero == [value |-> 0, precision |-> 0]
Measurable ==
  IF family = "ranking" THEN [value : ScoreRange, precision : {0}]
  ELSE [value : IF data.positive * data.negative = 0 THEN {0} ELSE ScoreRange,
        precision : IF data.positive = 0 THEN {0} ELSE ScoreRange]

\* Bug: the snapshot is what is being trained
AddSnapshotUncopied(best, score, epoch) ==
  IF best.none \/ score.value > best.score.value THEN [score |-> score, weights |-> epoch + 1, none |-> FALSE]
      ELSE best
AddSnapshot(best, score, epoch) ==
  IF best.none \/ score.value > best.score.value THEN [score |-> score, weights |-> epoch, none |-> FALSE] ELSE best

----------------------------------------------------------------------------
(* One fit: BPR.Fit, CCD.Fit and FM.Fit.                                   *)

\* log, fair: history, what was measured, and whether with all the negatives
NoSnapshot == [score |-> Zero, weights |-> 0, none |-> TRUE]
NoFit == [stage |-> "idle"]
Fits(model) ==
  [stage |-> "evaluate", model |-> Initialized(model, data), epoch |-> 0, left |-> 0, user |-> NotId,
   row |-> 0, best |-> NoSnapshot, log |-> {}, fair |-> TRUE]

Rated(f, score, fair) ==
  [f EXCEPT !.best = AddSnapshot(@, score, f.epoch), !.log = @ \cup {<<f.epoch, score>>}, !.fair = @ /\ fair,
            !.stage = IF f.epoch = Epochs[f.model.kind] THEN "restore" ELSE "train"]
EpochEnds(f) ==
  [f EXCEPT !.epoch = @ + 1, !.left = 0, !.user = NotId,
            !.stage = IF (f.epoch + 1) % Verbose = 0 \/ f.epoch + 1 = Epochs[f.model.kind] THEN "evaluate"
                ELSE "train"]

\* DataSet.Count; UserCount, ItemCount and Count
Feedback == FoldLeft(LAMBDA n, rows : n + Len(rows), 0, data.train)
Sizes == <<Len(data.users), Len(data.items), IF family = "ranking" THEN Feedback ELSE data.samples>>
Empty(sizes) == \E k \in DOMAIN sizes : sizes[k] = 0

Step(p, stage, f) == fitting[p].stage = stage /\ fitting' = [fitting EXCEPT ![p] = f]
FitOnly == UNCHANGED <<family, generation, modelVars, searchTaskVars>>

\* NegativeSample, without a lock: who finds no rows makes them, empty first,
\* and fills one after the other.
AllFilled == DOMAIN data.users \subseteq negatives.filled
LooksForNegatives(p) ==
  /\ family = "ranking"
  /\ Step(p, "evaluate", [fitting[p] EXCEPT !.stage = IF negatives.made THEN "rank" ELSE "make"])
  /\ raced' = (raced \/ (negatives.made /\ ~AllFilled))
  /\ UNCHANGED negatives /\ FitOnly

MakesNegatives(p) ==
  /\ Step(p, "make", [fitting[p] EXCEPT !.stage = "sample", !.row = 1])
  /\ negatives' = [made |-> TRUE, filled |-> {}]
  /\ raced' = (raced \/ negatives.made)
  /\ FitOnly

SamplesNegatives(p) ==
  /\ Step(p, "sample", IF fitting[p].row = Len(data.users) THEN [fitting[p] EXCEPT !.stage = "rank", !.row = 0]
                       ELSE [fitting[p] EXCEPT !.row = @ + 1])
  /\ negatives' = [negatives EXCEPT !.filled = @ \cup {fitting[p].row}]
  /\ UNCHANGED raced /\ FitOnly

\* Evaluate of ranking, the users at once.
EvaluatesRanking(p) ==
  /\ \E score \in Measurable : Step(p, "rank", Rated(fitting[p], score, AllFilled))
  /\ UNCHANGED negativeVars /\ FitOnly

\* EvaluateClassification
Classifies(p) ==
  /\ family = "click"
  /\ \E score \in Measurable : Step(p, "evaluate", Rated(fitting[p], score, TRUE))
  /\ UNCHANGED negativeVars /\ FitOnly

\* "model diverged": its last epochs have cost that is no number.
Diverges(p) ==
  /\ family = "click" /\ fitting[p].stage = "evaluate" /\ fitting[p].epoch > 0
  /\ fitting' = [fitting EXCEPT ![p].stage = "restore"]
  /\ UNCHANGED negativeVars /\ FitOnly

\* An epoch of CCD and FM goes over all there is; BPR draws as many samples as
\* there is feedback: a user who has some, and an item he has none to.
Trains(p) ==
  /\ Step(p, "train", IF fitting[p].model.kind = "bpr"
                      THEN [fitting[p] EXCEPT !.stage = "draw", !.left = Feedback] ELSE EpochEnds(fitting[p]))
  /\ UNCHANGED negativeVars /\ FitOnly

DrawsUser(p) ==
  /\ fitting[p].stage = "draw" /\ fitting[p].user = NotId
  /\ \E u \in {v \in DOMAIN data.train : data.train[v] # <<>>} : fitting' = [fitting EXCEPT ![p].user = u]
  /\ UNCHANGED negativeVars /\ FitOnly

\* Items he has feedback to are drawn again.
DrawsNegative(p) ==
  /\ Step(p, "draw", IF fitting[p].left = 1 THEN EpochEnds(fitting[p])
                     ELSE [fitting[p] EXCEPT !.left = @ - 1, !.user = NotId])
  /\ fitting[p].user # NotId /\ \E i \in DOMAIN data.items : ~Contains(data.train[fitting[p].user], i)
  /\ UNCHANGED negativeVars /\ FitOnly

\* "restore best snapshot"
Restores(p) ==
  /\ Step(p, "restore", [fitting[p] EXCEPT !.stage = "done", !.model.weights = fitting[p].best.weights])
  /\ UNCHANGED negativeVars /\ FitOnly

FitGoesOn(p) ==
  \/ LooksForNegatives(p) \/ MakesNegatives(p) \/ SamplesNegatives(p) \/ EvaluatesRanking(p)
  \/ Classifies(p) \/ Diverges(p) \/ Trains(p) \/ DrawsUser(p) \/ DrawsNegative(p) \/ Restores(p)

----------------------------------------------------------------------------
(* The tasks, which a loop runs again and again.                           *)

Kinds == IF family = "ranking" THEN <<"bpr", "ccd">> ELSE <<"fm">>
Missing == [none |-> TRUE]
NoneKnown == [model |-> Missing, score |-> Zero]
SearchOf(kinds) == [kinds |-> kinds, trials |-> <<>>, best |-> Missing]
NoSearch == SearchOf(<<>>)
NoSizes == <<0, 0, 0>>
WithScore(model, score) == [model |-> model, score |-> score]
FirstServed == WithScore(NewModel(Kinds[1], "none"), Zero)

ModelFitInit ==
  /\ family \in Families /\ generation = 1
  /\ negatives = [made |-> FALSE, filled |-> {}] /\ raced = FALSE
  /\ fitting = [p \in Task |-> NoFit]
  /\ lastFitted = NoSizes /\ served = FirstServed /\ name = Kinds[1] /\ saved = Missing
  /\ study = NoSearch /\ lastSearched = NoSizes /\ searcher = NoneKnown

\* The searcher's model takes the place of the current one if it is another and
\* better; ranking models are others also by their name, which ModelSearcher
\* leaves empty, click models are better by their precision, not by what the
\* search has compared.
Adopts ==
  /\ searcher.model # Missing
  /\ ~Invalid(searcher.model)
  /\ searcher.model.params # served.model.params \/ (family = "ranking" /\ name # "")
  /\ IF family = "ranking" THEN searcher.score.value > served.score.value
     ELSE searcher.score.precision > served.score.precision
TakesBetter ==
  /\ served' = IF Adopts THEN WithScore(searcher.model, searcher.score) ELSE served
  /\ name' = IF Adopts /\ family = "ranking" THEN "" ELSE name

\* FitRankingModelTask takes the better model before it looks at the data, and
\* judges by the number of feedback whether that is new; FitClickModelTask also
\* by the numbers of users and items.
NewData == IF family = "ranking" THEN lastFitted[3] # Sizes[3] ELSE lastFitted # Sizes
HasData == IF family = "ranking" THEN Sizes[3] # 0 ELSE ~Empty(Sizes)
FitTaskBegins ==
  /\ fitting["fit"].stage = "idle"
  /\ HasData /\ (NewData \/ Adopts)
  /\ TakesBetter
  /\ Step("fit", "idle", Fits(served'.model))
  /\ UNCHANGED <<family, generation, negativeVars, lastFitted, saved, searchTaskVars>>

FitTaskSkips ==
  /\ fitting["fit"].stage = "idle"
  /\ family = "ranking" /\ Adopts /\ ~HasData
  /\ TakesBetter
  /\ UNCHANGED <<family, generation, negativeVars, fitting, lastFitted, saved, searchTaskVars>>

\* The file of the local cache is written if it can hold models of both families.
FitTaskEnds ==
  /\ Step("fit", "done", NoFit)
  /\ served' = WithScore(fitting["fit"].model, fitting["fit"].best.score)
  /\ lastFitted' = Sizes
  /\ saved' = IF OtherIsFitted THEN [stream |-> Marshaled(served'.model), score |-> served'.score, name |-> name]
              ELSE saved
  /\ UNCHANGED <<family, generation, negativeVars, name, searchTaskVars>>

SearchTaskBegins ==
  /\ fitting["search"].stage = "idle" /\ study = NoSearch
  /\ ~Empty(Sizes) /\ lastSearched # Sizes
  /\ study' = SearchOf(Kinds)
  /\ UNCHANGED <<family, generation, negativeVars, fitting, modelVars, lastSearched, searcher>>

\* RandomSearchCV; a grid with fewer combinations than trials (for click models
\* not more) is searched by GridSearchCV, each once.
UsesGrid(kind) ==
  Cardinality(Grid[kind]) < NumTrials \/ (kind = "fm" /\ Cardinality(Grid[kind]) = NumTrials)
TrialsOf(kind) == IF UsesGrid(kind) THEN Cardinality(Grid[kind]) ELSE NumTrials
GridLeft(kind) == Grid[kind] \ {study.trials[k].params : k \in DOMAIN study.trials}

TrialBegins ==
  /\ study.kinds # <<>> /\ Len(study.trials) < TrialsOf(Head(study.kinds))
  /\ LET kind == Head(study.kinds) IN
       \E params \in IF UsesGrid(kind) THEN GridLeft(kind) ELSE Grid[kind] :
         Step("search", "idle", Fits(NewModel(kind, params)))
  /\ UNCHANGED <<family, generation, negativeVars, modelVars, searchTaskVars>>

\* The first score is not taken as it is: the zero that stands for no score is
\* not beaten by a zero, unless scores have a task.
Beats(score, best) ==
  IF best = Missing THEN score.value > 0 \/ family = "click" ELSE score.value > best.score.value
TrialEnds ==
  /\ Step("search", "done", NoFit)
  /\ LET f == fitting["search"] IN
       study' = [study EXCEPT
         !.trials = Append(@, [params |-> f.model.params, score |-> f.best.score]),
         !.best = IF Beats(f.best.score, @) THEN WithScore(f.model, f.best.score) ELSE @]
  /\ UNCHANGED <<family, generation, negativeVars, modelVars, lastSearched, searcher>>

\* What the searcher knows after the trials of a kind of model.
KindIsDone ==
  /\ fitting["search"].stage = "idle"
  /\ study.kinds # <<>> /\ Len(study.trials) = TrialsOf(Head(study.kinds))
BestKnown ==
  IF family = "ranking" /\ searcher.model # Missing
     /\ (study.best = Missing \/ study.best.score.value <= searcher.score.value) THEN searcher
  ELSE IF study.best = Missing THEN NoneKnown ELSE study.best

KindEnds ==
  /\ KindIsDone /\ Len(study.kinds) > 1
  /\ searcher' = BestKnown
  /\ study' = SearchOf(Tail(study.kinds))
  /\ UNCHANGED <<family, generation, negativeVars, fitting, modelVars, lastSearched>>

SearchTaskEnds ==
  /\ KindIsDone /\ Len(study.kinds) = 1 /\ BestKnown # NoneKnown
  /\ searcher' = BestKnown /\ study' = NoSearch /\ lastSearched' = Sizes
  /\ UNCHANGED <<family, generation, negativeVars, fitting, modelVars>>

\* Without any model the log message at the end of a search panics, nothing
\* recovers in the goroutine of a task, and the master starts anew.
SearchPanics ==
  /\ KindIsDone /\ Len(study.kinds) = 1 /\ BestKnown = NoneKnown
  /\ negatives' = [made |-> FALSE, filled |-> {}] /\ raced' = FALSE
  /\ fitting' = [p \in Task |-> NoFit]
  /\ lastFitted' = NoSizes
  /\ IF saved = Missing THEN served' = FirstServed /\ name' = Kinds[1]
     ELSE served' = WithScore(Unmarshaled(saved.stream), saved.score) /\ name' = saved.name
  /\ study' = NoSearch /\ lastSearched' = NoSizes /\ searcher' = NoneKnown
  /\ UNCHANGED <<family, generation, saved>>

\* A load waits until neither task reads the data.
LoadsData ==
  /\ generation < Len(LoadedData) /\ study = NoSearch
  /\ \A p \in Task : fitting[p].stage = "idle"
  /\ generation' = generation + 1
  /\ negatives' = [made |-> FALSE, filled |-> {}] /\ raced' = FALSE
  /\ UNCHANGED <<family, fitting, modelVars, searchTaskVars>>

ModelFitNext ==
  \/ FitTaskBegins \/ FitTaskSkips \/ FitTaskEnds
  \/ SearchTaskBegins \/ TrialBegins \/ TrialEnds \/ KindEnds \/ SearchTaskEnds \/ SearchPanics
  \/ LoadsData
  \/ \E p \in Task : FitGoesOn(p)

ModelFitSpec == ModelFitInit /\ [][ModelFitNext]_fitVars

----------------------------------------------------------------------------
(* Properties *)

\* A fit returns the best score it has measured, and leaves the weights it has
\* measured it with, whatever was trained after them; and it was measured with
\* negative samples, unless the other task was making them at that time
\* (ranking/model.go 489, click/model.go 453, evaluator.go 41).
FitKeepsBest ==
  \A p \in Task : fitting[p].stage = "done" =>
    LET f == fitting[p] IN
      /\ <<f.model.weights, f.best.score>> \in f.log
      /\ \A entry \in f.log : entry[2].value <= f.best.score.value
      /\ f.fair \/ raced

\* What a search has found is one of its trials, none was better, and it is
\* still as it was after that trial although the estimator was used for others
\* (search.go 80: Clone); nothing is found only if every score is zero.
SearchKeepsBest ==
  /\ study.best # Missing =>
       [params |-> study.best.model.params, score |-> study.best.score] \in ToSet(study.trials)
  /\ \A k \in DOMAIN study.trials :
       study.trials[k].score.value <= IF study.best = Missing THEN 0 ELSE study.best.score.value

\* Both, for whatever fit and search (BPR.Fit, FM.Fit, RandomSearchCV).
BestIsKept == FitKeepsBest /\ SearchKeepsBest

\* Everybody with everything.
EveryQuery == UNION {{Queried(d, user, item) : user \in ToSet(d.users), item \in ToSet(d.items)} :
    d \in ToSet(LoadedData)}

\* The features of a sample are those of a prediction for its user and item.
TrainsWhatIsPredicted(d) ==
  LET NumbersOf(space, names) == [k \in DOMAIN names |->
        SelectSeq([j \in DOMAIN d.labels[names[k]] |-> ToNumber(IndexOf(d)[space], d.labels[names[k]][j])],
                  LAMBDA l : l # NotId)]
      Taken(user, item) ==
        Get(IndexOf(d), NumbersOf("user label", d.users), NumbersOf("item label", d.items),
            [user |-> ToNumber(d.users, user), item |-> ToNumber(d.items, item)])
  IN  \A user \in ToSet(d.users), item \in ToSet(d.items) :
        ToSet(Taken(user, item)) = ToSet(Features(IndexOf(d), Queried(d, user, item)))

\* A prediction reads the rows of the user, the item and the labels it is asked
\* for, although indices change from load to load and models are fitted from
\* older ones and sent to workers; and training looks at the features a
\* prediction looks at (Init and Predict of BPR, CCD and FM, Dataset.Get,
\* MarshalModel and UnmarshalModel).  The models are asked between the fits: a
\* fit replaces the model of the master when it ends, and begins with one of them.
PredictionsReadOwnRows ==
  /\ fitting["fit"].stage = "idle" =>
       \A model \in {served.model, Received(served.model)}
              \cup (IF searcher.model = Missing THEN {} ELSE {searcher.model}),
          asked \in EveryQuery :
         LET Known(names) == {x \in names : HasRow(model.index, x)}
             both == {asked[1], asked[2]} IN
           IF model.kind = "fm" THEN PredictsFeatures(model, asked) = Known(ToSet(asked))
           ELSE PredictsFactors(model, asked[1][2], asked[2][2]) = IF Known(both) = both THEN both ELSE {}
  /\ \A p \in Task :
       fitting[p].stage = "train" /\ fitting[p].model.kind = "fm" => TrainsWhatIsPredicted(data)
=============================================================================
