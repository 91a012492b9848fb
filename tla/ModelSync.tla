------------------------------ MODULE ModelSync ------------------------------
(***************************************************************************)
(* How models travel from the master to a worker: GetMeta, GetRankingModel *)
(* and GetClickModel of master/rpc.go; Sync, Pull and Serve of             *)
(* worker/worker.go, three goroutines that share the fields of the worker  *)
(* without a lock and wake each other through condition channels, and the  *)
(* vector index that a recommendation round builds from the ranking model. *)
(*                                                                         *)
(* Workers do not interact here; one is modelled.  The file of the master  *)
(* is written in one step (LocalCacheFile has the steps).                  *)
(***************************************************************************)
EXTENDS MasterModels

VARIABLES
  saved,     \* the file of the local cache: kind -> pair
  meta,      \* kind -> version in the answer of GetMeta
  unread,    \* kinds whose version in meta Sync has not looked at
  latest,    \* kind -> latestRankingModelVersion, latestClickModelVersion
  held,      \* kind -> the worker's model, the version it is labelled with,
             \* and (history) the version the master served it under
  synced,    \* syncedChan holds a signal
  pull,      \* what Pull does with the kind it is at, see PullStep
  unpulled,  \* kinds Pull has still to look at
  answer,    \* the model in the answer that Pull waits for
  wanted,    \* the version Pull asked for
  gotAny,    \* pulled: some model was pulled in this turn
  pulled,    \* pulledChan holds a signal
  serve,     \* what the loop of Serve does
  index,     \* the ranking model rankingIndex was built from
  building   \* the ranking model an index is being built from

syncVars == <<meta, unread, latest, synced>>
pullVars == <<held, pull, unpulled, answer, wanted, gotAny>>
serveVars == <<serve, building>>
workerVars == <<syncVars, pullVars, serveVars, pulled, index>>
nodeVars == <<masterVars, saved, workerVars>>

PullStep == {"wait", "compare", "asked", "answered", "stored"}
ServeStep == {"idle", "begun", "building", "users"}

\* Sync and Pull look at the ranking model first.
Next1(kinds) == IF "ranking" \in kinds THEN "ranking" ELSE "click"

Nothing == [model |-> 0, version |-> 0, servedAs |-> 0]

SyncInit ==
  /\ MasterInit
  /\ saved = [k \in Kind |-> NoModel]
  /\ meta = [k \in Kind |-> 0]
  /\ unread = {}
  /\ latest = [k \in Kind |-> 0]
  /\ held = [k \in Kind |-> Nothing]
  /\ synced = FALSE
  /\ pull = "wait"
  /\ unpulled = {}
  /\ answer = Nothing
  /\ wanted = 0
  /\ gotAny = FALSE
  /\ pulled = FALSE
  /\ serve = "idle"
  /\ index = 0
  /\ building = 0

----------------------------------------------------------------------------
(* Master *)

MasterStep ==
  /\ (\E k \in Kind : FitStep(k)) \/ RankingOnlySearched
  /\ UNCHANGED <<saved, workerVars>>

Saves(k) ==
  /\ BeginsFile(k)
  /\ UNCHANGED <<saved, workerVars>>

EndsSaving(k) ==
  /\ EndsFile(k)
  /\ saved' = cache
  /\ UNCHANGED workerVars

MasterRestarts ==
  /\ Restarts(saved)
  /\ UNCHANGED <<saved, workerVars>>

----------------------------------------------------------------------------
(* Sync *)

\* GetMeta; when it fails, Sync asks again after a pause.
GetMeta ==
  /\ unread = {}
  /\ meta' = [k \in Kind |-> IF model[k] # 0 THEN version[k] ELSE 0]
  /\ unread' = Kind
  /\ UNCHANGED <<masterVars, saved, latest, synced, pullVars, serveVars, pulled, index>>

\* Bug: Pull is woken only when the master's version has changed.
SignalsChangesOnly(k) ==
  /\ k \in unread /\ k = Next1(unread)
  /\ unread' = unread \ {k}
  /\ latest' = [latest EXCEPT ![k] = meta[k]]
  /\ synced' = (synced \/ latest[k] # meta[k])
  /\ UNCHANGED <<masterVars, saved, meta, pullVars, serveVars, pulled, index>>

SyncReads(k) ==
  /\ k \in unread /\ k = Next1(unread)
  /\ unread' = unread \ {k}
  /\ latest' = [latest EXCEPT ![k] = meta[k]]
  /\ synced' = (synced \/ meta[k] # held[k].version)
  /\ UNCHANGED <<masterVars, saved, meta, pullVars, serveVars, pulled, index>>

----------------------------------------------------------------------------
(* Pull *)

PullWakes ==
  /\ pull = "wait"
  /\ synced
  /\ synced' = FALSE
  /\ pull' = "compare"
  /\ unpulled' = Kind
  /\ gotAny' = FALSE
  /\ UNCHANGED <<masterVars, saved, meta, unread, latest, held, answer, wanted, serveVars, pulled, index>>

\* Nothing to pull, or the call has failed.
Skips(k) ==
  /\ unpulled' = unpulled \ {k}
  /\ pull' = "compare"
  /\ wanted' = 0
  /\ UNCHANGED <<masterVars, saved, syncVars, held, answer, gotAny, serveVars, pulled, index>>

IsCurrent(k) ==
  /\ pull = "compare" /\ k \in unpulled /\ k = Next1(unpulled)
  /\ latest[k] = held[k].version
  /\ Skips(k)

Asks(k) ==
  /\ pull = "compare" /\ k \in unpulled /\ k = Next1(unpulled)
  /\ latest[k] # held[k].version
  /\ pull' = "asked"
  /\ wanted' = latest[k]
  /\ UNCHANGED <<masterVars, saved, syncVars, held, unpulled, answer, gotAny, serveVars, pulled, index>>

\* The master is away, or refuses: no model, or under another version.
CallFails(k) ==
  /\ pull = "asked" /\ k = Next1(unpulled)
  /\ Skips(k)

\* Bug: the version asked for is not compared.
AnswersAnyVersion(k) ==
  /\ pull = "asked" /\ k = Next1(unpulled)
  /\ model[k] # 0
  /\ answer' = [model |-> model[k], version |-> 0, servedAs |-> version[k]]
  /\ pull' = "answered"
  /\ UNCHANGED <<masterVars, saved, syncVars, held, unpulled, wanted, gotAny, serveVars, pulled, index>>

\* GetRankingModel, GetClickModel, under the read lock of the kind.
Answers(k) ==
  /\ pull = "asked" /\ k = Next1(unpulled)
  /\ model[k] # 0
  /\ version[k] = wanted
  /\ answer' = [model |-> model[k], version |-> 0, servedAs |-> version[k]]
  /\ pull' = "answered"
  /\ UNCHANGED <<masterVars, saved, syncVars, held, unpulled, wanted, gotAny, serveVars, pulled, index>>

StoresModel(k) ==
  /\ pull = "answered" /\ k = Next1(unpulled)
  /\ held' = [held EXCEPT ![k] = [answer EXCEPT !.version = held[k].version]]
  /\ pull' = "stored"
  /\ UNCHANGED <<masterVars, saved, syncVars, unpulled, answer, wanted, gotAny, serveVars, pulled, index>>

\* The label is what Sync has stored last, not what was asked for.
StoresVersion(k) ==
  /\ pull = "stored" /\ k = Next1(unpulled)
  /\ held' = [held EXCEPT ![k].version = latest[k]]
  /\ index' = IF k = "ranking" THEN 0 ELSE index
  /\ answer' = Nothing
  /\ wanted' = 0
  /\ gotAny' = TRUE
  /\ pull' = "compare"
  /\ unpulled' = unpulled \ {k}
  /\ UNCHANGED <<masterVars, saved, syncVars, serveVars, pulled>>

\* Bug: the loop of Serve is not told.
PullEndsSilently ==
  /\ pull = "compare" /\ unpulled = {}
  /\ pull' = "wait"
  /\ gotAny' = FALSE
  /\ UNCHANGED <<masterVars, saved, syncVars, held, unpulled, answer, wanted, serveVars, pulled, index>>

PullEnds ==
  /\ pull = "compare" /\ unpulled = {}
  /\ pull' = "wait"
  /\ gotAny' = FALSE
  /\ pulled' = (pulled \/ gotAny)
  /\ UNCHANGED <<masterVars, saved, syncVars, held, unpulled, answer, wanted, serveVars, index>>

----------------------------------------------------------------------------
(* Serve and the index of Recommend *)

TickBegins ==
  /\ serve = "idle"
  /\ serve' = "begun"
  /\ UNCHANGED <<masterVars, saved, syncVars, pullVars, building, pulled, index>>

PulledBegins ==
  /\ serve = "idle"
  /\ pulled
  /\ pulled' = FALSE
  /\ serve' = "begun"
  /\ UNCHANGED <<masterVars, saved, syncVars, pullVars, building, index>>

\* No users or items could be pulled, or there is no index to build.
SkipsIndex ==
  /\ serve = "begun"
  /\ serve' = "users"
  /\ UNCHANGED <<masterVars, saved, syncVars, pullVars, building, pulled, index>>

BuildsIndex ==
  /\ serve = "begun"
  /\ "ranking" \in Kind
  /\ held["ranking"].model # 0
  /\ index = 0
  /\ building' = held["ranking"].model
  /\ serve' = "building"
  /\ UNCHANGED <<masterVars, saved, syncVars, pullVars, pulled, index>>

IndexIsBuilt ==
  /\ serve = "building"
  /\ index' = building
  /\ building' = 0
  /\ serve' = "users"
  /\ UNCHANGED <<masterVars, saved, syncVars, pullVars, pulled>>

\* The users have their recommendations.
RoundEnds ==
  /\ serve = "users"
  /\ serve' = "idle"
  /\ UNCHANGED <<masterVars, saved, syncVars, pullVars, building, pulled, index>>

MasterNext ==
  \/ MasterStep
  \/ \E k \in Kind : Saves(k) \/ EndsSaving(k)
  \/ MasterRestarts

PullNext ==
  \/ PullWakes \/ PullEnds
  \/ \E k \in Kind : IsCurrent(k) \/ Asks(k) \/ StoresModel(k) \/ StoresVersion(k)

ServeNext == SkipsIndex \/ BuildsIndex \/ IndexIsBuilt \/ RoundEnds

SyncNext ==
  \/ MasterNext
  \/ GetMeta
  \/ \E k \in Kind : SyncReads(k)
  \/ PullNext
  \/ \E k \in Kind : Answers(k) \/ CallFails(k)
  \/ TickBegins \/ PulledBegins \/ ServeNext

\* The goroutines of the worker go on.  A call ends, and one that is repeated
\* for ever gets its answer in the end, and select does not prefer the ticker
\* for ever.  The master may stop fitting, and the ticker need not fire.
SyncFairness ==
  /\ WF_nodeVars(GetMeta)
  /\ \A k \in Kind : /\ WF_nodeVars(SyncReads(k))
                    /\ WF_nodeVars(Answers(k) \/ CallFails(k))
                    /\ SF_nodeVars(Answers(k))
  /\ WF_nodeVars(PullNext)
  /\ WF_nodeVars(ServeNext)
  /\ SF_nodeVars(PulledBegins)

SyncSafeSpec == SyncInit /\ [][SyncNext]_nodeVars
SyncSpec == SyncSafeSpec /\ SyncFairness

----------------------------------------------------------------------------
FlagsOK == synced \in BOOLEAN /\ gotAny \in BOOLEAN /\ pulled \in BOOLEAN

\* The fields of the master and the worker hold what they can hold; Pull is
\* never at a call without a kind left to pull.
SyncTypeOK ==
  /\ MasterTypeOK
  /\ saved \in [Kind -> Pair]
  /\ meta \in [Kind -> Nat]
  /\ unread \subseteq Kind /\ unpulled \subseteq Kind
  /\ latest \in [Kind -> Nat]
  /\ held \in [Kind -> [model : 0..made, version : Nat, servedAs : Nat]]
  /\ answer \in [model : 0..made, version : Nat, servedAs : Nat]
  /\ wanted \in Nat
  /\ pull \in PullStep /\ serve \in ServeStep
  /\ FlagsOK
  /\ pull \in {"asked", "answered", "stored"} => unpulled # {}
  /\ index \in 0..made /\ building \in 0..made

\* The worker has stored a model but not its version.
BetweenStores(k) == pull = "stored" /\ k = Next1(unpulled)

\* Unless the master restarts, a model is never labelled older than the
\* version it was served under: Pull cannot take a new model for an old one
\* and pull it again and again.
LabelNotBehind ==
  restarts = 0 =>
    \A k \in Kind : BetweenStores(k) \/ held[k].servedAs <= held[k].version

\* The worker's labels become the master's versions once fitting stops,
\* although calls fail, answers come late and a restart turns versions back.
LabelsConverge ==
  <>[](\A k \in Kind : model[k] # 0 => held[k].version = version[k])

\* ... and with them the models themselves: once fitting stops the worker has
\* the models the master serves ("Pull user index and ranking model from
\* master", worker.go 257).
ModelsConverge ==
  <>[](\A k \in Kind : model[k] # 0 => held[k].model = model[k])

\* A pulled model is put to use in a round of recommendations, even if the
\* ticker never fires and a round was under way when it arrived.
PulledIsUsed == gotAny ~> serve = "begun"
=============================================================================
