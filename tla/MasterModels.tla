---------------------------- MODULE MasterModels ----------------------------
(***************************************************************************)
(* The two models of the master (master/tasks.go, rpc.go, master.go): the  *)
(* collaborative filtering model ("ranking") and the click-through model   *)
(* ("click").  A fit task may first take over a better model that the      *)
(* searcher found, fits a clone, publishes it under the next version and   *)
(* puts both in the local cache, from which a file is written.             *)
(*                                                                         *)
(* How the file is written and read is left to the modules that extend     *)
(* this one.  A model is a number, 0 for none; no number is used twice.    *)
(***************************************************************************)
EXTENDS Naturals

CONSTANTS
  Kind,          \* the models there are, in a small instance only one
  MaxFits,       \* bound: fits of each kind
  MaxSearched,   \* bound: searched models taken over
  MaxRestarts,   \* bound: restarts of the master
  Spread         \* distance of the first versions, see RandomVersion

ASSUME ModelsAssumption ==
  /\ Kind \subseteq {"ranking", "click"}
  /\ {MaxFits, MaxSearched, MaxRestarts, Spread} \subseteq Nat
  /\ Spread > MaxFits

VARIABLES
  model,      \* what GetRankingModel and GetClickModel serve
  version,    \* ... and the version they serve it under
  fit,        \* where the fit task of a kind is
  cache,      \* Master.localCache
  made,       \* models made so far
  fits,       \* kind -> fits begun
  searched,   \* searched models taken over
  restarts

masterVars == <<model, version, fit, cache, made, fits, searched, restarts>>

\* fitting    a clone is being fitted
\* published  the clone was published, the local cache not set
\* cached     the local cache was set; the file is to be written
FitStage == {"idle", "fitting", "published", "cached", "writing"}

Pair == [version : Nat, model : Nat]

NoModel == [version |-> 0, model |-> 0]

\* rand.Int63 at the start of the process: far from any version used before.
RandomVersion(n) == (n + 1) * Spread

\* The version Serve starts with when the file yields a pair.
FirstVersion(pair, n) == IF pair.model # 0 THEN pair.version ELSE RandomVersion(n)

MasterInit ==
  /\ cache = [k \in Kind |-> NoModel]
  /\ model = [k \in Kind |-> 0]
  /\ version = [k \in Kind |-> FirstVersion(NoModel, 0)]
  /\ fit = [k \in Kind |-> "idle"]
  /\ made = 0
  /\ fits = [k \in Kind |-> 0]
  /\ searched = 0
  /\ restarts = 0

\* Shutdown or crash, then Serve with the pairs that were loaded.
Restarts(loaded) ==
  /\ restarts < MaxRestarts
  /\ restarts' = restarts + 1
  /\ cache' = loaded
  /\ model' = [k \in Kind |-> loaded[k].model]
  /\ version' = [k \in Kind |-> FirstVersion(loaded[k], restarts')]
  /\ fit' = [k \in Kind |-> "idle"]
  /\ UNCHANGED <<made, fits, searched>>

\* The searcher's best model differs from the current one and is better: it
\* is served from now on, under the old version.
TakesSearched(k) ==
  /\ searched < MaxSearched
  /\ searched' = searched + 1
  /\ made' = made + 1
  /\ model' = [model EXCEPT ![k] = made + 1]

FitBegins(k) ==
  /\ fit[k] = "idle"
  /\ fits[k] < MaxFits
  /\ fits' = [fits EXCEPT ![k] = @ + 1]
  /\ fit' = [fit EXCEPT ![k] = "fitting"]
  /\ TakesSearched(k) \/ UNCHANGED <<searched, made, model>>
  /\ UNCHANGED <<version, cache, restarts>>

\* The ranking task looks at the searcher before it finds no feedback.
RankingOnlySearched ==
  /\ "ranking" \in Kind
  /\ fit["ranking"] = "idle"
  /\ TakesSearched("ranking")
  /\ UNCHANGED <<version, fit, cache, fits, restarts>>

\* Under the write lock of the kind.
Publishes(k) ==
  /\ fit[k] = "fitting"
  /\ fit' = [fit EXCEPT ![k] = "published"]
  /\ made' = made + 1
  /\ model' = [model EXCEPT ![k] = made + 1]
  /\ version' = [version EXCEPT ![k] = @ + 1]
  /\ UNCHANGED <<cache, fits, searched, restarts>>

\* Under the read lock of the kind.
Caches(k) ==
  /\ fit[k] = "published"
  /\ fit' = [fit EXCEPT ![k] = "cached"]
  /\ cache' = [cache EXCEPT ![k] = [version |-> version[k], model |-> model[k]]]
  /\ UNCHANGED <<model, version, made, fits, searched, restarts>>

\* "wait click model", "wait ranking model"
SkipsFile(k) ==
  /\ fit[k] = "cached"
  /\ \E j \in Kind \ {k} : cache[j].model = 0
  /\ fit' = [fit EXCEPT ![k] = "idle"]
  /\ UNCHANGED <<model, version, cache, made, fits, searched, restarts>>

BeginsFile(k) ==
  /\ fit[k] = "cached"
  /\ \A j \in Kind \ {k} : cache[j].model # 0
  /\ fit' = [fit EXCEPT ![k] = "writing"]
  /\ UNCHANGED <<model, version, cache, made, fits, searched, restarts>>

EndsFile(k) ==
  /\ fit[k] = "writing"
  /\ fit' = [fit EXCEPT ![k] = "idle"]
  /\ UNCHANGED <<model, version, cache, made, fits, searched, restarts>>

FitStep(k) == FitBegins(k) \/ Publishes(k) \/ Caches(k) \/ SkipsFile(k)

\* The fields of the master hold what they can hold.
MasterTypeOK ==
  /\ model \in [Kind -> 0..made]
  /\ version \in [Kind -> Nat]
  /\ fit \in [Kind -> FitStage]
  /\ cache \in [Kind -> Pair]
  /\ made \in Nat
  /\ fits \in [Kind -> 0..MaxFits]
  /\ searched \in 0..MaxSearched
  /\ restarts \in 0..MaxRestarts
=============================================================================
