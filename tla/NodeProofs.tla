----------------------------- MODULE NodeProofs -----------------------------
(***************************************************************************)
(* What holds of the nodes that follow a master: of a server that pulls    *)
(* its models (ModelSync), for any models, crashes and failures, and of    *)
(* the nodes of a cluster (Cluster), for any number of machines, users,    *)
(* configurations, crashes and failures.                                   *)
(***************************************************************************)
EXTENDS ModelSync, Cluster, WellFoundedInduction, TLAPS

\* The files and caches hold models that were made.
TypeInv ==
  /\ SyncTypeOK
  /\ \A k \in Kind : cache[k].model \in 0..made /\ saved[k].model \in 0..made

LEMMA InitialType == SyncInit => TypeInv
<1> SUFFICES ASSUME SyncInit PROVE TypeInv OBVIOUS
<1> USE ModelsAssumption
<1>1. \A k \in Kind : FirstVersion(NoModel, 0) = Spread
  BY DEF FirstVersion, NoModel, RandomVersion
<1>2. version \in [Kind -> Nat]
  BY <1>1 DEF SyncInit, MasterInit
<1>3. MasterTypeOK
  BY <1>2 DEF SyncInit, MasterInit, MasterTypeOK, Pair, NoModel, FitStage
<1>4. FlagsOK
  BY Zenon DEF SyncInit, FlagsOK
<1>5. SyncTypeOK
  BY <1>3, <1>4 DEF SyncInit, MasterInit, SyncTypeOK, Pair, NoModel, Nothing, PullStep, ServeStep
<1> QED BY <1>5 DEF SyncInit, MasterInit, TypeInv, NoModel

\* The steps of the master.
LEMMA MasterStepType ==
  ASSUME TypeInv, MasterNext
  PROVE  TypeInv'
<1>0. workerVars' = workerVars
  BY Zenon DEF MasterNext, MasterStep, Saves, EndsSaving, MasterRestarts
<1>a. FlagsOK'
  BY <1>0, Zenon DEF TypeInv, SyncTypeOK, FlagsOK, workerVars, syncVars, pullVars
<1>b. MaxFits \in Nat /\ MaxSearched \in Nat /\ MaxRestarts \in Nat /\ Spread \in Nat
  BY ModelsAssumption
<1> USE <1>a, <1>b DEF TypeInv, SyncTypeOK, MasterTypeOK, Pair, FitStage
<1>1. ASSUME NEW k \in Kind, FitStep(k), UNCHANGED <<saved, workerVars>>
      PROVE  TypeInv'
  <2> USE <1>1 DEF workerVars, syncVars, pullVars, serveVars
  <2>1. CASE FitBegins(k)
    <3>1. CASE TakesSearched(k)
      BY <2>1, <3>1, SMTT(30) DEF FitBegins, TakesSearched
    <3>2. CASE UNCHANGED <<searched, made, model>>
      BY <2>1, <3>2, SMTT(30) DEF FitBegins
    <3> QED BY <2>1, <3>1, <3>2 DEF FitBegins
  <2>2. CASE Publishes(k)
    BY <2>2, SMTT(30) DEF Publishes
  <2>3. CASE Caches(k)
    BY <2>3, SMTT(30) DEF Caches
  <2>4. CASE SkipsFile(k)
    BY <2>4, SMTT(30) DEF SkipsFile
  <2> QED BY <1>1, <2>1, <2>2, <2>3, <2>4 DEF FitStep
<1>2. ASSUME RankingOnlySearched, UNCHANGED <<saved, workerVars>>
      PROVE  TypeInv'
  BY <1>2, SMTT(30) DEF RankingOnlySearched, TakesSearched, workerVars, syncVars, pullVars, serveVars
<1>3. ASSUME NEW k \in Kind, Saves(k)
      PROVE  TypeInv'
  BY <1>3, SMTT(30) DEF Saves, BeginsFile, workerVars, syncVars, pullVars, serveVars
<1>4. ASSUME NEW k \in Kind, EndsSaving(k)
      PROVE  TypeInv'
  BY <1>4, SMTT(30) DEF EndsSaving, EndsFile, workerVars, syncVars, pullVars, serveVars
<1>5. ASSUME MasterRestarts
      PROVE  TypeInv'
  <2> USE <1>5 DEF MasterRestarts, Restarts
  <2>1. restarts' \in 0..MaxRestarts
    OBVIOUS
  <2>2. \A k \in Kind : FirstVersion(saved[k], restarts') \in Nat
    BY <2>1 DEF FirstVersion, RandomVersion
  <2>3. version' \in [Kind -> Nat]
    BY <2>2
  <2> HIDE <1>5
  <2>4. /\ cache' = saved /\ model' = [k \in Kind |-> saved[k].model]
        /\ fit' = [k \in Kind |-> "idle"] /\ UNCHANGED <<made, fits, searched, saved>>
    BY <1>5
  <2>5. UNCHANGED <<meta, unread, unpulled, latest, held, answer, wanted, pull, serve, index, building>>
    BY <1>0, Zenon DEF workerVars, syncVars, pullVars, serveVars
  <2> QED BY <2>1, <2>3, <2>4, <2>5, SMTT(30)
<1> QED BY <1>1, <1>2, <1>3, <1>4, <1>5 DEF MasterNext, MasterStep

\* The steps of the worker; the variables of the master stay.
LEMMA WorkerStepType ==
  ASSUME TypeInv, SyncNext, ~MasterNext
  PROVE  TypeInv'
<1> USE ModelsAssumption DEF masterVars, syncVars, pullVars, serveVars
<1>0. FlagsOK'
  BY Zenon DEF TypeInv, SyncTypeOK, FlagsOK, SyncNext, PullNext, ServeNext, GetMeta, SyncReads, PullWakes, PullEnds,
     IsCurrent, CallFails, Skips, Asks, Answers, StoresModel, StoresVersion, TickBegins, PulledBegins,
     SkipsIndex, BuildsIndex, IndexIsBuilt, RoundEnds
<1> USE <1>0 DEF TypeInv, SyncTypeOK, MasterTypeOK, PullStep, ServeStep
<1>1. ASSUME GetMeta PROVE TypeInv'
  BY <1>1, SMTT(30) DEF GetMeta
<1>2. ASSUME NEW k \in Kind, SyncReads(k) PROVE TypeInv'
  <2>1. /\ unread' = unread \ {k} /\ latest' = [latest EXCEPT ![k] = meta[k]]
        /\ UNCHANGED <<masterVars, saved, meta, pullVars, serveVars, index>>
    BY <1>2, Zenon DEF SyncReads
  <2> QED BY <2>1, SMTT(30)
<1>3. ASSUME PullWakes PROVE TypeInv'
  BY <1>3, SMTT(30) DEF PullWakes
<1>4. ASSUME PullEnds PROVE TypeInv'
  BY <1>4, SMTT(30) DEF PullEnds
<1>5. ASSUME NEW k \in Kind, IsCurrent(k) \/ CallFails(k) PROVE TypeInv'
  <2>1. Skips(k)
    BY <1>5, Zenon DEF IsCurrent, CallFails
  <2> QED BY <2>1, SMTT(30) DEF Skips
<1>6. ASSUME NEW k \in Kind, Asks(k) PROVE TypeInv'
  BY <1>6, SMTT(30) DEF Asks
<1>7. ASSUME NEW k \in Kind, Answers(k) PROVE TypeInv'
  BY <1>7, SMTT(30) DEF Answers
<1>8. ASSUME NEW k \in Kind, StoresModel(k) PROVE TypeInv'
  BY <1>8, SMTT(30) DEF StoresModel
<1>9. ASSUME NEW k \in Kind, StoresVersion(k) PROVE TypeInv'
  BY <1>9, SMTT(30) DEF StoresVersion, Nothing
<1>10. ASSUME TickBegins \/ PulledBegins PROVE TypeInv'
  <2>1. /\ serve' = "begun"
        /\ UNCHANGED <<masterVars, saved, meta, unread, latest, pullVars, building, index>>
    BY <1>10, Zenon DEF TickBegins, PulledBegins
  <2> QED BY <2>1, SMTT(30)
<1>11. ASSUME ServeNext PROVE TypeInv'
  <2>1. UNCHANGED <<masterVars, saved, meta, unread, latest, pullVars>>
    BY <1>11, Zenon DEF ServeNext, SkipsIndex, BuildsIndex, IndexIsBuilt, RoundEnds
  <2>2. serve' \in ServeStep
    BY <1>11, SMTT(30) DEF ServeNext, SkipsIndex, BuildsIndex, IndexIsBuilt, RoundEnds
  <2>3. index' \in 0..made /\ building' \in 0..made
    BY <1>11, SMTT(30) DEF ServeNext, SkipsIndex, BuildsIndex, IndexIsBuilt, RoundEnds
  <2> QED BY <2>1, <2>2, <2>3, SMTT(30)
<1> QED BY <1>1, <1>2, <1>3, <1>4, <1>5, <1>6, <1>7, <1>8, <1>9, <1>10, <1>11 DEF SyncNext, PullNext

LEMMA TypeIsInvariant == SyncSafeSpec => []TypeInv
<1>1. TypeInv /\ [SyncNext]_nodeVars => TypeInv'
  <2> SUFFICES ASSUME TypeInv, [SyncNext]_nodeVars PROVE TypeInv'
    OBVIOUS
  <2>1. CASE MasterNext
    BY <2>1, MasterStepType
  <2>2. CASE SyncNext /\ ~MasterNext
    BY <2>2, WorkerStepType
  <2>3. CASE UNCHANGED nodeVars
    BY <2>3, Zenon DEF nodeVars, masterVars, workerVars, syncVars, pullVars, serveVars,
       TypeInv, SyncTypeOK, MasterTypeOK, FlagsOK
  <2> QED BY <2>1, <2>2, <2>3
<1> QED BY InitialType, <1>1, PTL DEF SyncSafeSpec

\* The variables of the master and of the worker hold what their types say.
THEOREM SyncTypeCorrect == SyncSafeSpec => []SyncTypeOK
<1>1. TypeInv => SyncTypeOK
  BY DEF TypeInv
<1> QED BY TypeIsInvariant, <1>1, PTL

----------------------------------------------------------------------------
(* The versions of one kind, as long as the master has not restarted.      *)

\* What Sync knows, and will know, is not newer than what the master serves.
KnownNotAhead(k) ==
  /\ latest[k] <= version[k]
  /\ meta[k] <= version[k]

\* Versions come to Sync in the order in which the master counts them.
KnownInOrder(k) ==
  /\ k \in unread => latest[k] <= meta[k]
  /\ model[k] = 0 => meta[k] = 0 /\ latest[k] = 0

\* A version that Pull asks for, and the one the answer was served under, is
\* known by the time Pull stores its label.
PullNotAhead(k) ==
  k = Next1(unpulled) =>
    /\ pull = "asked" => wanted <= latest[k]
    /\ pull = "answered" => answer.servedAs <= latest[k]
    /\ pull = "stored" => held[k].servedAs <= latest[k]

LabelOrder(k) ==
  /\ KnownNotAhead(k)
  /\ KnownInOrder(k)
  /\ PullNotAhead(k)
  /\ BetweenStores(k) \/ held[k].servedAs <= held[k].version

LabelInv == restarts = 0 => \A k \in Kind : LabelOrder(k)

\* What the types say about the numbers of one kind.
LEMMA NumbersOfKind ==
  ASSUME TypeInv, NEW k \in Kind
  PROVE  /\ latest[k] \in Nat /\ meta[k] \in Nat /\ version[k] \in Nat
         /\ wanted \in Nat /\ answer.servedAs \in Nat
         /\ held[k].servedAs \in Nat /\ held[k].version \in Nat
         /\ model[k] \in Nat
BY DEF TypeInv, SyncTypeOK, MasterTypeOK

\* Without a restart, the master only counts versions up and keeps a model.
LEMMA MasterCountsUp ==
  ASSUME TypeInv, MasterNext, restarts' = 0, NEW k \in Kind
  PROVE  /\ restarts = 0
         /\ version[k] <= version'[k]
         /\ model'[k] = 0 => model[k] = 0
         /\ workerVars' = workerVars
<1> USE DEF TypeInv, SyncTypeOK, MasterTypeOK
<1>1. ~MasterRestarts
  BY DEF MasterRestarts, Restarts
<1>2. workerVars' = workerVars
  BY Zenon DEF MasterNext, MasterStep, Saves, EndsSaving, MasterRestarts
<1>3. ASSUME NEW j \in Kind, FitStep(j)
          PROVE restarts = 0 /\ version[k] <= version'[k] /\ (model'[k] = 0 => model[k] = 0)
  <2>1. CASE FitBegins(j)
    BY <2>1 DEF FitBegins, TakesSearched
  <2>2. CASE Publishes(j)
    BY <2>2 DEF Publishes
  <2>3. CASE Caches(j) \/ SkipsFile(j)
    BY <2>3 DEF Caches, SkipsFile
  <2> QED BY <1>3, <2>1, <2>2, <2>3 DEF FitStep
<1>4. ASSUME RankingOnlySearched PROVE restarts = 0 /\ version[k] <= version'[k] /\ (model'[k] = 0 => model[k] = 0)
  BY <1>4 DEF RankingOnlySearched, TakesSearched
<1>5. ASSUME NEW j \in Kind, Saves(j) \/ EndsSaving(j)
      PROVE  restarts = 0 /\ version[k] <= version'[k] /\ (model'[k] = 0 => model[k] = 0)
  BY <1>5 DEF Saves, BeginsFile, EndsSaving, EndsFile
<1> QED BY <1>1, <1>2, <1>3, <1>4, <1>5 DEF MasterNext, MasterStep

LEMMA InitialLabels == SyncInit => LabelInv
<1> SUFFICES ASSUME SyncInit, NEW k \in Kind
             PROVE  LabelOrder(k)
  BY DEF LabelInv
<1>1. version[k] \in Nat
  BY InitialType, NumbersOfKind
<1> QED BY <1>1 DEF SyncInit, MasterInit, Nothing,
     LabelOrder, KnownNotAhead, KnownInOrder, PullNotAhead

\* One kind at a time.  A step of the worker leaves the master alone, so that
\* no restart happens in it; most of them move one of the four numbers.
LEMMA LabelStep ==
  ASSUME TypeInv, TypeInv', LabelInv, [SyncNext]_nodeVars
  PROVE  LabelInv'
<1> SUFFICES ASSUME restarts' = 0, NEW k \in Kind PROVE LabelOrder(k)'
  BY Zenon DEF LabelInv
<1> USE DEF LabelOrder, KnownNotAhead, KnownInOrder, PullNotAhead, BetweenStores
<1>t. /\ latest[k] \in Nat /\ meta[k] \in Nat /\ version[k] \in Nat /\ model[k] \in Nat
      /\ wanted \in Nat /\ answer.servedAs \in Nat
      /\ held[k].servedAs \in Nat /\ held[k].version \in Nat
  BY NumbersOfKind
<1>1. CASE MasterNext
  <2>1. LabelOrder(k)
    BY <1>1, MasterCountsUp, Zenon DEF LabelInv
  <2>2. /\ version[k] <= version'[k] /\ (model'[k] = 0 => model[k] = 0) /\ version'[k] \in Nat
    BY <1>1, MasterCountsUp DEF TypeInv, SyncTypeOK, MasterTypeOK
  <2>3. UNCHANGED <<meta, unread, latest, held, pull, unpulled, answer, wanted>>
    BY <1>1, MasterCountsUp, Zenon DEF workerVars, syncVars, pullVars
  <2> QED BY <1>t, <2>1, <2>2, <2>3
<1>2. CASE UNCHANGED nodeVars
  <2>1. LabelOrder(k)
    BY <1>2, Zenon DEF LabelInv, nodeVars, masterVars
  <2> QED BY <1>2, <2>1 DEF nodeVars, masterVars, workerVars, syncVars, pullVars
<1>3. CASE SyncNext /\ ~MasterNext
  <2>1. UNCHANGED <<model, version, restarts>>
    BY <1>3, Zenon DEF SyncNext, PullNext, ServeNext, masterVars, GetMeta, SyncReads, PullWakes, PullEnds, IsCurrent,
       Asks, StoresModel, StoresVersion, Answers, CallFails, Skips, TickBegins, PulledBegins, SkipsIndex, BuildsIndex,
       IndexIsBuilt, RoundEnds
  <2>2. LabelOrder(k)
    BY <2>1, Zenon DEF LabelInv
  <2> USE <1>t, <2>1, <2>2 DEF syncVars, pullVars
  <2>3. ASSUME GetMeta PROVE LabelOrder(k)'
    BY <2>3 DEF GetMeta
  <2>4. ASSUME NEW j \in Kind, SyncReads(j) PROVE LabelOrder(k)'
    <3>1. /\ j \in unread /\ unread' = unread \ {j} /\ latest' = [latest EXCEPT ![j] = meta[j]]
          /\ UNCHANGED <<meta, held, pull, unpulled, answer, wanted>>
      BY <2>4, Zenon DEF SyncReads
    <3>2. latest'[k] = IF k = j THEN meta[k] ELSE latest[k]
      BY <3>1 DEF TypeInv, SyncTypeOK
    <3> QED BY <3>1, <3>2
  <2>5. ASSUME PullWakes PROVE LabelOrder(k)'
    <3>1. /\ pull = "wait" /\ pull' = "compare"
          /\ UNCHANGED <<meta, unread, latest, held, answer, wanted>>
      BY <2>5, Zenon DEF PullWakes
    <3> QED BY <3>1
  <2>6. ASSUME NEW j \in Kind, IsCurrent(j) \/ CallFails(j) PROVE LabelOrder(k)'
    <3>1. /\ pull # "stored" /\ pull' = "compare"
          /\ UNCHANGED <<meta, unread, latest, held>>
      BY <2>6 DEF IsCurrent, CallFails, Skips
    <3> QED BY <3>1
  <2>7. ASSUME NEW j \in Kind, Asks(j) PROVE LabelOrder(k)'
    <3>1. /\ pull = "compare" /\ pull' = "asked" /\ j = Next1(unpulled) /\ wanted' = latest[j]
          /\ UNCHANGED <<meta, unread, latest, held, unpulled>>
      BY <2>7, Zenon DEF Asks
    <3> QED BY <3>1
  <2>8. ASSUME NEW j \in Kind, Answers(j) PROVE LabelOrder(k)'
    <3>1. /\ pull = "asked" /\ pull' = "answered" /\ j = Next1(unpulled)
          /\ answer'.servedAs = version[j] /\ version[j] = wanted
          /\ UNCHANGED <<meta, unread, latest, held, unpulled>>
      BY <2>8 DEF Answers
    <3> QED BY <3>1
  <2>9. ASSUME NEW j \in Kind, StoresModel(j) PROVE LabelOrder(k)'
    <3>1. /\ pull = "answered" /\ pull' = "stored" /\ j = Next1(unpulled)
          /\ UNCHANGED <<meta, unread, latest, unpulled>>
      BY <2>9, Zenon DEF StoresModel
    <3>2. held'[k].servedAs = IF k = j THEN answer.servedAs ELSE held[k].servedAs
      BY <2>9 DEF StoresModel, TypeInv, SyncTypeOK
    <3>3. k # j => held'[k] = held[k]
      BY <2>9 DEF StoresModel, TypeInv, SyncTypeOK
    <3> QED BY <3>1, <3>2, <3>3
  <2>10. ASSUME NEW j \in Kind, StoresVersion(j) PROVE LabelOrder(k)'
    <3>1. /\ pull = "stored" /\ pull' = "compare" /\ j = Next1(unpulled)
          /\ UNCHANGED <<meta, unread, latest>>
      BY <2>10 DEF StoresVersion
    <3>2. /\ held'[k].servedAs = held[k].servedAs
          /\ held'[k].version = IF k = j THEN latest[k] ELSE held[k].version
      BY <2>10 DEF StoresVersion, TypeInv, SyncTypeOK
    <3> QED BY <3>1, <3>2
  <2>11. ASSUME PullEnds PROVE LabelOrder(k)'
    <3>1. /\ pull' = "wait" /\ pull = "compare"
          /\ UNCHANGED <<meta, unread, latest, held, unpulled, answer, wanted>>
      BY <2>11, Zenon DEF PullEnds
    <3> QED BY <3>1
  <2>12. ASSUME TickBegins \/ PulledBegins \/ ServeNext PROVE LabelOrder(k)'
    <3>1. UNCHANGED <<syncVars, pullVars>>
      BY <2>12, Zenon DEF TickBegins, PulledBegins, ServeNext, SkipsIndex, BuildsIndex, IndexIsBuilt, RoundEnds
    <3> QED BY <3>1
  <2> QED BY <1>3, <2>3, <2>4, <2>5, <2>6, <2>7, <2>8, <2>9, <2>10, <2>11, <2>12, Zenon DEF SyncNext, PullNext
<1> QED BY <1>1, <1>2, <1>3, Zenon

\* As long as the master has not restarted, no model is labelled older than
\* the version GetRankingModel or GetClickModel answered for.
THEOREM LabelsNeverBehind == SyncSafeSpec => []LabelNotBehind
<1>1. LabelInv => LabelNotBehind
  BY Zenon DEF LabelInv, LabelOrder, LabelNotBehind
<1>2. TypeInv /\ TypeInv' /\ LabelInv /\ [SyncNext]_nodeVars => LabelInv'
  BY LabelStep
<1> QED BY TypeIsInvariant, InitialLabels, <1>1, <1>2, PTL DEF SyncSafeSpec

----------------------------------------------------------------------------
(* The owner of a user *)

\* Where a ring holds one of some names there is a first such point.
LEMMA FirstExists ==
  ASSUME NEW u \in Users, NEW peers, NEW k \in DOMAIN Ring[u], Ring[u][k] \in peers
  PROVE  \E h \in DOMAIN Ring[u] : IsFirst(h, peers, u)
<1> DEFINE Hits == {h \in DOMAIN Ring[u] : Ring[u][h] \in peers}
<1>1. Ring[u] \in Seq(Nat)
  BY ClusterAssumption
<1>2. Hits \subseteq Nat /\ Hits # {}
  BY <1>1
<1>3. PICK h \in Hits : \A j \in Hits : ~(<<j, h>> \in OpToRel(<, Nat))
  BY <1>2, WFMin, NatLessThanWellFounded
<1>4. \A j \in Hits : ~(j < h)
  BY <1>2, <1>3 DEF OpToRel
<1>5. \A j \in 1 .. h - 1 : j \in DOMAIN Ring[u] /\ j < h
  BY <1>1, <1>2
<1> QED
  BY <1>4, <1>5 DEF IsFirst

\* It is the only one.
LEMMA FirstIsUnique ==
  ASSUME NEW u \in Users, NEW peers, NEW h \in DOMAIN Ring[u], NEW k \in DOMAIN Ring[u],
         IsFirst(h, peers, u), IsFirst(k, peers, u)
  PROVE  h = k
<1>1. h \in Nat \ {0} /\ k \in Nat \ {0}
  BY ClusterAssumption
<1>2. CASE h < k
  BY <1>1, <1>2 DEF IsFirst
<1>3. CASE k < h
  BY <1>1, <1>3 DEF IsFirst
<1> QED
  BY <1>1, <1>2, <1>3

\* Who is the first of many is the first of fewer, if among them.
LEMMA OwnerOfFewer ==
  ASSUME NEW u \in Users, NEW all, NEW peers, peers \subseteq all,
         NEW n \in peers, n = Owner(all, u), NEW k \in DOMAIN Ring[u], Ring[u][k] = n
  PROVE  Owner(peers, u) = n
<1>1. PICK h \in DOMAIN Ring[u] : IsFirst(h, all, u)
  BY FirstExists
<1>2. Ring[u][h] = n
  BY <1>1, FirstIsUnique DEF Owner
<1>3. IsFirst(h, peers, u)
  BY <1>1, <1>2 DEF IsFirst
<1> QED
  BY <1>2, <1>3, FirstIsUnique DEF Owner

\* The owner is one of those it is chosen from.
LEMMA OwnerIsPeer ==
  ASSUME NEW u \in Users, NEW peers, NEW k \in DOMAIN Ring[u], Ring[u][k] \in peers
  PROVE  Owner(peers, u) \in peers
BY FirstExists DEF Owner, IsFirst

----------------------------------------------------------------------------
(* The inductive invariant *)

ProcessStep == {"create", "write", "call", "apply", "sleep"}
StorePath == {NoStore} \cup {c[k] : c \in Configs, k \in StoreKinds}
Paths == [StoreKinds -> StorePath]
ProcessRecord ==
  [step : ProcessStep, name : Nat \ {0},
   reply : {NoReply} \cup [config : Configs, workers : SUBSET Nat], wakes : Int,
   path : Paths, client : Paths, synced : Paths, failed : Paths,
   peers : SUBSET Nat, pulled : {NoUsers} \cup [peers : SUBSET Nat, users : SUBSET Users]]

ClusterTypeOK ==
  /\ now \in Nat /\ names \in 0 .. MaxNames
  /\ master \in Configs
  /\ DOMAIN nodes \subseteq Nat
  /\ nameFile \in [Machines -> Nat \cup {Torn}]
  /\ node \in [Machines -> {Down, Absent, Panicked} \cup ProcessRecord]

\* No two machines ever have one name, in their processes or in their files.
Holds(m, n) == n = nameFile[m] \/ (m \in Live /\ n = NameOf(m))
NamesDiffer ==
  \A m, w \in Machines : \A n \in Nat \ {0} :
    Holds(m, n) => n <= names /\ (Holds(w, n) => m = w)

\* What a process has been told of the workers includes itself.
KnowsItself(process, m) ==
  /\ process.step = "apply" => /\ process.reply \in [config : Configs, workers : SUBSET Nat]
                               /\ m \in Workers => process.name \in process.reply.workers
  /\ process.peers # {} => process.name \in process.peers
  /\ process.pulled # NoUsers =>
       /\ process.name \in process.pulled.peers
       /\ process.pulled.users = {u \in Users : Owner(process.pulled.peers, u) = process.name}

\* A client is that of the path, or nil since another store could not be opened.
ClientsOK(process) ==
  \A k \in StoreKinds :
    \/ process.client[k] = process.path[k]
    \/ process.client[k] = NoStore /\ process.failed[k] \notin {NoStore, process.path[k]}
Connected(process) == ClientsOK(process) /\ process.synced \in {NoPaths, process.path}

ProcessesOK == \A m \in Live : KnowsItself(node[m], m) /\ Connected(node[m])

ClusterIInv == ClusterTypeOK /\ NamesDiffer /\ ProcessesOK

----------------------------------------------------------------------------
(* Every step keeps it *)

LEMMA LiveProcess ==
  ASSUME ClusterTypeOK, NEW m \in Machines
  PROVE  /\ m \in Live <=> node[m] \in ProcessRecord
         /\ node[m] \in ProcessRecord <=> node[m].step \in ProcessStep
         /\ node[m] \in ProcessRecord \/ node[m] \in {Down, Absent, Panicked}
BY DEF ClusterTypeOK, Live, ProcessRecord, ProcessStep, Down, Absent, Panicked

\* A step of one process leaves the others as they are.
LEMMA OneProcess ==
  ASSUME ClusterIInv, NEW m \in Machines, NEW p, node' = [node EXCEPT ![m] = p],
         \/ p \in {Down, Absent, Panicked}
         \/ p \in ProcessRecord /\ KnowsItself(p, m) /\ Connected(p)
  PROVE  /\ node' \in [Machines -> {Down, Absent, Panicked} \cup ProcessRecord]
         /\ ProcessesOK'
         /\ node'[m] = p /\ \A w \in Machines \ {m} : node'[w] = node[w]
         /\ m \in Live' <=> p \in ProcessRecord
         /\ \A w \in Machines \ {m} : w \in Live' <=> w \in Live
<1>1. /\ node' \in [Machines -> {Down, Absent, Panicked} \cup ProcessRecord]
      /\ node'[m] = p /\ \A w \in Machines \ {m} : node'[w] = node[w]
  BY DEF ClusterIInv, ClusterTypeOK
<1>2. m \in Live' <=> p \in ProcessRecord
  BY <1>1 DEF Live, ProcessRecord, ProcessStep, Down, Absent, Panicked
<1>3. \A w \in Machines \ {m} : w \in Live' <=> w \in Live
  BY <1>1 DEF Live
<1>4. ProcessesOK'
  <2> SUFFICES ASSUME NEW w \in Live' PROVE KnowsItself(node'[w], w) /\ Connected(node'[w])
    BY DEF ProcessesOK
  <2>1. w \in Machines
    BY DEF Live
  <2>2. CASE w = m
    BY <1>1, <1>2, <2>2 DEF ProcessRecord, ProcessStep, Down, Absent, Panicked
  <2>3. CASE w # m
    BY <1>1, <1>3, <2>1, <2>3 DEF ClusterIInv, ProcessesOK
  <2> QED
    BY <2>2, <2>3
<1> QED
  BY <1>1, <1>2, <1>3, <1>4

\* Names stay different when nobody takes another name.
LEMMA NamesStay ==
  ASSUME NamesDiffer, names' = names,
         \A m \in Machines, n \in Nat \ {0} : Holds(m, n)' => Holds(m, n)
  PROVE  NamesDiffer'
BY DEF NamesDiffer

LEMMA NewProcess ==
  ASSUME NEW m \in Machines, NEW step \in ProcessStep \ {"apply"}, NEW n \in Nat \ {0}
  PROVE  /\ Process(step, n) \in ProcessRecord /\ Process(step, n).name = n
         /\ KnowsItself(Process(step, n), m) /\ Connected(Process(step, n))
<1>1. NoPaths \in Paths /\ \A k \in StoreKinds : NoPaths[k] = NoStore
  BY DEF NoPaths, Paths, StorePath
<1>2. Process(step, n) \in ProcessRecord
  BY <1>1 DEF Process, ProcessRecord
<1> QED
  BY <1>1, <1>2 DEF Process, KnowsItself, Connected, ClientsOK

LEMMA ClusterInitInv == ClusterInit => ClusterIInv
<1> SUFFICES ASSUME ClusterInit PROVE ClusterIInv
  OBVIOUS
<1>1. ClusterTypeOK
  BY ClusterAssumption DEF ClusterInit, ClusterTypeOK, NoFile
<1>2. Live = {}
  BY DEF ClusterInit, Live, Down, Absent
<1>3. NamesDiffer /\ ProcessesOK
  BY <1>2 DEF ClusterInit, NamesDiffer, Holds, NoFile, ProcessesOK
<1> QED
  BY <1>1, <1>3 DEF ClusterIInv

LEMMA StartsInv ==
  ASSUME ClusterIInv, NEW m \in Machines, Starts(m)
  PROVE  ClusterIInv'
<1> USE DEF ClusterIInv
<1>1. UNCHANGED <<now, master, nodes, nameFile>> /\ node[m] = Down
  BY DEF Starts
<1>2. nameFile[m] \in Nat \cup {Torn}
  BY DEF ClusterTypeOK
<1>3. ASSUME NEW p, node' = [node EXCEPT ![m] = p], names' = names,
             \/ p = Panicked
             \/ p \in ProcessRecord /\ p.name = nameFile[m] /\ KnowsItself(p, m) /\ Connected(p)
      PROVE  ClusterIInv'
  <2>1. /\ node' \in [Machines -> {Down, Absent, Panicked} \cup ProcessRecord]
        /\ ProcessesOK'
        /\ node'[m] = p /\ \A w \in Machines \ {m} : node'[w] = node[w]
        /\ m \in Live' <=> p \in ProcessRecord
        /\ \A w \in Machines \ {m} : w \in Live' <=> w \in Live
    BY <1>3, OneProcess
  <2>2. p \in ProcessRecord => p.name = nameFile[m]
    BY <1>3 DEF ProcessRecord, ProcessStep, Panicked
  <2>3. ClusterTypeOK'
    BY <1>1, <1>3, <2>1 DEF ClusterTypeOK
  <2>4. \A w \in Machines, n \in Nat \ {0} : Holds(w, n)' => Holds(w, n)
    BY <1>1, <2>1, <2>2 DEF Holds, NameOf
  <2> QED
    BY <1>3, <2>1, <2>3, <2>4, NamesStay
<1>4. CASE nameFile[m] > 0
  <2>1. node' = [node EXCEPT ![m] = Process("call", nameFile[m])] /\ names' = names
    BY <1>2, <1>4 DEF Starts, Torn
  <2>2. nameFile[m] \in Nat \ {0}
    BY <1>2, <1>4 DEF Torn
  <2> QED
    BY <1>3, <2>1, <2>2, NewProcess DEF ProcessStep
<1>5. CASE nameFile[m] = Torn /\ m \in Servers
  BY <1>3, <1>5 DEF Starts, Torn
<1>6. CASE ~(nameFile[m] > 0) /\ ~(nameFile[m] = Torn /\ m \in Servers)
  <2> DEFINE p == Process("create", names')
  <2>1. names < MaxNames /\ names' = names + 1 /\ node' = [node EXCEPT ![m] = p]
    BY <1>6 DEF Starts
  <2>2. names' \in Nat \ {0} /\ names \in Nat /\ names' \in 0 .. MaxNames
    BY <2>1, ClusterAssumption DEF ClusterTypeOK
  <2>3. p \in ProcessRecord /\ p.name = names' /\ KnowsItself(p, m) /\ Connected(p)
    BY <2>2, NewProcess DEF ProcessStep
  <2> HIDE DEF p
  <2>4. /\ node' \in [Machines -> {Down, Absent, Panicked} \cup ProcessRecord]
        /\ ProcessesOK'
        /\ node'[m] = p /\ \A w \in Machines \ {m} : node'[w] = node[w]
        /\ \A w \in Machines \ {m} : w \in Live' <=> w \in Live
    BY <2>1, <2>3, OneProcess
  <2>5. ClusterTypeOK'
    BY <1>1, <2>2, <2>4 DEF ClusterTypeOK
  <2>6. \A w \in Machines \ {m} : \A n \in Nat \ {0} : Holds(w, n)' => Holds(w, n)
    BY <1>1, <2>4 DEF Holds, NameOf
  <2>7. \A n \in Nat \ {0} : Holds(m, n)' => n = names'
    BY <1>1, <1>2, <1>6, <2>3, <2>4 DEF Holds, NameOf, Torn
  <2>8. NamesDiffer'
    BY <2>1, <2>2, <2>6, <2>7 DEF NamesDiffer
  <2> QED
    BY <2>4, <2>5, <2>8
<1> QED
  BY <1>4, <1>5, <1>6

LEMMA WritesNameInv ==
  ASSUME ClusterIInv, NEW m \in Machines, WritesName(m)
  PROVE  ClusterIInv'
<1> DEFINE p == [node[m] EXCEPT !.step = IF @ = "create" THEN "write" ELSE "call"]
<1> USE DEF ClusterIInv
<1>1. /\ UNCHANGED <<now, master, nodes, names>> /\ node' = [node EXCEPT ![m] = p]
      /\ node[m].step \in {"create", "write"}
      /\ nameFile' = [nameFile EXCEPT ![m] = IF node[m].step = "create" THEN Torn ELSE NameOf(m)]
  BY DEF WritesName
<1>2. node[m] \in ProcessRecord /\ m \in Live
  BY <1>1, LiveProcess DEF ProcessStep
<1>3. p \in ProcessRecord /\ p.name = NameOf(m) /\ p.step # "apply"
  BY <1>1, <1>2 DEF ProcessRecord, ProcessStep, NameOf
<1>4. KnowsItself(p, m) /\ Connected(p)
  BY <1>2, <1>3 DEF ProcessesOK, KnowsItself, Connected, ClientsOK, ProcessRecord
<1> HIDE DEF p
<1>5. /\ node' \in [Machines -> {Down, Absent, Panicked} \cup ProcessRecord]
      /\ ProcessesOK'
      /\ node'[m] = p /\ \A w \in Machines \ {m} : node'[w] = node[w]
      /\ \A w \in Machines \ {m} : w \in Live' <=> w \in Live
  BY <1>1, <1>3, <1>4, OneProcess
<1>6. NameOf(m) \in Nat \ {0}
  BY <1>2 DEF ProcessRecord, NameOf
<1>7. nameFile' \in [Machines -> Nat \cup {Torn}]
  BY <1>1, <1>6 DEF ClusterTypeOK
<1>8. ClusterTypeOK'
  BY <1>1, <1>5, <1>7 DEF ClusterTypeOK
<1>9. \A w \in Machines, n \in Nat \ {0} : Holds(w, n)' => Holds(w, n)
  BY <1>1, <1>2, <1>3, <1>5 DEF Holds, NameOf, Torn, ClusterTypeOK
<1> QED
  BY <1>1, <1>5, <1>8, <1>9, NamesStay

\* A process goes on without another name, and the tables keep their types.
LEMMA ProcessGoesOn ==
  ASSUME ClusterIInv, NEW m \in Live, NEW p, node' = [node EXCEPT ![m] = p],
         UNCHANGED <<now, master, names, nameFile>>, DOMAIN nodes' \subseteq Nat,
         \/ p = Down
         \/ p \in ProcessRecord /\ p.name = NameOf(m) /\ KnowsItself(p, m) /\ Connected(p)
  PROVE  ClusterIInv'
<1> USE DEF ClusterIInv
<1>1. m \in Machines
  BY DEF Live
<1>2. /\ node' \in [Machines -> {Down, Absent, Panicked} \cup ProcessRecord]
      /\ ProcessesOK'
      /\ node'[m] = p /\ \A w \in Machines \ {m} : node'[w] = node[w]
      /\ m \in Live' <=> p \in ProcessRecord
      /\ \A w \in Machines \ {m} : w \in Live' <=> w \in Live
  BY <1>1, OneProcess
<1>3. p \in ProcessRecord => p.name = NameOf(m)
  BY DEF ProcessRecord, ProcessStep, Down
<1>4. ClusterTypeOK'
  BY <1>2 DEF ClusterTypeOK
<1>5. \A w \in Machines, n \in Nat \ {0} : Holds(w, n)' => Holds(w, n)
  BY <1>2, <1>3 DEF Holds, NameOf
<1> QED
  BY <1>2, <1>4, <1>5, NamesStay

\* Who calls is registered when the nodes are listed.
LEMMA GetsMetaInv ==
  ASSUME ClusterIInv, NEW m \in Machines, GetsMeta(m)
  PROVE  ClusterIInv'
<1> USE DEF ClusterIInv
<1>1. node[m].step = "call" /\ UNCHANGED <<now, master, names, nameFile>>
  BY DEF GetsMeta
<1>2. node[m] \in ProcessRecord /\ m \in Live /\ NameOf(m) \in Nat
  BY <1>1, LiveProcess DEF ProcessStep, ProcessRecord, NameOf
<1>3. KnowsItself(node[m], m) /\ Connected(node[m])
  BY <1>2 DEF ProcessesOK
<1>4. CASE /\ nodes' = ListedNodes(UpdateNode(NameOf(m), Type(m)))
           /\ node' = [node EXCEPT ![m].step = "apply",
                         ![m].reply = [config |-> master, workers |-> OfType(nodes', "worker")]]
  <2> DEFINE table == UpdateNode(NameOf(m), Type(m))
             reply == [config |-> master, workers |-> OfType(nodes', "worker")]
             p == [node[m] EXCEPT !.step = "apply", !.reply = reply]
  <2>1. /\ DOMAIN table = DOMAIN nodes \cup {NameOf(m)}
        /\ table[NameOf(m)] = [type |-> Type(m), at |-> now]
    BY DEF UpdateNode
  <2> HIDE DEF table
  <2>2. nodes' = [n \in Registered(table) |-> table[n]]
    BY <1>4 DEF ListedNodes, table
  <2>3. /\ DOMAIN nodes' \subseteq DOMAIN table
        /\ NameOf(m) \in DOMAIN nodes' /\ nodes'[NameOf(m)].type = Type(m)
    BY <2>1, <2>2, ClusterAssumption DEF Registered, ClusterTypeOK
  <2>4. DOMAIN nodes' \subseteq Nat
    BY <1>2, <2>1, <2>3 DEF ClusterTypeOK
  <2>5. reply \in [config : Configs, workers : SUBSET Nat]
        /\ (m \in Workers => NameOf(m) \in reply.workers)
    BY <2>3, <2>4 DEF ClusterTypeOK, OfType, Type
  <2> HIDE DEF reply
  <2>6. /\ p \in ProcessRecord /\ p.name = NameOf(m)
        /\ p.reply = reply /\ p.peers = node[m].peers /\ p.pulled = node[m].pulled
        /\ p.client = node[m].client /\ p.path = node[m].path /\ p.failed = node[m].failed
        /\ p.synced = node[m].synced
    BY <1>2, <2>5 DEF ProcessRecord, ProcessStep, NameOf
  <2>7. KnowsItself(p, m) /\ Connected(p)
    BY <1>3, <2>5, <2>6 DEF KnowsItself, Connected, ClientsOK, NameOf
  <2>8. node' = [node EXCEPT ![m] = p]
    BY <1>4 DEF reply
  <2> QED
    BY <1>1, <1>2, <2>4, <2>6, <2>7, <2>8, ProcessGoesOn
<1>5. CASE /\ node' = [node EXCEPT ![m].step = "sleep", ![m].wakes = now + MetaTimeout]
           /\ nodes' \in {nodes, UpdateNode(NameOf(m), Type(m))}
  <2> DEFINE p == [node[m] EXCEPT !.step = "sleep", !.wakes = now + MetaTimeout]
  <2>1. now + MetaTimeout \in Int
    BY ClusterAssumption DEF ClusterTypeOK
  <2>2. /\ p \in ProcessRecord /\ p.name = NameOf(m) /\ p.step = "sleep"
        /\ p.peers = node[m].peers /\ p.pulled = node[m].pulled
        /\ p.client = node[m].client /\ p.path = node[m].path /\ p.failed = node[m].failed
        /\ p.synced = node[m].synced
    BY <1>2, <2>1 DEF ProcessRecord, ProcessStep, NameOf
  <2>3. KnowsItself(p, m) /\ Connected(p)
    BY <1>3, <2>2 DEF KnowsItself, Connected, ClientsOK, NameOf
  <2>4. DOMAIN UpdateNode(NameOf(m), Type(m)) = DOMAIN nodes \cup {NameOf(m)}
    BY DEF UpdateNode
  <2>5. DOMAIN nodes' \subseteq Nat /\ node' = [node EXCEPT ![m] = p]
    BY <1>2, <1>5, <2>4 DEF ClusterTypeOK
  <2> QED
    BY <1>1, <1>2, <2>2, <2>3, <2>5, ProcessGoesOn
<1> QED
  BY <1>4, <1>5 DEF GetsMeta

\* Opening a store leaves the client that of the path, or nil and remembered.
LEMMA Connecting ==
  ASSUME NEW p \in ProcessRecord, p.reply \in [config : Configs, workers : SUBSET Nat],
         ClientsOK(p), NEW k \in StoreKinds, NEW q,
         q = Connects(p, k) \/ (p.path[k] # p.reply.config[k] /\ q = FailedToConnect(p, k))
  PROVE  /\ q \in ProcessRecord /\ ClientsOK(q) /\ q.name = p.name /\ q.reply = p.reply
         /\ q.peers = p.peers /\ q.pulled = p.pulled
         /\ q = Connects(p, k) => /\ q.path[k] = p.reply.config[k]
                                 /\ \A j \in StoreKinds \ {k} : q.path[j] = p.path[j]
<1> DEFINE path == p.reply.config[k]
<1>1. path \in StorePath /\ path # NoStore /\ NoStore \in StorePath
  BY ClusterAssumption DEF StorePath
<1> HIDE DEF path
<1>2. CASE q = p /\ p.path[k] = path
  BY <1>2 DEF path
<1>3. CASE q = [p EXCEPT !.client[k] = path, !.path[k] = path, !.failed[k] = NoStore]
  <2>1. /\ q.client = [p.client EXCEPT ![k] = path] /\ q.path = [p.path EXCEPT ![k] = path]
        /\ q.failed = [p.failed EXCEPT ![k] = NoStore]
        /\ q.name = p.name /\ q.reply = p.reply /\ q.peers = p.peers /\ q.pulled = p.pulled
    BY <1>3 DEF ProcessRecord
  <2>2. q \in ProcessRecord
    BY <1>1, <1>3 DEF ProcessRecord, Paths
  <2>3. ClientsOK(q)
    BY <2>1 DEF ClientsOK, ProcessRecord, Paths
  <2> QED
    BY <2>1, <2>2, <2>3 DEF ProcessRecord, Paths, path
<1>4. CASE /\ q = [p EXCEPT !.client[k] = NoStore, !.failed[k] = path]
           /\ p.path[k] # path
  <2>1. /\ q.client = [p.client EXCEPT ![k] = NoStore] /\ q.path = p.path
        /\ q.failed = [p.failed EXCEPT ![k] = path]
        /\ q.name = p.name /\ q.reply = p.reply /\ q.peers = p.peers /\ q.pulled = p.pulled
    BY <1>4 DEF ProcessRecord
  <2>2. q \in ProcessRecord
    BY <1>1, <1>4 DEF ProcessRecord, Paths
  <2>3. ClientsOK(q)
    BY <1>1, <1>4, <2>1 DEF ClientsOK, ProcessRecord, Paths
  <2>4. q # Connects(p, k)
    <3>1. Connects(p, k).client[k] = path
      BY <1>4 DEF Connects, path, ProcessRecord, Paths
    <3> QED
      BY <1>1, <2>1, <3>1 DEF ProcessRecord, Paths
  <2> QED
    BY <2>1, <2>2, <2>3, <2>4
<1> QED
  BY <1>2, <1>3, <1>4 DEF Connects, FailedToConnect, path

LEMMA AppliesMetaInv ==
  ASSUME ClusterIInv, NEW m \in Machines, AppliesMeta(m)
  PROVE  ClusterIInv'
<1> DEFINE process == node[m]
           data == Connects(process, "data")
           both == Connects(data, "cache")
           wakes == now + MetaTimeout
<1> USE DEF ClusterIInv
<1>1. process.step = "apply" /\ UNCHANGED <<now, master, nodes, names, nameFile>>
  BY DEF AppliesMeta
<1>2. process \in ProcessRecord /\ m \in Live /\ wakes \in Int
  BY <1>1, LiveProcess, ClusterAssumption DEF ProcessStep, ClusterTypeOK
<1>3. /\ process.reply \in [config : Configs, workers : SUBSET Nat]
      /\ m \in Workers => process.name \in process.reply.workers
      /\ KnowsItself(process, m) /\ ClientsOK(process)
  BY <1>1, <1>2 DEF ProcessesOK, KnowsItself, Connected
<1>4. DOMAIN nodes' \subseteq Nat
  BY <1>1 DEF ClusterTypeOK
<1>5. ASSUME NEW q \in ProcessRecord, ClientsOK(q), q.name = process.name, q.pulled = process.pulled,
             q.peers # {} => q.name \in q.peers,
             NEW to \in Paths, to \in {NoPaths, q.path},
             node' = [node EXCEPT ![m] = Slept(q, to)]
      PROVE  ClusterIInv'
  <2> DEFINE p == Slept(q, to)
  <2>1. /\ p \in ProcessRecord /\ p.step = "sleep" /\ p.name = q.name /\ p.peers = q.peers
        /\ p.pulled = q.pulled /\ p.client = q.client /\ p.path = q.path /\ p.failed = q.failed
        /\ p.synced = to
    BY <1>2, <1>5 DEF Slept, ProcessRecord, ProcessStep
  <2>2. KnowsItself(p, m) /\ Connected(p)
    BY <1>3, <1>5, <2>1 DEF KnowsItself, Connected, ClientsOK
  <2> HIDE DEF p
  <2>3. p.name = NameOf(m) /\ node' = [node EXCEPT ![m] = p]
    BY <1>5, <2>1 DEF NameOf, p
  <2> QED
    BY <1>1, <1>2, <1>4, <2>1, <2>2, <2>3, ProcessGoesOn
<1>6. NoPaths \in Paths
  BY DEF NoPaths, Paths, StorePath
<1>7. /\ data \in ProcessRecord /\ ClientsOK(data) /\ data.name = process.name
      /\ data.reply = process.reply /\ data.peers = process.peers /\ data.pulled = process.pulled
      /\ data.path["data"] = process.reply.config["data"]
  BY <1>2, <1>3, Connecting DEF StoreKinds
<1>8. /\ both \in ProcessRecord /\ ClientsOK(both) /\ both.name = process.name
      /\ both.reply = process.reply /\ both.peers = process.peers /\ both.pulled = process.pulled
      /\ both.path["cache"] = process.reply.config["cache"]
      /\ both.path["data"] = process.reply.config["data"]
  BY <1>3, <1>7, Connecting DEF StoreKinds
<1> HIDE DEF process, data, both, wakes
<1>9. CASE node' = [node EXCEPT ![m] =
                      Slept([both EXCEPT !.peers = IF m \in Workers THEN process.reply.workers ELSE {}],
                            process.reply.config)]
  <2> DEFINE peers == IF m \in Workers THEN process.reply.workers ELSE {}
             q == [both EXCEPT !.peers = peers]
  <2>1. peers \in SUBSET Nat /\ (peers # {} => process.name \in peers)
    BY <1>3
  <2> HIDE DEF peers
  <2>2. /\ q \in ProcessRecord /\ q.name = process.name /\ q.pulled = process.pulled /\ q.peers = peers
        /\ q.client = both.client /\ q.path = both.path /\ q.failed = both.failed
    BY <1>8, <2>1 DEF ProcessRecord
  <2>3. ClientsOK(q)
    BY <1>8, <2>2 DEF ClientsOK
  <2>4. process.reply.config \in Paths
    BY <1>3, ClusterAssumption DEF Paths, StorePath
  <2>5. process.reply.config = q.path
    BY <1>8, <2>2, <2>4 DEF ProcessRecord, Paths, StoreKinds
  <2>6. node' = [node EXCEPT ![m] = Slept(q, process.reply.config)]
    BY <1>9 DEF peers
  <2> HIDE DEF q
  <2> QED
    BY <1>5, <2>1, <2>2, <2>3, <2>4, <2>5, <2>6
<1>10. ASSUME NEW p \in ProcessRecord, ClientsOK(p), p.name = process.name, p.pulled = process.pulled,
              p.peers = process.peers, p.reply = process.reply, NEW k \in StoreKinds, MayFail(p, k),
              node' = [node EXCEPT ![m] = Slept(NotConnected(p, k), NoPaths)]
       PROVE  ClusterIInv'
  <2> DEFINE q == NotConnected(p, k)
  <2>1. /\ q \in ProcessRecord /\ ClientsOK(q) /\ q.name = process.name
        /\ q.peers = process.peers /\ q.pulled = process.pulled
    BY <1>3, <1>10, Connecting DEF NotConnected, MayFail
  <2> HIDE DEF q
  <2>2. q.peers # {} => q.name \in q.peers
    BY <1>3, <2>1 DEF KnowsItself
  <2>3. node' = [node EXCEPT ![m] = Slept(q, NoPaths)]
    BY <1>10 DEF q
  <2> QED
    BY <1>5, <1>6, <2>1, <2>2, <2>3
<1>11. CASE MayFail(process, "data") /\ node' = [node EXCEPT ![m] = Slept(NotConnected(process, "data"), NoPaths)]
  BY <1>2, <1>3, <1>10, <1>11 DEF StoreKinds
<1>12. CASE MayFail(data, "cache") /\ node' = [node EXCEPT ![m] = Slept(NotConnected(data, "cache"), NoPaths)]
  BY <1>7, <1>10, <1>12 DEF StoreKinds
<1> QED
  BY <1>9, <1>11, <1>12 DEF AppliesMeta, process, data, both

LEMMA WakesNodeInv ==
  ASSUME ClusterIInv, NEW m \in Machines, WakesNode(m)
  PROVE  ClusterIInv'
<1> DEFINE p == [node[m] EXCEPT !.step = "call", !.wakes = 0]
<1> USE DEF ClusterIInv
<1>1. /\ node[m].step = "sleep" /\ UNCHANGED <<now, master, nodes, names, nameFile>>
      /\ node' = [node EXCEPT ![m] = p]
  BY DEF WakesNode
<1>2. node[m] \in ProcessRecord /\ m \in Live
  BY <1>1, LiveProcess DEF ProcessStep
<1>3. KnowsItself(node[m], m) /\ Connected(node[m])
  BY <1>2 DEF ProcessesOK
<1>4. /\ p \in ProcessRecord /\ p.name = NameOf(m) /\ p.step = "call"
      /\ p.peers = node[m].peers /\ p.pulled = node[m].pulled
      /\ p.client = node[m].client /\ p.path = node[m].path /\ p.failed = node[m].failed
      /\ p.synced = node[m].synced
  <2> DEFINE q == [node[m] EXCEPT !.step = "call"]
  <2>1. /\ q \in ProcessRecord /\ q.name = NameOf(m) /\ q.step = "call"
        /\ q.peers = node[m].peers /\ q.pulled = node[m].pulled
        /\ q.client = node[m].client /\ q.path = node[m].path /\ q.failed = node[m].failed
        /\ q.synced = node[m].synced
    BY <1>2 DEF ProcessRecord, ProcessStep, NameOf
  <2>2. p = [q EXCEPT !.wakes = 0]
    OBVIOUS
  <2> HIDE DEF p, q
  <2> QED
    BY <2>1, <2>2 DEF ProcessRecord
<1>5. KnowsItself(p, m) /\ Connected(p)
  BY <1>3, <1>4 DEF KnowsItself, Connected, ClientsOK, NameOf
<1>6. DOMAIN nodes' \subseteq Nat
  BY <1>1 DEF ClusterTypeOK
<1> QED
  BY <1>1, <1>2, <1>4, <1>5, <1>6, ProcessGoesOn

LEMMA PullsOwnUsersInv ==
  ASSUME ClusterIInv, NEW m \in Machines, PullsOwnUsers(m)
  PROVE  ClusterIInv'
<1> DEFINE mine == [peers |-> node[m].peers,
                    users |-> {u \in Users : Owner(node[m].peers, u) = NameOf(m)}]
           p == [node[m] EXCEPT !.pulled = mine]
<1> USE DEF ClusterIInv
<1>1. /\ m \in Live /\ NameOf(m) \in node[m].peers
      /\ UNCHANGED <<now, master, nodes, names, nameFile>>
      /\ node' = [node EXCEPT ![m] = p]
  BY DEF PullsOwnUsers
<1>2. node[m] \in ProcessRecord
  BY <1>1, LiveProcess
<1>3. KnowsItself(node[m], m) /\ Connected(node[m])
  BY <1>1 DEF ProcessesOK
<1>4. /\ mine \in [peers : SUBSET Nat, users : SUBSET Users]
      /\ NameOf(m) \in mine.peers
      /\ mine.users = {u \in Users : Owner(mine.peers, u) = NameOf(m)}
  BY <1>1, <1>2 DEF ProcessRecord
<1> HIDE DEF mine
<1>5. /\ p \in ProcessRecord /\ p.name = NameOf(m) /\ p.step = node[m].step
      /\ p.reply = node[m].reply /\ p.peers = node[m].peers /\ p.pulled = mine
      /\ p.client = node[m].client /\ p.path = node[m].path /\ p.failed = node[m].failed
      /\ p.synced = node[m].synced
  BY <1>2, <1>4 DEF ProcessRecord, NameOf
<1>6. KnowsItself(p, m) /\ Connected(p)
  BY <1>3, <1>4, <1>5 DEF KnowsItself, Connected, ClientsOK, NameOf
<1>7. DOMAIN nodes' \subseteq Nat /\ node' = [node EXCEPT ![m] = p]
  BY <1>1 DEF ClusterTypeOK, mine
<1> HIDE DEF p
<1> QED
  BY <1>1, <1>5, <1>6, <1>7, ProcessGoesOn

\* Steps of the clock and the master leave the processes alone.
LEMMA OutsideInv ==
  ASSUME ClusterIInv, Ticks \/ MasterChanges \/ DashboardLists
  PROVE  ClusterIInv'
<1> USE DEF ClusterIInv
<1>1. UNCHANGED <<names, nameFile, node>>
  BY DEF Ticks, MasterChanges, DashboardLists
<1>2. DOMAIN nodes' \subseteq DOMAIN nodes
  BY DEF Ticks, MasterChanges, DashboardLists, ListedNodes, Registered
<1>3. now' \in Nat /\ master' \in Configs
  BY DEF Ticks, MasterChanges, DashboardLists, ClusterTypeOK
<1>4. ClusterTypeOK'
  BY <1>1, <1>2, <1>3 DEF ClusterTypeOK
<1>5. Live' = Live
  BY <1>1 DEF Live
<1>6. NamesDiffer' /\ ProcessesOK'
  BY <1>1, <1>5 DEF NamesDiffer, Holds, NameOf, ProcessesOK
<1> QED
  BY <1>4, <1>6

LEMMA ClusterNextInv == ClusterIInv /\ [ClusterNext]_clusterVars => ClusterIInv'
<1> SUFFICES ASSUME ClusterIInv, [ClusterNext]_clusterVars PROVE ClusterIInv'
  OBVIOUS
<1>1. ASSUME NEW m \in Machines, Crashes(m)
      PROVE  ClusterIInv'
  <2>1. m \in Live /\ node' = [node EXCEPT ![m] = Down]
        /\ UNCHANGED <<now, master, nodes, names, nameFile>>
    BY <1>1 DEF Crashes
  <2>2. DOMAIN nodes' \subseteq Nat
    BY <2>1 DEF ClusterIInv, ClusterTypeOK
  <2> QED
    BY <2>1, <2>2, ProcessGoesOn
<1>2. CASE UNCHANGED clusterVars
  <2>1. UNCHANGED <<now, master, nodes, names, nameFile, node>>
    BY <1>2 DEF clusterVars
  <2>2. Live' = Live
    BY <2>1 DEF Live
  <2> QED
    BY <2>1, <2>2 DEF ClusterIInv, ClusterTypeOK, NamesDiffer, Holds, NameOf, ProcessesOK
<1> QED
  BY <1>1, <1>2, StartsInv, WritesNameInv, GetsMetaInv, AppliesMetaInv, WakesNodeInv, PullsOwnUsersInv,
     OutsideInv DEF ClusterNext

LEMMA ClusterInvariance == ClusterSpec => []ClusterIInv
<1> QED
  BY ClusterInitInv, ClusterNextInv, PTL DEF ClusterSpec

----------------------------------------------------------------------------
(* What follows *)

\* Two machines never run under one name, and none is given a name that is
\* still in the file of another (local_cache.go of server and worker).
THEOREM NamesAreUnique == ClusterSpec => []NamesDiffer
<1>1. ClusterIInv => NamesDiffer
  BY DEF ClusterIInv
<1> QED
  BY <1>1, ClusterInvariance, PTL

\* A worker that has pulled users is one of its own peers.
LEMMA PulledUsers ==
  ASSUME ClusterIInv, NEW m \in LiveWorkers
  PROVE  /\ m \in Machines /\ m \in Live /\ NameOf(m) \in 1 .. MaxNames
         /\ node[m].pulled # NoUsers =>
              /\ NameOf(m) \in node[m].pulled.peers
              /\ node[m].pulled.users = {u \in Users : Owner(node[m].pulled.peers, u) = NameOf(m)}
         /\ \A w \in LiveWorkers : NameOf(w) = NameOf(m) => w = m
<1>1. m \in Machines /\ m \in Live /\ node[m] \in ProcessRecord
  BY LiveProcess DEF ClusterIInv, LiveWorkers, Live
<1>2. NameOf(m) \in Nat \ {0}
  BY <1>1 DEF ProcessRecord, NameOf
<1>3. NameOf(m) <= names /\ \A w \in LiveWorkers : NameOf(w) = NameOf(m) => w = m
  BY <1>1, <1>2 DEF ClusterIInv, NamesDiffer, Holds, LiveWorkers, Live
<1>4. NameOf(m) \in 1 .. MaxNames
  BY <1>2, <1>3, ClusterAssumption DEF ClusterIInv, ClusterTypeOK
<1> QED
  BY <1>1, <1>3, <1>4 DEF ClusterIInv, ProcessesOK, KnowsItself, NameOf

\* Of the workers alive, the one whose name comes first on the user's ring
\* takes him for its own, if no worker counts on another that is gone.
LEMMA UsersHaveWorkers ==
  ASSUME ClusterIInv, LiveWorkers # {},
         \A m \in LiveWorkers : /\ node[m].pulled # NoUsers
                                /\ node[m].pulled.peers \subseteq {NameOf(w) : w \in LiveWorkers}
  PROVE  UNION {node[m].pulled.users : m \in LiveWorkers} = Users
<1> DEFINE all == {NameOf(w) : w \in LiveWorkers}
<1>1. ASSUME NEW u \in Users PROVE \E m \in LiveWorkers : u \in node[m].pulled.users
  <2>1. PICK w \in LiveWorkers : TRUE
    OBVIOUS
  <2>2. NameOf(w) \in all /\ NameOf(w) \in 1 .. MaxNames
    BY PulledUsers
  <2>3. PICK k \in DOMAIN Ring[u] : Ring[u][k] = NameOf(w)
    BY <2>2, ClusterAssumption
  <2>4. Owner(all, u) \in all
    BY <2>2, <2>3, OwnerIsPeer
  <2>5. PICK m \in LiveWorkers : NameOf(m) = Owner(all, u)
    BY <2>4
  <2>6. NameOf(m) \in node[m].pulled.peers /\ NameOf(m) \in 1 .. MaxNames
        /\ node[m].pulled.users = {v \in Users : Owner(node[m].pulled.peers, v) = NameOf(m)}
    BY PulledUsers
  <2>7. PICK h \in DOMAIN Ring[u] : Ring[u][h] = NameOf(m)
    BY <2>6, ClusterAssumption
  <2>8. Owner(node[m].pulled.peers, u) = NameOf(m)
    BY <2>5, <2>6, <2>7, OwnerOfFewer
  <2> QED
    BY <2>6, <2>8
<1>2. \A m \in LiveWorkers : node[m].pulled.users \subseteq Users
  BY PulledUsers
<1> QED
  BY <1>1, <1>2

\* Users are not lost between workers, and a node works with the stores of the
\* configuration it was given, or has no client since one could not be opened
\* (worker.go 1239-1274, rpc.go 32-86, server.go 173-206), for any number of
\* machines, users, points on the ring, crashes and restarts.
THEOREM ClusterIsShared == ClusterSpec => []ClusterAgrees
<1>1. ASSUME ClusterIInv PROVE UsersAreShared
  <2>1. \A m \in LiveWorkers : node[m].peers # {} => NameOf(m) \in node[m].peers
    BY <1>1 DEF ClusterIInv, ProcessesOK, KnowsItself, LiveWorkers, NameOf
  <2>2. ASSUME NEW m \in LiveWorkers, NEW w \in LiveWorkers, m # w,
               NoUsers \notin {node[m].pulled, node[w].pulled},
               NEW u \in node[m].pulled.users \cap node[w].pulled.users
        PROVE  node[m].pulled.peers # node[w].pulled.peers
    BY <1>1, <2>2, PulledUsers
  <2> QED
    BY <1>1, <2>1, <2>2, UsersHaveWorkers DEF UsersAreShared
<1>2. ASSUME ClusterIInv PROVE NodesUseTheirStores
  BY <1>2 DEF ClusterIInv, ProcessesOK, Connected, ClientsOK, NodesUseTheirStores
<1>3. ClusterIInv => ClusterAgrees
  BY <1>1, <1>2 DEF ClusterAgrees
<1> QED
  BY <1>3, ClusterInvariance, PTL
=============================================================================
