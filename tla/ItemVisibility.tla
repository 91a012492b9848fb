--------------------------- MODULE ItemVisibility ---------------------------
(***************************************************************************)
(* Which items the cache shows.  The server's item requests write the data *)
(* store and the cache one after the other, without a transaction: insert  *)
(* and modify the cache first, delete the data store first (rest.go).      *)
(* Meanwhile the master's load rebuilds the latest items from the data     *)
(* store (tasks.go), and a worker's round writes the recommendations of a  *)
(* user from the items it pulled when it began (worker.go).                *)
(*                                                                         *)
(* Items do not meet: every list is longer than Item here, a batch of      *)
(* insertions is a set of requests, and the streams that read all items    *)
(* are one step.  Requests, loads and rounds may fail between any two      *)
(* steps; a load of a store without items panics, which ends the loop of   *)
(* the loads.  The popular items and the item neighbours are written like  *)
(* the latest items and left out; users stay active.                       *)
(*                                                                         *)
(* Definitions marked "Bug:" are not part of the model; putting one in the *)
(* place of the definition after it breaks a property.                     *)
(***************************************************************************)
EXTENDS Naturals, FiniteSets

CONSTANTS
  Item,
  Client,       \* goroutines of the server that answer item requests
  MaxRequests,  \* bound: requests
  MaxFailures   \* bound: steps that fail

ASSUME VisibilityAssumption == {MaxRequests, MaxFailures} \subseteq Nat

VARIABLES
  keepsHidden, \* the cache store keeps is_hidden when it inserts a document
               \* again: SQL stores do, Redis and MongoDB do not
  items,       \* the data store
  others,      \* ... has more items than these, which no request touches
  latest,      \* documents of the collection NonPersonalized, latest
  old,         \* latest documents stamped before the load under way began
  offline,     \* documents of OfflineRecommend of one user
  request,     \* client -> the request it answers
  load,        \* [step, read]: runLoadDatasetTask
  round,       \* [step, pulled, picked]: Recommend, for the user
  removed,     \* history: items removed with nothing else under way
  requests, failures \* counters for the bounds

stores == <<keepsHidden, items, others, latest, old, offline>>
bounds == <<requests, failures>>
allVars == <<stores, request, load, round, removed, bounds>>

ItemState == {"absent", "visible", "hidden"}
DocState == {"none", "visible", "hidden"}
Kind == {"insert", "modify", "delete", "feedback"}
NoRequest == [step |-> "idle"]
Requests == [step : {"add", "update", "store", "clear"}, kind : Kind,
             item : Item, hide : BOOLEAN, alone : BOOLEAN]

\* A load is under way.
Loading == load.step \notin {"idle", "stopped"}

Visible == {i \in Item : items[i] = "visible"}
Shown == {i \in Item : latest[i] = "visible"}

Hiding(hide) == IF hide THEN "hidden" ELSE "visible"

\* AddScores of a document that is not hidden.
Added(doc) == IF doc = "hidden" /\ keepsHidden THEN "hidden" ELSE "visible"

\* UpdateScores with IsHidden.
Updated(doc, hide) == IF doc = "none" THEN "none" ELSE Hiding(hide)

VisibilityInit ==
  /\ keepsHidden \in BOOLEAN
  /\ items = [i \in Item |-> "absent"]
  /\ others \in BOOLEAN
  /\ latest = [i \in Item |-> "none"]
  /\ old = {}
  /\ offline = [i \in Item |-> "none"]
  /\ request = [c \in Client |-> NoRequest]
  /\ load = [step |-> "idle", read |-> {}]
  /\ round = [step |-> "idle", pulled |-> {}, picked |-> {}]
  /\ removed = {}
  /\ requests = 0
  /\ failures = 0

Working(c) == request[c].step # "idle"
On(i) == {c \in Client : Working(c) /\ request[c].item = i}

Fails == failures < MaxFailures /\ failures' = failures + 1

\* What now begins overlaps the requests of clients.
Disturbs(clients) ==
  [c \in Client |->
     IF c \in clients /\ Working(c) THEN [request[c] EXCEPT !.alone = FALSE]
     ELSE request[c]]

----------------------------------------------------------------------------
(* Item requests of the server. *)

FirstStep(kind) ==
  CASE kind = "insert" -> "add" [] kind = "modify" -> "update" [] OTHER -> "store"

Begins(c, kind, i, hide) ==
  /\ ~Working(c)
  /\ requests < MaxRequests
  /\ hide => kind \in {"insert", "modify"}
  /\ request' = [Disturbs(On(i)) EXCEPT ![c] =
       [step |-> FirstStep(kind), kind |-> kind, item |-> i, hide |-> hide,
        alone |-> ~Loading /\ round.step = "idle" /\ On(i) = {}]]
  /\ removed' = removed \ {i}
  /\ requests' = requests + 1
  /\ UNCHANGED <<stores, load, round, failures>>

\* The time stamp was taken by the server, maybe before the load began.
Adds(c) ==
  LET i == request[c].item IN
    /\ request[c].step = "add"
    /\ latest' = [latest EXCEPT ![i] = Added(@)]
    /\ old' \in {old \ {i}, IF Loading THEN old \cup {i} ELSE {}}
    /\ request' = [request EXCEPT ![c].step = "update"]
    /\ UNCHANGED <<keepsHidden, items, others, offline, load, round, removed, bounds>>

\* UpdateScores on ItemCache.
Updates(c) ==
  LET i == request[c].item
      hide == request[c].hide IN
    /\ request[c].step = "update"
    /\ latest' = [latest EXCEPT ![i] = Updated(@, hide)]
    /\ offline' = [offline EXCEPT ![i] = Updated(@, hide)]
    /\ request' = [request EXCEPT ![c].step = "store"]
    /\ UNCHANGED <<keepsHidden, items, others, old, load, round, removed, bounds>>

\* BatchInsertItems, ModifyItem, DeleteItem, and BatchInsertFeedback, which
\* inserts the items that do not exist.
Stored(kind, item, hide) ==
  CASE kind = "insert" -> Hiding(hide)
    [] kind = "modify" -> IF item = "absent" THEN "absent" ELSE Hiding(hide)
    [] kind = "delete" -> "absent"
    [] kind = "feedback" -> IF item = "absent" THEN "visible" ELSE item

\* History: r removed its item, and nothing else was under way meanwhile.
RemovedBy(r) == IF r.alone /\ (r.hide \/ r.kind = "delete") THEN {r.item} ELSE {}

Stores(c) ==
  LET r == request[c] IN
    /\ r.step = "store"
    /\ items' = [items EXCEPT ![r.item] = Stored(r.kind, @, r.hide)]
    /\ IF r.kind = "delete"
       THEN /\ request' = [request EXCEPT ![c].step = "clear"]
            /\ UNCHANGED removed
       ELSE /\ request' = [request EXCEPT ![c] = NoRequest]
            /\ removed' = removed \cup RemovedBy(r)
    /\ UNCHANGED <<keepsHidden, others, latest, old, offline, load, round, bounds>>

\* Bug: ItemCache without OfflineRecommend
ClearsLatest(c) ==
  /\ request[c].step = "clear"
  /\ latest' = [latest EXCEPT ![request[c].item] = "none"]
  /\ removed' = removed \cup RemovedBy(request[c])
  /\ request' = [request EXCEPT ![c] = NoRequest]
  /\ UNCHANGED <<keepsHidden, items, others, old, offline, load, round, bounds>>

\* DeleteScores on ItemCache.
Clears(c) ==
  LET i == request[c].item IN
    /\ request[c].step = "clear"
    /\ latest' = [latest EXCEPT ![i] = "none"]
    /\ offline' = [offline EXCEPT ![i] = "none"]
    /\ removed' = removed \cup RemovedBy(request[c])
    /\ request' = [request EXCEPT ![c] = NoRequest]
    /\ UNCHANGED <<keepsHidden, items, others, old, load, round, bounds>>

RequestFails(c) ==
  /\ Working(c)
  /\ Fails
  /\ request' = [request EXCEPT ![c] = NoRequest]
  /\ UNCHANGED <<stores, load, round, removed, requests>>

RequestStep(c) == Adds(c) \/ Updates(c) \/ Stores(c) \/ Clears(c)

----------------------------------------------------------------------------
(* A load of the master. *)

\* initialStartTime is taken.
LoadBegins ==
  /\ load.step = "idle"
  /\ load' = [step |-> "read", read |-> {}]
  /\ old' = {i \in Item : latest[i] # "none"}
  /\ request' = Disturbs(Client)
  /\ UNCHANGED <<keepsHidden, items, others, latest, offline, round, removed, bounds>>

HasItems == others \/ \E i \in Item : items[i] # "absent"

\* Bug: hidden items are not skipped
LoadReadsAll ==
  /\ load.step = "read"
  /\ HasItems
  /\ load' = [step |-> "add", read |-> {i \in Item : items[i] # "absent"}]
  /\ UNCHANGED <<stores, request, round, removed, bounds>>

\* NonPersonalized.Push skips hidden items.
LoadReads ==
  /\ load.step = "read"
  /\ HasItems
  /\ load' = [step |-> "add", read |-> Visible]
  /\ UNCHANGED <<stores, request, round, removed, bounds>>

\* Split divides by the number of items; the panic ends the loop for good.
LoadPanics ==
  /\ load.step = "read"
  /\ ~HasItems
  /\ load' = [load EXCEPT !.step = "stopped"]
  /\ old' = {}
  /\ UNCHANGED <<keepsHidden, items, others, latest, offline, request, round, removed, bounds>>

\* A failure is logged, and the old documents are deleted all the same.
LoadAdds ==
  /\ load.step = "add"
  /\ load' = [load EXCEPT !.step = "delete"]
  /\ \/ /\ latest' = [i \in Item |->
              IF i \in load.read THEN Added(latest[i]) ELSE latest[i]]
        /\ old' = old \ load.read
        /\ UNCHANGED failures
     \/ /\ Fails
        /\ UNCHANGED <<latest, old>>
  /\ UNCHANGED <<keepsHidden, items, others, offline, request, round, removed, requests>>

\* Bug: documents stamped at the time the load began are deleted, too
LoadDeletesEqual ==
  /\ load.step = "delete"
  /\ load' = [step |-> "idle", read |-> {}]
  /\ old' = {}
  /\ latest' = [i \in Item |-> IF i \in old \cup load.read THEN "none" ELSE latest[i]]
  /\ UNCHANGED <<keepsHidden, items, others, offline, request, round, removed, bounds>>

\* DeleteScores Before the time the load began.
LoadDeletes ==
  /\ load.step = "delete"
  /\ load' = [step |-> "idle", read |-> {}]
  /\ old' = {}
  /\ \/ /\ latest' = [i \in Item |-> IF i \in old THEN "none" ELSE latest[i]]
        /\ UNCHANGED failures
     \/ /\ Fails
        /\ UNCHANGED latest
  /\ UNCHANGED <<keepsHidden, items, others, offline, request, round, removed, requests>>

LoadFails ==
  /\ load.step = "read"
  /\ Fails
  /\ load' = [load EXCEPT !.step = "idle"]
  /\ old' = {}
  /\ UNCHANGED <<keepsHidden, items, others, latest, offline, request, round, removed, requests>>

LoadStep == LoadReads \/ LoadPanics \/ LoadAdds \/ LoadDeletes

----------------------------------------------------------------------------
(* A recommendation round of a worker, as far as the user is concerned. *)

\* pullItems
RoundBegins ==
  /\ round.step = "idle"
  /\ round' = [step |-> "pick", pulled |-> Visible, picked |-> {}]
  /\ request' = Disturbs(Client)
  /\ UNCHANGED <<stores, load, removed, bounds>>

\* Candidates are available items; exploreRecommend takes latest items as
\* the cache shows them.  Which items are chosen does not matter here.
RoundPicks ==
  /\ round.step = "pick"
  /\ \E picked \in SUBSET (round.pulled \cup Shown) :
       round' = [step |-> "add", pulled |-> {}, picked |-> picked]
  /\ UNCHANGED <<stores, request, load, removed, bounds>>

\* AddScores; documents of earlier rounds are not deleted.
RoundAdds ==
  /\ round.step = "add"
  /\ offline' = [i \in Item |->
       IF i \in round.picked THEN Added(offline[i]) ELSE offline[i]]
  /\ round' = [step |-> "idle", pulled |-> {}, picked |-> {}]
  /\ UNCHANGED <<keepsHidden, items, others, latest, old, request, load, removed, bounds>>

RoundFails ==
  /\ round.step # "idle"
  /\ Fails
  /\ round' = [step |-> "idle", pulled |-> {}, picked |-> {}]
  /\ UNCHANGED <<stores, request, load, removed, requests>>

RoundStep == RoundBegins \/ RoundPicks \/ RoundAdds

----------------------------------------------------------------------------
VisibilityNext ==
  \/ \E c \in Client :
       \/ \E kind \in Kind, i \in Item, hide \in BOOLEAN : Begins(c, kind, i, hide)
       \/ RequestStep(c) \/ RequestFails(c)
  \/ LoadBegins \/ LoadStep \/ LoadFails
  \/ RoundStep \/ RoundFails

VisibilitySpec == VisibilityInit /\ [][VisibilityNext]_allVars

\* Handlers run on, and the tickers of master and workers fire.
FairVisibilitySpec ==
  /\ VisibilitySpec
  /\ \A c \in Client : WF_allVars(RequestStep(c))
  /\ WF_allVars(LoadBegins)
  /\ WF_allVars(LoadStep)
  /\ WF_allVars(RoundStep)

----------------------------------------------------------------------------
(* Properties *)

\* The variables hold what the stores, the requests, a load and a round can
\* hold (rest.go, tasks.go, worker.go).
VisibilityTypeOK ==
  /\ keepsHidden \in BOOLEAN
  /\ items \in [Item -> ItemState]
  /\ others \in BOOLEAN
  /\ latest \in [Item -> DocState]
  /\ old \subseteq Item
  /\ offline \in [Item -> DocState]
  /\ request \in [Client -> Requests \cup {NoRequest}]
  /\ load \in [step : {"idle", "read", "add", "delete", "stopped"}, read : SUBSET Item]
  /\ round \in [step : {"idle", "pick", "add"}, pulled : SUBSET Item, picked : SUBSET Item]
  /\ removed \subseteq Item
  /\ requests \in 0..MaxRequests
  /\ failures \in 0..MaxFailures

\* An item that was deleted or hidden while no load, no round and no other
\* request for it was under way is shown neither to the user nor among the
\* latest items until another request touches it (deleteItem, modifyItem
\* and batchInsertItems of rest.go).
UndisturbedRemovalHolds ==
  \A i \in removed :
    items[i] # "visible" /\ latest[i] # "visible" /\ offline[i] # "visible"

\* A load of a store without items has ended the loads (LoadPanics).
Stopped == load.step = "stopped"

\* Whatever requests, loads and failures overlap, the latest items end up
\* showing no item that the data store lacks or hides (tasks.go 107-121
\* repairs what the requests leave), unless the loads have stopped.
LatestShowsOnlyVisible == <>[](Stopped \/ Shown \subseteq Visible)

\* With a store that overwrites documents the latest items end up showing
\* every visible item (tasks.go 107-121), unless the loads have stopped.
LatestShowsAll == <>[](Stopped \/ keepsHidden \/ Visible \subseteq Shown)

\* The recommendations of the user end up without items that were deleted or
\* hidden ("delete item from cache", rest.go 1664).
OfflineShowsOnlyVisible == <>[](\A i \in Item : offline[i] = "visible" => items[i] = "visible")
=============================================================================
