------------------------ MODULE ItemVisibilityProofs ------------------------
(***************************************************************************)
(* Proofs about ItemVisibility: its types, and that an item removed while  *)
(* nothing else is under way is not shown.                                 *)
(*                                                                         *)
(* UndisturbedRemovalHolds is not inductive.  RemovalInv adds what keeps a *)
(* removed item from coming back: no load has read it, no round has pulled *)
(* or picked it, no request works on it; and what a request that is alone  *)
(* has achieved so far, which makes it a removal in the end.               *)
(***************************************************************************)
EXTENDS ItemVisibility, TLAPS

\* A removed item is in nobody's hands.
Forgotten(i) ==
  /\ items[i] # "visible" /\ latest[i] # "visible" /\ offline[i] # "visible"
  /\ i \notin load.read
  /\ i \notin round.pulled /\ i \notin round.picked
  /\ \A c \in Client : Working(c) => request[c].item # i

\* The kinds of requests, and the steps they come to.
KindFits(r) ==
  /\ r.kind = "delete" => ~r.hide /\ r.step \in {"store", "clear"}
  /\ r.step = "clear" => r.kind = "delete"
  /\ r.hide => r.kind \in {"insert", "modify"}

\* Nothing overlaps the request r of c.
Alone(c, r) ==
  /\ ~Loading /\ round.step = "idle"
  /\ \A d \in Client : Working(d) /\ request[d].item = r.item => d = c

\* What r has done of a removal.
Achieved(r) ==
  /\ r.step = "clear" => items[r.item] = "absent"
  /\ r.hide /\ r.step = "store" =>
       latest[r.item] # "visible" /\ offline[r.item] # "visible"

RequestOK(c) ==
  LET r == request[c] IN
    KindFits(r) /\ (r.alone => Alone(c, r) /\ Achieved(r))

RemovalInv ==
  /\ load.step # "add" /\ load.step # "delete" => load.read = {}
  /\ round.step = "idle" => round.pulled = {} /\ round.picked = {}
  /\ \A i \in removed : Forgotten(i)
  /\ \A c \in Client : Working(c) => RequestOK(c)

IInv == VisibilityTypeOK /\ RemovalInv

LEMMA InitialType == VisibilityInit => VisibilityTypeOK
  BY VisibilityAssumption
  DEF VisibilityInit, VisibilityTypeOK, ItemState, DocState, NoRequest

LEMMA DisturbsType ==
  ASSUME request \in [Client -> Requests \cup {NoRequest}], NEW clients
  PROVE  Disturbs(clients) \in [Client -> Requests \cup {NoRequest}]
  BY DEF Disturbs, Requests, NoRequest, Working

\* A client that works answers a request.
LEMMA WorkingRequest ==
  ASSUME VisibilityTypeOK, NEW c \in Client, request[c].step # "idle"
  PROVE  request[c] \in Requests
  BY DEF VisibilityTypeOK, NoRequest

LEMMA StepType ==
  ASSUME NEW r \in Requests, NEW step \in {"add", "update", "store", "clear"}
  PROVE  [r EXCEPT !.step = step] \in Requests
  BY DEF Requests

\* The item of a request may get any document state.
LEMMA DocType ==
  ASSUME VisibilityTypeOK, NEW i \in Item, NEW hide
  PROVE  /\ Added(latest[i]) \in DocState /\ Added(offline[i]) \in DocState
         /\ Updated(latest[i], hide) \in DocState /\ Updated(offline[i], hide) \in DocState
  BY DEF VisibilityTypeOK, DocState, Added, Updated, Hiding

LEMMA NextType ==
  ASSUME VisibilityTypeOK, [VisibilityNext]_allVars
  PROVE  VisibilityTypeOK'
<1>a. MaxRequests \in Nat /\ MaxFailures \in Nat
  BY VisibilityAssumption
<1> USE <1>a DEF VisibilityTypeOK
<1>1. ASSUME NEW c \in Client, NEW kind \in Kind, NEW i \in Item, NEW hide \in BOOLEAN,
             Begins(c, kind, i, hide)
      PROVE  VisibilityTypeOK'
  BY <1>1, DisturbsType DEF Begins, stores, FirstStep, Requests, Kind
<1>2. ASSUME NEW c \in Client, Adds(c)
      PROVE  VisibilityTypeOK'
  <2>1. request[c] \in Requests
    BY <1>2, WorkingRequest DEF Adds
  <2>2. request' \in [Client -> Requests \cup {NoRequest}]
    BY <1>2, <2>1, StepType DEF Adds
  <2>3. latest' \in [Item -> DocState] /\ old' \subseteq Item
    BY <1>2, <2>1, DocType DEF Adds, Requests
  <2>4. UNCHANGED <<keepsHidden, items, others, offline, load, round, removed, requests, failures>>
    BY <1>2 DEF Adds, bounds
  <2> QED BY <2>2, <2>3, <2>4
<1>3. ASSUME NEW c \in Client, Updates(c)
      PROVE  VisibilityTypeOK'
  <2>1. request[c] \in Requests
    BY <1>3, WorkingRequest DEF Updates
  <2>2. request' \in [Client -> Requests \cup {NoRequest}]
    BY <1>3, <2>1, StepType DEF Updates
  <2>3. latest' \in [Item -> DocState] /\ offline' \in [Item -> DocState]
    BY <1>3, <2>1, DocType DEF Updates, Requests
  <2>4. UNCHANGED <<keepsHidden, items, others, old, load, round, removed, requests, failures>>
    BY <1>3 DEF Updates, bounds
  <2> QED BY <2>2, <2>3, <2>4
<1>4. ASSUME NEW c \in Client, Stores(c)
      PROVE  VisibilityTypeOK'
  <2>1. request[c] \in Requests
    BY <1>4, WorkingRequest DEF Stores
  <2>2. request' \in [Client -> Requests \cup {NoRequest}]
    BY <1>4, <2>1, StepType DEF Stores
  <2>3. items' \in [Item -> ItemState]
    BY <1>4, <2>1 DEF Stores, Requests, Stored, Hiding, ItemState, Kind
  <2>4. removed' \subseteq Item
    BY <1>4, <2>1 DEF Stores, RemovedBy, Requests
  <2>5. UNCHANGED <<keepsHidden, others, latest, old, offline, load, round, requests, failures>>
    BY <1>4 DEF Stores, bounds
  <2> QED BY <2>2, <2>3, <2>4, <2>5
<1>5. ASSUME NEW c \in Client, Clears(c)
      PROVE  VisibilityTypeOK'
  <2>1. request[c] \in Requests
    BY <1>5, WorkingRequest DEF Clears
  <2>2. request' \in [Client -> Requests \cup {NoRequest}]
    BY <1>5 DEF Clears
  <2>3. latest' \in [Item -> DocState] /\ offline' \in [Item -> DocState]
    BY <1>5 DEF Clears, DocState
  <2>4. removed' \subseteq Item
    BY <1>5, <2>1 DEF Clears, RemovedBy, Requests
  <2>5. UNCHANGED <<keepsHidden, items, others, old, load, round, requests, failures>>
    BY <1>5 DEF Clears, bounds
  <2> QED BY <2>2, <2>3, <2>4, <2>5
<1>6. ASSUME NEW c \in Client, RequestFails(c)
      PROVE  VisibilityTypeOK'
  BY <1>6 DEF RequestFails, Fails, stores
<1>7. CASE LoadBegins
  BY <1>7, DisturbsType DEF LoadBegins, bounds
<1>8. CASE LoadReads
  BY <1>8 DEF LoadReads, Visible, stores, bounds
<1>17. CASE LoadPanics
  BY <1>17 DEF LoadPanics, bounds
<1>9. CASE LoadAdds
  <2>b. latest' \in [Item -> DocState]
    BY <1>9, DocType DEF LoadAdds
  <2>1. latest' \in [Item -> DocState] /\ old' \subseteq Item
    BY <1>9, <2>b DEF LoadAdds
  <2>a. failures' = failures \/ Fails
    BY <1>9, Zenon DEF LoadAdds
  <2>4. failures' \in 0..MaxFailures
    BY <2>a DEF Fails
  <2>2. load' \in [step : {"idle", "read", "add", "delete", "stopped"}, read : SUBSET Item]
    BY <1>9 DEF LoadAdds
  <2>3. UNCHANGED <<keepsHidden, items, others, offline, request, round, removed, requests>>
    BY <1>9 DEF LoadAdds
  <2> QED BY <2>1, <2>2, <2>3, <2>4
<1>10. CASE LoadDeletes
  <2>1. latest' \in [Item -> DocState] /\ old' \subseteq Item
    BY <1>10 DEF LoadDeletes, DocState
  <2>2. failures' \in 0..MaxFailures /\ load' \in [step : {"idle", "read", "add", "delete", "stopped"}, read : SUBSET Item]
    BY <1>10 DEF LoadDeletes, Fails
  <2>3. UNCHANGED <<keepsHidden, items, others, offline, request, round, removed, requests>>
    BY <1>10 DEF LoadDeletes
  <2> QED BY <2>1, <2>2, <2>3
<1>11. CASE LoadFails
  BY <1>11 DEF LoadFails, Fails
<1>12. CASE RoundBegins
  BY <1>12, DisturbsType DEF RoundBegins, Visible, stores, bounds
<1>13. CASE RoundPicks
  BY <1>13 DEF RoundPicks, Shown, stores, bounds
<1>14. CASE RoundAdds
  <2>1. offline' \in [Item -> DocState]
    BY <1>14, DocType DEF RoundAdds
  <2>2. UNCHANGED <<keepsHidden, items, others, latest, old, request, load, removed, requests, failures>>
    BY <1>14 DEF RoundAdds, bounds
  <2> QED BY <1>14, <2>1, <2>2 DEF RoundAdds
<1>15. CASE RoundFails
  BY <1>15 DEF RoundFails, Fails, stores
<1>16. CASE UNCHANGED allVars
  BY <1>16 DEF allVars, stores, bounds
<1> QED
  BY <1>1, <1>2, <1>3, <1>4, <1>5, <1>6, <1>7, <1>8, <1>9, <1>10, <1>11, <1>12, <1>13, <1>14, <1>15, <1>16, <1>17
  DEF VisibilityNext, RequestStep, LoadStep, RoundStep

\* For any items, clients and bounds, the stores hold documents and items of
\* the known states, and requests, load and round keep to their steps.
THEOREM VisibilityTypeCorrect == VisibilitySpec => []VisibilityTypeOK
  BY InitialType, NextType, PTL DEF VisibilitySpec

----------------------------------------------------------------------------
LEMMA InitialRemoval == VisibilityInit => RemovalInv
  BY DEF VisibilityInit, RemovalInv, Working, NoRequest

\* r is the request of d, perhaps without the flag alone.
Like(r, d) ==
  /\ r.step = request[d].step
  /\ Working(d) =>
       /\ r.kind = request[d].kind /\ r.item = request[d].item /\ r.hide = request[d].hide
       /\ r.alone => request[d].alone

\* What begins takes the flag alone from other requests, and nothing else.
LEMMA DisturbedRequests ==
  ASSUME VisibilityTypeOK, NEW clients, NEW d \in Client
  PROVE  /\ Like(Disturbs(clients)[d], d)
         /\ Working(d) /\ d \in clients => ~Disturbs(clients)[d].alone
<1> SUFFICES ASSUME NEW r, r = IF d \in clients /\ Working(d) THEN [request[d] EXCEPT !.alone = FALSE]
                                                           ELSE request[d]
             PROVE  Like(r, d) /\ (Working(d) /\ d \in clients => ~r.alone)
  BY DEF Disturbs
<1>1. CASE Working(d)
  <2>1. request[d] \in Requests
    BY <1>1, WorkingRequest DEF Working
  <2> QED BY <1>1, <2>1 DEF Requests, Like
<1>2. CASE ~Working(d)
  BY <1>2 DEF Like
<1> QED BY <1>1, <1>2

LEMMA BeginsRemoval ==
  ASSUME IInv, NEW c \in Client, NEW kind \in Kind, NEW i \in Item, NEW hide \in BOOLEAN,
         Begins(c, kind, i, hide)
  PROVE  RemovalInv'
<1> USE DEF IInv
<1>1. /\ UNCHANGED <<items, latest, offline, load, round>>
      /\ removed' = removed \ {i}
      /\ ~Working(c)
      /\ hide => kind \in {"insert", "modify"}
  BY DEF Begins, stores
<1>2. request'[c] = [step |-> FirstStep(kind), kind |-> kind, item |-> i, hide |-> hide,
                     alone |-> ~Loading /\ round.step = "idle" /\ On(i) = {}]
  BY DEF Begins, Disturbs
<1>3. \A d \in Client \ {c} : request'[d] = Disturbs(On(i))[d]
  BY DEF Begins, Disturbs
<1>4. \A d \in Client \ {c} :
        /\ Working(d)' <=> Working(d)
        /\ Like(request'[d], d)
        /\ Working(d) /\ request[d].item = i => ~request'[d].alone
  <2> SUFFICES ASSUME NEW d \in Client \ {c}
               PROVE  /\ Working(d)' <=> Working(d)
                      /\ Like(request'[d], d)
                      /\ Working(d) /\ request[d].item = i => ~request'[d].alone
    OBVIOUS
  <2>1. request'[d] = Disturbs(On(i))[d]
    BY <1>3
  <2>2. Like(request'[d], d)
    BY <2>1, DisturbedRequests
  <2>3. Working(d)' <=> Working(d)
    BY <2>2 DEF Like, Working
  <2>4. Working(d) /\ request[d].item = i => d \in On(i)
    BY DEF On
  <2>5. Working(d) /\ request[d].item = i => ~request'[d].alone
    BY <2>1, <2>4, DisturbedRequests
  <2> QED BY <2>2, <2>3, <2>5
<1>5. ASSUME NEW x \in removed'
      PROVE  Forgotten(x)'
  BY <1>1, <1>2, <1>4, <1>5 DEF RemovalInv, Forgotten, Like
<1>6. RequestOK(c)'
  <2>1. KindFits(request[c])'
    BY <1>1, <1>2 DEF KindFits, FirstStep, Kind
  <2>2. ASSUME request'[c].alone
        PROVE  Alone(c, request[c])' /\ Achieved(request[c])'
    <3>a. request'[c].alone = (~Loading /\ round.step = "idle" /\ On(i) = {})
      BY <1>2
    <3>1. ~Loading /\ round.step = "idle" /\ On(i) = {}
      BY <3>a, <2>2, Zenon
    <3>2. Alone(c, request[c])'
      BY <1>1, <1>2, <1>4, <3>1 DEF Alone, Loading, On, Like
    <3>3. Achieved(request[c])'
      BY <1>1, <1>2 DEF Achieved, FirstStep, Kind
    <3> QED BY <3>2, <3>3
  <2> QED BY <2>1, <2>2 DEF RequestOK
<1>7. ASSUME NEW d \in Client \ {c}, Working(d)'
      PROVE  RequestOK(d)'
  BY <1>1, <1>2, <1>4, <1>7 DEF RemovalInv, RequestOK, KindFits, Alone, Loading, Achieved, Like
<1> QED BY <1>1, <1>5, <1>6, <1>7 DEF RemovalInv

\* A step of a request that changes nothing of other items, and removes its
\* item only as it should.
LEMMA RequestRemoval ==
  ASSUME IInv, NEW c \in Client, Working(c), UNCHANGED <<load, round>>,
         NEW x, x = request[c].item,
         \A d \in Client \ {c} : request'[d] = request[d],
         \A j \in Item \ {x} :
           items'[j] = items[j] /\ latest'[j] = latest[j] /\ offline'[j] = offline[j],
         Working(c)' => request'[c].item = x /\ RequestOK(c)',
         removed' \subseteq removed \cup {x},
         x \in removed' => Forgotten(x)'
  PROVE  RemovalInv'
<1> USE DEF IInv
<1>1. x \notin removed /\ removed \subseteq Item
  BY DEF RemovalInv, Forgotten, VisibilityTypeOK
<1>2. ASSUME NEW j \in removed', j # x
      PROVE  Forgotten(j)'
  <2>1. Forgotten(j) /\ j \in Item
    BY <1>1, <1>2 DEF RemovalInv
  <2>2. \A d \in Client : Working(d)' => request'[d].item # j
    BY <1>2, <2>1 DEF Forgotten, Working
  <2> QED BY <1>2, <2>1, <2>2 DEF Forgotten
<1>3. ASSUME NEW d \in Client \ {c}, Working(d)'
      PROVE  RequestOK(d)'
  <2>1. request'[d] = request[d] /\ Working(d) /\ RequestOK(d)
    BY <1>3 DEF Working, RemovalInv
  <2>2. request[d].item \in Item
    BY <2>1, WorkingRequest DEF Working, Requests
  <2>3. request[d].alone => request[d].item # x
    BY <2>1 DEF RequestOK, Alone, Loading
  <2>4. request[d].alone => Alone(d, request[d])'
    <3>1. SUFFICES ASSUME request[d].alone PROVE Alone(d, request[d])'
      OBVIOUS
    <3>2. Alone(d, request[d])
      BY <2>1, <3>1 DEF RequestOK
    <3> QED BY <2>1, <2>3, <3>1, <3>2 DEF Alone, Loading, Working
  <2>5. request[d].alone => Achieved(request[d])'
    BY <2>1, <2>2, <2>3 DEF RequestOK, Achieved
  <2> QED BY <2>1, <2>4, <2>5 DEF RequestOK, KindFits
<1>4. Working(c)' => RequestOK(c)'
  OBVIOUS
<1>5. ASSUME NEW j \in removed'
      PROVE  Forgotten(j)'
  <2>1. CASE j = x
    BY <1>5, <2>1
  <2>2. CASE j # x
    BY <1>2, <1>5, <2>2
  <2> QED BY <2>1, <2>2
<1>6. \A d \in Client : Working(d)' => RequestOK(d)'
  BY <1>3, <1>4
<1>7. /\ load'.step # "add" /\ load'.step # "delete" => load'.read = {}
      /\ round'.step = "idle" => round'.pulled = {} /\ round'.picked = {}
  BY DEF RemovalInv
<1> QED BY <1>5, <1>6, <1>7 DEF RemovalInv

LEMMA AddsRemoval ==
  ASSUME IInv, NEW c \in Client, Adds(c)
  PROVE  RemovalInv'
<1>1. request[c] \in Requests /\ Working(c) /\ RequestOK(c)
  BY WorkingRequest DEF IInv, RemovalInv, Adds, Working
<1>2. request'[c] = [request[c] EXCEPT !.step = "update"] /\ \A d \in Client \ {c} : request'[d] = request[d]
  BY DEF IInv, VisibilityTypeOK, Adds
<1>3. /\ UNCHANGED <<items, offline, load, round, removed>>
      /\ \A j \in Item \ {request[c].item} : latest'[j] = latest[j]
  BY DEF IInv, VisibilityTypeOK, Adds
<1>4. RequestOK(c)'
  BY <1>1, <1>2, <1>3 DEF Adds, RequestOK, KindFits, Alone, Loading, Achieved, Working, Requests
<1> QED BY <1>1, <1>2, <1>3, <1>4, RequestRemoval DEF IInv, RemovalInv, Forgotten, Requests

LEMMA UpdatesRemoval ==
  ASSUME IInv, NEW c \in Client, Updates(c)
  PROVE  RemovalInv'
<1>1. request[c] \in Requests /\ Working(c) /\ RequestOK(c)
  BY WorkingRequest DEF IInv, RemovalInv, Updates, Working
<1>2. request'[c] = [request[c] EXCEPT !.step = "store"] /\ \A d \in Client \ {c} : request'[d] = request[d]
  BY DEF IInv, VisibilityTypeOK, Updates
<1>3. /\ UNCHANGED <<items, load, round, removed>>
      /\ \A j \in Item \ {request[c].item} : latest'[j] = latest[j] /\ offline'[j] = offline[j]
  BY DEF IInv, VisibilityTypeOK, Updates
<1>4. request[c].hide =>
        latest'[request[c].item] # "visible" /\ offline'[request[c].item] # "visible"
  BY <1>1 DEF IInv, VisibilityTypeOK, Updates, Updated, Hiding, Requests
<1>5. RequestOK(c)'
  BY <1>1, <1>2, <1>3, <1>4 DEF Updates, RequestOK, KindFits, Alone, Loading, Achieved, Working, Requests
<1> QED BY <1>1, <1>2, <1>3, <1>5, RequestRemoval DEF IInv, RemovalInv, Forgotten, Requests

\* What a request that ends has removed is forgotten.
LEMMA RemovedForgotten ==
  ASSUME IInv, NEW c \in Client, Working(c), UNCHANGED <<load, round>>,
         NEW x, x = request[c].item,
         request' = [request EXCEPT ![c] = NoRequest],
         request[c].alone,
         items'[x] # "visible", latest'[x] # "visible", offline'[x] # "visible"
  PROVE  Forgotten(x)'
<1>1. RequestOK(c) /\ Alone(c, request[c])
  BY DEF IInv, RemovalInv, RequestOK
<1>2. load.read = {} /\ round.pulled = {} /\ round.picked = {}
  BY <1>1 DEF IInv, RemovalInv, Alone, Loading, VisibilityTypeOK
<1>3. \A d \in Client : Working(d)' => request'[d].item # x
  BY <1>1 DEF IInv, VisibilityTypeOK, Alone, Working, NoRequest
<1>4. x \notin load'.read \cup round'.pulled \cup round'.picked
  BY <1>2
<1> QED BY <1>3, <1>4 DEF Forgotten

LEMMA StoresRemoval ==
  ASSUME IInv, NEW c \in Client, Stores(c)
  PROVE  RemovalInv'
<1>0. PICK r, x : r = request[c] /\ x = r.item
  OBVIOUS
<1>1. r \in Requests /\ Working(c) /\ RequestOK(c) /\ r.step = "store"
  BY <1>0, WorkingRequest DEF IInv, RemovalInv, Stores, Working
<1>2. x \in Item /\ r.kind \in Kind
  BY <1>0, <1>1 DEF Requests
<1>3. /\ UNCHANGED <<latest, offline, load, round>>
      /\ \A j \in Item \ {x} : items'[j] = items[j]
      /\ items'[x] = Stored(r.kind, items[x], r.hide)
  BY <1>0, <1>2 DEF IInv, VisibilityTypeOK, Stores
<1>4. x \notin removed
  BY <1>0, <1>1 DEF IInv, RemovalInv, Forgotten
<1>5. CASE r.kind = "delete"
  <2>1. /\ request'[c] = [r EXCEPT !.step = "clear"]
        /\ \A d \in Client \ {c} : request'[d] = request[d]
        /\ removed' = removed
    BY <1>0, <1>5 DEF IInv, VisibilityTypeOK, Stores
  <2>2. items'[x] = "absent"
    BY <1>0, <1>3, <1>5 DEF Stored
  <2>3. RequestOK(c)'
    BY <1>0, <1>1, <1>3, <1>5, <2>1, <2>2
    DEF RequestOK, KindFits, Alone, Loading, Achieved, Working, Requests
  <2>4. request'[c].item = x
    BY <1>0, <1>1, <2>1 DEF Requests
  <2> QED BY <1>0, <1>1, <1>3, <1>4, <2>1, <2>3, <2>4, RequestRemoval
<1>6. CASE r.kind # "delete"
  <2>1. /\ request' = [request EXCEPT ![c] = NoRequest]
        /\ removed' = removed \cup RemovedBy(r)
    BY <1>0, <1>6 DEF Stores
  <2>2. request'[c] = NoRequest /\ \A d \in Client \ {c} : request'[d] = request[d]
    BY <2>1 DEF IInv, VisibilityTypeOK
  <2>3. ~Working(c)'
    BY <2>2 DEF Working, NoRequest
  <2>4. ASSUME x \in removed'
        PROVE  Forgotten(x)'
    <3>1. r.alone /\ r.hide
      BY <1>0, <1>4, <1>6, <2>1, <2>4 DEF RemovedBy
    <3>2. r.kind \in {"insert", "modify"}
      BY <1>0, <1>1, <3>1 DEF RequestOK, KindFits
    <3>3. items'[x] # "visible"
      BY <1>0, <1>3, <3>1, <3>2 DEF Stored, Hiding
    <3>4. latest'[x] # "visible" /\ offline'[x] # "visible"
      BY <1>0, <1>1, <1>3, <3>1 DEF RequestOK, Achieved
    <3> QED BY <1>0, <1>1, <1>3, <2>1, <3>1, <3>3, <3>4, RemovedForgotten
  <2>5. removed' \subseteq removed \cup {x}
    BY <1>0, <2>1 DEF RemovedBy
  <2> QED BY <1>0, <1>1, <1>3, <2>2, <2>3, <2>4, <2>5, RequestRemoval
<1> QED BY <1>5, <1>6

LEMMA ClearsRemoval ==
  ASSUME IInv, NEW c \in Client, Clears(c)
  PROVE  RemovalInv'
<1>0. PICK r, x : r = request[c] /\ x = r.item
  OBVIOUS
<1>1. r \in Requests /\ Working(c) /\ RequestOK(c) /\ r.step = "clear"
  BY <1>0, WorkingRequest DEF IInv, RemovalInv, Clears, Working
<1>2. x \in Item
  BY <1>0, <1>1 DEF Requests
<1>3. /\ UNCHANGED <<items, load, round>>
      /\ \A j \in Item \ {x} : latest'[j] = latest[j] /\ offline'[j] = offline[j]
      /\ latest'[x] = "none" /\ offline'[x] = "none"
  BY <1>0, <1>2 DEF IInv, VisibilityTypeOK, Clears
<1>4. x \notin removed
  BY <1>0, <1>1 DEF IInv, RemovalInv, Forgotten
<1>5. /\ request' = [request EXCEPT ![c] = NoRequest]
      /\ removed' = removed \cup RemovedBy(r)
  BY <1>0 DEF Clears
<1>6. request'[c] = NoRequest /\ \A d \in Client \ {c} : request'[d] = request[d]
  BY <1>0, <1>5 DEF IInv, VisibilityTypeOK
<1>7. ~Working(c)'
  BY <1>0, <1>6 DEF Working, NoRequest
<1>8. ASSUME x \in removed'
      PROVE  Forgotten(x)'
  <2>1. r.alone
    BY <1>0, <1>4, <1>5, <1>8 DEF RemovedBy
  <2>2. items'[x] = "absent"
    BY <1>0, <1>1, <1>3, <2>1 DEF RequestOK, Achieved
  <2> QED BY <1>0, <1>1, <1>3, <1>5, <2>1, <2>2, RemovedForgotten
<1>9. removed' \subseteq removed \cup {x}
  BY <1>0, <1>5 DEF RemovedBy
<1> QED BY <1>0, <1>1, <1>3, <1>6, <1>7, <1>8, <1>9, RequestRemoval

LEMMA RequestFailsRemoval ==
  ASSUME IInv, NEW c \in Client, RequestFails(c)
  PROVE  RemovalInv'
<1>1. /\ UNCHANGED <<items, latest, offline, load, round, removed>>
      /\ Working(c)
      /\ request' = [request EXCEPT ![c] = NoRequest]
  BY DEF RequestFails, stores
<1>2. request'[c] = NoRequest /\ \A d \in Client \ {c} : request'[d] = request[d]
  BY <1>1 DEF IInv, VisibilityTypeOK
<1>3. ~Working(c)'
  BY <1>2 DEF Working, NoRequest
<1>4. request[c].item \notin removed
  BY <1>1 DEF IInv, RemovalInv, Forgotten
<1> QED BY <1>1, <1>2, <1>3, <1>4, RequestRemoval

\* A load or a round begins, and takes the flag alone from every request.
LEMMA DisturbingRemoval ==
  ASSUME IInv, \A d \in Client : request'[d] = Disturbs(Client)[d],
         UNCHANGED <<items, latest, offline, removed>>,
         load'.step # "add" /\ load'.step # "delete" => load'.read = {},
         round'.step = "idle" => round'.pulled = {} /\ round'.picked = {},
         \A i \in removed : i \notin load'.read /\ i \notin round'.pulled /\ i \notin round'.picked
  PROVE  RemovalInv'
<1>1. \A d \in Client : /\ Working(d)' <=> Working(d)
                        /\ Like(request'[d], d)
                        /\ Working(d) => ~request'[d].alone
  <2> SUFFICES ASSUME NEW d \in Client
               PROVE  /\ Working(d)' <=> Working(d)
                      /\ Like(request'[d], d)
                      /\ Working(d) => ~request'[d].alone
    OBVIOUS
  <2>1. Like(request'[d], d) /\ (Working(d) => ~request'[d].alone)
    BY DisturbedRequests DEF IInv
  <2>2. Working(d)' <=> Working(d)
    BY <2>1 DEF Like, Working
  <2> QED BY <2>1, <2>2
<1>2. ASSUME NEW i \in removed'
      PROVE  Forgotten(i)'
  <2>1. Forgotten(i) /\ i \in removed
    BY <1>2 DEF IInv, RemovalInv
  <2>2. \A d \in Client : Working(d)' => request'[d].item # i
    BY <1>1, <2>1 DEF Forgotten, Like
  <2> QED BY <2>1, <2>2 DEF Forgotten
<1>3. ASSUME NEW d \in Client, Working(d)'
      PROVE  RequestOK(d)'
  <2>1. Working(d) /\ RequestOK(d) /\ Like(request'[d], d)
    BY <1>1, <1>3 DEF IInv, RemovalInv
  <2>2. ~request'[d].alone
    BY <1>1, <2>1
  <2>3. KindFits(request[d])'
    BY <2>1 DEF RequestOK, KindFits, Like
  <2> QED BY <2>2, <2>3 DEF RequestOK
<1>4. /\ load'.step # "add" /\ load'.step # "delete" => load'.read = {}
      /\ round'.step = "idle" => round'.pulled = {} /\ round'.picked = {}
  OBVIOUS
<1> QED BY <1>2, <1>3, <1>4 DEF RemovalInv

\* A step of a load or a round under way: no request is alone, and removed
\* items stay forgotten.
LEMMA BackgroundRemoval ==
  ASSUME IInv, UNCHANGED <<items, request, removed>>,
         Loading \/ round.step # "idle",
         load'.step # "add" /\ load'.step # "delete" => load'.read = {},
         round'.step = "idle" => round'.pulled = {} /\ round'.picked = {},
         \A i \in removed :
           /\ latest'[i] # "visible" /\ offline'[i] # "visible"
           /\ i \notin load'.read /\ i \notin round'.pulled /\ i \notin round'.picked
  PROVE  RemovalInv'
<1>1. \A d \in Client : Working(d) => KindFits(request[d]) /\ ~request[d].alone
  BY DEF IInv, RemovalInv, RequestOK, Alone, Loading
<1>2. ASSUME NEW d \in Client, Working(d)'
      PROVE  RequestOK(d)'
  BY <1>1, <1>2 DEF RequestOK, KindFits, Working
<1>3. ASSUME NEW i \in removed'
      PROVE  Forgotten(i)'
  BY <1>3 DEF IInv, RemovalInv, Forgotten, Working
<1>4. /\ load'.step # "add" /\ load'.step # "delete" => load'.read = {}
      /\ round'.step = "idle" => round'.pulled = {} /\ round'.picked = {}
  OBVIOUS
<1> QED BY <1>2, <1>3, <1>4 DEF RemovalInv

LEMMA LoadRemoval ==
  ASSUME IInv, LoadBegins \/ LoadStep \/ LoadFails
  PROVE  RemovalInv'
<1>a. removed \subseteq Item /\ \A i \in removed : Forgotten(i)
  BY DEF IInv, RemovalInv, VisibilityTypeOK
<1>b. round.step = "idle" => round.pulled = {} /\ round.picked = {}
  BY DEF IInv, RemovalInv
<1>1. CASE LoadBegins
  <2>1. /\ request' = Disturbs(Client)
        /\ UNCHANGED <<items, latest, offline, round, removed>>
        /\ load'.read = {}
    BY <1>1 DEF LoadBegins
  <2> QED BY <1>a, <1>b, <2>1, DisturbingRemoval DEF Forgotten
<1>2. CASE LoadReads
  <2>1. /\ UNCHANGED <<items, latest, offline, request, round, removed>>
        /\ load.step = "read" /\ load'.step = "add" /\ load'.read = Visible
    BY <1>2 DEF LoadReads, stores
  <2>2. \A i \in removed : i \notin Visible
    BY <1>a DEF Forgotten, Visible
  <2> QED BY <1>a, <1>b, <2>1, <2>2, BackgroundRemoval DEF Forgotten, Loading
<1>6. CASE LoadPanics
  <2>1. /\ UNCHANGED <<items, latest, offline, request, round, removed>>
        /\ load.step = "read" /\ load' = [load EXCEPT !.step = "stopped"]
    BY <1>6 DEF LoadPanics
  <2>2. load'.read = {}
    BY <2>1 DEF IInv, VisibilityTypeOK, RemovalInv
  <2> QED BY <1>a, <1>b, <2>1, <2>2, BackgroundRemoval DEF Forgotten, Loading
<1>3. CASE LoadAdds
  <2>1. /\ UNCHANGED <<items, offline, request, round, removed>>
        /\ load.step = "add" /\ load'.step = "delete" /\ load'.read = load.read
    BY <1>3 DEF LoadAdds, IInv, VisibilityTypeOK
  <2>2. \A i \in removed : latest'[i] = latest[i]
    BY <1>3, <1>a DEF LoadAdds, Forgotten
  <2> QED BY <1>a, <1>b, <2>1, <2>2, BackgroundRemoval DEF Forgotten, Loading
<1>4. CASE LoadDeletes
  <2>1. /\ UNCHANGED <<items, offline, request, round, removed>>
        /\ load.step = "delete" /\ load'.step = "idle" /\ load'.read = {}
    BY <1>4 DEF LoadDeletes
  <2>2. \A i \in removed : latest'[i] \in {"none", latest[i]}
    BY <1>4, <1>a DEF LoadDeletes
  <2> QED BY <1>a, <1>b, <2>1, <2>2, BackgroundRemoval DEF Forgotten, Loading
<1>5. CASE LoadFails
  <2>1. /\ UNCHANGED <<items, latest, offline, request, round, removed>>
        /\ load.step = "read" /\ load' = [load EXCEPT !.step = "idle"]
    BY <1>5 DEF LoadFails
  <2>2. load'.read = {}
    BY <2>1 DEF IInv, VisibilityTypeOK, RemovalInv
  <2> QED BY <1>a, <1>b, <2>1, <2>2, BackgroundRemoval DEF Forgotten, Loading
<1> QED BY <1>1, <1>2, <1>3, <1>4, <1>5, <1>6 DEF LoadStep

LEMMA RoundRemoval ==
  ASSUME IInv, RoundStep \/ RoundFails
  PROVE  RemovalInv'
<1>a. removed \subseteq Item /\ \A i \in removed : Forgotten(i)
  BY DEF IInv, RemovalInv, VisibilityTypeOK
<1>b. load.step # "add" /\ load.step # "delete" => load.read = {}
  BY DEF IInv, RemovalInv
<1>1. CASE RoundBegins
  <2>1. /\ request' = Disturbs(Client)
        /\ UNCHANGED <<items, latest, offline, load, removed>>
        /\ round'.step = "pick" /\ round'.pulled = Visible /\ round'.picked = {}
    BY <1>1 DEF RoundBegins, stores
  <2>2. \A i \in removed : i \notin Visible
    BY <1>a DEF Forgotten, Visible
  <2> QED BY <1>a, <1>b, <2>1, <2>2, DisturbingRemoval DEF Forgotten
<1>2. CASE RoundPicks
  <2>1. PICK picked \in SUBSET (round.pulled \cup Shown) :
               round' = [step |-> "add", pulled |-> {}, picked |-> picked]
    BY <1>2 DEF RoundPicks
  <2>2. /\ UNCHANGED <<items, latest, offline, load, request, removed>>
        /\ round.step = "pick"
    BY <1>2 DEF RoundPicks, stores
  <2>3. \A i \in removed : i \notin picked
    BY <1>a, <2>1 DEF Forgotten, Shown
  <2> QED BY <1>a, <1>b, <2>1, <2>2, <2>3, BackgroundRemoval DEF Forgotten, Loading
<1>3. CASE RoundAdds
  <2>1. /\ UNCHANGED <<items, latest, load, request, removed>>
        /\ round.step = "add"
        /\ round' = [step |-> "idle", pulled |-> {}, picked |-> {}]
    BY <1>3 DEF RoundAdds
  <2>2. \A i \in removed : offline'[i] = offline[i]
    BY <1>3, <1>a DEF RoundAdds, Forgotten
  <2> QED BY <1>a, <1>b, <2>1, <2>2, BackgroundRemoval DEF Forgotten, Loading
<1>4. CASE RoundFails
  <2>1. /\ UNCHANGED <<items, latest, offline, load, request, removed>>
        /\ round.step # "idle"
        /\ round' = [step |-> "idle", pulled |-> {}, picked |-> {}]
    BY <1>4 DEF RoundFails, stores
  <2> QED BY <1>a, <1>b, <2>1, BackgroundRemoval DEF Forgotten, Loading
<1> QED BY <1>1, <1>2, <1>3, <1>4 DEF RoundStep

LEMMA NextRemoval ==
  ASSUME IInv, [VisibilityNext]_allVars
  PROVE  RemovalInv'
<1>1. CASE UNCHANGED allVars
  BY <1>1 DEF IInv, allVars, stores, RemovalInv, Forgotten, RequestOK, KindFits, Alone, Loading, Achieved, Working
<1> QED
  BY <1>1, BeginsRemoval, AddsRemoval, UpdatesRemoval, StoresRemoval, ClearsRemoval,
     RequestFailsRemoval, LoadRemoval, RoundRemoval
  DEF VisibilityNext, RequestStep

\* For any items, clients and bounds, an item that was removed while nothing
\* else was under way stays out of the latest items and of the user's
\* recommendations until another request touches it.
THEOREM RemovalsHold == VisibilitySpec => []UndisturbedRemovalHolds
<1>1. VisibilityInit => IInv
  BY InitialType, InitialRemoval DEF IInv
<1>2. IInv /\ [VisibilityNext]_allVars => IInv'
  BY NextType, NextRemoval DEF IInv
<1>3. IInv => UndisturbedRemovalHolds
  BY DEF IInv, RemovalInv, Forgotten, UndisturbedRemovalHolds
<1> QED BY <1>1, <1>2, <1>3, PTL DEF VisibilitySpec
=============================================================================
