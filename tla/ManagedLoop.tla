---------------------------- MODULE ManagedLoop ----------------------------
(***************************************************************************)
(* The managed mode of the master: rounds of a load and tasks that begin   *)
(* when a request to /api/admin/schedule says so (RunManagedTasksLoop of   *)
(* master/master.go, scheduleAPIHandler of master/rest.go).  The requests  *)
(* and the loop share scheduleState without a lock, and triggerChan, a     *)
(* condition channel.                                                      *)
(***************************************************************************)
EXTENDS Naturals

CONSTANTS
  Fitting,    \* the tasks of every round
  Searching,  \* the tasks of a round that searches models
  Posters,    \* who may post
  MaxPosts    \* bound

VARIABLES
  poster,       \* poster -> what its request does
  posts,        \* counts requests that have arrived
  trigger,      \* triggerChan holds a signal
  searchModel,  \* scheduleState.SearchModel
  isRunning,    \* scheduleState.IsRunning
  round,        \* the round under way, [step |-> "wait"] between rounds
  registered,   \* tasks the scheduler knows
  task,         \* task -> "idle", "running" or "done": it has told the loop
  unheard,      \* history: requests that have signalled, and no round has begun since
  meant         \* history: the last request while no round was under way wanted a search

managedVars == <<poster, posts, trigger, searchModel, isRunning, round, registered, task, unheard, meant>>

Tasks == Fitting \cup Searching
Waiting == [step |-> "wait"]

ManagedInit ==
  /\ poster = [p \in Posters |-> "idle"]
  /\ posts = 0
  /\ trigger = FALSE /\ searchModel = FALSE /\ isRunning = FALSE
  /\ round = Waiting
  /\ registered = {}
  /\ task = [t \in Tasks |-> "idle"]
  /\ unheard = FALSE
  /\ meant = FALSE

----------------------------------------------------------------------------
(* POST /api/admin/schedule, with search_model or without                  *)

Posts(p) ==
  /\ poster[p] = "idle" /\ posts < MaxPosts
  /\ posts' = posts + 1
  /\ poster' = [poster EXCEPT ![p] = "signal"]
  /\ \/ UNCHANGED <<searchModel, meant>>
     \/ \E wanted \in BOOLEAN :
          /\ searchModel' = wanted
          /\ meant' = (wanted /\ (meant \/ round.step \in {"wait", "begin"}))
  /\ UNCHANGED <<trigger, isRunning, round, registered, task, unheard>>

Triggers(p) ==
  /\ poster[p] = "signal"
  /\ poster' = [poster EXCEPT ![p] = "idle"]
  /\ trigger' = TRUE
  /\ unheard' = TRUE
  /\ UNCHANGED <<posts, searchModel, isRunning, round, registered, task, meant>>

----------------------------------------------------------------------------
(* A round                                                                 *)

RoundWakes ==
  /\ round = Waiting /\ trigger
  /\ trigger' = FALSE
  /\ unheard' = FALSE
  /\ round' = [step |-> "begin"]
  /\ UNCHANGED <<poster, posts, searchModel, isRunning, registered, task, meant>>

Begins ==
  /\ round.step = "begin"
  /\ isRunning' = TRUE
  /\ round' = [step |-> "load", meant |-> meant, search |-> searchModel]
  /\ meant' = FALSE
  /\ UNCHANGED <<poster, posts, trigger, searchModel, registered, task, unheard>>

\* Register, in an order that does not matter, before any task is started.
Wanted == Fitting \cup (IF round.search THEN Searching ELSE {})
RoundLoads ==
  /\ round.step = "load"
  /\ LET started == Wanted \ registered IN
       /\ round' = [step |-> "run", meant |-> round.meant, search |-> round.search,
                    started |-> started, late |-> {t \in Wanted : task[t] = "done"}]
       /\ registered' = registered \cup Wanted
       /\ task' = [t \in Tasks |-> IF t \in started THEN "running" ELSE task[t]]
  /\ UNCHANGED <<poster, posts, trigger, searchModel, isRunning, unheard, meant>>

\* The load fails, panics or finds nothing: the deferred function is called.
Resets ==
  /\ isRunning' = FALSE /\ searchModel' = FALSE
  /\ round' = Waiting
RoundFails ==
  /\ round.step = "load"
  /\ Resets
  /\ UNCHANGED <<poster, posts, trigger, registered, task, unheard, meant>>

\* A task ends with or without an error; wg.Done is called before Unregister.
EndsTask(t) ==
  /\ task[t] = "running"
  /\ task' = [task EXCEPT ![t] = "done"]
  /\ UNCHANGED <<poster, posts, trigger, searchModel, isRunning, round, registered, unheard, meant>>

\* Bug: a task that has failed does not unregister
ForgetsFailed(t) ==
  /\ task[t] = "done"
  /\ task' = [task EXCEPT ![t] = "idle"]
  /\ registered' \in {registered, registered \ {t}}
  /\ UNCHANGED <<poster, posts, trigger, searchModel, isRunning, round, unheard, meant>>
Unregisters(t) ==
  /\ task[t] = "done"
  /\ task' = [task EXCEPT ![t] = "idle"]
  /\ registered' = registered \ {t}
  /\ UNCHANGED <<poster, posts, trigger, searchModel, isRunning, round, unheard, meant>>

RoundEnds ==
  /\ round.step = "run"
  /\ \A t \in round.started : task[t] # "running"
  /\ Resets
  /\ UNCHANGED <<poster, posts, trigger, registered, task, unheard, meant>>

ManagedNext ==
  \/ \E p \in Posters : Posts(p) \/ Triggers(p)
  \/ RoundWakes \/ Begins \/ RoundLoads \/ RoundFails \/ RoundEnds
  \/ \E t \in Tasks : EndsTask(t) \/ Unregisters(t)
ManagedSpec == ManagedInit /\ [][ManagedNext]_managedVars

----------------------------------------------------------------------------
(* A request that has signalled is heard: a round begins after it, if the  *)
(* loop waits the signal is there.  A round runs all tasks it should,      *)
(* except those that told the round before that they are done and have not *)
(* unregistered yet; and it searches models when the last request before   *)
(* it wanted that, unless that request came while the round before was     *)
(* under way: its end takes the wish for its own (master.go 429-498,       *)
(* rest.go 1278-1306).                                                     *)
RoundsDoWhatWasAsked ==
  /\ unheard => trigger
  /\ round.step = "run" =>
       /\ Fitting \cup (IF round.search THEN Searching ELSE {}) \subseteq round.started \cup round.late
       /\ \A t \in round.started : t \in registered \/ task[t] = "idle"
  /\ round.step \in {"load", "run"} /\ round.meant => round.search
=============================================================================
