--------------------------- MODULE MasterTraining ---------------------------
(***************************************************************************)
(* The background tasks of the master (master/master.go, master/tasks.go): *)
(* the loop that loads the data sets and starts the privileged tasks, the  *)
(* loop that starts the search tasks, and the tasks, each of which takes   *)
(* its jobs from the scheduler and reads a data set under a read lock that *)
(* it keeps until it ends, also while it asks for jobs again.              *)
(*                                                                         *)
(* Composes JobsScheduler with the RWMutex of every data set.              *)
(***************************************************************************)
EXTENDS JobsScheduler, Sequences

CONSTANTS
  RankingTasks, ClickTasks,   \* the tasks that read the one data set or the other
  None,
  Asks,      \* the tasks that call AvailableJobs again between rounds
  MaxLoads   \* bound: how often the data sets are loaded

Data == <<"ranking", "click">>   \* in the order the loader replaces them

ASSUME TrainingAssumption ==
  /\ RankingTasks \cup ClickTasks \subseteq Task /\ RankingTasks \cap ClickTasks = {}
  /\ Asks \subseteq Task
  /\ MaxLoads \in Nat

\* The data set a task reads, or None.
DataOf == [t \in Task |-> IF t \in RankingTasks THEN "ranking"
                         ELSE IF t \in ClickTasks THEN "click" ELSE None]

VARIABLES
  step,      \* where the run method of a task is, see below
  readers,   \* data set -> tasks that hold its read lock
  loader,    \* idle, the data set it wants to replace, or registering
  left,      \* privileged tasks the loader still has to register
  loads,     \* loads begun
  loaded,    \* loadDataChan was signalled: a load has succeeded
  dataVersion,   \* data set -> how often it was replaced
  seen       \* task -> dataVersion it found under its read lock

trainingVars == <<step, readers, loader, left, loads, loaded, dataVersion, seen>>
masterTrainingVars == <<vars, trainingVars>>

\* begin     run was not entered, or waits for RLock
\* run       inside run, with the read lock if it takes one
\* unlocked  run returned: the deferred RUnlock is done, Unregister is not
Step == {"begin", "run", "unlocked"}

DataSet == {"ranking", "click"}

\* The loader has called Lock on d: no new reader gets in (RWMutex).
WriterWaits(d) == loader = d

TrainingInit ==
  /\ Init
  /\ step = [t \in Task |-> "begin"]
  /\ readers = [d \in DataSet |-> {}]
  /\ loader = "idle"
  /\ left = {}
  /\ loads = 0
  /\ loaded = FALSE
  /\ dataVersion = [d \in DataSet |-> 0]
  /\ seen = [t \in Task |-> 0]

----------------------------------------------------------------------------
(* RunPrivilegedTasksLoop and runLoadDatasetTask *)

\* The ticker or an import: the database is read, then the first data set is
\* to be replaced.  (A load that fails has no effect; one that finds no items
\* ends the loop before it gets here, see LoadLoop, so that the data sets are
\* never empty below.)
LoadBegins ==
  /\ loader = "idle"
  /\ loads < MaxLoads
  /\ loads' = loads + 1
  /\ loader' = Data[1]
  /\ UNCHANGED <<vars, step, readers, left, loaded, dataVersion, seen>>

\* Variants with a plausible bug stand before the definition they vary.

\* Lock, replace, Unlock: possible once the readers are gone.
Replace(d) ==
  /\ loader = d
  /\ readers[d] = {}
  /\ dataVersion' = [dataVersion EXCEPT ![d] = @ + 1]
  /\ UNCHANGED <<vars, step, readers, loads, seen>>
  /\ \/ /\ d = Data[1]
        /\ loader' = Data[2]
        /\ UNCHANGED <<left, loaded>>
     \/ /\ d = Data[2]
        /\ loader' = "registering"
        /\ left' = Privileged
        /\ loaded' = TRUE

\* jobsScheduler.Register, in the order of the list; a task that has not
\* unregistered yet is refused and skipped.
LoaderRegisters ==
  /\ loader = "registering"
  /\ \E t \in left :
       /\ \A u \in left : t <= u
       /\ left' = left \ {t}
       /\ IF pc[t] = "off" THEN \E p \in Priorities : Register(t, p)
                           ELSE LockFree /\ UNCHANGED vars
  /\ UNCHANGED <<step, readers, loader, loads, loaded, dataVersion, seen>>

\* The goroutines of the registered tasks are started.
LoaderStarts ==
  /\ loader = "registering"
  /\ left = {}
  /\ loader' = "idle"
  /\ UNCHANGED <<vars, step, readers, left, loads, loaded, dataVersion, seen>>

\* RunRagtagTasksLoop, after the first load: the search tasks.
SearchRegisters(t) ==
  /\ loaded
  /\ t \notin Privileged
  /\ \E p \in Priorities : Register(t, p)
  /\ UNCHANGED trainingVars

----------------------------------------------------------------------------
(* The goroutine of a task *)

\* j.Init(), not before the loop has started the goroutine.
CallsInit(t) ==
  /\ pc[t] = "starting"
  /\ t \in Privileged => loader # "registering"
  /\ Release(t)
  /\ UNCHANGED trainingVars

InScheduler(t) ==
  /\ Enter(t) \/ Grant(t) \/ Return(t) \/ Suspend(t)
  /\ UNCHANGED trainingVars

\* Bug: run reads the data set without the read lock.
RunBeginsUnlocked(t) ==
  /\ pc[t] = "working"
  /\ step[t] = "begin"
  /\ step' = [step EXCEPT ![t] = "run"]
  /\ seen' = [seen EXCEPT ![t] = IF DataOf[t] = None THEN @ ELSE dataVersion[DataOf[t]]]
  /\ UNCHANGED <<vars, readers, loader, left, loads, loaded, dataVersion>>

\* run: RLock is refused while the loader waits for Lock.
RunBegins(t) ==
  /\ pc[t] = "working"
  /\ step[t] = "begin"
  /\ step' = [step EXCEPT ![t] = "run"]
  /\ IF DataOf[t] = None
     THEN UNCHANGED <<readers, seen>>
     ELSE /\ ~WriterWaits(DataOf[t])
          /\ readers' = [readers EXCEPT ![DataOf[t]] = @ \cup {t}]
          /\ seen' = [seen EXCEPT ![t] = dataVersion[DataOf[t]]]
  /\ UNCHANGED <<vars, loader, left, loads, loaded, dataVersion>>

\* Bug: the next round takes MaxJobs without asking the scheduler.
AsksNobody(t) ==
  /\ t \in Asks
  /\ pc[t] = "working"
  /\ step[t] = "run"
  /\ using' = [using EXCEPT ![t] = NumJobs]
  /\ UNCHANGED <<pc, prio, free, jobs, previous, todo, runs, trainingVars>>

\* AvailableJobs for the next round, with the read lock held.
AsksAgain(t) ==
  /\ t \in Asks
  /\ pc[t] = "working"
  /\ step[t] = "run"
  /\ Release(t)
  /\ UNCHANGED trainingVars

\* run returns, early or after its rounds: deferred RUnlock.
RunEnds(t) ==
  /\ pc[t] = "working"
  /\ step[t] = "run"
  /\ step' = [step EXCEPT ![t] = "unlocked"]
  /\ readers' = [d \in DataSet |-> readers[d] \ {t}]
  /\ UNCHANGED <<vars, loader, left, loads, loaded, dataVersion, seen>>

\* The deferred Unregister.
Ends(t) ==
  /\ step[t] = "unlocked"
  /\ Unregister(t)
  /\ step' = [step EXCEPT ![t] = "begin"]
  /\ UNCHANGED <<readers, loader, left, loads, loaded, dataVersion, seen>>

\* The bounds leave nothing to do.
Finished ==
  /\ loader = "idle" /\ loads = MaxLoads
  /\ \A t \in Task : pc[t] = "off"
  /\ UNCHANGED masterTrainingVars

LoaderStep == (\E d \in DataSet : Replace(d)) \/ LoaderRegisters \/ LoaderStarts

TaskStep(t) ==
  CallsInit(t) \/ InScheduler(t) \/ RunBegins(t) \/ AsksAgain(t) \/ RunEnds(t) \/ Ends(t)

TrainingNext ==
  \/ LoadBegins
  \/ LoaderStep
  \/ \E t \in Task : SearchRegisters(t) \/ TaskStep(t)
  \/ Finished

\* Every goroutine goes on when it can: a mutex is handed over in turn, and an
\* RWMutex lets the readers that wait in before the next writer (hence strong
\* fairness), and run does not ask for jobs for ever.
TrainingFairness ==
  /\ SF_masterTrainingVars(LoaderStep)
  /\ \A t \in Task :
       /\ SF_masterTrainingVars(CallsInit(t))
       /\ SF_masterTrainingVars(InScheduler(t))
       /\ SF_masterTrainingVars(RunBegins(t))
       /\ SF_masterTrainingVars(RunEnds(t))
       /\ SF_masterTrainingVars(Ends(t))

TrainingSafeSpec == TrainingInit /\ [][TrainingNext]_masterTrainingVars
TrainingSpec == TrainingSafeSpec /\ TrainingFairness

----------------------------------------------------------------------------
(* Properties *)

\* The data set a task reads is never replaced under it, although the task
\* gives its jobs back, sleeps and resumes in between.
ReadsOneVersion ==
  \A t \in Task :
    step[t] = "run" /\ DataOf[t] # None => dataVersion[DataOf[t]] = seen[t]

\* A load that has begun ends, so the next tick can begin one: the models are
\* fitted once per period.
LoadsEnd == loader # "idle" ~> loader = "idle"
=============================================================================
