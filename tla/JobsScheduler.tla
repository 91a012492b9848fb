--------------------------- MODULE JobsScheduler ---------------------------
(***************************************************************************)
(* The jobs scheduler of the master (base/task/schedule.go): a fixed       *)
(* number of jobs (worker goroutines) shared by the background tasks.      *)
(*                                                                         *)
(* A task registers, asks for jobs through its allocator, works with the   *)
(* jobs it was told it has, asks again before its next round, and finally  *)
(* unregisters.  Every call runs under one mutex; a task that gets no job  *)
(* sleeps on the condition variable of that mutex.                         *)
(*                                                                         *)
(* allocateJobsForTask has TWO critical sections: the first returns the    *)
(* task's jobs to the pool, the second reallocates.  Other tasks may run   *)
(* between them, so they are two steps here.  allocateJobsForAll is a loop *)
(* inside the second one; its iterations are steps of their own, and no    *)
(* other task moves meanwhile because the mutex is held (LockFree).        *)
(***************************************************************************)
EXTENDS Integers, FiniteSets

CONSTANTS
  NumTasks,    \* how many different tasks there are
  NumJobs,     \* JobsScheduler.numJobs
  Privileged,  \* the tasks registered with privileged = true
  Priorities,  \* the priorities tasks are registered with
  MaxRuns      \* bound: how often one task is registered

Task == 1..NumTasks

ASSUME SchedulerAssumption ==
  /\ NumTasks \in Nat \ {0}
  /\ NumJobs \in Nat \ {0}   \* NewJobsScheduler turns num <= 0 into NumCPU()
  /\ Privileged \subseteq Task
  /\ Priorities \subseteq Int /\ Priorities # {}
  /\ MaxRuns \in Nat

VARIABLES
  pc,        \* where each task is, see Stage
  prio,      \* taskInfo.priority
  free,      \* JobsScheduler.freeJobs
  jobs,      \* taskInfo.jobs
  previous,  \* taskInfo.previous
  todo,      \* tasks the running allocateJobsForAll has not visited yet
  using,     \* what the last AvailableJobs returned, while the task uses it
  runs       \* how often each task was registered

vars == <<pc, prio, free, jobs, previous, todo, using, runs>>

\* off       not in the map of tasks
\* starting  registered, its goroutine has not called Init yet
\* entering  wants the mutex for the second critical section: it has returned
\*           its jobs, or it was woken by a Broadcast
\* granting  holds the mutex, in the loop of allocateJobsForAll
\* waiting   asleep in Cond.Wait
\* working   AvailableJobs returned: it runs with using[t] goroutines
Stage == {"off", "starting", "entering", "granting", "waiting", "working"}

Lesser(a, b) == IF a < b THEN a ELSE b

Registered == {t \in Task : pc[t] # "off"}

LockFree == \A t \in Task : pc[t] # "granting"

\* The tasks allocateJobsForAll looks at: normal ones only when no privileged
\* task is registered.
Eligible ==
  IF Registered \cap Privileged # {} THEN Registered \cap Privileged
                                     ELSE Registered

\* Variants with a plausible bug stand before the definition they vary; no
\* behaviour of the model uses them.  They show that the properties notice.

\* Bug: the remainder of the division is not handed out.
ShareWithoutRest(i) == NumJobs \div Cardinality(Eligible)

\* The even share of the i-th task (from 0) among the eligible ones.
Share(i) ==
  LET n == Cardinality(Eligible)
  IN  (NumJobs \div n) + (IF i < NumJobs % n THEN 1 ELSE 0)

\* The loop index.
Position == Cardinality(Eligible) - Cardinality(todo)

\* sync.Cond.Broadcast: every sleeper runs for the mutex.
Woken(f) == [t \in Task |-> IF f[t] = "waiting" THEN "entering" ELSE f[t]]

----------------------------------------------------------------------------
Init ==
  /\ pc = [t \in Task |-> "off"]
  /\ prio \in [Task -> Priorities]
  /\ free = NumJobs
  /\ jobs = [t \in Task |-> 0]
  /\ previous = [t \in Task |-> 0]
  /\ todo = {}
  /\ using = [t \in Task |-> 0]
  /\ runs = [t \in Task |-> 0]

\* Register: a name that is already in the map is refused without effect.
Register(t, p) ==
  /\ LockFree
  /\ pc[t] = "off"
  /\ runs[t] < MaxRuns
  /\ pc' = [pc EXCEPT ![t] = "starting"]
  /\ prio' = [prio EXCEPT ![t] = p]
  /\ jobs' = [jobs EXCEPT ![t] = 0]
  /\ previous' = [previous EXCEPT ![t] = 0]
  /\ runs' = [runs EXCEPT ![t] = @ + 1]
  /\ UNCHANGED <<free, todo, using>>

\* First critical section of allocateJobsForTask, called by Init or by
\* AvailableJobs between two rounds of work.
Release(t) ==
  /\ LockFree
  /\ pc[t] \in {"starting", "working"}
  /\ pc' = [pc EXCEPT ![t] = "entering"]
  /\ free' = free + jobs[t]
  /\ jobs' = [jobs EXCEPT ![t] = 0]
  /\ using' = [using EXCEPT ![t] = 0]
  /\ UNCHANGED <<prio, previous, todo, runs>>

\* The mutex is taken (again): allocateJobsForAll starts.
Enter(t) ==
  /\ LockFree
  /\ pc[t] = "entering"
  /\ pc' = [pc EXCEPT ![t] = "granting"]
  /\ todo' = Eligible
  /\ UNCHANGED <<prio, free, jobs, previous, using, runs>>

\* One iteration of the loop: the next task in order of priority, ties in any
\* order (sort.Slice is not stable and the map is ranged over at random).
Grant(t) ==
  /\ pc[t] = "granting"
  /\ free # 0
  /\ \E u \in todo :
       /\ \A v \in todo : prio[v] <= prio[u]
       /\ todo' = todo \ {u}
       /\ LET target == Lesser(Share(Position), free)
          IN  IF jobs[u] < target
              THEN /\ free' = free - (target - jobs[u])
                   /\ jobs' = [jobs EXCEPT ![u] = target]
                   /\ previous' = [previous EXCEPT ![u] = target]
              ELSE UNCHANGED <<free, jobs, previous>>
  /\ UNCHANGED <<pc, prio, using, runs>>

\* The loop of allocateJobsForAll has ended.
Allocated(t) == pc[t] = "granting" /\ (todo = {} \/ free = 0)

\* Bug: the task works with MaxJobs instead of the jobs it was given.
ReturnMaxJobs(t) ==
  /\ Allocated(t)
  /\ jobs[t] > 0
  /\ pc' = [pc EXCEPT ![t] = "working"]
  /\ using' = [using EXCEPT ![t] = NumJobs]
  /\ todo' = {}
  /\ UNCHANGED <<prio, free, jobs, previous, runs>>

\* allocateJobsForTask returns the number of jobs.
Return(t) ==
  /\ Allocated(t)
  /\ jobs[t] > 0
  /\ pc' = [pc EXCEPT ![t] = "working"]
  /\ using' = [using EXCEPT ![t] = jobs[t]]
  /\ todo' = {}
  /\ UNCHANGED <<prio, free, jobs, previous, runs>>

\* Bug: a task that is suspended wakes nobody.
SuspendSilently(t) ==
  /\ Allocated(t)
  /\ jobs[t] = 0
  /\ pc' = [pc EXCEPT ![t] = "waiting"]
  /\ todo' = {}
  /\ UNCHANGED <<prio, free, jobs, previous, using, runs>>

\* No job: the task sleeps.  One that had jobs before wakes the others first.
Suspend(t) ==
  /\ Allocated(t)
  /\ jobs[t] = 0
  /\ pc' = [(IF previous[t] > 0 THEN Woken(pc) ELSE pc) EXCEPT ![t] = "waiting"]
  /\ todo' = {}
  /\ UNCHANGED <<prio, free, jobs, previous, using, runs>>

\* Bug: Unregister does not return the jobs.
UnregisterLosingJobs(t) ==
  /\ LockFree
  /\ pc[t] = "working"
  /\ pc' = [Woken(pc) EXCEPT ![t] = "off"]
  /\ jobs' = [jobs EXCEPT ![t] = 0]
  /\ previous' = [previous EXCEPT ![t] = 0]
  /\ using' = [using EXCEPT ![t] = 0]
  /\ UNCHANGED <<prio, free, todo, runs>>

\* Bug: Unregister does not broadcast.
UnregisterSilently(t) ==
  /\ LockFree
  /\ pc[t] = "working"
  /\ pc' = [pc EXCEPT ![t] = "off"]
  /\ free' = free + jobs[t]
  /\ jobs' = [jobs EXCEPT ![t] = 0]
  /\ previous' = [previous EXCEPT ![t] = 0]
  /\ using' = [using EXCEPT ![t] = 0]
  /\ UNCHANGED <<prio, todo, runs>>

\* The deferred Unregister of a task that ran: its jobs go back and everybody
\* is woken.
Unregister(t) ==
  /\ LockFree
  /\ pc[t] = "working"
  /\ pc' = [Woken(pc) EXCEPT ![t] = "off"]
  /\ free' = free + jobs[t]
  /\ jobs' = [jobs EXCEPT ![t] = 0]
  /\ previous' = [previous EXCEPT ![t] = 0]
  /\ using' = [using EXCEPT ![t] = 0]
  /\ UNCHANGED <<prio, todo, runs>>

\* Every task is done and the bound leaves no registration.
AllDone ==
  /\ \A t \in Task : pc[t] = "off" /\ runs[t] = MaxRuns
  /\ UNCHANGED vars

Next ==
  \/ \E t \in Task :
       \/ \E p \in Priorities : Register(t, p)
       \/ Release(t)
       \/ Enter(t)
       \/ Grant(t)
       \/ Return(t)
       \/ Suspend(t)
       \/ Unregister(t)
  \/ AllDone

\* A goroutine that runs for the mutex gets it (Go's Mutex hands over in order
\* after a millisecond): strong fairness for the steps that lock.  A task is
\* either before its Init or before the second critical section, so one formula
\* serves both.  The holder of the mutex goes on, and a task's run ends, so it
\* unregisters.
Fairness ==
  /\ \A t \in Task :
       /\ SF_vars((pc[t] = "starting" /\ Release(t)) \/ Enter(t))
       /\ SF_vars(Unregister(t))
  /\ WF_vars(\E t \in Task : Grant(t) \/ Return(t) \/ Suspend(t))

SafeSpec == Init /\ [][Next]_vars
Spec == SafeSpec /\ Fairness

----------------------------------------------------------------------------
(* Properties *)

\* The scheduler's variables hold what they can hold; in particular no counter
\* of jobs leaves 0..NumJobs.
TypeOK ==
  /\ pc \in [Task -> Stage]
  /\ prio \in [Task -> Priorities]
  /\ free \in 0..NumJobs
  /\ jobs \in [Task -> 0..NumJobs]
  /\ previous \in [Task -> 0..NumJobs]
  /\ todo \in SUBSET Task
  /\ using \in [Task -> 0..NumJobs]
  /\ runs \in [Task -> 0..MaxRuns]

\* f sums up to total: partial sums climb from 0 to it.
SumsTo(f, total) ==
  \E s \in [0..NumTasks -> 0..NumJobs] :
    /\ s[0] = 0
    /\ \A i \in Task : s[i] = s[i - 1] + f[i]
    /\ \A i, j \in 0..NumTasks : i <= j => s[i] <= s[j]
    /\ s[NumTasks] = total

\* No job is lost or made up: the free ones and those of the tasks are NumJobs
\* in all, whoever takes jobs from whom between the two critical sections.
JobsConserved == SumsTo(jobs, NumJobs - free)

\* A task never works with more jobs than the scheduler has it down for, even
\* when others reallocate while it works; with JobsConserved, the goroutines of
\* all tasks together never exceed NumJobs.
WorksWithinAllocation == \A t \in Task : using[t] <= jobs[t]

\* The jobs are accounted for: whoever takes them from whom, the goroutines at
\* work never exceed NumJobs, and no job is lost to those that come later
\* (schedule.go 98-199).
JobsAccounted == JobsConserved /\ WorksWithinAllocation

\* No wake-up is lost: while somebody sleeps, a task is awake that has had
\* jobs.  Such a task broadcasts when it is suspended and when it unregisters,
\* so Wait is never entered with nobody left to end it.
WakerAwake ==
  (\E t \in Task : pc[t] = "waiting") =>
    \E t \in Task : pc[t] \notin {"off", "waiting"} /\ previous[t] > 0

\* Once every task has settled, a job is only free when no eligible task is
\* without one (schedule.go 159-200).
WorkConserving ==
  (/\ free > 0
   /\ \A t \in Task : pc[t] \in {"off", "waiting", "working"}) =>
    \A t \in Eligible : jobs[t] > 0

Pool == INSTANCE JobPool

\* The scheduler implements the pool: the sum of what the tasks were told they
\* have stays within the number of jobs although running tasks are given more
\* meanwhile and sleeping tasks hold jobs they do not use (schedule.go 98-199).
ImplementsPool == Pool!Spec

\* Every task that asked for jobs (for the first time, or again after it was
\* suspended) gets to work.
AskerWorks ==
  \A t \in Task :
    pc[t] \in {"starting", "entering", "waiting"} ~> pc[t] = "working"
=============================================================================
