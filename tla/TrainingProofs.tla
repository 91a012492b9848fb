---------------------------- MODULE TrainingProofs ----------------------------
(***************************************************************************)
(* What holds of the jobs scheduler (JobsScheduler) for any number of      *)
(* tasks and jobs; and that the training loops of the master               *)
(* (MasterTraining) use it as it wants to be used, so that the same holds  *)
(* of the master, while read locks protect the data sets although their    *)
(* holders sleep.                                                          *)
(***************************************************************************)
EXTENDS MasterTraining, FiniteSetTheorems, WellFoundedInduction, TLAPS


----------------------------------------------------------------------------
(* Sums over the tasks *)

\* The sum of a function with one value changed moves by the same amount.
LEMMA SumUpdate ==
  ASSUME NEW f \in [Task -> 0..NumJobs], NEW total \in 0..NumJobs, SumsTo(f, total),
         NEW u \in Task, NEW v \in 0..NumJobs, total + (v - f[u]) \in 0..NumJobs
  PROVE  SumsTo([f EXCEPT ![u] = v], total + (v - f[u]))
<1> DEFINE d == v - f[u]
<1>1. PICK s \in [0..NumTasks -> 0..NumJobs] :
        /\ s[0] = 0
        /\ \A i \in Task : s[i] = s[i - 1] + f[i]
        /\ \A i, j \in 0..NumTasks : i <= j => s[i] <= s[j]
        /\ s[NumTasks] = total
  BY DEF SumsTo
<1> DEFINE r == [k \in 0..NumTasks |-> IF k < u THEN s[k] ELSE s[k] + d]
<1>2. NumTasks \in Nat /\ NumJobs \in Nat /\ u \in 1..NumTasks /\ u - 1 \in 0..NumTasks
  BY SchedulerAssumption DEF Task
<1>3. s[u] = s[u - 1] + f[u] /\ s[u - 1] \in 0..NumJobs /\ f[u] \in 0..NumJobs
  BY <1>1, <1>2
<1>4. ASSUME NEW k \in 0..NumTasks, u <= k
      PROVE  s[k] + d \in 0..NumJobs /\ s[u - 1] <= s[k] + d
  <2>1. s[u] <= s[k] /\ s[k] <= s[NumTasks] /\ s[k] \in 0..NumJobs
    BY <1>1, <1>2, <1>4
  <2>2. QED
    BY <1>1, <1>2, <1>3, <2>1
<1>5. r \in [0..NumTasks -> 0..NumJobs]
  BY <1>1, <1>2, <1>4
<1>6. r[0] = 0 /\ r[NumTasks] = total + d
  BY <1>1, <1>2
<1>7. ASSUME NEW i \in Task
      PROVE  r[i] = r[i - 1] + [f EXCEPT ![u] = v][i]
  <2>1. i \in 0..NumTasks /\ i - 1 \in 0..NumTasks /\ s[i] = s[i - 1] + f[i]
    BY <1>1, <1>2 DEF Task
  <2>2. s[i] \in Int /\ s[i - 1] \in Int /\ f[i] \in Int /\ d \in Int
    BY <1>1, <1>2, <1>3, <2>1
  <2>3. CASE i < u
    BY <1>2, <2>1, <2>2, <2>3
  <2>4. CASE i = u
    BY <1>2, <2>1, <2>2, <2>4
  <2>5. CASE i > u
    BY <1>2, <2>1, <2>2, <2>5
  <2>6. QED
    BY <1>2, <2>1, <2>3, <2>4, <2>5
<1>8. ASSUME NEW i \in 0..NumTasks, NEW j \in 0..NumTasks, i <= j
      PROVE  r[i] <= r[j]
  <2>1. s[i] <= s[j] /\ s[i] \in Int /\ s[j] \in Int /\ d \in Int
    BY <1>1, <1>2, <1>3, <1>8
  <2>2. CASE j < u
    BY <1>2, <1>8, <2>1, <2>2
  <2>3. CASE u <= i
    BY <1>2, <1>8, <2>1, <2>3
  <2>4. CASE i < u /\ u <= j
    <3>1. s[i] <= s[u - 1]
      BY <1>1, <1>2, <2>4
    <3>2. s[u - 1] <= s[j] + d
      BY <1>4, <2>4
    <3>3. r[i] = s[i] /\ r[j] = s[j] + d
      BY <1>2, <2>4
    <3>4. s[u - 1] \in Int
      BY <1>3
    <3>5. QED
      BY <2>1, <3>1, <3>2, <3>3, <3>4
  <2>5. QED
    BY <1>2, <2>2, <2>3, <2>4
<1>9. QED
  BY <1>5, <1>6, <1>7, <1>8 DEF SumsTo

\* No summand exceeds the sum.
LEMMA SumBounds ==
  ASSUME NEW f \in [Task -> 0..NumJobs], NEW total, SumsTo(f, total), NEW u \in Task
  PROVE  total \in 0..NumJobs /\ f[u] <= total
<1>1. PICK s \in [0..NumTasks -> 0..NumJobs] :
        /\ s[0] = 0
        /\ \A i \in Task : s[i] = s[i - 1] + f[i]
        /\ \A i, j \in 0..NumTasks : i <= j => s[i] <= s[j]
        /\ s[NumTasks] = total
  BY DEF SumsTo
<1>2. NumTasks \in Nat /\ NumJobs \in Nat /\ u \in 1..NumTasks
  BY SchedulerAssumption DEF Task
<1>3. u - 1 \in 0..NumTasks /\ u \in 0..NumTasks
  BY <1>2
<1>4. s[u - 1] \in 0..NumJobs /\ s[u] = s[u - 1] + f[u] /\ s[u] <= s[NumTasks]
  BY <1>1, <1>2, <1>3
<1>5. QED
  BY <1>1, <1>2, <1>4

\* A positive sum has a positive summand.
LEMMA SumHolder ==
  ASSUME NEW f \in [Task -> 0..NumJobs], NEW total, SumsTo(f, total), total # 0
  PROVE  \E u \in Task : f[u] > 0
<1>1. PICK s \in [0..NumTasks -> 0..NumJobs] :
        /\ s[0] = 0
        /\ \A i \in Task : s[i] = s[i - 1] + f[i]
        /\ s[NumTasks] = total
  BY DEF SumsTo
<1> DEFINE P == {k \in 0..NumTasks : s[k] # 0}
<1>2. NumTasks \in Nat /\ NumTasks \in P /\ P \subseteq Nat
  BY <1>1, SchedulerAssumption
<1>3. PICK m \in P : \A k \in P : ~ (<<k, m>> \in OpToRel(<, Nat))
  BY <1>2, WFMin, NatLessThanWellFounded
<1>4. m \in 1..NumTasks /\ m - 1 \in 0..NumTasks /\ m - 1 \notin P
  <2>1. m \in 0..NumTasks /\ m # 0
    BY <1>1, <1>3
  <2>2. m \in 1..NumTasks /\ m - 1 \in 0..NumTasks /\ m - 1 \in Nat /\ m \in Nat /\ m - 1 < m
    BY <1>2, <2>1
  <2>3. <<m - 1, m>> \in OpToRel(<, Nat)
    BY <2>2 DEF OpToRel
  <2>4. QED
    BY <1>3, <2>2, <2>3
<1>5. s[m] = s[m - 1] + f[m] /\ s[m - 1] = 0 /\ s[m] # 0
  BY <1>1, <1>4 DEF Task
<1>6. f[m] > 0
  BY <1>4, <1>5, SchedulerAssumption DEF Task
<1>7. QED
  BY <1>4, <1>6 DEF Task

\* A sum is at least the number of its positive summands: the partial sums tell
\* these apart.
LEMMA SumCounts ==
  ASSUME NEW f \in [Task -> 0..NumJobs], NEW total, SumsTo(f, total),
         NEW S \in SUBSET Task, \A u \in S : f[u] > 0
  PROVE  IsFiniteSet(S) /\ Cardinality(S) <= total
<1>1. PICK s \in [0..NumTasks -> 0..NumJobs] :
        /\ s[0] = 0
        /\ \A i \in Task : s[i] = s[i - 1] + f[i]
        /\ \A i, j \in 0..NumTasks : i <= j => s[i] <= s[j]
        /\ s[NumTasks] = total
  BY DEF SumsTo
<1>2. NumTasks \in Nat /\ NumJobs \in Nat /\ total \in 0..NumJobs
  BY <1>1, SchedulerAssumption
<1>3. ASSUME NEW u \in S
      PROVE  /\ u \in 1..NumTasks /\ u - 1 \in 0..NumTasks /\ s[u] \in 1..total
             /\ s[u - 1] < s[u] /\ s[u - 1] \in Int
  <2>1. u \in 1..NumTasks /\ u - 1 \in 0..NumTasks /\ f[u] \in 0..NumJobs /\ f[u] > 0
    BY <1>2, <1>3 DEF Task
  <2>2. /\ s[u] = s[u - 1] + f[u] /\ s[u - 1] \in 0..NumJobs /\ s[u] \in 0..NumJobs
        /\ s[u] <= s[NumTasks]
    BY <1>1, <1>2, <2>1 DEF Task
  <2> QED
    BY <1>1, <1>2, <2>1, <2>2
<1> DEFINE M == [u \in S |-> s[u]]
<1>4. ASSUME NEW u \in S, NEW v \in S, u < v PROVE s[u] < s[v]
  <2>1. s[u] <= s[v - 1]
    BY <1>1, <1>3, <1>4
  <2> QED
    BY <1>3, <2>1
<1>5. ASSUME NEW u \in S, NEW v \in S, M[u] = M[v] PROVE u = v
  <2>1. u \in Int /\ v \in Int /\ s[u] = s[v] /\ s[u] \in Int
    BY <1>3, <1>5
  <2> QED
    BY <1>4, <2>1
<1>6. M \in Injection(S, 1..total)
  BY <1>3, <1>5 DEF Injection, IsInjective
<1>7. IsFiniteSet(1..total) /\ Cardinality(1..total) = total
  BY <1>2, FS_Interval
<1> QED
  BY <1>6, <1>7, FS_Injection

\* What is no more than f, task by task, fits where f fits.
LEMMA SumFits ==
  ASSUME NEW f \in [Task -> 0..NumJobs], NEW total, SumsTo(f, total),
         NEW g \in [Task -> 0..NumJobs], \A u \in Task : g[u] <= f[u]
  PROVE  Pool!Fit(g)
<1>1. PICK s \in [0..NumTasks -> 0..NumJobs] :
        \A i \in Task : s[i] = s[i - 1] + f[i]
  BY DEF SumsTo
<1>2. ASSUME NEW i \in 1..NumTasks PROVE s[i - 1] + g[i] <= s[i]
  <2>1. i \in Task /\ i - 1 \in 0..NumTasks /\ NumJobs \in Nat
    BY SchedulerAssumption DEF Task
  <2>2. s[i - 1] \in 0..NumJobs /\ f[i] \in 0..NumJobs /\ g[i] \in 0..NumJobs
        /\ g[i] <= f[i] /\ s[i] = s[i - 1] + f[i]
    BY <1>1, <2>1
  <2> QED
    BY <2>1, <2>2
<1> QED
  BY <1>2 DEF Pool!Fit, Pool!Task

----------------------------------------------------------------------------
(* The inductive invariant *)

\* Who holds jobs has had jobs, and is registered.
HolderHadJobs ==
  \A t \in Task : jobs[t] > 0 => previous[t] > 0 /\ pc[t] # "off"

\* At most one task is inside allocateJobsForAll; its loop goes over eligible
\* tasks, and nobody is left to visit when the mutex is free.
LoopInside ==
  /\ \A t, u \in Task : pc[t] = "granting" /\ pc[u] = "granting" => t = u
  /\ todo \subseteq Eligible
  /\ LockFree => todo = {}

\* A job is used by a task at work only, and a task at work has one.
WorkersHold ==
  \A t \in Task : /\ pc[t] = "working" => jobs[t] > 0
                  /\ using[t] > 0 => pc[t] = "working"

\* The loop leaves no task without a job that it has come by.
VisitedHold == ~LockFree => \A t \in Eligible \ todo : jobs[t] > 0

IInv ==
  /\ TypeOK
  /\ JobsConserved
  /\ WorksWithinAllocation
  /\ HolderHadJobs
  /\ LoopInside
  /\ WakerAwake
  /\ WorkersHold
  /\ VisitedHold
  /\ WorkConserving

----------------------------------------------------------------------------
(* The loop of allocateJobsForAll *)

LEMMA TaskFinite == IsFiniteSet(Task)
BY SchedulerAssumption, FS_Interval DEF Task

LEMMA EligibleTasks ==
  /\ Eligible \subseteq Task
  /\ IsFiniteSet(Eligible)
  /\ Cardinality(Eligible) \in Nat
  /\ Eligible # {} => Cardinality(Eligible) > 0
<1>1. Eligible \subseteq Task
  BY DEF Eligible, Registered
<1>2. IsFiniteSet(Eligible)
  BY <1>1, TaskFinite, FS_Subset
<1>3. QED
  BY <1>1, <1>2, FS_CardinalityType, FS_EmptySet

LEMMA DivRest ==
  ASSUME NEW a \in Nat, NEW b \in Nat, b > 0, a \div b = 0
  PROVE  a % b = a
OBVIOUS

\* The share handed out in the loop is never 0 while a job is free: where it
\* would be, as many tasks as there are jobs have been visited, and they hold
\* all the jobs.
LEMMA SharePositive ==
  ASSUME IInv, ~LockFree, todo # {}, free # 0
  PROVE  Share(Position) \in Nat \ {0}
<1> DEFINE n == Cardinality(Eligible)
           visited == Eligible \ todo
<1>1. n \in Nat /\ n > 0 /\ NumJobs \in Nat /\ NumJobs > 0
  BY EligibleTasks, SchedulerAssumption DEF IInv, LoopInside
<1>2. NumJobs \div n \in Nat /\ NumJobs % n \in 0..(n - 1)
  BY <1>1
<1>3. Position = Cardinality(visited) /\ Cardinality(visited) \in Nat
  <2>1. todo = Eligible \cap todo /\ IsFiniteSet(Eligible)
    BY EligibleTasks DEF IInv, LoopInside
  <2>2. Cardinality(visited) = n - Cardinality(Eligible \cap todo) /\ IsFiniteSet(visited)
    BY <2>1, FS_Difference
  <2> QED
    BY <2>1, <2>2, FS_CardinalityType DEF Position
<1>4. Share(Position) = NumJobs \div n + (IF Position < NumJobs % n THEN 1 ELSE 0)
  BY DEF Share
<1>5. CASE NumJobs \div n > 0
  BY <1>2, <1>3, <1>4, <1>5
<1>6. CASE ~(NumJobs \div n > 0)
  <2>1. NumJobs % n = NumJobs
    <3>1. NumJobs \div n = 0
      BY <1>2, <1>6
    <3> QED
      BY <1>1, <3>1, DivRest
  <2>2. Position < NumJobs
    <3>1. visited \in SUBSET Task /\ jobs \in [Task -> 0..NumJobs]
      BY EligibleTasks DEF IInv, TypeOK
    <3>2. \A u \in visited : jobs[u] > 0
      BY DEF IInv, VisitedHold
    <3>3. Cardinality(visited) <= NumJobs - free
      <4> DEFINE f == jobs total == NumJobs - free S == visited
      <4>1. f \in [Task -> 0..NumJobs] /\ SumsTo(f, total) /\ S \in SUBSET Task
            /\ \A u \in S : f[u] > 0
        BY <3>1, <3>2 DEF IInv, JobsConserved
      <4> HIDE DEF f, total, S
      <4>2. Cardinality(S) <= total
        BY <4>1, SumCounts
      <4> QED
        BY <4>2 DEF S, total
    <3>4. free \in 1..NumJobs
      BY <1>1 DEF IInv, TypeOK
    <3> QED
      BY <1>1, <1>3, <3>3, <3>4
  <2> QED
    BY <1>1, <1>2, <1>3, <1>4, <2>1, <2>2
<1> QED
  BY <1>5, <1>6

\* One iteration leaves the task it comes by with a job; either it had as many
\* as its target, or it gets what is missing from the free ones.
LEMMA GrantEffect ==
  ASSUME IInv, NEW t \in Task, Grant(t)
  PROVE  \E u \in todo :
           /\ todo' = todo \ {u}
           /\ \/ UNCHANGED <<free, jobs, previous>> /\ jobs[u] > 0
              \/ \E target \in 1..NumJobs :
                   /\ jobs[u] < target /\ target - jobs[u] <= free
                   /\ free' = free - (target - jobs[u])
                   /\ jobs' = [jobs EXCEPT ![u] = target]
                   /\ previous' = [previous EXCEPT ![u] = target]
<1>1. PICK u \in todo :
        /\ todo' = todo \ {u}
        /\ LET target == Lesser(Share(Position), free)
           IN  IF jobs[u] < target
               THEN /\ free' = free - (target - jobs[u])
                    /\ jobs' = [jobs EXCEPT ![u] = target]
                    /\ previous' = [previous EXCEPT ![u] = target]
               ELSE UNCHANGED <<free, jobs, previous>>
  BY DEF Grant
<1> DEFINE target == Lesser(Share(Position), free)
<1>2. u \in Task /\ jobs[u] \in 0..NumJobs /\ free \in 0..NumJobs /\ free # 0
      /\ NumJobs \in Nat /\ ~LockFree
  BY SchedulerAssumption DEF IInv, TypeOK, Grant, LockFree
<1>3. Share(Position) \in Nat \ {0}
  BY <1>2, SharePositive
<1>4. target \in 1..NumJobs /\ target <= free
  BY <1>2, <1>3 DEF Lesser
<1>5. CASE jobs[u] < target
  <2>1. target - jobs[u] <= free
    BY <1>2, <1>4, <1>5
  <2>2. QED
    BY <1>1, <1>4, <1>5, <2>1
<1>6. CASE ~(jobs[u] < target)
  <2>1. jobs[u] > 0
    BY <1>2, <1>4, <1>6
  <2>2. QED
    BY <1>1, <1>6, <2>1
<1>7. QED
  BY <1>5, <1>6

----------------------------------------------------------------------------
(* Every step keeps the invariant *)

LEMMA InitInv == Init => IInv
<1> SUFFICES ASSUME Init PROVE IInv
  OBVIOUS
<1> USE SchedulerAssumption DEF Init
<1>1. TypeOK
  BY DEF TypeOK, Stage
<1>2. JobsConserved
  <2> DEFINE s == [k \in 0..NumTasks |-> 0]
  <2>1. s \in [0..NumTasks -> 0..NumJobs]
    OBVIOUS
  <2>2. \A i \in Task : i \in 0..NumTasks /\ i - 1 \in 0..NumTasks
    BY DEF Task
  <2>3. \A i \in Task : s[i] = s[i - 1] + jobs[i]
    BY <2>2
  <2>4. s[0] = 0 /\ s[NumTasks] = 0 /\ \A i, j \in 0..NumTasks : i <= j => s[i] <= s[j]
    OBVIOUS
  <2>5. NumJobs - free = 0
    OBVIOUS
  <2>6. SumsTo(jobs, 0)
    BY <2>1, <2>3, <2>4 DEF SumsTo
  <2>7. QED
    BY <2>5, <2>6 DEF JobsConserved
<1>3. WorksWithinAllocation /\ HolderHadJobs /\ WakerAwake
  BY DEF WorksWithinAllocation, HolderHadJobs, WakerAwake
<1>4. LoopInside /\ VisitedHold
  BY DEF LoopInside, VisitedHold, LockFree
<1>5. WorkersHold /\ WorkConserving
  BY DEF WorkersHold, WorkConserving, Eligible, Registered
<1>6. QED
  BY <1>1, <1>2, <1>3, <1>4, <1>5 DEF IInv

\* A task with no jobs and none in use.
LEMMA OffIsEmpty ==
  ASSUME IInv, NEW t \in Task, pc[t] = "off"
  PROVE  jobs[t] = 0 /\ using[t] = 0
BY SchedulerAssumption DEF IInv, TypeOK, HolderHadJobs, WorksWithinAllocation

\* Giving all jobs of a task back keeps the account.
LEMMA GiveBack ==
  ASSUME TypeOK, JobsConserved, NEW t \in Task,
         free' = free + jobs[t], jobs' = [jobs EXCEPT ![t] = 0]
  PROVE  JobsConserved' /\ free' \in 0..NumJobs
<1>1. /\ free \in 0..NumJobs /\ jobs \in [Task -> 0..NumJobs]
      /\ jobs[t] \in 0..NumJobs /\ NumJobs \in Nat
  BY SchedulerAssumption DEF TypeOK
<1>2. jobs[t] <= NumJobs - free
  BY <1>1, SumBounds DEF JobsConserved
<1>3. NumJobs - free \in 0..NumJobs /\ (NumJobs - free) + (0 - jobs[t]) \in 0..NumJobs
  BY <1>1, <1>2
<1>4. SumsTo([jobs EXCEPT ![t] = 0], (NumJobs - free) + (0 - jobs[t]))
  <2> DEFINE f == jobs total == NumJobs - free v == 0
  <2>1. f \in [Task -> 0..NumJobs] /\ total \in 0..NumJobs /\ v \in 0..NumJobs
    BY <1>1
  <2>2. SumsTo(f, total) /\ total + (v - f[t]) \in 0..NumJobs
    BY <1>3 DEF JobsConserved
  <2> HIDE DEF f, total, v
  <2>3. SumsTo([f EXCEPT ![t] = v], total + (v - f[t]))
    BY <2>1, <2>2, SumUpdate
  <2>4. QED
    BY <2>3 DEF f, total, v
<1>5. (NumJobs - free) + (0 - jobs[t]) = NumJobs - free' /\ free' \in 0..NumJobs
  BY <1>1, <1>2
<1>6. QED
  BY <1>4, <1>5 DEF JobsConserved, SumsTo

LEMMA RegisterInv ==
  ASSUME IInv, NEW t \in Task, NEW p \in Priorities, Register(t, p)
  PROVE  IInv'
<1> USE DEF IInv, Register
<1>1. jobs[t] = 0 /\ using[t] = 0 /\ pc[t] = "off"
  BY OffIsEmpty
<1>2. jobs' = jobs
  BY <1>1 DEF TypeOK
<1>3. TypeOK'
  BY SchedulerAssumption DEF TypeOK, Stage
<1>4. JobsConserved'
  BY <1>2 DEF JobsConserved, SumsTo
<1>5. WorksWithinAllocation'
  BY <1>2 DEF WorksWithinAllocation
<1>6. HolderHadJobs'
  BY <1>1, <1>2 DEF HolderHadJobs, TypeOK
<1>7. LockFree' /\ todo' = {}
  BY DEF LockFree, LoopInside, TypeOK
<1>8. LoopInside' /\ VisitedHold'
  BY <1>7 DEF LoopInside, VisitedHold, LockFree
<1>9. WakerAwake'
  BY <1>1 DEF WakerAwake, TypeOK
<1>10. WorkersHold'
  BY <1>1, <1>2 DEF WorkersHold, TypeOK
<1>11. WorkConserving'
  BY DEF WorkConserving, TypeOK
<1>12. QED
  BY <1>3, <1>4, <1>5, <1>6, <1>8, <1>9, <1>10, <1>11

LEMMA ReleaseInv ==
  ASSUME IInv, NEW t \in Task, Release(t)
  PROVE  IInv'
<1> USE DEF IInv, Release
<1>1. JobsConserved' /\ free' \in 0..NumJobs
  BY GiveBack
<1>2. TypeOK'
  BY <1>1, SchedulerAssumption DEF TypeOK, Stage
<1>3. WorksWithinAllocation'
  BY SchedulerAssumption DEF WorksWithinAllocation, TypeOK
<1>4. HolderHadJobs'
  BY DEF HolderHadJobs, TypeOK
<1>5. LockFree' /\ todo' = {}
  BY DEF LockFree, LoopInside, TypeOK
<1>6. LoopInside' /\ VisitedHold'
  BY <1>5 DEF LoopInside, VisitedHold, LockFree
<1>7. WakerAwake'
  BY DEF WakerAwake, TypeOK
<1>8. WorkersHold'
  BY DEF WorkersHold, TypeOK
<1>9. WorkConserving'
  BY DEF WorkConserving, TypeOK
<1>10. QED
  BY <1>1, <1>2, <1>3, <1>4, <1>6, <1>7, <1>8, <1>9

LEMMA EnterInv ==
  ASSUME IInv, NEW t \in Task, Enter(t)
  PROVE  IInv'
<1> USE DEF IInv, Enter
<1>1. TypeOK'
  BY EligibleTasks DEF TypeOK, Stage
<1>2. JobsConserved'
  BY DEF JobsConserved, SumsTo
<1>3. WorksWithinAllocation' /\ HolderHadJobs'
  BY DEF WorksWithinAllocation, HolderHadJobs, TypeOK
<1>4. Eligible' = Eligible
  BY DEF Eligible, Registered, TypeOK
<1>5. \A u \in Task : pc'[u] = "granting" <=> u = t
  BY DEF LockFree, TypeOK
<1>6. LoopInside' /\ VisitedHold'
  BY <1>4, <1>5 DEF LoopInside, VisitedHold, LockFree
<1>7. WakerAwake'
  BY DEF WakerAwake, TypeOK
<1>8. WorkersHold'
  BY DEF WorkersHold, TypeOK
<1>9. WorkConserving'
  BY <1>5 DEF WorkConserving
<1>10. QED
  BY <1>1, <1>2, <1>3, <1>6, <1>7, <1>8, <1>9

LEMMA GrantInv ==
  ASSUME IInv, NEW t \in Task, Grant(t)
  PROVE  IInv'
<1>1. PICK u \in todo :
        /\ todo' = todo \ {u}
        /\ \/ UNCHANGED <<free, jobs, previous>> /\ jobs[u] > 0
           \/ \E target \in 1..NumJobs :
                /\ jobs[u] < target /\ target - jobs[u] <= free
                /\ free' = free - (target - jobs[u])
                /\ jobs' = [jobs EXCEPT ![u] = target]
                /\ previous' = [previous EXCEPT ![u] = target]
  BY GrantEffect
<1>2. /\ u \in Task /\ u \in Eligible /\ pc[u] # "off" /\ ~LockFree
      /\ NumJobs \in Nat /\ jobs[u] \in 0..NumJobs /\ free \in 0..NumJobs
      /\ UNCHANGED <<pc, prio, using, runs>>
  BY EligibleTasks, SchedulerAssumption
     DEF IInv, TypeOK, LoopInside, Eligible, Registered, Grant, LockFree
<1>3. Eligible' = Eligible /\ (LockFree' <=> LockFree)
  BY <1>2 DEF Eligible, Registered, LockFree
<1>4. LoopInside'
  BY <1>1, <1>2, <1>3 DEF IInv, LoopInside
<1>5. WorkConserving'
  <2>1. pc'[t] = "granting"
    BY <1>2 DEF Grant
  <2>2. QED
    BY <2>1 DEF WorkConserving
<1>6. CASE UNCHANGED <<free, jobs, previous>> /\ jobs[u] > 0
  <2>1. TypeOK'
    BY <1>1, <1>2, <1>6 DEF IInv, TypeOK
  <2>2. JobsConserved' /\ WorksWithinAllocation' /\ HolderHadJobs' /\ WakerAwake'
    BY <1>2, <1>6
       DEF IInv, JobsConserved, SumsTo, WorksWithinAllocation, HolderHadJobs, WakerAwake
  <2>3. VisitedHold'
    BY <1>1, <1>2, <1>3, <1>6 DEF IInv, VisitedHold
  <2>4. WorkersHold'
    BY <1>2, <1>6 DEF IInv, WorkersHold
  <2>5. QED
    BY <1>4, <1>5, <2>1, <2>2, <2>3, <2>4 DEF IInv
<1>7. ASSUME NEW target \in 1..NumJobs,
             jobs[u] < target, target - jobs[u] <= free,
             free' = free - (target - jobs[u]),
             jobs' = [jobs EXCEPT ![u] = target],
             previous' = [previous EXCEPT ![u] = target]
      PROVE  IInv'
  <2>1. TypeOK'
    BY <1>1, <1>2, <1>7 DEF IInv, TypeOK
  <2>2. JobsConserved'
    <3> DEFINE f == jobs total == NumJobs - free
    <3>1. f \in [Task -> 0..NumJobs] /\ total \in 0..NumJobs /\ target \in 0..NumJobs
      BY <1>2 DEF IInv, TypeOK
    <3>2. SumsTo(f, total) /\ total + (target - f[u]) \in 0..NumJobs
          /\ total + (target - f[u]) = NumJobs - free'
      BY <1>2, <1>7 DEF IInv, JobsConserved
    <3> HIDE DEF f, total
    <3>3. SumsTo([f EXCEPT ![u] = target], total + (target - f[u]))
      BY <1>2, <3>1, <3>2, SumUpdate
    <3>4. QED
      BY <1>7, <3>2, <3>3 DEF f, JobsConserved, SumsTo
  <2>3. WorksWithinAllocation'
    BY <1>2, <1>7 DEF IInv, TypeOK, WorksWithinAllocation
  <2>4. HolderHadJobs'
    BY <1>2, <1>7 DEF IInv, TypeOK, HolderHadJobs
  <2>5. VisitedHold'
    BY <1>1, <1>2, <1>3, <1>7 DEF IInv, TypeOK, VisitedHold, Eligible, Registered
  <2>6. WakerAwake'
    BY <1>2, <1>7 DEF IInv, TypeOK, WakerAwake
  <2>7. WorkersHold'
    BY <1>2, <1>7 DEF IInv, TypeOK, WorkersHold
  <2>8. QED
    BY <1>4, <1>5, <2>1, <2>2, <2>3, <2>4, <2>5, <2>6, <2>7 DEF IInv
<1>8. QED
  BY <1>1, <1>6, <1>7

\* When the loop has ended with a job left, every task it went over has one.
LEMMA AllHold ==
  ASSUME IInv, NEW t \in Task, Allocated(t), free > 0
  PROVE  \A u \in Eligible : jobs[u] > 0
BY DEF IInv, VisitedHold, LockFree, Allocated, TypeOK

LEMMA ReturnInv ==
  ASSUME IInv, NEW t \in Task, Return(t)
  PROVE  IInv'
<1> USE DEF IInv, Return, Allocated
<1>1. TypeOK'
  BY DEF TypeOK, Stage
<1>2. JobsConserved'
  BY DEF JobsConserved, SumsTo
<1>3. WorksWithinAllocation' /\ HolderHadJobs'
  BY DEF WorksWithinAllocation, HolderHadJobs, TypeOK
<1>4. LockFree'
  BY DEF LockFree, LoopInside, TypeOK
<1>5. LoopInside' /\ VisitedHold'
  BY <1>4 DEF LoopInside, VisitedHold, LockFree
<1>6. WakerAwake'
  BY DEF WakerAwake, TypeOK
<1>7. WorkersHold'
  BY DEF WorkersHold, TypeOK
<1>8. WorkConserving'
  <2>1. Eligible' = Eligible
    BY DEF Eligible, Registered, TypeOK
  <2>2. QED
    BY <2>1, AllHold DEF WorkConserving, TypeOK
<1>9. QED
  BY <1>1, <1>2, <1>3, <1>5, <1>6, <1>7, <1>8

\* When the loop has ended somebody holds a job: either it made an iteration,
\* or there was no free job to begin with.
LEMMA SomebodyHolds ==
  ASSUME IInv, NEW t \in Task, Allocated(t)
  PROVE  \E u \in Task : jobs[u] > 0
<1>1. CASE free = 0
  <2>1. NumJobs - free # 0 /\ jobs \in [Task -> 0..NumJobs]
    BY <1>1, SchedulerAssumption DEF IInv, TypeOK
  <2>2. QED
    BY <2>1, SumHolder DEF IInv, JobsConserved
<1>2. CASE todo = {}
  <2>1. t \in Registered /\ Eligible # {}
    BY DEF Allocated, Registered, Eligible
  <2>2. QED
    BY <1>2, <2>1, EligibleTasks DEF IInv, VisitedHold, LockFree, Allocated
<1>3. QED
  BY <1>1, <1>2 DEF Allocated

LEMMA SuspendInv ==
  ASSUME IInv, NEW t \in Task, Suspend(t)
  PROVE  IInv'
<1> USE DEF IInv, Suspend
<1>1. /\ pc[t] = "granting" /\ jobs[t] = 0
      /\ \A u \in Task : u # t =>
           pc'[u] = IF previous[t] > 0 /\ pc[u] = "waiting" THEN "entering" ELSE pc[u]
      /\ pc'[t] = "waiting" /\ pc' \in [Task -> Stage]
  BY DEF TypeOK, Stage, Woken, Allocated
<1>2. TypeOK'
  BY <1>1 DEF TypeOK
<1>3. JobsConserved'
  BY DEF JobsConserved, SumsTo
<1>4. WorksWithinAllocation' /\ HolderHadJobs'
  BY <1>1 DEF WorksWithinAllocation, HolderHadJobs
<1>5. LockFree'
  BY <1>1 DEF LockFree, LoopInside
<1>6. LoopInside' /\ VisitedHold'
  BY <1>5 DEF LoopInside, VisitedHold, LockFree
<1>7. WakerAwake'
  <2>1. PICK u \in Task : jobs[u] > 0
    BY SomebodyHolds
  <2>2. u # t /\ previous[u] > 0 /\ pc[u] # "off"
    BY <1>1, <2>1 DEF HolderHadJobs
  <2>3. CASE previous[t] > 0
    BY <1>1, <2>2, <2>3 DEF WakerAwake
  <2>4. CASE ~(previous[t] > 0)
    <3>1. CASE pc[u] = "waiting"
      <4>1. PICK w \in Task : pc[w] \notin {"off", "waiting"} /\ previous[w] > 0
        BY <3>1 DEF WakerAwake
      <4>2. w # t
        BY <2>4, <4>1
      <4>3. QED
        BY <1>1, <2>4, <4>1, <4>2 DEF WakerAwake
    <3>2. CASE pc[u] # "waiting"
      BY <1>1, <2>2, <2>4, <3>2 DEF WakerAwake
    <3>3. QED
      BY <3>1, <3>2
  <2>5. QED
    BY <2>3, <2>4
<1>8. WorkersHold'
  BY <1>1 DEF WorkersHold, WorksWithinAllocation, TypeOK
<1>9. WorkConserving'
  <2>1. Eligible' = Eligible
    BY <1>1 DEF Eligible, Registered
  <2>2. QED
    BY <2>1, AllHold DEF WorkConserving, TypeOK
<1>10. QED
  BY <1>2, <1>3, <1>4, <1>6, <1>7, <1>8, <1>9

LEMMA UnregisterInv ==
  ASSUME IInv, NEW t \in Task, Unregister(t)
  PROVE  IInv'
<1> USE DEF IInv, Unregister
<1>1. JobsConserved' /\ free' \in 0..NumJobs
  BY GiveBack
<1>2. /\ pc'[t] = "off" /\ pc' \in [Task -> Stage]
      /\ \A u \in Task : u # t =>
           pc'[u] = IF pc[u] = "waiting" THEN "entering" ELSE pc[u]
  BY DEF TypeOK, Stage, Woken
<1>3. TypeOK'
  BY <1>1, <1>2, SchedulerAssumption DEF TypeOK
<1>4. WorksWithinAllocation'
  BY SchedulerAssumption DEF WorksWithinAllocation, TypeOK
<1>5. HolderHadJobs'
  BY <1>2 DEF HolderHadJobs, TypeOK
<1>6. LockFree' /\ todo' = {}
  BY <1>2 DEF LockFree, LoopInside
<1>7. LoopInside' /\ VisitedHold'
  BY <1>6 DEF LoopInside, VisitedHold, LockFree
<1>8. WakerAwake'
  BY <1>2 DEF WakerAwake
<1>9. WorkersHold'
  BY <1>2 DEF WorkersHold, TypeOK
<1>10. WorkConserving'
  \* Nobody sleeps after the broadcast: who has settled works.
  <2>1. ASSUME \A u \in Task : pc'[u] \in {"off", "waiting", "working"}, NEW u \in Eligible'
        PROVE  jobs'[u] > 0
    <3>1. u \in Task /\ pc'[u] # "off"
      BY DEF Eligible, Registered
    <3>2. pc'[u] = "working"
      BY <1>2, <2>1, <3>1
    <3>3. QED
      BY <1>9, <3>1, <3>2 DEF WorkersHold
  <2>2. QED
    BY <2>1 DEF WorkConserving
<1>11. QED
  BY <1>1, <1>3, <1>4, <1>5, <1>7, <1>8, <1>9, <1>10

LEMMA StutterInv ==
  ASSUME IInv, UNCHANGED vars
  PROVE  IInv'
BY DEF IInv, vars, TypeOK, JobsConserved, SumsTo, WorksWithinAllocation, HolderHadJobs,
       LoopInside, VisitedHold, WakerAwake, WorkersHold, WorkConserving, LockFree, Eligible,
       Registered

LEMMA NextInv == IInv /\ [Next]_vars => IInv'
<1>1. ASSUME IInv, NEW t \in Task, NEW p \in Priorities, Register(t, p) PROVE IInv'
  BY <1>1, RegisterInv
<1>2. ASSUME IInv, NEW t \in Task, Release(t) PROVE IInv'
  BY <1>2, ReleaseInv
<1>3. ASSUME IInv, NEW t \in Task, Enter(t) PROVE IInv'
  BY <1>3, EnterInv
<1>4. ASSUME IInv, NEW t \in Task, Grant(t) PROVE IInv'
  BY <1>4, GrantInv
<1>5. ASSUME IInv, NEW t \in Task, Return(t) PROVE IInv'
  BY <1>5, ReturnInv
<1>6. ASSUME IInv, NEW t \in Task, Suspend(t) PROVE IInv'
  BY <1>6, SuspendInv
<1>7. ASSUME IInv, NEW t \in Task, Unregister(t) PROVE IInv'
  BY <1>7, UnregisterInv
<1>8. ASSUME IInv, AllDone \/ UNCHANGED vars PROVE IInv'
  BY <1>8, StutterInv DEF AllDone
<1>9. QED
  BY <1>1, <1>2, <1>3, <1>4, <1>5, <1>6, <1>7, <1>8 DEF Next

LEMMA Invariance == SafeSpec => []IInv
BY InitInv, NextInv, PTL DEF SafeSpec

----------------------------------------------------------------------------
(* The results *)

\* Type correctness: no field of the scheduler leaves its range, in particular
\* the free jobs never drop below 0 nor exceed the number of jobs.
THEOREM TypeCorrect == SafeSpec => []TypeOK
BY Invariance, PTL DEF IInv

\* The scheduler neither loses nor makes up jobs.
THEOREM JobsAreConserved == SafeSpec => []JobsConserved
BY Invariance, PTL DEF IInv

\* No task works with more jobs than it is charged for.
THEOREM NoTaskExceedsAllocation == SafeSpec => []WorksWithinAllocation
BY Invariance, PTL DEF IInv

\* Both together: what the tasks use is never more than NumJobs.
THEOREM JobsAreAccounted == SafeSpec => []JobsAccounted
BY Invariance, PTL DEF IInv, JobsAccounted

\* No sleep without a task that will end it: the two critical sections of
\* allocateJobsForTask lose no wake-up.
THEOREM NoLostWakeup == SafeSpec => []WakerAwake
BY Invariance, PTL DEF IInv

\* No job idles: whenever all tasks have settled and a job is free, every
\* eligible task has a job already.
THEOREM JobsDoNotIdle == SafeSpec => []WorkConserving
BY Invariance, PTL DEF IInv

\* The scheduler implements the pool of goroutines: what tasks use fits within
\* the number of jobs at every moment, and changes only between rounds of work.
THEOREM SchedulerIsPool == SafeSpec => ImplementsPool
<1> USE SchedulerAssumption
<1>1. Init => Pool!Init
  BY DEF Init, Pool!Init, Pool!Task, Task
<1>2. IInv /\ IInv' /\ [Next]_vars => [Pool!Next]_using
  <2> SUFFICES ASSUME IInv, IInv', [Next]_vars PROVE Pool!Next \/ using' = using
    OBVIOUS
  <2>1. ASSUME NEW t \in Task, Return(t) PROVE Pool!Begin(t)
    <3>1. using[t] = 0 /\ jobs[t] \in 1..NumJobs /\ using' = [using EXCEPT ![t] = jobs[t]]
      BY <2>1 DEF IInv, TypeOK, WorkersHold, Return, Allocated
    <3>2. Pool!Fit(using')
      <4> DEFINE f == jobs' g == using' total == NumJobs - free'
      <4>1. /\ f \in [Task -> 0..NumJobs] /\ g \in [Task -> 0..NumJobs]
            /\ SumsTo(f, total) /\ \A u \in Task : g[u] <= f[u]
        BY DEF IInv, TypeOK, JobsConserved, SumsTo, WorksWithinAllocation
      <4> HIDE DEF f, g, total
      <4>2. Pool!Fit(g)
        BY <4>1, SumFits
      <4>3. QED
        BY <4>2 DEF g
    <3>3. QED
      BY <3>1, <3>2 DEF Pool!Begin
  <2>2. ASSUME NEW t \in Task, Release(t) \/ Unregister(t) PROVE Pool!End(t) \/ using' = using
    <3>1. using \in [Task -> 0..NumJobs] /\ using' = [using EXCEPT ![t] = 0]
      BY <2>2 DEF IInv, TypeOK, Release, Unregister
    <3>2. CASE using[t] = 0
      BY <3>1, <3>2
    <3>3. CASE using[t] > 0
      BY <3>1, <3>3 DEF Pool!End
    <3>4. QED
      BY <3>1, <3>2, <3>3
  <2>3. ASSUME NEW t \in Task, NEW p \in Priorities, Register(t, p) PROVE using' = using
    BY <2>3 DEF Register
  <2>4. ASSUME NEW t \in Task, Enter(t) \/ Grant(t) \/ Suspend(t) PROVE using' = using
    BY <2>4 DEF Enter, Grant, Suspend
  <2>5. CASE AllDone \/ UNCHANGED vars
    BY <2>5 DEF AllDone, vars
  <2>6. QED
    BY <2>1, <2>2, <2>3, <2>4, <2>5 DEF Next, Pool!Next, Pool!Task, Task
<1>3. QED
  BY <1>1, <1>2, Invariance, PTL DEF SafeSpec, ImplementsPool, Pool!Spec

----------------------------------------------------------------------------
(* The training loops *)

\* The loader only has privileged tasks left to register.
LeftArePrivileged == left \subseteq Privileged

LEMMA LeftInvariant == TrainingSafeSpec => []LeftArePrivileged
<1> USE DEF LeftArePrivileged
<1>1. TrainingInit => LeftArePrivileged
  BY DEF TrainingInit
<1>2. ASSUME LeftArePrivileged, [TrainingNext]_masterTrainingVars PROVE LeftArePrivileged'
  <2>1. CASE LoaderStep
    BY <1>2, <2>1 DEF LoaderStep, Replace, LoaderRegisters, LoaderStarts
  <2>2. ASSUME NEW t \in Task, TaskStep(t) PROVE left' = left
    BY <2>2 DEF TaskStep, CallsInit, InScheduler, RunBegins, AsksAgain, RunEnds, Ends,
                trainingVars
  <2>3. QED
    BY <1>2, <2>1, <2>2
       DEF TrainingNext, LoadBegins, SearchRegisters, Finished, masterTrainingVars, trainingVars
<1>3. QED
  BY <1>1, <1>2, PTL DEF TrainingSafeSpec

\* Every step of the master is a step of the scheduler or leaves it alone.
LEMMA StepIsSchedulerStep ==
  ASSUME LeftArePrivileged, [TrainingNext]_masterTrainingVars
  PROVE  [Next]_vars
<1>1. CASE LoadBegins
  BY <1>1 DEF LoadBegins
<1>2. CASE LoaderStep
  <2>1. CASE \E d \in DataSet : Replace(d)
    BY <2>1 DEF Replace
  <2>2. CASE LoaderRegisters
    <3>1. PICK t \in left : \/ \E p \in Priorities : Register(t, p)
                           \/ UNCHANGED vars
      BY <2>2 DEF LoaderRegisters
    <3>2. CASE UNCHANGED vars
      BY <3>2
    <3>3. ASSUME NEW p \in Priorities, Register(t, p) PROVE Next
      <4>1. t \in Task
        BY SchedulerAssumption DEF LeftArePrivileged
      <4>2. QED
        BY <3>3, <4>1 DEF Next
    <3>4. QED
      BY <3>1, <3>2, <3>3
  <2>3. CASE LoaderStarts
    BY <2>3 DEF LoaderStarts
  <2>4. QED
    BY <1>2, <2>1, <2>2, <2>3 DEF LoaderStep
<1>3. ASSUME NEW t \in Task, SearchRegisters(t) PROVE Next
  BY <1>3 DEF SearchRegisters, Next
<1>4. ASSUME NEW t \in Task, TaskStep(t) PROVE [Next]_vars
  <2>1. CASE CallsInit(t) \/ AsksAgain(t)
    BY <2>1 DEF CallsInit, AsksAgain, Next
  <2>2. CASE InScheduler(t)
    BY <2>2 DEF InScheduler, Next
  <2>3. CASE RunBegins(t) \/ RunEnds(t)
    BY <2>3 DEF RunBegins, RunEnds
  <2>4. CASE Ends(t)
    BY <2>4 DEF Ends, Next
  <2>5. QED
    BY <1>4, <2>1, <2>2, <2>3, <2>4 DEF TaskStep
<1>5. CASE Finished \/ UNCHANGED masterTrainingVars
  BY <1>5 DEF Finished, masterTrainingVars
<1>6. QED
  BY <1>1, <1>2, <1>3, <1>4, <1>5 DEF TrainingNext

\* The master implements the scheduler's specification.
THEOREM TrainingImplementsScheduler == TrainingSafeSpec => SafeSpec
<1>1. TrainingInit => Init
  BY DEF TrainingInit
<1>2. LeftArePrivileged /\ [TrainingNext]_masterTrainingVars => [Next]_vars
  BY StepIsSchedulerStep
<1>3. QED
  BY <1>1, <1>2, LeftInvariant, PTL DEF TrainingSafeSpec, SafeSpec

----------------------------------------------------------------------------
\* A task inside run is among the readers of its data set, and that data set
\* still is the one it found.
ReadersInv ==
  /\ TypeOK
  /\ step \in [Task -> Step]
  /\ readers \in [DataSet -> SUBSET Task]
  /\ \A t \in Task : step[t] = "run" /\ DataOf[t] # None => t \in readers[DataOf[t]]
  /\ ReadsOneVersion
  /\ dataVersion \in [DataSet -> Int]
  /\ seen \in [Task -> Int]

LEMMA ReadersInit == TrainingInit => ReadersInv
<1> SUFFICES ASSUME TrainingInit PROVE ReadersInv
  OBVIOUS
<1>1. TypeOK
  BY InitInv DEF TrainingInit, IInv
<1>2. QED
  BY <1>1 DEF TrainingInit, ReadersInv, ReadsOneVersion, Step

LEMMA DataType == DataOf \in [Task -> DataSet \cup {None}]
BY DEF DataOf, DataSet

LEMMA ReadersNext ==
  ASSUME ReadersInv, TypeOK', [TrainingNext]_masterTrainingVars
  PROVE  ReadersInv'
<1> USE DataType DEF ReadersInv, ReadsOneVersion, Data
<1>1. CASE LoadBegins
  BY <1>1 DEF LoadBegins
<1>2. ASSUME NEW d \in DataSet, Replace(d) PROVE ReadersInv'
  <2>1. /\ readers[d] = {} /\ UNCHANGED <<step, readers, seen>>
        /\ dataVersion' = [dataVersion EXCEPT ![d] = @ + 1]
    BY <1>2 DEF Replace
  <2>2. \A t \in Task : step[t] = "run" /\ DataOf[t] # None => DataOf[t] # d
    BY <2>1
  <2>3. \A t \in Task : DataOf[t] # None => DataOf[t] \in DataSet
    BY DEF DataSet
  <2>4. ReadsOneVersion'
    BY <2>1, <2>2, <2>3
  <2>5. QED
    BY <2>1, <2>4
<1>3. CASE LoaderRegisters \/ LoaderStarts
  BY <1>3 DEF LoaderRegisters, LoaderStarts
<1>4. ASSUME NEW t \in Task, SearchRegisters(t) PROVE ReadersInv'
  BY <1>4 DEF SearchRegisters, trainingVars
<1>5. ASSUME NEW t \in Task, TaskStep(t) PROVE ReadersInv'
  <2>1. CASE CallsInit(t) \/ InScheduler(t) \/ AsksAgain(t)
    BY <2>1 DEF CallsInit, InScheduler, AsksAgain, trainingVars
  <2>2. CASE RunBegins(t)
    BY <2>2 DEF RunBegins, Step, DataSet
  <2>3. CASE RunEnds(t)
    BY <2>3 DEF RunEnds, Step, DataSet
  <2>4. CASE Ends(t)
    BY <2>4 DEF Ends, Step
  <2>5. QED
    BY <1>5, <2>1, <2>2, <2>3, <2>4 DEF TaskStep
<1>6. CASE Finished \/ UNCHANGED masterTrainingVars
  BY <1>6 DEF Finished, masterTrainingVars, trainingVars
<1>7. QED
  BY <1>1, <1>2, <1>3, <1>4, <1>5, <1>6 DEF TrainingNext, LoaderStep

\* No data set is replaced under a task that reads it.
THEOREM TasksReadOneVersion == TrainingSafeSpec => []ReadsOneVersion
<1>1. TrainingSafeSpec => []TypeOK
  BY TrainingImplementsScheduler, TypeCorrect, PTL
<1>2. ReadersInv /\ TypeOK' /\ [TrainingNext]_masterTrainingVars => ReadersInv'
  BY ReadersNext
<1>3. ReadersInv => ReadsOneVersion
  BY DEF ReadersInv
<1>4. QED
  BY <1>1, <1>2, <1>3, ReadersInit, PTL DEF TrainingSafeSpec

\* The jobs of the master's tasks are conserved and no wake-up is lost in it,
\* whatever the data locks make the tasks wait for.
THEOREM TrainingConservesJobs == TrainingSafeSpec => [](JobsConserved /\ WakerAwake)
BY TrainingImplementsScheduler, JobsAreConserved, NoLostWakeup, PTL
=============================================================================
