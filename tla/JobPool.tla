------------------------------ MODULE JobPool ------------------------------
(***************************************************************************)
(* What JobsScheduler promises the machine: the goroutines of all tasks    *)
(* together never exceed the number of jobs, and a task changes how many   *)
(* it uses only between two rounds of work.                                *)
(***************************************************************************)
EXTENDS Integers

CONSTANTS NumTasks, NumJobs

VARIABLE using   \* task -> goroutines it runs, 0 between its rounds

Task == 1..NumTasks

\* All together they fit: counted up task by task they stay within NumJobs.
Fit(f) ==
  \E s \in [0..NumTasks -> 0..NumJobs] : \A t \in Task : s[t - 1] + f[t] <= s[t]

Init == using = [t \in Task |-> 0]

Begin(t) ==
  /\ using[t] = 0
  /\ \E k \in 1..NumJobs : using' = [using EXCEPT ![t] = k]
  /\ Fit(using')

End(t) ==
  /\ using[t] > 0
  /\ using' = [using EXCEPT ![t] = 0]

Next == \E t \in Task : Begin(t) \/ End(t)

Spec == Init /\ [][Next]_using
=============================================================================
