------------------------------ MODULE MCWorker ------------------------------
(***************************************************************************)
(* What the goroutines of a process do to each other: those of a worker    *)
(* that recommend to users (RecommendRound), those that build the index of *)
(* the items before that (IndexBuild), and the tasks of the master         *)
(* (MasterTraining).  A round begins when its index is built, and the      *)
(* master shares no memory with them, so that a behaviour is of one.       *)
(***************************************************************************)
EXTENDS RecommendRound, IndexBuild, MasterTraining

VARIABLE busy   \* "rounds", "index" or "training"

workerVars == <<recommendVars, indexVars, masterTrainingVars, busy>>

WorkerInit ==
  /\ busy \in {"rounds", "index", "training"}
  /\ RoundInit /\ IndexInit /\ TrainingInit
WorkerNext ==
  /\ UNCHANGED busy
  /\ \/ busy = "rounds" /\ RoundNext /\ UNCHANGED <<indexVars, masterTrainingVars>>
     \/ busy = "index" /\ IndexNext /\ UNCHANGED <<recommendVars, masterTrainingVars>>
     \/ busy = "training" /\ TrainingNext /\ UNCHANGED <<recommendVars, indexVars>>

\* Goroutines run, tickers fire and time passes (FairRoundSpec).
Recommends(A) == busy = "rounds" /\ A /\ UNCHANGED <<indexVars, masterTrainingVars, busy>>
WorkerSpec ==
  /\ WorkerInit /\ [][WorkerNext]_workerVars
  /\ \A u \in User : /\ WF_workerVars(Recommends(SetsTime(u)))
                     /\ WF_workerVars(Recommends(Expires(u)))
  /\ \A j \in Job : WF_workerVars(Recommends(JobRuns(j)))
  /\ WF_workerVars(Recommends(RoundBegins))
  /\ WF_workerVars(Recommends(RoundEnds))

----------------------------------------------------------------------------
(* Properties *)

\* The goroutines that build an index never wait for each other in a cycle
\* (hnsw.go 175-242).
BuildsGoOn == busy = "index" => BuildGoesOn

\* Rounds come to know all feedback when it stops (worker.go 1197).
RoundsCatchUp == busy = "rounds" => RecommendationsCatchUp

----------------------------------------------------------------------------
(* Two users and two goroutines of a round; four vectors on a line. *)
Place == <<10, 2, 17, 5>>
Line(v, w) == IF Place[v] > Place[w] THEN Place[v] - Place[w] ELSE Place[w] - Place[v]
=============================================================================
